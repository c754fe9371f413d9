------------------------------ MODULE ApiSteps ------------------------------
(***************************************************************************)
(* The vocabulary in which the tables of handlers are written.  A handler  *)
(* of the web API is straight-line code: it refuses a request it cannot    *)
(* use, asks the application, has it do something, and answers.  A route   *)
(* is that sequence of steps and the status of an answer that says         *)
(* everything went well.                                                   *)
(***************************************************************************)
EXTENDS Integers, Sequences

(* The handler looks at the request or at what it has read and answers "code" or goes on. *)
Refuse(code) == [do |-> "refuse", code |-> code]
Decode == Refuse(400)

(* apiError: the application's own status goes to the caller if it gave one, "code" if not. *)
Read(code) == [do |-> "read", code |-> code]
Write(code) == [do |-> "write", code |-> code]

(* A command whose failure is answered with "code" whatever the application said. *)
Command(code) == [do |-> "command", code |-> code]

(* Whether the title is there already, 409 if it is, and the addition of that title. *)
Look(code) == [do |-> "look", code |-> code]
Add(code) == [do |-> "add", code |-> code]

(* DelOK, 423 when the limit is reached; what DelOK allows is a deletion. *)
Limit == [do |-> "limit", code |-> 423]

(* One deletion for each entry of a list: an error is noted, and the loop goes on. *)
Each == [do |-> "each", code |-> 200]

(* Something of the client's own: that cannot fail, that fails with "code", that nobody learns the end of. *)
Act == [do |-> "act", code |-> 200]
Local(code) == [do |-> "local", code |-> code]
Try == [do |-> "try", code |-> 200]

(* The handler may leave with nothing done, as if all were done. *)
Skip == [do |-> "skip", code |-> 200]

Route(ok, steps) == [ok |-> ok, steps |-> steps]
Ok(steps) == Route(200, steps)

(* The shapes most handlers have. *)
Fetch(code) == Ok(<<Read(code)>>)
Order(code) == Ok(<<Write(code)>>)
Change(code) == Ok(<<Decode, Write(code)>>)
Clear(code) == Ok(<<Read(code), Each>>)
=============================================================================
