------------------------------ MODULE FileWatch ------------------------------
(***************************************************************************)
(* The file watcher (pkg/triggers/filewatch): one goroutine reads the      *)
(* lines of every watched file, forgets the tails that have closed and, on *)
(* a ticker, starts those anew that died. The handlers of the web UI start *)
(* and stop one file; the goroutine that restarts the actions when the     *)
(* website reconfigures them stops all and runs the loop again. A file has *)
(* the lock mu, around its tail only; awMutex guards the channel through   *)
(* which files are added.                                                  *)
(*                                                                         *)
(* A tail is an object of the library nxadm/tail: its Lines are open while *)
(* it lives. It ends when it is stopped, or by an error, and then Stop     *)
(* returns that error each time it is called.                              *)
(***************************************************************************)
EXTENDS Integers, Sequences, FiniteSets, Bags

CONSTANTS
  Files,        (* the files configured, with a valid expression           *)
  MayMiss,      (* those that may be impossible to open                    *)
  Handlers,     (* goroutines of the web server                            *)
  Stopper,      (* the goroutine that stops the actions                    *)
  Loop,         (* the goroutine of cmd.run                                *)
  Nobody,
  Tails,        (* bound: the tails there can be at a time                 *)
  MaxCalls,     (* bound: the requests that the handlers get               *)
  MaxRestarts,  (* bound: how often the website does so                    *)
  MaxRetries

ASSUME FileAssumption ==
  /\ MayMiss \subseteq Files
  /\ Stopper \notin Handlers /\ Loop \notin Handlers \cup {Stopper}
  /\ Nobody \notin Handlers \cup {Stopper, Loop} \cup Files \cup Tails
  /\ IsFiniteSet(Files)
  /\ MaxRetries \in Nat \ {0} /\ MaxCalls \in Nat /\ MaxRestarts \in Nat

Procs == Handlers \cup {Stopper, Loop}

VARIABLES
  tail,         (* w.tail of each file, or Nobody                          *)
  live,         (* the tails whose Lines are open                          *)
  failed,       (* the tails of files that died of an error                *)
  retries,      (* w.retries                                               *)
  watched,      (* the cases of the loop, a bag of files, each with the    *)
                (* tail whose Lines are read                               *)
  added,        (* what is in the channel addWatcher                       *)
  chan,         (* that channel: "nil", "open" or "closed"                 *)
  cap,          (* and its capacity                                        *)
  at, on,       (* where each goroutine is, and the file it works on       *)
  todo,         (* the files that it still has to look at                  *)
  valid,        (* the files that run has set up                           *)
  tries,        (* the retry that the ticker is at                         *)
  died,         (* what killWatcher or the ticker last said                *)
  writer,       (* who holds awMutex for writing, or waits for the readers *)
  calls,        (* those that came so far                                  *)
  restarts,     (* and the restarts                                        *)
  doubled,      (* history: a file was set up although its tail lived      *)
  rushed,       (* history: one was started or stopped as somebody did so  *)
  crashed       (* "no", or the panic of a goroutine that nothing recovers:*)
                (* "early" if run had not made its channel                 *)

tailVars == <<tail, live, failed, retries>>
chanVars == <<added, chan, cap, writer>>
loopVars == <<watched, valid, tries, died>>
procVars == <<at, on, todo>>
boundVars == <<calls, restarts>>
ghostVars == <<doubled, rushed>>
vars == <<tailVars, chanVars, loopVars, procVars, boundVars, ghostVars, crashed>>

Init ==
  /\ tail = [f \in Files |-> Nobody] /\ live = {} /\ failed = {}
  /\ retries = [f \in Files |-> 0]
  /\ watched = EmptyBag /\ valid = {} /\ tries = 0 /\ died = FALSE
  /\ added = <<>> /\ chan = "nil" /\ cap = 0 /\ writer = Nobody
  /\ at = [p \in Procs |-> IF p = Loop THEN "setup" ELSE "idle"]
  /\ on = [p \in Procs |-> Nobody]
  /\ todo = [p \in Procs |-> IF p = Loop THEN Files ELSE {}]
  /\ calls = 0 /\ restarts = 0 /\ doubled = FALSE /\ rushed = FALSE /\ crashed = "no"

Active(f) == tail[f] # Nobody

(* The files in the channel.                                               *)
Queued == {added[i] : i \in 1 .. Len(added)}

(* Who holds awMutex for reading: the lock is taken with the setup.        *)
Readers == {p \in Procs : at[p] = "queue"}

AtFile == {"stop", "mark", "halt", "add", "queue", "kill", "unwatch", "restart"}

Turn(p, place, f) == at' = [at EXCEPT ![p] = place] /\ on' = [on EXCEPT ![p] = f]
Go(p, place) == Turn(p, place, IF place \in AtFile THEN on[p] ELSE Nobody)

(* A panic that nothing recovers ends the process.                         *)
Crash(why) ==
  /\ crashed' = why
  /\ at' = [p \in Procs |-> "dead"]
  /\ UNCHANGED <<tailVars, chanVars, loopVars, on, todo, boundVars, ghostVars>>

(* Somebody else is starting or stopping the file.                         *)
Busy(f, p) ==
  \/ f \in valid \cup Queued
  \/ \E q \in Procs \ {p} : at[q] \in {"mark", "halt", "unwatch", "queue"} /\ on[q] = f

-----------------------------------------------------------------------------
(* WatchFile.setup: a new tail, or none.                                   *)

Cases == BagToSet(watched)

Referenced == {tail[f] : f \in Files} \cup {c[2] : c \in Cases}

Replaces(f, p) ==
  /\ failed' = failed \ {tail[f]}
  /\ doubled' = (doubled \/ tail[f] \in live)
  /\ rushed' = (rushed \/ Busy(f, p))

NewTail == CHOOSE t \in Tails : t \notin Referenced

Opens(f, p) ==
  /\ Tails \ Referenced # {}
  /\ tail' = [tail EXCEPT ![f] = NewTail]
  /\ live' = live \cup {NewTail}
  /\ Replaces(f, p)

Misses(f, p) ==
  /\ f \in MayMiss
  /\ tail' = [tail EXCEPT ![f] = Nobody]
  /\ Replaces(f, p)
  /\ UNCHANGED live

Retry(f, n) == retries' = [retries EXCEPT ![f] = n]

(* The library.                                                            *)
TailDies(t) ==
  /\ t \in live \cap Referenced
  /\ live' = live \ {t} /\ failed' = failed \cup ({t} \cap {tail[f] : f \in Files})
  /\ UNCHANGED <<tail, retries, chanVars, loopVars, procVars, ghostVars, boundVars, crashed>>

-----------------------------------------------------------------------------
(* WatchFile.Stop, by a handler or by cmd.stop.                            *)

(* The next thing after a file: a handler is through, cmd.stop goes on.    *)
After(p) == IF p = Stopper THEN "files" ELSE "idle"

StopCheck(p) ==
  /\ at[p] = "stop"
  /\ IF Active(on[p]) THEN Go(p, "mark") ELSE Go(p, After(p))
  /\ UNCHANGED <<tailVars, chanVars, loopVars, todo, ghostVars, boundVars, crashed>>

(* It will not get restarted.                                              *)
Mark(p) ==
  /\ at[p] = "mark"
  /\ retries' = [retries EXCEPT ![on[p]] = MaxRetries]
  /\ Go(p, "halt")
  /\ UNCHANGED <<tail, live, failed, chanVars, loopVars, todo, ghostVars, boundVars, crashed>>

(* w.stop: a tail that died says so and is kept. Mutant: it is forgotten   *)
(* but not closed.                                                         *)
StaysOpen(f) == live
Closed(f) == live \ {tail[f]}

StopTail(p, f) ==
  \/ tail[f] \in failed /\ UNCHANGED <<tail, live, failed, rushed>>
  \/ /\ tail[f] \notin failed
     /\ live' = Closed(f)
     /\ tail' = [tail EXCEPT ![f] = Nobody]
     /\ rushed' = (rushed \/ Busy(f, p))
     /\ UNCHANGED failed

(* Another one may have stopped it: net/http recovers its handlers.        *)
Halt(p) ==
  /\ at[p] = "halt"
  /\ \/ /\ Active(on[p]) /\ StopTail(p, on[p])
        /\ Go(p, After(p))
        /\ UNCHANGED <<retries, chanVars, loopVars, todo, doubled, boundVars, crashed>>
     \/ /\ ~Active(on[p]) /\ p \in Handlers
        /\ Go(p, "idle")
        /\ UNCHANGED <<tailVars, chanVars, loopVars, todo, ghostVars, boundVars, crashed>>
     \/ ~Active(on[p]) /\ p = Stopper /\ Crash("panic")

-----------------------------------------------------------------------------
(* The handlers: handleStartFileWatcher and handleStopFileWatcher.         *)

Call(h) ==
  /\ at[h] = "idle" /\ calls < MaxCalls /\ calls' = calls + 1
  /\ \E f \in Files :
       \/ Active(f) /\ Turn(h, "stop", f)
       \/ ~Active(f) /\ Turn(h, "add", f)
  /\ UNCHANGED <<tailVars, chanVars, loopVars, todo, restarts, ghostVars, crashed>>

(* addFileWatcher: a writer that waits keeps readers out. Nothing is added *)
(* while there is no loop.                                                 *)
AddFile(h) ==
  /\ at[h] = "add" /\ writer = Nobody
  /\ \/ /\ chan # "nil"
        /\ \/ Opens(on[h], h) /\ Retry(on[h], 0) /\ Go(h, "queue")
           \/ Misses(on[h], h) /\ Retry(on[h], MaxRetries) /\ Go(h, "idle")
     \/ chan = "nil" /\ Go(h, "idle") /\ UNCHANGED <<tailVars, ghostVars>>
  /\ UNCHANGED <<chanVars, loopVars, todo, boundVars, crashed>>

Enqueue(p) == Len(added) < cap /\ added' = Append(added, on[p])

QueueFile(h) ==
  /\ at[h] = "queue" /\ Enqueue(h)
  /\ Go(h, "idle")
  /\ UNCHANGED <<tailVars, chan, cap, writer, loopVars, todo, ghostVars, boundVars, crashed>>

-----------------------------------------------------------------------------
(* The loop: run, collectFileTails, tailFiles.                             *)

Setup(f) ==
  /\ at[Loop] = "setup" /\ f \in todo[Loop]
  /\ \/ Opens(f, Loop) /\ Retry(f, 0) /\ valid' = valid \cup {f}
     \/ Misses(f, Loop) /\ Retry(f, MaxRetries) /\ UNCHANGED valid
  /\ todo' = [todo EXCEPT ![Loop] = @ \ {f}]
  /\ UNCHANGED <<chanVars, watched, tries, died, at, on, boundVars, crashed>>

(* A file that was stopped since its setup has no Lines to read.           *)
Collect ==
  /\ at[Loop] = "setup" /\ todo[Loop] = {} /\ writer = Nobody
  /\ IF \A f \in valid : Active(f)
     THEN /\ watched' = SetToBag({<<f, tail[f]>> : f \in valid})
          /\ chan' = "open" /\ added' = <<>>
          /\ cap' = Cardinality(valid) + 3
          /\ valid' = {}
          /\ Go(Loop, "select")
          /\ UNCHANGED <<tailVars, writer, tries, died, todo, ghostVars,
                 boundVars, crashed>>
     ELSE Crash("panic")

(* The arms of reflect.Select: a line of a file, which resets its retries, *)
Line(c) ==
  /\ at[Loop] = "select" /\ c[2] \in live
  /\ retries' = [retries EXCEPT ![c[1]] = 0]
  /\ UNCHANGED <<tail, live, failed, chanVars, loopVars, procVars, ghostVars, boundVars, crashed>>

(* a file that is added; one that was stopped meanwhile has no tail.       *)
(* Mutant: the newest one is read in place of the others.                  *)
Replaced(f) == SetToBag({<<f, tail[f]>>})
AlsoWatched(f) == watched (+) SetToBag({<<f, tail[f]>>})

Take ==
  /\ at[Loop] = "select" /\ added # <<>>
  /\ IF Active(Head(added))
     THEN /\ added' = Tail(added) /\ watched' = AlsoWatched(Head(added))
          /\ UNCHANGED <<tailVars, chan, cap, writer, valid, tries, died, procVars, ghostVars,
                         boundVars, crashed>>
     ELSE Crash("panic")

(* closed Lines,                                                           *)
Gone(c) ==
  /\ at[Loop] = "select" /\ c[2] \notin live
  /\ watched' = watched (-) SetToBag({c})
  /\ Turn(Loop, "kill", c[1])
  /\ UNCHANGED <<tailVars, chanVars, valid, tries, died, todo, ghostVars,
                 boundVars, crashed>>

(* the ticker, when one has died,                                          *)
Tick ==
  /\ at[Loop] = "select" /\ died
  /\ died' = FALSE
  /\ Go(Loop, "tick") /\ todo' = [todo EXCEPT ![Loop] = Files]
  /\ UNCHANGED <<tailVars, chanVars, watched, valid, tries, ghostVars, boundVars, crashed>>

(* and the closed channel, which counts when nothing else is left.         *)
(* Mutant: it ends the loop at once.                                       *)
AtOnce == added = <<>> /\ chan = "closed"
NothingLeft == added = <<>> /\ chan = "closed" /\ Cases = {}

Leave ==
  /\ at[Loop] = "select" /\ NothingLeft
  /\ Go(Loop, "done")
  /\ UNCHANGED <<tailVars, chanVars, loopVars, todo, ghostVars, boundVars, crashed>>

(* killWatcher: deactivate looks whether the file is active, then stops    *)
(* its tail, whichever that is by now. Mutant: it does not look.           *)
Trusts(f) == TRUE
MayStop(f) == Active(f)

Kill ==
  /\ at[Loop] = "kill"
  /\ IF MayStop(on[Loop])
     THEN Go(Loop, "unwatch") /\ UNCHANGED died
     ELSE Go(Loop, "select") /\ died' = FALSE
  /\ UNCHANGED <<tailVars, chanVars, watched, valid, tries, todo, ghostVars, boundVars, crashed>>

Unwatch ==
  /\ at[Loop] = "unwatch"
  /\ IF Active(on[Loop])
     THEN /\ StopTail(Loop, on[Loop])
          /\ died' = (tail[on[Loop]] \in failed)
          /\ Go(Loop, "select")
          /\ UNCHANGED <<retries, chanVars, watched, valid, tries, todo, doubled,
                         boundVars, crashed>>
     ELSE Crash("panic")

(* fileWatcherTicker: each file that is not active and has retries left.   *)
(* Mutant: one try too many.                                               *)
OnceMore(f) == retries[f] > MaxRetries
GivenUp(f) == retries[f] >= MaxRetries

TickFile(f) ==
  /\ at[Loop] = "tick" /\ f \in todo[Loop]
  /\ todo' = [todo EXCEPT ![Loop] = @ \ {f}]
  /\ IF Active(f) \/ GivenUp(f)
     THEN UNCHANGED <<retries, tries, at, on>>
     ELSE /\ retries' = [retries EXCEPT ![f] = @ + 1]
          /\ tries' = retries[f] + 1
          /\ Turn(Loop, "restart", f)
  /\ UNCHANGED <<tail, live, failed, chanVars, watched, valid, died, ghostVars, boundVars, crashed>>

TickEnds ==
  /\ at[Loop] = "tick" /\ todo[Loop] = {}
  /\ Go(Loop, "select")
  /\ UNCHANGED <<tailVars, chanVars, loopVars, todo, ghostVars, boundVars, crashed>>

(* addFileWatcher, by the loop itself.                                     *)
Restart ==
  /\ at[Loop] = "restart" /\ writer = Nobody
  /\ \/ /\ Opens(on[Loop], Loop) /\ Retry(on[Loop], 0)
        /\ Go(Loop, "queue") /\ UNCHANGED <<tries, died>>
     \/ /\ Misses(on[Loop], Loop) /\ Retry(on[Loop], tries)
        /\ Go(Loop, "tick") /\ tries' = 0 /\ died' = TRUE
  /\ UNCHANGED <<chanVars, watched, valid, todo, boundVars, crashed>>

QueueRestart ==
  /\ at[Loop] = "queue" /\ Enqueue(Loop)
  /\ retries' = [retries EXCEPT ![on[Loop]] = tries]
  /\ Go(Loop, "tick") /\ tries' = 0
  /\ UNCHANGED <<tail, live, failed, chan, cap, writer, watched, valid, died, todo, ghostVars,
                 boundVars, crashed>>

-----------------------------------------------------------------------------
(* cmd.stop, and the run that follows when watchChan restarts the actions. *)

StopAnnounce ==
  /\ at[Stopper] = "idle" /\ writer = Nobody
  /\ writer' = Stopper /\ Go(Stopper, "lock")
  /\ UNCHANGED <<tailVars, added, chan, cap, loopVars, todo, ghostVars, boundVars, crashed>>

StopLock ==
  /\ at[Stopper] = "lock" /\ Readers = {}
  /\ Go(Stopper, "files") /\ todo' = [todo EXCEPT ![Stopper] = Files]
  /\ UNCHANGED <<tailVars, chanVars, loopVars, ghostVars, boundVars, crashed>>

StopFile(f) ==
  /\ at[Stopper] = "files" /\ f \in todo[Stopper]
  /\ Turn(Stopper, "stop", f)
  /\ todo' = [todo EXCEPT ![Stopper] = @ \ {f}]
  /\ UNCHANGED <<tailVars, chanVars, loopVars, ghostVars, boundVars, crashed>>

(* There is no channel to close if run has not got so far.                 *)
StopClose ==
  /\ at[Stopper] = "files" /\ todo[Stopper] = {}
  /\ IF chan = "nil" THEN Crash("early")
     ELSE /\ chan' = "closed" /\ Go(Stopper, "wait")
          /\ UNCHANGED <<tailVars, added, cap, writer, loopVars, todo, ghostVars, boundVars,
                         crashed>>

StopEnds ==
  /\ at[Stopper] = "wait" /\ at[Loop] = "done"
  /\ chan' = "nil" /\ cap' = 0 /\ writer' = Nobody
  /\ Go(Stopper, "stopped")
  /\ UNCHANGED <<tailVars, added, loopVars, todo, ghostVars, boundVars, crashed>>

RunAgain ==
  /\ at[Stopper] = "stopped" /\ restarts < MaxRestarts
  /\ restarts' = restarts + 1
  /\ at' = [at EXCEPT ![Stopper] = "idle", ![Loop] = "setup"]
  /\ todo' = [todo EXCEPT ![Loop] = Files]
  /\ died' = FALSE
  /\ UNCHANGED <<tailVars, chanVars, watched, valid, tries, on, calls, ghostVars, crashed>>

-----------------------------------------------------------------------------
StopSteps(p) == StopCheck(p) \/ Mark(p) \/ Halt(p)

HandlerStep(h) == AddFile(h) \/ QueueFile(h) \/ StopSteps(h)

Inner ==
  \/ \E f \in Files : Setup(f) \/ TickFile(f)
  \/ Collect \/ Kill \/ Unwatch \/ TickEnds \/ Restart \/ QueueRestart

Serves == Take \/ Tick \/ Leave \/ \E c \in Cases : Gone(c)

StopperStep ==
  StopLock \/ StopClose \/ StopEnds \/ StopSteps(Stopper) \/ \E f \in Files : StopFile(f)

Next ==
  \/ \E t \in Tails : TailDies(t)
  \/ \E h \in Handlers : Call(h) \/ HandlerStep(h)
  \/ Inner \/ Serves
  \/ \E c \in Cases : Line(c)
  \/ StopAnnounce \/ StopperStep \/ RunAgain

Spec == Init /\ [][Next]_vars

(* The lines of a file do not keep reflect.Select, which picks at random,  *)
(* from the other arms for ever; a lock and a channel serve who waits.     *)
Fairness ==
  /\ WF_vars(Inner) /\ WF_vars(StopperStep) /\ SF_vars(Serves)
  /\ \A h \in Handlers : SF_vars(HandlerStep(h))

FairSpec == Spec /\ Fairness

-----------------------------------------------------------------------------
(* Properties.                                                             *)

Places == {"idle", "stop", "mark", "halt", "add", "queue", "setup", "select", "kill", "unwatch",
           "tick", "restart", "done", "lock", "files", "wait", "stopped", "dead"}

(* Every variable keeps its type, the channel its capacity, and a file is  *)
(* not tried more often than allowed.                                      *)
TypeOK ==
  /\ tail \in [Files -> Tails \cup {Nobody}]
  /\ live \subseteq Tails /\ failed \subseteq Tails
  /\ retries \in [Files -> 0 .. MaxRetries] /\ tries \in 0 .. MaxRetries
  /\ IsABag(watched) /\ Cases \subseteq Files \X Tails
  /\ added \in Seq(Files) /\ cap \in Nat /\ Len(added) <= cap
  /\ chan \in {"nil", "open", "closed"} /\ writer \in {Nobody, Stopper}
  /\ at \in [Procs -> Places] /\ on \in [Procs -> Files \cup {Nobody}]
  /\ todo \in [Procs -> SUBSET Files] /\ valid \subseteq Files
  /\ calls \in 0 .. MaxCalls /\ restarts \in 0 .. MaxRestarts
  /\ died \in BOOLEAN /\ doubled \in BOOLEAN /\ rushed \in BOOLEAN
  /\ crashed \in {"no", "early", "panic"}

(* A file that is active is watched: the loop reads its tail or is about   *)
(* to; nobody forgets one that lives.                                      *)
ActiveIsWatched ==
  \A f \in Files :
    tail[f] \in live =>
      \/ <<f, tail[f]>> \in Cases
      \/ f \in valid \cup Queued
      \/ \E p \in Procs : at[p] = "queue" /\ on[p] = f
      \/ crashed # "no"

(* When cmd.stop has returned no file is read or about to be.              *)
StopIsComplete ==
  at[Stopper] = "stopped" =>
    /\ Cases = {} /\ added = <<>> /\ Readers = {}
    /\ \A f \in Files : tail[f] \notin live

(* A panic that ends the process needs a file that is started or stopped   *)
(* while that is under way already, or a stop before the loop was there.   *)
CrashHasCause == crashed = "panic" => rushed

(* The loop waits for awMutex, which cmd.stop holds until the loop ends.   *)
WaitsForStop == at[Loop] = "restart" /\ writer = Stopper

(* cmd.stop returns, or the process crashes, unless the loop meets that    *)
(* deadlock or a file was started twice at once, whose tail nobody stops.  *)
StopReturns ==
  at[Stopper] # "idle" ~> at[Stopper] \in {"stopped", "dead"} \/ WaitsForStop \/ doubled

(* "checks if a file watcher died and needs to be restarted" (line 307): a *)
(* tail that died of an error is replaced, while there are retries left,   *)
(* unless somebody stops its file or everything.                           *)
DeadRestarted ==
  \A f \in Files :
    tail[f] \in failed /\ retries[f] < MaxRetries ~>
      tail[f] \notin failed \/ retries[f] = MaxRetries \/ at[Stopper] # "idle"
=============================================================================
