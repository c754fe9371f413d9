---------------------------- MODULE ApiRequests ----------------------------
(***************************************************************************)
(* Requests to the client's API and web UI, each run through the steps of  *)
(* its handler (ClientRoutes, StarrRoutes), against applications that may  *)
(* refuse, fail, or do what they were asked and lose the answer.           *)
(*                                                                         *)
(* What several requests share: the title that the requests to add it ask  *)
(* for, and the limiters of deletions, one for each configuration that was *)
(* loaded (a reload builds the applications anew, and a request keeps the  *)
(* application it was given).                                              *)
(***************************************************************************)
EXTENDS ClientRoutes, FiniteSets

CONSTANTS
  Requests,    \* the requests
  Served,      \* [Requests -> SUBSET AllRoutes], what each may be for
  AppCodes,    \* the error statuses an application may answer with
  Deletes,     \* deletions that the configuration allows in an hour
  MaxLoads,    \* bound on the configurations that are loaded
  MaxRefills   \* bound on the deletions each limiter gets back as time goes by

Kinds == {"refuse", "read", "write", "command", "look", "add", "limit", "each", "act", "local", "try", "skip"}

(* What may have been done by the end, but for the deletions of a list and what nobody looks at. *)
Effects == {"write", "command", "add", "act", "local"}
Due(steps) == Cardinality({i \in DOMAIN steps : steps[i].do \in Effects})

(* How the handlers are written, which TLC goes through all of AllRoutes for.  A handler does one thing at most,
   and what it may still answer after that is a 5xx or a 406; its failures have another status than its success,
   and those of what it has done elsewhere a 5xx. *)
IsLate(code) == code \in 500..599 \cup {406}
OneEffect(steps) ==
  \A i \in DOMAIN steps : steps[i].do \in Effects =>
    \A j \in i + 1 .. Len(steps) : steps[j].do = "refuse" /\ IsLate(steps[j].code)
Tells(ok, step) ==
  /\ step.code = ok => step.do \in {"each", "act", "try", "skip"}
  /\ step.do \in {"read", "write", "look", "add"} => ok \notin 400..599
  /\ step.do = "limit" => ok # 423
  /\ step.do \in {"write", "command", "add"} => step.code \in 500..599
AllTell(ok, steps) == \A i \in DOMAIN steps : Tells(ok, steps[i])
LooksFirst(steps) ==
  \A i \in DOMAIN steps : steps[i].do = "add" => \E j \in 1..(i - 1) : steps[j].do = "look"
InOrder(route) ==
  /\ route.ok \in 0..599 /\ route.steps \in Seq([do : Kinds, code : 0..599])
  /\ OneEffect(route.steps) /\ AllTell(route.ok, route.steps) /\ LooksFirst(route.steps)

RequestsAssumption ==
  /\ IsFiniteSet(Requests)
  /\ Served \in [Requests -> SUBSET AllRoutes]
  /\ \A route \in AllRoutes : InOrder(route)
  /\ AppCodes \subseteq 400..599
  /\ {Deletes, MaxLoads, MaxRefills} \subseteq Nat /\ MaxLoads > 0

VARIABLES
  req,       \* each request: where it is, what is left of its route, what it has done
  loads,     \* how many configurations were loaded
  tokens,    \* what is left in the limiter of each
  refills,   \* how many it has got back
  copies     \* how often the application has the title

apiVars == <<req, loads, tokens, refills, copies>>

Loads == 1..MaxLoads
Idle == [at |-> "idle", ok |-> 200, steps |-> <<>>, load |-> 1, code |-> 0, due |-> 0, done |-> 0,
         noted |-> FALSE, alone |-> TRUE]

Init ==
  /\ req = [r \in Requests |-> Idle]
  /\ loads = 1
  /\ tokens = [n \in Loads |-> Deletes]
  /\ refills = [n \in Loads |-> 0]
  /\ copies \in {0, 1}

-----------------------------------------------------------------------------
AtStep(r, kinds) == req[r].at = "work" /\ req[r].steps # <<>> /\ Head(req[r].steps).do \in kinds
Code(r) == Head(req[r].steps).code

(* The handler goes on to its next step, or ends with a status; "n" things were done by the step. *)
GoOn(r, n) == req' = [req EXCEPT ![r].steps = Tail(@), ![r].done = @ + n]
Answer(r, code, n) == req' = [req EXCEPT ![r].at = "answered", ![r].code = code, ![r].steps = <<>>, ![r].done = @ + n]

(* apiError: the status that the application gave, if it gave one.  An application that refuses with
   a 4xx has done nothing. *)
ErrorCodes(r) == {Code(r)} \cup (IF Head(req[r].steps).do = "command" THEN {} ELSE AppCodes)

(* handleAPI: the request is for the application of the configuration that is loaded now. *)
Arrive(r) ==
  \E route \in Served[r] :
    /\ req[r].at = "idle"
    /\ req' = [s \in Requests |->
                 IF s = r THEN [Idle EXCEPT !.at = "work", !.ok = route.ok, !.steps = route.steps, !.load = loads,
                                            !.due = Due(route.steps),
                                            !.alone = \A t \in Requests : req[t].at # "work"]
                 ELSE IF req[s].at = "work" THEN [req[s] EXCEPT !.alone = FALSE] ELSE req[s]]
    /\ UNCHANGED <<loads, tokens, refills, copies>>

Respond(r) ==
  /\ req[r].at = "work" /\ req[r].steps = <<>>
  /\ Answer(r, req[r].ok, 0)
  /\ UNCHANGED <<loads, tokens, refills, copies>>

(* The handler looks at what it has, which it may refuse. *)
LookOver(r) ==
  /\ AtStep(r, {"refuse", "skip"})
  /\ \/ GoOn(r, 0)
     \/ /\ AtStep(r, {"refuse"})
        /\ Answer(r, Code(r), 0)
     \/ /\ AtStep(r, {"skip"})
        /\ req' = [req EXCEPT ![r].steps = <<>>, ![r].noted = TRUE]
  /\ UNCHANGED <<loads, tokens, refills, copies>>

AskApp(r) ==
  /\ AtStep(r, {"read"})
  /\ \/ GoOn(r, 0)
     \/ \E code \in ErrorCodes(r) : Answer(r, code, 0)
  /\ UNCHANGED <<loads, tokens, refills, copies>>

(* Mutant: the title is added without a look whether it is there. *)
NoLook(r) ==
  /\ AtStep(r, {"look"})
  /\ GoOn(r, 0)
  /\ UNCHANGED <<loads, tokens, refills, copies>>

(* The title that is to be added, or is asked after, is looked for. *)
LookUp(r) ==
  /\ AtStep(r, {"look"})
  /\ \/ copies = 0 /\ GoOn(r, 0)
     \/ copies > 0 /\ Answer(r, 409, 0)
     \/ \E code \in ErrorCodes(r) : Answer(r, code, 0)
  /\ UNCHANGED <<loads, tokens, refills, copies>>

(* Mutant: what the application answers is not looked at. *)
TellBlind(r) ==
  LET n == IF AtStep(r, {"add"}) THEN 1 ELSE 0 IN
  /\ AtStep(r, {"write", "command", "add"})
  /\ \/ GoOn(r, 1) /\ copies' = copies + n
     \/ GoOn(r, 0) /\ UNCHANGED copies
  /\ UNCHANGED <<loads, tokens, refills>>

(* The application does what it is asked to, or not; and the answer to either may be lost. *)
TellApp(r) ==
  LET n == IF AtStep(r, {"add"}) THEN 1 ELSE 0 IN
  /\ AtStep(r, {"write", "command", "add"})
  /\ \/ GoOn(r, 1) /\ copies' = copies + n
     \/ \E code \in ErrorCodes(r) \ 400..499 : Answer(r, code, 1) /\ copies' = copies + n
     \/ \E code \in ErrorCodes(r) : Answer(r, code, 0) /\ UNCHANGED copies
  /\ UNCHANGED <<loads, tokens, refills>>

(* The deletions of a list: each may fail, which the answer says. *)
DeleteEach(r) ==
  /\ AtStep(r, {"each"})
  /\ \E failed \in BOOLEAN : req' = [req EXCEPT ![r].steps = Tail(@), ![r].noted = failed]
  /\ UNCHANGED <<loads, tokens, refills, copies>>

ActHere(r) ==
  /\ AtStep(r, {"act", "local", "try"})
  /\ \/ GoOn(r, IF AtStep(r, {"try"}) THEN 0 ELSE 1)
     \/ AtStep(r, {"local"}) /\ Answer(r, Code(r), 0)
  /\ UNCHANGED <<loads, tokens, refills, copies>>

(* DelOK: there must be something in the limiter, and it is taken whether the deletion works or not. *)
DelOK(r) ==
  /\ AtStep(r, {"limit"})
  /\ LET n == req[r].load IN
     IF tokens[n] > 0
     THEN /\ tokens' = [tokens EXCEPT ![n] = @ - 1]
          /\ GoOn(r, 0)
     ELSE Answer(r, 423, 0) /\ UNCHANGED tokens
  /\ UNCHANGED <<loads, refills, copies>>

-----------------------------------------------------------------------------
(* rate.NewLimiter: full at first, and one back each hour/Deletes until it is full. *)
Refill(n) ==
  /\ n <= loads /\ tokens[n] < Deletes /\ refills[n] < MaxRefills
  /\ tokens' = [tokens EXCEPT ![n] = @ + 1]
  /\ refills' = [refills EXCEPT ![n] = @ + 1]
  /\ UNCHANGED <<req, loads, copies>>

(* setupSonarr and its like: a reload makes new limiters. *)
Load ==
  /\ loads < MaxLoads
  /\ loads' = loads + 1
  /\ UNCHANGED <<req, tokens, refills, copies>>

Step(r) ==
  \/ Respond(r) \/ LookOver(r) \/ AskApp(r) \/ LookUp(r) \/ TellApp(r) \/ DeleteEach(r) \/ ActHere(r) \/ DelOK(r)

Next == Load \/ (\E n \in Loads : Refill(n)) \/ (\E r \in Requests : Arrive(r) \/ Step(r))

ApiSpec == Init /\ [][Next]_apiVars

-----------------------------------------------------------------------------
TypeOK ==
  /\ \A r \in Requests :
       /\ req[r].at \in {"idle", "work", "answered"}
       /\ \A i \in DOMAIN req[r].steps : req[r].steps[i].do \in Kinds
       /\ req[r].load \in 1..loads /\ req[r].done \in 0..1 /\ req[r].due \in 0..1
       /\ req[r].code \in 0..599 /\ {req[r].noted, req[r].alone} \subseteq BOOLEAN
  /\ loads \in Loads /\ copies \in 0..(1 + Cardinality(Requests))
  /\ {tokens, refills} \subseteq [Loads -> Nat]

(* What the caller reads off the status is true, whatever the application did, refused or lost: the status
   of success means that what the route is for was done, unless the handler says that it was not or left
   early; one below 500 that is another means that nothing was done, and the caller may ask again.  The
   exception is 406, which the file browser gives when the file is made and its folder cannot be read. *)
AnswersAreTrue ==
  \A r \in Requests : req[r].at = "answered" =>
    /\ req[r].code = req[r].ok => req[r].done = req[r].due \/ req[r].noted
    /\ req[r].code < 500 /\ req[r].code \notin {req[r].ok, 406} => req[r].done = 0

(* An addition whose answer is lost is answered as a failure, and asked for again: what was added the first
   time is found, and is not added a second time, unless two requests were at work at the same time (the
   look and the addition are two calls).  The handlers rely on this: none of them asks for an addition to
   be undone. *)
RetriesAddOnce == copies > 1 => \E r \in Requests : ~req[r].alone
=============================================================================
