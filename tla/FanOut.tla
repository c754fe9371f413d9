------------------------------- MODULE FanOut -------------------------------
(***************************************************************************)
(* The handlers that ask many at once and answer when all have answered:   *)
(*   "pool"     workers that share a channel (src/pkg/checkapp),           *)
(*   "each"     a goroutine for each application (src/pkg/website/         *)
(*              clientinfo, src/pkg/triggers/cfsync),                      *)
(*   "serial"   the same one after the other, as the configuration may     *)
(*              say (cfsync),                                              *)
(*   "collect"  a goroutine for each, and one that collects what they send *)
(*              (pingTunnels in src/pkg/client/tunnel.go).                 *)
(***************************************************************************)
EXTENDS Integers, Sequences, FiniteSets

CONSTANTS
  MaxJobs,   \* bound on what is asked
  Buffer     \* room in the channel of the pool (100 in the code)

FanAssumption == MaxJobs \in Nat /\ Buffer \in Nat \ {0}

VARIABLES
  way,        \* which of the handlers
  jobs,       \* how many there are to ask
  job,        \* each: where it is
  slot,       \* what the answer has for each
  queue,      \* the channel of the pool
  open,       \* the channel, of the pool or of the collector, is open
  worker,     \* each worker of the pool: its job, 0 if it has none, -1 when it has left
  owed,       \* the count of the wait group
  answered

fanVars == <<way, jobs, job, slot, queue, open, worker, owed, answered>>

Jobs == 1..jobs
Workers == IF way = "pool" THEN 1..(jobs \div 2 + 1) ELSE {}

Init ==
  /\ way \in {"pool", "each", "serial", "collect"} /\ jobs \in 0..MaxJobs
  /\ job = [j \in Jobs |-> "todo"] /\ slot = [j \in Jobs |-> "blank"]
  /\ queue = <<>> /\ open = TRUE
  /\ worker = [w \in Workers |-> 0] /\ owed = Cardinality(Workers)
  /\ answered = FALSE

-----------------------------------------------------------------------------
AllOut == \A j \in Jobs : job[j] # "todo"
IsNext(j) == job[j] = "todo" /\ \A i \in 1..(j - 1) : job[i] # "todo"
Put(j, where) == job' = [job EXCEPT ![j] = where]
Fill(j, with) == slot' = [slot EXCEPT ![j] = with]

(* checkAllStarr and its like: the request fills the channel, and waits when it is full. *)
GiveToPool(j) ==
  /\ way = "pool" /\ IsNext(j) /\ Len(queue) < Buffer
  /\ Put(j, "queued") /\ queue' = Append(queue, j)
  /\ UNCHANGED <<way, jobs, slot, open, worker, owed, answered>>

CloseQueue ==
  /\ way = "pool" /\ AllOut /\ open /\ open' = FALSE
  /\ UNCHANGED <<way, jobs, job, slot, queue, worker, owed, answered>>

(* An application that is not enabled gets its answer at once. *)
Disabled(j) ==
  /\ way = "each" /\ IsNext(j) /\ Put(j, "ended") /\ Fill(j, "disabled")
  /\ UNCHANGED <<way, jobs, queue, open, worker, owed, answered>>

(* The wait group is told before the goroutine begins. *)
Ask(j) ==
  /\ way \in {"each", "collect"} /\ IsNext(j) /\ Put(j, "busy") /\ owed' = owed + 1
  /\ UNCHANGED <<way, jobs, slot, queue, open, worker, answered>>

AskInTurn(j) ==
  /\ way = "serial" /\ IsNext(j) /\ (\A i \in 1..(j - 1) : job[i] = "ended") /\ Put(j, "busy")
  /\ UNCHANGED <<way, jobs, slot, queue, open, worker, owed, answered>>

(* workPool: a worker takes what is in the channel, and leaves when that is closed and empty. *)
Work(w) ==
  /\ worker[w] = 0 /\ queue # <<>>
  /\ worker' = [worker EXCEPT ![w] = Head(queue)]
  /\ Put(Head(queue), "busy") /\ queue' = Tail(queue)
  /\ UNCHANGED <<way, jobs, slot, open, owed, answered>>

Leave(w) ==
  /\ worker[w] = 0 /\ queue = <<>> /\ ~open
  /\ worker' = [worker EXCEPT ![w] = -1] /\ owed' = owed - 1
  /\ UNCHANGED <<way, jobs, job, slot, queue, open, answered>>

(* What is asked answers, or fails in time. *)
Finish(j) ==
  /\ way # "collect" /\ job[j] = "busy"
  /\ Put(j, "ended") /\ Fill(j, "result")
  /\ worker' = [w \in Workers |-> IF worker[w] = j THEN 0 ELSE worker[w]]
  /\ owed' = IF way = "each" THEN owed - 1 ELSE owed
  /\ UNCHANGED <<way, jobs, queue, open, answered>>

(* pingTunnel: a request that cannot be made ends it without a result. *)
PingTunnel(j) ==
  /\ way = "collect" /\ job[j] = "busy"
  /\ Put(j, "sending") \/ Put(j, "silent")
  /\ UNCHANGED <<way, jobs, slot, queue, open, worker, owed, answered>>

Collect(j) ==
  /\ open /\ job[j] = "sending"
  /\ Put(j, "ended") /\ Fill(j, "result") /\ owed' = owed - 1
  /\ UNCHANGED <<way, jobs, queue, open, worker, answered>>

(* Mutant: an empty channel is enough to answer. *)
AnswerEarly ==
  /\ ~answered /\ AllOut /\ queue = <<>> /\ (way = "pool" => ~open)
  /\ answered' = TRUE /\ open' = FALSE
  /\ UNCHANGED <<way, jobs, job, slot, queue, worker, owed>>

(* wait.Wait, and the answer; pingTunnels closes its channel. *)
Answer ==
  /\ ~answered /\ AllOut /\ owed = 0 /\ (way = "pool" => ~open)
  /\ way = "serial" => \A j \in Jobs : job[j] = "ended"
  /\ answered' = TRUE /\ open' = FALSE
  /\ UNCHANGED <<way, jobs, job, slot, queue, worker, owed>>

Next ==
  \/ \E j \in Jobs : GiveToPool(j) \/ Disabled(j) \/ Ask(j) \/ AskInTurn(j) \/ Finish(j) \/ PingTunnel(j) \/ Collect(j)
  \/ \E w \in Workers : Work(w) \/ Leave(w)
  \/ CloseQueue \/ Answer

FanSpec == Init /\ [][Next]_fanVars

-----------------------------------------------------------------------------
TypeOK ==
  /\ job \in [Jobs -> {"todo", "queued", "busy", "sending", "ended", "silent"}]
  /\ slot \in [Jobs -> {"blank", "disabled", "result"}] /\ worker \in [Workers -> -1..jobs]
  /\ owed \in Nat /\ Len(queue) <= Buffer /\ {open, answered} \subseteq BOOLEAN

(* An answer has the result of everyone that was asked, and nobody is left to send on the channel that is closed with
   it.  When nothing is under way any more, what the request still waits for are pings that ended without a result,
   which is for good. *)
AnswersAreWhole ==
  /\ answered => \A j \in Jobs : job[j] = "ended" /\ slot[j] # "blank"
  /\ AllOut /\ (\A j \in Jobs : job[j] \in {"ended", "silent"}) /\ (\A w \in Workers : worker[w] = -1) =>
       owed = Cardinality({j \in Jobs : job[j] = "silent"})
=============================================================================
