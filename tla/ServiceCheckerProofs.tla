------------------------ MODULE ServiceCheckerProofs ------------------------
(***************************************************************************)
(* Proofs about ServiceChecker for every pool size, set of services and    *)
(* set of callers: type correctness, the safety invariants of the pool and *)
(* of its shutdown, what callers of Running and Pause and the website are  *)
(* told, and that the checker keeps the promise CheckLifecycle states.     *)
(***************************************************************************)
EXTENDS ServiceChecker, FiniteSetTheorems, SequenceTheorems, TLAPS

-----------------------------------------------------------------------------
(* The inductive invariant, in parts.                                      *)

BusyWorkers == {w \in Workers : worker[w] \in Busy}
Quitters    == {w \in Workers : worker[w] = "quit"}
Waiting     == {w \in Workers : worker[w] = "recv"}

(* Start, the checker and the stopped channel keep step.                   *)
LifeInv ==
  /\ starter # "done" => checker = "off" /\ ~stopped
  /\ starter = "done" /\ checker = "off" => stopped
  /\ checker \notin {"off", "gone"} => ~stopped
  /\ starter # "new" /\ ~stopped => live
  /\ checker = "gone" => stopped /\ \A w \in Workers : worker[w] = "gone"
  /\ checker = "off" => \A w \in Workers : worker[w] = "off"
  /\ \A p \in Stoppers : stopper[p] = "finished" => stopped

(* What the workers may be doing while the checker is where it is.         *)
WorkerInv ==
  /\ checker \in {"pass", "send", "loop", "reply"} =>
       \A w \in Workers : worker[w] \in Busy \cup {"recv"}
  /\ checker = "drain" => \A w \in Workers : worker[w] \in {"recv", "gone"}
  /\ checker = "drainWait" => \A w \in Workers : worker[w] \in {"recv", "quit", "gone"}
  /\ \A w \in Workers : worker[w] \in Busy => job[w] \in Svcs

(* In a pass every check that is outstanding is queued, in the hands of a  *)
(* worker, or answered; outside of passes and drains there is none.        *)
AccountInv ==
  /\ checker = "pass" =>
       /\ pass.outstanding = Len(checks) + Cardinality(BusyWorkers) + Len(done)
       /\ \A i \in 1 .. Len(checks) : checks[i] \in Svcs
  /\ PassIsComplete

(* stopWorkers has as many rounds left as workers are left, and one nil at *)
(* a time is under way.                                                    *)
DrainInv ==
  /\ checker = "drain" =>
       /\ checks = <<>> /\ done = <<>>
       /\ drainLeft = Cardinality(Waiting)
  /\ checker = "drainWait" =>
       /\ \A i \in 1 .. Len(checks) : checks[i] = NilSvc
       /\ Len(checks) + Cardinality(Quitters) + Len(done) = 1
       /\ drainLeft = Cardinality(Waiting) + Cardinality(Quitters) + Len(done)

(* A service is at one place only: left to queue, queued, or with a worker. *)
PlaceInv ==
  /\ OneCheckPerService
  /\ checker = "pass" =>
       /\ \A i, j \in 1 .. Len(checks) : i # j => checks[i] # checks[j]
       /\ \A i \in 1 .. Len(checks) : checks[i] \notin pass.todo
       /\ \A i \in 1 .. Len(checks), w \in Workers :
            worker[w] \in Busy => job[w] # checks[i]
       /\ \A w \in Workers : worker[w] \in Busy => job[w] \notin pass.todo

(* A result the context cut short does not get past WorkerVerify.          *)
VerdictInv ==
  /\ \A w \in Workers :
       /\ worker[w] = "verify" => found[w] \in Verdicts \/ cancelled
       /\ worker[w] = "update" => found[w] \in Verdicts
  /\ \A s \in Svcs : state[s] \in Verdicts \cup {Unknown}

IInv == TypeOK /\ LifeInv /\ WorkerInv /\ AccountInv /\ DrainInv /\ PlaceInv /\ VerdictInv

-----------------------------------------------------------------------------
(* Facts about the constants.                                              *)

LEMMA ParallelType == Parallel \in Nat
BY ServiceAssumption, FS_CardinalityType DEF Parallel

-----------------------------------------------------------------------------
(* Channels: what a send and a receive do to a bounded sequence.           *)

LEMMA PutFits ==
  ASSUME NEW S, NEW q \in Seq(S), NEW e \in S, NEW n \in Nat, Len(q) < n
  PROVE  Append(q, e) \in Seq(S) /\ Len(Append(q, e)) <= n
OBVIOUS

LEMMA TakeFits ==
  ASSUME NEW S, NEW q \in Seq(S), q # <<>>, NEW n \in Nat, Len(q) <= n
  PROVE  Head(q) \in S /\ Tail(q) \in Seq(S) /\ Len(Tail(q)) <= n
BY HeadTailProperties

(* What a receive leaves of a channel.                                     *)
LEMMA HeadAndRest ==
  ASSUME NEW S, NEW q \in Seq(S), q # <<>>
  PROVE  /\ Head(q) = q[1] /\ Len(Tail(q)) = Len(q) - 1 /\ Len(q) \in Nat \ {0}
         /\ \A i \in 1 .. Len(Tail(q)) : Tail(q)[i] = q[i + 1]
         /\ DOMAIN q = 1 .. Len(q) /\ DOMAIN Tail(q) = 1 .. Len(Tail(q))
BY HeadTailProperties

-----------------------------------------------------------------------------
(* What the steps of each goroutine leave alone.                           *)

LEMMA StartFrame ==
  ASSUME StartStep
  PROVE  UNCHANGED <<cancelled, stopper, drainLeft, checks, done, job, found, changed,
                     unsent, ctrlVars, callerVars>>
BY DEF StartStep, BeginLifecycle, LoadServiceStates, LaunchChecker, passVars, poolVars, stateVars

LEMMA StopFrame ==
  ASSUME NEW p \in Stoppers, StopStep(p)
  PROVE  UNCHANGED <<starter, stopped, checker, running, passVars, poolVars, stateVars,
                     ctrlVars, callerVars>>
BY DEF StopStep, StopBegin, StopCancel, StopFinish

LEMMA CancelFrame ==
  ASSUME ParentCancel
  PROVE  UNCHANGED <<starter, live, stopping, stopped, stopper, checker, running, passVars,
                     poolVars, stateVars, ctrlVars, callerVars>>
BY DEF ParentCancel

LEMMA WorkerFrame ==
  ASSUME NEW w \in Workers, WorkerStep(w)
  PROVE  UNCHANGED <<lifeVars, checker, running, passVars, ctrlVars, callerVars>>
BY DEF WorkerStep, WorkerTake, WorkerCheck, WorkerVerify, WorkerUpdate, WorkerReport, WorkerQuit

LEMMA CheckerFrame ==
  ASSUME CheckerStep
  PROVE  UNCHANGED <<starter, live, stopping, cancelled, stopper, worker, job, found, changed,
                     state, callerVars>>
BY DEF CheckerStep, PassStep, LoopStep, DrainStep, Enqueue, Collect, FinishPass, SendResults,
  Reply, OnAction, OnCheckEvent, OnTrigger, OnTick, OnCancel, DrainSend, DrainWait, CloseStopped,
  lifeVars, poolVars, stateVars

LEMMA CallerFrame ==
  ASSUME NEW c \in Callers, CallerStep(c)
  PROVE  UNCHANGED <<lifeVars, checker, running, passVars, poolVars, stateVars>>
BY DEF CallerStep, CallerSend, SendAction, SendTrigger, SendCheck, Receive, GiveUp, RequestDone,
  Call

-----------------------------------------------------------------------------
(* Type correctness, one part of the state at a time.                      *)

LEMMA InitType == Init => TypeOK
<1>. SUFFICES ASSUME Init PROVE TypeOK
  OBVIOUS
<1>1. LifeType
  BY DEF Init, LifeType
<1>2. PassType
  <2>1. drainLeft \in 0 .. Parallel
    BY ParallelType DEF Init
  <2>2. checker \in CheckerPCs /\ running \in BOOLEAN
    BY DEF Init, CheckerPCs
  <2>. QED BY <2>1, <2>2 DEF Init, PassType, NoPass, PassKinds
<1>3. PoolType
  BY ServiceAssumption, ParallelType DEF Init, PoolType, WorkerPCs
<1>4. StateType
  BY DEF Init, StateType
<1>5. CtrlType
  BY ServiceAssumption DEF Init, CtrlType
<1>6. CallerType
  BY DEF Init, CallerType
<1>. QED BY <1>1, <1>2, <1>3, <1>4, <1>5, <1>6 DEF TypeOK

LEMMA LifeTypeStep == ASSUME LifeType, [Next]_vars PROVE LifeType'
<1>. USE DEF LifeType
<1>1. CASE StartStep
  BY <1>1 DEF StartStep, BeginLifecycle, LoadServiceStates, LaunchChecker, FailedStartCloses
<1>2. ASSUME NEW p \in Stoppers, StopStep(p) PROVE LifeType'
  BY <1>2 DEF StopStep, StopBegin, StopCancel, StopFinish
<1>3. CASE ParentCancel
  BY <1>3 DEF ParentCancel
<1>4. CASE CheckerStep
  <2>1. stopped' \in BOOLEAN
    BY <1>4 DEF CheckerStep, PassStep, LoopStep, DrainStep, Enqueue, Collect, FinishPass,
       SendResults, Reply, OnAction, OnCheckEvent, OnTrigger, OnTick, OnCancel, DrainSend,
       DrainWait, CloseStopped, lifeVars
  <2>. QED BY <1>4, <2>1, CheckerFrame
<1>5. CASE UNCHANGED lifeVars
  BY <1>5 DEF lifeVars
<1>. QED BY <1>1, <1>2, <1>3, <1>4, <1>5, WorkerFrame, CallerFrame DEF Next, vars

LEMMA CtrlTypeStep == ASSUME CtrlType, PassType, [Next]_vars PROVE CtrlType'
<1>. USE DEF CtrlType
<1>1. CASE CheckerStep
  <2>1. CASE OnAction
    BY <2>1, TakeFits, ServiceAssumption DEF OnAction
  <2>2. CASE Reply
    <3>1. /\ Append(replyChan, running) \in Seq(BOOLEAN)
          /\ Len(Append(replyChan, running)) <= ControlCap
      BY <2>2, PutFits, ServiceAssumption DEF Reply, PassType
    <3>. QED BY <2>2, <3>1 DEF Reply
  <2>3. CASE OnCheckEvent
    BY <2>3, TakeFits, ServiceAssumption DEF OnCheckEvent
  <2>4. CASE OnTrigger
    BY <2>4, TakeFits, ServiceAssumption DEF OnTrigger
  <2>5. CASE UNCHANGED ctrlVars
    BY <2>5 DEF ctrlVars
  <2>. QED BY <1>1, <2>1, <2>2, <2>3, <2>4, <2>5 DEF CheckerStep, PassStep, LoopStep, DrainStep, Enqueue,
    Collect, FinishPass, SendResults, OnTick, OnCancel, DrainSend, DrainWait, CloseStopped
<1>2. ASSUME NEW c \in Callers, CallerStep(c) PROVE CtrlType'
  <2>1. CASE SendAction(c)
    BY <2>1, ServiceAssumption DEF SendAction
  <2>2. CASE SendTrigger(c)
    BY <2>2, ServiceAssumption DEF SendTrigger
  <2>3. CASE SendCheck(c)
    BY <2>3, ServiceAssumption DEF SendCheck
  <2>4. CASE Receive(c)
    <3>1. Tail(replyChan) \in Seq(BOOLEAN) /\ Len(Tail(replyChan)) <= ControlCap
      BY <2>4, TakeFits, ServiceAssumption DEF Receive
    <3>. QED BY <2>4, <3>1 DEF Receive
  <2>5. CASE UNCHANGED ctrlVars
    BY <2>5 DEF ctrlVars
  <2>. QED BY <1>2, <2>1, <2>2, <2>3, <2>4, <2>5 DEF CallerStep, CallerSend, Call, GiveUp,
    RequestDone
<1>3. CASE UNCHANGED ctrlVars
  BY <1>3 DEF ctrlVars
<1>. QED BY <1>1, <1>2, <1>3, StartFrame, StopFrame, CancelFrame, WorkerFrame DEF Next, vars

LEMMA CallerTypeStep == ASSUME CallerType, CtrlType, [Next]_vars PROVE CallerType'
<1>. USE DEF CallerType
<1>1. ASSUME NEW c \in Callers, CallerStep(c) PROVE CallerType'
  <2>1. CASE \E o \in OpNames : Call(c, o)
    BY <2>1 DEF Call
  <2>2. CASE SendAction(c)
    BY <2>2 DEF SendAction
  <2>3. CASE SendTrigger(c) \/ SendCheck(c) \/ GiveUp(c) \/ RequestDone(c)
    BY <2>3 DEF SendTrigger, SendCheck, GiveUp, RequestDone
  <2>4. CASE Receive(c)
    BY <2>4, HeadTailProperties DEF Receive, CtrlType
  <2>. QED BY <1>1, <2>1, <2>2, <2>3, <2>4 DEF CallerStep, CallerSend
<1>2. CASE UNCHANGED callerVars
  BY <1>2 DEF callerVars
<1>. QED BY <1>1, <1>2, StartFrame, StopFrame, CancelFrame, WorkerFrame, CheckerFrame
  DEF Next, vars

LEMMA PassTypeStep == ASSUME TypeOK, DrainInv, [Next]_vars PROVE PassType'
<1>. USE DEF PassType
<1>0. PassType
  BY DEF TypeOK
<1>1. CASE StartStep
  <2>1. CASE LaunchChecker
    <3>1. CASE checker' = checker /\ running' = running /\ pass' = pass
      BY <1>0, <1>1, <3>1, StartFrame
    <3>2. CASE running' = ~Disabled /\ checker' = "loop" /\ pass' = pass
      BY <1>0, <1>1, <3>2, StartFrame, ServiceAssumption DEF CheckerPCs
    <3>3. CASE running' = ~Disabled /\ BeginPass("start", Scheduled)
      BY <1>0, <1>1, <3>3, StartFrame, ServiceAssumption DEF CheckerPCs, BeginPass, PassKinds
    <3>. QED BY <2>1, <3>1, <3>2, <3>3 DEF LaunchChecker
  <2>2. CASE BeginLifecycle \/ LoadServiceStates
    BY <1>0, <2>2 DEF BeginLifecycle, LoadServiceStates, passVars
  <2>. QED BY <1>1, <2>1, <2>2 DEF StartStep
<1>2. CASE CheckerStep
  <2>1. CASE Enqueue
    <3>1. PICK s \in pass.todo :
            pass' = [pass EXCEPT !.todo = @ \ {s}, !.outstanding = @ + 1]
      BY <2>1 DEF Enqueue
    <3>2. UNCHANGED <<checker, running, drainLeft>>
      BY <2>1 DEF Enqueue
    <3>3. pass.outstanding + 1 \in Int /\ pass.todo \ {s} \in SUBSET Svcs
      BY <1>0
    <3>4. pass' \in [kind : PassKinds, todo : SUBSET Svcs, outstanding : Int, changes : BOOLEAN]
      BY <1>0, <3>1, <3>3
    <3>. QED BY <1>0, <3>2, <3>4
  <2>2. CASE Collect
    <3>1. AnyAnswer(Head(done)) \in BOOLEAN
      <4>1. Head(done) \in BOOLEAN
        BY <2>2, HeadTailProperties DEF Collect, TypeOK, PoolType
      <4>. QED BY <1>0, <4>1 DEF AnyAnswer
    <3>2. /\ pass' = [pass EXCEPT !.outstanding = @ - 1, !.changes = AnyAnswer(Head(done))]
          /\ UNCHANGED <<checker, running, drainLeft>>
      BY <2>2 DEF Collect
    <3>3. pass.outstanding - 1 \in Int
      BY <1>0
    <3>4. pass' \in [kind : PassKinds, todo : SUBSET Svcs, outstanding : Int, changes : BOOLEAN]
      BY <1>0, <3>1, <3>2, <3>3
    <3>. QED BY <1>0, <3>2, <3>4
  <2>3. CASE FinishPass
    BY <1>0, <2>3 DEF FinishPass, NoPass, PassKinds, CheckerPCs
  <2>4. CASE SendResults
    BY <1>0, <2>4 DEF SendResults, CheckerPCs, passVars
  <2>5. CASE Reply
    BY <1>0, <2>5 DEF Reply, CheckerPCs, passVars
  <2>6. CASE OnAction
    <3>1. Head(actionChan) \in {"running", "pause", "resume"}
      BY <2>6, HeadTailProperties DEF OnAction, TypeOK, CtrlType
    <3>2. checker' \in CheckerPCs /\ running' \in BOOLEAN
      BY <1>0, <2>6, <3>1 DEF OnAction, AfterPause, CheckerPCs
    <3>. QED BY <1>0, <2>6, <3>2 DEF OnAction, passVars
  <2>7. CASE OnCheckEvent
    <3>1. Head(checkChan) \in Svcs
      BY <2>7, HeadTailProperties DEF OnCheckEvent, TypeOK, CtrlType
    <3>. QED BY <1>0, <2>7, <3>1 DEF OnCheckEvent, BeginPass, CheckerPCs, PassKinds
  <2>8. CASE OnTrigger
    <3>1. Head(triggerChan) \in PassKinds
      <4>1. Head(triggerChan) \in {"runall", "logall"}
        BY <2>8, HeadTailProperties DEF OnTrigger, TypeOK, CtrlType
      <4>. QED BY <4>1 DEF PassKinds
    <3>. QED BY <1>0, <2>8, <3>1, ServiceAssumption DEF OnTrigger, BeginPass, CheckerPCs
  <2>9. CASE OnTick
    BY <1>0, <2>9, ServiceAssumption DEF OnTick, BeginPass, CheckerPCs, PassKinds
  <2>10. CASE OnCancel
    BY <1>0, <2>10, ParallelType DEF OnCancel, DrainRounds, CheckerPCs
  <2>11. CASE DrainSend
    BY <1>0, <2>11 DEF DrainSend, CheckerPCs, passVars
  <2>12. CASE DrainWait
    <3>1. drainLeft > 0
      <4>1. Len(done) >= 1 /\ Cardinality(Waiting) >= 0 /\ Cardinality(Quitters) >= 0
        BY <2>12, ServiceAssumption, FS_Subset, FS_CardinalityType, EmptySeq
        DEF DrainWait, TypeOK, PoolType, Waiting, Quitters
      <4>2. Cardinality(Waiting) \in Nat /\ Cardinality(Quitters) \in Nat /\ Len(done) \in Nat
        BY ServiceAssumption, FS_Subset, FS_CardinalityType, LenProperties
        DEF TypeOK, PoolType, Waiting, Quitters
      <4>. QED BY <2>12, <4>1, <4>2 DEF DrainWait, DrainInv
    <3>. QED BY <1>0, <2>12, <3>1, ParallelType DEF DrainWait, CheckerPCs
  <2>13. CASE CloseStopped
    BY <1>0, <2>13 DEF CloseStopped, CheckerPCs, passVars
  <2>. QED BY <1>2, <2>1, <2>2, <2>3, <2>4, <2>5, <2>6, <2>7, <2>8, <2>9, <2>10, <2>11, <2>12,
    <2>13 DEF CheckerStep, PassStep, LoopStep, DrainStep
<1>3. CASE UNCHANGED <<checker, running, passVars>>
  BY <1>0, <1>3 DEF passVars
<1>. QED BY <1>1, <1>2, <1>3, StopFrame, CancelFrame, WorkerFrame, CallerFrame DEF Next, vars

LEMMA PoolTypeStep == ASSUME TypeOK, [Next]_vars PROVE PoolType'
<1>. USE ServiceAssumption, ParallelType DEF PoolType
<1>0. PoolType
  BY DEF TypeOK
<1>1. CASE StartStep
  BY <1>0, <1>1, StartFrame DEF StartStep, BeginLifecycle, LoadServiceStates, LaunchChecker,
     poolVars, WorkerPCs
<1>2. ASSUME NEW w \in Workers, WorkerStep(w) PROVE PoolType'
  <2>. USE DEF WorkerPCs
  <2>1. CASE WorkerTake(w)
    <3>1. /\ Head(checks) \in Svcs \cup {NilSvc}
          /\ Tail(checks) \in Seq(Svcs \cup {NilSvc}) /\ Len(Tail(checks)) <= ChecksCap
      BY <1>0, <2>1, TakeFits DEF WorkerTake
    <3>. QED BY <1>0, <2>1, <3>1 DEF WorkerTake
  <2>2. CASE WorkerCheck(w)
    BY <1>0, <2>2 DEF WorkerCheck
  <2>3. CASE WorkerVerify(w)
    BY <1>0, <2>3 DEF WorkerVerify, AfterProbe
  <2>4. CASE WorkerUpdate(w)
    <3>1. (found[w] # state[job[w]]) \in BOOLEAN
      OBVIOUS
    <3>. QED BY <1>0, <2>4, <3>1 DEF WorkerUpdate
  <2>5. CASE WorkerReport(w)
    <3>1. Append(done, changed[w]) \in Seq(BOOLEAN) /\ Len(Append(done, changed[w])) <= Parallel
      BY <1>0, <2>5, PutFits DEF WorkerReport
    <3>. QED BY <1>0, <2>5, <3>1 DEF WorkerReport
  <2>6. CASE WorkerQuit(w)
    <3>1. Append(done, FALSE) \in Seq(BOOLEAN) /\ Len(Append(done, FALSE)) <= Parallel
      BY <1>0, <2>6, PutFits DEF WorkerQuit
    <3>. QED BY <1>0, <2>6, <3>1 DEF WorkerQuit
  <2>. QED BY <1>2, <2>1, <2>2, <2>3, <2>4, <2>5, <2>6 DEF WorkerStep
<1>3. CASE CheckerStep
  <2>1. CASE Enqueue
    BY <1>0, <2>1, PutFits DEF Enqueue, TypeOK, PassType
  <2>2. CASE Collect \/ DrainWait
    <3>1. Tail(done) \in Seq(BOOLEAN) /\ Len(Tail(done)) <= Parallel
      BY <1>0, <2>2, TakeFits DEF Collect, DrainWait
    <3>. QED BY <1>0, <2>2, <3>1 DEF Collect, DrainWait
  <2>3. CASE DrainSend
    BY <1>0, <2>3, PutFits DEF DrainSend
  <2>4. CASE UNCHANGED poolVars
    BY <1>0, <2>4 DEF poolVars
  <2>. QED BY <1>3, <2>1, <2>2, <2>3, <2>4 DEF CheckerStep, PassStep, LoopStep, DrainStep,
    FinishPass, SendResults, Reply, OnAction, OnCheckEvent, OnTrigger, OnTick, OnCancel,
    CloseStopped
<1>4. CASE UNCHANGED poolVars
  BY <1>0, <1>4 DEF poolVars
<1>. QED BY <1>1, <1>2, <1>3, <1>4, StopFrame, CancelFrame, CallerFrame DEF Next, vars

LEMMA StateTypeStep == ASSUME TypeOK, WorkerInv, [Next]_vars PROVE StateType'
<1>. USE DEF StateType
<1>0. StateType
  BY DEF TypeOK
<1>1. CASE StartStep
  BY <1>0, <1>1 DEF StartStep, BeginLifecycle, LoadServiceStates, LaunchChecker, stateVars
<1>2. ASSUME NEW w \in Workers, WorkerStep(w) PROVE StateType'
  <2>1. CASE WorkerUpdate(w)
    <3>1. job[w] \in Svcs /\ found[w] \in Verdicts \cup {Unknown, Aborted}
      BY <2>1 DEF WorkerUpdate, WorkerInv, Busy, TypeOK, PoolType
    <3>. QED BY <1>0, <2>1, <3>1 DEF WorkerUpdate
  <2>2. CASE UNCHANGED stateVars
    BY <1>0, <2>2 DEF stateVars
  <2>. QED BY <1>2, <2>1, <2>2 DEF WorkerStep, WorkerTake, WorkerCheck, WorkerVerify,
    WorkerReport, WorkerQuit
<1>3. CASE CheckerStep
  BY <1>0, <1>3 DEF CheckerStep, PassStep, LoopStep, DrainStep, Enqueue, Collect, FinishPass,
    SendResults, Reply, OnAction, OnCheckEvent, OnTrigger, OnTick, OnCancel, DrainSend,
    DrainWait, CloseStopped, stateVars
<1>4. CASE UNCHANGED stateVars
  BY <1>0, <1>4 DEF stateVars
<1>. QED BY <1>1, <1>2, <1>3, <1>4, StopFrame, CancelFrame, CallerFrame DEF Next, vars

LEMMA TypeStep == ASSUME TypeOK, WorkerInv, DrainInv, [Next]_vars PROVE TypeOK'
BY LifeTypeStep, PassTypeStep, PoolTypeStep, StateTypeStep, CtrlTypeStep, CallerTypeStep
DEF TypeOK

-----------------------------------------------------------------------------
(* Counting workers.                                                       *)

LEMMA Counts ==
  /\ IsFiniteSet(BusyWorkers) /\ Cardinality(BusyWorkers) \in Nat
  /\ IsFiniteSet(Quitters) /\ Cardinality(Quitters) \in Nat
  /\ IsFiniteSet(Waiting) /\ Cardinality(Waiting) \in Nat
<1>1. BusyWorkers \subseteq Workers /\ Quitters \subseteq Workers /\ Waiting \subseteq Workers
  BY DEF BusyWorkers, Quitters, Waiting
<1>. QED BY <1>1, ServiceAssumption, FS_Subset, FS_CardinalityType

(* What becomes of the cardinality of a set that one worker joins or leaves. *)
LEMMA JoinCount ==
  ASSUME NEW A, NEW B, NEW w, IsFiniteSet(A), w \notin A, B = A \cup {w}
  PROVE  Cardinality(B) = Cardinality(A) + 1
BY FS_AddElement

LEMMA LeaveCount ==
  ASSUME NEW A, NEW B, NEW w, IsFiniteSet(A), w \in A, B = A \ {w}
  PROVE  Cardinality(B) = Cardinality(A) - 1
BY FS_RemoveElement

LEMMA NobodyCounts ==
  ASSUME NEW A, IsFiniteSet(A)
  PROVE  Cardinality(A) = 0 <=> A = {}
BY FS_EmptySet

(* A pool at rest has no check on its way.                                 *)
LEMMA RestIsEmpty ==
  ASSUME PoolAtRest
  PROVE  Len(checks) = 0 /\ Len(done) = 0 /\ BusyWorkers = {} /\ Cardinality(BusyWorkers) = 0
<1>1. BusyWorkers = {}
  BY DEF PoolAtRest, BusyWorkers, Busy
<1>. QED BY <1>1, FS_EmptySet DEF PoolAtRest

-----------------------------------------------------------------------------
(* LifeInv.                                                                *)

LEMMA LifeInvStep == ASSUME IInv, [Next]_vars PROVE LifeInv'
<1>. USE DEF LifeInv
<1>0. LifeInv /\ WorkerInv /\ DrainInv /\ TypeOK
  BY DEF IInv
<1>1. CASE StartStep
  <2>1. CASE BeginLifecycle
    BY <1>0, <2>1 DEF BeginLifecycle, poolVars
  <2>2. CASE LoadServiceStates
    BY <1>0, <2>2 DEF LoadServiceStates, poolVars
  <2>3. CASE LaunchChecker
    BY <1>0, <2>3 DEF LaunchChecker, FailedStartCloses, BeginPass
  <2>. QED BY <1>1, <2>1, <2>2, <2>3 DEF StartStep
<1>2. ASSUME NEW p \in Stoppers, StopStep(p) PROVE LifeInv'
  <2>1. CASE StopBegin(p)
    BY <1>0, <2>1 DEF StopBegin, poolVars, TypeOK, LifeType
  <2>2. CASE StopCancel(p)
    BY <1>0, <2>2 DEF StopCancel, poolVars, TypeOK, LifeType
  <2>3. CASE StopFinish(p)
    BY <1>0, <2>3 DEF StopFinish, ShutDown, poolVars, TypeOK, LifeType
  <2>. QED BY <1>2, <2>1, <2>2, <2>3 DEF StopStep
<1>3. CASE ParentCancel
  BY <1>0, <1>3 DEF ParentCancel, poolVars
<1>4. ASSUME NEW w \in Workers, WorkerStep(w) PROVE LifeInv'
  <2>1. worker[w] \notin {"off", "gone"}
    BY <1>4 DEF WorkerStep, WorkerTake, WorkerCheck, WorkerVerify, WorkerUpdate, WorkerReport,
       WorkerQuit
  <2>2. checker \notin {"off", "gone"}
    BY <1>0, <2>1
  <2>. QED BY <1>0, <2>2, <1>4, WorkerFrame DEF lifeVars
<1>5. CASE CheckerStep
  <2>1. CASE CloseStopped
    <3>1. Waiting = {}
      BY <1>0, <2>1, Counts, NobodyCounts DEF CloseStopped, DrainInv
    <3>2. \A w \in Workers : worker[w] = "gone"
      BY <1>0, <2>1, <3>1 DEF CloseStopped, WorkerInv, Waiting
    <3>. QED BY <1>0, <2>1, <3>2 DEF CloseStopped, poolVars
  <2>2. CASE /\ stopped' = stopped
             /\ checker \notin {"off", "gone"}
             /\ checker' \notin {"off", "gone"}
    BY <1>0, <1>5, <2>2, CheckerFrame
  <2>3. CheckerStep /\ ~CloseStopped => stopped' = stopped
    BY DEF CheckerStep, PassStep, LoopStep, DrainStep, Enqueue, Collect, FinishPass, SendResults,
       Reply, OnAction, OnCheckEvent, OnTrigger, OnTick, OnCancel, DrainSend, DrainWait, lifeVars
  <2>4. CheckerStep => checker \notin {"off", "gone"}
    BY DEF CheckerStep, PassStep, LoopStep, DrainStep, Enqueue, Collect, FinishPass, SendResults,
       Reply, OnAction, OnCheckEvent, OnTrigger, OnTick, OnCancel, DrainSend, DrainWait,
       CloseStopped
  <2>5. CheckerStep /\ ~CloseStopped => checker' \notin {"off", "gone"}
    BY DEF CheckerStep, PassStep, LoopStep, DrainStep, Enqueue, Collect, FinishPass, SendResults,
       Reply, OnAction, OnCheckEvent, OnTrigger, OnTick, OnCancel, DrainSend, DrainWait, BeginPass
  <2>. QED BY <1>5, <2>1, <2>2, <2>3, <2>4, <2>5
<1>6. CASE UNCHANGED <<lifeVars, checker, worker>>
  BY <1>0, <1>6 DEF lifeVars
<1>. QED BY <1>1, <1>2, <1>3, <1>4, <1>5, <1>6, CallerFrame DEF Next, vars, poolVars

-----------------------------------------------------------------------------
(* WorkerInv.                                                              *)

(* Where the channel is read: a worker takes a service in a pass only, and *)
(* nil in a drain only.                                                    *)
LEMMA TakenWhere ==
  ASSUME IInv, NEW w \in Workers, WorkerTake(w)
  PROVE  \/ checker = "pass" /\ Head(checks) \in Svcs
         \/ checker = "drainWait" /\ Head(checks) = NilSvc
<1>1. checks \in Seq(Svcs \cup {NilSvc}) /\ checks # <<>> /\ 1 \in 1 .. Len(checks)
      /\ Head(checks) = checks[1]
  BY EmptySeq DEF IInv, TypeOK, PoolType, WorkerTake
<1>2. checker \notin {"off", "send", "loop", "reply", "gone", "drain"}
  BY <1>1 DEF IInv, AccountInv, DrainInv, PassIsComplete, PoolAtRest
<1>3. checker \in {"pass", "drainWait"}
  BY <1>2 DEF IInv, TypeOK, PassType, CheckerPCs
<1>. QED BY <1>1, <1>3 DEF IInv, AccountInv, DrainInv

LEMMA WorkerInvStep == ASSUME IInv, [Next]_vars PROVE WorkerInv'
<1>. USE DEF WorkerInv, Busy
<1>0. WorkerInv /\ LifeInv /\ TypeOK
  BY DEF IInv
<1>1. CASE StartStep
  <2>1. CASE BeginLifecycle \/ LoadServiceStates
    BY <1>0, <2>1 DEF BeginLifecycle, LoadServiceStates, poolVars
  <2>2. CASE LaunchChecker
    <3>1. checker = "off"
      BY <1>0, <2>2 DEF LaunchChecker, LifeInv
    <3>2. CASE worker' = [w \in Workers |-> "recv"]
      BY <1>0, <2>2, <3>1, <3>2 DEF LaunchChecker, BeginPass
    <3>3. CASE UNCHANGED <<checker, worker>>
      BY <1>0, <2>2, <3>3 DEF LaunchChecker
    <3>. QED BY <2>2, <3>2, <3>3 DEF LaunchChecker
  <2>. QED BY <1>1, <2>1, <2>2 DEF StartStep
<1>2. ASSUME NEW w \in Workers, WorkerStep(w) PROVE WorkerInv'
  <2>. checker' = checker /\ worker \in [Workers -> WorkerPCs]
    BY <1>0, <1>2, WorkerFrame DEF TypeOK, PoolType
  <2>. job \in [Workers -> Svcs \cup {NilSvc}]
    BY <1>0 DEF TypeOK, PoolType
  <2>1. CASE WorkerTake(w)
    <3>1. CASE checker = "pass" /\ Head(checks) \in Svcs
      BY <1>0, <2>1, <3>1, ServiceAssumption DEF WorkerTake
    <3>2. CASE checker = "drainWait" /\ Head(checks) = NilSvc
      BY <1>0, <2>1, <3>2 DEF WorkerTake
    <3>. QED BY <2>1, <3>1, <3>2, TakenWhere
  <2>2. CASE WorkerCheck(w)
    BY <1>0, <2>2 DEF WorkerCheck
  <2>3. CASE WorkerVerify(w)
    BY <1>0, <2>3 DEF WorkerVerify, AfterProbe
  <2>4. CASE WorkerUpdate(w)
    BY <1>0, <2>4 DEF WorkerUpdate
  <2>5. CASE WorkerReport(w)
    BY <1>0, <2>5 DEF WorkerReport
  <2>6. CASE WorkerQuit(w)
    BY <1>0, <2>6 DEF WorkerQuit
  <2>. QED BY <1>2, <2>1, <2>2, <2>3, <2>4, <2>5, <2>6 DEF WorkerStep
<1>3. CASE CheckerStep
  <2>. UNCHANGED <<worker, job>>
    BY <1>3, CheckerFrame
  <2>1. CASE PassStep
    BY <1>0, <2>1 DEF PassStep, Enqueue, Collect, FinishPass, SendResults, Reply
  <2>2. CASE LoopStep
    BY <1>0, <2>2 DEF LoopStep, OnAction, OnCheckEvent, OnTrigger, OnTick, BeginPass
  <2>3. CASE OnCancel
    BY <1>0, <2>3 DEF OnCancel, IInv, AccountInv, PassIsComplete, PoolAtRest
  <2>4. CASE DrainSend
    BY <1>0, <2>4 DEF DrainSend
  <2>5. CASE DrainWait
    <3>1. Quitters = {}
      <4>1. Cardinality(Quitters) = 0
        <5>1. Len(done) \in Nat /\ Len(done) # 0 /\ Len(checks) \in Nat
          BY <1>0, <2>5, EmptySeq, LenProperties DEF DrainWait, TypeOK, PoolType
        <5>2. Len(checks) + Cardinality(Quitters) + Len(done) = 1
          BY <2>5 DEF DrainWait, IInv, DrainInv
        <5>. QED BY <5>1, <5>2, Counts
      <4>. QED BY <4>1, Counts, NobodyCounts
    <3>. QED BY <1>0, <2>5, <3>1 DEF DrainWait, Quitters
  <2>6. CASE CloseStopped
    BY <1>0, <2>6 DEF CloseStopped
  <2>. QED BY <1>3, <2>1, <2>2, <2>3, <2>4, <2>5, <2>6 DEF CheckerStep, DrainStep
<1>4. CASE UNCHANGED <<checker, worker, job>>
  BY <1>0, <1>4
<1>. QED BY <1>1, <1>2, <1>3, <1>4, StopFrame, CancelFrame, CallerFrame DEF Next, vars, poolVars

-----------------------------------------------------------------------------
(* VerdictInv.                                                             *)

LEMMA VerdictInvStep == ASSUME IInv, [Next]_vars PROVE VerdictInv'
<1>. USE DEF VerdictInv
<1>0. VerdictInv /\ LifeInv /\ WorkerInv /\ TypeOK
  BY DEF IInv
<1>. state \in [Svcs -> Verdicts \cup {Unknown, Aborted}]
     /\ worker \in [Workers -> WorkerPCs]
     /\ found \in [Workers -> Verdicts \cup {Unknown, Aborted}]
     /\ job \in [Workers -> Svcs \cup {NilSvc}]
  BY <1>0 DEF TypeOK, StateType, PoolType
<1>1. CASE StartStep
  <2>1. CASE BeginLifecycle
    BY <1>0, <2>1 DEF BeginLifecycle, poolVars, stateVars
  <2>2. CASE LoadServiceStates
    BY <1>0, <2>2 DEF LoadServiceStates, poolVars
  <2>3. CASE LaunchChecker
    BY <1>0, <2>3 DEF LaunchChecker, stateVars
  <2>. QED BY <1>1, <2>1, <2>2, <2>3 DEF StartStep
<1>2. ASSUME NEW p \in Stoppers, StopStep(p) PROVE VerdictInv'
  <2>1. cancelled => cancelled'
    BY <1>2 DEF StopStep, StopBegin, StopCancel, StopFinish
  <2>. QED BY <1>0, <1>2, <2>1, StopFrame DEF poolVars, stateVars
<1>3. CASE ParentCancel
  BY <1>0, <1>3 DEF ParentCancel, poolVars, stateVars
<1>4. ASSUME NEW w \in Workers, WorkerStep(w) PROVE VerdictInv'
  <2>0. cancelled' = cancelled
    BY <1>4, WorkerFrame DEF lifeVars
  <2>1. CASE WorkerTake(w)
    BY <1>0, <2>0, <2>1 DEF WorkerTake, stateVars
  <2>2. CASE WorkerCheck(w)
    BY <1>0, <2>0, <2>2 DEF WorkerCheck, stateVars
  <2>3. CASE WorkerVerify(w)
    BY <1>0, <2>0, <2>3 DEF WorkerVerify, AfterProbe, stateVars
  <2>4. CASE WorkerUpdate(w)
    <3>1. job[w] \in Svcs
      BY <1>0, <2>4 DEF WorkerUpdate, WorkerInv, Busy
    <3>. QED BY <1>0, <2>0, <2>4, <3>1 DEF WorkerUpdate
  <2>5. CASE WorkerReport(w)
    BY <1>0, <2>0, <2>5 DEF WorkerReport, stateVars
  <2>6. CASE WorkerQuit(w)
    BY <1>0, <2>0, <2>6 DEF WorkerQuit, stateVars
  <2>. QED BY <1>4, <2>1, <2>2, <2>3, <2>4, <2>5, <2>6 DEF WorkerStep
<1>5. CASE UNCHANGED <<cancelled, worker, found, state>>
  BY <1>0, <1>5
<1>. QED BY <1>1, <1>2, <1>3, <1>4, <1>5, CallerFrame, CheckerFrame
  DEF Next, vars, poolVars, stateVars, lifeVars

-----------------------------------------------------------------------------
(* AccountInv and DrainInv: the sums.                                      *)

(* A worker that moves to pc joins the set pc is of and leaves the others. *)
LEMMA Moves ==
  ASSUME TypeOK, NEW w \in Workers, NEW pc, worker' = [worker EXCEPT ![w] = pc]
  PROVE  /\ BusyWorkers' = IF pc \in Busy THEN BusyWorkers \cup {w} ELSE BusyWorkers \ {w}
         /\ Quitters' = IF pc = "quit" THEN Quitters \cup {w} ELSE Quitters \ {w}
         /\ Waiting' = IF pc = "recv" THEN Waiting \cup {w} ELSE Waiting \ {w}
<1>1. worker \in [Workers -> WorkerPCs]
  BY DEF TypeOK, PoolType
<1>2. \A v \in Workers : worker'[v] = IF v = w THEN pc ELSE worker[v]
  BY <1>1
<1>3. BusyWorkers' = IF pc \in Busy THEN BusyWorkers \cup {w} ELSE BusyWorkers \ {w}
  BY <1>2 DEF BusyWorkers
<1>4. Quitters' = IF pc = "quit" THEN Quitters \cup {w} ELSE Quitters \ {w}
  BY <1>2 DEF Quitters
<1>5. Waiting' = IF pc = "recv" THEN Waiting \cup {w} ELSE Waiting \ {w}
  BY <1>2 DEF Waiting
<1>. QED BY <1>3, <1>4, <1>5

LEMMA TakeCounts ==
  ASSUME IInv, NEW w \in Workers, WorkerTake(w)
  PROVE  /\ Len(checks) \in Nat /\ Len(checks') = Len(checks) - 1
         /\ \A i \in 1 .. Len(checks') : i + 1 \in 1 .. Len(checks) /\ checks'[i] = checks[i + 1]
         /\ Cardinality(Waiting') = Cardinality(Waiting) - 1
         /\ checker = "pass" =>
              /\ Cardinality(BusyWorkers') = Cardinality(BusyWorkers) + 1
              /\ Cardinality(Quitters') = Cardinality(Quitters)
         /\ checker = "drainWait" => Cardinality(Quitters') = Cardinality(Quitters) + 1
<1>0. TypeOK /\ checks \in Seq(Svcs \cup {NilSvc}) /\ checks # <<>> /\ checks' = Tail(checks)
  BY DEF IInv, TypeOK, PoolType, WorkerTake
<1>1. /\ Len(checks) \in Nat /\ Len(checks') = Len(checks) - 1
      /\ \A i \in 1 .. Len(checks') : i + 1 \in 1 .. Len(checks) /\ checks'[i] = checks[i + 1]
  BY <1>0, HeadTailProperties, LenProperties
<1>2. w \in Waiting /\ w \notin BusyWorkers /\ w \notin Quitters
  BY DEF WorkerTake, Waiting, BusyWorkers, Quitters, Busy
<1>3. Waiting' = Waiting \ {w}
  <2>1. PICK pc \in {"quit", "check"} : worker' = [worker EXCEPT ![w] = pc]
    BY DEF WorkerTake
  <2>2. pc # "recv"
    BY <2>1
  <2>. QED BY <1>0, <2>1, <2>2, Moves
<1>4. CASE checker = "pass" /\ Head(checks) \in Svcs
  <2>1. worker' = [worker EXCEPT ![w] = "check"]
    BY <1>4, ServiceAssumption DEF WorkerTake
  <2>2. BusyWorkers' = BusyWorkers \cup {w} /\ Quitters' = Quitters \ {w}
    BY <1>0, <2>1, Moves DEF Busy
  <2>3. Quitters' = Quitters
    BY <1>2, <2>2
  <2>4. Cardinality(Waiting') = Cardinality(Waiting) - 1
    BY <1>2, <1>3, Counts, LeaveCount
  <2>5. Cardinality(BusyWorkers') = Cardinality(BusyWorkers) + 1
    BY <1>2, <2>2, Counts, JoinCount
  <2>. QED BY <1>1, <1>4, <2>3, <2>4, <2>5
<1>5. CASE checker = "drainWait" /\ Head(checks) = NilSvc
  <2>1. worker' = [worker EXCEPT ![w] = "quit"]
    BY <1>5 DEF WorkerTake
  <2>2. Quitters' = Quitters \cup {w}
    BY <1>0, <2>1, Moves
  <2>3. Cardinality(Waiting') = Cardinality(Waiting) - 1
    BY <1>2, <1>3, Counts, LeaveCount
  <2>4. Cardinality(Quitters') = Cardinality(Quitters) + 1
    BY <1>2, <2>2, Counts, JoinCount
  <2>. QED BY <1>1, <1>5, <2>3, <2>4
<1>. QED BY <1>4, <1>5, TakenWhere

(* The actions of a worker between its take and its answer.                *)
LEMMA ProbeCounts ==
  ASSUME TypeOK, NEW w \in Workers, WorkerCheck(w) \/ WorkerVerify(w) \/ WorkerUpdate(w)
  PROVE  BusyWorkers' = BusyWorkers /\ Quitters' = Quitters /\ Waiting' = Waiting
<1>1. worker[w] \in Busy
  BY DEF WorkerCheck, WorkerVerify, WorkerUpdate, Busy
<1>2. PICK pc \in Busy : worker' = [worker EXCEPT ![w] = pc]
  BY DEF WorkerCheck, WorkerVerify, WorkerUpdate, AfterProbe, Busy
<1>3. w \in BusyWorkers /\ w \notin Quitters /\ w \notin Waiting /\ pc # "quit" /\ pc # "recv"
  BY <1>1 DEF BusyWorkers, Quitters, Waiting, Busy
<1>4. BusyWorkers' = BusyWorkers \cup {w} /\ Quitters' = Quitters \ {w} /\ Waiting' = Waiting \ {w}
  BY <1>2, <1>3, Moves
<1>. QED BY <1>3, <1>4

LEMMA ReportCounts ==
  ASSUME IInv, NEW w \in Workers, WorkerReport(w)
  PROVE  /\ Len(done) \in Nat /\ Len(done') = Len(done) + 1
         /\ Cardinality(BusyWorkers') = Cardinality(BusyWorkers) - 1
<1>1. TypeOK /\ done \in Seq(BOOLEAN) /\ changed[w] \in BOOLEAN
  BY DEF IInv, TypeOK, PoolType
<1>2. Len(done) \in Nat /\ Len(done') = Len(done) + 1
  BY <1>1 DEF WorkerReport
<1>3. w \in BusyWorkers
  BY DEF WorkerReport, BusyWorkers, Busy
<1>4. BusyWorkers' = BusyWorkers \ {w}
  BY <1>1, Moves DEF WorkerReport, Busy
<1>. QED BY <1>2, <1>3, <1>4, Counts, LeaveCount

LEMMA QuitCounts ==
  ASSUME IInv, NEW w \in Workers, WorkerQuit(w)
  PROVE  /\ Len(done) \in Nat /\ Len(done') = Len(done) + 1
         /\ Cardinality(Quitters') = Cardinality(Quitters) - 1
         /\ Waiting' = Waiting
<1>1. TypeOK /\ done \in Seq(BOOLEAN)
  BY DEF IInv, TypeOK, PoolType
<1>2. Len(done) \in Nat /\ Len(done') = Len(done) + 1
  BY <1>1 DEF WorkerQuit
<1>3. w \in Quitters /\ w \notin Waiting
  BY DEF WorkerQuit, Quitters, Waiting
<1>4. worker' = [worker EXCEPT ![w] = "gone"]
  BY DEF WorkerQuit
<1>5. /\ Quitters' = IF "gone" = "quit" THEN Quitters \cup {w} ELSE Quitters \ {w}
      /\ Waiting' = IF "gone" = "recv" THEN Waiting \cup {w} ELSE Waiting \ {w}
  BY <1>1, <1>4, Moves
<1>6. Waiting' = Waiting
  BY <1>3, <1>5
<1>7. Cardinality(Quitters') = Cardinality(Quitters) - 1
  <2>1. w \in Quitters /\ IsFiniteSet(Quitters) /\ Quitters' = Quitters \ {w}
    BY <1>3, <1>5, Counts
  <2>. QED BY <2>1, LeaveCount
<1>. QED BY <1>2, <1>6, <1>7

LEMMA AccountInvStep == ASSUME IInv, [Next]_vars PROVE AccountInv'
<1>0. AccountInv /\ LifeInv /\ WorkerInv /\ DrainInv /\ TypeOK /\ PassIsComplete
  BY DEF IInv, AccountInv
<1>. /\ checks \in Seq(Svcs \cup {NilSvc}) /\ done \in Seq(BOOLEAN)
     /\ Len(checks) \in Nat /\ Len(done) \in Nat /\ Cardinality(BusyWorkers) \in Nat
  BY <1>0, LenProperties, Counts DEF TypeOK, PoolType
<1>1. CASE StartStep
  <2>1. CASE BeginLifecycle \/ LoadServiceStates
    BY <1>0, <2>1 DEF AccountInv, PassIsComplete, PoolAtRest, BusyWorkers, BeginLifecycle,
       LoadServiceStates, poolVars, passVars
  <2>2. CASE LaunchChecker
    <3>1. checks = <<>> /\ done = <<>> /\ checks' = <<>> /\ done' = <<>>
      BY <1>0, <2>2 DEF LaunchChecker, LifeInv, PassIsComplete, PoolAtRest
    <3>2. \A w \in Workers : worker'[w] \in {"off", "recv", "gone"}
      BY <1>0, <2>2 DEF LaunchChecker, LifeInv
    <3>3. BusyWorkers' = {}
      BY <3>2 DEF BusyWorkers, Busy
    <3>4. checker' = "pass" => pass'.outstanding = 0
      BY <1>0, <2>2 DEF LaunchChecker, BeginPass, LifeInv
    <3>5. PoolAtRest'
      BY <3>1, <3>2 DEF PoolAtRest
    <3>. QED BY <3>1, <3>3, <3>4, <3>5, FS_EmptySet DEF AccountInv, PassIsComplete
  <2>. QED BY <1>1, <2>1, <2>2 DEF StartStep
<1>2. ASSUME NEW w \in Workers, WorkerStep(w) PROVE AccountInv'
  <2>. checker' = checker /\ pass' = pass
    BY <1>2, WorkerFrame DEF passVars
  <2>1. checker \in {"pass", "drain", "drainWait"}
    <3>1. worker[w] \in Busy \cup {"quit"} \/ checks # <<>>
      BY <1>2 DEF WorkerStep, WorkerTake, WorkerCheck, WorkerVerify, WorkerUpdate, WorkerReport,
         WorkerQuit, Busy
    <3>2. ~PoolAtRest
      BY <3>1 DEF PoolAtRest, Busy
    <3>. QED BY <1>0, <3>2 DEF PassIsComplete, TypeOK, PassType, CheckerPCs
  <2>2. PassIsComplete'
    BY <2>1 DEF PassIsComplete
  <2>3. ASSUME checker = "pass"
        PROVE  /\ pass.outstanding = Len(checks') + Cardinality(BusyWorkers') + Len(done')
               /\ \A i \in 1 .. Len(checks') : checks'[i] \in Svcs
    <3>0. /\ pass.outstanding = Len(checks) + Cardinality(BusyWorkers) + Len(done)
          /\ \A i \in 1 .. Len(checks) : checks[i] \in Svcs
      BY <1>0, <2>3 DEF AccountInv
    <3>1. CASE WorkerTake(w)
      <4>1. /\ Len(checks') = Len(checks) - 1 /\ done' = done
            /\ \A i \in 1 .. Len(checks') : i + 1 \in 1 .. Len(checks) /\ checks'[i] = checks[i + 1]
            /\ Cardinality(BusyWorkers') = Cardinality(BusyWorkers) + 1
        BY <2>3, <3>1, TakeCounts DEF WorkerTake
      <4>2. \A i \in 1 .. Len(checks') : checks'[i] \in Svcs
        BY <3>0, <4>1
      <4>3. pass.outstanding = Len(checks') + Cardinality(BusyWorkers') + Len(done')
        BY <3>0, <4>1
      <4>. QED BY <4>2, <4>3
    <3>2. CASE WorkerCheck(w) \/ WorkerVerify(w) \/ WorkerUpdate(w)
      <4>1. BusyWorkers' = BusyWorkers
        BY <1>0, <3>2, ProbeCounts
      <4>2. UNCHANGED <<checks, done>>
        BY <3>2 DEF WorkerCheck, WorkerVerify, WorkerUpdate
      <4>. QED BY <3>0, <4>1, <4>2
    <3>3. CASE WorkerReport(w)
      <4>1. /\ Len(done') = Len(done) + 1 /\ checks' = checks
            /\ Cardinality(BusyWorkers') = Cardinality(BusyWorkers) - 1
        BY <3>3, ReportCounts DEF WorkerReport
      <4>. QED BY <3>0, <4>1
    <3>4. ~WorkerQuit(w)
      BY <1>0, <2>3 DEF WorkerQuit, WorkerInv, Busy
    <3>. QED BY <1>2, <3>1, <3>2, <3>3, <3>4 DEF WorkerStep
  <2>. QED BY <2>2, <2>3 DEF AccountInv
<1>3. CASE CheckerStep
  <2>. worker' = worker /\ BusyWorkers' = BusyWorkers
    BY <1>3, CheckerFrame DEF BusyWorkers
  <2>1. CASE Enqueue
    <3>1. PICK s \in pass.todo :
            /\ checks' = Append(checks, s)
            /\ pass' = [pass EXCEPT !.todo = @ \ {s}, !.outstanding = @ + 1]
      BY <2>1 DEF Enqueue
    <3>2. s \in Svcs /\ pass'.outstanding = pass.outstanding + 1 /\ pass.outstanding \in Int
      BY <1>0, <3>1 DEF TypeOK, PassType
    <3>3. /\ Len(checks') = Len(checks) + 1
          /\ \A i \in 1 .. Len(checks') : checks'[i] = IF i = Len(checks) + 1 THEN s ELSE checks[i]
      BY <3>1, <3>2
    <3>4. checker = "pass" /\ checker' = "pass" /\ done' = done
      BY <2>1 DEF Enqueue
    <3>5. /\ pass.outstanding = Len(checks) + Cardinality(BusyWorkers) + Len(done)
          /\ \A i \in 1 .. Len(checks) : checks[i] \in Svcs
      BY <1>0, <3>4 DEF AccountInv
    <3>6. Cardinality(BusyWorkers') = Cardinality(BusyWorkers) /\ Len(done') = Len(done)
      BY <3>4
    <3>7. pass'.outstanding = Len(checks') + Cardinality(BusyWorkers') + Len(done')
      BY <3>2, <3>3, <3>5, <3>6
    <3>8. \A i \in 1 .. Len(checks') : checks'[i] \in Svcs
      BY SMTT(60), <3>2, <3>3, <3>5
    <3>. QED BY <3>4, <3>7, <3>8 DEF AccountInv, PassIsComplete
  <2>2. CASE Collect
    <3>1. done' = Tail(done) /\ checks' = checks /\ checker = "pass" /\ checker' = "pass"
      BY <2>2 DEF Collect
    <3>2. Len(done') = Len(done) - 1
      BY <2>2, <3>1, HeadTailProperties DEF Collect
    <3>3. pass'.outstanding = pass.outstanding - 1
      BY <1>0, <2>2 DEF Collect, TypeOK, PassType
    <3>4. /\ pass.outstanding = Len(checks) + Cardinality(BusyWorkers) + Len(done)
          /\ \A i \in 1 .. Len(checks) : checks[i] \in Svcs
      BY <1>0, <3>1 DEF AccountInv
    <3>5. Cardinality(BusyWorkers') = Cardinality(BusyWorkers) /\ Len(checks') = Len(checks)
      BY <3>1
    <3>6. pass'.outstanding = Len(checks') + Cardinality(BusyWorkers') + Len(done')
      BY <3>2, <3>3, <3>4, <3>5
    <3>. QED BY <3>1, <3>4, <3>6 DEF AccountInv, PassIsComplete
  <2>3. CASE FinishPass
    <3>1. Len(checks) = 0 /\ Len(done) = 0 /\ Cardinality(BusyWorkers) = 0
      BY <1>0, <2>3 DEF FinishPass, PassOver, AccountInv
    <3>2. checks = <<>> /\ done = <<>> /\ BusyWorkers = {}
      BY <3>1, Counts, NobodyCounts, EmptySeq
    <3>3. \A w \in Workers : worker[w] = "recv"
      BY <1>0, <2>3, <3>2 DEF FinishPass, WorkerInv, BusyWorkers
    <3>4. PoolAtRest'
      BY <2>3, <3>2, <3>3 DEF PoolAtRest, FinishPass, poolVars
    <3>. QED BY <2>3, <3>4 DEF FinishPass, AccountInv, PassIsComplete
  <2>4. CASE SendResults \/ Reply \/ OnAction
    BY <1>0, <2>4 DEF SendResults, Reply, OnAction, AccountInv, PassIsComplete, PoolAtRest, poolVars
  <2>5. CASE OnCheckEvent \/ OnTrigger \/ OnTick
    <3>1. checker = "loop" /\ checker' = "pass" /\ pass'.outstanding = 0 /\ UNCHANGED poolVars
      BY <2>5 DEF OnCheckEvent, OnTrigger, OnTick, BeginPass
    <3>2. PoolAtRest
      BY <1>0, <3>1 DEF PassIsComplete
    <3>3. Len(checks) = 0 /\ Len(done) = 0 /\ Cardinality(BusyWorkers) = 0
      BY <3>2, RestIsEmpty
    <3>. QED BY <3>1, <3>3 DEF AccountInv, PassIsComplete, poolVars
  <2>6. CASE OnCancel \/ DrainSend \/ DrainWait
    BY <2>6 DEF OnCancel, DrainSend, DrainWait, AccountInv, PassIsComplete
  <2>7. CASE CloseStopped
    <3>1. checks' = <<>> /\ done' = <<>>
      BY <1>0, <2>7 DEF CloseStopped, DrainInv, poolVars
    <3>2. \A w \in Workers : worker[w] \in {"recv", "gone"}
      BY <1>0, <2>7 DEF CloseStopped, WorkerInv
    <3>. QED BY <2>7, <3>1, <3>2 DEF CloseStopped, AccountInv, PassIsComplete, PoolAtRest
  <2>. QED BY <1>3, <2>1, <2>2, <2>3, <2>4, <2>5, <2>6, <2>7
    DEF CheckerStep, PassStep, LoopStep, DrainStep
<1>4. CASE UNCHANGED <<checker, pass, poolVars>>
  BY <1>0, <1>4 DEF AccountInv, PassIsComplete, PoolAtRest, BusyWorkers, poolVars
<1>. QED BY <1>1, <1>2, <1>3, <1>4, StopFrame, CancelFrame, CallerFrame DEF Next, vars, passVars

LEMMA DrainInvStep == ASSUME IInv, [Next]_vars PROVE DrainInv'
<1>0. AccountInv /\ LifeInv /\ WorkerInv /\ DrainInv /\ TypeOK /\ PassIsComplete
  BY DEF IInv, AccountInv
<1>. /\ checks \in Seq(Svcs \cup {NilSvc}) /\ done \in Seq(BOOLEAN)
     /\ Len(checks) \in Nat /\ Len(done) \in Nat
     /\ Cardinality(Waiting) \in Nat /\ Cardinality(Quitters) \in Nat
  BY <1>0, LenProperties, Counts DEF TypeOK, PoolType
<1>1. CASE StartStep
  <2>1. checker = "off" \/ UNCHANGED <<checker, worker, drainLeft, checks, done>>
    BY <1>0, <1>1 DEF StartStep, BeginLifecycle, LoadServiceStates, LaunchChecker, LifeInv,
       passVars, poolVars
  <2>2. checker = "off" => checker' \in {"off", "pass", "loop"}
    BY <1>1 DEF StartStep, BeginLifecycle, LoadServiceStates, LaunchChecker, BeginPass
  <2>3. CASE checker = "off"
    BY <2>2, <2>3 DEF DrainInv
  <2>4. CASE UNCHANGED <<checker, worker, drainLeft, checks, done>>
    BY <1>0, <2>4 DEF DrainInv, Waiting, Quitters
  <2>. QED BY <2>1, <2>3, <2>4
<1>2. ASSUME NEW w \in Workers, WorkerStep(w) PROVE DrainInv'
  <2>. checker' = checker /\ drainLeft' = drainLeft
    BY <1>2, WorkerFrame DEF passVars
  <2>1. checker # "drain"
    <3>1. worker[w] \notin {"recv", "gone"} \/ checks # <<>>
      BY <1>2 DEF WorkerStep, WorkerTake, WorkerCheck, WorkerVerify, WorkerUpdate, WorkerReport,
         WorkerQuit
    <3>. QED BY <1>0, <3>1 DEF DrainInv, WorkerInv
  <2>2. CASE checker = "drainWait"
    <3>0. /\ \A i \in 1 .. Len(checks) : checks[i] = NilSvc
          /\ Len(checks) + Cardinality(Quitters) + Len(done) = 1
          /\ drainLeft = Cardinality(Waiting) + Cardinality(Quitters) + Len(done)
      BY <1>0, <2>2 DEF DrainInv
    <3>1. CASE WorkerTake(w)
      <4>1. /\ Len(checks') = Len(checks) - 1 /\ done' = done
            /\ \A i \in 1 .. Len(checks') : i + 1 \in 1 .. Len(checks) /\ checks'[i] = checks[i + 1]
            /\ Cardinality(Waiting') = Cardinality(Waiting) - 1
            /\ Cardinality(Quitters') = Cardinality(Quitters) + 1
        BY <2>2, <3>1, TakeCounts DEF WorkerTake
      <4>2. \A i \in 1 .. Len(checks') : checks'[i] = NilSvc
        BY <3>0, <4>1
      <4>3. /\ Len(checks') + Cardinality(Quitters') + Len(done') = 1
            /\ drainLeft = Cardinality(Waiting') + Cardinality(Quitters') + Len(done')
        BY <3>0, <4>1
      <4>. QED BY <2>2, <4>2, <4>3 DEF DrainInv
    <3>2. CASE WorkerQuit(w)
      <4>1. /\ Len(done') = Len(done) + 1 /\ checks' = checks
            /\ Cardinality(Quitters') = Cardinality(Quitters) - 1
            /\ Cardinality(Waiting') = Cardinality(Waiting)
        BY <3>2, QuitCounts DEF WorkerQuit
      <4>2. /\ Len(checks') + Cardinality(Quitters') + Len(done') = 1
            /\ drainLeft = Cardinality(Waiting') + Cardinality(Quitters') + Len(done')
        BY <3>0, <4>1
      <4>. QED BY <2>2, <3>0, <4>1, <4>2 DEF DrainInv
    <3>3. worker[w] \in {"recv", "quit", "gone"}
      BY <1>0, <2>2 DEF WorkerInv
    <3>. QED BY <1>2, <3>1, <3>2, <3>3 DEF WorkerStep, WorkerCheck, WorkerVerify, WorkerUpdate,
         WorkerReport
  <2>. QED BY <2>1, <2>2 DEF DrainInv
<1>3. CASE CheckerStep
  <2>. worker' = worker /\ Waiting' = Waiting /\ Quitters' = Quitters
    BY <1>3, CheckerFrame DEF Waiting, Quitters
  <2>1. CASE OnCancel
    <3>1. PoolAtRest
      BY <1>0, <2>1 DEF OnCancel, PassIsComplete
    <3>2. \A w \in Workers : worker[w] = "recv"
      BY <1>0, <2>1, <3>1 DEF OnCancel, WorkerInv, PoolAtRest, Busy
    <3>3. Waiting = Workers
      BY <3>2 DEF Waiting
    <3>. QED BY <2>1, <3>1, <3>3 DEF OnCancel, DrainInv, DrainRounds, Parallel, PoolAtRest, poolVars
  <2>2. CASE DrainSend
    <3>0. checks = <<>> /\ done = <<>> /\ drainLeft = Cardinality(Waiting)
      BY <1>0, <2>2 DEF DrainSend, DrainInv
    <3>1. checks' = <<NilSvc>> /\ done' = <<>> /\ drainLeft' = drainLeft /\ checker' = "drainWait"
      BY <2>2, <3>0 DEF DrainSend, passVars
    <3>2. Quitters = {}
      BY <1>0, <2>2 DEF DrainSend, WorkerInv, Quitters
    <3>3. Cardinality(Quitters) = 0
      BY <3>2, FS_EmptySet
    <3>4. Len(checks') = 1 /\ Len(done') = 0 /\ checks'[1] = NilSvc
      BY <3>1
    <3>. QED BY <3>0, <3>1, <3>3, <3>4 DEF DrainInv
  <2>3. CASE DrainWait
    <3>0. /\ Len(checks) + Cardinality(Quitters) + Len(done) = 1
          /\ drainLeft = Cardinality(Waiting) + Cardinality(Quitters) + Len(done)
      BY <1>0, <2>3 DEF DrainWait, DrainInv
    <3>1. Len(done) # 0 /\ done' = Tail(done) /\ Len(done') = Len(done) - 1 /\ done' \in Seq(BOOLEAN)
      BY <2>3, HeadTailProperties, EmptySeq DEF DrainWait
    <3>2. Len(done) = 1 /\ Len(checks) = 0 /\ Cardinality(Quitters) = 0
      BY <3>0, <3>1
    <3>3. checks = <<>> /\ done' = <<>>
      BY <3>1, <3>2, EmptySeq
    <3>4. drainLeft' = drainLeft - 1 /\ checks' = checks /\ checker' = "drain"
      BY <2>3 DEF DrainWait
    <3>5. drainLeft' = Cardinality(Waiting')
      <4>1. drainLeft = Cardinality(Waiting) + 0 + 1
        BY <3>0, <3>2, Zenon
      <4>2. drainLeft \in Int /\ drainLeft' = Cardinality(Waiting)
        BY <3>4, <4>1
      <4>. QED BY <4>2, Zenon
    <3>6. checks' = <<>> /\ done' = <<>> /\ checker' # "drainWait"
      BY <3>3, <3>4
    <3>. QED BY <3>5, <3>6 DEF DrainInv
  <2>4. CASE CloseStopped
    BY <2>4 DEF CloseStopped, DrainInv
  <2>5. CASE PassStep \/ LoopStep
    <3>1. checker' \notin {"drain", "drainWait"}
      BY <2>5 DEF PassStep, LoopStep, Enqueue, Collect, FinishPass, SendResults, Reply, OnAction,
         OnCheckEvent, OnTrigger, OnTick, BeginPass
    <3>. QED BY <3>1 DEF DrainInv
  <2>. QED BY <1>3, <2>1, <2>2, <2>3, <2>4, <2>5 DEF CheckerStep, DrainStep
<1>4. CASE UNCHANGED <<checker, drainLeft, checks, done, worker>>
  BY <1>0, <1>4 DEF DrainInv, Waiting, Quitters
<1>. QED BY <1>1, <1>2, <1>3, <1>4, StopFrame, CancelFrame, CallerFrame
  DEF Next, vars, passVars, poolVars

-----------------------------------------------------------------------------
(* PlaceInv.                                                               *)

LEMMA PlaceInvStep == ASSUME IInv, [Next]_vars PROVE PlaceInv'
<1>0. PlaceInv /\ AccountInv /\ LifeInv /\ WorkerInv /\ DrainInv /\ TypeOK /\ PassIsComplete
  BY DEF IInv, AccountInv
<1>. /\ checks \in Seq(Svcs \cup {NilSvc}) /\ Len(checks) \in Nat
     /\ worker \in [Workers -> WorkerPCs] /\ job \in [Workers -> Svcs \cup {NilSvc}]
  BY <1>0, LenProperties DEF TypeOK, PoolType
<1>1. CASE StartStep
  <2>1. checker = "off" \/ UNCHANGED <<checker, pass, checks, worker, job>>
    BY <1>0, <1>1 DEF StartStep, BeginLifecycle, LoadServiceStates, LaunchChecker, LifeInv,
       passVars, poolVars
  <2>2. CASE checker = "off"
    <3>1. Len(checks') = 0
      BY <1>0, <1>1, <2>2, StartFrame, EmptySeq DEF PassIsComplete, PoolAtRest
    <3>2. \A w \in Workers : worker'[w] \notin Busy
      BY <1>0, <1>1, <2>2 DEF StartStep, BeginLifecycle, LoadServiceStates, LaunchChecker, LifeInv,
         Busy, poolVars
    <3>. QED BY <3>1, <3>2 DEF PlaceInv, OneCheckPerService
  <2>. QED BY <1>0, <2>1, <2>2 DEF PlaceInv, OneCheckPerService
<1>2. ASSUME NEW w \in Workers, WorkerStep(w) PROVE PlaceInv'
  <2>. checker' = checker /\ pass' = pass
    BY <1>2, WorkerFrame DEF passVars
  <2>1. CASE WorkerTake(w) /\ checker = "pass"
    <3>0. /\ OneCheckPerService
          /\ \A i, j \in 1 .. Len(checks) : i # j => checks[i] # checks[j]
          /\ \A i \in 1 .. Len(checks) : checks[i] \notin pass.todo
          /\ \A i \in 1 .. Len(checks), v \in Workers : worker[v] \in Busy => job[v] # checks[i]
          /\ \A v \in Workers : worker[v] \in Busy => job[v] \notin pass.todo
      BY <1>0, <2>1 DEF PlaceInv
    <3>1. /\ 1 \in 1 .. Len(checks) /\ Head(checks) = checks[1]
          /\ \A i \in 1 .. Len(checks') :
               i + 1 \in 1 .. Len(checks) /\ i + 1 # 1 /\ checks'[i] = checks[i + 1]
      BY <2>1, TakeCounts, EmptySeq DEF WorkerTake
    <3>2. \A v \in Workers : /\ v # w => worker'[v] = worker[v] /\ job'[v] = job[v]
                             /\ v = w => job'[v] = checks[1]
      BY <2>1, <3>1 DEF WorkerTake
    <3>3. OneCheckPerService'
      BY <3>0, <3>1, <3>2 DEF OneCheckPerService
    <3>4. \A i, j \in 1 .. Len(checks') : i # j => checks'[i] # checks'[j]
      BY <3>0, <3>1
    <3>5. \A i \in 1 .. Len(checks') : checks'[i] \notin pass.todo
      BY <3>0, <3>1
    <3>6. \A i \in 1 .. Len(checks'), v \in Workers : worker'[v] \in Busy => job'[v] # checks'[i]
      BY <3>0, <3>1, <3>2
    <3>7. \A v \in Workers : worker'[v] \in Busy => job'[v] \notin pass.todo
      BY <3>0, <3>1, <3>2
    <3>. QED BY <3>3, <3>4, <3>5, <3>6, <3>7 DEF PlaceInv
  <2>2. CASE WorkerTake(w) /\ checker = "drainWait"
    <3>0. Head(checks) = NilSvc
      BY <2>2, TakenWhere
    <3>1. \A v \in Workers : worker'[v] \notin Busy
      BY <1>0, <2>2, <3>0 DEF WorkerTake, WorkerInv, Busy
    <3>. QED BY <2>2, <3>1 DEF PlaceInv, OneCheckPerService
  <2>3. CASE WorkerCheck(w) \/ WorkerVerify(w) \/ WorkerUpdate(w)
    <3>1. UNCHANGED <<checks, job>>
      BY <2>3 DEF WorkerCheck, WorkerVerify, WorkerUpdate
    <3>2. BusyWorkers' = BusyWorkers
      BY <1>0, <2>3, ProbeCounts
    <3>3. \A v \in Workers : worker'[v] \in Busy <=> worker[v] \in Busy
      BY <3>2 DEF BusyWorkers
    <3>. QED BY <1>0, <3>1, <3>3 DEF PlaceInv, OneCheckPerService
  <2>4. CASE WorkerReport(w) \/ WorkerQuit(w)
    <3>1. checks' = checks
      BY <2>4 DEF WorkerReport, WorkerQuit
    <3>2. \A v \in Workers : worker'[v] \in Busy => worker[v] \in Busy /\ job'[v] = job[v]
      BY <2>4 DEF WorkerReport, WorkerQuit, Busy
    <3>. QED BY <1>0, <3>1, <3>2 DEF PlaceInv, OneCheckPerService
  <2>. QED BY <1>2, <2>1, <2>2, <2>3, <2>4, TakenWhere DEF WorkerStep
<1>3. CASE CheckerStep
  <2>. worker' = worker /\ job' = job
    BY <1>3, CheckerFrame
  <2>0. OneCheckPerService'
    BY <1>0 DEF PlaceInv, OneCheckPerService
  <2>1. CASE Enqueue
    <3>0. /\ \A i, j \in 1 .. Len(checks) : i # j => checks[i] # checks[j]
          /\ \A i \in 1 .. Len(checks) : checks[i] \notin pass.todo
          /\ \A i \in 1 .. Len(checks), v \in Workers : worker[v] \in Busy => job[v] # checks[i]
          /\ \A v \in Workers : worker[v] \in Busy => job[v] \notin pass.todo
      BY <1>0, <2>1 DEF PlaceInv, Enqueue
    <3>1. PICK s \in pass.todo :
            /\ checks' = Append(checks, s)
            /\ pass' = [pass EXCEPT !.todo = @ \ {s}, !.outstanding = @ + 1]
      BY <2>1 DEF Enqueue
    <3>2. s \in Svcs /\ pass'.todo = pass.todo \ {s}
      BY <1>0, <3>1 DEF TypeOK, PassType
    <3>3. /\ Len(checks') = Len(checks) + 1
          /\ \A i \in 1 .. Len(checks') : checks'[i] = IF i = Len(checks) + 1 THEN s ELSE checks[i]
      BY <3>1, <3>2
    <3>4. \A i, j \in 1 .. Len(checks') : i # j => checks'[i] # checks'[j]
      BY <3>0, <3>1, <3>3
    <3>5. \A i \in 1 .. Len(checks') : checks'[i] \notin pass'.todo
      BY <3>0, <3>2, <3>3
    <3>6. \A i \in 1 .. Len(checks'), v \in Workers : worker[v] \in Busy => job[v] # checks'[i]
      BY <3>0, <3>1, <3>3
    <3>7. \A v \in Workers : worker[v] \in Busy => job[v] \notin pass'.todo
      BY <3>0, <3>2
    <3>. QED BY <2>0, <3>4, <3>5, <3>6, <3>7 DEF PlaceInv
  <2>2. CASE Collect
    <3>1. checks' = checks /\ pass'.todo = pass.todo /\ checker = "pass"
      BY <1>0, <2>2 DEF Collect, TypeOK, PassType
    <3>. QED BY <1>0, <2>0, <3>1 DEF PlaceInv
  <2>3. CASE OnCheckEvent \/ OnTrigger \/ OnTick
    <3>1. checker = "loop" /\ checks' = checks
      BY <2>3 DEF OnCheckEvent, OnTrigger, OnTick, poolVars
    <3>2. PoolAtRest
      BY <1>0, <3>1 DEF PassIsComplete
    <3>3. Len(checks') = 0 /\ \A w \in Workers : worker[w] \notin Busy
      BY <3>1, <3>2, EmptySeq DEF PoolAtRest, Busy
    <3>. QED BY <2>0, <3>3 DEF PlaceInv
  <2>4. CASE checker' # "pass"
    BY <2>0, <2>4 DEF PlaceInv
  <2>5. CheckerStep => checker' # "pass" \/ Enqueue \/ Collect \/ OnCheckEvent \/ OnTrigger \/ OnTick
    BY DEF CheckerStep, PassStep, LoopStep, DrainStep, FinishPass, SendResults, Reply, OnAction,
       OnCancel, DrainSend, DrainWait, CloseStopped
  <2>. QED BY <1>3, <2>1, <2>2, <2>3, <2>4, <2>5
<1>4. CASE UNCHANGED <<checker, pass, checks, worker, job>>
  BY <1>0, <1>4 DEF PlaceInv, OneCheckPerService
<1>. QED BY <1>1, <1>2, <1>3, <1>4, StopFrame, CancelFrame, CallerFrame
  DEF Next, vars, passVars, poolVars

-----------------------------------------------------------------------------
(* The theorems.                                                           *)

LEMMA InitInv == Init => IInv
<1>. SUFFICES ASSUME Init PROVE IInv
  OBVIOUS
<1>1. LifeInv /\ WorkerInv /\ DrainInv /\ VerdictInv
  BY DEF Init, LifeInv, WorkerInv, Busy, DrainInv, VerdictInv
<1>2. AccountInv
  BY DEF Init, AccountInv, PassIsComplete, PoolAtRest
<1>3. PlaceInv
  BY DEF Init, PlaceInv, OneCheckPerService, Busy
<1>. QED BY <1>1, <1>2, <1>3, InitType DEF IInv

LEMMA StepInv == IInv /\ [Next]_vars => IInv'
BY TypeStep, LifeInvStep, WorkerInvStep, AccountInvStep, DrainInvStep, PlaceInvStep,
   VerdictInvStep DEF IInv

(* The parts of IInv hold together in every reachable state of the checker. *)
THEOREM Invariance == Spec => []IInv
BY InitInv, StepInv, PTL DEF Spec

(* Every variable keeps its type, and every channel its capacity: no round *)
(* of stopWorkers is missing or left over for any pool size.               *)
THEOREM TypeCorrect == Spec => []TypeOK
<1>1. IInv => TypeOK
  BY DEF IInv
<1>. QED BY <1>1, Invariance, PTL

(* No pass of enqueueCheck and waitChecks, over any number of services and *)
(* with a pool of any size, ends while a check is on its way.              *)
THEOREM PassesComplete == Spec => []PassIsComplete
<1>1. IInv => PassIsComplete
  BY DEF IInv, AccountInv
<1>. QED BY <1>1, Invariance, PTL

(* Two workers are never at the same service.                              *)
THEOREM ChecksAreExclusive == Spec => []OneCheckPerService
<1>1. IInv => OneCheckPerService
  BY DEF IInv, PlaceInv
<1>. QED BY <1>1, Invariance, PTL

(* When Stop closes the channels no goroutine of the checker is left.      *)
THEOREM ShutdownIsQuiet == Spec => []StopIsQuiet
<1>1. IInv => StopIsQuiet
  <2>. SUFFICES ASSUME IInv, stopped \/ ~live PROVE StopIsQuiet
    BY DEF StopIsQuiet
  <2>0. LifeInv /\ WorkerInv /\ DrainInv /\ AccountInv /\ PassIsComplete /\ TypeOK
    BY DEF IInv, AccountInv
  <2>1. checker \in {"off", "gone"}
    <3>1. CASE stopped
      BY <2>0, <3>1 DEF LifeInv
    <3>2. CASE ~stopped
      BY <2>0, <3>2 DEF LifeInv, TypeOK, LifeType
    <3>. QED BY <3>1, <3>2
  <2>2. PoolAtRest
    BY <2>0, <2>1 DEF PassIsComplete
  <2>3. \A w \in Workers : worker[w] \in {"off", "gone"}
    BY <2>0, <2>1 DEF LifeInv
  <2>. QED BY <2>1, <2>2, <2>3 DEF StopIsQuiet, PoolAtRest
<1>. QED BY <1>1, Invariance, PTL

(* The result of a check that was cut short is dropped.                    *)
THEOREM CutShortIsDropped == Spec => []AbortedNeverKept
<1>1. IInv => AbortedNeverKept
  BY ServiceAssumption DEF IInv, VerdictInv, AbortedNeverKept
<1>. QED BY <1>1, Invariance, PTL

(* The states are final when a Stop that did the work returns.             *)
THEOREM StatesAreFinal == Spec => StatesSettleAtStop
<1>1. IInv /\ [Next]_vars => [(\E p \in Stoppers : stopper[p] = "finished") => UNCHANGED state]_vars
  <2>. SUFFICES ASSUME IInv, [Next]_vars, NEW p \in Stoppers, stopper[p] = "finished"
                PROVE  UNCHANGED state
    OBVIOUS
  <2>0. stopped /\ starter = "done"
    BY DEF IInv, LifeInv, TypeOK, LifeType
  <2>1. checker \in {"off", "gone"} /\ \A w \in Workers : worker[w] \in {"off", "gone"}
    BY <2>0 DEF IInv, LifeInv
  <2>2. CASE StartStep
    BY <2>0, <2>2 DEF StartStep, BeginLifecycle, LoadServiceStates, LaunchChecker, stateVars
  <2>3. ~\E w \in Workers : WorkerStep(w)
    BY <2>1 DEF WorkerStep, WorkerTake, WorkerCheck, WorkerVerify, WorkerUpdate, WorkerReport,
       WorkerQuit
  <2>. QED BY <2>2, <2>3, StopFrame, CancelFrame, CallerFrame, CheckerFrame DEF Next, vars, stateVars
<1>. QED BY <1>1, Invariance, PTL DEF Spec, StatesSettleAtStop

-----------------------------------------------------------------------------
(* Running: questions, answers and who waits for them.                     *)

(* While the checker lives, who waits in Running is counted by the          *)
(* questions and answers under way.                                        *)
WaitersInv == ~stopped => IsFiniteSet(Waiters) /\ RepliesMatchWaiters

(* A question more or less in the channel.                                 *)
QuestionsIn(q) == {i \in DOMAIN q : q[i] = "running"}

LEMMA QuestionsAreFinite == ASSUME NEW S, NEW q \in Seq(S) PROVE IsFiniteSet(QuestionsIn(q)) /\ Cardinality(QuestionsIn(q)) \in Nat
<1>1. IsFiniteSet(1 .. Len(q)) /\ DOMAIN q = 1 .. Len(q)
  BY FS_Interval
<1>2. IsFiniteSet(QuestionsIn(q))
  BY <1>1, FS_Subset DEF QuestionsIn
<1>. QED BY <1>2, FS_CardinalityType

LEMMA AskCounts ==
  ASSUME NEW S, NEW q \in Seq(S), NEW e \in S
  PROVE  Cardinality(QuestionsIn(Append(q, e)))
           = Cardinality(QuestionsIn(q)) + IF e = "running" THEN 1 ELSE 0
<1>. DEFINE n == Len(q) + 1
<1>1. /\ DOMAIN q = 1 .. Len(q) /\ Len(q) \in Nat /\ n \notin QuestionsIn(q)
      /\ DOMAIN Append(q, e) = DOMAIN q \cup {n} /\ Append(q, e)[n] = e
      /\ \A i \in DOMAIN q : Append(q, e)[i] = q[i]
  BY DEF QuestionsIn
<1>2. QuestionsIn(Append(q, e)) = QuestionsIn(q) \cup (IF e = "running" THEN {n} ELSE {})
  BY <1>1 DEF QuestionsIn
<1>3. IsFiniteSet(QuestionsIn(q)) /\ Cardinality(QuestionsIn(q)) \in Nat
  BY QuestionsAreFinite
<1>4. CASE e = "running"
  <2>1. Cardinality(QuestionsIn(q) \cup {n}) = Cardinality(QuestionsIn(q)) + 1
    BY <1>1, <1>3, FS_AddElement
  <2>. QED BY <1>2, <1>4, <2>1
<1>5. CASE e # "running"
  BY <1>2, <1>3, <1>5
<1>. QED BY <1>4, <1>5

LEMMA ReadCounts ==
  ASSUME NEW S, NEW q \in Seq(S), q # <<>>
  PROVE  Cardinality(QuestionsIn(q))
           = Cardinality(QuestionsIn(Tail(q))) + IF Head(q) = "running" THEN 1 ELSE 0
<1>. DEFINE t == Tail(q)
            later == QuestionsIn(q) \ {1}
<1>1. /\ t \in Seq(S) /\ Len(t) = Len(q) - 1 /\ Len(q) \in Nat \ {0}
      /\ \A i \in 1 .. Len(t) : t[i] = q[i + 1]
      /\ Head(q) = q[1]
  BY HeadTailProperties
<1>2. IsFiniteSet(QuestionsIn(t)) /\ IsFiniteSet(QuestionsIn(q))
  BY <1>1, QuestionsAreFinite
<1>3. Cardinality(later) = Cardinality(QuestionsIn(t))
  <2>. DEFINE f == [i \in QuestionsIn(t) |-> i + 1]
  <2>1. \A i \in later : i \in 2 .. Len(q) /\ i - 1 \in QuestionsIn(t)
    BY <1>1 DEF QuestionsIn
  <2>2. \A i \in QuestionsIn(t) : i \in Nat /\ i + 1 \in later
    BY <1>1 DEF QuestionsIn
  <2>3. f \in Bijection(QuestionsIn(t), later)
    <3>1. f \in [QuestionsIn(t) -> later]
      BY <2>2
    <3>2. \A i, j \in QuestionsIn(t) : f[i] = f[j] => i = j
      BY <2>2
    <3>3. \A i \in later : \E j \in QuestionsIn(t) : f[j] = i
      BY <2>1
    <3>. QED BY <3>1, <3>2, <3>3 DEF Bijection, Injection, Surjection, IsInjective
  <2>4. ExistsBijection(QuestionsIn(t), later)
    BY <2>3 DEF ExistsBijection
  <2>. QED BY <1>2, <2>4, FS_Bijection
<1>4. Cardinality(QuestionsIn(t)) \in Nat /\ Cardinality(QuestionsIn(q)) \in Nat
  BY <1>2, FS_CardinalityType
<1>5. CASE Head(q) = "running"
  <2>1. 1 \in QuestionsIn(q)
    BY <1>1, <1>5 DEF QuestionsIn
  <2>2. Cardinality(later) = Cardinality(QuestionsIn(q)) - 1
    BY <1>2, <2>1, FS_RemoveElement
  <2>. QED BY <1>3, <1>5, <1>4, <2>2
<1>6. CASE Head(q) # "running"
  <2>1. later = QuestionsIn(q)
    BY <1>1, <1>6 DEF QuestionsIn
  <2>2. Cardinality(QuestionsIn(t)) = Cardinality(QuestionsIn(q))
    BY <1>3, <2>1
  <2>. QED BY <1>6, <1>4, <2>2
<1>. QED BY <1>5, <1>6

LEMMA AskedIs == Asked = QuestionsIn(actionChan)
BY DEF Asked, QuestionsIn

(* The stopped channel stays closed.                                       *)
LEMMA StoppedStays == ASSUME IInv, [Next]_vars PROVE stopped => stopped'
<1>1. CASE StartStep
  BY <1>1 DEF IInv, LifeInv, StartStep, BeginLifecycle, LoadServiceStates, LaunchChecker, FailedStartCloses
<1>2. CASE CheckerStep
  BY <1>2 DEF CheckerStep, PassStep, LoopStep, DrainStep, Enqueue, Collect, FinishPass, SendResults,
    Reply, OnAction, OnCheckEvent, OnTrigger, OnTick, OnCancel, DrainSend, DrainWait, CloseStopped, lifeVars
<1>3. CASE UNCHANGED stopped
  BY <1>3
<1>. QED BY <1>1, <1>2, <1>3, StopFrame, CancelFrame, WorkerFrame, CallerFrame DEF Next, vars, lifeVars

LEMMA WaitersSame ==
  ASSUME WaitersInv, stopped => stopped', Waiters' = Waiters, UNCHANGED <<actionChan, replyChan>>,
         checker' = "reply" <=> checker = "reply"
  PROVE  WaitersInv'
<1>1. Asked' = Asked
  BY DEF Asked
<1>. HIDE DEF Asked
<1>. QED BY <1>1 DEF WaitersInv, RepliesMatchWaiters

LEMMA WaitersInvStep == ASSUME IInv, WaitersInv, [Next]_vars PROVE WaitersInv'
<1>1. stopped => stopped'
  BY StoppedStays
<1>2. CtrlType /\ CallerType /\ PassType
  BY DEF IInv, TypeOK
<1>3. \A q : Cardinality({i \in DOMAIN q : q[i] = "running"}) = Cardinality(QuestionsIn(q))
  BY DEF QuestionsIn
<1>4. CASE StartStep
  <2>1. checker' = "reply" <=> checker = "reply"
    BY <1>4 DEF IInv, LifeInv, StartStep, BeginLifecycle, LoadServiceStates, LaunchChecker, BeginPass
  <2>2. Waiters' = Waiters /\ UNCHANGED <<actionChan, replyChan>>
    BY <1>4, StartFrame DEF Waiters, callerVars, ctrlVars
  <2>. QED BY <1>1, <2>1, <2>2, WaitersSame
<1>5. CASE CheckerStep
  <2>1. Waiters' = Waiters
    BY <1>5, CheckerFrame DEF Waiters, callerVars
  <2>2. CASE OnAction
    <3>1. actionChan \in Seq({"running", "pause", "resume"}) /\ actionChan # <<>> /\ actionChan' = Tail(actionChan)
      BY <1>2, <2>2 DEF OnAction, CtrlType
    <3>2. /\ checker = "loop" /\ UNCHANGED replyChan
          /\ checker' = IF Head(actionChan) = "running" THEN "reply" ELSE "loop"
      BY <2>2 DEF OnAction
    <3>3. Cardinality(Asked) = Cardinality(Asked') + IF Head(actionChan) = "running" THEN 1 ELSE 0
      BY <3>1, ReadCounts, AskedIs DEF QuestionsIn, Asked
    <3>4. Cardinality(Asked') \in Nat
      BY <1>2, <3>1, QuestionsAreFinite, HeadTailProperties DEF QuestionsIn, Asked
    <3>5. Len(replyChan) \in Nat
      BY <1>2 DEF CtrlType
    <3>. HIDE DEF Asked
    <3>. QED BY <1>1, <2>1, <3>2, <3>3, <3>4, <3>5 DEF WaitersInv, RepliesMatchWaiters
  <2>3. CASE Reply
    <3>1. /\ checker = "reply" /\ checker' = "loop" /\ UNCHANGED actionChan
          /\ Len(replyChan') = Len(replyChan) + 1 /\ Len(replyChan) \in Nat
      BY <1>2, <2>3 DEF Reply, CtrlType
    <3>2. Asked' = Asked
      BY <3>1 DEF Asked
    <3>3. Cardinality(Asked) \in Nat
      BY <1>2, QuestionsAreFinite, AskedIs DEF CtrlType
    <3>. HIDE DEF Asked
    <3>. QED BY <1>1, <2>1, <3>1, <3>2, <3>3 DEF WaitersInv, RepliesMatchWaiters
  <2>4. CASE ~OnAction /\ ~Reply
    <3>1. UNCHANGED <<actionChan, replyChan>> /\ (checker' = "reply" <=> checker = "reply")
      BY <1>5, <2>4 DEF CheckerStep, PassStep, LoopStep, DrainStep, Enqueue, Collect, FinishPass, SendResults,
        OnCheckEvent, OnTrigger, OnTick, OnCancel, DrainSend, DrainWait, CloseStopped, ctrlVars, BeginPass
    <3>. QED BY <1>1, <2>1, <3>1, WaitersSame
  <2>. QED BY <2>2, <2>3, <2>4
<1>6. ASSUME NEW c \in Callers, CallerStep(c) PROVE WaitersInv'
  <2>1. UNCHANGED <<checker, stopped>>
    BY <1>6, CallerFrame DEF lifeVars
  <2>2. CASE SendAction(c) /\ caller[c] = "running"
    <3>1. /\ actionChan' = Append(actionChan, "running") /\ UNCHANGED replyChan
          /\ actionChan \in Seq({"running", "pause", "resume"})
      BY <1>2, <2>2 DEF SendAction, CtrlType
    <3>2. Cardinality(Asked') = Cardinality(Asked) + 1
      <4>1. Cardinality(QuestionsIn(Append(actionChan, "running"))) = Cardinality(QuestionsIn(actionChan)) + 1
        BY <3>1, AskCounts
      <4>2. Asked' = QuestionsIn(Append(actionChan, "running"))
        BY <3>1 DEF Asked, QuestionsIn
      <4>. QED BY <4>1, <4>2, AskedIs
    <3>3. Waiters' = Waiters \cup {c} /\ c \notin Waiters
      BY <1>2, <2>2 DEF SendAction, CallerType, Waiters
    <3>4. ~stopped => IsFiniteSet(Waiters') /\ Cardinality(Waiters') = Cardinality(Waiters) + 1
      BY <3>3, FS_AddElement DEF WaitersInv
    <3>5. Cardinality(Asked) \in Nat /\ Len(replyChan) \in Nat
      BY <1>2, QuestionsAreFinite, AskedIs DEF CtrlType
    <3>. HIDE DEF Asked, Waiters
    <3>. QED BY <2>1, <3>1, <3>2, <3>4, <3>5 DEF WaitersInv, RepliesMatchWaiters
  <2>3. CASE SendAction(c) /\ caller[c] # "running"
    <3>1. /\ actionChan' = Append(actionChan, caller[c]) /\ caller[c] # "running" /\ UNCHANGED replyChan
          /\ actionChan \in Seq({"running", "pause", "resume"}) /\ caller[c] \in {"running", "pause", "resume"}
      BY <1>2, <2>3 DEF SendAction, CtrlType
    <3>2. Cardinality(Asked') = Cardinality(Asked)
      <4>1. Cardinality(QuestionsIn(Append(actionChan, caller[c]))) = Cardinality(QuestionsIn(actionChan)) + 0
        BY <3>1, AskCounts
      <4>2. Asked' = QuestionsIn(Append(actionChan, caller[c])) /\ Cardinality(Asked) \in Nat
        BY <3>1, QuestionsAreFinite, AskedIs DEF Asked, QuestionsIn
      <4>. QED BY <4>1, <4>2, AskedIs
    <3>3. Waiters' = Waiters
      BY <1>2, <2>3 DEF SendAction, CallerType, Waiters
    <3>. HIDE DEF Asked, Waiters
    <3>. QED BY <2>1, <3>1, <3>2, <3>3 DEF WaitersInv, RepliesMatchWaiters
  <2>4. CASE Receive(c)
    <3>1. /\ Len(replyChan') = Len(replyChan) - 1 /\ Len(replyChan) \in Nat \ {0} /\ UNCHANGED actionChan
      BY <1>2, <2>4, HeadTailProperties DEF Receive, CtrlType
    <3>2. Waiters' = Waiters \ {c} /\ c \in Waiters
      BY <1>2, <2>4 DEF Receive, CallerType, Waiters
    <3>3. ~stopped => IsFiniteSet(Waiters') /\ Cardinality(Waiters') = Cardinality(Waiters) - 1
      BY <3>2, FS_RemoveElement DEF WaitersInv
    <3>4. Asked' = Asked /\ Cardinality(Asked) \in Nat
      BY <1>2, <3>1, QuestionsAreFinite, AskedIs DEF CtrlType, Asked
    <3>. HIDE DEF Asked, Waiters
    <3>. QED BY <2>1, <3>1, <3>3, <3>4 DEF WaitersInv, RepliesMatchWaiters
  <2>5. CASE GiveUp(c)
    BY <2>1, <2>5 DEF GiveUp, Released, WaitersInv
  <2>6. CASE SendTrigger(c) \/ SendCheck(c) \/ RequestDone(c) \/ \E o \in OpNames : Call(c, o)
    <3>1. UNCHANGED <<actionChan, replyChan>>
      BY <2>6 DEF SendTrigger, SendCheck, RequestDone, Call, ctrlVars
    <3>2. Waiters' = Waiters
      BY <1>2, <2>6 DEF SendTrigger, SendCheck, RequestDone, Call, CallerType, Waiters, OpNames
    <3>. QED BY <1>1, <2>1, <3>1, <3>2, WaitersSame
  <2>. QED BY <1>6, <2>2, <2>3, <2>4, <2>5, <2>6 DEF CallerStep, CallerSend
<1>7. CASE UNCHANGED <<checker, ctrlVars, callerVars>>
  <2>1. Waiters' = Waiters /\ UNCHANGED <<actionChan, replyChan>> /\ (checker' = "reply" <=> checker = "reply")
    BY <1>7 DEF Waiters, callerVars, ctrlVars
  <2>. QED BY <1>1, <2>1, WaitersSame
<1>. QED BY <1>4, <1>5, <1>6, <1>7, StopFrame, CancelFrame, WorkerFrame DEF Next, vars

LEMMA WaitersInit == Init => WaitersInv
<1>. SUFFICES ASSUME Init PROVE WaitersInv
  OBVIOUS
<1>1. Waiters = {} /\ Asked = {} /\ Len(replyChan) = 0 /\ checker = "off"
  BY DEF Init, Waiters, Asked
<1>2. IsFiniteSet({}) /\ Cardinality({}) = 0
  BY FS_EmptySet
<1>. HIDE DEF Waiters, Asked
<1>. QED BY <1>1, <1>2 DEF WaitersInv, RepliesMatchWaiters

LEMMA WaitersAreCounted == Spec => []WaitersInv
<1>1. IInv /\ WaitersInv /\ [Next]_vars => WaitersInv'
  BY WaitersInvStep
<1>. QED BY <1>1, WaitersInit, Invariance, PTL DEF Spec

(* However many callers wait in Running, replyChan never holds an answer    *)
(* too many, and no caller waits without an answer on its way.             *)
THEOREM AnswersMatchCallers == Spec => []RepliesMatchWaiters
<1>1. WaitersInv => RepliesMatchWaiters
  BY DEF WaitersInv, RepliesMatchWaiters
<1>. QED BY <1>1, WaitersAreCounted, PTL

-----------------------------------------------------------------------------
(* The calls under way are calls their callers make.                       *)

CallInv ==
  \A c \in Callers : /\ caller[c] \in OpNames => caller[c] \in Ops[c]
                     /\ caller[c] = "await" => "running" \in Ops[c]

LEMMA CallInit == Init => CallInv
BY DEF Init, CallInv, OpNames

LEMMA CallInvStep == ASSUME CallerType, CallInv, [Next]_vars PROVE CallInv'
<1>1. ASSUME NEW c \in Callers, CallerStep(c) PROVE CallInv'
  <2>1. CASE \E o \in OpNames : Call(c, o)
    BY <2>1 DEF Call, CallInv, CallerType, OpNames
  <2>2. CASE SendAction(c)
    BY <2>2 DEF SendAction, CallInv, CallerType, OpNames
  <2>3. CASE SendTrigger(c) \/ SendCheck(c) \/ GiveUp(c) \/ RequestDone(c) \/ Receive(c)
    BY <2>3 DEF SendTrigger, SendCheck, GiveUp, RequestDone, Receive, CallInv, CallerType, OpNames
  <2>. QED BY <1>1, <2>1, <2>2, <2>3 DEF CallerStep, CallerSend
<1>2. CASE UNCHANGED callerVars
  BY <1>2 DEF callerVars, CallInv
<1>. QED BY <1>1, <1>2, StartFrame, StopFrame, CancelFrame, WorkerFrame, CheckerFrame
  DEF Next, vars

LEMMA CallsAreTheirs == Spec => []CallInv
<1>1. IInv /\ CallInv /\ [Next]_vars => CallInv'
  BY CallInvStep DEF IInv, TypeOK
<1>. QED BY <1>1, CallInit, Invariance, PTL DEF Spec

-----------------------------------------------------------------------------
(* What the website was not told yet.                                      *)

(* No caller asks for a pass whose result only goes to the log.            *)
NobodyLogs == \A c \in Callers : "logall" \notin Ops[c]

(* What the website was not told yet is in the pass that is made: in how   *)
(* it began, in what it has collected, or on its way from a worker.        *)
ChangeOnItsWay ==
  \/ pass.kind \in {"start", "runall"} \/ pass.changes
  \/ \E i \in DOMAIN done : done[i]
  \/ \E w \in Workers : worker[w] = "report" /\ changed[w]

UnsentHeld ==
  ~cancelled /\ unsent # {} =>
    /\ checker \notin {"off", "loop", "reply"}
    /\ checker = "pass" => ChangeOnItsWay

PassesTell ==
  /\ \A i \in DOMAIN triggerChan : triggerChan[i] = "runall"
  /\ checker = "pass" => pass.kind \notin {"none", "logall"}

UnsentInv == PassesTell /\ UnsentHeld

LEMMA PassesTellStep ==
  ASSUME NobodyLogs, TypeOK, LifeInv, CallInv, PassesTell, [Next]_vars
  PROVE  PassesTell'
<1>1. triggerChan \in Seq({"runall", "logall"}) /\ PassType
  BY DEF TypeOK, CtrlType
<1>2. CASE StartStep
  <2>1. checker' = "pass" => (checker = "off" /\ pass'.kind = "start") \/ (checker' = checker /\ pass' = pass)
    <3>1. CASE LaunchChecker
      <4>1. CASE BeginPass("start", Scheduled)
        <5>1. pass'.kind = "start"
          BY <4>1 DEF BeginPass
        <5>2. checker = "off"
          BY <3>1 DEF LaunchChecker, LifeInv
        <5>. QED BY <5>1, <5>2
      <4>2. CASE pass' = pass /\ (checker' = "loop" \/ checker' = checker)
        BY <4>2
      <4>. QED BY <3>1, <4>1, <4>2 DEF LaunchChecker
    <3>2. CASE BeginLifecycle \/ LoadServiceStates
      BY <3>2 DEF BeginLifecycle, LoadServiceStates, passVars
    <3>. QED BY <1>2, <3>1, <3>2 DEF StartStep
  <2>. QED BY <1>2, <2>1, StartFrame DEF PassesTell, ctrlVars
<1>3. CASE CheckerStep
  <2>1. CASE OnTrigger
    <3>1. triggerChan # <<>> /\ triggerChan' = Tail(triggerChan) /\ checker' = "pass" /\ pass'.kind = Head(triggerChan)
      BY <2>1 DEF OnTrigger, BeginPass
    <3>2. /\ Head(triggerChan) = triggerChan[1] /\ 1 \in DOMAIN triggerChan
          /\ \A i \in DOMAIN Tail(triggerChan) : i + 1 \in DOMAIN triggerChan /\ Tail(triggerChan)[i] = triggerChan[i + 1]
      BY <1>1, <3>1, HeadTailProperties
    <3>. QED BY <3>1, <3>2 DEF PassesTell
  <2>2. CASE Enqueue \/ Collect
    BY <1>1, <2>2 DEF Enqueue, Collect, PassesTell, PassType, ctrlVars
  <2>3. CASE OnCheckEvent \/ OnTick
    BY <2>3 DEF OnCheckEvent, OnTick, BeginPass, PassesTell, ctrlVars
  <2>4. CASE checker' # "pass" /\ UNCHANGED triggerChan
    BY <2>4 DEF PassesTell
  <2>. QED BY <1>3, <2>1, <2>2, <2>3, <2>4 DEF CheckerStep, PassStep, LoopStep, DrainStep, FinishPass, SendResults,
       Reply, OnAction, OnCancel, DrainSend, DrainWait, CloseStopped, ctrlVars
<1>4. ASSUME NEW c \in Callers, CallerStep(c) PROVE PassesTell'
  <2>1. UNCHANGED <<checker, pass>>
    BY <1>4, CallerFrame DEF passVars
  <2>2. CASE SendTrigger(c)
    <3>1. caller[c] = "runall" /\ triggerChan' = Append(triggerChan, caller[c])
      BY <2>2 DEF SendTrigger, CallInv, NobodyLogs, OpNames
    <3>. QED BY <1>1, <2>1, <3>1 DEF PassesTell
  <2>3. CASE UNCHANGED triggerChan
    BY <2>1, <2>3 DEF PassesTell
  <2>. QED BY <1>4, <2>2, <2>3 DEF CallerStep, CallerSend, Call, SendAction, SendCheck, Receive, GiveUp, RequestDone,
       ctrlVars
<1>5. CASE UNCHANGED <<checker, pass, triggerChan>>
  BY <1>5 DEF PassesTell
<1>. QED BY <1>2, <1>3, <1>4, <1>5, StopFrame, CancelFrame, WorkerFrame DEF Next, vars, passVars, ctrlVars

LEMMA WorkerHolds == ASSUME IInv, UnsentHeld, NEW w \in Workers, WorkerStep(w) PROVE UnsentHeld'
<1>0. /\ UNCHANGED <<cancelled, checker, pass>>
      /\ worker \in [Workers -> WorkerPCs] /\ changed \in [Workers -> BOOLEAN] /\ done \in Seq(BOOLEAN)
  BY WorkerFrame DEF IInv, TypeOK, PoolType, lifeVars, passVars
<1>1. CASE WorkerUpdate(w)
  <2>1. checker \notin {"off", "loop", "reply"}
    BY <1>1 DEF IInv, AccountInv, PassIsComplete, PoolAtRest, WorkerUpdate
  <2>2. \A v \in Workers : worker[v] = "report" => worker'[v] = "report" /\ changed'[v] = changed[v]
    BY <1>0, <1>1 DEF WorkerUpdate
  <2>3. unsent' = unsent \/ (worker'[w] = "report" /\ changed'[w])
    <3>1. worker'[w] = "report"
      BY <1>0, <1>1 DEF WorkerUpdate
    <3>2. CASE found[w] # state[job[w]]
      <4>1. (found[w] # state[job[w]]) = TRUE
        BY <3>2
      <4>2. changed' = [changed EXCEPT ![w] = TRUE]
        BY <1>1, <4>1 DEF WorkerUpdate
      <4>. QED BY <1>0, <3>1, <4>2
    <3>3. CASE found[w] = state[job[w]]
      BY <1>1, <3>3 DEF WorkerUpdate
    <3>. QED BY <3>2, <3>3
  <2>4. done' = done
    BY <1>1 DEF WorkerUpdate
  <2>. QED BY <1>0, <2>1, <2>2, <2>3, <2>4 DEF UnsentHeld, ChangeOnItsWay
<1>2. CASE WorkerReport(w) \/ WorkerQuit(w)
  <2>1. \A v \in Workers : v # w => worker'[v] = worker[v] /\ changed'[v] = changed[v]
    BY <1>0, <1>2 DEF WorkerReport, WorkerQuit
  <2>2. PICK e \in BOOLEAN : done' = Append(done, e) /\ (worker[w] = "report" /\ changed[w] => e)
    BY <1>0, <1>2 DEF WorkerReport, WorkerQuit
  <2>3. /\ \A i \in DOMAIN done : i \in DOMAIN done' /\ done'[i] = done[i]
        /\ e => \E i \in DOMAIN done' : done'[i]
    <3>1. DOMAIN done' = 1 .. Len(done) + 1 /\ DOMAIN done = 1 .. Len(done) /\ Len(done) \in Nat
      BY <1>0, <2>2
    <3>2. \A i \in DOMAIN done : done'[i] = done[i]
      BY <1>0, <2>2
    <3>3. done'[Len(done) + 1] = e
      BY <1>0, <2>2
    <3>. QED BY <3>1, <3>2, <3>3
  <2>4. unsent' = unsent
    BY <1>2 DEF WorkerReport, WorkerQuit, stateVars
  <2>5. ChangeOnItsWay => ChangeOnItsWay'
    BY <1>0, <2>1, <2>2, <2>3 DEF ChangeOnItsWay
  <2>. QED BY <1>0, <2>4, <2>5 DEF UnsentHeld
<1>3. CASE WorkerTake(w) \/ WorkerCheck(w) \/ WorkerVerify(w)
  <2>1. \A v \in Workers : worker[v] = "report" => worker'[v] = "report" /\ changed'[v] = changed[v]
    BY <1>0, <1>3 DEF WorkerTake, WorkerCheck, WorkerVerify
  <2>2. UNCHANGED <<done, unsent>>
    BY <1>3 DEF WorkerTake, WorkerCheck, WorkerVerify, stateVars
  <2>. QED BY <1>0, <2>1, <2>2 DEF UnsentHeld, ChangeOnItsWay
<1>. QED BY <1>1, <1>2, <1>3 DEF WorkerStep

LEMMA PassHolds == ASSUME IInv, PassesTell, UnsentHeld, CheckerStep PROVE UnsentHeld'
<1>0. /\ UNCHANGED <<cancelled, worker, changed>>
      /\ PassType /\ done \in Seq(BOOLEAN)
  BY CheckerFrame DEF IInv, TypeOK, PoolType
<1>1. CASE Collect
  <2>1. /\ done # <<>> /\ done' = Tail(done) /\ checker' = "pass" /\ checker = "pass" /\ unsent' = unsent
        /\ pass'.kind = pass.kind /\ pass'.changes = (pass.changes \/ Head(done))
    BY <1>0, <1>1 DEF Collect, PassType, AnyAnswer, stateVars
  <2>2. Head(done) = done[1] /\ \A i \in DOMAIN done : i # 1 => i - 1 \in DOMAIN Tail(done) /\ Tail(done)[i - 1] = done[i]
    <3>1. /\ Head(done) = done[1] /\ Len(Tail(done)) = Len(done) - 1 /\ Len(done) \in Nat
          /\ \A i \in 1 .. Len(Tail(done)) : Tail(done)[i] = done[i + 1]
          /\ DOMAIN done = 1 .. Len(done) /\ DOMAIN Tail(done) = 1 .. Len(Tail(done))
      BY <1>0, <2>1, HeadAndRest
    <3>. SUFFICES ASSUME NEW i \in DOMAIN done, i # 1
                  PROVE  i - 1 \in DOMAIN Tail(done) /\ Tail(done)[i - 1] = done[i]
      BY <3>1
    <3>2. i \in Int /\ i - 1 \in 1 .. Len(Tail(done)) /\ (i - 1) + 1 = i
      BY <3>1
    <3>. QED BY <3>1, <3>2
  <2>3. ChangeOnItsWay => ChangeOnItsWay'
    BY <1>0, <2>1, <2>2 DEF ChangeOnItsWay
  <2>. QED BY <1>0, <2>1, <2>3 DEF UnsentHeld
<1>2. CASE FinishPass
  <2>1. Len(checks) = 0 /\ Len(done) = 0 /\ Cardinality(BusyWorkers) = 0
    <3>1. checker = "pass" /\ pass.outstanding <= 0 /\ pass.outstanding \in Int
      BY <1>0, <1>2 DEF FinishPass, PassOver, PassType
    <3>2. pass.outstanding = Len(checks) + Cardinality(BusyWorkers) + Len(done)
      BY <3>1 DEF IInv, AccountInv
    <3>3. Len(checks) \in Nat /\ Len(done) \in Nat /\ Cardinality(BusyWorkers) \in Nat
      BY Counts, LenProperties DEF IInv, TypeOK, PoolType
    <3>. QED BY <3>1, <3>2, <3>3
  <2>2. done = <<>> /\ BusyWorkers = {}
    BY <1>0, <2>1, Counts, NobodyCounts, EmptySeq
  <2>3. ChangeOnItsWay => pass.kind \in {"start", "runall"} \/ pass.changes
    BY <2>2 DEF ChangeOnItsWay, BusyWorkers, Busy
  <2>4. checker = "pass" /\ pass.kind \in {"start", "cron", "runall", "runone"}
    BY <1>0, <1>2 DEF FinishPass, PassesTell, PassType, PassKinds
  <2>5. ~cancelled /\ ChangeOnItsWay => SendsResults
    BY <2>3, <2>4 DEF SendsResults
  <2>6. checker' = (IF SendsResults THEN "send" ELSE "loop") /\ unsent' = unsent
    BY <1>2 DEF FinishPass, stateVars
  <2>. QED BY <1>0, <2>4, <2>5, <2>6 DEF UnsentHeld
<1>3. CASE Enqueue
  BY <1>0, <1>3 DEF Enqueue, PassType, UnsentHeld, ChangeOnItsWay, stateVars
<1>4. CASE SendResults
  BY <1>4 DEF SendResults, UnsentHeld
<1>5. CASE Reply \/ LoopStep
  <2>1. checker \in {"loop", "reply"} /\ unsent' = unsent
    BY <1>5 DEF Reply, LoopStep, OnAction, OnCheckEvent, OnTrigger, OnTick, stateVars
  <2>. QED BY <1>0, <2>1 DEF UnsentHeld
<1>6. CASE OnCancel \/ DrainStep
  <2>1. checker' \in {"drain", "drainWait", "gone"}
    BY <1>6 DEF OnCancel, DrainStep, DrainSend, DrainWait, CloseStopped
  <2>. QED BY <2>1 DEF UnsentHeld
<1>. QED BY <1>1, <1>2, <1>3, <1>4, <1>5, <1>6 DEF CheckerStep, PassStep

LEMMA UnsentHeldStep == ASSUME IInv, PassesTell, UnsentHeld, [Next]_vars PROVE UnsentHeld'
<1>1. CASE StartStep
  <2>1. CASE LaunchChecker
    BY <2>1, StartFrame, <1>1 DEF LaunchChecker, IInv, LifeInv, UnsentHeld
  <2>2. CASE UNCHANGED <<checker, pass, worker>>
    BY <1>1, <2>2, StartFrame DEF UnsentHeld, ChangeOnItsWay
  <2>. QED BY <1>1, <2>1, <2>2 DEF StartStep, BeginLifecycle, LoadServiceStates, passVars, poolVars
<1>2. CASE cancelled'
  BY <1>2 DEF UnsentHeld
<1>3. CASE UNCHANGED <<cancelled, checker, pass, done, worker, changed, unsent>>
  BY <1>3 DEF UnsentHeld, ChangeOnItsWay
<1>4. ASSUME NEW p \in Stoppers, StopStep(p) PROVE UnsentHeld'
  <2>1. cancelled' \/ UNCHANGED cancelled
    BY <1>4 DEF StopStep, StopBegin, StopCancel, StopFinish
  <2>. QED BY <1>2, <1>3, <1>4, <2>1, StopFrame DEF passVars, poolVars, stateVars
<1>5. CASE ParentCancel
  BY <1>2, <1>5 DEF ParentCancel
<1>. QED BY <1>1, <1>3, <1>4, <1>5, WorkerHolds, PassHolds, CallerFrame
  DEF Next, vars, lifeVars, passVars, poolVars, stateVars

(* A change of state that the website was not told of never waits with the *)
(* checker for the next event, when no pass is for the log only.           *)
THEOREM ChangesAreTold == ASSUME NobodyLogs PROVE Spec => []ChangesReported
<1>1. Init => UnsentInv
  BY DEF Init, UnsentInv, PassesTell, UnsentHeld
<1>2. IInv /\ CallInv /\ UnsentInv /\ [Next]_vars => UnsentInv'
  BY PassesTellStep, UnsentHeldStep DEF IInv, UnsentInv
<1>3. UnsentInv => ChangesReported
  BY DEF UnsentInv, UnsentHeld, ChangesReported
<1>. QED BY <1>1, <1>2, <1>3, Invariance, CallsAreTheirs, PTL DEF Spec

-----------------------------------------------------------------------------
(* A pause that was accepted.                                              *)

(* One caller at most uses Running.                                        *)
OneAsks == \A c, d \in Callers : "running" \in Ops[c] \cap Ops[d] => c = d

(* What the channel holds after entry i resumes nothing.                   *)
NoResumeAfter(i) == \A j \in DOMAIN actionChan : j > i => actionChan[j] # "resume"

(* A pause in the channel, or one that was read, is the last word: when    *)
(* all of the channel is read; when entry k is.                            *)
ReadPaused == checker # "off" /\ ~running /\ NoResumeAfter(0)
PausesAt(i) == actionChan[i] = "pause" /\ NoResumeAfter(i)
LeftPaused == (\E i \in DOMAIN actionChan : PausesAt(i)) \/ ReadPaused
PausedBefore(k) == (\E i \in DOMAIN actionChan : i < k /\ PausesAt(i)) \/ ReadPaused

(* What the caller is told of a pause that was accepted and not undone:    *)
(* where the questions are, and what the answers under way say.            *)
ToldPaused(c) ==
  caller[c] = "await" =>
    /\ \A k \in DOMAIN actionChan : actionChan[k] = "running" => PausedBefore(k)
    /\ checker = "reply" => ~running
    /\ \A i \in DOMAIN replyChan : replyChan[i] = FALSE

PauseInv == ~stopped => \A c \in pausedBy : LeftPaused /\ ToldPaused(c)

(* The channel stays as it is, and a pause that was read is not undone.     *)
LEMMA PauseStays ==
  ASSUME actionChan' = actionChan, checker # "off" /\ ~running => checker' # "off" /\ ~running'
  PROVE  /\ LeftPaused => LeftPaused'
         /\ \A k \in Nat : PausedBefore(k) => PausedBefore(k)'
BY DEF LeftPaused, PausedBefore, ReadPaused, PausesAt, NoResumeAfter

LEMMA PauseStaysTold ==
  ASSUME CtrlType, PauseInv, stopped => stopped', UNCHANGED <<actionChan, replyChan, pausedBy>>,
         checker # "off" /\ ~running => checker' # "off" /\ ~running',
         checker' = "reply" => checker = "reply" /\ running' = running,
         \A c \in Callers : caller'[c] = "await" => caller[c] = "await", pausedBy \subseteq Callers
  PROVE  PauseInv'
<1>1. DOMAIN actionChan \subseteq Nat
  BY DEF CtrlType
<1>. QED BY <1>1, PauseStays DEF PauseInv, ToldPaused

(* A message other than resume is sent.                                    *)
LEMMA PauseUnderSend ==
  ASSUME CtrlType, NEW e, e # "resume", actionChan' = Append(actionChan, e), UNCHANGED <<checker, running>>
  PROVE  /\ LeftPaused => LeftPaused'
         /\ \A n \in Nat : n = Len(actionChan) + 1 /\ LeftPaused => PausedBefore(n)'
         /\ \A k \in Nat : PausedBefore(k) => PausedBefore(k)'
         /\ e = "pause" => LeftPaused'
<1>1. /\ DOMAIN actionChan = 1 .. Len(actionChan) /\ Len(actionChan) \in Nat
      /\ DOMAIN actionChan' = 1 .. Len(actionChan) + 1
      /\ \A i \in DOMAIN actionChan : actionChan'[i] = actionChan[i]
      /\ actionChan'[Len(actionChan) + 1] = e
  BY DEF CtrlType
<1>2. \A i \in Nat : NoResumeAfter(i) => NoResumeAfter(i)'
  BY <1>1 DEF NoResumeAfter
<1>3. \A i \in DOMAIN actionChan : PausesAt(i) => i \in DOMAIN actionChan' /\ PausesAt(i)'
  BY <1>1, <1>2 DEF PausesAt
<1>4. ReadPaused => ReadPaused'
  BY <1>2 DEF ReadPaused
<1>5. ASSUME NEW n \in Nat, n = Len(actionChan) + 1, e = "pause" PROVE n \in DOMAIN actionChan' /\ PausesAt(n)'
  BY <1>1, <1>5 DEF PausesAt, NoResumeAfter
<1>. QED BY <1>1, <1>3, <1>4, <1>5 DEF LeftPaused, PausedBefore

(* The checker reads the first message.                                    *)
LEMMA PauseUnderRead ==
  ASSUME CtrlType, OnAction
  PROVE  /\ LeftPaused => LeftPaused'
         /\ \A k \in DOMAIN actionChan' : PausedBefore(k + 1) => PausedBefore(k)'
         /\ Head(actionChan) = "running" /\ PausedBefore(1) => ~running
<1>1. /\ DOMAIN actionChan = 1 .. Len(actionChan) /\ Len(actionChan) \in Nat \ {0}
      /\ DOMAIN actionChan' = 1 .. Len(actionChan) - 1
      /\ \A i \in 1 .. Len(actionChan) - 1 : actionChan'[i] = actionChan[i + 1]
      /\ Head(actionChan) = actionChan[1] /\ actionChan[1] \in {"running", "pause", "resume"}
  BY HeadAndRest DEF CtrlType, OnAction
<1>2. /\ actionChan[1] = "pause" => running' = FALSE
      /\ actionChan[1] = "running" => running' = running
      /\ checker' # "off"
  BY <1>1 DEF OnAction, AfterPause
<1>3. \A i \in Nat : NoResumeAfter(i + 1) => NoResumeAfter(i)'
  BY <1>1 DEF NoResumeAfter
<1>4. ReadPaused => ReadPaused'
  <2>1. NoResumeAfter(0) => NoResumeAfter(0)'
    BY <1>1 DEF NoResumeAfter
  <2>2. NoResumeAfter(0) => actionChan[1] # "resume"
    BY <1>1 DEF NoResumeAfter
  <2>. QED BY <1>1, <1>2, <2>1, <2>2 DEF ReadPaused
<1>5. PausesAt(1) => ReadPaused'
  BY <1>1, <1>2, <1>3 DEF PausesAt, ReadPaused
<1>6. \A i \in DOMAIN actionChan : i # 1 /\ PausesAt(i) => i - 1 \in DOMAIN actionChan' /\ PausesAt(i - 1)'
  <2>. SUFFICES ASSUME NEW i \in DOMAIN actionChan, i # 1, PausesAt(i)
                PROVE  i - 1 \in DOMAIN actionChan' /\ PausesAt(i - 1)'
    OBVIOUS
  <2>1. i - 1 \in Nat /\ i - 1 \in DOMAIN actionChan' /\ (i - 1) + 1 = i
    BY <1>1
  <2>2. NoResumeAfter(i - 1)'
    BY <1>3, <2>1 DEF PausesAt
  <2>3. actionChan'[i - 1] = "pause"
    BY <1>1, <2>1 DEF PausesAt
  <2>. QED BY <2>1, <2>2, <2>3 DEF PausesAt
<1>7. LeftPaused => LeftPaused'
  BY <1>4, <1>5, <1>6 DEF LeftPaused
<1>8. \A k \in DOMAIN actionChan' : PausedBefore(k + 1) => PausedBefore(k)'
  BY <1>1, <1>4, <1>5, <1>6 DEF PausedBefore
<1>9. PausedBefore(1) => ~running
  BY <1>1 DEF PausedBefore, ReadPaused
<1>. QED BY <1>7, <1>8, <1>9

LEMMA PauseRead == ASSUME IInv, PauseInv, OnAction PROVE PauseInv'
<1>1. CtrlType /\ UNCHANGED <<stopped, caller, pausedBy, replyChan>> /\ checker = "loop"
  BY DEF IInv, TypeOK, OnAction, lifeVars, callerVars
<1>2. checker' = "reply" => Head(actionChan) = "running" /\ running' = running
  BY <1>1 DEF OnAction
<1>3. /\ DOMAIN actionChan = 1 .. Len(actionChan) /\ Len(actionChan) \in Nat \ {0}
      /\ DOMAIN actionChan' = 1 .. Len(actionChan) - 1
      /\ \A i \in 1 .. Len(actionChan) - 1 : actionChan'[i] = actionChan[i + 1]
      /\ Head(actionChan) = actionChan[1]
  BY <1>1, HeadAndRest DEF CtrlType, OnAction
<1>. SUFFICES ASSUME ~stopped, NEW c \in pausedBy PROVE LeftPaused' /\ ToldPaused(c)'
  BY <1>1 DEF PauseInv
<1>4. LeftPaused /\ ToldPaused(c)
  BY DEF PauseInv
<1>5. LeftPaused'
  BY <1>1, <1>4, PauseUnderRead
<1>6. ASSUME caller[c] = "await" PROVE \A k \in DOMAIN actionChan' : actionChan'[k] = "running" => PausedBefore(k)'
  <2>1. \A k \in DOMAIN actionChan' : k + 1 \in DOMAIN actionChan /\ actionChan'[k] = actionChan[k + 1]
    BY <1>3
  <2>. QED BY <1>1, <1>4, <1>6, <2>1, PauseUnderRead DEF ToldPaused
<1>7. ASSUME caller[c] = "await", checker' = "reply" PROVE ~running'
  <2>1. 1 \in DOMAIN actionChan /\ actionChan[1] = "running"
    BY <1>2, <1>3, <1>7
  <2>. QED BY <1>1, <1>2, <1>4, <1>7, <2>1, PauseUnderRead DEF ToldPaused
<1>. QED BY <1>1, <1>4, <1>5, <1>6, <1>7 DEF ToldPaused

LEMMA PauseAnswered == ASSUME IInv, PauseInv, Reply PROVE PauseInv'
<1>1. /\ CtrlType /\ UNCHANGED <<stopped, caller, pausedBy, actionChan, running>>
      /\ checker = "reply" /\ checker' = "loop" /\ replyChan' = Append(replyChan, running) /\ running \in BOOLEAN
  BY DEF IInv, TypeOK, PassType, Reply, lifeVars, callerVars
<1>2. /\ DOMAIN replyChan' = DOMAIN replyChan \cup {Len(replyChan) + 1}
      /\ replyChan'[Len(replyChan) + 1] = running
      /\ \A i \in DOMAIN replyChan : replyChan'[i] = replyChan[i]
  BY <1>1 DEF CtrlType
<1>3. DOMAIN actionChan \subseteq Nat
  BY <1>1 DEF CtrlType
<1>. SUFFICES ASSUME ~stopped, NEW c \in pausedBy PROVE LeftPaused' /\ ToldPaused(c)'
  BY <1>1 DEF PauseInv
<1>4. LeftPaused' /\ \A k \in Nat : PausedBefore(k) => PausedBefore(k)'
  BY <1>1, PauseStays DEF PauseInv
<1>5. ToldPaused(c)
  BY DEF PauseInv
<1>. QED BY <1>1, <1>2, <1>3, <1>4, <1>5 DEF ToldPaused

(* The one caller that asks has no earlier question under way.             *)
LEMMA FirstQuestion ==
  ASSUME OneAsks, IInv, CallInv, WaitersInv, ~stopped, NEW c \in Callers, caller[c] = "running"
  PROVE  /\ \A d \in Callers : caller[d] # "await"
         /\ \A k \in DOMAIN actionChan : actionChan[k] # "running"
         /\ replyChan = <<>> /\ checker # "reply"
<1>1. \A d \in Callers : caller[d] # "await"
  BY DEF OneAsks, CallInv, OpNames
<1>2. Cardinality(Waiters) = 0
  BY <1>1, FS_EmptySet DEF Waiters
<1>3. Cardinality(Asked) \in Nat /\ IsFiniteSet(Asked) /\ Len(replyChan) \in Nat
  BY QuestionsAreFinite, AskedIs, LenProperties DEF IInv, TypeOK, CtrlType
<1>4. Cardinality(Asked) = 0 /\ Len(replyChan) = 0 /\ checker # "reply"
  <2>. HIDE DEF Asked, Waiters
  <2>. QED BY <1>2, <1>3 DEF WaitersInv, RepliesMatchWaiters
<1>5. Asked = {}
  BY <1>3, <1>4, NobodyCounts
<1>6. replyChan = <<>>
  BY <1>4, EmptySeq DEF IInv, TypeOK, CtrlType
<1>. QED BY <1>1, <1>4, <1>5, <1>6 DEF Asked

LEMMA PauseSent ==
  ASSUME OneAsks, IInv, CallInv, WaitersInv, PauseInv, NEW d \in Callers, SendAction(d)
  PROVE  PauseInv'
<1>1. /\ CtrlType /\ CallerType /\ UNCHANGED <<stopped, checker, running, replyChan>>
      /\ actionChan' = Append(actionChan, caller[d]) /\ caller[d] \in {"running", "pause", "resume"}
  BY DEF IInv, TypeOK, SendAction, lifeVars
<1>2. /\ DOMAIN actionChan = 1 .. Len(actionChan) /\ Len(actionChan) \in Nat
      /\ DOMAIN actionChan' = 1 .. Len(actionChan) + 1
      /\ \A i \in DOMAIN actionChan : actionChan'[i] = actionChan[i]
      /\ actionChan'[Len(actionChan) + 1] = caller[d]
  BY <1>1 DEF CtrlType
<1>3. CASE caller[d] = "resume"
  <2>1. pausedBy' = {}
    BY <1>3 DEF SendAction
  <2>. QED BY <2>1 DEF PauseInv
<1>4. CASE caller[d] = "pause"
  <2>1. pausedBy' = pausedBy \cup {d}
    BY <1>4 DEF SendAction
  <2>2. \A c \in Callers : caller'[c] = "await" => c # d /\ caller[c] = "await"
    BY <1>1, <1>4 DEF SendAction, CallerType
  <2>3. LeftPaused' /\ \A k \in Nat : PausedBefore(k) => PausedBefore(k)'
    BY <1>1, <1>4, PauseUnderSend
  <2>. SUFFICES ASSUME ~stopped, NEW c \in pausedBy', caller'[c] = "await" PROVE ToldPaused(c)'
    BY <1>1, <2>3 DEF PauseInv, ToldPaused
  <2>4. c \in pausedBy /\ caller[c] = "await" /\ ToldPaused(c)
    BY <1>1, <2>1, <2>2 DEF PauseInv, CallerType
  <2>5. \A k \in DOMAIN actionChan' : actionChan'[k] = "running" => PausedBefore(k)'
    BY <1>2, <1>4, <2>3, <2>4 DEF ToldPaused
  <2>. QED BY <1>1, <2>4, <2>5 DEF ToldPaused
<1>5. CASE caller[d] = "running"
  <2>1. pausedBy' = pausedBy
    BY <1>5 DEF SendAction
  <2>. SUFFICES ASSUME ~stopped, NEW c \in pausedBy PROVE LeftPaused' /\ ToldPaused(c)'
    BY <1>1, <2>1 DEF PauseInv
  <2>2. LeftPaused
    BY DEF PauseInv
  <2>3. LeftPaused' /\ \A n \in Nat : n = Len(actionChan) + 1 => PausedBefore(n)'
    BY <1>1, <1>5, <2>2, PauseUnderSend
  <2>4. /\ \A k \in DOMAIN actionChan : actionChan[k] # "running"
        /\ replyChan = <<>> /\ checker # "reply"
    BY <1>5, FirstQuestion
  <2>5. \A k \in DOMAIN actionChan' : actionChan'[k] = "running" => k \in Nat /\ k = Len(actionChan) + 1
    BY <1>2, <2>4
  <2>. QED BY <1>1, <2>3, <2>4, <2>5 DEF ToldPaused
<1>. QED BY <1>1, <1>3, <1>4, <1>5

LEMMA PauseInvStep == ASSUME OneAsks, IInv, CallInv, WaitersInv, PauseInv, [Next]_vars PROVE PauseInv'
<1>1. stopped => stopped'
  BY StoppedStays
<1>2. CtrlType /\ CallerType /\ PassType /\ pausedBy \subseteq Callers
  BY DEF IInv, TypeOK, CallerType
<1>3. CASE StartStep
  <2>1. checker = "off" /\ checker' # "reply"
    BY <1>3 DEF IInv, LifeInv, StartStep, BeginLifecycle, LoadServiceStates, LaunchChecker, BeginPass
  <2>2. UNCHANGED <<actionChan, replyChan, pausedBy, caller>>
    BY <1>3, StartFrame DEF ctrlVars, callerVars
  <2>. QED BY <1>1, <1>2, <2>1, <2>2, PauseStaysTold
<1>4. CASE CheckerStep
  <2>1. CASE ~OnAction /\ ~Reply
    <3>1. /\ UNCHANGED <<actionChan, replyChan, running>> /\ checker' \notin {"off", "reply"}
      BY <1>4, <2>1 DEF CheckerStep, PassStep, LoopStep, DrainStep, Enqueue, Collect, FinishPass, SendResults,
         OnCheckEvent, OnTrigger, OnTick, OnCancel, DrainSend, DrainWait, CloseStopped, ctrlVars, BeginPass
    <3>2. UNCHANGED <<pausedBy, caller>>
      BY <1>4, CheckerFrame DEF callerVars
    <3>. QED BY <1>1, <1>2, <3>1, <3>2, PauseStaysTold
  <2>. QED BY <2>1, PauseRead, PauseAnswered
<1>5. ASSUME NEW d \in Callers, CallerStep(d) PROVE PauseInv'
  <2>1. UNCHANGED <<checker, running, stopped>>
    BY <1>5, CallerFrame DEF lifeVars
  <2>2. CASE Receive(d)
    <3>1. UNCHANGED <<actionChan, pausedBy>> /\ \A c \in Callers : caller'[c] = "await" => caller[c] = "await"
      BY <1>2, <2>2 DEF Receive, CallerType
    <3>2. \A i \in DOMAIN replyChan' : i + 1 \in DOMAIN replyChan /\ replyChan'[i] = replyChan[i + 1]
      <4>1. /\ DOMAIN replyChan = 1 .. Len(replyChan) /\ Len(replyChan) \in Nat \ {0}
            /\ DOMAIN replyChan' = 1 .. Len(replyChan) - 1
            /\ \A i \in 1 .. Len(replyChan) - 1 : replyChan'[i] = replyChan[i + 1]
        BY <1>2, <2>2, HeadAndRest DEF CtrlType, Receive
      <4>. QED BY <4>1
    <3>3. DOMAIN actionChan \subseteq Nat
      BY <1>2 DEF CtrlType
    <3>4. (LeftPaused => LeftPaused') /\ \A k \in Nat : PausedBefore(k) => PausedBefore(k)'
      BY <2>1, <3>1, PauseStays
    <3>. QED BY <1>2, <2>1, <3>1, <3>2, <3>3, <3>4 DEF PauseInv, ToldPaused
  <2>3. CASE GiveUp(d)
    BY <2>1, <2>3 DEF GiveUp, Released, PauseInv
  <2>4. CASE SendTrigger(d) \/ SendCheck(d) \/ RequestDone(d) \/ \E o \in OpNames : Call(d, o)
    <3>1. UNCHANGED <<actionChan, replyChan, pausedBy>>
      BY <2>4 DEF SendTrigger, SendCheck, RequestDone, Call, ctrlVars
    <3>2. \A c \in Callers : caller'[c] = "await" => caller[c] = "await"
      BY <1>2, <2>4 DEF SendTrigger, SendCheck, RequestDone, Call, CallerType, OpNames
    <3>. QED BY <1>1, <1>2, <2>1, <3>1, <3>2, PauseStaysTold
  <2>. QED BY <1>5, <2>2, <2>3, <2>4, PauseSent DEF CallerStep, CallerSend
<1>6. CASE UNCHANGED <<checker, running, ctrlVars, callerVars>>
  <2>1. UNCHANGED <<checker, running, actionChan, replyChan, pausedBy, caller>>
    BY <1>6 DEF ctrlVars, callerVars
  <2>. QED BY <1>1, <1>2, <2>1, PauseStaysTold
<1>. QED BY <1>3, <1>4, <1>5, <1>6, StopFrame, CancelFrame, WorkerFrame DEF Next, vars

(* Whoever asks Running after a Pause that was accepted, with no Resume    *)
(* accepted since, is told that the checks do not run. One caller asks at  *)
(* a time: the answers of two would share replyChan.                       *)
THEOREM PausesAreObserved == ASSUME OneAsks PROVE Spec => PauseIsObserved
<1>1. Init => PauseInv
  BY DEF Init, PauseInv
<1>2. IInv /\ CallInv /\ WaitersInv /\ PauseInv /\ [Next]_vars => PauseInv'
  BY PauseInvStep
<1>3. IInv /\ PauseInv /\ [Next]_vars
      => [\A c \in pausedBy : caller[c] = "await" /\ caller'[c] = "idle" /\ ~stopped => ~answer'[c]]_vars
  <2>. SUFFICES ASSUME IInv, PauseInv, [Next]_vars, ~stopped,
                       NEW c \in pausedBy, caller[c] = "await", caller'[c] = "idle"
                PROVE  ~answer'[c]
    OBVIOUS
  <2>0. CtrlType /\ CallerType /\ c \in Callers
    BY DEF IInv, TypeOK, CallerType
  <2>1. PICK d \in Callers : CallerStep(d)
    BY StartFrame, StopFrame, CancelFrame, WorkerFrame, CheckerFrame DEF Next, vars, callerVars
  <2>2. Receive(c)
    <3>1. d = c
      BY <2>0, <2>1 DEF CallerStep, CallerSend, Call, SendAction, SendTrigger, SendCheck, Receive, GiveUp,
         RequestDone, CallerType
    <3>. QED BY <2>1, <3>1 DEF CallerStep, CallerSend, Call, SendAction, SendTrigger, SendCheck, GiveUp, Released,
         RequestDone
  <2>3. 1 \in DOMAIN replyChan /\ Head(replyChan) = replyChan[1]
    BY <2>0, <2>2, HeadAndRest DEF Receive, CtrlType
  <2>4. replyChan[1] = FALSE
    BY <2>3 DEF PauseInv, ToldPaused
  <2>5. answer' = [answer EXCEPT ![c] = FALSE]
    BY <2>2, <2>3, <2>4 DEF Receive
  <2>. QED BY <2>0, <2>5 DEF CallerType
<1>. QED BY <1>1, <1>2, <1>3, Invariance, CallsAreTheirs, WaitersAreCounted, PTL DEF Spec, PauseIsObserved

-----------------------------------------------------------------------------
(* The checker keeps its promise: each step is one of CheckLifecycle's, or *)
(* changes nothing that CheckLifecycle tells apart.                        *)

LEMMA RestChecksNothing == ASSUME PoolAtRest PROVE Checking = {}
<1>1. Len(checks) = 0 /\ \A w \in Workers : worker[w] \notin Busy
  BY RestIsEmpty DEF PoolAtRest, Busy
<1>. QED BY <1>1 DEF Checking

(* While the checker is up, the phase is "open".                           *)
LEMMA PhaseOpen ==
  ASSUME ~stopped, ~stopped', checker # "off", checker' # "off"
  PROVE  Phase = "open" /\ Phase' = "open"
BY DEF Phase

LEMMA StartRefines == ASSUME IInv, StartStep PROVE [Promise!Next]_(Promise!vars)
<1>0. LifeInv /\ PassIsComplete
  BY DEF IInv, AccountInv
<1>1. CASE BeginLifecycle
  BY <1>1 DEF BeginLifecycle, Promise!vars, Phase, Checking, poolVars, stateVars
<1>2. CASE LoadServiceStates
  <2>1. Phase = "off" /\ Phase' = Phase /\ Checking' = Checking
    BY <1>0, <1>2 DEF LoadServiceStates, Phase, Checking, LifeInv, poolVars
  <2>2. Promise!Restore
    BY <1>2, <2>1 DEF LoadServiceStates, Promise!Restore
  <2>. QED BY <2>2 DEF Promise!Next
<1>3. CASE LaunchChecker
  <2>1. checker = "off" /\ ~stopped /\ Phase = "off" /\ PoolAtRest /\ Checking = {}
    BY <1>0, <1>3, RestChecksNothing DEF LaunchChecker, LifeInv, PassIsComplete, Phase
  <2>2. Checking' = {} /\ state' = state
    <3>1. Len(checks') = 0 /\ \A w \in Workers : worker'[w] \notin Busy
      BY <1>0, <1>3, <2>1, EmptySeq DEF LaunchChecker, PoolAtRest, Busy
    <3>. QED BY <1>3, <3>1 DEF Checking, LaunchChecker, stateVars
  <2>3. Phase' \in {"open", "closed"}
    BY <1>3, <2>1 DEF LaunchChecker, FailedStartCloses, BeginPass, Phase
  <2>4. Promise!Open \/ Promise!Close
    BY <2>1, <2>2, <2>3 DEF Promise!Open, Promise!Close
  <2>. QED BY <2>4 DEF Promise!Next
<1>. QED BY <1>1, <1>2, <1>3 DEF StartStep

LEMMA WorkerRefines ==
  ASSUME IInv, NEW w \in Workers, WorkerStep(w)
  PROVE  [Promise!Next]_(Promise!vars)
<1>0. LifeInv /\ WorkerInv /\ PlaceInv /\ VerdictInv /\ PassIsComplete /\ TypeOK
  BY DEF IInv, AccountInv
<1>. /\ checks \in Seq(Svcs \cup {NilSvc}) /\ Len(checks) \in Nat
     /\ worker \in [Workers -> WorkerPCs] /\ job \in [Workers -> Svcs \cup {NilSvc}]
     /\ checker' = checker /\ Phase' = Phase
  BY <1>0, LenProperties, WorkerFrame DEF TypeOK, PoolType, Phase, lifeVars
<1>1. CASE WorkerTake(w)
  <2>1. /\ 1 \in 1 .. Len(checks) /\ Head(checks) = checks[1] /\ Len(checks') = Len(checks) - 1
        /\ \A i \in 1 .. Len(checks') : i + 1 \in 1 .. Len(checks) /\ checks'[i] = checks[i + 1]
    BY <1>1, TakeCounts, EmptySeq DEF WorkerTake
  <2>2. \A s \in Svcs : (\E i \in 1 .. Len(checks) : checks[i] = s)
                        <=> (\E i \in 1 .. Len(checks') : checks'[i] = s) \/ checks[1] = s
    <3>. SUFFICES ASSUME NEW s \in Svcs, NEW i \in 1 .. Len(checks), checks[i] = s, i # 1
                  PROVE  \E j \in 1 .. Len(checks') : checks'[j] = s
      BY <2>1
    <3>1. i - 1 \in 1 .. Len(checks') /\ checks'[i - 1] = checks[i]
      BY <2>1
    <3>. QED BY <3>1
  <2>3. \A v \in Workers : v # w => worker'[v] = worker[v] /\ job'[v] = job[v]
    BY <1>1 DEF WorkerTake
  <2>4. job'[w] = checks[1] /\ worker[w] \notin Busy
    BY <1>1, <2>1 DEF WorkerTake, Busy
  <2>5. worker'[w] \in Busy <=> checks[1] \in Svcs
    BY <1>1, <2>1, ServiceAssumption DEF WorkerTake, Busy
  <2>6. Checking' = Checking
    <3>1. \A s \in Svcs : (\E v \in Workers : worker'[v] \in Busy /\ job'[v] = s)
                          <=> (\E v \in Workers : worker[v] \in Busy /\ job[v] = s) \/ checks[1] = s
      BY <2>3, <2>4, <2>5
    <3>. QED BY <2>2, <3>1 DEF Checking
  <2>. QED BY <1>1, <2>6 DEF WorkerTake, stateVars, Promise!vars
<1>2. CASE WorkerCheck(w) \/ WorkerVerify(w)
  <2>1. BusyWorkers' = BusyWorkers
    BY <1>0, <1>2, ProbeCounts
  <2>2. \A v \in Workers : worker'[v] \in Busy <=> worker[v] \in Busy
    BY <2>1 DEF BusyWorkers
  <2>3. UNCHANGED <<checks, job, state>>
    BY <1>2 DEF WorkerCheck, WorkerVerify, stateVars
  <2>. QED BY <2>2, <2>3 DEF Checking, Promise!vars
<1>3. CASE WorkerUpdate(w)
  <2>1. BusyWorkers' = BusyWorkers
    BY <1>0, <1>3, ProbeCounts
  <2>2. \A v \in Workers : worker'[v] \in Busy <=> worker[v] \in Busy
    BY <2>1 DEF BusyWorkers
  <2>3. UNCHANGED <<checks, job>> /\ state' = [state EXCEPT ![job[w]] = found[w]]
    BY <1>3 DEF WorkerUpdate
  <2>4. Checking' = Checking
    BY <2>2, <2>3 DEF Checking
  <2>5. worker[w] \in Busy /\ job[w] \in Svcs /\ job[w] \in Checking /\ found[w] \in Verdicts
    BY <1>0, <1>3 DEF WorkerUpdate, WorkerInv, VerdictInv, Checking, Busy
  <2>6. Promise!Record(job[w], found[w])
    BY <2>3, <2>4, <2>5 DEF Promise!Record
  <2>. QED BY <2>5, <2>6 DEF Promise!Next
<1>4. CASE WorkerReport(w)
  <2>1. worker[w] \in Busy /\ job[w] \in Svcs /\ job[w] \in Checking
    BY <1>0, <1>4 DEF WorkerReport, WorkerInv, Checking, Busy
  <2>2. checker = "pass"
    BY <1>0, <1>4 DEF WorkerReport, WorkerInv, PassIsComplete, PoolAtRest, TypeOK, PassType,
       CheckerPCs
  <2>3. /\ \A i \in 1 .. Len(checks) : checks[i] # job[w]
        /\ \A v \in Workers : v # w /\ worker[v] \in Busy => job[v] # job[w]
    BY <1>0, <2>1, <2>2 DEF PlaceInv, OneCheckPerService
  <2>4. /\ UNCHANGED <<checks, state>> /\ worker'[w] \notin Busy
        /\ \A v \in Workers : v # w => worker'[v] = worker[v] /\ job'[v] = job[v]
    BY <1>4 DEF WorkerReport, stateVars, Busy
  <2>5. \A s \in Svcs : (\E v \in Workers : worker'[v] \in Busy /\ job'[v] = s)
                        <=> (\E v \in Workers : worker[v] \in Busy /\ job[v] = s) /\ s # job[w]
    BY <2>1, <2>3, <2>4
  <2>6. Checking' = Checking \ {job[w]}
    BY <2>3, <2>4, <2>5 DEF Checking
  <2>7. Promise!End(job[w])
    BY <2>1, <2>4, <2>6 DEF Promise!End
  <2>. QED BY <2>1, <2>7 DEF Promise!Next
<1>5. CASE WorkerQuit(w)
  <2>1. \A v \in Workers : worker'[v] \in Busy <=> worker[v] \in Busy
    BY <1>5 DEF WorkerQuit, Busy
  <2>2. UNCHANGED <<checks, job, state>>
    BY <1>5 DEF WorkerQuit, stateVars
  <2>. QED BY <2>1, <2>2 DEF Checking, Promise!vars
<1>. QED BY <1>1, <1>2, <1>3, <1>4, <1>5 DEF WorkerStep

LEMMA CheckerRefines == ASSUME IInv, CheckerStep PROVE [Promise!Next]_(Promise!vars)
<1>0. LifeInv /\ AccountInv /\ DrainInv /\ PlaceInv /\ PassIsComplete /\ TypeOK
  BY DEF IInv, AccountInv
<1>. /\ checks \in Seq(Svcs \cup {NilSvc}) /\ Len(checks) \in Nat
     /\ UNCHANGED <<worker, job, state>>
  BY <1>0, LenProperties, CheckerFrame DEF TypeOK, PoolType
<1>1. CASE CloseStopped
  <2>1. Checking = {} /\ Checking' = {}
    <3>1. Len(checks) = 0 /\ checks' = checks
      BY <1>0, <1>1, EmptySeq DEF CloseStopped, DrainInv, poolVars
    <3>2. \A w \in Workers : worker[w] \notin Busy
      BY <1>0, <1>1 DEF CloseStopped, IInv, WorkerInv, Busy
    <3>. QED BY <3>1, <3>2 DEF Checking
  <2>2. Phase = "open" /\ Phase' = "closed"
    BY <1>0, <1>1 DEF CloseStopped, Phase, LifeInv
  <2>3. Promise!Close
    BY <2>1, <2>2 DEF Promise!Close
  <2>. QED BY <2>3 DEF Promise!Next
<1>2. CASE ~CloseStopped
  <2>1. Phase = "open" /\ Phase' = "open"
    <3>1. checker \notin {"off", "gone"} /\ checker' # "off" /\ stopped' = stopped
      BY <1>2 DEF CheckerStep, PassStep, LoopStep, DrainStep, Enqueue, Collect, FinishPass,
         SendResults, Reply, OnAction, OnCheckEvent, OnTrigger, OnTick, OnCancel, DrainSend,
         DrainWait, BeginPass, lifeVars
    <3>2. ~stopped
      BY <1>0, <3>1 DEF LifeInv
    <3>. QED BY <3>1, <3>2, PhaseOpen
  <2>2. CASE Enqueue
    <3>1. PICK s \in pass.todo : checks' = Append(checks, s)
      BY <2>2 DEF Enqueue
    <3>2. s \in Svcs
      BY <1>0, <3>1 DEF TypeOK, PassType
    <3>3. s \notin Checking
      BY <1>0, <2>2, <3>1 DEF Enqueue, PlaceInv, Checking
    <3>4. /\ Len(checks') = Len(checks) + 1
          /\ \A i \in 1 .. Len(checks') : checks'[i] = IF i = Len(checks) + 1 THEN s ELSE checks[i]
      BY <3>1, <3>2
    <3>5. \A t \in Svcs : (\E i \in 1 .. Len(checks') : checks'[i] = t)
                          <=> (\E i \in 1 .. Len(checks) : checks[i] = t) \/ t = s
      BY <3>4
    <3>6. Checking' = Checking \cup {s}
      BY <3>2, <3>5 DEF Checking
    <3>7. Promise!Begin(s)
      BY <2>1, <3>3, <3>6 DEF Promise!Begin
    <3>. QED BY <3>2, <3>7 DEF Promise!Next
  <2>3. CASE DrainSend
    <3>1. /\ Len(checks') = Len(checks) + 1
          /\ \A i \in 1 .. Len(checks') :
               checks'[i] = IF i = Len(checks) + 1 THEN NilSvc ELSE checks[i]
      BY <2>3 DEF DrainSend
    <3>2. \A t \in Svcs : (\E i \in 1 .. Len(checks') : checks'[i] = t)
                          <=> (\E i \in 1 .. Len(checks) : checks[i] = t)
      BY <3>1, ServiceAssumption
    <3>3. Checking' = Checking
      BY <3>2 DEF Checking
    <3>. QED BY <2>1, <3>3 DEF Promise!vars
  <2>4. CASE checks' = checks
    BY <2>1, <2>4 DEF Checking, Promise!vars
  <2>. QED BY <1>2, <2>2, <2>3, <2>4 DEF CheckerStep, PassStep, LoopStep, DrainStep, Collect,
       FinishPass, SendResults, Reply, OnAction, OnCheckEvent, OnTrigger, OnTick, OnCancel,
       DrainWait, poolVars
<1>. QED BY <1>1, <1>2

(* What CheckLifecycle says of the rest of the client is true of this pool *)
(* of workers, its channels and its shutdown.                              *)
THEOREM PromiseKept == Spec => KeepsPromise
<1>1. Init => Promise!Init
  <2>. SUFFICES ASSUME Init PROVE Promise!Init
    OBVIOUS
  <2>1. PoolAtRest /\ Phase = "off" /\ state = [s \in Svcs |-> Unknown]
    BY DEF Init, PoolAtRest, Phase
  <2>. QED BY <2>1, RestChecksNothing DEF Promise!Init
<1>2. IInv /\ [Next]_vars => [Promise!Next]_(Promise!vars)
  <2>. SUFFICES ASSUME IInv, [Next]_vars PROVE [Promise!Next]_(Promise!vars)
    OBVIOUS
  <2>1. CASE UNCHANGED <<stopped, checker, checks, worker, job, state>>
    BY <2>1 DEF Promise!vars, Phase, Checking
  <2>. QED BY <2>1, StartRefines, WorkerRefines, CheckerRefines, StopFrame, CancelFrame, CallerFrame
    DEF Next, vars, lifeVars, poolVars, stateVars
<1>. QED BY <1>1, <1>2, Invariance, PTL DEF Spec, KeepsPromise, Promise!Spec
=============================================================================
