--------------------------- MODULE ServiceChecker ---------------------------
(***************************************************************************)
(* The service checker of pkg/services: one checker goroutine              *)
(* (runServiceChecker), a pool of worker goroutines (watchServiceChan) fed *)
(* by the checks channel and answering on the done channel, the goroutine  *)
(* that runs Start, the ones that run Stop, and any number of callers of   *)
(* Running, Pause, Resume, RunChecks and RunCheck.                         *)
(*                                                                         *)
(* One Services object goes through Start once: a reload builds a new one. *)
(* A section of code under stopLock is one action, and so is a channel     *)
(* operation or a select; a goroutine is interrupted anywhere else.        *)
(***************************************************************************)
EXTENDS Integers, Sequences, FiniteSets

CONSTANTS
  Callers,     (* goroutines that use the exported methods                 *)
  Ops,         (* Ops[c]: the methods caller c uses, a subset of OpNames   *)
  Stoppers,    (* goroutines that call Stop, each once                     *)
  Workers,     (* the pool: s.parallel goroutines                          *)
  Svcs,        (* the configured services                                  *)
  Scheduled,   (* those with Interval > 0                                  *)
  Verdicts,    (* the states a check may find                              *)
  Unknown,     (* StateUnknown, the state of a service never checked       *)
  Aborted,     (* the Critical state a check reports when its context is   *)
               (* cancelled under it: told apart from an honest Critical   *)
  NilSvc,      (* the nil that tells a worker to leave                     *)
  Disabled,    (* the configuration's disabled flag                        *)
  ChecksCap, ActionCap, ControlCap   (* DefaultBuffer, actionBuf, controlBuf *)

OpNames == {"running", "pause", "resume", "runall", "logall", "runone"}

ASSUME ServiceAssumption ==
  /\ Ops \in [Callers -> SUBSET OpNames]
  /\ IsFiniteSet(Workers) /\ Workers # {}
  /\ Scheduled \subseteq Svcs
  /\ NilSvc \notin Svcs
  /\ Unknown \notin Verdicts /\ Aborted \notin Verdicts \cup {Unknown}
  /\ Disabled \in BOOLEAN
  /\ ChecksCap \in Nat \ {0} /\ ActionCap \in Nat \ {0} /\ ControlCap \in Nat \ {0}

VARIABLES
  starter,     (* where Start is: "new", "loading" or "done"               *)
  live,        (* the channel fields of the object are not nil             *)
  stopping,    (* the stopping flag, under stopLock                        *)
  cancelled,   (* the context of the lifecycle is done                     *)
  stopped,     (* the stopped channel is closed                            *)
  stopper,     (* where each Stop is                                       *)
  checker,     (* where runServiceChecker is                               *)
  running,     (* its running flag, and whether its ticker is active       *)
  pass,        (* the pass it is making over the services                  *)
  drainLeft,   (* the workers stopWorkers has still to stop                *)
  checks, done, actionChan, replyChan, triggerChan, checkChan,
  worker,      (* where each worker is                                     *)
  job,         (* the service it holds                                     *)
  found,       (* what its check found                                     *)
  changed,     (* what update returned                                     *)
  state,       (* the State of each service                                *)
  unsent,      (* history: services that changed since the last results    *)
               (* were sent to the website                                 *)
  caller,      (* where each caller is: "idle", in the select of the       *)
               (* method named, or in "await" of the answer of Running     *)
  answer,      (* what its last call returned, FALSE for no answer         *)
  pausedBy     (* history: callers whose Pause was accepted after the last *)
               (* accepted Resume                                          *)

lifeVars   == <<starter, live, stopping, cancelled, stopped, stopper>>
passVars   == <<pass, drainLeft>>
poolVars   == <<checks, done, worker, job, found, changed>>
stateVars  == <<state, unsent>>
ctrlVars   == <<actionChan, replyChan, triggerChan, checkChan>>
callerVars == <<caller, answer, pausedBy>>
vars == <<lifeVars, checker, running, passVars, poolVars, stateVars, ctrlVars,
          callerVars>>

NoPass == [kind |-> "none", todo |-> {}, outstanding |-> 0, changes |-> FALSE]

PassKinds == {"none", "start", "cron", "runall", "logall", "runone"}

Parallel == Cardinality(Workers)

Init ==
  /\ starter = "new" /\ live = FALSE /\ stopping = FALSE
  /\ cancelled = FALSE /\ stopped = FALSE
  /\ stopper = [p \in Stoppers |-> "idle"]
  /\ checker = "off" /\ running = FALSE /\ pass = NoPass /\ drainLeft = 0
  /\ checks = <<>> /\ done = <<>>
  /\ actionChan = <<>> /\ replyChan = <<>> /\ triggerChan = <<>> /\ checkChan = <<>>
  /\ worker = [w \in Workers |-> "off"]
  /\ job = [w \in Workers |-> NilSvc]
  /\ found = [w \in Workers |-> Unknown]
  /\ changed = [w \in Workers |-> FALSE]
  /\ state = [s \in Svcs |-> Unknown] /\ unsent = {}
  /\ caller = [c \in Callers |-> "idle"]
  /\ answer = [c \in Callers |-> FALSE]
  /\ pausedBy = {}

-----------------------------------------------------------------------------
(* Start and Stop.                                                         *)

(* beginLifecycle: the channels are made and published under the lock.     *)
BeginLifecycle ==
  /\ starter = "new"
  /\ starter' = "loading"
  /\ live' = TRUE /\ stopping' = FALSE
  /\ UNCHANGED <<cancelled, stopped, stopper, checker, running, passVars,
                 poolVars, stateVars, ctrlVars, callerVars>>

(* loadServiceStates: saved states that are recent enough replace the      *)
(* ones add gave, after a wait for the website.                            *)
LoadServiceStates ==
  /\ starter = "loading"
  /\ starter' = "loaded"
  /\ state' \in [Svcs -> Verdicts \cup {Unknown}]
  /\ UNCHANGED <<live, stopping, cancelled, stopped, stopper, checker, running,
                 passVars, poolVars, unsent, ctrlVars, callerVars>>

(* The start of a pass: runChecks(force) or, for "runone", runCheck.       *)
BeginPass(kind, todo) ==
  /\ checker' = "pass"
  /\ pass' = [kind |-> kind, todo |-> todo, outstanding |-> 0, changes |-> FALSE]

(* A start that Stop or the end of the context overtook closes the channel  *)
(* that they wait for. Mutant: it just returns.                            *)
NoStoppedClose == stopped
FailedStartCloses == TRUE

(* launchChecker: the workers and the checker start, unless Stop came      *)
(* while the states were loading. A disabled checker makes no first pass   *)
(* and waits, not running, for a Resume.                                   *)
LaunchChecker ==
  /\ starter = "loaded"
  /\ starter' = "done"
  /\ IF stopping \/ cancelled
     THEN /\ stopped' = FailedStartCloses
          /\ UNCHANGED <<checker, running, pass, worker>>
     ELSE /\ worker' = [w \in Workers |-> "recv"]
          /\ running' = ~Disabled
          /\ IF Disabled
             THEN checker' = "loop" /\ pass' = pass
             ELSE BeginPass("start", Scheduled)
          /\ UNCHANGED stopped
  /\ UNCHANGED <<live, stopping, cancelled, stopper, drainLeft, checks, done, job,
                 found, changed, stateVars, ctrlVars, callerVars>>

(* Stop, first section under the lock: nothing to do without a lifecycle   *)
(* or when another Stop has it in hand.                                    *)
StopBegin(p) ==
  /\ stopper[p] = "idle"
  /\ IF ~live \/ stopping
     THEN stopper' = [stopper EXCEPT ![p] = "returned"] /\ UNCHANGED stopping
     ELSE stopper' = [stopper EXCEPT ![p] = "cancel"] /\ stopping' = TRUE
  /\ UNCHANGED <<starter, live, cancelled, stopped, checker, running, passVars,
                 poolVars, stateVars, ctrlVars, callerVars>>

(* Stop cancels the context, then waits for the stopped channel.           *)
StopCancel(p) ==
  /\ stopper[p] = "cancel"
  /\ stopper' = [stopper EXCEPT ![p] = "wait"]
  /\ cancelled' = TRUE
  /\ UNCHANGED <<starter, live, stopping, stopped, checker, running, passVars,
                 poolVars, stateVars, ctrlVars, callerVars>>

(* Stop waits for the channel. Mutant: it does not.                        *)
NoWait(p) == stopper[p] = "wait"
ShutDown(p) == stopper[p] = "wait" /\ stopped

(* Stop, last section: the fields become nil, checks and done are closed.  *)
StopFinish(p) ==
  /\ ShutDown(p)
  /\ stopper' = [stopper EXCEPT ![p] = "finished"]
  /\ live' = FALSE /\ stopping' = FALSE
  /\ UNCHANGED <<starter, cancelled, stopped, checker, running, passVars,
                 poolVars, stateVars, ctrlVars, callerVars>>

(* The reload context the client gives to Start may end on its own.        *)
ParentCancel ==
  /\ ~cancelled
  /\ cancelled' = TRUE
  /\ UNCHANGED <<starter, live, stopping, stopped, stopper, checker, running,
                 passVars, poolVars, stateVars, ctrlVars, callerVars>>

-----------------------------------------------------------------------------
(* The workers: watchServiceChan and Service.check.                        *)

WorkerTake(w) ==
  /\ worker[w] = "recv" /\ checks # <<>>
  /\ checks' = Tail(checks)
  /\ job' = [job EXCEPT ![w] = Head(checks)]
  /\ worker' = [worker EXCEPT ![w] = IF Head(checks) = NilSvc THEN "quit" ELSE "check"]
  /\ UNCHANGED <<lifeVars, checker, running, passVars, done, found, changed,
                 stateVars, ctrlVars, callerVars>>

(* checkNow: the probe itself. One cut short by the context says Critical. *)
WorkerCheck(w) ==
  /\ worker[w] = "check"
  /\ worker' = [worker EXCEPT ![w] = "verify"]
  /\ \E v \in Verdicts \cup (IF cancelled THEN {Aborted} ELSE {}) :
       found' = [found EXCEPT ![w] = v]
  /\ UNCHANGED <<lifeVars, checker, running, passVars, checks, done, job, changed,
                 stateVars, ctrlVars, callerVars>>

(* Where a worker goes after its probe. Mutants: it keeps every result; it *)
(* leaves without an answer when the context is done.                      *)
KeepsEverything == "update"
LeavesOnCancel == IF cancelled THEN "gone" ELSE "update"
AfterProbe == IF cancelled THEN "report" ELSE "update"

(* check looks at the context after the probe, not before.                 *)
WorkerVerify(w) ==
  /\ worker[w] = "verify"
  /\ worker' = [worker EXCEPT ![w] = AfterProbe]
  /\ UNCHANGED <<lifeVars, checker, running, passVars, checks, done, job, found,
                 changed, stateVars, ctrlVars, callerVars>>

(* update, under the lock of the service.                                  *)
WorkerUpdate(w) ==
  /\ worker[w] = "update"
  /\ worker' = [worker EXCEPT ![w] = "report"]
  /\ state' = [state EXCEPT ![job[w]] = found[w]]
  /\ changed' = [changed EXCEPT ![w] = found[w] # state[job[w]]]
  /\ unsent' = IF found[w] # state[job[w]] THEN unsent \cup {job[w]} ELSE unsent
  /\ UNCHANGED <<lifeVars, checker, running, passVars, checks, done, job, found,
                 ctrlVars, callerVars>>

(* The answer on the done channel.                                         *)
WorkerReport(w) ==
  /\ worker[w] = "report" /\ Len(done) < Parallel
  /\ done' = Append(done, changed[w])
  /\ worker' = [worker EXCEPT ![w] = "recv"]
  /\ job' = [job EXCEPT ![w] = NilSvc]
  /\ found' = [found EXCEPT ![w] = Unknown]
  /\ changed' = [changed EXCEPT ![w] = FALSE]
  /\ UNCHANGED <<lifeVars, checker, running, passVars, checks, stateVars, ctrlVars,
                 callerVars>>

WorkerQuit(w) ==
  /\ worker[w] = "quit" /\ Len(done) < Parallel
  /\ done' = Append(done, FALSE)
  /\ worker' = [worker EXCEPT ![w] = "gone"]
  /\ UNCHANGED <<lifeVars, checker, running, passVars, checks, job, found, changed,
                 stateVars, ctrlVars, callerVars>>

-----------------------------------------------------------------------------
(* The checker: runServiceChecker, runChecks, runCheck and stopWorkers.    *)

(* A service goes to the pool. Services are taken in map order: any order. *)
Enqueue ==
  /\ checker = "pass" /\ Len(checks) < ChecksCap
  /\ \E s \in pass.todo :
       /\ checks' = Append(checks, s)
       /\ pass' = [pass EXCEPT !.todo = @ \ {s}, !.outstanding = @ + 1]
  /\ UNCHANGED <<lifeVars, checker, running, drainLeft, done, worker, job, found,
                 changed, stateVars, ctrlVars, callerVars>>

(* Whether a service changed in the pass so far. Mutant: the last answer.  *)
LastAnswer(latest) == latest
AnyAnswer(latest) == pass.changes \/ latest

(* An answer is drained: by the select of enqueueCheck while services are  *)
(* left to enqueue, by waitChecks while answers are outstanding.           *)
Collect ==
  /\ checker = "pass" /\ done # <<>>
  /\ pass.todo # {} \/ pass.outstanding > 0
  /\ done' = Tail(done)
  /\ pass' = [pass EXCEPT !.outstanding = @ - 1, !.changes = AnyAnswer(Head(done))]
  /\ UNCHANGED <<lifeVars, checker, running, drainLeft, checks, worker, job, found,
                 changed, stateVars, ctrlVars, callerVars>>

(* Whether the results of a finished pass are sent to the website.         *)
SendsResults ==
  CASE pass.kind = "start"             -> ~cancelled
    [] pass.kind = "runall"            -> TRUE
    [] pass.kind \in {"cron", "runone"} -> pass.changes
    [] OTHER                           -> FALSE

(* Nothing to queue, no answer to wait for. Mutant: off by one.            *)
NearlyOver == pass.todo = {} /\ pass.outstanding <= 1
PassOver == pass.todo = {} /\ pass.outstanding <= 0

FinishPass ==
  /\ checker = "pass" /\ PassOver
  /\ checker' = IF SendsResults THEN "send" ELSE "loop"
  /\ pass' = NoPass
  /\ UNCHANGED <<lifeVars, running, drainLeft, poolVars, stateVars, ctrlVars,
                 callerVars>>

(* SendResults: the states of all services go to the website's queue, when *)
(* that has room.                                                          *)
SendResults ==
  /\ checker = "send"
  /\ checker' = "loop"
  /\ unsent' = {}
  /\ UNCHANGED <<lifeVars, running, passVars, poolVars, state, ctrlVars, callerVars>>

(* stopWorkers has one round for each worker. Mutants: one more, one less. *)
OneRoundMore == Parallel + 1
OneRoundLess == Parallel - 1
DrainRounds == Parallel

(* The arms of the select in runServiceChecker.                            *)
OnCancel ==
  /\ checker = "loop" /\ cancelled
  /\ checker' = "drain"
  /\ drainLeft' = DrainRounds
  /\ UNCHANGED <<lifeVars, running, pass, poolVars, stateVars, ctrlVars, callerVars>>

(* A pause stops the ticker and clears the flag. Mutant: the ticker only.  *)
StillRunning == running
AfterPause == FALSE

OnAction ==
  /\ checker = "loop" /\ actionChan # <<>>
  /\ actionChan' = Tail(actionChan)
  /\ \/ Head(actionChan) = "running" /\ checker' = "reply" /\ UNCHANGED running
     \/ Head(actionChan) = "resume"  /\ running' = TRUE /\ UNCHANGED checker
     \/ Head(actionChan) = "pause"   /\ running' = AfterPause /\ UNCHANGED checker
  /\ UNCHANGED <<lifeVars, passVars, poolVars, stateVars, replyChan, triggerChan,
                 checkChan, callerVars>>

Reply ==
  /\ checker = "reply" /\ Len(replyChan) < ControlCap
  /\ replyChan' = Append(replyChan, running)
  /\ checker' = "loop"
  /\ UNCHANGED <<lifeVars, running, passVars, poolVars, stateVars, actionChan,
                 triggerChan, checkChan, callerVars>>

OnCheckEvent ==
  /\ checker = "loop" /\ checkChan # <<>>
  /\ checkChan' = Tail(checkChan)
  /\ BeginPass("runone", {Head(checkChan)})
  /\ UNCHANGED <<lifeVars, running, drainLeft, poolVars, stateVars, actionChan,
                 replyChan, triggerChan, callerVars>>

OnTrigger ==
  /\ checker = "loop" /\ triggerChan # <<>>
  /\ triggerChan' = Tail(triggerChan)
  /\ BeginPass(Head(triggerChan), Scheduled)
  /\ UNCHANGED <<lifeVars, running, drainLeft, poolVars, stateVars, actionChan,
                 replyChan, checkChan, callerVars>>

(* A tick finds some of the scheduled services due. The ticker is active   *)
(* exactly while running is TRUE.                                          *)
OnTick ==
  /\ checker = "loop" /\ running
  /\ \E due \in SUBSET Scheduled \ {{}} : BeginPass("cron", due)
  /\ UNCHANGED <<lifeVars, running, drainLeft, poolVars, stateVars, ctrlVars,
                 callerVars>>

(* stopWorkers: a nil for each worker in turn, and its answer.             *)
DrainSend ==
  /\ checker = "drain" /\ drainLeft > 0 /\ Len(checks) < ChecksCap
  /\ checks' = Append(checks, NilSvc)
  /\ checker' = "drainWait"
  /\ UNCHANGED <<lifeVars, running, passVars, done, worker, job, found, changed,
                 stateVars, ctrlVars, callerVars>>

DrainWait ==
  /\ checker = "drainWait" /\ done # <<>>
  /\ done' = Tail(done)
  /\ drainLeft' = drainLeft - 1
  /\ checker' = "drain"
  /\ UNCHANGED <<lifeVars, running, pass, checks, worker, job, found, changed,
                 stateVars, ctrlVars, callerVars>>

(* The deferred close of the stopped channel.                              *)
CloseStopped ==
  /\ checker = "drain" /\ drainLeft = 0
  /\ checker' = "gone"
  /\ stopped' = TRUE
  /\ UNCHANGED <<starter, live, stopping, cancelled, stopper, running, passVars,
                 poolVars, stateVars, ctrlVars, callerVars>>

-----------------------------------------------------------------------------
(* The callers.                                                            *)

(* The snapshot of the fields under the lock, and the early return.        *)
Call(c, o) ==
  /\ caller[c] = "idle" /\ o \in Ops[c]
  /\ caller' = [caller EXCEPT ![c] = IF ~live \/ stopping THEN "idle" ELSE o]
  /\ answer' = [answer EXCEPT ![c] = FALSE]
  /\ UNCHANGED <<lifeVars, checker, running, passVars, poolVars, stateVars, ctrlVars,
                 pausedBy>>

(* sendLive, or the select of RunCheck: the channel has room.              *)
SendAction(c) ==
  /\ caller[c] \in {"running", "pause", "resume"}
  /\ Len(actionChan) < ActionCap
  /\ actionChan' = Append(actionChan, caller[c])
  /\ caller' = [caller EXCEPT ![c] = IF @ = "running" THEN "await" ELSE "idle"]
  /\ pausedBy' = CASE caller[c] = "pause"  -> pausedBy \cup {c}
                   [] caller[c] = "resume" -> {}
                   [] OTHER                -> pausedBy
  /\ UNCHANGED <<lifeVars, checker, running, passVars, poolVars, stateVars, replyChan,
                 triggerChan, checkChan, answer>>

SendTrigger(c) ==
  /\ caller[c] \in {"runall", "logall"}
  /\ Len(triggerChan) < ControlCap
  /\ triggerChan' = Append(triggerChan, caller[c])
  /\ caller' = [caller EXCEPT ![c] = "idle"]
  /\ UNCHANGED <<lifeVars, checker, running, passVars, poolVars, stateVars, actionChan,
                 replyChan, checkChan, answer, pausedBy>>

SendCheck(c) ==
  /\ caller[c] = "runone"
  /\ Len(checkChan) < ControlCap
  /\ \E s \in Svcs : checkChan' = Append(checkChan, s)
  /\ caller' = [caller EXCEPT ![c] = "idle"]
  /\ UNCHANGED <<lifeVars, checker, running, passVars, poolVars, stateVars, actionChan,
                 replyChan, triggerChan, answer, pausedBy>>

Receive(c) ==
  /\ caller[c] = "await" /\ replyChan # <<>>
  /\ replyChan' = Tail(replyChan)
  /\ answer' = [answer EXCEPT ![c] = Head(replyChan)]
  /\ caller' = [caller EXCEPT ![c] = "idle"]
  /\ UNCHANGED <<lifeVars, checker, running, passVars, poolVars, stateVars, actionChan,
                 triggerChan, checkChan, pausedBy>>

(* Who the stopped channel releases. Mutants: those that send; everybody,  *)
(* at any time.                                                            *)
OnlySenders(c) == caller[c] \in OpNames /\ stopped
AnyTime(c) == caller[c] # "idle"
Released(c) == caller[c] # "idle" /\ stopped

(* The other arm of every select: the checker has stopped.                 *)
GiveUp(c) ==
  /\ Released(c)
  /\ caller' = [caller EXCEPT ![c] = "idle"]
  /\ UNCHANGED <<lifeVars, checker, running, passVars, poolVars, stateVars, ctrlVars,
                 answer, pausedBy>>

(* The third arm in RunCheck: the request's own context is done.           *)
RequestDone(c) ==
  /\ caller[c] = "runone"
  /\ caller' = [caller EXCEPT ![c] = "idle"]
  /\ UNCHANGED <<lifeVars, checker, running, passVars, poolVars, stateVars, ctrlVars,
                 answer, pausedBy>>

-----------------------------------------------------------------------------
StopStep(p) == StopBegin(p) \/ StopCancel(p) \/ StopFinish(p)

WorkerStep(w) ==
  \/ WorkerTake(w) \/ WorkerCheck(w) \/ WorkerVerify(w)
  \/ WorkerUpdate(w) \/ WorkerReport(w) \/ WorkerQuit(w)

PassStep == Enqueue \/ Collect \/ FinishPass \/ SendResults \/ Reply

LoopStep == OnAction \/ OnCheckEvent \/ OnTrigger \/ OnTick

DrainStep == DrainSend \/ DrainWait \/ CloseStopped

CheckerStep == PassStep \/ LoopStep \/ OnCancel \/ DrainStep

StartStep == BeginLifecycle \/ LoadServiceStates \/ LaunchChecker

CallerSend(c) == SendAction(c) \/ SendTrigger(c) \/ SendCheck(c)

CallerStep(c) ==
  \/ \E o \in OpNames : Call(c, o)
  \/ CallerSend(c) \/ Receive(c) \/ GiveUp(c) \/ RequestDone(c)

Next ==
  \/ StartStep
  \/ \E p \in Stoppers : StopStep(p)
  \/ ParentCancel
  \/ \E w \in Workers : WorkerStep(w)
  \/ CheckerStep
  \/ \E c \in Callers : CallerStep(c)

Spec == Init /\ [][Next]_vars

(* Goroutines that can run do run. A select with several ready arms picks  *)
(* one at random and a channel serves its senders in turn, so an arm that  *)
(* is ready time and again is taken: strong fairness. Nobody has to call a *)
(* method, call Stop, or end the parent context.                           *)
Fairness ==
  /\ WF_vars(StartStep)
  /\ WF_vars(PassStep) /\ WF_vars(DrainStep) /\ WF_vars(LoopStep)
  /\ SF_vars(OnCancel) /\ SF_vars(OnAction)
  /\ SF_vars(OnCheckEvent) /\ SF_vars(OnTrigger)
  /\ \A w \in Workers : WF_vars(WorkerStep(w))
  /\ \A p \in Stoppers : WF_vars(StopCancel(p) \/ StopFinish(p))
  /\ \A c \in Callers : SF_vars(CallerSend(c) \/ Receive(c) \/ GiveUp(c))

FairSpec == Spec /\ Fairness

-----------------------------------------------------------------------------
(* Properties.                                                             *)

CheckerPCs == {"off", "pass", "send", "loop", "reply", "drain", "drainWait", "gone"}
WorkerPCs  == {"off", "recv", "check", "verify", "update", "report", "quit", "gone"}
Busy       == {"check", "verify", "update", "report"}

LifeType ==
  /\ starter \in {"new", "loading", "loaded", "done"}
  /\ live \in BOOLEAN /\ stopping \in BOOLEAN
  /\ cancelled \in BOOLEAN /\ stopped \in BOOLEAN
  /\ stopper \in [Stoppers -> {"idle", "cancel", "wait", "finished", "returned"}]

PassType ==
  /\ checker \in CheckerPCs /\ running \in BOOLEAN
  /\ pass \in [kind : PassKinds, todo : SUBSET Svcs, outstanding : Int,
               changes : BOOLEAN]
  /\ drainLeft \in 0 .. Parallel

PoolType ==
  /\ checks \in Seq(Svcs \cup {NilSvc}) /\ Len(checks) <= ChecksCap
  /\ done \in Seq(BOOLEAN) /\ Len(done) <= Parallel
  /\ worker \in [Workers -> WorkerPCs]
  /\ job \in [Workers -> Svcs \cup {NilSvc}]
  /\ found \in [Workers -> Verdicts \cup {Unknown, Aborted}]
  /\ changed \in [Workers -> BOOLEAN]

StateType ==
  /\ state \in [Svcs -> Verdicts \cup {Unknown, Aborted}]
  /\ unsent \in SUBSET Svcs

CtrlType ==
  /\ actionChan \in Seq({"running", "pause", "resume"}) /\ Len(actionChan) <= ActionCap
  /\ replyChan \in Seq(BOOLEAN) /\ Len(replyChan) <= ControlCap
  /\ triggerChan \in Seq({"runall", "logall"}) /\ Len(triggerChan) <= ControlCap
  /\ checkChan \in Seq(Svcs) /\ Len(checkChan) <= ControlCap

CallerType ==
  /\ caller \in [Callers -> {"idle", "await"} \cup OpNames]
  /\ answer \in [Callers -> BOOLEAN]
  /\ pausedBy \in SUBSET Callers

(* Every variable keeps its type, and every channel its capacity.          *)
TypeOK == LifeType /\ PassType /\ PoolType /\ StateType /\ CtrlType /\ CallerType

PoolAtRest ==
  /\ checks = <<>> /\ done = <<>>
  /\ \A w \in Workers : worker[w] \in {"off", "recv", "gone"}

(* The checker leaves a pass only when every check it queued has answered: *)
(* results are never copied and sent, nor another event served, while a    *)
(* worker still changes a service (enqueueCheck and waitChecks).           *)
PassIsComplete ==
  checker \in {"off", "send", "loop", "reply", "gone"} => PoolAtRest

(* Two workers never check one service at the same time, whatever mix of   *)
(* ticks, triggers and single checks arrives.                              *)
OneCheckPerService ==
  \A v, w \in Workers :
    v # w /\ worker[v] \in Busy /\ worker[w] \in Busy => job[v] # job[w]

(* Once the stopped channel is closed, and when Stop makes the fields nil  *)
(* and closes checks and done, no goroutine is left that would send on     *)
(* them or read the fields.                                                *)
StopIsQuiet ==
  stopped \/ ~live =>
    /\ checks = <<>> /\ done = <<>>
    /\ checker \in {"off", "gone"}
    /\ \A w \in Workers : worker[w] \in {"off", "gone"}

(* A check that a shutdown cut short never becomes the state of a service  *)
(* (services_test.go: canceled checks must not persist Critical).          *)
AbortedNeverKept == \A s \in Svcs : state[s] # Aborted

(* Whenever the checker waits for its next event, and the context has not  *)
(* ended, the website has been sent every change of state so far. A        *)
(* trigger of type "log" is the exception: its run has no such caller.     *)
ChangesReported == checker \in {"loop", "reply"} /\ ~cancelled => unsent = {}

(* No state changes after a Stop that did the work has returned: neither a *)
(* late worker nor a late answer of the website to Start.                  *)
StatesSettleAtStop ==
  [][(\E p \in Stoppers : stopper[p] = "finished") => UNCHANGED state]_vars

(* Who waits for an answer of Running, and the questions not yet read.     *)
Waiters == {c \in Callers : caller[c] = "await"}
Asked == {i \in DOMAIN actionChan : actionChan[i] = "running"}

(* While the checker lives, each caller that waits in Running has exactly  *)
(* one question or one answer under way: the checker cannot be stuck on a  *)
(* full replyChan, nor a caller be left without an answer.                 *)
RepliesMatchWaiters ==
  ~stopped => Cardinality(Waiters)
              = Len(replyChan) + Cardinality(Asked) + (IF checker = "reply" THEN 1 ELSE 0)

(* A caller whose Pause was accepted, and that nobody's Resume followed,   *)
(* is told by Running that the checks do not run (services_test.go,        *)
(* TestDisabledCheckerLifecycle).                                          *)
PauseIsObserved ==
  [][\A c \in pausedBy :
       caller[c] = "await" /\ caller'[c] = "idle" /\ ~stopped => ~answer'[c]]_vars

(* The services under check: queued, or in the hands of a worker.          *)
Checking == {s \in Svcs : \/ \E i \in 1 .. Len(checks) : checks[i] = s
                          \/ \E w \in Workers : worker[w] \in Busy /\ job[w] = s}

Phase == IF stopped THEN "closed" ELSE IF checker = "off" THEN "off" ELSE "open"

Promise == INSTANCE CheckLifecycle WITH phase <- Phase, checking <- Checking

(* The pool, its channels and its shutdown implement the promise made in   *)
(* CheckLifecycle: no service has two checks, no state changes outside a   *)
(* check, none is under way when the checker closes, none begins after.    *)
KeepsPromise == Promise!Spec

(* Stop returns, whatever the checker, its workers and the callers do.     *)
StopReturns ==
  \A p \in Stoppers : stopper[p] \in {"cancel", "wait"} ~> stopper[p] = "finished"

(* Every call of an exported method returns, a concurrent Stop or not.     *)
CallsReturn == \A c \in Callers : caller[c] # "idle" ~> caller[c] = "idle"

(* A check or trigger that was accepted is served, unless the checker      *)
(* stops first.                                                            *)
EventsAreServed ==
  /\ checkChan # <<>> ~> checkChan = <<>> \/ stopped
  /\ triggerChan # <<>> ~> triggerChan = <<>> \/ stopped
=============================================================================
