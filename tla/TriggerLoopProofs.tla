-------------------------- MODULE TriggerLoopProofs --------------------------
(***************************************************************************)
(* Proofs about TriggerLoop, for any actions, callers, channel capacity    *)
(* and number of starts.                                                   *)
(***************************************************************************)
EXTENDS TriggerLoop, TLAPS

(* A restart is begun below the bound only.                                *)
BoundInv ==
  stopper[Watcher].at \in {"stop", "send", "wait", "clear", "context", "runners", "stopped"}
    => gen < Starts

(* While the process runs: the generations before this one are gone, the   *)
(* ones after it have not begun, and of this one everything is there until *)
(* its loop has closed it.                                                 *)
GenInv ==
  /\ \A g \in Gens : g < gen => loop[g] = "done"
  /\ \A g \in Gens : g > gen => loop[g] = "none"
  /\ \A g \in open \cup ticking : g = gen
  /\ loop[gen] \in {"closed", "done"} => gen \notin open \cup ticking
  /\ \A j \in job : j[2] = gen
  /\ job # {} => loop[gen] \in {"select", "acting", "stopping", "closing"}
  /\ \A g \in Gens : doing[g] # Nothing => loop[g] = "acting"
  /\ \A g \in Gens : loop[g] = "closing" /\ Waiting(g) => gaveUp

(* The context is handed over once for each loop, so that one goroutine at *)
(* most gets beyond Stop.                                                  *)
ContextInv ==
  /\ shared = "empty" <=> loop[gen] = "closed"
  /\ shared = "full" => loop[gen] = "done"
  /\ \A s \in Stoppers : stopper[s].at \in Behind => loop[gen] = "done" /\ shared = "closed"
  /\ stopper[Watcher].at = "created" => loop[gen] = "none" /\ shared = "closed"
  /\ ~(stopper[Watcher].at \in Behind /\ stopper[Main].at \in Behind)
  /\ stopper[Main].at # "created" /\ \A s \in Stoppers : stopper[s].at # "dead"
  /\ overlap => stopper[Main].at # "idle"
  /\ \A s \in Stoppers : stopper[s].at = "send" => stopper[s].on \in Gens

(* The loop runs and can be stopped.                                       *)
Runs == loop[gen] \in {"select", "acting"} /\ stop = gen /\ gen \notin stopClosed

(* What a goroutine that stops the loop alone finds at each place.         *)
Stage(s) ==
  /\ stopper[s].at \in {"stop", "send"} => Runs
  /\ stopper[s].at \in {"send", "wait"} => stopper[s].on = gen
  /\ stopper[s].at = "wait" =>
       \/ loop[gen] \in {"stopping", "closing", "closed"} /\ stop = gen /\ gen \notin stopClosed
       \/ loop[gen] = "done" /\ shared = "full"
  /\ stopper[s].at \in {"clear", "context"} => loop[gen] = "done" /\ shared = "full"
  /\ stopper[s].at \in Behind \cup {"context", "created"} => stop = 0
  /\ stopper[s].at = "created" => gen \notin stopClosed

Idle(s) == stopper[s].at = "idle"

SoleInv ==
  ~overlap =>
    /\ Idle(Watcher) \/ Idle(Main)
    /\ Stage(Watcher) /\ Stage(Main)
    /\ Idle(Watcher) /\ Idle(Main) => Runs

LiveInv == crashed = "no" => GenInv /\ ContextInv /\ SoleInv

(* A crash has a cause and leaves no goroutine.                            *)
DeadInv ==
  crashed # "no" =>
    /\ gaveUp \/ overlap \/ crashed = "files"
    /\ \A g \in Gens : loop[g] = "dead"
    /\ \A s \in Stoppers : stopper[s].at = "dead"
    /\ \A c \in Callers : caller[c].at = "dead"
    /\ job = {}

IInv == TypeOK /\ BoundInv /\ LiveInv /\ DeadInv

-----------------------------------------------------------------------------
LEMMA GensFact == 1 \in Gens /\ Gens \subseteq Nat /\ Starts \in Nat /\ ChanCap \in Nat
BY TriggerAssumption DEF Gens

LEMMA TypeInit == Init => TypeOK
<1>. SUFFICES ASSUME Init PROVE TypeOK
  OBVIOUS
<1>1. StartTypes
  BY GensFact DEF Init, StartTypes
<1>2. ChanTypes
  BY GensFact DEF Init, ChanTypes
<1>3. LoopTypes
  BY DEF Init, LoopTypes, LoopPlaces
<1>4. StopTypes /\ CallerTypes
  BY GensFact DEF Init, StopTypes, CallerTypes, StopPlaces
<1>5. GhostTypes
  BY DEF Init, GhostTypes
<1>. QED BY <1>1, <1>2, <1>3, <1>4, <1>5 DEF TypeOK

(* What a step leaves alone keeps its type.                                *)
LEMMA TypeFrame ==
  /\ StartTypes /\ UNCHANGED startVars => StartTypes'
  /\ ChanTypes /\ UNCHANGED <<gen, chanVars>> => ChanTypes'
  /\ LoopTypes /\ UNCHANGED loopVars => LoopTypes'
  /\ StopTypes /\ UNCHANGED <<gen, stopVars>> => StopTypes'
  /\ CallerTypes /\ UNCHANGED caller => CallerTypes'
  /\ GhostTypes /\ UNCHANGED <<ghostVars, crashed>> => GhostTypes'
<1>1. StartTypes /\ UNCHANGED startVars => StartTypes'
  BY DEF StartTypes, startVars
<1>2. ChanTypes /\ UNCHANGED <<gen, chanVars>> => ChanTypes'
  BY DEF ChanTypes, chanVars
<1>3. LoopTypes /\ UNCHANGED loopVars => LoopTypes'
  BY DEF LoopTypes, loopVars
<1>4. StopTypes /\ UNCHANGED <<gen, stopVars>> => StopTypes'
  BY DEF StopTypes, stopVars
<1>5. CallerTypes /\ UNCHANGED caller => CallerTypes'
  BY DEF CallerTypes
<1>6. GhostTypes /\ UNCHANGED <<ghostVars, crashed>> => GhostTypes'
  BY DEF GhostTypes, ghostVars
<1>. QED BY <1>1, <1>2, <1>3, <1>4, <1>5, <1>6

(* A move keeps the type of the stoppers.                                  *)
LEMMA MoveType ==
  ASSUME StopTypes, NEW s \in Stoppers, NEW at \in StopPlaces, Move(s, at),
         stopClosed' \subseteq 1 .. gen', shared' \in {"nil", "empty", "full", "closed"}
  PROVE  StopTypes'
BY DEF StopTypes, Move

LEMMA CrashType == ASSUME TypeOK, NEW why \in {"no loop", "files", "panic"}, Crash(why) PROVE TypeOK'
<1>1. StartTypes'
  BY TypeFrame DEF TypeOK, Crash
<1>2. ChanTypes'
  BY DEF TypeOK, Crash, ChanTypes, startVars
<1>3. LoopTypes'
  BY DEF TypeOK, Crash, LoopTypes, LoopPlaces
<1>4. StopTypes'
  BY DEF TypeOK, Crash, StopTypes, StopPlaces, startVars
<1>5. CallerTypes'
  BY DEF TypeOK, Crash, CallerTypes
<1>6. GhostTypes'
  BY DEF TypeOK, Crash, GhostTypes, ghostVars
<1>. QED BY <1>1, <1>2, <1>3, <1>4, <1>5, <1>6 DEF TypeOK

(* A place more or less in a channel.                                      *)
LEMMA PutType ==
  ASSUME ChanTypes, NEW a \in Actions, NEW g \in Gens, Put(a, g), HasRoom(a, g)
  PROVE  buffered' \in [Actions -> [Gens -> 0 .. ChanCap]]
<1>1. buffered[a] \in [Gens -> 0 .. ChanCap]
  BY DEF ChanTypes
<1>2. buffered[a][g] + 1 \in 0 .. ChanCap
  BY <1>1, GensFact DEF HasRoom
<1>. DEFINE Row == [buffered[a] EXCEPT ![g] = @ + 1]
<1>3. Row \in [Gens -> 0 .. ChanCap]
  BY <1>1, <1>2
<1>4. buffered' = [buffered EXCEPT ![a] = Row]
  BY DEF Put
<1>. HIDE DEF Row
<1>. QED BY <1>3, <1>4 DEF ChanTypes

(* Steps of a caller.                                                      *)
LEMMA CallerType ==
  ASSUME TypeOK, NEW c \in Callers, CallerStep(c)
  PROVE  TypeOK'
<1>1. ASSUME NEW a \in Actions, ExecCheck(c, a) PROVE TypeOK'
  <2>1. <<a, list>> \in (Actions \cup {Nothing}) \X (0 .. Starts)
    BY GensFact DEF TypeOK, StartTypes, Gens
  <2>2. CallerTypes'
    BY <1>1, <2>1 DEF ExecCheck, TypeOK, CallerTypes
  <2>. QED BY <1>1, <2>2, TypeFrame DEF ExecCheck, TypeOK, startVars
<1>2. CASE ExecRead(c)
  <2>1. CallerTypes'
    BY <1>2 DEF ExecRead, TypeOK, CallerTypes
  <2>. QED BY <1>2, <2>1, TypeFrame DEF ExecRead, TypeOK, startVars
<1>3. CASE RunTimer(c)
  <2>1. PICK i \in 1 .. Len(timers) :
          caller' = [caller EXCEPT ![c] = [at |-> "send", on |-> <<Custom, timers[i]>>]]
    BY <1>3 DEF RunTimer
  <2>2. timers[i] \in 0 .. Starts
    BY GensFact DEF TypeOK, StartTypes, Gens
  <2>3. CallerTypes'
    BY <2>1, <2>2, TriggerAssumption DEF TypeOK, CallerTypes
  <2>. QED BY <1>3, <2>3, TypeFrame DEF RunTimer, TypeOK, startVars
<1>4. CASE CallerSend(c)
  <2>. DEFINE a == caller[c].on[1]
              g == caller[c].on[2]
  <2>1. CallerTypes'
    BY <1>4, GensFact DEF CallerSend, TypeOK, CallerTypes
  <2>2. buffered' \in [Actions -> [Gens -> 0 .. ChanCap]]
    <3>1. CASE UNCHANGED buffered
      BY <3>1 DEF TypeOK, ChanTypes
    <3>2. CASE g \in open /\ HasRoom(a, g) /\ Put(a, g)
      <4>1. buffered' = [buffered EXCEPT ![a] = [buffered[a] EXCEPT ![g] = buffered[a][g] + 1]]
        BY <3>2 DEF Put
      <4>0. \A h \in open : h \in Gens
        BY GensFact DEF TypeOK, ChanTypes, StartTypes, Gens
      <4>2. g \in Gens
        BY <3>2, <4>0
      <4>3. CASE a \in Actions
        <5>. HIDE DEF a, g
        <5>. QED BY <3>2, <4>2, <4>3, PutType DEF TypeOK
      <4>4. CASE a \notin Actions
        <5>. HIDE DEF a, g
        <5>. QED BY <4>1, <4>4 DEF TypeOK, ChanTypes
      <4>. QED BY <4>3, <4>4
    <3>. QED BY <1>4, <3>1, <3>2 DEF CallerSend
  <2>3. ChanTypes'
    BY <1>4, <2>2 DEF CallerSend, TypeOK, ChanTypes, startVars
  <2>. QED BY <1>4, <2>1, <2>3, TypeFrame DEF CallerSend, TypeOK, startVars
<1>. QED BY <1>1, <1>2, <1>3, <1>4 DEF CallerStep

(* Steps of a loop, its tickers and its jobs.                              *)
LEMMA LoopType ==
  ASSUME TypeOK, NEW g \in Gens, LoopStep(g)
  PROVE  TypeOK'
<1>1. ASSUME NEW a \in Actions, Receive(a, g) PROVE TypeOK'
  <2>1. ChanTypes'
    <3>. DEFINE Row == [buffered[a] EXCEPT ![g] = @ - 1]
    <3>1. buffered[a] \in [Gens -> 0 .. ChanCap] /\ buffered[a][g] > 0
      BY <1>1 DEF Receive, TypeOK, ChanTypes
    <3>2. Row \in [Gens -> 0 .. ChanCap]
      BY <3>1, GensFact
    <3>3. buffered' = [buffered EXCEPT ![a] = Row]
      BY <1>1 DEF Receive
    <3>. HIDE DEF Row
    <3>. QED BY <1>1, <3>2, <3>3 DEF Receive, TypeOK, ChanTypes, startVars
  <2>2. LoopTypes'
    BY <1>1 DEF Receive, Begin, TypeOK, LoopTypes, LoopPlaces
  <2>. QED BY <1>1, <2>1, <2>2, TypeFrame DEF Receive, TypeOK, startVars
<1>2. ASSUME NEW a \in Actions, Tick(a, g) PROVE TypeOK'
  <2>1. LoopTypes'
    BY <1>2 DEF Tick, Begin, TypeOK, LoopTypes, LoopPlaces
  <2>. QED BY <1>2, <2>1, TypeFrame DEF Tick, TypeOK, startVars
<1>3. ASSUME NEW a \in Actions, JobFire(a, g) PROVE TypeOK'
  <2>1. ChanTypes'
    BY <1>3 DEF JobFire, TypeOK, ChanTypes, startVars
  <2>. QED BY <1>3, <2>1, TypeFrame DEF JobFire, TypeOK, startVars
<1>4. ASSUME NEW a \in Actions, JobSend(a, g) PROVE TypeOK'
  <2>1. buffered' \in [Actions -> [Gens -> 0 .. ChanCap]]
    BY <1>4, PutType DEF JobSend, TypeOK
  <2>2. ChanTypes'
    BY <1>4, <2>1 DEF JobSend, TypeOK, ChanTypes, startVars
  <2>. QED BY <1>4, <2>2, TypeFrame DEF JobSend, TypeOK, startVars
<1>5. CASE Finish(g)
  <2>1. LoopTypes'
    BY <1>5 DEF Finish, TypeOK, LoopTypes, LoopPlaces
  <2>. QED BY <1>5, <2>1, TypeFrame DEF Finish, TypeOK, startVars
<1>6. CASE StopJobs(g)
  <2>1. LoopTypes'
    BY <1>6 DEF StopJobs, TypeOK, LoopTypes, LoopPlaces
  <2>2. GhostTypes'
    BY <1>6 DEF StopJobs, TypeOK, GhostTypes
  <2>. QED BY <1>6, <2>1, <2>2, TypeFrame DEF StopJobs, TypeOK, startVars
<1>7. CASE CloseAll(g)
  <2>1. CASE Waiting(g)
    BY <1>7, <2>1, CrashType DEF CloseAll
  <2>2. CASE ~Waiting(g)
    <3>1. LoopTypes'
      BY <1>7, <2>2 DEF CloseAll, TypeOK, LoopTypes, LoopPlaces
    <3>2. ChanTypes'
      BY <1>7, <2>2 DEF CloseAll, TypeOK, ChanTypes, startVars
    <3>3. StopTypes'
      BY <1>7, <2>2 DEF CloseAll, TypeOK, StopTypes, startVars
    <3>. QED BY <1>7, <2>2, <3>1, <3>2, <3>3, TypeFrame DEF CloseAll, TypeOK
  <2>. QED BY <2>1, <2>2
<1>8. CASE Signal(g)
  <2>1. CASE stop = 0 \/ stop \in stopClosed \/ shared = "closed"
    BY <1>8, <2>1, CrashType DEF Signal
  <2>2. CASE ~(stop = 0 \/ stop \in stopClosed \/ shared = "closed")
    <3>1. LoopTypes'
      BY <1>8, <2>2 DEF Signal, TypeOK, LoopTypes, LoopPlaces
    <3>0. stop \in 1 .. gen
      BY <2>2, GensFact DEF TypeOK, StartTypes, Gens
    <3>2. StopTypes'
      BY <1>8, <2>2, <3>0 DEF Signal, Handed, TypeOK, StopTypes, startVars
    <3>. QED BY <1>8, <2>2, <3>1, <3>2, TypeFrame DEF Signal, TypeOK, startVars
  <2>. QED BY <2>1, <2>2
<1>. QED BY <1>1, <1>2, <1>3, <1>4, <1>5, <1>6, <1>7, <1>8 DEF LoopStep

(* Steps of the goroutines that stop and start.                            *)
LEMMA StopperType ==
  ASSUME TypeOK, NEW s \in Stoppers, StopperStep(s)
  PROVE  TypeOK'
<1>1. CASE StopCheck(s)
  <2>1. CASE stop = 0
    BY <1>1, <2>1, CrashType DEF StopCheck
  <2>2. CASE stop # 0
    <3>1. stop \in 0 .. Starts
      BY GensFact DEF TypeOK, StartTypes, Gens
    <3>. DEFINE place == [at |-> "send", on |-> stop]
    <3>2. place \in [at : StopPlaces, on : 0 .. Starts]
      BY <3>1 DEF StopPlaces
    <3>3. stopper' = [stopper EXCEPT ![s] = place]
      BY <1>1, <2>2 DEF StopCheck
    <3>4. UNCHANGED <<startVars, chanVars, loopVars, stopClosed, shared, caller, ghostVars, crashed>>
      BY <1>1, <2>2 DEF StopCheck
    <3>. HIDE DEF place
    <3>5. StopTypes'
      BY <3>2, <3>3, <3>4 DEF TypeOK, StopTypes, startVars
    <3>. QED BY <3>4, <3>5, TypeFrame DEF TypeOK, startVars
  <2>. QED BY <2>1, <2>2
<1>2. CASE SendStop(s)
  <2>1. LoopTypes'
    BY <1>2 DEF SendStop, TypeOK, LoopTypes, LoopPlaces
  <2>2. StopTypes'
    BY <1>2, MoveType DEF SendStop, StopPlaces, TypeOK, StopTypes, startVars
  <2>. QED BY <1>2, <2>1, <2>2, TypeFrame DEF SendStop, TypeOK, startVars
<1>3. CASE SendClosed(s)
  BY <1>3, CrashType DEF SendClosed
<1>4. CASE Wait(s)
  <2>1. StopTypes'
    BY <1>4, MoveType DEF Wait, StopPlaces, TypeOK, StopTypes, startVars
  <2>. QED BY <1>4, <2>1, TypeFrame DEF Wait, TypeOK, startVars
<1>5. CASE Clear(s)
  <2>1. StopTypes'
    BY <1>5, MoveType DEF Clear, StopPlaces, TypeOK, StopTypes
  <2>2. StartTypes'
    BY <1>5, GensFact DEF Clear, NoLoop, TypeOK, StartTypes, Gens
  <2>. QED BY <1>5, <2>1, <2>2, TypeFrame DEF Clear, TypeOK
<1>6. CASE TakeContext(s)
  <2>1. CASE Crash("panic")
    BY <2>1, CrashType
  <2>2. CASE ~Crash("panic")
    <3>1. StopTypes'
      BY <1>6, <2>2, MoveType DEF TakeContext, StopPlaces, Behind, TypeOK, StopTypes, startVars
    <3>. QED BY <1>6, <2>2, <3>1, TypeFrame DEF TakeContext, TypeOK, startVars
  <2>. QED BY <2>1, <2>2
<1>8. CASE StopRunners(s)
  <2>1. CASE Crash("files")
    BY <2>1, CrashType
  <2>2. CASE ~Crash("files")
    <3>1. StopTypes'
      BY <1>8, <2>2, MoveType DEF StopRunners, StopPlaces, Behind, TypeOK, StopTypes, startVars
    <3>. QED BY <1>8, <2>2, <3>1, TypeFrame DEF StopRunners, TypeOK, startVars
  <2>. QED BY <2>1, <2>2
<1>7. ASSUME NEW t \in Stoppers, SendAstray(s, t) PROVE TypeOK'
  <2>1. StopTypes'
    BY <1>7 DEF SendAstray, TypeOK, StopTypes, StopPlaces, startVars
  <2>. QED BY <1>7, <2>1, TypeFrame DEF SendAstray, TypeOK, startVars
<1>. QED BY <1>1, <1>2, <1>3, <1>4, <1>5, <1>6, <1>7, <1>8 DEF StopperStep

LEMMA SeqWiden == ASSUME NEW S, NEW T, S \subseteq T, NEW q \in Seq(S) PROVE q \in Seq(T)
<1>1. q \in [1 .. Len(q) -> S] /\ Len(q) \in Nat
  OBVIOUS
<1>2. q \in [1 .. Len(q) -> T]
  BY <1>1
<1>. QED BY <1>1, <1>2

LEMMA TypeStep == ASSUME TypeOK, BoundInv, [Next]_vars PROVE TypeOK'
<1>0. Watcher \in Stoppers /\ Main \in Stoppers
  BY DEF Stoppers
<1>1. CASE Reconfigure
  <2>1. StopTypes'
    BY <1>0, <1>1, MoveType DEF Reconfigure, StopPlaces, TypeOK, StopTypes, startVars
  <2>2. GhostTypes'
    BY <1>1 DEF Reconfigure, TypeOK, GhostTypes
  <2>. QED BY <1>1, <2>1, <2>2, TypeFrame DEF Reconfigure, TypeOK, startVars
<1>2. CASE Reload
  <2>1. StopTypes'
    BY <1>0, <1>2, MoveType DEF Reload, StopPlaces, TypeOK, StopTypes, startVars
  <2>2. GhostTypes'
    BY <1>2 DEF Reload, TypeOK, GhostTypes
  <2>. QED BY <1>2, <2>1, <2>2, TypeFrame DEF Reload, TypeOK, startVars
<1>3. CASE Create
  <2>0. gen' = gen + 1 /\ gen \in Nat /\ gen' \in Gens
    BY <1>3, GensFact DEF Create, TypeOK, StartTypes, Gens, BoundInv
  <2>a. 1 .. gen \subseteq 1 .. gen' /\ gen' \in 1 .. gen'
    BY <2>0
  <2>1. StopTypes'
    <3>1. stopClosed' \subseteq 1 .. gen' /\ shared' \in {"nil", "empty", "full", "closed"}
      BY <1>3, <2>a DEF Create, TypeOK, StopTypes
    <3>. QED BY <1>0, <1>3, <3>1, MoveType DEF Create, StopPlaces, TypeOK
  <2>2. StartTypes'
    <3>1. timers \in Seq(1 .. gen')
      BY <2>a, SeqWiden DEF TypeOK, StartTypes
    <3>2. timers' = Append(timers, gen')
      BY <1>3 DEF Create
    <3>3. timers' \in Seq(1 .. gen')
      BY <2>a, <3>1, <3>2
    <3>4. stop' \in 0 .. gen' /\ list' \in 0 .. gen' /\ gen' \in Nat
      BY <1>3, <2>0 DEF Create, TypeOK, StartTypes
    <3>. QED BY <2>0, <3>3, <3>4 DEF StartTypes
  <2>3. ChanTypes'
    BY <1>3, <2>0, <2>a DEF Create, TypeOK, ChanTypes
  <2>. QED BY <1>3, <2>1, <2>2, <2>3, TypeFrame DEF Create, TypeOK
<1>4. CASE Run
  <2>1. CASE stop # 0
    BY <1>4, <2>1, CrashType DEF Run
  <2>2. CASE stop = 0
    <3>1. StopTypes'
      BY <1>0, <1>4, <2>2, MoveType DEF Run, StopPlaces, TypeOK, StopTypes
    <3>2. LoopTypes'
      BY <1>4, <2>2 DEF Run, TypeOK, LoopTypes, LoopPlaces
    <3>3. StartTypes'
      BY <1>4, <2>2, GensFact DEF Run, TypeOK, StartTypes
    <3>. QED BY <1>4, <2>2, <3>1, <3>2, <3>3, TypeFrame DEF Run, TypeOK
  <2>. QED BY <2>1, <2>2
<1>5. CASE UNCHANGED vars
  BY <1>5, TypeFrame DEF vars, startVars, TypeOK
<1>. QED BY <1>1, <1>2, <1>3, <1>4, <1>5, CallerType, LoopType, StopperType DEF Next
-----------------------------------------------------------------------------
(* What the types say, for the steps below.                                *)
LEMMA TypeFacts ==
  ASSUME TypeOK
  PROVE  /\ gen \in Gens /\ gen \in Nat \ {0} /\ stop \in 0 .. gen
         /\ stopClosed \subseteq 1 .. gen /\ open \subseteq 1 .. gen /\ ticking \subseteq 1 .. gen
         /\ job \subseteq Scheduled \X Gens
         /\ loop \in [Gens -> LoopPlaces] /\ doing \in [Gens -> Actions \cup {Nothing}]
         /\ stopper \in [Stoppers -> [at : StopPlaces, on : 0 .. Starts]]
BY GensFact DEF TypeOK, StartTypes, ChanTypes, LoopTypes, StopTypes, Gens

LEMMA BoundStep == ASSUME TypeOK, BoundInv, [Next]_vars PROVE BoundInv'
<1>. Watcher \in Stoppers /\ Main \in Stoppers /\ Watcher # Main
  BY TriggerAssumption DEF Stoppers
<1>0. ASSUME UNCHANGED <<gen, stopper>> PROVE BoundInv'
  BY <1>0 DEF BoundInv
<1>1. ASSUME NEW why, Crash(why) PROVE BoundInv'
  BY <1>1, TypeFacts DEF Crash, BoundInv
<1>2. ASSUME NEW c \in Callers, CallerStep(c) PROVE BoundInv'
  BY <1>0, <1>2 DEF CallerStep, ExecCheck, ExecRead, RunTimer, CallerSend, startVars, stopVars
<1>3. ASSUME NEW g \in Gens, LoopStep(g) PROVE BoundInv'
  <2>1. CASE CloseAll(g) \/ Signal(g)
    BY <1>0, <1>1, <2>1 DEF CloseAll, Signal, startVars
  <2>. QED BY <1>0, <1>3, <2>1
         DEF LoopStep, Receive, Tick, JobFire, JobSend, Finish, StopJobs, startVars, stopVars
<1>4. ASSUME NEW s \in Stoppers, StopperStep(s) PROVE BoundInv'
  <2>1. ASSUME NEW t \in Stoppers, SendAstray(s, t) PROVE BoundInv'
    BY <2>1, TypeFacts DEF SendAstray, BoundInv, startVars
  <2>2. CASE StopCheck(s)
    BY <1>1, <2>2, TypeFacts DEF StopCheck, BoundInv, startVars
  <2>3. CASE SendStop(s) \/ Wait(s) \/ Clear(s)
    BY <2>3, TypeFacts DEF SendStop, Wait, Clear, Move, BoundInv, startVars
  <2>4. CASE TakeContext(s) \/ SendClosed(s)
    BY <1>1, <2>4, TypeFacts DEF TakeContext, SendClosed, Move, BoundInv, startVars
  <2>5. CASE StopRunners(s)
    BY <1>1, <2>5, TypeFacts DEF StopRunners, Move, BoundInv, startVars
  <2>. QED BY <1>4, <2>1, <2>2, <2>3, <2>4, <2>5 DEF StopperStep
<1>5. CASE Reconfigure \/ Reload \/ Create
  BY <1>5, TypeFacts DEF Reconfigure, Reload, Create, Move, BoundInv, startVars
<1>6. CASE Run
  BY <1>1, <1>6, TypeFacts DEF Run, Move, BoundInv
<1>7. CASE UNCHANGED vars
  BY <1>0, <1>7 DEF vars, startVars, stopVars
<1>. QED BY <1>2, <1>3, <1>4, <1>5, <1>6, <1>7 DEF Next

(* Once the process has crashed nothing happens.                           *)
LEMMA NothingAfter == ASSUME DeadInv, crashed # "no", Next PROVE FALSE
<1>. Watcher \in Stoppers /\ Main \in Stoppers
  BY DEF Stoppers
<1>1. ASSUME NEW c \in Callers, CallerStep(c) PROVE FALSE
  BY <1>1 DEF DeadInv, CallerStep, ExecCheck, ExecRead, RunTimer, CallerSend
<1>2. ASSUME NEW g \in Gens, LoopStep(g) PROVE FALSE
  BY <1>2 DEF DeadInv, LoopStep, Receive, Tick, Begin, JobFire, JobSend, Finish, StopJobs,
              CloseAll, Signal, AllClosed
<1>3. ASSUME NEW s \in Stoppers, StopperStep(s) PROVE FALSE
  BY <1>3 DEF DeadInv, StopperStep, StopCheck, SendStop, SendClosed, Wait, Clear, TakeContext,
              StopRunners, SendAstray
<1>4. CASE Reconfigure \/ Reload \/ Create \/ Run
  BY <1>4 DEF DeadInv, Reconfigure, Reload, Create, Run
<1>. QED BY <1>1, <1>2, <1>3, <1>4 DEF Next

(* A crash with a cause.                                                   *)
LEMMA CrashStep ==
  ASSUME TypeOK, NEW why \in {"no loop", "files", "panic"}, Crash(why),
         gaveUp \/ overlap \/ why = "files"
  PROVE  LiveInv' /\ DeadInv'
<1>1. crashed' # "no" /\ job' = {} /\ (gaveUp' \/ overlap' \/ crashed' = "files")
  BY DEF Crash, ghostVars
<1>2. \A g \in Gens : loop'[g] = "dead"
  BY DEF Crash
<1>3. \A s \in Stoppers : stopper'[s].at = "dead"
  BY TypeFacts DEF Crash
<1>4. \A c \in Callers : caller'[c].at = "dead"
  BY DEF Crash, TypeOK, CallerTypes
<1>. QED BY <1>1, <1>2, <1>3, <1>4 DEF LiveInv, DeadInv

(* The steps while the process runs.                                       *)
Live == GenInv /\ ContextInv /\ SoleInv

LEMMA LiveFrame ==
  ASSUME Live, UNCHANGED <<gen, stop, open, ticking, job, loop, doing, stopClosed, shared,
                           stopper, gaveUp, overlap>>
  PROVE  Live'
BY DEF Live, GenInv, ContextInv, SoleInv, Stage, Runs, Idle, Waiting

(* The loop that does anything is that of this generation.                 *)
LEMMA Current ==
  ASSUME TypeOK, GenInv, NEW g \in Gens, loop[g] \notin {"none", "done"}
  PROVE  g = gen
BY TypeFacts DEF GenInv, Gens

(* Between two actions of the loop.                                        *)
LEMMA LoopTurn ==
  ASSUME TypeOK, Live, NEW g \in Gens, loop[g] \in {"select", "acting"},
         NEW place \in {"select", "acting"}, NEW a \in Actions \cup {Nothing},
         place = "select" => a = Nothing,
         loop' = [loop EXCEPT ![g] = place], doing' = [doing EXCEPT ![g] = a],
         UNCHANGED <<gen, stop, open, ticking, job, stopClosed, shared, stopper, gaveUp, overlap>>
  PROVE  Live'
<1>1. g = gen /\ loop'[gen] \in {"select", "acting"}
  BY Current, TypeFacts DEF Live
<1>2. \A h \in Gens : h # gen => loop'[h] = loop[h] /\ doing'[h] = doing[h]
  BY <1>1, TypeFacts
<1>3. doing'[gen] # Nothing => loop'[gen] = "acting"
  BY <1>1, TypeFacts
<1>4. GenInv'
  BY <1>1, <1>2, <1>3, TypeFacts DEF Live, GenInv, Waiting
<1>5. ContextInv'
  BY <1>1, TypeFacts DEF Live, ContextInv
<1>6. SoleInv'
  BY <1>1, TypeFacts DEF Live, SoleInv, Stage, Runs, Idle
<1>. QED BY <1>4, <1>5, <1>6 DEF Live

LEMMA LoopLive ==
  ASSUME TypeOK, Live, crashed = "no", NEW g \in Gens, LoopStep(g)
  PROVE  (crashed' = "no" /\ Live') \/ (LiveInv' /\ DeadInv')
<1>1. CASE \E a \in Actions : Receive(a, g) \/ Tick(a, g)
  <2>1. PICK a \in Actions : Receive(a, g) \/ Tick(a, g)
    BY <1>1
  <2>2. /\ loop[g] \in {"select", "acting"}
        /\ loop' = [loop EXCEPT ![g] = "acting"]
        /\ doing' = [doing EXCEPT ![g] = a]
        /\ UNCHANGED <<gen, stop, open, ticking, job, stopClosed, shared, stopper, gaveUp, overlap, crashed>>
    BY <2>1 DEF Receive, Tick, Begin, startVars, stopVars, chanVars, ghostVars
  <2>3. Live'
    BY <2>2, LoopTurn
  <2>. QED BY <2>2, <2>3
<1>2. CASE Finish(g)
  <2>1. /\ loop[g] \in {"select", "acting"}
        /\ loop' = [loop EXCEPT ![g] = "select"]
        /\ doing' = [doing EXCEPT ![g] = Nothing]
        /\ UNCHANGED <<gen, stop, open, ticking, job, stopClosed, shared, stopper, gaveUp, overlap, crashed>>
    BY <1>2 DEF Finish, startVars, stopVars, chanVars, ghostVars
  <2>2. Live'
    BY <2>1, LoopTurn
  <2>. QED BY <2>1, <2>2
<1>3. CASE \E a \in Actions : JobFire(a, g)
  <2>1. PICK a \in Actions : JobFire(a, g)
    BY <1>3
  <2>2. /\ g = gen /\ loop[gen] \in {"select", "acting"} /\ job' = job \cup {<<a, gen>>}
        /\ UNCHANGED <<gen, stop, open, ticking, loop, doing, stopClosed, shared, stopper, gaveUp, overlap, crashed>>
    BY <2>1, Current DEF JobFire, Live, startVars, loopVars, stopVars, ghostVars
  <2>3. GenInv'
    BY <2>2 DEF Live, GenInv, Waiting
  <2>4. ContextInv' /\ SoleInv'
    BY <2>2 DEF Live, ContextInv, SoleInv, Stage, Runs, Idle
  <2>. QED BY <2>2, <2>3, <2>4 DEF Live
<1>4. CASE \E a \in Actions : JobSend(a, g)
  <2>1. PICK a \in Actions : JobSend(a, g)
    BY <1>4
  <2>2. /\ job' \subseteq job
        /\ UNCHANGED <<gen, stop, open, ticking, loop, doing, stopClosed, shared, stopper, gaveUp, overlap, crashed>>
    BY <2>1 DEF JobSend, Live, startVars, loopVars, stopVars, ghostVars
  <2>3. GenInv'
    BY <2>2 DEF Live, GenInv, Waiting
  <2>4. ContextInv' /\ SoleInv'
    BY <2>2 DEF Live, ContextInv, SoleInv, Stage, Runs, Idle
  <2>. QED BY <2>2, <2>3, <2>4 DEF Live
<1>5. CASE StopJobs(g)
  <2>1. /\ g = gen /\ loop[gen] = "stopping" /\ loop' = [loop EXCEPT ![gen] = "closing"]
        /\ gaveUp' = (gaveUp \/ Waiting(gen))
        /\ UNCHANGED <<gen, stop, open, ticking, job, doing, stopClosed, shared, stopper, overlap, crashed>>
    BY <1>5, Current DEF StopJobs, Live, startVars, chanVars, stopVars
  <2>2. loop'[gen] = "closing" /\ \A h \in Gens : h # gen => loop'[h] = loop[h]
    BY <2>1, TypeFacts
  <2>3. GenInv'
    <3>1. \A h \in Gens : loop'[h] = "closing" => h = gen
      BY <2>2, TypeFacts DEF Live, GenInv, Gens
    <3>2. \A h \in Gens : loop'[h] = "closing" /\ Waiting(h)' => gaveUp'
      BY <2>1, <3>1 DEF Waiting
    <3>3. \A h \in Gens : doing'[h] # Nothing => loop'[h] = "acting"
      BY <2>1, <2>2, TypeFacts DEF Live, GenInv
    <3>. QED BY <2>1, <2>2, <3>2, <3>3, TypeFacts DEF Live, GenInv
  <2>4. ContextInv'
    BY <2>1, <2>2, TypeFacts DEF Live, ContextInv
  <2>5. SoleInv'
    BY <2>1, <2>2, TypeFacts DEF Live, SoleInv, Stage, Runs, Idle
  <2>. QED BY <2>1, <2>3, <2>4, <2>5 DEF Live
<1>6. CASE CloseAll(g)
  <2>1. g = gen /\ loop[gen] = "closing"
    BY <1>6, Current DEF CloseAll, Live
  <2>2. CASE Waiting(g)
    <3>1. gaveUp
      BY <2>1, <2>2 DEF Live, GenInv
    <3>. QED BY <1>6, <2>2, <3>1, CrashStep DEF CloseAll
  <2>3. CASE ~Waiting(g)
    <3>1. /\ shared' = "empty" /\ open' = open \ {gen} /\ ticking' = ticking \ {gen}
          /\ loop' = [loop EXCEPT ![gen] = "closed"]
          /\ UNCHANGED <<gen, stop, job, doing, stopClosed, stopper, gaveUp, overlap, crashed>>
      BY <1>6, <2>1, <2>3 DEF CloseAll, startVars, ghostVars
    <3>2. loop'[gen] = "closed" /\ \A h \in Gens : h # gen => loop'[h] = loop[h]
      BY <3>1, TypeFacts
    <3>3. job = {}
      <4>1. \A j \in job : j = <<j[1], j[2]>> /\ j[1] \in Actions
        BY TypeFacts, TriggerAssumption
      <4>2. \A j \in job : j[2] = g
        BY <2>1 DEF Live, GenInv
      <4>. QED BY <2>3, <4>1, <4>2 DEF Waiting
    <3>4. GenInv'
      BY <2>1, <3>1, <3>2, <3>3, TypeFacts DEF Live, GenInv, Waiting
    <3>5. ContextInv'
      BY <2>1, <3>1, <3>2, TypeFacts DEF Live, ContextInv
    <3>6. SoleInv'
      BY <2>1, <3>1, <3>2, TypeFacts DEF Live, SoleInv, Stage, Runs, Idle, ContextInv
    <3>. QED BY <3>1, <3>4, <3>5, <3>6 DEF Live
  <2>. QED BY <2>2, <2>3
<1>7. CASE Signal(g)
  <2>1. g = gen /\ loop[gen] = "closed" /\ shared = "empty"
    BY <1>7, Current DEF Signal, AllClosed, Live, ContextInv
  <2>2. ~overlap => stop = gen /\ gen \notin stopClosed
    BY <2>1, TypeFacts DEF Live, SoleInv, ContextInv, Stage, Runs, Idle, Stoppers, StopPlaces
  <2>3. CASE stop = 0 \/ stop \in stopClosed \/ shared = "closed"
    <3>1. overlap
      BY <2>1, <2>2, <2>3, TypeFacts
    <3>. QED BY <1>7, <2>3, <3>1, CrashStep DEF Signal
  <2>4. CASE ~(stop = 0 \/ stop \in stopClosed \/ shared = "closed")
    <3>1. /\ shared' = "full" /\ stopClosed' = stopClosed \cup {stop}
          /\ loop' = [loop EXCEPT ![gen] = "done"]
          /\ UNCHANGED <<gen, stop, open, ticking, job, doing, stopper, gaveUp, overlap, crashed>>
      BY <1>7, <2>1, <2>4 DEF Signal, Handed, startVars, chanVars, ghostVars
    <3>2. loop'[gen] = "done" /\ \A h \in Gens : h # gen => loop'[h] = loop[h]
      BY <3>1, TypeFacts
    <3>3. GenInv'
      BY <2>1, <3>1, <3>2, TypeFacts DEF Live, GenInv, Waiting
    <3>4. ContextInv'
      BY <2>1, <3>1, <3>2, TypeFacts DEF Live, ContextInv
    <3>5. SoleInv'
      BY <2>1, <3>1, <3>2, TypeFacts DEF Live, SoleInv, Stage, Runs, Idle, ContextInv, Stoppers
    <3>. QED BY <3>1, <3>3, <3>4, <3>5 DEF Live
  <2>. QED BY <2>3, <2>4
<1>. QED BY <1>1, <1>2, <1>3, <1>4, <1>5, <1>6, <1>7 DEF LoopStep
LEMMA StopperLive ==
  ASSUME TypeOK, Live, crashed = "no", NEW s \in Stoppers, StopperStep(s)
  PROVE  (crashed' = "no" /\ Live') \/ (LiveInv' /\ DeadInv')
<1>. USE DEF Behind
<1>. Watcher \in Stoppers /\ Main \in Stoppers /\ Watcher # Main /\ (s = Watcher \/ s = Main)
  BY TriggerAssumption DEF Stoppers
<1>0. ~Idle(s)
  BY DEF StopperStep, StopCheck, SendStop, SendClosed, Wait, Clear, TakeContext, StopRunners, SendAstray, Idle
<1>a. ~overlap => /\ \A t \in Stoppers : t # s => Idle(t)
                  /\ Stage(s)
  BY <1>0 DEF Live, SoleInv, Stoppers
<1>b. stopper[s].at # "created"
  BY DEF StopperStep, StopCheck, SendStop, SendClosed, Wait, Clear, TakeContext, StopRunners,
         SendAstray
<1>1. CASE StopCheck(s)
  <2>1. CASE stop = 0
    <3>1. overlap
      BY <1>1, <1>a, <2>1, TypeFacts DEF StopCheck, Stage, Runs
    <3>. QED BY <1>1, <2>1, <3>1, CrashStep DEF StopCheck
  <2>2. CASE stop # 0
    <3>1. /\ stopper' = [stopper EXCEPT ![s] = [at |-> "send", on |-> stop]]
          /\ UNCHANGED <<gen, stop, open, ticking, job, loop, doing, stopClosed, shared, gaveUp, overlap, crashed>>
      BY <1>1, <2>2 DEF StopCheck, startVars, chanVars, loopVars, ghostVars
    <3>2. /\ stopper'[s].at = "send" /\ stopper'[s].on = stop
          /\ \A t \in Stoppers : t # s => stopper'[t] = stopper[t]
      BY <3>1, TypeFacts
    <3>3. GenInv'
      BY <3>1 DEF Live, GenInv, Waiting
    <3>4. ContextInv'
      <4>1. stop \in Gens
        BY <2>2, TypeFacts, GensFact DEF Gens
      <4>. QED BY <3>1, <3>2, <4>1 DEF Live, ContextInv
    <3>5. SoleInv'
      BY <1>1, <1>a, <3>1, <3>2 DEF StopCheck, Live, SoleInv, Stage, Runs, Idle
    <3>. QED BY <3>1, <3>3, <3>4, <3>5 DEF Live
  <2>. QED BY <2>1, <2>2
<1>2. CASE SendStop(s)
  <2>. DEFINE g == stopper[s].on
  <2>0. g = gen /\ loop[gen] = "select"
    <3>1. loop[g] = "select" /\ g \in 0 .. Starts
      BY <1>2, TypeFacts DEF SendStop, TakesStop
    <3>2. g \in Gens
      BY <1>2 DEF SendStop, Live, ContextInv
    <3>. QED BY <3>1, <3>2, Current DEF Live
  <2>1. /\ stopper' = [stopper EXCEPT ![s].at = "wait"]
        /\ loop' = [loop EXCEPT ![gen] = "stopping"]
        /\ UNCHANGED <<gen, stop, open, ticking, job, doing, stopClosed, shared, gaveUp, overlap, crashed>>
    BY <1>2, <2>0 DEF SendStop, Move, startVars, chanVars, ghostVars
  <2>2. /\ stopper'[s].at = "wait" /\ stopper'[s].on = gen
        /\ \A t \in Stoppers : t # s => stopper'[t] = stopper[t]
        /\ loop'[gen] = "stopping" /\ \A h \in Gens : h # gen => loop'[h] = loop[h]
    BY <2>0, <2>1, TypeFacts
  <2>3. GenInv'
    BY <2>0, <2>1, <2>2, TypeFacts DEF Live, GenInv, Waiting
  <2>4. ContextInv'
    BY <2>0, <2>1, <2>2, TypeFacts DEF Live, ContextInv
  <2>5. SoleInv'
    BY <1>2, <1>a, <2>1, <2>2 DEF SendStop, Live, SoleInv, Stage, Runs, Idle
  <2>. QED BY <2>1, <2>3, <2>4, <2>5 DEF Live
<1>3. CASE SendClosed(s)
  <2>1. overlap
    BY <1>3, <1>a DEF SendClosed, Stage, Runs
  <2>. QED BY <1>3, <2>1, CrashStep DEF SendClosed
<1>4. CASE Wait(s)
  <2>1. /\ stopper' = [stopper EXCEPT ![s].at = "clear"]
        /\ UNCHANGED <<gen, stop, open, ticking, job, loop, doing, stopClosed, shared, gaveUp, overlap, crashed>>
    BY <1>4 DEF Wait, Move, startVars, chanVars, loopVars, ghostVars
  <2>2. /\ stopper'[s].at = "clear"
        /\ \A t \in Stoppers : t # s => stopper'[t] = stopper[t]
    BY <2>1, TypeFacts
  <2>3. GenInv'
    BY <2>1 DEF Live, GenInv, Waiting
  <2>4. ContextInv'
    BY <2>1, <2>2 DEF Live, ContextInv
  <2>5. SoleInv'
    BY <1>4, <1>a, <2>1, <2>2 DEF Wait, Live, SoleInv, Stage, Runs, Idle
  <2>. QED BY <2>1, <2>3, <2>4, <2>5 DEF Live
<1>5. CASE Clear(s)
  <2>1. /\ stopper' = [stopper EXCEPT ![s].at = "context"] /\ stop' = 0
        /\ UNCHANGED <<gen, open, ticking, job, loop, doing, stopClosed, shared, gaveUp, overlap, crashed>>
    BY <1>5 DEF Clear, NoLoop, Move, startVars, chanVars, loopVars, ghostVars
  <2>2. /\ stopper'[s].at = "context"
        /\ \A t \in Stoppers : t # s => stopper'[t] = stopper[t]
    BY <2>1, TypeFacts
  <2>3. GenInv'
    BY <2>1 DEF Live, GenInv, Waiting
  <2>4. ContextInv'
    BY <2>1, <2>2 DEF Live, ContextInv
  <2>5. SoleInv'
    BY <1>5, <1>a, <2>1, <2>2 DEF Clear, Live, SoleInv, Stage, Runs, Idle
  <2>. QED BY <2>1, <2>3, <2>4, <2>5 DEF Live
<1>6. CASE TakeContext(s)
  <2>1. CASE shared = "closed" /\ Crash("panic")
    <3>1. overlap
      BY <1>6, <1>a, <2>1 DEF TakeContext, Stage
    <3>. QED BY <2>1, <3>1, CrashStep
  <2>2. CASE ~(shared = "closed" /\ Crash("panic"))
    <3>1. /\ stopper' = [stopper EXCEPT ![s].at = "runners"] /\ shared = "full" /\ shared' = "closed"
          /\ UNCHANGED <<gen, stop, open, ticking, job, loop, doing, stopClosed, gaveUp, overlap, crashed>>
      BY <1>6, <2>2 DEF TakeContext, Move, startVars, chanVars, loopVars, ghostVars
    <3>2. /\ stopper'[s].at = "runners"
          /\ \A t \in Stoppers : t # s => stopper'[t] = stopper[t]
      BY <3>1, TypeFacts
    <3>3. GenInv'
      BY <3>1 DEF Live, GenInv, Waiting
    <3>4. ContextInv'
      BY <1>0, <3>1, <3>2 DEF Live, ContextInv, Idle
    <3>5. SoleInv'
      BY <1>6, <1>a, <3>1, <3>2 DEF TakeContext, Live, SoleInv, Stage, Runs, Idle
    <3>. QED BY <3>1, <3>3, <3>4, <3>5 DEF Live
  <2>. QED BY <2>1, <2>2
<1>8. CASE StopRunners(s)
  <2>1. CASE Crash("files")
    BY <2>1, CrashStep
  <2>2. CASE ~Crash("files")
    <3>0. PICK end \in {"stopped", "hung"} : Move(s, end)
      BY <1>8, <2>2 DEF StopRunners
    <3>1. /\ stopper[s].at = "runners" /\ stopper' = [stopper EXCEPT ![s].at = end]
          /\ UNCHANGED <<gen, stop, open, ticking, job, loop, doing, stopClosed, shared, gaveUp, overlap, crashed>>
      BY <1>8, <2>2, <3>0 DEF StopRunners, Move, startVars, chanVars, loopVars, ghostVars
    <3>2. /\ stopper'[s].at = end
          /\ \A t \in Stoppers : t # s => stopper'[t] = stopper[t]
      BY <3>1, TypeFacts
    <3>3. GenInv'
      BY <3>1 DEF Live, GenInv, Waiting
    <3>4. ContextInv'
      BY <1>0, <3>1, <3>2 DEF Live, ContextInv, Idle
    <3>5. SoleInv'
      BY <1>a, <3>1, <3>2 DEF Live, SoleInv, Stage, Runs, Idle
    <3>. QED BY <3>1, <3>3, <3>4, <3>5 DEF Live
  <2>. QED BY <2>1, <2>2
<1>7. CASE \E t \in Stoppers : SendAstray(s, t)
  <2>1. PICK t \in Stoppers : SendAstray(s, t)
    BY <1>7
  <2>2. t # s /\ ~Idle(t) /\ overlap
    BY <1>a, <2>1 DEF SendAstray, Idle
  <2>3. /\ stopper' = [stopper EXCEPT ![s].at = "wait", ![t].at = "clear"]
        /\ UNCHANGED <<gen, stop, open, ticking, job, loop, doing, stopClosed, shared, gaveUp, overlap, crashed>>
    BY <2>1 DEF SendAstray, startVars, chanVars, loopVars, ghostVars
  <2>4. stopper'[s].at = "wait" /\ stopper'[t].at = "clear"
    BY <2>2, <2>3, TypeFacts
  <2>5. GenInv'
    BY <2>3 DEF Live, GenInv, Waiting
  <2>6. ContextInv' /\ SoleInv'
    <3>1. {s, t} = Stoppers
      BY <2>2 DEF Stoppers
    <3>2. \A u \in Stoppers : stopper'[u].at \in {"wait", "clear"}
      BY <2>4, <3>1
    <3>3. overlap' /\ shared' = shared /\ loop' = loop /\ gen' = gen
      BY <2>2, <2>3
    <3>4. ContextInv'
      BY <3>2, <3>3 DEF Live, ContextInv
    <3>5. SoleInv'
      BY <3>3 DEF SoleInv
    <3>. QED BY <3>4, <3>5
  <2>. QED BY <2>3, <2>5, <2>6 DEF Live
<1>. QED BY <1>1, <1>2, <1>3, <1>4, <1>5, <1>6, <1>7, <1>8 DEF StopperStep

LEMMA RestartLive ==
  ASSUME TypeOK, BoundInv, Live, crashed = "no", Reconfigure \/ Reload \/ Create \/ Run
  PROVE  (crashed' = "no" /\ Live') \/ (LiveInv' /\ DeadInv')
<1>. USE DEF Behind
<1>. Watcher \in Stoppers /\ Main \in Stoppers /\ Watcher # Main
  BY TriggerAssumption DEF Stoppers
<1>a. \A s \in Stoppers : s = Watcher \/ s = Main
  BY DEF Stoppers
<1>1. CASE Reconfigure
  <2>1. /\ Idle(Watcher) /\ stopper' = [stopper EXCEPT ![Watcher].at = "stop"]
        /\ overlap' = (overlap \/ ~Idle(Main))
        /\ UNCHANGED <<gen, stop, open, ticking, job, loop, doing, stopClosed, shared, gaveUp, crashed>>
    BY <1>1 DEF Reconfigure, Move, Idle, startVars, chanVars, loopVars
  <2>2. stopper'[Watcher].at = "stop" /\ stopper'[Main] = stopper[Main]
    BY <2>1, TypeFacts
  <2>3. GenInv'
    BY <2>1 DEF Live, GenInv, Waiting
  <2>4. ContextInv'
    BY <1>a, <2>1, <2>2 DEF Live, ContextInv, Idle
  <2>5. SoleInv'
    BY <2>1, <2>2 DEF Live, SoleInv, Stage, Runs, Idle
  <2>. QED BY <2>1, <2>3, <2>4, <2>5 DEF Live
<1>2. CASE Reload
  <2>1. /\ Idle(Main) /\ overlap' = (~Idle(Watcher)) /\ stopper' = [stopper EXCEPT ![Main].at = "stop"]
        /\ UNCHANGED <<gen, stop, open, ticking, job, loop, doing, stopClosed, shared, gaveUp, crashed>>
    BY <1>2 DEF Reload, Move, Idle, startVars, chanVars, loopVars
  <2>2. stopper'[Main].at = "stop" /\ stopper'[Watcher] = stopper[Watcher]
    BY <2>1, TypeFacts
  <2>3. GenInv'
    BY <2>1 DEF Live, GenInv, Waiting
  <2>4. ContextInv'
    BY <1>a, <2>1, <2>2 DEF Live, ContextInv
  <2>5. CASE Idle(Watcher)
    <3>1. ~overlap
      BY <2>1 DEF Live, ContextInv, Idle
    <3>2. Runs
      BY <2>1, <2>5, <3>1 DEF Live, SoleInv
    <3>3. SoleInv'
      BY <2>1, <2>2, <2>5, <3>2 DEF SoleInv, Stage, Runs, Idle
    <3>. QED BY <2>1, <2>3, <2>4, <3>3 DEF Live
  <2>6. CASE ~Idle(Watcher)
    <3>1. SoleInv'
      BY <2>1, <2>6 DEF SoleInv
    <3>. QED BY <2>1, <2>3, <2>4, <3>1 DEF Live
  <2>. QED BY <2>5, <2>6
<1>3. CASE Create
  <2>0. gen + 1 \in Gens
    BY <1>3, TypeFacts, GensFact DEF Create, BoundInv, Gens
  <2>1. /\ stopper[Watcher].at = "stopped" /\ gen' = gen + 1
        /\ open' = open \cup {gen + 1} /\ ticking' = ticking \cup {gen + 1}
        /\ stopper' = [stopper EXCEPT ![Watcher].at = "created"]
        /\ UNCHANGED <<stop, job, loop, doing, stopClosed, shared, gaveUp, overlap, crashed>>
    BY <1>3 DEF Create, Move, loopVars, ghostVars
  <2>2. stopper'[Watcher].at = "created" /\ stopper'[Main] = stopper[Main]
    BY <2>1, TypeFacts
  <2>3. /\ loop[gen] = "done" /\ loop[gen + 1] = "none" /\ shared = "closed"
        /\ open = {} /\ ticking = {} /\ job = {}
    <3>1. loop[gen] = "done" /\ shared = "closed"
      BY <2>1 DEF Live, ContextInv
    <3>2. loop[gen + 1] = "none"
      BY <2>0, TypeFacts DEF Live, GenInv
    <3>3. open = {} /\ ticking = {} /\ job = {}
      BY <3>1 DEF Live, GenInv
    <3>. QED BY <3>1, <3>2, <3>3
  <2>4. GenInv'
    <3>1. \A h \in Gens : h < gen' => loop'[h] = "done"
      BY <2>0, <2>1, <2>3, TypeFacts DEF Live, GenInv, Gens
    <3>2. \A h \in Gens : h > gen' => loop'[h] = "none"
      BY <2>0, <2>1, TypeFacts DEF Live, GenInv, Gens
    <3>3. loop'[gen'] = "none"
      BY <2>1, <2>3
    <3>. QED BY <2>1, <2>3, <3>1, <3>2, <3>3 DEF Live, GenInv, Waiting
  <2>5. ContextInv'
    BY <1>a, <2>1, <2>2, <2>3 DEF Live, ContextInv
  <2>6. SoleInv'
    <3>1. gen' \notin stopClosed'
      BY <2>1, TypeFacts
    <3>. QED BY <2>1, <2>2, <3>1 DEF Live, SoleInv, Stage, Runs, Idle
  <2>. QED BY <2>1, <2>4, <2>5, <2>6 DEF Live
<1>4. CASE Run
  <2>1. CASE stop # 0
    <3>1. overlap
      BY <1>4, <2>1 DEF Run, Live, SoleInv, Stage
    <3>. QED BY <1>4, <2>1, <3>1, CrashStep DEF Run
  <2>2. CASE stop = 0
    <3>1. /\ stopper[Watcher].at = "created" /\ stop' = gen /\ loop' = [loop EXCEPT ![gen] = "select"]
          /\ stopper' = [stopper EXCEPT ![Watcher].at = "idle"]
          /\ UNCHANGED <<gen, open, ticking, job, doing, stopClosed, shared, gaveUp, overlap, crashed>>
      BY <1>4, <2>2 DEF Run, Move, chanVars, ghostVars
    <3>2. /\ stopper'[Watcher].at = "idle" /\ stopper'[Main] = stopper[Main]
          /\ loop'[gen] = "select" /\ \A h \in Gens : h # gen => loop'[h] = loop[h]
      BY <3>1, TypeFacts
    <3>3. loop[gen] = "none" /\ shared = "closed" /\ stopper[Main].at \notin Behind
      BY <3>1 DEF Live, ContextInv
    <3>4. GenInv'
      BY <3>1, <3>2, <3>3, TypeFacts DEF Live, GenInv, Waiting
    <3>5. ContextInv'
      BY <1>a, <3>1, <3>2, <3>3 DEF Live, ContextInv
    <3>6. SoleInv'
      BY <3>1, <3>2, <3>3 DEF Live, SoleInv, Stage, Runs, Idle
    <3>. QED BY <3>1, <3>4, <3>5, <3>6 DEF Live
  <2>. QED BY <2>1, <2>2
<1>. QED BY <1>1, <1>2, <1>3, <1>4

LEMMA InitInv == Init => IInv
<1>. SUFFICES ASSUME Init PROVE IInv
  OBVIOUS
<1>. Watcher \in Stoppers /\ Main \in Stoppers
  BY DEF Stoppers
<1>1. TypeOK
  BY TypeInit
<1>2. BoundInv /\ DeadInv
  BY DEF Init, BoundInv, DeadInv
<1>3. GenInv
  BY GensFact DEF Init, GenInv, Gens
<1>4. ContextInv
  BY GensFact DEF Init, ContextInv, Behind
<1>5. SoleInv
  BY GensFact DEF Init, SoleInv, Stage, Runs, Idle, Behind
<1>. QED BY <1>1, <1>2, <1>3, <1>4, <1>5 DEF IInv, LiveInv

LEMMA NextInv == IInv /\ [Next]_vars => IInv'
<1>. SUFFICES ASSUME IInv, [Next]_vars PROVE IInv'
  OBVIOUS
<1>1. TypeOK' /\ BoundInv'
  BY TypeStep, BoundStep DEF IInv
<1>2. CASE UNCHANGED vars
  <2>1. LiveInv'
    BY <1>2, LiveFrame DEF IInv, LiveInv, Live, vars, startVars, chanVars, loopVars, stopVars, ghostVars
  <2>2. DeadInv'
    BY <1>2 DEF IInv, DeadInv, vars, chanVars, loopVars, stopVars, ghostVars
  <2>. QED BY <1>1, <2>1, <2>2 DEF IInv
<1>3. CASE Next /\ crashed # "no"
  BY <1>3, NothingAfter DEF IInv
<1>4. CASE Next /\ crashed = "no"
  <2>. TypeOK /\ BoundInv /\ Live
    BY <1>4 DEF IInv, LiveInv, Live
  <2>1. (crashed' = "no" /\ Live') \/ (LiveInv' /\ DeadInv')
    <3>1. ASSUME NEW c \in Callers, CallerStep(c) PROVE crashed' = "no" /\ Live'
      <4>1. UNCHANGED <<gen, stop, open, ticking, job, loop, doing, stopClosed, shared,
                        stopper, gaveUp, overlap, crashed>>
        BY <3>1 DEF CallerStep, ExecCheck, ExecRead, RunTimer, CallerSend,
                    startVars, chanVars, loopVars, stopVars, ghostVars
      <4>. QED BY <1>4, <4>1, LiveFrame
    <3>. QED BY <1>4, <3>1, LoopLive, StopperLive, RestartLive DEF Next
  <2>2. LiveInv' /\ DeadInv'
    BY <2>1 DEF LiveInv, DeadInv, Live
  <2>. QED BY <1>1, <2>2 DEF IInv
<1>. QED BY <1>2, <1>3, <1>4

-----------------------------------------------------------------------------
(* The invariant that the properties follow from.                          *)
THEOREM Invariance == Spec => []IInv
<1>. QED BY InitInv, NextInv, PTL DEF Spec

(* Every variable keeps its type, a channel its capacity (custom.go:148).  *)
THEOREM TypeCorrect == Spec => []TypeOK
<1>1. IInv => TypeOK
  BY DEF IInv
<1>. QED BY <1>1, Invariance, PTL

(* Only one action runs at a time, whatever restarts the loop              *)
(* (timers.go:146).                                                        *)
THEOREM OneActionAtATime == Spec => []OneAtATime
<1>1. ASSUME IInv PROVE OneAtATime
  <2>1. CASE crashed = "no"
    <3>1. TypeOK /\ GenInv
      BY <1>1, <2>1 DEF IInv, LiveInv
    <3>2. \A g \in Gens : loop[g] \in {"select", "acting"} => g = gen
      BY <3>1, Current
    <3>3. \A g \in Gens : doing[g] # Nothing => g = gen
      BY <3>1, <3>2 DEF GenInv
    <3>. QED BY <3>2, <3>3 DEF OneAtATime
  <2>2. CASE crashed # "no"
    BY <1>1, <2>2 DEF IInv, DeadInv, OneAtATime
  <2>. QED BY <2>1, <2>2
<1>. QED BY <1>1, Invariance, PTL

(* When Config.Stop has returned nothing of the loop is left               *)
(* (triggers.go:156).                                                      *)
THEOREM StopLeavesNothing == Spec => []StopIsComplete
<1>1. ASSUME IInv PROVE StopIsComplete
  <2>. SUFFICES ASSUME NEW s \in Stoppers, stopper[s].at \in Behind
                PROVE  /\ \A g \in Gens : loop[g] \in {"none", "done"}
                       /\ open = {} /\ ticking = {} /\ job = {}
    BY DEF StopIsComplete
  <2>1. TypeOK /\ GenInv /\ ContextInv
    BY <1>1 DEF IInv, LiveInv, DeadInv, Behind
  <2>2. loop[gen] = "done"
    BY <2>1 DEF ContextInv
  <2>3. open = {} /\ ticking = {} /\ job = {}
    BY <2>1, <2>2 DEF GenInv
  <2>4. \A g \in Gens : loop[g] \in {"none", "done"}
    BY <2>1, <2>2, TypeFacts DEF GenInv, Gens
  <2>. QED BY <2>3, <2>4
<1>. QED BY <1>1, Invariance, PTL

(* A crash, unless it is the file watcher's, means that the scheduler did  *)
(* not wait for a job, or that a reload overlapped a restart               *)
(* (scheduler.go:237, start.go:415).                                       *)
THEOREM CrashesExplained == Spec => []CrashHasCause
<1>1. IInv => CrashHasCause
  BY DEF IInv, DeadInv, CrashHasCause
<1>. QED BY <1>1, Invariance, PTL
=============================================================================
