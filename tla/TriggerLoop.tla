----------------------------- MODULE TriggerLoop -----------------------------
(***************************************************************************)
(* The loop that runs the actions of the client (pkg/triggers/common), the *)
(* goroutine watchChan that stops and starts it when the website sends     *)
(* other settings (pkg/triggers), and what feeds it: tickers, jobs of the  *)
(* scheduler, goroutines that Exec an action by its name or a custom timer *)
(* by its index (pkg/triggers/crontimer). The main goroutine stops it for  *)
(* good when it reloads the application. What is stopped behind the loop,  *)
(* the file watcher first of all, is here as far as it may keep who stops  *)
(* it: FileWatch has what goes on inside.                                  *)
(*                                                                         *)
(* Each start makes the channels anew. A generation g is one start and all *)
(* it makes: a loop, a stop channel, a channel for each action.            *)
(***************************************************************************)
EXTENDS Integers, Sequences

CONSTANTS
  Actions,      (* the actions with a channel                              *)
  Ticking,      (* those with a ticker                                     *)
  Scheduled,    (* those with a job of the scheduler instead               *)
  Custom,       (* the action that is the custom timer of the website      *)
  Callers,      (* goroutines, of HTTP handlers, that trigger actions      *)
  Watcher,      (* the goroutine of watchChan                              *)
  Main,         (* the main goroutine                                      *)
  Nothing,
  Starts,       (* bound: how often the loop is started                    *)
  ChanCap       (* the capacity of an action's channel                     *)

ASSUME TriggerAssumption ==
  /\ Ticking \subseteq Actions /\ Scheduled \subseteq Actions \ Ticking
  /\ Custom \in Actions
  /\ Watcher # Main
  /\ Nothing \notin Actions
  /\ Starts \in Nat \ {0} /\ ChanCap \in Nat \ {0}

Stoppers == {Watcher, Main}
Gens == 1 .. Starts

VARIABLES
  gen,          (* the starts so far                                       *)
  stop,         (* c.stop: the generation of the stop channel, 0 for nil   *)
  list,         (* c.list: the generation of its actions, 0 for nil        *)
  timers,       (* the list of crontimer: generations of the custom timer  *)
  buffered,     (* what is in the channel of each action                   *)
  open,         (* the generations whose channels are open                 *)
  stopClosed,   (* the generations whose stop channel is closed            *)
  shared,       (* c.sharedCtx: "nil", "empty", "full" or "closed"         *)
  loop,         (* where the loop of each generation is                    *)
  doing,        (* the action it runs                                      *)
  job,          (* the jobs that wait to send                              *)
  ticking,      (* the generations whose tickers run                       *)
  stopper,      (* where each goroutine that may stop the loop is, and     *)
                (* which stop channel it uses                              *)
  caller,       (* where each caller is, and which channel it uses         *)
  gaveUp,       (* history: StopJobs gave up on a job                      *)
  overlap,      (* history: one of the two stops the loop although the     *)
                (* other is at it or has done so                           *)
  crashed       (* "no", or what a goroutine that nothing recovered        *)
                (* panicked of: "no loop" to stop, "files" if the file     *)
                (* watcher did as it was stopped, or else "panic"          *)

startVars == <<gen, stop, list, timers>>
chanVars  == <<buffered, open, job, ticking>>
loopVars  == <<loop, doing>>
stopVars  == <<stopClosed, shared, stopper>>
ghostVars == <<gaveUp, overlap>>
vars == <<startVars, chanVars, loopVars, stopVars, caller, ghostVars, crashed>>

(* The client starts the loop before anything can trigger or stop it.      *)
Init ==
  /\ gen = 1 /\ stop = 1 /\ list = 1 /\ timers = <<1>>
  /\ buffered = [a \in Actions |-> [g \in Gens |-> 0]]
  /\ open = {1} /\ stopClosed = {} /\ shared = "nil"
  /\ loop = [g \in Gens |-> IF g = 1 THEN "select" ELSE "none"]
  /\ doing = [g \in Gens |-> Nothing]
  /\ job = {} /\ ticking = {1}
  /\ stopper = [s \in Stoppers |-> [at |-> "idle", on |-> 0]]
  /\ caller = [c \in Callers |-> [at |-> "idle", on |-> <<Nothing, 0>>]]
  /\ gaveUp = FALSE /\ overlap = FALSE /\ crashed = "no"

(* A panic that nothing recovers ends the process and every goroutine.     *)
Crash(why) ==
  /\ crashed' = why
  /\ loop' = [g \in Gens |-> "dead"] /\ job' = {}
  /\ stopper' = [s \in Stoppers |-> [stopper[s] EXCEPT !.at = "dead"]]
  /\ caller' = [c \in Callers |-> [caller[c] EXCEPT !.at = "dead"]]
  /\ UNCHANGED <<startVars, buffered, open, ticking, doing, stopClosed, shared,
                 ghostVars>>

-----------------------------------------------------------------------------
(* The channels of the actions.                                            *)

(* Mutant: one place more.                                                 *)
RoomForOneMore(a, g) == buffered[a][g] <= ChanCap
HasRoom(a, g) == buffered[a][g] < ChanCap

Put(a, g) == buffered' = [buffered EXCEPT ![a][g] = @ + 1]

(* Exec looks for the action, the loop and the channel, then reads the     *)
(* channel again to send.                                                  *)
ExecCheck(c, a) ==
  /\ caller[c].at = "idle"
  /\ stop # 0 /\ list # 0 /\ list \in open
  /\ caller' = [caller EXCEPT ![c] = [at |-> "checked", on |-> <<a, list>>]]
  /\ UNCHANGED <<startVars, chanVars, loopVars, stopVars, ghostVars, crashed>>

(* The channel of an action that was stopped is nil: nothing is ever sent. *)
ExecRead(c) ==
  /\ caller[c].at = "checked"
  /\ caller' = [caller EXCEPT ![c].at = IF caller[c].on[2] \in open THEN "send" ELSE "stuck"]
  /\ UNCHANGED <<startVars, chanVars, loopVars, stopVars, ghostVars, crashed>>

(* customTimer runs the timer at some index of the list. It has a copy of  *)
(* the channel that is never nil.                                          *)
RunTimer(c) ==
  /\ caller[c].at = "idle"
  /\ \E i \in 1 .. Len(timers) :
       caller' = [caller EXCEPT ![c] = [at |-> "send", on |-> <<Custom, timers[i]>>]]
  /\ UNCHANGED <<startVars, chanVars, loopVars, stopVars, ghostVars, crashed>>

(* A send to a closed channel panics; net/http recovers its handlers.      *)
CallerSend(c) ==
  LET a == caller[c].on[1]
      g == caller[c].on[2]
  IN  /\ caller[c].at = "send"
      /\ \/ g \in open /\ HasRoom(a, g) /\ Put(a, g)
         \/ g \notin open /\ UNCHANGED buffered
      /\ caller' = [caller EXCEPT ![c] = [at |-> "idle", on |-> <<Nothing, 0>>]]
      /\ UNCHANGED <<startVars, open, job, ticking, loopVars, stopVars,
                     ghostVars, crashed>>

(* The scheduler starts with the loop and forgets its jobs when it stops.  *)
JobFire(a, g) ==
  /\ loop[g] \in {"select", "acting"} /\ a \in Scheduled /\ <<a, g>> \notin job
  /\ job' = job \cup {<<a, g>>}
  /\ UNCHANGED <<startVars, buffered, open, ticking, loopVars, stopVars, caller,
                 ghostVars, crashed>>

JobSend(a, g) ==
  /\ <<a, g>> \in job /\ g \in open /\ HasRoom(a, g)
  /\ Put(a, g)
  /\ job' = job \ {<<a, g>>}
  /\ UNCHANGED <<startVars, open, ticking, loopVars, stopVars, caller,
                 ghostVars, crashed>>

-----------------------------------------------------------------------------
(* The loop. reflect.Select takes any arm that is ready.                   *)

(* Run watches the channel of an action and its ticker, or either alone.   *)
(* Mutant: the channel only of those without a ticker.                     *)
ChannelOrTicker(a) == a \notin Ticking
Watched(a) == TRUE

Begin(a, g) ==
  /\ loop[g] = "select"
  /\ loop' = [loop EXCEPT ![g] = "acting"]
  /\ doing' = [doing EXCEPT ![g] = a]

Receive(a, g) ==
  /\ Begin(a, g)
  /\ g \in open /\ Watched(a) /\ buffered[a][g] > 0
  /\ buffered' = [buffered EXCEPT ![a][g] = @ - 1]
  /\ UNCHANGED <<startVars, open, job, ticking, stopVars, caller, ghostVars,
                 crashed>>

Tick(a, g) ==
  /\ Begin(a, g)
  /\ g \in ticking /\ a \in Ticking
  /\ UNCHANGED <<startVars, chanVars, stopVars, caller, ghostVars, crashed>>

(* The action returns.                                                     *)
Finish(g) ==
  /\ loop[g] = "acting"
  /\ loop' = [loop EXCEPT ![g] = "select"]
  /\ doing' = [doing EXCEPT ![g] = Nothing]
  /\ UNCHANGED <<startVars, chanVars, stopVars, caller, ghostVars, crashed>>

Waiting(g) == \E a \in Actions : <<a, g>> \in job

(* The scheduler forgets its jobs, then waits for the ones that run, but   *)
(* for a while only.                                                       *)
StopJobs(g) ==
  /\ loop[g] = "stopping"
  /\ loop' = [loop EXCEPT ![g] = "closing"]
  /\ gaveUp' = (gaveUp \/ Waiting(g))
  /\ UNCHANGED <<startVars, chanVars, doing, stopVars, caller, overlap, crashed>>

(* A job that still waits to send when its channel is closed panics.       *)
CloseAll(g) ==
  /\ loop[g] = "closing"
  /\ IF Waiting(g)
     THEN Crash("panic")
     ELSE /\ shared' = "empty"
          /\ open' = open \ {g} /\ ticking' = ticking \ {g}
          /\ loop' = [loop EXCEPT ![g] = "closed"]
          /\ UNCHANGED <<startVars, buffered, job, doing, stopClosed, stopper,
                         caller, ghostVars, crashed>>

(* When the loop says that it is done. Mutant: before it closes anything.  *)
TooEarly == "closing"
AllClosed == "closed"

(* What becomes of the context. Mutant: it is not handed over.             *)
Forgotten == "empty"
Handed == "full"

(* The end of stopTimerLoop: the stop channel is closed, whichever it is   *)
(* by now, and the context handed to the goroutine that waits for it.      *)
Signal(g) ==
  /\ loop[g] = AllClosed
  /\ IF stop = 0 \/ stop \in stopClosed \/ shared = "closed"
     THEN Crash("panic")
     ELSE /\ stopClosed' = stopClosed \cup {stop}
          /\ shared' = Handed
          /\ loop' = [loop EXCEPT ![g] = "done"]
          /\ UNCHANGED <<startVars, chanVars, doing, stopper, caller, ghostVars,
                         crashed>>

-----------------------------------------------------------------------------
(* The goroutines that stop the loop: Actions.Stop, which begins with      *)
(* Config.Stop.                                                            *)

Move(s, at) == stopper' = [stopper EXCEPT ![s].at = at]

(* The website sends other settings. watchChan answers before it fetches   *)
(* them, so that nobody waits for what it does then.                       *)
Reconfigure ==
  /\ stopper[Watcher].at = "idle" /\ gen < Starts
  /\ overlap' = (overlap \/ stopper[Main].at # "idle")
  /\ Move(Watcher, "stop")
  /\ UNCHANGED <<startVars, chanVars, loopVars, stopClosed, shared, caller,
                 gaveUp, crashed>>

Reload ==
  /\ stopper[Main].at = "idle"
  /\ overlap' = (stopper[Watcher].at # "idle")
  /\ Move(Main, "stop")
  /\ UNCHANGED <<startVars, chanVars, loopVars, stopClosed, shared, caller,
                 gaveUp, crashed>>

(* A loop that is not there makes Stop panic.                              *)
StopCheck(s) ==
  /\ stopper[s].at = "stop"
  /\ IF stop = 0
     THEN Crash("no loop")
     ELSE /\ stopper' = [stopper EXCEPT ![s] = [at |-> "send", on |-> stop]]
          /\ UNCHANGED <<startVars, chanVars, loopVars, stopClosed, shared,
                         caller,
                         ghostVars, crashed>>

(* When the loop takes a stop. Mutant: also while an action runs.          *)
EvenBusy(g) == loop[g] \in {"select", "acting"}
TakesStop(g) == loop[g] = "select"

(* The stop channel has no buffer: the loop takes the message, or another  *)
(* goroutine that waits on the channel to be closed does.                  *)
SendStop(s) ==
  LET g == stopper[s].on
  IN  /\ stopper[s].at = "send" /\ g \notin stopClosed
      /\ TakesStop(g)
      /\ loop' = [loop EXCEPT ![g] = "stopping"]
      /\ Move(s, "wait")
      /\ UNCHANGED <<startVars, chanVars, doing, stopClosed, shared, caller,
                     ghostVars, crashed>>

SendAstray(s, t) ==
  /\ stopper[s].at = "send" /\ stopper[s].on \notin stopClosed
  /\ stopper[t].at = "wait" /\ stopper[t].on = stopper[s].on
  /\ stopper' = [stopper EXCEPT ![s].at = "wait", ![t].at = "clear"]
  /\ UNCHANGED <<startVars, chanVars, loopVars, stopClosed, shared, caller,
                 ghostVars, crashed>>

SendClosed(s) ==
  /\ stopper[s].at = "send" /\ stopper[s].on \in stopClosed
  /\ Crash("panic")

Wait(s) ==
  /\ stopper[s].at = "wait" /\ stopper[s].on \in stopClosed
  /\ Move(s, "clear")
  /\ UNCHANGED <<startVars, chanVars, loopVars, stopClosed, shared, caller,
                 ghostVars, crashed>>

(* Mutant: c.stop is left as it is.                                        *)
StopKept == stop
NoLoop == 0

Clear(s) ==
  /\ stopper[s].at = "clear"
  /\ stop' = NoLoop /\ list' = 0
  /\ Move(s, "context")
  /\ UNCHANGED <<gen, timers, chanVars, loopVars, stopClosed, shared, caller,
                 ghostVars, crashed>>

(* The context comes, and its channel is closed behind it.                 *)
TakeContext(s) ==
  /\ stopper[s].at = "context"
  /\ \/ /\ shared = "full" /\ shared' = "closed"
        /\ Move(s, "runners")
        /\ UNCHANGED <<startVars, chanVars, loopVars, stopClosed, caller,
                       ghostVars, crashed>>
     \/ shared = "closed" /\ Crash("panic")

(* The rest of Actions.Stop: the actions that run goroutines of their own. *)
(* Those of the updater and the timer poll set a flag and return. That of  *)
(* the file watcher may wait for good, or panic (see FileWatch).           *)
StopRunners(s) ==
  /\ stopper[s].at = "runners"
  /\ \/ /\ \E end \in {"stopped", "hung"} : Move(s, end)
        /\ UNCHANGED <<startVars, chanVars, loopVars, stopClosed, shared, caller,
                       ghostVars, crashed>>
     \/ Crash("files")

(* watchChan starts everything anew: new actions with new channels; the    *)
(* custom timer is added to the ones that crontimer lists.                 *)
Create ==
  /\ stopper[Watcher].at = "stopped"
  /\ gen' = gen + 1 /\ list' = gen + 1
  /\ timers' = Append(timers, gen + 1)
  /\ open' = open \cup {gen + 1} /\ ticking' = ticking \cup {gen + 1}
  /\ Move(Watcher, "created")
  /\ UNCHANGED <<stop, buffered, job, loopVars, stopClosed, shared, caller,
                 ghostVars, crashed>>

(* A main goroutine that stops the same loop may have taken the list away  *)
(* by now; it then closes the context a second time.                       *)
Run ==
  /\ stopper[Watcher].at = "created"
  /\ IF stop # 0
     THEN Crash("panic")
     ELSE /\ stop' = gen
          /\ loop' = [loop EXCEPT ![gen] = "select"]
          /\ Move(Watcher, "idle")
          /\ UNCHANGED <<gen, list, timers, chanVars, doing, stopClosed, shared,
                         caller, ghostVars, crashed>>

-----------------------------------------------------------------------------
CallerStep(c) ==
  (\E a \in Actions : ExecCheck(c, a)) \/ ExecRead(c) \/ RunTimer(c) \/ CallerSend(c)

LoopStep(g) ==
  \/ \E a \in Actions : Receive(a, g) \/ Tick(a, g) \/ JobFire(a, g) \/ JobSend(a, g)
  \/ Finish(g) \/ StopJobs(g) \/ CloseAll(g) \/ Signal(g)

StopperStep(s) ==
  \/ StopCheck(s) \/ SendStop(s) \/ SendClosed(s) \/ Wait(s) \/ Clear(s) \/ TakeContext(s)
  \/ StopRunners(s)
  \/ \E t \in Stoppers : SendAstray(s, t)

Next ==
  \/ \E c \in Callers : CallerStep(c)
  \/ \E g \in Gens : LoopStep(g)
  \/ \E s \in Stoppers : StopperStep(s)
  \/ Reconfigure \/ Reload \/ Create \/ Run

Spec == Init /\ [][Next]_vars

(* reflect.Select takes an arm that is ready time and again, the goroutines*)
(* run, and every action returns.                                          *)
Fairness ==
  /\ WF_vars(\E g \in Gens : Finish(g) \/ StopJobs(g) \/ CloseAll(g) \/ Signal(g))
  /\ \A a \in Actions : SF_vars(\E g \in Gens : Receive(a, g))
  /\ \A s \in Stoppers :
       /\ SF_vars(SendStop(s))
       /\ WF_vars(\/ StopCheck(s) \/ SendClosed(s) \/ Wait(s) \/ Clear(s)
                  \/ TakeContext(s) \/ StopRunners(s))
  /\ WF_vars(Create \/ Run)

FairSpec == Spec /\ Fairness

-----------------------------------------------------------------------------
(* Properties.                                                             *)

LoopPlaces == {"none", "select", "acting", "stopping", "closing", "closed", "done", "dead"}

(* Those behind Config.Stop.                                               *)
Behind == {"runners", "hung", "stopped"}

StopPlaces ==
  {"idle", "stop", "send", "wait", "clear", "context", "created", "dead"} \cup Behind

(* Every variable keeps its type, the channels of the actions their        *)
(* capacity.                                                               *)
StartTypes ==
  gen \in Gens /\ stop \in 0 .. gen /\ list \in 0 .. gen /\ timers \in Seq(1 .. gen)

ChanTypes ==
  /\ buffered \in [Actions -> [Gens -> 0 .. ChanCap]]
  /\ open \subseteq 1 .. gen /\ ticking \subseteq 1 .. gen
  /\ job \subseteq Scheduled \X Gens

LoopTypes == loop \in [Gens -> LoopPlaces] /\ doing \in [Gens -> Actions \cup {Nothing}]

StopTypes ==
  /\ stopClosed \subseteq 1 .. gen
  /\ shared \in {"nil", "empty", "full", "closed"}
  /\ stopper \in [Stoppers -> [at : StopPlaces, on : 0 .. Starts]]

CallerTypes ==
  caller \in [Callers -> [at : {"idle", "checked", "send", "stuck", "dead"},
                         on : (Actions \cup {Nothing}) \X (0 .. Starts)]]

GhostTypes ==
  /\ gaveUp \in BOOLEAN /\ overlap \in BOOLEAN
  /\ crashed \in {"no", "no loop", "files", "panic"}

TypeOK == StartTypes /\ ChanTypes /\ LoopTypes /\ StopTypes /\ CallerTypes /\ GhostTypes

(* Only one action runs at a time (timers.go:146), across restarts too:    *)
(* while one runs no other loop is there to begin another.                 *)
OneAtATime ==
  \A g, h \in Gens :
    doing[g] # Nothing /\ loop[h] \in {"select", "acting"} => g = h

(* When Config.Stop has returned everything of the loop is gone, and it    *)
(* stays so until the next start: no loop, no open channel, no ticker, no  *)
(* job.                                                                    *)
StopIsComplete ==
  \A s \in Stoppers :
    stopper[s].at \in Behind =>
      /\ \A g \in Gens : loop[g] \in {"none", "done"}
      /\ open = {} /\ ticking = {} /\ job = {}

(* Stopping and restarting the loop ends the process by a panic in two     *)
(* cases only, those of the file watcher aside (FileWatch!CrashHasCause):  *)
(* the scheduler did not wait for a job, or the main goroutine and         *)
(* watchChan both stopped the loop.                                        *)
CrashHasCause == crashed \in {"no loop", "panic"} => gaveUp \/ overlap

IsFull(a) ==
  \E g \in Gens : loop[g] \in {"select", "acting"} /\ buffered[a][g] = ChanCap

(* The channel of an action does not stay full, so that no trigger waits   *)
(* for good: the action runs, or the loop is stopped.                      *)
TriggersRun == \A a \in Actions : IsFull(a) ~> ~IsFull(a)

(* Every restart comes to its end, or to that of the process, unless the   *)
(* file watcher keeps the one that stops it (FileWatch!StopReturns): no    *)
(* other wait of the two goroutines, the loop and the scheduler lasts.     *)
RestartEnds ==
  stopper[Watcher].at # "idle" ~> stopper[Watcher].at \in {"idle", "hung", "dead"}

(* "Neither of these if statements should ever fire" (triggers.go:159):    *)
(* Stop always finds a loop to stop.                                       *)
StopFindsALoop == crashed # "no loop"

(* The timers that are listed can be executed (custom.go:86), at least     *)
(* while the loop runs and nobody stops it.                                *)
ListedTimersWork ==
  stop # 0 /\ (\A s \in Stoppers : stopper[s].at = "idle") =>
    \A i \in 1 .. Len(timers) : timers[i] \in open
=============================================================================
