# Notifiarr client: TLA+ models and proofs

The Notifiarr client (`src/main.go`, `src/pkg`) is a long-running Go daemon. It watches
services, files, media applications and the machine, and reports to notifiarr.com, which in
turn triggers actions over HTTP. Nearly everything it does runs in a goroutine of its own and
is reached through channels; a reload tears all of them down and builds them again in the same
process. The hard part of the program is this web of loops, and it is what these modules model.

## Inventory

| Part (code) | State it keeps | Operations | Interacts with |
|---|---|---|---|
| Service checker (`services`) | channels and life-cycle flags under `stopLock`; state of each service; running flag | `Start`, `Stop`, `Running`, `Pause`, `Resume`, `RunChecks`, `RunCheck` | website queue (results, saved states), web UI, tray, trigger loop |
| Website client (`website`) | queue of 256 requests, configuration, sticky invalid key, cached host info | `New` (also: reconfigure), `SendData`, `GetData`, `ValidAPIKey`, `TestAPIKey` | every other part; one sender goroutine |
| Error sharing (`logs`, `logs/share`) | enabled flag under a lock, time each message was last shared | `Errorf`, `Enable`, `Disable` | puts requests on the website queue |
| Trigger loop (`triggers/common`, `triggers`) | list of actions with channels and tickers, stop channel | `Add`, `Exec`, `Run`, `Stop`; `Start`/`Stop`/`watchChan` for all actions | actions, HTTP handlers, main loop |
| Custom timers, website poll (`triggers/crontimer`) | list of timers, stop flag | `Create`, `Run`, `Stop`, `PollForReload` | website queue, reload channel |
| Main loop, web server (`client`) | reload and signal channels, client lock, reloading flag | `Exit`, `reloadConfiguration`, `stop`, handlers | all of the above |
| Tunnel (`client/tunnel.go`) | pool of connections, chosen servers | start, ping, save, shut down | website, web server |
| File watcher (`triggers/filewatch`) | tails, retry counters, two locks | run, add, stop, retry ticker | website queue, handlers |
| Cooldown (`cooldown`) | last time of each key | `Active`, `StopTimer` | Plex webhook |
| Plex sessions (`triggers/plexcron`) | sessions seen, sessions announced | webhook, session tracker, finished check | website queue |
| Starr queues (`triggers/starrqueue`) | cached queues, empty flag | store, stuck items, downloading items | website queue, applications |
| Commands (`triggers/commands`) | run counters, last output | `RunNow` | operating system, website queue |
| Update (`update`, `triggers/autoupdate`) | files on disk | check, download, swap, restart | stop channel |
| Backup checks (`triggers/backups`) | mark of the last file checked, for each instance | on a timer or by a request | applications, website queue |
| Web API and pages (`apps`, `client/handlers_*.go`, `triggers/handler.go`) | limiter of deletions for each application, log files | some 200 routes | applications, trigger loop, every part above |
| Configuration store (`client/handlers_gui.go`, `gui_profile.go`, `configfile`) | configuration in memory and on disk, backups, version | pages that save, load, reload | main loop |
| Fan-outs (`checkapp`, `website/clientinfo`, `triggers/cfsync`, pings) | none that outlives a request | ask many, answer once | applications |
| Data store (`triggers/data`, `website/clientinfo`) | cached answers of the website | save, get, prune | all |
| The rest | none that lasts | | applications, operating system |

What is hard in them, at its line, is the `hazards` list of `PROJECT.json`; in summary:

* *Shutdown against use.* Stop runs while callers are between a check of a flag and the send it
  allowed, while workers hold results, while Start waits for the network.
* *Channels shared by many.* Answers that carry no name of the asker, pools whose answers are
  counted rather than matched, bounded queues that block their writers.
* *Locks held over a blocking send.* Error sharing, the web handlers and the file watcher do.
* *Reload.* The same objects are stopped by the main goroutine and restarted by the website's
  reconfiguration.
* *Results that come late.* A probe, a request or an answer that belongs to the state before.

The properties that make each part correct: the **checker** loses no change of state, never
checks a service twice at a time, and is quiet after Stop; the **website queue** answers every
request and uses no key that was refused; the **trigger loop** runs one action at a time and
never touches a closed channel; the **main loop** completes every reload; the **file watcher**
restarts what died and stops what it is told to; **cooldown** answers each caller once per
period; **starr queues** tell the website the last state; **update** never leaves the machine
without a binary.

## Plan

1. `ServiceChecker`, with its abstract specification `CheckLifecycle` and its proofs. *Done.*
2. `WebsiteQueue`: sender loop, bounded queue, retries, sticky key, error sharing that feeds its
   own queue; abstract specification `Outbox`; proofs. *Done.*
3. `TriggerLoop`: the loop of the actions, what feeds it, its stop and its restart by the
   website, a reload that races it; proofs. *Done.*
4. `ClientReload`: main loop, web server and lock, tunnel, menu, over the promises of 1 to 3; its
   safety proved. *Done.*
5. `FileWatch`; its safety proved. *Done.*
6. The parts that share no state with the others, one small module each, put together by
   `ClientParts`: `ApiRequests` (over the tables `StarrRoutes`, `ClientRoutes`), `ConfigStore`,
   `UpdateFile`, `BackupChecks`, `StarrQueues`, `PlexSessions`, `Cooldown`, `FanOut`, `Commands`.
   *Done, and the safety of all nine proved.*
7. Pure algorithms (`getTimeout`, `setParallel`, `poolMax`, the deduper) against reference
   definitions over bounded inputs. *Not done.*

Every safety property that the passing runs check is also a theorem; what is left to the runs is
under *What is only model-checked*.

## Modules

### ServiceChecker

Models `pkg/services`. One `Services` object is started once (`client/start.go:260`; a reload
makes a new one), so `Init` is the object as `add` leaves it and `starter` walks through `Start`.

* *Goroutines.* `starter` (Start), `stopper[p]` (each Stop), `checker` (`runServiceChecker`,
  `runChecks`, `stopWorkers`), `worker[w]` (`watchServiceChan` and `Service.check`) and
  `caller[c]` (the exported methods). One action is a section under `stopLock`, one channel
  operation, or one `select`.
* *Channels.* `checks`, `done`, `actionChan`, `replyChan`, `triggerChan` and `checkChan` are
  sequences with the capacities of the code as constants. `stopped` and `cancelled` are the
  closed channel and the done context; `live` says that the fields are not nil.
* *A pass* over the services is the record `pass`: what is left to queue, how many answers are
  outstanding, whether one said "changed". `Enqueue` and `Collect` are the two arms of the
  select in `enqueueCheck`; `Collect` is also `waitChecks`.
* *Abstractions.* What a probe finds is any of `Verdicts`, or, when the context is already done,
  also `Aborted`: the Critical that a cancelled probe reports, kept apart from an honest one so
  that a property can speak of it. Time is left out: a tick finds any non-empty set of scheduled
  services due, and an empty one changes nothing. Queueing the results on the website's queue is
  one step that may take forever only if that queue does (`WebsiteQueue`).
* *History variables.* `unsent` (services that changed since the website was last told) and
  `pausedBy` (callers whose Pause was accepted and not undone).

`CheckLifecycle` says what the rest of the client may rely on: the checker opens, checks each
service by one check at a time, changes a state only by a check under way, and closes for good
with no check under way. `KeepsPromise` is the refinement: `checking` is what is queued or in
the hands of a worker, `phase` follows `stopped` and the checker.

| Run | Instance | Shows |
|---|---|---|
| `ServiceCheckerPool` | 2 workers, 2 services, 2 verdicts, one caller with all methods but the log trigger, 1 Stop, all channels of capacity 1; 2.1 million states | the seven invariants, `StatesSettleAtStop`, `PauseIsObserved`, `KeepsPromise` |
| `ServiceCheckerCalls` | 1 worker, 1 service, 2 Stops, a caller with `Running`, `RunCheck` and the log trigger; fairness | `StopReturns`, `CallsReturn`, `EventsAreServed` |

*Why these bounds.* Two workers and two services are the least with two checks under way at once;
capacity 1 for `checks` with two services and two workers makes the queue full in the middle of
a pass, which the real 1000-place buffer reaches only with a large configuration; one place in
each control channel makes callers block. The deadlock check is off because a stopped checker
with all callers idle is the normal end. The log trigger is left out of the first run only
because `ChangesReported` is false with it by design (see the hazards); it is in the second.

*Fairness.* Each goroutine that can run does (weak fairness of its steps). A Go `select` picks
among ready arms at random and channels serve blocked senders in order, so an arm that is ready
again and again is taken: strong fairness of the arms of the checker's loop and of a caller's
select. No fairness is given to calls, to Stop being called, or to the parent context.

### What is proved (`ServiceCheckerProofs`)

For any sets of callers, stoppers and services, any finite non-empty pool and any capacities
(`ServiceAssumption`), TLAPS checks:

* `Invariance`: the inductive invariant `IInv`. The properties are not inductive by themselves:
  that a pass ends with the pool at rest needs the count *outstanding = queued + in hand +
  answered* (`AccountInv`), which needs to know where the nils of a shutdown are (`DrainInv`),
  which needs to know which goroutines can be alive when (`LifeInv`, `WorkerInv`). `PlaceInv`
  says that a service is at one place only, `VerdictInv` that an aborted result does not get past
  the worker's look at the context. Counting workers uses the cardinality facts of the library.
* from it the invariants `TypeOK` (`TypeCorrect`), `PassIsComplete` (`PassesComplete`),
  `OneCheckPerService` (`ChecksAreExclusive`), `StopIsQuiet` (`ShutdownIsQuiet`),
  `AbortedNeverKept` (`CutShortIsDropped`), the action property `StatesSettleAtStop`
  (`StatesAreFinal`) and the refinement `KeepsPromise` (`PromiseKept`).
* `RepliesMatchWaiters` (`AnswersMatchCallers`), which with the finiteness of the set of waiters is
  inductive on top of `IInv`: the channel of actions is counted by the places where it holds a
  question, so the proof needs what a send and a read do to that set (`AskCounts`, `ReadCounts`).
* `ChangesReported` (`ChangesAreTold`), if no caller uses the log trigger (`NobodyLogs`; with one it
  is false by design, see the hazards). `UnsentInv` says where a change is that the website does not
  know of: in a pass that reports whatever happens, in what the pass has collected, in an answer on
  `done`, or with a worker about to answer. That the last two are empty when a pass ends is
  `AccountInv`'s count again.
* `PauseIsObserved` (`PausesAreObserved`), if one caller at most uses `Running` (`OneAsks`; two may
  take each other's answers, see the hazards). `PauseInv` looks ahead in the channel of actions: what
  stands before a question leaves the checker paused when the question is read. A second question
  cannot be under way by `RepliesMatchWaiters`.

### WebsiteQueue

Models `pkg/website` as far as requests go, with the sharing of errors (`pkg/logs/share`) that
feeds it. One goroutine, `watchSendDataChan`, takes requests from the queue and posts them one
at a time.

* *State.* `queue` is the channel `sendData`; `hand`, `attempt` and `result` are the request the
  sender works on, the counter of the retry loop in `Do`, and the outcome; `unread` says whether
  the buffer that is the request's body still holds the payload. `invalid` is the sticky
  `invalidKey`. `readers` and `writer` are the `RWMutex` of the share package: as in Go, a writer
  that waits keeps new readers out. `rejected` is history.
* *Actions.* `Take` is `sendRequest` up to the choice between a file and a payload, with
  `checkAPIKey`; `GetHostInfo`, `HostLock`, `HostShare` are the start of `sendPayload`: without
  host info it logs a *shared* error, so that the sender itself puts a request on its queue;
  `PostDone`, `PostRejected`, `PostAgain` are the outcomes of one pass through `Do`; `Finish` is the
  answer on the request's own channel. `Reconfigure` is `New` handing its configuration to the
  sender's select. Callers are any goroutines of the client, with the methods `Ops` gives them.
* *Abstractions.* The website answers in any way. Whether the deduper or missing client info stops
  a shared error is a choice (`LogLock`). Timeouts are outcomes of a post. Errors logged with
  `ErrorfNoShare`, and everything that formats, are left out. How `net/http` treats a body that
  was read is external: it sends the rest of the buffer, which is nothing.
* *Abstract specification.* `Outbox`: a bounded queue whose requests are handled one at a time,
  each once, in order, and refused only while the key is known to be bad. `KeepsPromise` maps
  the request in hand to its head.

| Run | Instance | Shows |
|---|---|---|
| `WebsiteQueueMixed` | 3 goroutines (ask and upload; log and reconfigure; send and toggle), queue of 1, default of 1 retry, a good and a short key, host info that may be unknown; fairness | `TypeOK`, `KeyVerdict`, `OneRequestPerAsk`, `KeepsPromise`, `CallsReturn` |
| `WebsiteQueueStuck` | one asker, two senders, host info that may be unknown; fairness | `GetDataReturns` **fails** |
| `WebsiteQueueResend` | the same without host trouble, settings 0 and 1 | `RetriesSendPayload` **fails** |

*Why these bounds.* The queue holds 256; nothing looks at how full it is except "is there room",
so one place makes every writer meet a full queue. Three goroutines are the least with a request in hand, one queued
and one blocked while a configuration arrives. One retry has both sides of the comparison.

*Fairness.* The sender's select and the senders blocked on the channel are served in turn (strong
fairness, as for the checker). A post of a payload ends by its deadline (`getTimeout`), one of a
file has none, so only the former is fair. `CallsReturn` therefore excludes two states that last
for good: the sender waiting for itself (`WaitsForItself`) and an upload the website never
answers. The first is a finding, the second a hazard. The deadlock check is off because the first is a deadlock
the code really has, and because callers need not call.

*Proved* (`WebsiteQueueProofs`), for any callers, keys, settings, capacity and default
(`WebsiteAssumption`): the inductive `IInv` (`Invariance`), then `TypeOK`, `KeyVerdict`,
`OneRequestPerAsk` and the refinement `KeepsPromise`. `WorkInv` ties the place of the sender to
what it holds; `KeyInv` says that a refusal's evidence belongs to the configuration in force, which
needs that `New` meets the sender only at its select; `AskInv` counts the requests of each
waiting `GetData` by positions of the queue, which `Append` and `Tail` shift. `TypeOK` contains
`attempt <= retries`, inductive because the configuration cannot change under an attempt.

### TriggerLoop

Models `pkg/triggers/common` (the loop, `Exec`, `Stop`), the goroutine `watchChan` of
`pkg/triggers` that stops and restarts everything when the website sends another configuration,
the list of custom timers (`pkg/triggers/crontimer`), the handlers that trigger actions, and the
main goroutine that stops the loop to reload (`client/start.go:411`).

* *Generations.* Each start makes new channels, tickers and a new loop. `gen` counts the starts;
  `open`, `ticking`, `stopClosed` and `loop` are by generation. `stop` and `list` are the fields
  `c.stop` and `c.list`: the generation they refer to, or 0 for nil. This keeps apart what a
  goroutine *read* from what is there *now*.
* *Stopping.* A goroutine in `Config.Stop` walks through `stop`, `send` (the message), `wait` (for
  the channel to be closed), `clear` (the fields set to nil), `context`, `stopped`. The loop walks
  through `stopping` (the scheduler), `closing`, `closed`, `done`. The context is handed over
  through the shared channel `sharedCtx`; `shared` is its state. Behind `Config.Stop`, `Actions.Stop`
  (`triggers.go:148-158`) stops every action with goroutines of its own (`StopRunners`, at `runners`):
  the updater and the timer poll only set a flag, the file watcher may keep who stops it for good
  (`hung`), as `FileWatch` shows, or panic (`crashed = "files"`). `SendAstray` is what two goroutines on
  one unbuffered channel can do to each other.
* *Feeding.* `ExecCheck`/`ExecRead`/`CallerSend` are `Exec`: it looks for the trigger, then reads
  the field again to send, so that a stop may come between. `RunTimer` is `customTimer`, by an
  index into the list. `JobFire`/`JobSend` are the scheduler's jobs, `Tick` the tickers.
* *Crashes.* A panic in a handler is recovered by `net/http`; one in a loop, a job, `watchChan` or
  the main goroutine ends the process (`Crash`; `CapturePanic` logs and panics again).
* *External.* The scheduler (gocron) waits for running jobs for a while only and recovers nothing.
* *Abstractions.* An action does nothing and returns. The up-check at start and the flag `stop` of
  crontimer are left out; of the file watcher there is only what its stop does to who waits for it.
* *History variables.* `gaveUp`: the scheduler did not wait for a job. `overlap`: the main
  goroutine stops the loop while `watchChan` is at it.

| Run | Instance | Shows |
|---|---|---|
| `TriggerLoopRestart` | an action with a ticker and one with a job, one handler, 3 starts, a reload at any time, channels of 1; fairness; 264,566 states | `TypeOK`, `OneAtATime`, `StopIsComplete`, `CrashHasCause`, `TriggersRun`, `RestartEnds` |
| `TriggerLoopTimers` | the same | `ListedTimersWork` **fails** |
| `TriggerLoopRace` | the same | `StopFindsALoop` **fails** |

*Why these bounds.* Three starts have a restart whose stop meets leftovers of an earlier restart;
every action's channel has one place in the code too; one handler is enough to hold a channel of an earlier generation while the others move.

*Fairness.* `reflect.Select` picks at random among ready channels, so the arm of each action and that of
the stop message are strongly fair; the loop and the goroutines that stop it are weakly fair; an
action is assumed to return, which the code bounds by the timeouts of its requests, as long as the
website's queue moves: an action that waits for room in it waits as long as the queue stands
(`WebsiteQueue`, `CallsReturn`). `StopRunners` is fair, and one of its outcomes is to wait for good: no
restart is promised when the file watcher hangs, so `RestartEnds` ends at `idle`, `dead` or `hung`. What
it says is that no other wait of the two goroutines, the loop and the scheduler lasts. No fairness
for handlers, tickers, jobs, reconfigurations or the reload. The deadlock check is off: the loop
is gone for good after a reload or a crash.

*Proved* (`TriggerLoopProofs`), for any actions, callers, capacity and number of starts
(`TriggerAssumption`): `IInv` (`Invariance`), then `TypeOK`, `OneAtATime`, `StopIsComplete` and
`CrashHasCause`. `GenInv` says that earlier generations are gone and later ones have not begun;
`ContextInv` that the context is handed over once for each loop, which is why at most one
goroutine gets past `Stop` even when two overlap; `SoleInv` gives, while nothing overlaps, what
the one goroutine that stops finds at each place (`Stage`), from which no crash but that of a
job can happen; `DeadInv` that a crash had one of the causes and left nothing to run.
`CrashHasCause` is not inductive without all of them.

### FileWatch

Models `pkg/triggers/filewatch`: the goroutine of `cmd.run`, which reads all files through one
`reflect.Select`, the handlers of the web UI that start and stop one file (`Handlers`), and
`watchChan`, which stops all of them and runs the loop again (`Stopper`).

* *State.* `tail` and `retries` are the fields of each file; `watched` is the list of cases, a bag
  because the order does not matter to a random choice; `added`, `chan` and `cap` are the channel
  `addWatcher`; `writer` is the writer of `awMutex`, which as in Go keeps readers out while it
  waits. A goroutine is `at` a place, with the file it works `on`; `todo` is what is left of a
  loop over the files.
* *Actions.* `Setup` and `Collect` are the start of `run`; `Line`, `Take`, `Gone`, `Tick` and
  `Leave` the arms of the select; `Kill` and `Unwatch` are `killWatcher`, cut where `deactivate`
  looks at the file under one lock and stops it under another. `StopCheck`, `Mark` and `Halt` are
  `WatchFile.Stop`, cut in the same way. `TickFile` to `QueueRestart` are the ticker.
* *External.* A tail (nxadm/tail) closes its lines when it is stopped or dies of an error; `Stop` of one
  that died returns the error every time. Opening one fails only for `MayMiss`.
* *Crashes.* A panic in a handler is recovered by `net/http`; one in the loop or in `watchChan`
  ends the process. `crashed` is `"early"` if `stop` came before `run` had made its channel.
* *Abstractions.* A line is its effect on `retries`; what it matches and what is sent is left
  out. The ticker ticks only when that does something.
* *History variables.* `doubled`: a file was set up although its tail lived, so that nobody can stop that
  tail any more. `rushed`: a file was started or stopped while another goroutine was at it.

| Run | Instance | Shows |
|---|---|---|
| `FileWatchCheck` | 2 files, one of which may be missing, 1 handler with 2 requests, 1 restart, 1 retry, 2 tails at a time; fairness; 963,234 states | `TypeOK`, `ActiveIsWatched`, `StopIsComplete`, `CrashHasCause`, `StopReturns` |
| `FileWatchDead` | the same | `DeadRestarted` **fails** |

*Why these bounds.* Two files are the least with one that dies while the other is stopped, which is
when the ticker looks at both. A handler with two requests can start what it has stopped while
the loop is still at the old tail. One retry has both sides of the comparison. The channel has at
least three places, which two requests do not fill: that the loop fills it by itself, with three
and more starts of one file during one tick, is outside of the instance.

*Fairness.* The loop, once out of the select, and `stop` run on; the arms other than lines are not kept
waiting by lines for ever; handlers are served. None for calls, tails that die, or stops.
`StopReturns` excludes two states that last: the loop waiting for the read lock that `stop` holds while it
waits for the loop (`WaitsForStop`, a deadlock the code has when a restart by the ticker meets a
stop), and `doubled`. The deadlock check is off: after the last restart nothing need happen.

*Proved* (`FileWatchProofs`), for any files, handlers and tails and any bounds (`FileAssumption`): the
inductive `IInv` (`Invariance`), then `TypeOK`, `ActiveIsWatched`, `StopIsComplete` and `CrashHasCause`.
`LockInv` and `ChanInv` give the states of `awMutex` and of the channel by the places of `stop` and the
loop: nobody adds a file while `stop` is at work, the channel is closed only while it waits, and the loop
that has ended left nothing to read. With this `ActiveIsWatched` is inductive: a tail that lives moves
from `valid` or the hands of who opened it through the channel into the cases, and leaves those only
when it is closed. It is also why `StopIsComplete` follows: what could be watched is gone, so nothing
lives. `UseInv` says that a file somebody is about to use has a tail, until `rushed`; every dereference
of a tail that is not there, hence every panic but the early one, needs it to fail first.

### ClientReload

Models the goroutine of `main` in `pkg/client/start.go` (`Exit`, `reloadConfiguration`, `stop`), the
web server (`webserver.go`), the tunnel (`tunnel.go`), the requests and menu items that reload,
restart or end the client, and the actions that do.

* *State.* `pending` is what the three channels hold, `lock` the client's `RWMutex` as far as anybody
  holds it while it waits, `reloading` the flag that the web UI polls. `server` and `tunnel` are
  numbered, so that what a goroutine meets can be told from what it began with: `serving` listens,
  `down` was shut down, `up` are the tunnels that run. `fresh`, `ready` and `failing` count the
  goroutines in `RunWebServer` by how far they have come. `via` is what a handler's request came
  through, since a server's shutdown waits for its own requests only.
* *Actions.* The main goroutine walks `select`, `tunnel`, `lock`, `drain`, `actions`, `runners`,
  `config`, `clear`, `setup`, `start`. `StopServer` to `TimedOut` are `StopWebServer`, which the menu calls as
  well. `ReloadAppNow` and `Send` are the handler that writes to the reload channel under the lock;
  `ConfigPost` and `TriggerConfigReload` the one that does without; `SaveTunnels`/`MakeTunnel` the
  page that replaces the tunnel; `HandleConfigReload`/`ReloadApp` the action "reload" over HTTP.
* *Of the other modules* only this is kept: the loop of the actions runs one at a time, an action may
  ask for a reload or the end, and Stop waits for it (`TriggerLoop`). Then the file watcher and the
  services are stopped (`StopRunners`), which ends, or lasts for good (`hung`: `WaitsForStop` or `doubled`
  of `FileWatch`, or a checker that waits for a queue that does not move), or panics (`StopPanics`).
* *Abstractions.* A page that only reads takes the lock and lets it go in one step (`Ping`). The
  configuration that cannot be read or is not valid is `ConfigFails`. The item Quit, an address taken
  by another program, and what happens before `Exit` are left out.
* *History variables.* `raced`: a server or tunnel was started while the main goroutine stopped them.
  `asked`: somebody asked for the end.

| Run | Instance | Shows |
|---|---|---|
| `ClientReloadMain` | 2 handlers, the menu, 3 web servers and tunnels, 3 calls; fairness; 675,350 states | `TypeOK`, `FlagIsTrue`, `QuietReload`, `ExitHasCause`, `ReloadsEnd` |

*Why these bounds.* Two handlers are the least with one that holds the lock while another's request
fills the channel; three calls let a second reload be asked for while the first is under way and a
third party meet both; three servers are two reloads.

*Fairness.* Each goroutine that can run does. Nobody need call, and no select of this module is starved
by another. A handler can always run but where it waits for the lock or for room. `ReloadsEnd` excludes
what may hold up the stop of the parts below (`RunnersStay`), and the two deadlocks of this part:
`LockedOut`, a handler that holds the lock and waits for room in the channel that only the main
goroutine, which waits for the lock, empties; `LoopWaits`, the same with an action and `Stop`.
The deadlock check is off for them and for the end of the process.

*Proved* (`ClientReloadProofs`), for any handlers and bounds (`ClientAssumption`): the inductive
`IInv` (`Invariance`), then `TypeOK`, `FlagIsTrue`, `QuietReload` and `ExitHasCause`. `WebInv` says
which server may listen: only the one `server` names, and none that was shut down, from
which a second listener, the address in use and the end of the client follow only if two goroutines are in
`RunWebServer` at a time. `TunnelInv` says that what runs besides the current tunnel was started by a
save that raced. `CauseInv` follows each message in the channel `sigkil` back to who sent it.

### ClientParts

Nine parts of the client share no state with each other, and hardly with the modules above. Each is a
module of its own; `ClientParts` instantiates them and lets one of them move (`part`), so that one
run, `ClientPartsAll`, checks them all on one set of bounds. What does not move begins in one state.
The actions of two parts are independent, so nothing is lost by this. Where parts do meet, the module has
the meeting: a reload is an action of `ApiRequests`, `ConfigStore`, `BackupChecks`, `StarrQueues` and
`PlexSessions`.

| Module | Models | Property in the run |
|---|---|---|
| `ApiRequests`, over `ApiSteps`, `StarrRoutes`, `ClientRoutes` | requests to the web API and the pages, `handleAPI`, `apiError`, the limiter of deletions (`DelOK`), a reload between | `AnswersAreTrue`, in `DoneOnce` `RetriesAddOnce` |
| `ConfigStore` | saving the configuration, from the page or a login to the rename, through the web server or the tunnel; backups of one second; a reload in its steps, a crash anywhere | in `WholeCopy`; `NoLossAfterReload` |
| `UpdateFile` | check, download, two renames, start of the new binary, three updaters at once, a kill anywhere | in `WholeCopy` |
| `BackupChecks` | the newest backup of each instance, which may be deleted, its mark, the timers and requests, results that come late or are lost, the configuration that brings the marks | in `ReportsAreTrue`, `MarksAreTold` |
| `StarrQueues` | storing queues and titles, downloading and stuck items, the empty flag | in `ReportsAreTrue` |
| `PlexSessions` | `getSessions`, the session tracker, finished items, webhooks, across reloads | in `DoneOnce`, `ToldOnce` |
| `Cooldown` | `Active` and the goroutine that answers it | in `DoneOnce`, `OncePerCooldown` |
| `FanOut` | four ways to ask many and answer once: a pool with a channel, a goroutine each, in turn, a collector | in `AnswersAreTrue`, `AnswersAreWhole` |
| `Commands` | one run of a custom command at a time, and the pages that show it | in `ReportsAreTrue`, `StatsAreOfOneRun` |

`ClientPartsAll` has 2,729,867 states. Its view (`MCView`) tells states apart by the variables of the part that
moves alone, which is the same, as the others keep the one state they began in, and quicker. Its properties, and what each makes an exception of because the
code does:

* `AnswersAreTrue`. A handler is a sequence of steps (`ApiSteps`), and the tables give each route's; the
  application refuses, fails, or does what it was asked and loses the answer. The status of success
  says that what the route is for was done; another below 500 that nothing was. The exception is the
  406 of the file browser. What a route only asks another goroutine for may be dropped (`Try`, which sets
  `noted`), and a 200 promises nothing of it: a trigger while the loop is stopped; `services`, which
  a halted checker only logs (`interface.go:26`); starting and stopping the services, which a stopped one
  passes over (`services.go:353`); `reconfig`, answered before it fetches what may not come
  (`triggers.go:173`). The same is true of a deletion in a list that fails. `AnswersAreWhole`: an answer has everybody's result, and a
  request that waits for good waits for pings that ended without a result
  (`tunnel.go:257`) and for nothing else.
* `DoneOnce`. `RetriesAddOnce`: an addition tried again is found, unless two requests are at work
  at once. `OncePerCooldown`: neither channel is buffered, so an answer that does not say
  whose it is still reaches who asked. `ToldOnce`: unless a webhook of an old configuration and the
  new one ask Plex at the same time, each with the lock of its own configuration (`crossed`).
* `WholeCopy`. Of the configuration: until so many backups that are not whole were made that the last whole
  one is gone (`rotated`), or one save's copy went over another's of the same second (`shared`): `copyFile`
  looks whether the name is taken and opens it with `O_TRUNC` later (`helper.go:167`, `182`), and no lock is held
  (`BackupFile`, `OpenConfig` and `CopyFile` are the three steps). Of the binary: until the client installed `Keep` binaries that do not start (`bad`), or two
  updaters made a backup in one second (`overwritten`).
* `NoLossAfterReload`. The version in the form protects a change only from saves that came before the
  last reload: until the reload, or with none, `behind` is true and a save may drop it. A reload waits for
  the saves that came through the web server, and not for those through the tunnel (`start.go:420-424`,
  `tunnel.go:98`): such a save has passed its check before the reload, or meets the empty configuration that
  `reloadConfiguration` begins with (`start.go:363`), and may rename after it (`outlived`).
* `ReportsAreTrue`. `empty` says that the website knows, or that the payload was lost (`lost`); what is
  told of an application is its own, unless a reload moved it to another place (`moved`). A mark is
  of a file whose result reached the website, or was put into the queue for it under this configuration
  (`here`): nobody waits for it (`corruption.go:295`), and one that is lost is made good by the next
  configuration at the earliest. A timer reports a file again only when it is the newest again because
  a newer one was deleted. A page shows one run, unless it was `crossed` by one, as the
  command line is written under a read lock, or a run ended before it had a line (`lineless`).

*Why these bounds.* One request may be for any route, the other for those that share something (titles,
the limiter); two requests are the least that can be between each other's look and addition. Two saves
and one backup kept let a save rotate the copy another depends on. Two binaries kept and four downloads
are the least with which the good one rotates out. Two instances can change places. Three goroutines ask for
a cooldown, two of them for one key. Three jobs give a pool of two workers and a channel of one.
The deadlock check is off: every part may come to rest. No liveness is claimed here: the parts end when
what they ask ends.

*Proved* for all values of the constants (`PartsAssumption`): every property of the run. Each part has
an inductive invariant, a theorem about its own specification (`Cfg!StoreSpec`, `Api!ApiSpec`, ...) and a
lemma that a behaviour of `ClientParts` is one of that part (`CfgOfParts`, ...): a step is a step of the
part or leaves its variables alone. The properties of the composition follow from these.

| Module | Theorems | Of |
|---|---|---|
| `ClientPartsFilesProofs` | `ACopyIsWhole` (`WholeCopy`), `OnlyUnloadedIsLost` (`NoLossAfterReload`) | `ConfigStore` (`Cfg...`), `UpdateFile` (`Upd...`) |
| `ClientPartsAnswersProofs` | `EveryAnswerIsTrue` (`AnswersAreTrue`), `EachIsDoneOnce` (`DoneOnce`) | `ApiRequests` (`Api...`), `FanOut` (`Fan...`), `Cooldown` (`Cool...`), `PlexSessions` (`Plex...`) |
| `ClientPartsProofs` | `EveryReportIsTrue` (`ReportsAreTrue`), `PartsTypeCorrect` (`TypeOK`) | `StarrQueues` (`Que...`), `BackupChecks` (`Chk...`), `Commands` (`Com...`); types of all |

The arguments, by the invariant that makes each go through:

* `CfgIInv`. After the last whole backup at most `rotated` others were made, unless one was `shared`; or there
  is no need of one yet: what is in place is whole, nobody is past his backup, and who copies has opened
  what is in place (`CfgCopyInv`); a file that a save writes has no name yet, or only the
  temporary one of its second (`CfgNamesInv`), so that a cut-short write is not one of the file in use.
  For `NoLossAfterReload`: the version of what is in memory is that of the file, until `behind`, and
  whatever may replace the file and has this version has all the changes in it (`CfgVersionInv`,
  `CfgChangesInv`). The saves that `behind` and `outlived` forgive are those that come between. Without the
  latter no request is under way while a reload replaces the configuration.
* `UpdIInv`. At most `bad` backups come after the last good one, so cleaning deletes it only when
  `bad >= Keep`; before the first backup nobody has touched the good binary at the path. That there is
  never more than one backup too many (`TypeOK`) is since one updater at a time is between the renames.
* `ApiIInv`. What is left of a handler is again one that does one thing at most; after it has, there
  are only failures that say "perhaps" (5xx, 406) (`ApiAtWork`). When no two requests were at work
  at once, the one that is looks before it adds (`ApiAloneInv`). This rests on how the tables are
  written, `InOrder`, a part of `RequestsAssumption` that is no choice of the instance: the routes are
  definitions, and TLC goes through all of them. Each copy but the first was made by another request
  (`ApiCopyInv`), which bounds `copies`.
* `FanIInv`. `owed` is the number of those who are waited for, by name (`FanOwing`); a job of the
  pool is in the channel or with a worker, and a worker leaves only an empty, closed channel.
* `CoolIInv`. At most one answer is on its way, and then one asker waits for it, since the second question
  is not taken before; so the only asker of a cooldown that is told "not active" is who began it.
* `PlexIInv`. Unless two configurations asked at once, whoever asks Plex holds the lock and compares with
  the list that is stored, and what is stored, what an answer says and what Plex knows come in this order
  for each session: a session that was told of is in the list (`PlexOnceInv`). What is finished is counted
  by the configurations that keep it in mind.
* `QueIInv`, `ChkIInv`, `ComIInv`. As long as nothing was moved, what is stored for a place is of its
  application; the website can hand out as checked only what reached it, what else is marked was queued under this
  configuration, and the last file that was made is the mark once it was reported, as long as it is there
  (`ChkTimed`); between two runs all that
  is kept of a command is of the last one.

## What is only model-checked

* All liveness (`StopReturns`, `CallsReturn`, `EventsAreServed`, `TriggersRun`, `RestartEnds`,
  `ReloadsEnd`), because the prover does not treat liveness under fairness.

The properties of the violation runs are false. What the recursive folds of `StarrQueues` compute
for every queue is beyond the prover; TLC evaluates them on the queues of the instance.

## Findings

* `FileWatchDead` (`filewatch.go:467`): a tail that died of an error makes `stop` return before it
  forgets the tail. The file counts as active, so the ticker that is to restart dead watchers
  (`filewatch.go:307`) never does, and the web UI neither starts nor stops it.

* `TriggerLoopTimers` (`custom.go:161`): `create` appends the website's timers to a list nothing
  empties. After a reconfiguration the list begins with timers whose channels are closed; the
  website triggers a timer by its index (`handler.go:195-202`) and hits one of those. `List`
  promises "active triggers that can be executed" (`custom.go:86`).
* `TriggerLoopRace` (`common/triggers.go:164`): a reload of the main goroutine and a restart by
  `watchChan` stop the same object; the second finds `c.stop` nil and panics, in the check of which
  the code says that it "should never" fire (`triggers.go:159`).
* `WebsiteQueueStuck` (`website.go:166`): with a full queue and unknown host info the sender waits
  for room in its own queue; `GetData` never returns.
* `WebsiteQueueResend` (`website.go:47`): a retry after an answered failure passes the same request
  with its body already read. The retries that are to mitigate a 521 send no payload.

### Seen on the way, without a run

Found while translating the code; each is in the models as the code has it, or named where a
property makes an exception for it, and none contradicts a text of the repository closely enough for
a run of its own.

* `services.go:338`: `Running` takes the next answer from a channel that all callers share. Of two
  goroutines in `Running` each may take the other's, so that one which has just returned from `Pause`
  can be told that the checks run. The runs of the checker have one such caller.
* `website.go:78`: a setting of 1, documented to disable retries, posts twice.
* Web API. The documentation of the route that deletes a queue item names 423, which its handler never
  answers. `moveFiles` is read from the path's variables, where it never is. A request that triggers
  an action answers 200 while the loop is stopped, and one for an unknown log file does, too; so do
  `services`, `reconfig` and the page that stops and starts the services when nothing comes of them. A log
  file whose deletion fails is answered with 500 and then "ok". The file browser answers 406 after it
  made a file in a folder it cannot read. An addition is a look and then an addition, so two at a time
  both pass; profiles, lists, tags and notifications are added without a look, so one that is tried
  again is added twice. A token of the limiter is spent by a deletion that fails, and a reload gives
  full limiters.
* `VersionHandlerInstance` indexes by what the path has: instance 0, or one too large, panics.
* Configuration. The menu's "write config" raises the version in memory only. A new password stays in
  memory when the copy of the configuration fails (`gui_profile.go:438-441`), and so do a profile's
  upstreams after a failed save. Two saves in a second may share the temporary file, and one is
  answered 500 although what it wrote is in place; they may share the backup, too, and the second then truncates
  it after the first has renamed. A request through the tunnel that meets a reload may work on an empty
  configuration (`start.go:363`) and save it over the whole one. Each failed save makes a backup, too, which rotates
  good ones out. With no reload asked for, a later save replaces an earlier one without a word.
* Starr queues. The key of the cache is the kind, a media number and the instance's index run
  together, ambiguous from eleven instances on. The cache survives a reload, so that titles may be
  another application's for up to an hour. Looking for downloads writes sizes as IDs into the cached
  items. `empty` is set before the payload is sent.
* Plex. A session whose section cannot be looked up is never told of. What is finished is told again
  after a reload. Paused, buffering, playing is not seen as resumed.
* Update. The status of the download's answer is not looked at, an archive without a binary is no
  error, and the first rename is not undone when the second fails. Backups have names of one second.
* Backups. A payload that is lost is not repeated before a reload brings the website's marks. When the newest
  backup is deleted, an older one is checked and reported again.
* A reconfiguration or a reload that stops the file watcher in its deadlock does not end.
* `checkapp/checkall.go:206-216`: the workers of the pool share the variable `start`, so the time a
  check took may be counted from the start of another.
* Commands. A run whose command line cannot be made shows the output "<nil>" and the line of the run
  before.

## Not modelled

* Probes, validation, formatting and logging of the services package.
* The save of a new password by the flag of the command line (`cli.go:78`), which runs without the client's
  goroutines. The password of the menu (`tray_commands.go:193-225`) changes the running configuration only and
  is not in `ConfigStore`; what it does to the web server is in `ClientReload`.
* An application that completes an addition only after the client has given up waiting for its answer: among
  the outcomes it has done so when the request ends, or does not.
* Of `plexcron` the telling of a session that plays again after a pause, of `website` the shared error of a
  payload that cannot be compressed, of `backups` the action that sends the lists of backups, which keeps
  nothing.
* Dashboards, gaps, lists, MDBList, log uploads and snapshots: they read other systems one after the
  other, queue one request (`WebsiteQueue`) and keep nothing. Their triggers are routes.
* The clients of the applications (`golift.io/starr` and others), `net/http`, the websocket pool
  (`golift.io/mulery`), the scheduler (gocron) and the tails (`nxadm/tail`) are external: the modules
  have what the code relies on of them, as a choice of outcomes.
* `configfile/words.go` is a list of names and `configfile/template.go` one text template: data,
  with no operation to model. Flags, environment variables and defaults are read once at start.
* Toasts, dialogs and the layout of the menu; what the menu does to the client is in `ClientReload`.
* Rotation and formatting of logs. Which messages are shared, and what that does to the queue, is in
  `WebsiteQueue`.

`PROJECT.json` lists each with its reason.
