----------------------------- MODULE ClientReload -----------------------------
(***************************************************************************)
(* The main loop of the client (pkg/client) and what it tears down and     *)
(* builds again on each reload: the tunnel, the web server, the actions.   *)
(* Three channels of one place ask for a reload (reload, sighup) or for    *)
(* the end (sigkil). One lock, that of the client, guards the web server   *)
(* and the flag "reloading"; the main goroutine holds it while it waits    *)
(* for the requests under way, and handlers hold it while they wait for    *)
(* room in the channel.                                                    *)
(*                                                                         *)
(* Of the actions only this is kept: the loop runs one at a time, an       *)
(* action may ask for a reload or for the end, and Stop waits for it       *)
(* (TriggerLoop). What is stopped behind the loop, the file watcher        *)
(* (FileWatch) and the services (ServiceChecker), waits for nobody         *)
(* modelled here; it may return, never return, or panic. Everything else   *)
(* that an action does comes to an end, which takes a queue of the website *)
(* that moves (WebsiteQueue).                                              *)
(***************************************************************************)
EXTENDS Integers, FiniteSets

CONSTANTS
  Handlers,      (* requests that may be under way at a time               *)
  Main, Tray,    (* the main goroutine and that of the menu                *)
  Nobody,
  MaxServers,    (* bound: web servers and tunnels made                    *)
  MaxCalls       (* bound: requests, menu items, signals, actions that ask *)

ASSUME ClientAssumption ==
  /\ Main # Tray /\ {Main, Tray} \cap Handlers = {} /\ IsFiniteSet(Handlers)
  /\ Nobody \notin Handlers \cup {Main, Tray}
  /\ MaxServers \in Nat \ {0} /\ MaxCalls \in Nat

Procs == Handlers \cup {Main, Tray}
Numbers == 0 .. MaxServers
Asking == {"reload", "sighup", "sigkil"}

VARIABLES
  at,         (* where the main goroutine, the tray and each handler is    *)
  event,      (* what the main goroutine stops for: "none", "reload",      *)
              (* "exit", or "failed"                                       *)
  pending,    (* how many values each channel holds, 0 or 1                *)
  reloading,  (* c.reloading                                               *)
  lock,       (* who holds the client's lock                               *)
  server,     (* c.server, by number, 0 is nil                             *)
  serving,    (* the servers that listen                                   *)
  down,       (* those that were shut down                                 *)
  fresh,      (* goroutines in RunWebServer that have not made theirs,     *)
  ready,      (* have made it and not yet listened,                        *)
  failing,    (* could not listen and report it                            *)
  via,        (* the server each handler's request came through, 0 for the *)
              (* tunnel                                                    *)
  tunnel,     (* c.tunnel, by number, 0 is nil                             *)
  up,         (* the tunnels that run                                      *)
  loop,       (* the loop of the actions: "idle", "gone", or the channel   *)
              (* that its action waits for                                 *)
  detached,   (* goroutines that wait to ask for a reload: those of        *)
              (* handleConfigReload                                        *)
  calls,
  raced,      (* history: a web server or a tunnel was started by somebody *)
              (* while the main goroutine was stopping them                *)
  asked,      (* history: somebody asked for the end                       *)
  crashed     (* the main goroutine panicked                               *)

askVars == <<pending, detached, asked>>
webVars == <<server, serving, down, fresh, ready, failing>>
tunnelVars == <<tunnel, up>>
vars == <<at, event, reloading, lock, via, loop, calls, raced, crashed,
          askVars, webVars, tunnelVars>>

(* Exit begins: the actions and services run, nothing serves.              *)
Init ==
  /\ at = [p \in Procs |-> IF p = Main THEN "setup" ELSE "idle"]
  /\ event = "none" /\ pending = [c \in Asking |-> 0] /\ reloading = FALSE
  /\ lock = Nobody /\ server = 0 /\ serving = {} /\ down = {}
  /\ fresh = 0 /\ ready = 0 /\ failing = 0
  /\ via = [h \in Handlers |-> 0] /\ tunnel = 0 /\ up = {}
  /\ loop = "idle" /\ detached = 0 /\ calls = 0
  /\ raced = FALSE /\ asked = FALSE /\ crashed = FALSE

Go(p, place) == at' = [at EXCEPT ![p] = place]
Take(p) == lock = Nobody /\ lock' = p
(* The channels have one place. Mutant: they take any number.              *)
NoLimit(c) == TRUE
Room(c) == pending[c] = 0
Put(c) == pending' = [pending EXCEPT ![c] = @ + 1]
Drain(c) == pending[c] = 1 /\ pending' = [pending EXCEPT ![c] = 0]

Alive == at[Main] # "gone"

(* The process ends, and all its goroutines with it.                       *)
End ==
  /\ at' = [p \in Procs |-> "gone"] /\ loop' = "gone"
  /\ fresh' = 0 /\ ready' = 0 /\ failing' = 0 /\ detached' = 0
  /\ UNCHANGED <<event, reloading, lock, via, calls, raced, pending, asked, server, serving, down,
                 tunnelVars>>
Called == calls < MaxCalls /\ calls' = calls + 1

-----------------------------------------------------------------------------
(* The main goroutine: Exit, reloadConfiguration and stop.                 *)

Receive(c) ==
  /\ at[Main] = "select" /\ Drain(c)
  /\ event' = IF c = "sigkil" THEN "exit" ELSE "reload"
  /\ Go(Main, "tunnel")
  /\ UNCHANGED <<reloading, lock, via, loop, calls, raced, crashed, detached, asked,
                 webVars, tunnelVars>>

(* Mutant: the tunnel of the configuration before runs on.                 *)
LeaveTunnel ==
  /\ at[Main] = "tunnel"
  /\ Go(Main, "lock")
  /\ UNCHANGED <<event, reloading, lock, via, loop, calls, raced, crashed, askVars, webVars, tunnelVars>>

StopTunnel ==
  /\ at[Main] = "tunnel"
  /\ up' = up \ {tunnel}
  /\ Go(Main, "lock")
  /\ UNCHANGED <<event, reloading, lock, via, loop, calls, raced, crashed, askVars, webVars, tunnel>>

(* StopWebServer, by the main goroutine or from the tray: a server that    *)
(* was shut down does not listen any more. It has the lock until the       *)
(* requests that came through it are answered.                             *)
StopServer(p) ==
  /\ at[p] = "lock" /\ Take(p)
  /\ serving' = serving \ {server}
  /\ down' = down \cup ({server} \ {0})
  /\ raced' = (raced \/ (p = Main /\ fresh > 0))
  /\ Go(p, "drain")
  /\ UNCHANGED <<event, reloading, via, loop, calls, crashed, askVars, server, fresh, ready, failing,
                 tunnelVars>>

Requests(s) == {h \in Handlers : at[h] # "idle" /\ via[h] = s}

(* Mutant: the lock is not given back.                                     *)
KeepLock(p) ==
  /\ at[p] = "drain" /\ (server = 0 \/ Requests(server) = {})
  /\ Go(p, IF p = Main THEN "actions" ELSE "idle")
  /\ UNCHANGED <<event, reloading, lock, via, loop, calls, raced, crashed, askVars, webVars, tunnelVars>>

Drained(p) ==
  /\ at[p] = "drain" /\ (server = 0 \/ Requests(server) = {})
  /\ lock' = Nobody
  /\ \/ p = Main /\ Go(p, "actions")
     \/ p = Tray /\ Go(p, "idle")
     \/ p = Tray /\ Go(p, "password")
  /\ UNCHANGED <<event, reloading, via, loop, calls, raced, crashed, askVars, webVars, tunnelVars>>

(* They are not, in time: the reload fails, the tray says so.              *)
TimedOut(p) ==
  /\ at[p] = "drain" /\ server # 0 /\ Requests(server) # {}
  /\ lock' = Nobody
  /\ IF p = Main THEN event' = "failed" /\ Go(p, "actions")
                 ELSE UNCHANGED event /\ Go(p, "idle")
  /\ UNCHANGED <<reloading, via, loop, calls, raced, crashed, askVars, webVars, tunnelVars>>

(* The deferred part of stop: Stop of the actions waits for the loop.      *)
StopActions ==
  /\ at[Main] = "actions" /\ loop = "idle"
  /\ loop' = "gone"
  /\ Go(Main, "runners")
  /\ UNCHANGED <<event, reloading, lock, via, calls, raced, crashed, askVars, webVars, tunnelVars>>

(* Then it stops the file watcher, which may wait for good (awMutex, or a  *)
(* tail that nobody stops), and the services, whose checker may wait for   *)
(* the queue of the website.                                               *)
StopRunners ==
  /\ at[Main] = "runners"
  /\ \/ event = "reload" /\ Go(Main, "config")
     \/ Go(Main, "hung")
  /\ UNCHANGED <<event, reloading, lock, via, loop, calls, raced, crashed, askVars, webVars, tunnelVars>>

StopForGood ==
  /\ at[Main] = "runners" /\ event # "reload"
  /\ End /\ UNCHANGED crashed

(* CapturePanic logs a panic of the file watcher's stop and panics again.  *)
StopPanics ==
  /\ at[Main] = "runners"
  /\ End /\ crashed' = TRUE

(* The configuration is read, and everything started but what serves.      *)
Configure ==
  /\ at[Main] = "config"
  /\ loop' = "idle"
  /\ Go(Main, "clear")
  /\ UNCHANGED <<event, reloading, lock, via, calls, raced, crashed, askVars, webVars, tunnelVars>>

ConfigFails ==
  /\ at[Main] = "config"
  /\ End /\ UNCHANGED crashed

(* Mutant: the flag is not cleared.                                        *)
LeaveSet ==
  /\ at[Main] = "clear"
  /\ Go(Main, "setup")
  /\ UNCHANGED <<event, reloading, lock, via, loop, calls, raced, crashed, askVars, webVars, tunnelVars>>

Clear ==
  /\ at[Main] = "clear"
  /\ reloading' = FALSE
  /\ Go(Main, "setup")
  /\ UNCHANGED <<event, lock, via, loop, calls, raced, crashed, askVars, webVars, tunnelVars>>

SetupWebServer ==
  /\ at[Main] = "setup" /\ lock = Nobody
  /\ Go(Main, "start")
  /\ UNCHANGED <<event, reloading, lock, via, loop, calls, raced, crashed, askVars, webVars, tunnelVars>>

(* startTunnel and the goroutine of the web server. Without client info    *)
(* there is no tunnel.                                                     *)
StartServing ==
  /\ at[Main] = "start"
  /\ \/ UNCHANGED tunnelVars
     \/ tunnel < MaxServers /\ tunnel' = tunnel + 1 /\ up' = up \cup {tunnel'}
  /\ fresh' = fresh + 1 /\ event' = "none"
  /\ Go(Main, "select")
  /\ UNCHANGED <<reloading, lock, via, loop, calls, raced, crashed, askVars, server, serving, down,
                 ready, failing>>

(* makeTunnel looks into the host info when there is none. Once there was, *)
(* it is kept.                                                             *)
NoHostInfo ==
  /\ at[Main] = "start" /\ tunnel = 0
  /\ End /\ crashed' = TRUE

-----------------------------------------------------------------------------
(* RunWebServer.                                                           *)

MakeServer ==
  /\ fresh > 0 /\ lock = Nobody /\ server < MaxServers
  /\ server' = server + 1
  /\ fresh' = fresh - 1 /\ ready' = ready + 1
  /\ raced' = (raced \/ fresh + ready > 1 \/ serving # {} \/ at[Main] \notin {"tunnel", "lock", "select"})
  /\ UNCHANGED <<at, event, reloading, lock, via, loop, calls, crashed, askVars, serving, down,
                 failing, tunnelVars>>

(* Mutant: the error of a server that was shut down counts, too.           *)
AnyError ==
  /\ ready > 0 /\ ready' = ready - 1
  /\ IF server \notin down /\ serving = {}
     THEN serving' = {server} /\ UNCHANGED failing
     ELSE failing' = failing + 1 /\ UNCHANGED serving
  /\ UNCHANGED <<at, event, reloading, lock, via, loop, calls, raced, crashed, askVars, server, down,
                 fresh, tunnelVars>>

(* It listens at the server that c.server is by then. One that was shut    *)
(* down returns at once; an address in use is reported, and ends the       *)
(* client.                                                                 *)
Listen ==
  /\ ready > 0 /\ ready' = ready - 1
  /\ CASE server \in down -> UNCHANGED <<serving, failing>>
       [] server \notin down /\ serving = {} -> serving' = {server} /\ UNCHANGED failing
       [] OTHER -> failing' = failing + 1 /\ UNCHANGED serving
  /\ UNCHANGED <<at, event, reloading, lock, via, loop, calls, raced, crashed, askVars, server, down,
                 fresh, tunnelVars>>

Report ==
  /\ failing > 0 /\ Room("sigkil") /\ Put("sigkil")
  /\ failing' = failing - 1
  /\ UNCHANGED <<at, event, reloading, lock, via, loop, calls, raced, crashed, detached, asked,
                 server, serving, down, fresh, ready, tunnelVars>>

-----------------------------------------------------------------------------
(* Requests of the web UI, through a web server or the tunnel.             *)

Begin(h) ==
  /\ at[h] = "idle" /\ Called
  /\ via' \in {[via EXCEPT ![h] = s] : s \in serving \cup (IF up = {} THEN {} ELSE {0})}
  /\ \E place \in {"ping", "reload", "config", "kill", "save"} : Go(h, place)
  /\ UNCHANGED <<event, reloading, lock, loop, raced, crashed, askVars, webVars, tunnelVars>>

Answer(h) == Go(h, "idle")

Ping(h) ==
  /\ at[h] = "ping" /\ lock = Nobody
  /\ Answer(h)
  /\ UNCHANGED <<event, reloading, lock, via, loop, calls, raced, crashed, askVars, webVars, tunnelVars>>

(* reloadAppNow, also at the end of what the profile page and the API key  *)
(* page save: the channel is written to under the lock.                    *)
ReloadAppNow(h) ==
  /\ at[h] = "reload" /\ Take(h)
  /\ reloading' = TRUE
  /\ Go(h, "sendlocked")
  /\ UNCHANGED <<event, via, loop, calls, raced, crashed, askVars, webVars, tunnelVars>>

(* handleConfigPost sets the flag under the lock and asks without it.      *)
ConfigPost(h) ==
  /\ at[h] = "config" /\ lock = Nobody
  /\ reloading' = TRUE
  /\ Go(h, "trigger")
  /\ UNCHANGED <<event, lock, via, loop, calls, raced, crashed, askVars, webVars, tunnelVars>>

TriggerConfigReload(p) ==
  /\ at[p] = "trigger"
  /\ reloading' = TRUE
  /\ Go(p, "send")
  /\ UNCHANGED <<event, lock, via, loop, calls, raced, crashed, askVars, webVars, tunnelVars>>

Send(p) ==
  /\ at[p] \in {"send", "sendlocked"} /\ Room("reload") /\ Put("reload")
  /\ lock' = IF lock = p THEN Nobody ELSE lock
  /\ Answer(p)
  /\ UNCHANGED <<event, reloading, via, loop, calls, raced, crashed, detached, asked, webVars, tunnelVars>>

HandleShutdown(p) ==
  /\ at[p] = "kill" /\ Room("sigkil") /\ Put("sigkil")
  /\ asked' = TRUE
  /\ Answer(p)
  /\ UNCHANGED <<event, reloading, lock, via, loop, calls, raced, crashed, detached, webVars, tunnelVars>>

(* saveTunnels replaces c.tunnel, without the lock. It panics when there   *)
(* is none, which net/http recovers.                                       *)
SaveTunnels(h) ==
  /\ at[h] = "save"
  /\ up' = up \ {tunnel}
  /\ IF tunnel = 0 THEN Answer(h) ELSE Go(h, "make")
  /\ UNCHANGED <<event, reloading, lock, via, loop, calls, raced, crashed, askVars, webVars, tunnel>>

MakeTunnel(h) ==
  /\ at[h] = "make" /\ tunnel < MaxServers
  /\ tunnel' = tunnel + 1 /\ up' = up \cup {tunnel'}
  /\ raced' = (raced \/ up # {} \/ at[Main] \notin {"select", "tunnel"})
  /\ Answer(h)
  /\ UNCHANGED <<event, reloading, lock, via, loop, calls, crashed, askVars, webVars>>

(* The action "reload" over HTTP leaves the waiting to a goroutine.        *)
HandleConfigReload ==
  /\ Alive /\ serving \cup up # {} /\ Called
  /\ detached' = detached + 1
  /\ UNCHANGED <<at, event, reloading, lock, via, loop, raced, crashed, pending, asked, webVars, tunnelVars>>

ReloadApp ==
  /\ detached > 0 /\ Room("sighup") /\ Put("sighup")
  /\ detached' = detached - 1
  /\ UNCHANGED <<at, event, reloading, lock, via, loop, calls, raced, crashed, asked, webVars, tunnelVars>>

-----------------------------------------------------------------------------
(* The menu.                                                               *)

Checked == server # 0 /\ server \notin down

Click ==
  /\ at[Tray] = "idle" /\ Called
  /\ \E place \in {"trigger", "kill", "lock"} : Go(Tray, place)
  /\ UNCHANGED <<event, reloading, lock, via, loop, raced, crashed, askVars, webVars, tunnelVars>>

(* toggleServer, of a server that is paused.                               *)
Unpause ==
  /\ at[Tray] = "idle" /\ Called /\ server # 0 /\ ~Checked
  /\ fresh' = fresh + 1
  /\ UNCHANGED <<at, event, reloading, lock, via, loop, raced, crashed, askVars, server, serving, down,
                 ready, failing, tunnelVars>>

UpdatePassword ==
  /\ at[Tray] = "password" /\ lock = Nobody
  /\ fresh' = fresh + 1
  /\ Answer(Tray)
  /\ UNCHANGED <<event, reloading, lock, via, loop, calls, raced, crashed, askVars, server, serving, down,
                 ready, failing, tunnelVars>>

-----------------------------------------------------------------------------
(* The actions, and signals of the operating system. A signal that finds   *)
(* its channel full is dropped.                                            *)

ActionAsks ==
  /\ loop = "idle" /\ Called
  /\ loop' \in {"sighup", "sigkil"}
  /\ UNCHANGED <<at, event, reloading, lock, via, raced, crashed, askVars, webVars, tunnelVars>>

ActionSends ==
  /\ loop \in Asking /\ Room(loop) /\ Put(loop)
  /\ asked' = (asked \/ loop = "sigkil")
  /\ loop' = "idle"
  /\ UNCHANGED <<at, event, reloading, lock, via, calls, raced, crashed, detached, webVars, tunnelVars>>

Signal(c) ==
  /\ Alive /\ server # 0 /\ Called
  /\ IF Room(c) THEN Put(c) ELSE UNCHANGED pending
  /\ asked' = (asked \/ c = "sigkil")
  /\ UNCHANGED <<at, event, reloading, lock, via, loop, raced, crashed, detached, webVars, tunnelVars>>

-----------------------------------------------------------------------------

MainStep ==
  \/ \E c \in Asking : Receive(c)
  \/ StopTunnel \/ StopServer(Main) \/ Drained(Main) \/ TimedOut(Main)
  \/ StopActions \/ StopRunners \/ StopForGood \/ StopPanics
  \/ Configure \/ ConfigFails \/ Clear \/ SetupWebServer \/ StartServing \/ NoHostInfo

ServerStep == MakeServer \/ Listen \/ Report

HandlerStep(h) ==
  \/ Ping(h) \/ ReloadAppNow(h) \/ ConfigPost(h) \/ TriggerConfigReload(h) \/ Send(h)
  \/ HandleShutdown(h) \/ SaveTunnels(h) \/ MakeTunnel(h)

TrayStep ==
  \/ TriggerConfigReload(Tray) \/ Send(Tray) \/ HandleShutdown(Tray)
  \/ StopServer(Tray) \/ Drained(Tray) \/ TimedOut(Tray) \/ UpdatePassword

Next ==
  \/ MainStep \/ ServerStep \/ TrayStep \/ Click \/ Unpause
  \/ \E h \in Handlers : Begin(h) \/ HandlerStep(h)
  \/ HandleConfigReload \/ ReloadApp
  \/ ActionAsks \/ ActionSends
  \/ \E c \in {"sighup", "sigkil"} : Signal(c)

Spec == Init /\ [][Next]_vars

(* What can run does. Nobody need call.                                    *)
FairSpec ==
  /\ Spec
  /\ WF_vars(MainStep) /\ WF_vars(ServerStep) /\ WF_vars(TrayStep)
  /\ WF_vars(ActionSends) /\ WF_vars(ReloadApp)
  /\ \A h \in Handlers : WF_vars(HandlerStep(h))

-----------------------------------------------------------------------------

MainPlaces ==
  {"select", "tunnel", "lock", "drain", "actions", "runners", "hung", "config", "clear", "setup",
   "start", "gone"}
TrayPlaces == {"idle", "lock", "drain", "password", "trigger", "send", "kill", "gone"}
HandlerPlaces == {"idle", "ping", "reload", "sendlocked", "config", "trigger", "send", "kill", "save",
                  "make", "gone"}

(* The variables are of their types: channels of one place, one holder of  *)
(* the lock, each goroutine at a place of its own code.                    *)
TypeOK ==
  /\ at \in [Procs -> MainPlaces \cup TrayPlaces \cup HandlerPlaces]
  /\ at[Main] \in MainPlaces /\ at[Tray] \in TrayPlaces /\ \A h \in Handlers : at[h] \in HandlerPlaces
  /\ event \in {"none", "reload", "exit", "failed"}
  /\ pending \in [Asking -> 0 .. 1]
  /\ {reloading, raced, asked, crashed} \subseteq BOOLEAN
  /\ lock \in Procs \cup {Nobody}
  /\ {server, tunnel} \subseteq Numbers /\ via \in [Handlers -> Numbers]
  /\ serving \subseteq Numbers /\ down \subseteq Numbers /\ up \subseteq Numbers
  /\ {fresh, ready, failing, detached} \subseteq Nat /\ calls \in 0 .. MaxCalls
  /\ loop \in {"idle", "gone", "sighup", "sigkil"}

(* c.reloading, which the web UI polls to learn when a reload is over, is  *)
(* set only while a reload is asked for, queued or under way: however      *)
(* requests, the menu and the reloads before overlap, it is not left set,  *)
(* which would say "Reloading" for ever (handlePing).                      *)
FlagIsTrue ==
  reloading => \/ \E p \in Procs : at[p] \in {"trigger", "send", "sendlocked"}
               \/ pending["reload"] = 1
               \/ at[Main] \notin {"select", "setup", "start"}

(* While the configuration is replaced nothing that belongs to the one     *)
(* before serves: no web server listens and no tunnel runs. So says the    *)
(* comment at "c.reloading = false" (start.go:405); it is so unless a web  *)
(* server or a tunnel was started as they were being stopped.              *)
QuietReload ==
  at[Main] \in {"actions", "runners", "hung", "config", "clear", "setup", "start"}
    => (serving = {} /\ up = {}) \/ raced

(* The client ends only if somebody asked for it, if the web server did    *)
(* not get its requests answered in time, in a reload whose configuration  *)
(* could not be read or whose stop of the file watcher panicked, or by the *)
(* panic of the first tunnel. In particular the web server of one          *)
(* configuration does not stand in the way of that of the next, unless two *)
(* were started at a time.                                                 *)
ExitHasCause ==
  ~Alive => \/ asked \/ raced
            \/ event \in {"failed", "reload"}
            \/ (crashed /\ tunnel = 0)

(* A handler has the lock and waits for room in the reload channel, and    *)
(* the main goroutine, which alone makes room, waits for the lock.         *)
LockedOut ==
  at[Main] \in {"lock", "setup"} /\ \E h \in Handlers : at[h] = "sendlocked" /\ ~Room("reload")

(* An action waits for room in a channel that the main goroutine empties,  *)
(* which waits for the action.                                             *)
LoopWaits == at[Main] = "actions" /\ loop \in Asking /\ ~Room(loop)

(* The file watcher or the services keep the one that stops them.          *)
RunnersStay == at[Main] = "hung"

(* Every reload that is begun ends, with the client serving again or with  *)
(* its end, but for those two deadlocks and what may hold it up in the     *)
(* parts below.                                                            *)
ReloadsEnd ==
  at[Main] # "select" ~> at[Main] = "select" \/ ~Alive \/ LockedOut \/ LoopWaits \/ RunnersStay
=============================================================================
