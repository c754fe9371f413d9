-------------------------- MODULE ClientReloadProofs --------------------------
(***************************************************************************)
(* Proofs about ClientReload, for any requests under way and any bounds.   *)
(***************************************************************************)
EXTENDS ClientReload, TLAPS

(* The main goroutine has shut the web server down and not started the     *)
(* next one.                                                               *)
Torn == {"drain", "actions", "runners", "hung", "config", "clear", "setup", "start"}

(* Unless two web servers were started at a time: only the one of c.server *)
(* listens, and not after it was shut down; at most one goroutine is about *)
(* to listen, and no other server then does, so that no address is in use. *)
(* While everything is torn down, c.server is down.                        *)
WebInv ==
  /\ ready > 0 => server # 0
  /\ down \subseteq 1 .. server
  /\ raced \/ serving \subseteq {server} \ down
  /\ raced \/ ready = 0 \/ (ready = 1 /\ serving = {})
  /\ raced \/ failing = 0
  /\ at[Main] \in Torn => raced \/ (serving = {} /\ server \in down \cup {0})

(* Unless one was saved as another was stopped, the tunnel of c.tunnel is  *)
(* the only one, and runs only while the main goroutine waits.             *)
TunnelInv == raced \/ up = {} \/ (up = {tunnel} /\ at[Main] \in {"select", "tunnel", "gone"})

(* Whatever leads to the end has its cause already, and after the end      *)
(* nobody runs.                                                            *)
CauseInv ==
  /\ pending["sigkil"] = 1 => asked \/ raced
  /\ event = "exit" => asked \/ raced
  /\ at[Main] \in {"tunnel", "lock", "drain", "actions", "runners"} => event # "none"
  /\ at[Main] = "config" => event = "reload"
  /\ ~Alive => \A p \in Procs : at[p] = "gone"

IInv == TypeOK /\ FlagIsTrue /\ WebInv /\ TunnelInv /\ CauseInv /\ ExitHasCause

-----------------------------------------------------------------------------
(* What the assumption says of who is who and of the bounds.               *)
LEMMA Constants ==
  /\ Main \in Procs /\ Tray \in Procs /\ Main # Tray /\ Handlers \subseteq Procs
  /\ Main \notin Handlers /\ Tray \notin Handlers
  /\ MaxServers \in Nat \ {0} /\ MaxCalls \in Nat
BY ClientAssumption DEF Procs

(* The invariant holds as Exit begins.                                     *)
LEMMA InitInv == Init => IInv
<1>. SUFFICES ASSUME Init PROVE IInv
  OBVIOUS
<1>. USE Constants DEF Init
<1>1. TypeOK
  <2>1. at \in [Procs -> MainPlaces \cup TrayPlaces \cup HandlerPlaces]
    BY DEF MainPlaces, HandlerPlaces
  <2>2. at[Main] \in MainPlaces /\ at[Tray] \in TrayPlaces /\ \A h \in Handlers : at[h] \in HandlerPlaces
    BY DEF MainPlaces, TrayPlaces, HandlerPlaces
  <2>3. 0 \in Numbers
    BY DEF Numbers
  <2>4. pending \in [Asking -> 0 .. 1] /\ via \in [Handlers -> Numbers]
    BY <2>3
  <2>5. event \in {"none", "reload", "exit", "failed"} /\ lock \in Procs \cup {Nobody} /\ {server, tunnel} \subseteq Numbers
    BY <2>3
  <2>6. serving \subseteq Numbers /\ down \subseteq Numbers /\ up \subseteq Numbers
    OBVIOUS
  <2>7. {fresh, ready, failing, detached} \subseteq Nat /\ calls \in 0 .. MaxCalls
    OBVIOUS
  <2>8. {reloading, raced, asked, crashed} \subseteq BOOLEAN
    OBVIOUS
  <2>9. loop \in {"idle", "gone", "sighup", "sigkil"}
    OBVIOUS
  <2>. QED BY <2>1, <2>2, <2>4, <2>5, <2>6, <2>7, <2>8, <2>9 DEF TypeOK
<1>2. FlagIsTrue /\ WebInv /\ TunnelInv
  BY DEF FlagIsTrue, WebInv, TunnelInv
<1>3. CauseInv /\ ExitHasCause
  BY DEF CauseInv, ExitHasCause, Alive, Asking
<1>. QED BY <1>1, <1>2, <1>3 DEF IInv

(* Each step keeps the types. *)
LEMMA TypeStep == IInv /\ Next => TypeOK'
<1>. SUFFICES ASSUME IInv, Next PROVE TypeOK'
  OBVIOUS
<1>. USE Constants DEF IInv, TypeOK, MainPlaces, TrayPlaces, HandlerPlaces, Procs, Numbers, Asking, Go, askVars, webVars, tunnelVars
<1>1. ASSUME NEW c \in Asking, Receive(c) PROVE TypeOK'
  BY <1>1 DEF Receive, Drain
<1>2. ASSUME StopTunnel PROVE TypeOK'
  BY <1>2 DEF StopTunnel
<1>3. ASSUME NEW p \in {Main, Tray}, StopServer(p) PROVE TypeOK'
  BY <1>3 DEF StopServer, Take
<1>4. ASSUME NEW p \in {Main, Tray}, Drained(p) PROVE TypeOK'
  BY <1>4 DEF Drained
<1>5. ASSUME NEW p \in {Main, Tray}, TimedOut(p) PROVE TypeOK'
  BY <1>5 DEF TimedOut
<1>6. ASSUME StopActions PROVE TypeOK'
  BY <1>6 DEF StopActions
<1>7. ASSUME StopForGood PROVE TypeOK'
  BY <1>7 DEF StopForGood, End
<1>34. ASSUME StopRunners PROVE TypeOK'
  BY <1>34 DEF StopRunners
<1>35. ASSUME StopPanics PROVE TypeOK'
  BY <1>35 DEF StopPanics, End
<1>8. ASSUME Configure PROVE TypeOK'
  BY <1>8 DEF Configure
<1>9. ASSUME ConfigFails PROVE TypeOK'
  BY <1>9 DEF ConfigFails, End
<1>10. ASSUME Clear PROVE TypeOK'
  BY <1>10 DEF Clear
<1>11. ASSUME SetupWebServer PROVE TypeOK'
  BY <1>11 DEF SetupWebServer
<1>12. ASSUME StartServing PROVE TypeOK'
  <2>1. CASE UNCHANGED tunnelVars
    BY <1>12, <2>1 DEF StartServing
  <2>2. CASE tunnel < MaxServers /\ tunnel' = tunnel + 1 /\ up' = up \cup {tunnel'}
    <3>1. tunnel \in Numbers /\ up \subseteq Numbers
      OBVIOUS
    <3>2. tunnel' \in Numbers
      BY <2>2, <3>1
    <3>3. up' \subseteq Numbers
      BY <2>2, <3>1, <3>2
    <3>. QED BY <1>12, <3>2, <3>3 DEF StartServing
  <2>. QED BY <1>12, <2>1, <2>2 DEF StartServing
<1>13. ASSUME NoHostInfo PROVE TypeOK'
  BY <1>13 DEF NoHostInfo, End
<1>14. ASSUME MakeServer PROVE TypeOK'
  BY <1>14 DEF MakeServer
<1>15. ASSUME Listen PROVE TypeOK'
  BY <1>15 DEF Listen
<1>16. ASSUME Report PROVE TypeOK'
  BY <1>16 DEF Report, Room, Put
<1>17. ASSUME NEW h \in Handlers, Begin(h) PROVE TypeOK'
  BY <1>17 DEF Begin, Called
<1>18. ASSUME NEW h \in Handlers, Ping(h) PROVE TypeOK'
  BY <1>18 DEF Ping, Answer
<1>19. ASSUME NEW h \in Handlers, ReloadAppNow(h) PROVE TypeOK'
  BY <1>19 DEF ReloadAppNow, Take
<1>20. ASSUME NEW h \in Handlers, ConfigPost(h) PROVE TypeOK'
  BY <1>20 DEF ConfigPost
<1>21. ASSUME NEW p \in Handlers \cup {Tray}, TriggerConfigReload(p) PROVE TypeOK'
  BY <1>21 DEF TriggerConfigReload
<1>22. ASSUME NEW p \in Handlers \cup {Tray}, Send(p) PROVE TypeOK'
  BY <1>22 DEF Send, Room, Put, Answer
<1>23. ASSUME NEW p \in Handlers \cup {Tray}, HandleShutdown(p) PROVE TypeOK'
  BY <1>23 DEF HandleShutdown, Room, Put, Answer
<1>24. ASSUME NEW h \in Handlers, SaveTunnels(h) PROVE TypeOK'
  BY <1>24 DEF SaveTunnels, Answer
<1>25. ASSUME NEW h \in Handlers, MakeTunnel(h) PROVE TypeOK'
  <2>1. tunnel' \in Numbers /\ up' \subseteq Numbers
    BY <1>25 DEF MakeTunnel
  <2>. QED BY <1>25, <2>1 DEF MakeTunnel, Answer
<1>26. ASSUME HandleConfigReload PROVE TypeOK'
  BY <1>26 DEF HandleConfigReload, Alive, Called
<1>27. ASSUME ReloadApp PROVE TypeOK'
  BY <1>27 DEF ReloadApp, Room, Put
<1>28. ASSUME Click PROVE TypeOK'
  BY <1>28 DEF Click, Called
<1>29. ASSUME Unpause PROVE TypeOK'
  BY <1>29 DEF Unpause, Called
<1>30. ASSUME UpdatePassword PROVE TypeOK'
  BY <1>30 DEF UpdatePassword, Answer
<1>31. ASSUME ActionAsks PROVE TypeOK'
  BY <1>31 DEF ActionAsks, Called
<1>32. ASSUME ActionSends PROVE TypeOK'
  BY <1>32 DEF ActionSends, Room, Put
<1>33. ASSUME NEW c \in {"sighup", "sigkil"}, Signal(c) PROVE TypeOK'
  BY <1>33 DEF Signal, Alive, Room, Put, Called
<1>. QED
  BY <1>1, <1>2, <1>3, <1>4, <1>5, <1>6, <1>7, <1>8, <1>9, <1>10, <1>11, <1>12, <1>13, <1>14, <1>15, <1>16, <1>17, <1>18, <1>19, <1>20, <1>21, <1>22, <1>23, <1>24, <1>25, <1>26, <1>27, <1>28, <1>29, <1>30, <1>31, <1>32, <1>33, <1>34, <1>35
  DEF Next, MainStep, ServerStep, HandlerStep, TrayStep, Procs

(* The flag: a reload that is asked for goes on to be queued, then to be under way, and the flag is
   cleared before it ends. *)
LEMMA FlagStep == IInv /\ Next => FlagIsTrue'
<1>. SUFFICES ASSUME IInv, Next PROVE FlagIsTrue'
  OBVIOUS
<1>. USE Constants DEF IInv, FlagIsTrue, TypeOK, MainPlaces, TrayPlaces, HandlerPlaces, Procs, Asking, Go, askVars, webVars, tunnelVars
<1>1. ASSUME NEW c \in Asking, Receive(c) PROVE FlagIsTrue'
  BY <1>1 DEF Receive, Drain
<1>2. ASSUME StopTunnel PROVE FlagIsTrue'
  BY <1>2 DEF StopTunnel
<1>3. ASSUME NEW p \in {Main, Tray}, StopServer(p) PROVE FlagIsTrue'
  BY <1>3 DEF StopServer, Take
<1>4. ASSUME NEW p \in {Main, Tray}, Drained(p) PROVE FlagIsTrue'
  BY <1>4 DEF Drained
<1>5. ASSUME NEW p \in {Main, Tray}, TimedOut(p) PROVE FlagIsTrue'
  BY <1>5 DEF TimedOut
<1>6. ASSUME StopActions PROVE FlagIsTrue'
  BY <1>6 DEF StopActions
<1>7. ASSUME StopForGood PROVE FlagIsTrue'
  BY <1>7 DEF StopForGood, End
<1>34. ASSUME StopRunners PROVE FlagIsTrue'
  BY <1>34 DEF StopRunners
<1>35. ASSUME StopPanics PROVE FlagIsTrue'
  BY <1>35 DEF StopPanics, End
<1>8. ASSUME Configure PROVE FlagIsTrue'
  BY <1>8 DEF Configure
<1>9. ASSUME ConfigFails PROVE FlagIsTrue'
  BY <1>9 DEF ConfigFails, End
<1>10. ASSUME Clear PROVE FlagIsTrue'
  BY <1>10 DEF Clear
<1>11. ASSUME SetupWebServer PROVE FlagIsTrue'
  BY <1>11 DEF SetupWebServer
<1>12. ASSUME StartServing PROVE FlagIsTrue'
  BY <1>12 DEF StartServing
<1>13. ASSUME NoHostInfo PROVE FlagIsTrue'
  BY <1>13 DEF NoHostInfo, End
<1>14. ASSUME MakeServer PROVE FlagIsTrue'
  BY <1>14 DEF MakeServer
<1>15. ASSUME Listen PROVE FlagIsTrue'
  BY <1>15 DEF Listen
<1>16. ASSUME Report PROVE FlagIsTrue'
  BY <1>16 DEF Report, Room, Put
<1>17. ASSUME NEW h \in Handlers, Begin(h) PROVE FlagIsTrue'
  BY <1>17 DEF Begin, Called
<1>18. ASSUME NEW h \in Handlers, Ping(h) PROVE FlagIsTrue'
  BY <1>18 DEF Ping, Answer
<1>19. ASSUME NEW h \in Handlers, ReloadAppNow(h) PROVE FlagIsTrue'
  BY <1>19 DEF ReloadAppNow, Take
<1>20. ASSUME NEW h \in Handlers, ConfigPost(h) PROVE FlagIsTrue'
  BY <1>20 DEF ConfigPost
<1>21. ASSUME NEW p \in Handlers \cup {Tray}, TriggerConfigReload(p) PROVE FlagIsTrue'
  BY <1>21 DEF TriggerConfigReload
<1>22. ASSUME NEW p \in Handlers \cup {Tray}, Send(p) PROVE FlagIsTrue'
  BY <1>22 DEF Send, Room, Put, Answer
<1>23. ASSUME NEW p \in Handlers \cup {Tray}, HandleShutdown(p) PROVE FlagIsTrue'
  BY <1>23 DEF HandleShutdown, Room, Put, Answer
<1>24. ASSUME NEW h \in Handlers, SaveTunnels(h) PROVE FlagIsTrue'
  BY <1>24 DEF SaveTunnels, Answer
<1>25. ASSUME NEW h \in Handlers, MakeTunnel(h) PROVE FlagIsTrue'
  BY <1>25 DEF MakeTunnel, Answer
<1>26. ASSUME HandleConfigReload PROVE FlagIsTrue'
  BY <1>26 DEF HandleConfigReload, Alive, Called
<1>27. ASSUME ReloadApp PROVE FlagIsTrue'
  BY <1>27 DEF ReloadApp, Room, Put
<1>28. ASSUME Click PROVE FlagIsTrue'
  BY <1>28 DEF Click, Called
<1>29. ASSUME Unpause PROVE FlagIsTrue'
  BY <1>29 DEF Unpause, Called
<1>30. ASSUME UpdatePassword PROVE FlagIsTrue'
  BY <1>30 DEF UpdatePassword, Answer
<1>31. ASSUME ActionAsks PROVE FlagIsTrue'
  BY <1>31 DEF ActionAsks, Called
<1>32. ASSUME ActionSends PROVE FlagIsTrue'
  BY <1>32 DEF ActionSends, Room, Put
<1>33. ASSUME NEW c \in {"sighup", "sigkil"}, Signal(c) PROVE FlagIsTrue'
  BY <1>33 DEF Signal, Alive, Room, Put, Called
<1>. QED
  BY <1>1, <1>2, <1>3, <1>4, <1>5, <1>6, <1>7, <1>8, <1>9, <1>10, <1>11, <1>12, <1>13, <1>14, <1>15, <1>16, <1>17, <1>18, <1>19, <1>20, <1>21, <1>22, <1>23, <1>24, <1>25, <1>26, <1>27, <1>28, <1>29, <1>30, <1>31, <1>32, <1>33, <1>34, <1>35
  DEF Next, MainStep, ServerStep, HandlerStep, TrayStep, Procs

(* The web server: what a step starts or stops it starts or stops alone, or raced says so. *)
LEMMA WebStep == IInv /\ Next => WebInv'
<1>. SUFFICES ASSUME IInv, Next PROVE WebInv'
  OBVIOUS
<1>. USE Constants DEF IInv, WebInv, Torn, TypeOK, Procs, Numbers, Go, askVars, webVars, tunnelVars
<1>1. ASSUME NEW c \in Asking, Receive(c) PROVE WebInv'
  BY <1>1 DEF Receive, Drain
<1>2. ASSUME StopTunnel PROVE WebInv'
  BY <1>2 DEF StopTunnel
<1>3. ASSUME NEW p \in {Main, Tray}, StopServer(p) PROVE WebInv'
  <2>1. server \in Nat /\ server' = server /\ ready' = ready /\ failing' = failing /\ (raced => raced')
    BY <1>3 DEF StopServer
  <2>2. down' \subseteq 1 .. server
    BY <1>3, <2>1 DEF StopServer
  <2>3. raced \/ serving' = {}
    BY <1>3 DEF StopServer
  <2>4. server \in down' \cup {0}
    BY <1>3 DEF StopServer
  <2>. QED BY <2>1, <2>2, <2>3, <2>4
<1>4. ASSUME NEW p \in {Main, Tray}, Drained(p) PROVE WebInv'
  BY <1>4 DEF Drained
<1>5. ASSUME NEW p \in {Main, Tray}, TimedOut(p) PROVE WebInv'
  BY <1>5 DEF TimedOut
<1>6. ASSUME StopActions PROVE WebInv'
  BY <1>6 DEF StopActions
<1>7. ASSUME StopForGood PROVE WebInv'
  BY <1>7 DEF StopForGood, End
<1>34. ASSUME StopRunners PROVE WebInv'
  BY <1>34 DEF StopRunners
<1>35. ASSUME StopPanics PROVE WebInv'
  BY <1>35 DEF StopPanics, End
<1>8. ASSUME Configure PROVE WebInv'
  BY <1>8 DEF Configure
<1>9. ASSUME ConfigFails PROVE WebInv'
  BY <1>9 DEF ConfigFails, End
<1>10. ASSUME Clear PROVE WebInv'
  BY <1>10 DEF Clear
<1>11. ASSUME SetupWebServer PROVE WebInv'
  BY <1>11 DEF SetupWebServer
<1>12. ASSUME StartServing PROVE WebInv'
  BY <1>12 DEF StartServing
<1>13. ASSUME NoHostInfo PROVE WebInv'
  BY <1>13 DEF NoHostInfo, End
<1>14. ASSUME MakeServer PROVE WebInv'
  <2>1. server' = server + 1 /\ ready' = ready + 1 /\ server \in Nat /\ {ready, fresh} \subseteq Nat /\ fresh > 0
    BY <1>14 DEF MakeServer
  <2>2. UNCHANGED <<at, serving, down, failing>> /\ (raced => raced')
    BY <1>14 DEF MakeServer
  <2>3. raced' \/ (ready = 0 /\ serving = {} /\ at[Main] \notin Torn)
    <3>1. raced' = (raced \/ fresh + ready > 1 \/ serving # {} \/ at[Main] \notin {"tunnel", "lock", "select"})
      BY <1>14 DEF MakeServer
    <3>2. fresh + ready > 1 \/ ready = 0
      BY <2>1
    <3>3. at[Main] \in {"tunnel", "lock", "select"} => at[Main] \notin Torn
      OBVIOUS
    <3>. QED BY <3>1, <3>2, <3>3
  <2>. QED BY <2>1, <2>2, <2>3
<1>15. ASSUME Listen PROVE WebInv'
  BY <1>15 DEF Listen
<1>16. ASSUME Report PROVE WebInv'
  BY <1>16 DEF Report, Room, Put
<1>17. ASSUME NEW h \in Handlers, Begin(h) PROVE WebInv'
  BY <1>17 DEF Begin, Called
<1>18. ASSUME NEW h \in Handlers, Ping(h) PROVE WebInv'
  BY <1>18 DEF Ping, Answer
<1>19. ASSUME NEW h \in Handlers, ReloadAppNow(h) PROVE WebInv'
  BY <1>19 DEF ReloadAppNow, Take
<1>20. ASSUME NEW h \in Handlers, ConfigPost(h) PROVE WebInv'
  BY <1>20 DEF ConfigPost
<1>21. ASSUME NEW p \in Handlers \cup {Tray}, TriggerConfigReload(p) PROVE WebInv'
  BY <1>21 DEF TriggerConfigReload
<1>22. ASSUME NEW p \in Handlers \cup {Tray}, Send(p) PROVE WebInv'
  BY <1>22 DEF Send, Room, Put, Answer
<1>23. ASSUME NEW p \in Handlers \cup {Tray}, HandleShutdown(p) PROVE WebInv'
  BY <1>23 DEF HandleShutdown, Room, Put, Answer
<1>24. ASSUME NEW h \in Handlers, SaveTunnels(h) PROVE WebInv'
  BY <1>24 DEF SaveTunnels, Answer
<1>25. ASSUME NEW h \in Handlers, MakeTunnel(h) PROVE WebInv'
  BY <1>25 DEF MakeTunnel, Answer
<1>26. ASSUME HandleConfigReload PROVE WebInv'
  BY <1>26 DEF HandleConfigReload, Alive, Called
<1>27. ASSUME ReloadApp PROVE WebInv'
  BY <1>27 DEF ReloadApp, Room, Put
<1>28. ASSUME Click PROVE WebInv'
  BY <1>28 DEF Click, Called
<1>29. ASSUME Unpause PROVE WebInv'
  BY <1>29 DEF Unpause, Called
<1>30. ASSUME UpdatePassword PROVE WebInv'
  BY <1>30 DEF UpdatePassword, Answer
<1>31. ASSUME ActionAsks PROVE WebInv'
  BY <1>31 DEF ActionAsks, Called
<1>32. ASSUME ActionSends PROVE WebInv'
  BY <1>32 DEF ActionSends, Room, Put
<1>33. ASSUME NEW c \in {"sighup", "sigkil"}, Signal(c) PROVE WebInv'
  BY <1>33 DEF Signal, Alive, Room, Put, Called
<1>. QED
  BY <1>1, <1>2, <1>3, <1>4, <1>5, <1>6, <1>7, <1>8, <1>9, <1>10, <1>11, <1>12, <1>13, <1>14, <1>15, <1>16, <1>17, <1>18, <1>19, <1>20, <1>21, <1>22, <1>23, <1>24, <1>25, <1>26, <1>27, <1>28, <1>29, <1>30, <1>31, <1>32, <1>33, <1>34, <1>35
  DEF Next, MainStep, ServerStep, HandlerStep, TrayStep, Procs

(* The same of the tunnel. *)
LEMMA TunnelStep == IInv /\ Next => TunnelInv'
<1>. SUFFICES ASSUME IInv, Next PROVE TunnelInv'
  OBVIOUS
<1>. USE Constants DEF IInv, TunnelInv, Torn, TypeOK, Procs, Numbers, Go, askVars, webVars, tunnelVars
<1>1. ASSUME NEW c \in Asking, Receive(c) PROVE TunnelInv'
  BY <1>1 DEF Receive, Drain
<1>2. ASSUME StopTunnel PROVE TunnelInv'
  BY <1>2 DEF StopTunnel
<1>3. ASSUME NEW p \in {Main, Tray}, StopServer(p) PROVE TunnelInv'
  BY <1>3 DEF StopServer, Take
<1>4. ASSUME NEW p \in {Main, Tray}, Drained(p) PROVE TunnelInv'
  BY <1>4 DEF Drained
<1>5. ASSUME NEW p \in {Main, Tray}, TimedOut(p) PROVE TunnelInv'
  BY <1>5 DEF TimedOut
<1>6. ASSUME StopActions PROVE TunnelInv'
  BY <1>6 DEF StopActions
<1>7. ASSUME StopForGood PROVE TunnelInv'
  BY <1>7 DEF StopForGood, End
<1>34. ASSUME StopRunners PROVE TunnelInv'
  BY <1>34 DEF StopRunners
<1>35. ASSUME StopPanics PROVE TunnelInv'
  BY <1>35 DEF StopPanics, End
<1>8. ASSUME Configure PROVE TunnelInv'
  BY <1>8 DEF Configure
<1>9. ASSUME ConfigFails PROVE TunnelInv'
  BY <1>9 DEF ConfigFails, End
<1>10. ASSUME Clear PROVE TunnelInv'
  BY <1>10 DEF Clear
<1>11. ASSUME SetupWebServer PROVE TunnelInv'
  BY <1>11 DEF SetupWebServer
<1>12. ASSUME StartServing PROVE TunnelInv'
  BY <1>12 DEF StartServing
<1>13. ASSUME NoHostInfo PROVE TunnelInv'
  BY <1>13 DEF NoHostInfo, End
<1>14. ASSUME MakeServer PROVE TunnelInv'
  BY <1>14 DEF MakeServer
<1>15. ASSUME Listen PROVE TunnelInv'
  BY <1>15 DEF Listen
<1>16. ASSUME Report PROVE TunnelInv'
  BY <1>16 DEF Report, Room, Put
<1>17. ASSUME NEW h \in Handlers, Begin(h) PROVE TunnelInv'
  BY <1>17 DEF Begin, Called
<1>18. ASSUME NEW h \in Handlers, Ping(h) PROVE TunnelInv'
  BY <1>18 DEF Ping, Answer
<1>19. ASSUME NEW h \in Handlers, ReloadAppNow(h) PROVE TunnelInv'
  BY <1>19 DEF ReloadAppNow, Take
<1>20. ASSUME NEW h \in Handlers, ConfigPost(h) PROVE TunnelInv'
  BY <1>20 DEF ConfigPost
<1>21. ASSUME NEW p \in Handlers \cup {Tray}, TriggerConfigReload(p) PROVE TunnelInv'
  BY <1>21 DEF TriggerConfigReload
<1>22. ASSUME NEW p \in Handlers \cup {Tray}, Send(p) PROVE TunnelInv'
  BY <1>22 DEF Send, Room, Put, Answer
<1>23. ASSUME NEW p \in Handlers \cup {Tray}, HandleShutdown(p) PROVE TunnelInv'
  BY <1>23 DEF HandleShutdown, Room, Put, Answer
<1>24. ASSUME NEW h \in Handlers, SaveTunnels(h) PROVE TunnelInv'
  BY <1>24 DEF SaveTunnels, Answer
<1>25. ASSUME NEW h \in Handlers, MakeTunnel(h) PROVE TunnelInv'
  BY <1>25 DEF MakeTunnel, Answer
<1>26. ASSUME HandleConfigReload PROVE TunnelInv'
  BY <1>26 DEF HandleConfigReload, Alive, Called
<1>27. ASSUME ReloadApp PROVE TunnelInv'
  BY <1>27 DEF ReloadApp, Room, Put
<1>28. ASSUME Click PROVE TunnelInv'
  BY <1>28 DEF Click, Called
<1>29. ASSUME Unpause PROVE TunnelInv'
  BY <1>29 DEF Unpause, Called
<1>30. ASSUME UpdatePassword PROVE TunnelInv'
  BY <1>30 DEF UpdatePassword, Answer
<1>31. ASSUME ActionAsks PROVE TunnelInv'
  BY <1>31 DEF ActionAsks, Called
<1>32. ASSUME ActionSends PROVE TunnelInv'
  BY <1>32 DEF ActionSends, Room, Put
<1>33. ASSUME NEW c \in {"sighup", "sigkil"}, Signal(c) PROVE TunnelInv'
  BY <1>33 DEF Signal, Alive, Room, Put, Called
<1>. QED
  BY <1>1, <1>2, <1>3, <1>4, <1>5, <1>6, <1>7, <1>8, <1>9, <1>10, <1>11, <1>12, <1>13, <1>14, <1>15, <1>16, <1>17, <1>18, <1>19, <1>20, <1>21, <1>22, <1>23, <1>24, <1>25, <1>26, <1>27, <1>28, <1>29, <1>30, <1>31, <1>32, <1>33, <1>34, <1>35
  DEF Next, MainStep, ServerStep, HandlerStep, TrayStep, Procs

(* A step that leads to the end has its cause, or finds it. *)
LEMMA CauseStep == IInv /\ Next => CauseInv'
<1>. SUFFICES ASSUME IInv, Next PROVE CauseInv'
  OBVIOUS
<1>. USE Constants DEF IInv, CauseInv, WebInv, TypeOK, Alive, Procs, Asking, Go, askVars, webVars, tunnelVars
<1>1. ASSUME NEW c \in Asking, Receive(c) PROVE CauseInv'
  BY <1>1 DEF Receive, Drain
<1>2. ASSUME StopTunnel PROVE CauseInv'
  BY <1>2 DEF StopTunnel
<1>3. ASSUME NEW p \in {Main, Tray}, StopServer(p) PROVE CauseInv'
  BY <1>3 DEF StopServer, Take
<1>4. ASSUME NEW p \in {Main, Tray}, Drained(p) PROVE CauseInv'
  BY <1>4 DEF Drained
<1>5. ASSUME NEW p \in {Main, Tray}, TimedOut(p) PROVE CauseInv'
  BY <1>5 DEF TimedOut
<1>6. ASSUME StopActions PROVE CauseInv'
  BY <1>6 DEF StopActions
<1>7. ASSUME StopForGood PROVE CauseInv'
  BY <1>7 DEF StopForGood, End
<1>34. ASSUME StopRunners PROVE CauseInv'
  BY <1>34 DEF StopRunners
<1>35. ASSUME StopPanics PROVE CauseInv'
  BY <1>35 DEF StopPanics, End
<1>8. ASSUME Configure PROVE CauseInv'
  BY <1>8 DEF Configure
<1>9. ASSUME ConfigFails PROVE CauseInv'
  BY <1>9 DEF ConfigFails, End
<1>10. ASSUME Clear PROVE CauseInv'
  BY <1>10 DEF Clear
<1>11. ASSUME SetupWebServer PROVE CauseInv'
  BY <1>11 DEF SetupWebServer
<1>12. ASSUME StartServing PROVE CauseInv'
  BY <1>12 DEF StartServing
<1>13. ASSUME NoHostInfo PROVE CauseInv'
  BY <1>13 DEF NoHostInfo, End
<1>14. ASSUME MakeServer PROVE CauseInv'
  BY <1>14 DEF MakeServer
<1>15. ASSUME Listen PROVE CauseInv'
  BY <1>15 DEF Listen
<1>16. ASSUME Report PROVE CauseInv'
  BY <1>16 DEF Report, Room, Put
<1>17. ASSUME NEW h \in Handlers, Begin(h) PROVE CauseInv'
  BY <1>17 DEF Begin, Called
<1>18. ASSUME NEW h \in Handlers, Ping(h) PROVE CauseInv'
  BY <1>18 DEF Ping, Answer
<1>19. ASSUME NEW h \in Handlers, ReloadAppNow(h) PROVE CauseInv'
  BY <1>19 DEF ReloadAppNow, Take
<1>20. ASSUME NEW h \in Handlers, ConfigPost(h) PROVE CauseInv'
  BY <1>20 DEF ConfigPost
<1>21. ASSUME NEW p \in Handlers \cup {Tray}, TriggerConfigReload(p) PROVE CauseInv'
  BY <1>21 DEF TriggerConfigReload
<1>22. ASSUME NEW p \in Handlers \cup {Tray}, Send(p) PROVE CauseInv'
  BY <1>22 DEF Send, Room, Put, Answer
<1>23. ASSUME NEW p \in Handlers \cup {Tray}, HandleShutdown(p) PROVE CauseInv'
  BY <1>23 DEF HandleShutdown, Room, Put, Answer
<1>24. ASSUME NEW h \in Handlers, SaveTunnels(h) PROVE CauseInv'
  BY <1>24 DEF SaveTunnels, Answer
<1>25. ASSUME NEW h \in Handlers, MakeTunnel(h) PROVE CauseInv'
  BY <1>25 DEF MakeTunnel, Answer
<1>26. ASSUME HandleConfigReload PROVE CauseInv'
  BY <1>26 DEF HandleConfigReload, Alive, Called
<1>27. ASSUME ReloadApp PROVE CauseInv'
  BY <1>27 DEF ReloadApp, Room, Put
<1>28. ASSUME Click PROVE CauseInv'
  BY <1>28 DEF Click, Called
<1>29. ASSUME Unpause PROVE CauseInv'
  BY <1>29 DEF Unpause, Called
<1>30. ASSUME UpdatePassword PROVE CauseInv'
  BY <1>30 DEF UpdatePassword, Answer
<1>31. ASSUME ActionAsks PROVE CauseInv'
  BY <1>31 DEF ActionAsks, Called
<1>32. ASSUME ActionSends PROVE CauseInv'
  BY <1>32 DEF ActionSends, Room, Put
<1>33. ASSUME NEW c \in {"sighup", "sigkil"}, Signal(c) PROVE CauseInv'
  BY <1>33 DEF Signal, Alive, Room, Put, Called
<1>. QED
  BY <1>1, <1>2, <1>3, <1>4, <1>5, <1>6, <1>7, <1>8, <1>9, <1>10, <1>11, <1>12, <1>13, <1>14, <1>15, <1>16, <1>17, <1>18, <1>19, <1>20, <1>21, <1>22, <1>23, <1>24, <1>25, <1>26, <1>27, <1>28, <1>29, <1>30, <1>31, <1>32, <1>33, <1>34, <1>35
  DEF Next, MainStep, ServerStep, HandlerStep, TrayStep, Procs

(* The end has a cause when it comes, and nothing changes after it. *)
LEMMA ExitStep == IInv /\ Next => ExitHasCause'
<1>. SUFFICES ASSUME IInv, Next PROVE ExitHasCause'
  OBVIOUS
<1>. USE Constants DEF IInv, ExitHasCause, CauseInv, TypeOK, Alive, Procs, Go, askVars, webVars, tunnelVars
<1>1. ASSUME NEW c \in Asking, Receive(c) PROVE ExitHasCause'
  BY <1>1 DEF Receive, Drain
<1>2. ASSUME StopTunnel PROVE ExitHasCause'
  BY <1>2 DEF StopTunnel
<1>3. ASSUME NEW p \in {Main, Tray}, StopServer(p) PROVE ExitHasCause'
  BY <1>3 DEF StopServer, Take
<1>4. ASSUME NEW p \in {Main, Tray}, Drained(p) PROVE ExitHasCause'
  BY <1>4 DEF Drained
<1>5. ASSUME NEW p \in {Main, Tray}, TimedOut(p) PROVE ExitHasCause'
  BY <1>5 DEF TimedOut
<1>6. ASSUME StopActions PROVE ExitHasCause'
  BY <1>6 DEF StopActions
<1>7. ASSUME StopForGood PROVE ExitHasCause'
  BY <1>7 DEF StopForGood, End
<1>34. ASSUME StopRunners PROVE ExitHasCause'
  BY <1>34 DEF StopRunners
<1>35. ASSUME StopPanics PROVE ExitHasCause'
  BY <1>35 DEF StopPanics, End
<1>8. ASSUME Configure PROVE ExitHasCause'
  BY <1>8 DEF Configure
<1>9. ASSUME ConfigFails PROVE ExitHasCause'
  BY <1>9 DEF ConfigFails, End
<1>10. ASSUME Clear PROVE ExitHasCause'
  BY <1>10 DEF Clear
<1>11. ASSUME SetupWebServer PROVE ExitHasCause'
  BY <1>11 DEF SetupWebServer
<1>12. ASSUME StartServing PROVE ExitHasCause'
  BY <1>12 DEF StartServing
<1>13. ASSUME NoHostInfo PROVE ExitHasCause'
  BY <1>13 DEF NoHostInfo, End
<1>14. ASSUME MakeServer PROVE ExitHasCause'
  BY <1>14 DEF MakeServer
<1>15. ASSUME Listen PROVE ExitHasCause'
  BY <1>15 DEF Listen
<1>16. ASSUME Report PROVE ExitHasCause'
  BY <1>16 DEF Report, Room, Put
<1>17. ASSUME NEW h \in Handlers, Begin(h) PROVE ExitHasCause'
  BY <1>17 DEF Begin, Called
<1>18. ASSUME NEW h \in Handlers, Ping(h) PROVE ExitHasCause'
  BY <1>18 DEF Ping, Answer
<1>19. ASSUME NEW h \in Handlers, ReloadAppNow(h) PROVE ExitHasCause'
  BY <1>19 DEF ReloadAppNow, Take
<1>20. ASSUME NEW h \in Handlers, ConfigPost(h) PROVE ExitHasCause'
  BY <1>20 DEF ConfigPost
<1>21. ASSUME NEW p \in Handlers \cup {Tray}, TriggerConfigReload(p) PROVE ExitHasCause'
  BY <1>21 DEF TriggerConfigReload
<1>22. ASSUME NEW p \in Handlers \cup {Tray}, Send(p) PROVE ExitHasCause'
  BY <1>22 DEF Send, Room, Put, Answer
<1>23. ASSUME NEW p \in Handlers \cup {Tray}, HandleShutdown(p) PROVE ExitHasCause'
  BY <1>23 DEF HandleShutdown, Room, Put, Answer
<1>24. ASSUME NEW h \in Handlers, SaveTunnels(h) PROVE ExitHasCause'
  BY <1>24 DEF SaveTunnels, Answer
<1>25. ASSUME NEW h \in Handlers, MakeTunnel(h) PROVE ExitHasCause'
  BY <1>25 DEF MakeTunnel, Answer
<1>26. ASSUME HandleConfigReload PROVE ExitHasCause'
  BY <1>26 DEF HandleConfigReload, Alive, Called
<1>27. ASSUME ReloadApp PROVE ExitHasCause'
  BY <1>27 DEF ReloadApp, Room, Put
<1>28. ASSUME Click PROVE ExitHasCause'
  BY <1>28 DEF Click, Called
<1>29. ASSUME Unpause PROVE ExitHasCause'
  BY <1>29 DEF Unpause, Called
<1>30. ASSUME UpdatePassword PROVE ExitHasCause'
  BY <1>30 DEF UpdatePassword, Answer
<1>31. ASSUME ActionAsks PROVE ExitHasCause'
  BY <1>31 DEF ActionAsks, Called
<1>32. ASSUME ActionSends PROVE ExitHasCause'
  BY <1>32 DEF ActionSends, Room, Put
<1>33. ASSUME NEW c \in {"sighup", "sigkil"}, Signal(c) PROVE ExitHasCause'
  BY <1>33 DEF Signal, Alive, Room, Put, Called
<1>. QED
  BY <1>1, <1>2, <1>3, <1>4, <1>5, <1>6, <1>7, <1>8, <1>9, <1>10, <1>11, <1>12, <1>13, <1>14, <1>15, <1>16, <1>17, <1>18, <1>19, <1>20, <1>21, <1>22, <1>23, <1>24, <1>25, <1>26, <1>27, <1>28, <1>29, <1>30, <1>31, <1>32, <1>33, <1>34, <1>35
  DEF Next, MainStep, ServerStep, HandlerStep, TrayStep, Procs

-----------------------------------------------------------------------------
LEMMA Inductive == IInv /\ [Next]_vars => IInv'
<1>1. CASE Next
  BY <1>1, TypeStep, FlagStep, WebStep, TunnelStep, CauseStep, ExitStep DEF IInv
<1>2. CASE UNCHANGED vars
  BY <1>2 DEF IInv, TypeOK, FlagIsTrue, WebInv, TunnelInv, CauseInv, ExitHasCause, Alive, vars, askVars, webVars, tunnelVars
<1>. QED BY <1>1, <1>2

(* The inductive invariant holds of each run of the main loop.             *)
THEOREM Invariance == Spec => []IInv
BY InitInv, Inductive, PTL DEF Spec

(* The variables are of their types.                                       *)
THEOREM TypeCorrect == Spec => []TypeOK
BY Invariance, PTL DEF IInv

(* reloading is set only while a reload is asked for, queued or under way: *)
(* the web UI does not wait for ever.                                      *)
THEOREM FlagNotLeftSet == Spec => []FlagIsTrue
BY Invariance, PTL DEF IInv

(* Nothing of the old configuration serves while it is replaced, unless    *)
(* a web server or a tunnel was started as they were being stopped.        *)
THEOREM ReloadIsQuiet == Spec => []QuietReload
<1>1. IInv => QuietReload
  BY DEF IInv, WebInv, TunnelInv, QuietReload, Torn
<1>. QED BY <1>1, Invariance, PTL

(* The client ends only for a cause; no web server of an old configuration *)
(* takes the address of the new one and ends it.                           *)
THEOREM ExitsHaveCauses == Spec => []ExitHasCause
BY Invariance, PTL DEF IInv
=============================================================================
