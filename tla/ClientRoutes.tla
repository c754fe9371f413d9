---------------------------- MODULE ClientRoutes ----------------------------
(***************************************************************************)
(* What the client's own handlers do: the triggers of the API and of the   *)
(* web UI (src/pkg/triggers/handler.go), the pages of the web UI           *)
(* (src/pkg/client/handlers_gui.go), but for those that save the           *)
(* configuration, and the rest of the API.  Try stands for what may come   *)
(* to nothing without the handler's knowing: Exec, which drops what it is  *)
(* given when the loop does not run or has no such trigger; RunChecks,     *)
(* Pause and Resume of the service checker, which do so when it is halted  *)
(* or stops; a reconfiguration, which is answered before the settings are  *)
(* fetched; and other calls whose end the handler does not look at.        *)
(***************************************************************************)
EXTENDS StarrRoutes

(* checkAuthorized: the pages are for those who have logged in, others go to the login page. *)
LoggedIn(table) == {[r EXCEPT !.steps = <<Refuse(302)>> \o @] : r \in {table[h] : h \in DOMAIN table}}
Open(table) == {table[h] : h \in DOMAIN table}

-----------------------------------------------------------------------------
(* What runTrigger makes of the name of the trigger: the operations below, or one of these. *)
OtherTriggers ==
  [HandleGetTriggers        |-> Ok(<<>>),
   TrigCFSyncLidarr         |-> Route(501, <<>>),
   unknown                  |-> Route(400, <<>>)]

Triggers ==
  [customTimer              |-> Ok(<<Refuse(400), Try>>),
   clientLogs               |-> Ok(<<Act>>),
   command                  |-> Ok(<<Refuse(400), Try>>),
   endpoint                 |-> Ok(<<Refuse(400), Try>>),
   cfsync                   |-> Ok(<<Try>>),
   cfsyncInstance           |-> Ok(<<Refuse(400), Act>>)]

AppTriggers ==
  [rpsync                   |-> Ok(<<Try>>),
   rpsyncInstance           |-> Ok(<<Refuse(400), Act>>),
   services                 |-> Ok(<<Try>>),
   sessions                 |-> Ok(<<Refuse(501), Try>>),
   stuckitems               |-> Ok(<<Try>>),
   dashboard                |-> Ok(<<Try>>),
   snapshot                 |-> Ok(<<Try>>),
   gaps                     |-> Ok(<<Try>>),
   corrupt                  |-> Ok(<<Refuse(400), Try>>)]

ClientTriggers ==
  [backup                   |-> Ok(<<Refuse(400), Try>>),
   handleConfigReload       |-> Ok(<<Act>>),
   notification             |-> Ok(<<Refuse(400), Try>>),
   emptyplextrash           |-> Ok(<<Refuse(501), Try>>),
   mdblist                  |-> Ok(<<Try>>),
   uploadlog                |-> Ok(<<Refuse(424), Refuse(400), Try>>),
   reconfig                 |-> Ok(<<Decode, Try>>)]

-----------------------------------------------------------------------------
(* A password in its old form is saved in the new one, and the login goes on whether or not that worked. *)
Login ==
  [loginHandler             |-> Ok(<<Refuse(403), Refuse(302), Skip, Refuse(401), Try>>),
   logoutHandler            |-> Route(302, <<Act>>)]

LogFiles ==
  [getFileDeleteHandler     |-> Ok(<<Refuse(400), Skip, Local(500)>>),
   uploadFileHandler        |-> Ok(<<Refuse(400), Skip, Refuse(500), Try>>),
   getFileDownloadHandler   |-> Ok(<<Refuse(400), Skip, Refuse(500)>>)]

Controls ==
  [handleShutdown           |-> Ok(<<Act>>),
   handleReload             |-> Ok(<<Act>>),
   handlePing               |-> Ok(<<Refuse(423)>>),
   handleServicesStopStart  |-> Ok(<<Refuse(400), Try>>),
   handleServicesCheck      |-> Ok(<<Refuse(400), Act>>)]

Checks ==
  [getFileHandler           |-> Ok(<<Refuse(400), Refuse(404), Refuse(500)>>),
   handleInstanceCheck      |-> Ok(<<Refuse(400)>>),
   handleCheckAll           |-> Ok(<<>>)]

Browser ==
  [handleFileBrowser        |-> Ok(<<Refuse(406)>>)]

(* The folder is read after the file or folder was made: that it cannot be read is a 406, too. *)
NewFiles ==
  [handleNewFile            |-> Ok(<<Local(500), Refuse(406)>>),
   handleNewFolder          |-> Ok(<<Local(500), Refuse(406)>>),
   handleCommandStats       |-> Ok(<<Refuse(400)>>)]

Pages ==
  [handleIntegrations       |-> Ok(<<>>)]

Watchers ==
  [handleRunCommand         |-> Ok(<<Refuse(400), Try>>),
   handleProcessList        |-> Ok(<<Refuse(500)>>),
   handleStartFileWatcher   |-> Ok(<<Refuse(400), Refuse(406), Local(500)>>),
   handleStopFileWatcher    |-> Ok(<<Refuse(400), Refuse(406), Local(500)>>)]

-----------------------------------------------------------------------------
(* The rest of the API.  A panic of a handler, here for an instance that is not configured, closes the connection:
   the caller gets no status, which is a 0 here. *)
NoAnswer == Refuse(0)

Information ==
  [InfoHandler              |-> Ok(<<>>),
   VersionHandler           |-> Ok(<<>>),
   VersionHandlerInstance   |-> Ok(<<NoAnswer>>),
   handleInstancePing       |-> Ok(<<>>)]

ServiceActions ==
  [list                     |-> Ok(<<>>),
   unknown                  |-> Route(400, <<>>)]

Aggregates ==
  [aggregateTrash           |-> Ok(<<Refuse(400)>>)]

PlexPages ==
  [HandleSessions           |-> Ok(<<Refuse(500)>>),
   HandleKillSession        |-> Ok(<<Command(500)>>),
   HandleDirectory          |-> Ok(<<Refuse(500)>>),
   HandleEmptyTrash         |-> Ok(<<Command(500)>>),
   HandleMarkWatched        |-> Ok(<<Command(500)>>)]

(* The token is in the route; a webhook that is ignored, or that cools down, is a 208. *)
PlexHooks ==
  [PlexHandler              |-> Route(202, <<Refuse(400), Refuse(208), Try>>)]

-----------------------------------------------------------------------------
TriggerTables == {OtherTriggers, Triggers, AppTriggers, ClientTriggers}

(* httpGuiHandlers *)
GuiRoutes == UNION {LoggedIn(t) : t \in TriggerTables \cup {LogFiles, Controls, Checks, Browser, NewFiles, Pages, Watchers}}

(* httpAPIHandlers *)
ApiRoutes == UNION {Keyed(t) : t \in TriggerTables \cup {Information, ServiceActions, Aggregates, PlexPages}} \cup Open(PlexHooks)

(* httpHandlers *)
AllRoutes == UNION {AppRoutes, GuiRoutes, ApiRoutes, Open(Login)}
=============================================================================
