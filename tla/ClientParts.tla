----------------------------- MODULE ClientParts ----------------------------
(***************************************************************************)
(* Parts of the client that share no state with each other, each a module  *)
(* of its own, put together so that one run checks them all: "part" says   *)
(* which of them moves, and the others stay as they began.                 *)
(***************************************************************************)
EXTENDS Integers, FiniteSets

CONSTANTS
  Requests, Served, AppCodes, Deletes, MaxRefills,         \* ApiRequests
  Saves, Keep, MaxSecond, MaxCrashes,                      \* ConfigStore
  KeepBinaries, MaxDownloads,                              \* UpdateFile
  Checked, MaxFiles,                                        \* BackupChecks
  Instances, Queues, Finished, Stuck, MaxPayload, MaxReloads,   \* StarrQueues
  Sessions, Hooks,                                         \* PlexSessions
  Callers, KeyOf, MaxCools,                                \* Cooldown
  MaxJobs, Buffer,                                         \* FanOut
  Viewers, MaxRuns,                                          \* Commands
  MaxLoads

VARIABLES
  part,
  req, apiLoads, tokens, refills, copies,
  mem, loading, cfgUp, keyless, cfgLock, save, file, disk, cfgTemp, cfgBackups, second, crashes, behind, outlived, rotated,
  shared,
  path, updTemp, updBackups, at, auto, updUp, exiting, downloads, bad, overwritten,
  enabled, newest, made, setting, mark, queued, told, here, twice, chkLoads,
  conf, cache, titles, empty, site, lost, reloads, moved, mixed,
  plex, stored, age, plexLoads, asker, plexLock, sent, played, finished, crossed,
  caller, rep, cool, cools,
  way, jobs, job, slot, queue, open, worker, owed, answered,
  broken, cmdAt, id, failing, stats, line, lineless, page

Api == INSTANCE ApiRequests WITH loads <- apiLoads
Cfg == INSTANCE ConfigStore WITH up <- cfgUp, lock <- cfgLock, temp <- cfgTemp, backups <- cfgBackups
Upd == INSTANCE UpdateFile WITH Keep <- KeepBinaries, temp <- updTemp, backups <- updBackups, up <- updUp
Chk == INSTANCE BackupChecks WITH Places <- Checked, loads <- chkLoads
Que == INSTANCE StarrQueues
Plex == INSTANCE PlexSessions WITH loads <- plexLoads, lock <- plexLock
Cool == INSTANCE Cooldown
Fan == INSTANCE FanOut
Com == INSTANCE Commands WITH Pages <- Viewers, at <- cmdAt

ASSUME PartsAssumption ==
  /\ Api!RequestsAssumption /\ Cfg!StoreAssumption /\ Upd!UpdateAssumption /\ Chk!ChecksAssumption
  /\ Que!QueuesAssumption /\ Plex!SessionsAssumption /\ Cool!CooldownAssumption
  /\ Fan!FanAssumption /\ Com!CommandsAssumption

apiVars == <<req, apiLoads, tokens, refills, copies>>
storeVars == <<mem, loading, cfgUp, keyless, cfgLock, save, file, disk, cfgTemp, cfgBackups, second, crashes, behind,
               outlived, rotated, shared>>
updateVars == <<path, updTemp, updBackups, at, auto, updUp, exiting, downloads, bad, overwritten>>
checkVars == <<enabled, newest, made, setting, mark, queued, told, here, twice, chkLoads>>
queueVars == <<conf, cache, titles, empty, site, lost, reloads, moved, mixed>>
plexVars == <<plex, stored, age, plexLoads, asker, plexLock, sent, played, finished, crossed>>
coolVars == <<caller, rep, cool, cools>>
fanVars == <<way, jobs, job, slot, queue, open, worker, owed, answered>>
commandVars == <<broken, cmdAt, id, failing, stats, line, lineless, page>>
vars == <<part, apiVars, storeVars, updateVars, checkVars, queueVars, plexVars, coolVars, fanVars, commandVars>>

(* A part that does not move begins in one state. *)
Init ==
  /\ part \in {"api", "store", "update", "checks", "queues", "plex", "cooldown", "fan", "commands"}
  /\ Api!Init /\ Cfg!Init /\ Upd!Init /\ Chk!Init /\ Que!Init /\ Plex!Init /\ Cool!Init /\ Fan!Init /\ Com!Init
  /\ part # "api" => copies = 0
  /\ part # "store" => ~keyless /\ cfgBackups = <<>>
  /\ part # "update" => auto
  /\ part # "checks" => enabled = {} /\ \A p \in Checked : setting[p] = Chk!Disabled
  /\ part # "fan" => way = "each" /\ jobs = 0
  /\ part # "commands" => broken

Request ==
  /\ part = "api" /\ Api!Next
  /\ UNCHANGED <<part, storeVars, updateVars, checkVars, queueVars, plexVars, coolVars, fanVars, commandVars>>

Store ==
  /\ part = "store" /\ Cfg!Next
  /\ UNCHANGED <<part, apiVars, updateVars, checkVars, queueVars, plexVars, coolVars, fanVars, commandVars>>

Update ==
  /\ part = "update" /\ Upd!Next
  /\ UNCHANGED <<part, apiVars, storeVars, checkVars, queueVars, plexVars, coolVars, fanVars, commandVars>>

CheckBackups ==
  /\ part = "checks" /\ Chk!Next
  /\ UNCHANGED <<part, apiVars, storeVars, updateVars, queueVars, plexVars, coolVars, fanVars, commandVars>>

TellQueues ==
  /\ part = "queues" /\ Que!Next
  /\ UNCHANGED <<part, apiVars, storeVars, updateVars, checkVars, plexVars, coolVars, fanVars, commandVars>>

TellSessions ==
  /\ part = "plex" /\ Plex!Next
  /\ UNCHANGED <<part, apiVars, storeVars, updateVars, checkVars, queueVars, coolVars, fanVars, commandVars>>

CoolDown ==
  /\ part = "cooldown" /\ Cool!Next
  /\ UNCHANGED <<part, apiVars, storeVars, updateVars, checkVars, queueVars, plexVars, fanVars, commandVars>>

AskMany ==
  /\ part = "fan" /\ Fan!Next
  /\ UNCHANGED <<part, apiVars, storeVars, updateVars, checkVars, queueVars, plexVars, coolVars, commandVars>>

RunCommand ==
  /\ part = "commands" /\ Com!Next
  /\ UNCHANGED <<part, apiVars, storeVars, updateVars, checkVars, queueVars, plexVars, coolVars, fanVars>>

Next == Request \/ Store \/ Update \/ CheckBackups \/ TellQueues \/ TellSessions \/ CoolDown \/ AskMany \/ RunCommand

Spec == Init /\ [][Next]_vars

-----------------------------------------------------------------------------
(* The state of each part is what its module says it can be. *)
TypeOK ==
  Api!TypeOK /\ Cfg!TypeOK /\ Upd!TypeOK /\ Chk!TypeOK /\ Que!TypeOK /\ Plex!TypeOK /\ Cool!TypeOK /\ Fan!TypeOK /\ Com!TypeOK

(* What the web API and the web UI answer is true: the statuses, of what the application did (ApiRequests); and an
   answer that many have a part in has everyone's (FanOut). *)
AnswersAreTrue == Api!AnswersAreTrue /\ Fan!AnswersAreWhole

(* What is asked for, or comes about, once is done or told once: an addition that is tried again (ApiRequests), a
   webhook in a cooldown (Cooldown), a session that the website is told of (PlexSessions). *)
DoneOnce == Api!RetriesAddOnce /\ Cool!OncePerCooldown /\ Plex!ToldOnce

(* A whole copy of the configuration file, and of the client's binary, is in its place or in a backup, whatever a
   save or an update was cut short by (ConfigStore, UpdateFile). *)
WholeCopy == Cfg!WholeCopy /\ Upd!WholeCopy

(* A save loses a change of another only in the time between that one and its reload, or after a save through the
   tunnel was under way over a reload (ConfigStore). *)
NoLossAfterReload == [][Cfg!LossIsBehind]_storeVars

(* The client is silent about an empty queue only when the website has that one, unless a payload was lost
   (StarrQueues), and about a backup only when its result reached the website, or was on its way there under the
   present configuration (BackupChecks); and it tells of an application what is that application's, and of a command
   what is of one run (Commands). *)
ReportsAreTrue == Que!ReportsAreTrue /\ Chk!MarksAreTold /\ Com!StatsAreOfOneRun
=============================================================================
