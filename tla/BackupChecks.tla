---------------------------- MODULE BackupChecks ----------------------------
(***************************************************************************)
(* The checks of backups of the Starr applications                         *)
(* (src/pkg/triggers/backups): the website hands the client, with its      *)
(* configuration, the file that was checked last for each instance; the    *)
(* client checks the newest one, puts the result into the queue for the    *)
(* website, and remembers the file, so that a timer does not check it      *)
(* again.  It does not wait for what the website says: a result may come   *)
(* late, or be lost.                                                       *)
(***************************************************************************)
EXTENDS Integers, FiniteSets

CONSTANTS
  Places,     \* <<kind of application, place in the configuration>>
  MaxFiles,   \* bound on the backups an application makes
  MaxLoads    \* bound on the configurations that are loaded

ChecksAssumption == MaxFiles \in Nat \ {0} /\ MaxLoads \in Nat \ {0}

VARIABLES
  enabled,   \* instances with a URL, a key and a timeout
  newest,    \* the newest backup that each has, 0 if there is none
  made,      \* how many it made
  setting,   \* what the website has for each: a file, Disabled, or Unset
  mark,      \* the same as this client has it
  queued,    \* the files whose result was put into the queue for the website
  told,      \* those of them whose result has reached the website
  here,      \* history: the files whose result was put there under this configuration
  twice,     \* history: the timer reported a file again that is the last one made
  loads

checkVars == <<enabled, newest, made, setting, mark, queued, told, here, twice, loads>>

Disabled == -1
Unset == 0
Files == 1..MaxFiles
Events == {"cron", "user"}

(* makeCorruptionTriggers: an instance that is not enabled has no mark, nor has any when the website gave no
   configuration. *)
Marks(on, info) == [p \in Places |-> IF info /\ p \in on THEN setting[p] ELSE Unset]

Init ==
  /\ enabled \in SUBSET Places
  /\ newest = [p \in Places |-> 0] /\ made = newest
  /\ setting \in [Places -> {Disabled, Unset, MaxFiles + 1}]
  /\ \E info \in BOOLEAN : mark = Marks(enabled, info)
  /\ told = [p \in Places |-> {}] /\ queued = told /\ here = told /\ twice = FALSE /\ loads = 1

-----------------------------------------------------------------------------
(* The timer runs when one of the marks is not Disabled. *)
HasTimer(kind) == \E p \in enabled : p[1] = kind /\ mark[p] # Disabled
Comes(event, kind) == event = "cron" => HasTimer(kind)

Skipped(p, event) == p \notin enabled \/ (event = "cron" /\ mark[p] \in {Disabled, Unset}) \/ newest[p] \in {0, mark[p]}

(* Mutant: the mark moves although the file could not be checked. *)
MarksFailed(p, event, failed) == IF Skipped(p, event) \/ mark[p] \in {Disabled, Unset} THEN mark[p] ELSE newest[p]

(* sendAndLogAppCorruption: what it gives back.  The mark stays when the list, the download, even after a login,
   or the archive cannot be had. *)
MarkAfter(p, event, failed) ==
  IF Skipped(p, event) \/ p \in failed \/ mark[p] \in {Disabled, Unset} THEN mark[p] ELSE newest[p]

(* The instances of a kind are checked one after the other; a file whose database cannot be read is reported, too.
   A newest backup that was deleted leaves an older one, which is not the one that is remembered. *)
SendCorruption(kind) ==
  \E event \in Events : \E failed \in SUBSET {p \in Places : p[1] = kind} :
    LET checked == {p \in Places : p[1] = kind /\ p \notin failed /\ ~Skipped(p, event)} IN
    /\ Comes(event, kind)
    /\ mark' = [p \in Places |-> IF p[1] = kind THEN MarkAfter(p, event, failed) ELSE mark[p]]
    /\ queued' = [p \in Places |-> IF p \in checked THEN queued[p] \cup {newest[p]} ELSE queued[p]]
    /\ here' = [p \in Places |-> IF p \in checked THEN here[p] \cup {newest[p]} ELSE here[p]]
    /\ twice' = (twice \/ (event = "cron" /\ \E p \in checked : newest[p] \in here[p] /\ newest[p] = made[p]))
    /\ UNCHANGED <<enabled, newest, made, setting, told, loads>>

(* External: an application makes a backup. *)
Backup(p) ==
  /\ made[p] < MaxFiles /\ made' = [made EXCEPT ![p] = @ + 1]
  /\ newest' = [newest EXCEPT ![p] = made'[p]]
  /\ UNCHANGED <<enabled, setting, mark, queued, told, here, twice, loads>>

(* External: someone deletes the newest one, and may have deleted older ones. *)
Delete(p) ==
  /\ \E n \in 0..MaxFiles : n < newest[p] /\ newest' = [newest EXCEPT ![p] = n]
  /\ UNCHANGED <<enabled, made, setting, mark, queued, told, here, twice, loads>>

(* External: a result reaches the website; one that is lost never does. *)
Arrives(p) ==
  /\ \E f \in queued[p] \ told[p] : told' = [told EXCEPT ![p] = @ \cup {f}]
  /\ UNCHANGED <<enabled, newest, made, setting, mark, queued, here, twice, loads>>

(* External: the website keeps what it was told for the next configuration. *)
Keeps(p) ==
  /\ setting[p] # Disabled
  /\ \E f \in told[p] : setting' = [setting EXCEPT ![p] = f]
  /\ UNCHANGED <<enabled, newest, made, mark, queued, told, here, twice, loads>>

Reload ==
  /\ loads < MaxLoads /\ loads' = loads + 1
  /\ enabled' \in SUBSET Places
  /\ \E info \in BOOLEAN : mark' = Marks(enabled', info)
  /\ here' = [p \in Places |-> {}]
  /\ UNCHANGED <<newest, made, setting, queued, told, twice>>

Next ==
  \/ \E p \in Places : Backup(p) \/ Delete(p) \/ Arrives(p) \/ Keeps(p)
  \/ \E kind \in {p[1] : p \in Places} : SendCorruption(kind)
  \/ Reload

ChecksSpec == Init /\ [][Next]_checkVars

-----------------------------------------------------------------------------
TypeOK ==
  /\ enabled \subseteq Places /\ {newest, made} \subseteq [Places -> 0..MaxFiles]
  /\ {setting, mark} \subseteq [Places -> {Disabled, Unset} \cup 1..(MaxFiles + 1)]
  /\ {queued, told, here} \subseteq [Places -> SUBSET Files] /\ \A p \in Places : told[p] \subseteq queued[p]
  /\ twice \in BOOLEAN /\ loads \in 1..MaxLoads

(* A backup counts as checked only when its result reached the website, or was put into the queue for it under this
   configuration: no failure of the check makes the client pass over a file, and a result that was lost does so until
   the next configuration only.  And the timer reports no file twice under a configuration, but one that is the newest
   again because a newer one was deleted. *)
MarksAreTold ==
  /\ \A p \in Places : mark[p] \in Files => mark[p] \in told[p] \cup here[p]
  /\ ~twice
=============================================================================
