----------------------------- MODULE UpdateFile -----------------------------
(***************************************************************************)
(* The automatic update (src/pkg/triggers/autoupdate, src/pkg/update), as  *)
(* it is on Windows: the new binary is downloaded to a temporary file, the *)
(* running one is renamed to a backup, old backups are deleted, the new    *)
(* one is renamed into place and started, and the client ends.  The check  *)
(* some minutes after the start, the timer and the menu do this each on    *)
(* its own; nothing but the first takes the lock.                          *)
(***************************************************************************)
EXTENDS Integers, Sequences

CONSTANTS
  Keep,          \* keepBackups
  MaxDownloads   \* bound on the downloads

UpdateAssumption == Keep \in Nat \ {0} /\ MaxDownloads \in Nat

VARIABLES
  path,        \* what is at the path of the client: a binary that starts, one that does not, or none
  temp,        \* what each updater has downloaded
  backups,     \* [good, by], the oldest first
  at,          \* what each does next
  auto,        \* the configuration has automatic updates
  up,          \* the client runs
  exiting,     \* StopApp was called
  downloads,
  bad,         \* history: binaries that do not start, renamed to backups since one that does was
  overwritten  \* history: a backup took the name of another

files == <<path, temp, backups, bad, overwritten>>
updateVars == <<files, at, auto, up, exiting, downloads>>

Updaters == {"run", "timer", "user"}
Idle == [u \in Updaters |-> "idle"]

Init ==
  /\ path = "good" /\ temp = [u \in Updaters |-> "none"] /\ backups = <<>>
  /\ at = Idle /\ auto \in BOOLEAN /\ up = TRUE /\ exiting = FALSE
  /\ downloads = 0 /\ bad = 0 /\ overwritten = FALSE

-----------------------------------------------------------------------------
(* The startup check is made once. *)
End(u) == IF u = "run" THEN "done" ELSE "idle"
To(u, next) == up /\ at' = [at EXCEPT ![u] = next]

(* Run, checkAndUpdate, checkForUpdates: the website says whether there is another version, if it answers. *)
Check(u) ==
  /\ at[u] = "idle" /\ (u = "user" \/ auto)
  /\ To(u, "download") \/ To(u, End(u))
  /\ UNCHANGED <<files, auto, up, exiting, downloads>>

(* writeFile: the status of the answer is not looked at, and an archive without a binary is no error. *)
Download(u) ==
  /\ at[u] = "download" /\ downloads < MaxDownloads
  /\ downloads' = downloads + 1
  /\ \/ To(u, End(u)) /\ UNCHANGED temp
     \/ path # "none" /\ To(u, "away") /\ \E got \in {"good", "bad"} : temp' = [temp EXCEPT ![u] = got]
  /\ UNCHANGED <<path, backups, bad, overwritten, auto, up, exiting>>

(* Mutant: the running binary is not renamed. *)
StaysThere(u) == at[u] = "away" /\ To(u, "clean") /\ UNCHANGED <<files, auto, up, exiting, downloads>>

(* replaceFile up to the first rename: a backup is named after the second, and takes the name from another. *)
RenameAway(u) ==
  LET backup == [good |-> path = "good", by |-> u]
      n == Len(backups) IN
  /\ at[u] = "away"
  /\ \/ To(u, End(u)) /\ UNCHANGED files
     \/ /\ path # "none"
        /\ path' = "none" /\ To(u, "clean")
        /\ \/ backups' = Append(backups, backup) /\ UNCHANGED overwritten
           \/ /\ n > 0 /\ backups[n].by # u
              /\ backups' = [backups EXCEPT ![n] = backup] /\ overwritten' = TRUE
        /\ bad' = IF backup.good THEN 0 ELSE bad + 1
        /\ UNCHANGED temp
  /\ UNCHANGED <<auto, up, exiting, downloads>>

(* Mutant: one more is kept. *)
KeepsOneMore(u) ==
  /\ at[u] = "clean" /\ To(u, "place")
  /\ backups' = SubSeq(backups, IF Len(backups) > Keep + 1 THEN Len(backups) - Keep ELSE 1, Len(backups))
  /\ UNCHANGED <<path, temp, bad, overwritten, auto, up, exiting, downloads>>

CleanOldBackups(u) ==
  /\ at[u] = "clean" /\ To(u, "place")
  /\ backups' = SubSeq(backups, IF Len(backups) > Keep THEN Len(backups) - Keep + 1 ELSE 1, Len(backups))
  /\ UNCHANGED <<path, temp, bad, overwritten, auto, up, exiting, downloads>>

(* The second rename; when it fails the first is not undone. *)
Place(u) ==
  /\ at[u] = "place"
  /\ \/ To(u, End(u)) /\ UNCHANGED files
     \/ path' = temp[u] /\ To(u, "start") /\ UNCHANGED <<temp, backups, bad, overwritten>>
  /\ UNCHANGED <<auto, up, exiting, downloads>>

(* The rest of NowWithContext and of updateNow: what is there is started, with --restart, and the client ends. *)
StartNew(u) ==
  /\ at[u] = "start"
  /\ \/ To(u, End(u)) /\ UNCHANGED exiting
     \/ path = "good" /\ To(u, End(u)) /\ exiting' = TRUE
  /\ UNCHANGED <<files, auto, up, downloads>>

-----------------------------------------------------------------------------
(* Stop waits for the startup check, which has the lock, and the loop for its action (TriggerLoop). *)
Reload ==
  /\ up /\ at["run"] \in {"idle", "done"} /\ at["timer"] = "idle"
  /\ at' = [at EXCEPT !["run"] = "idle"] /\ auto' \in BOOLEAN
  /\ UNCHANGED <<files, up, exiting, downloads>>

(* The end that was asked for, and the end that was not: of all that is under way nothing is finished. *)
Exit ==
  /\ up /\ up' = FALSE /\ at' = Idle /\ exiting' = FALSE
  /\ UNCHANGED <<files, auto, downloads>>

(* update.Restart, or a user. *)
Start ==
  /\ ~up /\ path = "good" /\ up' = TRUE
  /\ UNCHANGED <<files, at, auto, exiting, downloads>>

Step(u) == Check(u) \/ Download(u) \/ RenameAway(u) \/ CleanOldBackups(u) \/ Place(u) \/ StartNew(u)

Next == (\E u \in Updaters : Step(u)) \/ Reload \/ Exit \/ Start

UpdateSpec == Init /\ [][Next]_updateVars

-----------------------------------------------------------------------------
TypeOK ==
  /\ path \in {"good", "bad", "none"} /\ temp \in [Updaters -> {"good", "bad", "none"}]
  /\ Len(backups) <= Keep + 1 /\ \A n \in DOMAIN backups : backups[n].good \in BOOLEAN /\ backups[n].by \in Updaters
  /\ at \in [Updaters -> {"idle", "download", "away", "clean", "place", "start", "done"}]
  /\ {auto, up, exiting, overwritten} \subseteq BOOLEAN /\ downloads \in 0..MaxDownloads

(* Wherever an update fails or the client is killed, however the updaters interleave, a binary that starts is
   at the path or in a backup; except that backups of two updaters in one second have one name, and that a
   client which goes on after it installed Keep binaries that do not start has rotated the good one out. *)
WholeCopy == path = "good" \/ (\E n \in DOMAIN backups : backups[n].good) \/ bad >= Keep \/ overwritten
=============================================================================
