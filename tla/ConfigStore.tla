---------------------------- MODULE ConfigStore ----------------------------
(***************************************************************************)
(* How the configuration is saved (src/pkg/client/handlers_gui.go,         *)
(* gui_profile.go, src/pkg/configfile): a backup of the file, a temporary  *)
(* file named after the second, a rename.  The web UI sends the whole      *)
(* configuration, made from the one it was shown, and the version in it is *)
(* compared with the running one; a profile (the password) and a first API *)
(* key are put into the running configuration and saved from there.        *)
(* A reload reads the file.  It waits for the saves of the web server, and *)
(* not for those that came through the tunnel.                             *)
(*                                                                         *)
(* A configuration is its version, the changes in it, and whether all of   *)
(* it is on the disk: an error of Close is not looked at, nothing is       *)
(* synced, and a file that is cut short is found out when it is next read. *)
(***************************************************************************)
EXTENDS Integers, Sequences, FiniteSets

CONSTANTS
  Saves,        \* requests to save
  Keep,         \* backups that deleteOldBackups leaves (9 in the code)
  MaxSecond,    \* bound on the clock
  MaxCrashes    \* bound on the crashes

StoreAssumption == {Keep, MaxSecond, MaxCrashes} \subseteq Nat /\ {"old", "none"} \cap Saves = {}

VARIABLES
  mem,       \* the configuration that was loaded, with what was put into it
  loading,   \* how far a reload has come
  up,        \* the client runs
  keyless,   \* it was loaded without an API key: its routes are others
  lock,      \* who holds the client's lock while it saves
  save,      \* each request: where it is, if it came through the tunnel, and what it is to write where
  file,      \* the file that has the name of the configuration file
  disk,      \* what is in each file
  temp,      \* the temporary file of each second, if there is one
  backups,   \* the backups, the oldest first
  second,    \* the time, as far as names of files show it
  crashes,
  behind,    \* history: the file was replaced after it was loaded
  outlived,  \* history: a request through the tunnel was served while a reload replaced the configuration
  rotated,   \* history: backups that are not whole, made since a whole one was
  shared     \* history: one was made over another of the same second, and no whole one since

running == <<mem, loading, up, keyless, lock>>
ondisk == <<file, disk, temp>>
kept == <<backups, rotated, shared>>
seen == <<behind, outlived>>
storeVars == <<running, save, ondisk, kept, second, crashes, seen>>

Files == Saves \cup {"old"}
NoOne == "none"
Seconds == 0..MaxSecond
Earlier == -1
Changes == Saves \X {"set", "upstreams"}
NewConfig == [v |-> 0, with |-> {}]
Fresh == [at |-> "idle", kind |-> "post", tunnel |-> FALSE, conf |-> NewConfig, date |-> 0, opened |-> "old"]

Init ==
  /\ mem = NewConfig
  /\ up = TRUE /\ keyless \in BOOLEAN /\ lock = NoOne /\ loading = "no"
  /\ save = [s \in Saves |-> Fresh]
  /\ file = "old"
  /\ disk = [f \in Files |-> [v |-> 0, with |-> {}, whole |-> f = "old"]]
  /\ temp = [n \in Seconds |-> NoOne]
  /\ backups \in {<<>>, <<[second |-> Earlier, whole |-> FALSE]>>}
  /\ rotated = 0 /\ shared = FALSE
  /\ second = 0 /\ crashes = 0 /\ behind = FALSE /\ outlived = FALSE

-----------------------------------------------------------------------------
At(s, where) == up /\ save[s].at = where
Busy(s) == save[s].at \notin {"idle", "form", "done"}
With(conf, s, what) == [conf EXCEPT !.with = @ \cup {<<s, what>>}]
Gone == [Fresh EXCEPT !.at = "done"]
Done(s) == save' = [save EXCEPT ![s] = Gone]

(* c.Config, which a reload replaces by an empty one that it then reads the file into.  A request can meet the
   empty one, and what it puts there is lost. *)
Config == IF loading = "empty" THEN NewConfig ELSE mem
Put(conf) == mem' = IF loading = "empty" THEN mem ELSE conf
Met == outlived' = (outlived \/ loading = "empty") /\ UNCHANGED behind

(* What a request came by: while there is no web server only those that came through the tunnel are left. *)
Ways == IF loading = "no" THEN BOOLEAN ELSE {TRUE}

(* The lock that a profile or a key holds is let go, and the password from before is put back: after a reload that
   is not the one that was loaded. *)
Unlock(s) == lock' = IF lock = s THEN NoOne ELSE lock
Fail(s) ==
  /\ Done(s) /\ Unlock(s)
  /\ IF save[s].kind = "profile"
     THEN \E loaded \in SUBSET {c \in mem.with : outlived /\ c[2] = "set"} :
            Put([mem EXCEPT !.with = @ \ (loaded \cup {<<s, "set">>})])
     ELSE UNCHANGED mem
  /\ UNCHANGED <<loading, up, keyless>>

(* The web UI is given the running configuration, and someone makes a change in it. *)
OpenForm(s) ==
  /\ At(s, "idle") /\ ~keyless
  /\ save' = [save EXCEPT ![s].at = "form", ![s].conf = With(Config, s, "set")]
  /\ Met
  /\ UNCHANGED <<running, ondisk, kept, second, crashes>>

(* Mutant: the version is not compared. *)
AnyVersion(s) ==
  /\ At(s, "form") /\ ~keyless
  /\ \E tunnel \in Ways : save' = [save EXCEPT ![s].at = "backup", ![s].tunnel = tunnel]
  /\ Met
  /\ UNCHANGED <<running, ondisk, kept, second, crashes>>

(* handleConfigPost up to the save: what is posted must have the version of what runs, and pass the rest
   of the checks; nothing is locked.  Whether it asks for a reload is left out: one can come at any time. *)
PostConfig(s) ==
  /\ At(s, "form") /\ ~keyless
  /\ \/ Done(s) /\ UNCHANGED seen
     \/ /\ save[s].conf.v = Config.v
        /\ \E tunnel \in Ways : save' = [save EXCEPT ![s].at = "backup", ![s].tunnel = tunnel]
        /\ Met
  /\ UNCHANGED <<running, ondisk, kept, second, crashes>>

(* handleProfilePost: the upstreams go into the running configuration, and stay there.  A login with a password of
   the old form (updateToNewPasswordMD5) saves the new form the same way, without them. *)
PostProfile(s) ==
  /\ At(s, "idle") /\ ~keyless
  /\ \/ Done(s) /\ UNCHANGED mem
     \/ /\ \/ lock = NoOne /\ Put(With(mem, s, "upstreams"))
           \/ UNCHANGED mem
        /\ \E tunnel \in Ways :
             save' = [save EXCEPT ![s].at = "profile", ![s].kind = "profile", ![s].tunnel = tunnel]
  /\ UNCHANGED <<loading, up, keyless, lock, ondisk, kept, second, crashes, seen>>

(* setUserPass up to the save of a copy: when it cannot be copied the new password stays in memory. *)
SetUserPass(s) ==
  /\ At(s, "profile") /\ lock = NoOne
  /\ \/ Done(s) /\ UNCHANGED <<mem, lock, seen>>
     \/ Done(s) /\ Put(With(mem, s, "set")) /\ UNCHANGED <<lock, seen>>
     \/ /\ Put(With(mem, s, "set")) /\ lock' = s
        /\ save' = [save EXCEPT ![s].at = "backup", ![s].conf = With(Config, s, "set")]
        /\ Met
  /\ UNCHANGED <<loading, up, keyless, ondisk, kept, second, crashes>>

(* handleAPIKey: the key that was tested goes into the running configuration, which itself is saved.  Without a
   key there is no tunnel. *)
PutAPIKey(s) ==
  /\ At(s, "idle") /\ keyless /\ loading = "no"
  /\ \/ Done(s) /\ UNCHANGED <<mem, lock>>
     \/ /\ lock = NoOne /\ lock' = s
        /\ mem' = With(mem, s, "set")
        /\ save' = [save EXCEPT ![s].at = "backup", ![s].kind = "key", ![s].conf = mem']
  /\ UNCHANGED <<loading, up, keyless, ondisk, kept, second, crashes, seen>>

-----------------------------------------------------------------------------
(* saveNewConfig names the temporary file after the second it begins in, BackupFile the backup after the
   second it comes in.  Old backups are deleted whether or not a new one is made; a name that is taken then ends
   the save. *)
Newest == SubSeq(backups, IF Len(backups) > Keep THEN Len(backups) - Keep + 1 ELSE 1, Len(backups))
Taken(n) == \E i \in DOMAIN backups : backups[i].second = n

(* Mutant: no backup is made. *)
NoBackup(s) ==
  /\ At(s, "backup")
  /\ save' = [save EXCEPT ![s].at = "look", ![s].date = second]
  /\ UNCHANGED <<running, kept, ondisk, second, crashes, seen>>

BackupFile(s) ==
  /\ At(s, "backup")
  /\ backups' = Newest
  /\ IF \E i \in DOMAIN Newest : Newest[i].second = second
     THEN Fail(s)
     ELSE save' = [save EXCEPT ![s].at = "open", ![s].date = second] /\ UNCHANGED running
  /\ UNCHANGED <<ondisk, rotated, shared, second, crashes, seen>>

(* copyFile, after it has looked whether the name is taken: what it copies is the file that it opens here. *)
OpenConfig(s) ==
  /\ At(s, "open")
  /\ \/ Fail(s)
     \/ save' = [save EXCEPT ![s].at = "copy", ![s].opened = file] /\ UNCHANGED running
  /\ UNCHANGED <<ondisk, kept, second, crashes, seen>>

(* It makes the backup, or cuts off one that another save has made by then in the same second; two that copy into
   one may leave it a mixture.  A copy that fails leaves what was copied. *)
Copied(n, whole) ==
  /\ IF Taken(n)
     THEN \E i \in DOMAIN backups :
            /\ backups[i].second = n
            /\ backups' = Append(SubSeq(backups, 1, i - 1) \o SubSeq(backups, i + 1, Len(backups)),
                                 [second |-> n, whole |-> whole])
     ELSE backups' = Append(backups, [second |-> n, whole |-> whole])
  /\ rotated' = IF whole THEN 0 ELSE rotated + 1
  /\ shared' = (~whole /\ (shared \/ Taken(n)))

CopyFile(s) ==
  /\ At(s, "copy")
  /\ LET n == save[s].date IN
     \/ Copied(n, FALSE) /\ Fail(s)
     \/ Fail(s) /\ UNCHANGED kept
     \/ /\ \E whole \in {disk[save[s].opened].whole} \cup {x \in {FALSE} : Taken(n)} : Copied(n, whole)
        /\ \E began \in Seconds \cap {n - 1, n} : save' = [save EXCEPT ![s].at = "look", ![s].date = began]
        /\ UNCHANGED running
  /\ UNCHANGED <<ondisk, second, crashes, seen>>

(* Config.Write: a temporary file that is there already is left alone; it is looked for before it is made. *)
LookForTemp(s) ==
  /\ At(s, "look")
  /\ IF temp[save[s].date] # NoOne
     THEN Fail(s)
     ELSE save' = [save EXCEPT ![s].at = "create"] /\ UNCHANGED running
  /\ UNCHANGED <<ondisk, kept, second, crashes, seen>>

CreateTemp(s) ==
  /\ At(s, "create")
  /\ LET n == save[s].date
         f == IF temp[n] = NoOne THEN s ELSE temp[n] IN
     /\ temp' = [temp EXCEPT ![n] = f]
     /\ disk' = [disk EXCEPT ![f].whole = FALSE]
     /\ save' = [save EXCEPT ![s].at = "write", ![s].opened = f]
  /\ UNCHANGED <<running, file, kept, second, crashes, seen>>

(* The version goes up in what is written, which for a key is the running configuration; then the template is
   written, and what the file is left with is not looked at.  An error on the way leaves the temporary file. *)
Write(s) ==
  /\ At(s, "write")
  /\ LET new == [v |-> save[s].conf.v + 1, with |-> save[s].conf.with] IN
     \/ \E whole \in BOOLEAN :
          /\ disk' = [disk EXCEPT ![save[s].opened] = [v |-> new.v, with |-> new.with, whole |-> whole]]
          /\ save' = [save EXCEPT ![s].at = "rename"]
          /\ mem' = IF save[s].kind = "key" THEN new ELSE mem
          /\ UNCHANGED <<loading, up, keyless, lock>>
     \/ save[s].kind # "key" /\ Fail(s) /\ UNCHANGED disk
     \/ /\ save[s].kind = "key" /\ Done(s) /\ Unlock(s)
        /\ mem' \in {mem, new}
        /\ UNCHANGED <<loading, up, keyless, disk>>
  /\ UNCHANGED <<file, temp, kept, second, crashes, seen>>

Rename(s) ==
  /\ At(s, "rename")
  /\ LET n == save[s].date IN
     \/ Fail(s) /\ UNCHANGED <<file, temp, behind>>
     \/ /\ temp[n] # NoOne
        /\ file' = temp[n] /\ temp' = [temp EXCEPT ![n] = NoOne]
        /\ behind' = TRUE
        /\ Done(s) /\ Unlock(s)
        /\ UNCHANGED <<mem, loading, up, keyless>>
  /\ UNCHANGED <<disk, kept, second, crashes, outlived>>

Saving(s) == BackupFile(s) \/ OpenConfig(s) \/ CopyFile(s) \/ LookForTemp(s) \/ CreateTemp(s) \/ Write(s) \/ Rename(s)

-----------------------------------------------------------------------------
(* What is read becomes the running configuration, and a file that cannot be read ends the client. *)
Ended == [s \in Saves |-> IF Busy(s) THEN Gone ELSE save[s]]
ReadFile ==
  /\ loading' = "no"
  /\ IF disk[file].whole
     THEN /\ up' = TRUE
          /\ mem' = [v |-> disk[file].v, with |-> disk[file].with]
          /\ keyless' = (keyless /\ disk[file].with = {})
          /\ behind' = FALSE
          /\ outlived' = (outlived \/ \E s \in Saves : Busy(s))
          /\ UNCHANGED <<save, lock>>
     ELSE /\ up' = FALSE /\ lock' = NoOne /\ save' = Ended
          /\ UNCHANGED <<mem, keyless, seen>>
  /\ UNCHANGED <<ondisk, kept, second, crashes>>

(* A reload, by a save, a signal or the menu: the tunnel is closed and the web server stopped, which waits for
   who holds the lock and for the requests that the web server has, and not for those of the tunnel; one that takes
   too long ends the client, as a crash does.  Then c.Config is made anew, and the file read into it. *)
StopWebServer ==
  /\ up /\ loading = "no" /\ lock = NoOne
  /\ \A s \in Saves : Busy(s) => save[s].tunnel
  /\ loading' = "stopped"
  /\ UNCHANGED <<mem, up, keyless, lock, save, ondisk, kept, second, crashes, seen>>

MakeNewConfig ==
  /\ up /\ loading = "stopped"
  /\ loading' = "empty"
  /\ UNCHANGED <<mem, up, keyless, lock, save, ondisk, kept, second, crashes, seen>>

Load == up /\ loading = "empty" /\ ReadFile

Crash ==
  /\ up /\ crashes < MaxCrashes
  /\ up' = FALSE /\ lock' = NoOne /\ loading' = "no"
  /\ save' = Ended
  /\ crashes' = crashes + 1
  /\ UNCHANGED <<mem, keyless, ondisk, kept, second, seen>>

Start == ~up /\ disk[file].whole /\ ReadFile

Tick ==
  /\ second < MaxSecond /\ second' = second + 1
  /\ UNCHANGED <<running, save, ondisk, kept, crashes, seen>>

Next ==
  \/ \E s \in Saves :
       OpenForm(s) \/ PostConfig(s) \/ PostProfile(s) \/ SetUserPass(s) \/ PutAPIKey(s) \/ Saving(s)
  \/ StopWebServer \/ MakeNewConfig \/ Load \/ Crash \/ Start \/ Tick

StoreSpec == Init /\ [][Next]_storeVars

-----------------------------------------------------------------------------
TypeOK ==
  /\ mem.v \in Nat /\ mem.with \subseteq Changes
  /\ {up, keyless, behind, outlived, shared} \subseteq BOOLEAN /\ loading \in {"no", "stopped", "empty"}
  /\ lock \in Saves \cup {NoOne} /\ file \in Files
  /\ \A s \in Saves :
       /\ save[s].at \in {"idle", "form", "profile", "backup", "open", "copy", "look", "create", "write", "rename", "done"}
       /\ save[s].kind \in {"post", "profile", "key"} /\ save[s].opened \in Files /\ save[s].date \in Seconds
       /\ Busy(s) /\ loading # "no" => save[s].tunnel
  /\ \A f \in Files : disk[f].v \in Nat /\ disk[f].with \subseteq Changes /\ disk[f].whole \in BOOLEAN
  /\ \A n \in Seconds : temp[n] \in Saves \cup {NoOne}
  /\ \A i \in DOMAIN backups : backups[i].second \in Seconds \cup {Earlier} /\ backups[i].whole \in BOOLEAN
  /\ second \in Seconds

(* A configuration that was cut short, by a full disk or two saves that wrote into one temporary file, and that
   the client cannot start with any more, can be had from a backup, until so many more that are not whole were made
   that the last whole one was deleted, or one of them was made over another save's of the same second. *)
WholeCopy == disk[file].whole \/ rotated >= Keep \/ shared \/ \E i \in DOMAIN backups : backups[i].whole

(* A save drops a change from the file only when the file was replaced since it was loaded, in the time until the
   reload, or after a save through the tunnel was under way over a reload.  Else the version of what is posted is
   that of the file, and what is posted has all that is in the file. *)
LossIsBehind ==
  \A e \in disk[file].with : disk[file].whole /\ disk'[file'].whole /\ e \notin disk'[file'].with => behind \/ outlived
NoLossAfterReload == [][LossIsBehind]_storeVars
=============================================================================
