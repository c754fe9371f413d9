----------------------- MODULE ClientPartsFilesProofs -----------------------
(***************************************************************************)
(* Proof that neither a save of the configuration nor an update of the client *)
(* leaves it without a whole file, and that a save loses no change that was *)
(* loaded.  The names of ConfigStore's and UpdateFile's invariants begin with *)
(* Cfg and Upd, as their definitions do in ClientParts.                    *)
(***************************************************************************)
EXTENDS ClientParts, FiniteSetTheorems, SequenceTheorems, TLAPS

-----------------------------------------------------------------------------
(* Saves of the configuration (ConfigStore).                               *)
CfgConfs == [v : Nat, with : SUBSET Cfg!Changes]
CfgPlaces == {"idle", "form", "profile", "backup", "open", "copy", "look", "create", "write", "rename", "done"}
CfgSaveType ==
  [at : CfgPlaces, kind : {"post", "profile", "key"}, tunnel : BOOLEAN, conf : CfgConfs, date : Cfg!Seconds, opened : Cfg!Files]
CfgFileType == [v : Nat, with : SUBSET Cfg!Changes, whole : BOOLEAN]
CfgBackupType == [second : Cfg!Seconds \cup {Cfg!Earlier}, whole : BOOLEAN]

CfgTypeInv ==
  /\ mem \in CfgConfs /\ loading \in {"no", "stopped", "empty"} /\ cfgUp \in BOOLEAN /\ keyless \in BOOLEAN
  /\ behind \in BOOLEAN /\ outlived \in BOOLEAN /\ shared \in BOOLEAN
  /\ cfgLock \in Saves \cup {Cfg!NoOne} /\ save \in [Saves -> CfgSaveType]
  /\ file \in Cfg!Files /\ disk \in [Cfg!Files -> CfgFileType] /\ cfgTemp \in [Cfg!Seconds -> Saves \cup {Cfg!NoOne}]
  /\ cfgBackups \in Seq(CfgBackupType) /\ rotated \in Nat /\ second \in Cfg!Seconds

(* How far a save has come.                                                *)
CfgCopied(s) == save[s].at \in {"look", "create", "write", "rename"}
CfgLooked(s) == save[s].at \in {"create", "write", "rename"}
CfgCreated(s) == save[s].at \in {"write", "rename"}
CfgHasConf(s) == Cfg!Busy(s) /\ save[s].at # "profile"

(* After backup n, a whole one, only so many more were made, or there is   *)
(* no need of one: what is in its place is whole, and nothing writes, or   *)
(* copies what was there before.                                           *)
CfgKeptWhole(n) == cfgBackups[n].whole = TRUE /\ Len(cfgBackups) - n <= rotated
CfgCopying(s) == ~CfgCopied(s) /\ (save[s].at = "copy" => save[s].opened = file)
CfgCopyInv ==
  \/ \E n \in DOMAIN cfgBackups : CfgKeptWhole(n)
  \/ rotated >= Keep
  \/ shared
  \/ disk[file].whole = TRUE /\ \A s \in Saves : CfgCopying(s)

(* Who is busy ends with the client; a reload waits for who did not come   *)
(* through the tunnel.                                                     *)
CfgBusyOf(s) ==
  /\ Cfg!Busy(s) => cfgUp
  /\ Cfg!Busy(s) /\ loading # "no" => save[s].tunnel
  /\ save[s].at \in {"idle", "form"} => save[s].kind = "post" /\ ~save[s].tunnel
  /\ save[s].at = "profile" => save[s].kind = "profile"
  /\ save[s].kind = "key" => ~save[s].tunnel
  /\ keyless => save[s].at \notin {"form", "profile"}
  /\ CfgHasConf(s) => (save[s].kind = "key" <=> keyless)

(* A file has one name at most, and those that no save has made have none. *)
CfgNamesInv ==
  /\ \A n \in Cfg!Seconds : cfgTemp[n] # file
  /\ \A n, m \in Cfg!Seconds : cfgTemp[n] = cfgTemp[m] /\ cfgTemp[n] # Cfg!NoOne => n = m
CfgNameOf(s) ==
  /\ file = s \/ (\E n \in Cfg!Seconds : cfgTemp[n] = s) => CfgCreated(s) \/ save[s].at = "done"
  /\ CfgCreated(s) /\ ~behind /\ ~outlived => cfgTemp[save[s].date] = save[s].opened

(* What a profile sets is nowhere before it does, and not in the file that *)
(* runs before it is saved.                                                *)
CfgSetOf(s) ==
  /\ save[s].at \in {"idle", "profile"} =>
       /\ <<s, "set">> \notin mem.with
       /\ \A f \in Cfg!Files : <<s, "set">> \notin disk[f].with
       /\ \A r \in Saves : <<s, "set">> \notin save[r].conf.with
  /\ CfgHasConf(s) /\ save[s].kind = "profile" /\ ~behind /\ ~outlived => <<s, "set">> \notin disk[file].with

(* What a save is about to give the name of the configuration file.        *)
CfgIsReady(s) == CfgLooked(s) /\ cfgTemp[save[s].date] # Cfg!NoOne /\ disk[cfgTemp[save[s].date]].whole
CfgReady(s) == disk[cfgTemp[save[s].date]]

(* The version counts the files that were loaded, as long as no save was   *)
(* under way over a reload.                                                *)
CfgVersionInv ==
  ~outlived => (~keyless /\ disk[file].whole => disk[file].v = IF behind THEN mem.v + 1 ELSE mem.v)
CfgVersionOf(s) ==
  ~keyless /\ ~outlived =>
    /\ save[s].at = "form" => save[s].conf.v <= mem.v
    /\ CfgHasConf(s) => save[s].conf.v = mem.v
    /\ CfgIsReady(s) => CfgReady(s).v = mem.v + 1

(* Until the file is replaced, what is in it is in all that may replace it.*)
CfgChangesInv ==
  ~behind /\ ~outlived => IF keyless THEN disk[file].with = {} ELSE disk[file].with \subseteq mem.with
CfgChangesOf(s) ==
  ~behind /\ ~keyless /\ ~outlived =>
    /\ save[s].at = "form" /\ save[s].conf.v = mem.v => disk[file].with \subseteq save[s].conf.with
    /\ CfgHasConf(s) => disk[file].with \subseteq save[s].conf.with
    /\ CfgIsReady(s) => disk[file].with \subseteq CfgReady(s).with

CfgSaveInv(s) == CfgBusyOf(s) /\ CfgNameOf(s) /\ CfgSetOf(s) /\ CfgVersionOf(s) /\ CfgChangesOf(s)
CfgFileInv == CfgNamesInv /\ CfgVersionInv /\ CfgChangesInv

CfgIInv == CfgTypeInv /\ CfgCopyInv /\ CfgFileInv /\ \A s \in Saves : CfgSaveInv(s)

-----------------------------------------------------------------------------
LEMMA CfgFreshType == ASSUME Cfg!StoreAssumption PROVE Cfg!Fresh \in CfgSaveType /\ Cfg!Gone \in CfgSaveType
<1>1. Cfg!NewConfig \in CfgConfs /\ 0 \in Cfg!Seconds /\ "old" \in Cfg!Files
  BY DEF Cfg!StoreAssumption, Cfg!NewConfig, CfgConfs, Cfg!Seconds, Cfg!Files
<1>2. Cfg!Fresh \in CfgSaveType
  BY <1>1 DEF Cfg!Fresh, CfgSaveType, CfgPlaces
<1>. QED BY <1>2 DEF Cfg!Gone, CfgSaveType, CfgPlaces

LEMMA CfgInitInv == ASSUME Cfg!StoreAssumption, Cfg!Init PROVE CfgIInv
<1>1. CfgTypeInv
  <2>1. mem \in CfgConfs /\ save \in [Saves -> CfgSaveType]
    BY CfgFreshType DEF Cfg!Init, CfgConfs, Cfg!NewConfig
  <2>2. disk \in [Cfg!Files -> CfgFileType]
    BY DEF Cfg!Init, CfgFileType
  <2>3. second \in Cfg!Seconds /\ cfgTemp \in [Cfg!Seconds -> Saves \cup {Cfg!NoOne}]
    BY DEF Cfg!StoreAssumption, Cfg!Init, Cfg!Seconds
  <2>4. file \in Cfg!Files /\ cfgLock \in Saves \cup {Cfg!NoOne} /\ rotated \in Nat
    BY DEF Cfg!Init, Cfg!Files
  <2>5. cfgBackups \in Seq(CfgBackupType)
    <3>. DEFINE earlier == [second |-> Cfg!Earlier, whole |-> FALSE]
    <3>1. earlier \in CfgBackupType
      BY DEF CfgBackupType
    <3>. HIDE DEF earlier
    <3>2. <<earlier>> \in Seq(CfgBackupType) /\ <<>> \in Seq(CfgBackupType)
      BY <3>1
    <3>. QED BY <3>2 DEF Cfg!Init, earlier
  <2>6. /\ loading \in {"no", "stopped", "empty"} /\ cfgUp \in BOOLEAN /\ keyless \in BOOLEAN
        /\ behind \in BOOLEAN /\ outlived \in BOOLEAN /\ shared \in BOOLEAN
    BY DEF Cfg!Init
  <2>. QED BY <2>1, <2>2, <2>3, <2>4, <2>5, <2>6 DEF CfgTypeInv
<1>2. /\ disk[file].whole = TRUE /\ disk[file].v = 0 /\ mem.v = 0 /\ file = "old"
      /\ \A f \in Cfg!Files : disk[f].with = {}
      /\ \A n \in Cfg!Seconds : cfgTemp[n] = Cfg!NoOne
  BY DEF Cfg!Init, Cfg!Files, Cfg!NewConfig
<1>3. mem.with = {} /\ \A s \in Saves : save[s].at = "idle" /\ save[s].conf.with = {}
  BY DEF Cfg!Init, Cfg!Fresh, Cfg!NewConfig
<1>4. CfgCopyInv
  BY <1>2, <1>3 DEF CfgCopyInv, CfgCopied, CfgCopying
<1>5. CfgFileInv
  BY <1>2, <1>3 DEF Cfg!Init, CfgFileInv, CfgNamesInv, CfgVersionInv, CfgChangesInv, Cfg!NoOne, Cfg!Files
<1>6. ASSUME NEW s \in Saves PROVE CfgSaveInv(s)
  <2>1. s # Cfg!NoOne /\ s # "old"
    BY DEF Cfg!StoreAssumption, Cfg!NoOne
  <2>3. save[s].kind = "post" /\ ~save[s].tunnel
    BY DEF Cfg!Init, Cfg!Fresh
  <2>2. ~Cfg!Busy(s) /\ ~CfgLooked(s) /\ ~CfgCreated(s) /\ ~CfgHasConf(s) /\ ~CfgIsReady(s)
    BY <1>3 DEF Cfg!Busy, CfgLooked, CfgCreated, CfgHasConf, CfgIsReady
  <2>. QED BY <1>2, <1>3, <2>1, <2>2, <2>3 DEF CfgSaveInv, CfgBusyOf, CfgNameOf, CfgSetOf, CfgVersionOf, CfgChangesOf
<1>. QED BY <1>1, <1>4, <1>5, <1>6 DEF CfgIInv

-----------------------------------------------------------------------------
(* Save s goes on, or puts what it sets into the running configuration,    *)
(* and leaves the disk alone.                                              *)
CfgQuiet(s) ==
  /\ \A r \in Saves : r # s => save'[r] = save[r]
  /\ UNCHANGED <<loading, cfgUp, keyless, file, disk, cfgTemp, behind>>
  /\ outlived => outlived'
  /\ keyless \/ mem'.v = mem.v
  /\ mem'.with \subseteq mem.with \cup save[s].conf.with \cup {<<s, "set">>, <<s, "upstreams">>}
  /\ CfgChangesInv'
  /\ save'[s].conf.with \subseteq mem'.with \cup save[s].conf.with \cup {<<s, "set">>}

LEMMA CfgQuietInv ==
  ASSUME CfgTypeInv, CfgFileInv, \A r \in Saves : CfgSaveInv(r), NEW s \in Saves, CfgQuiet(s), CfgSaveInv(s)'
  PROVE  CfgFileInv' /\ \A r \in Saves : CfgSaveInv(r)'
<1>. USE DEF CfgQuiet
<1>1. CfgFileInv'
  BY DEF CfgFileInv, CfgNamesInv, CfgVersionInv
<1>2. ASSUME NEW r \in Saves, r # s PROVE CfgSaveInv(r)'
  <2>1. save'[r] = save[r] /\ CfgSaveInv(r)
    BY <1>2
  <2>2. CfgBusyOf(r)' /\ CfgNameOf(r)'
    BY <2>1 DEF CfgSaveInv, CfgBusyOf, CfgNameOf, Cfg!Busy, CfgHasConf, CfgCreated
  <2>3. CfgSetOf(r)'
    <3>1. <<r, "set">> \notin mem.with /\ <<r, "set">> \notin save[s].conf.with => <<r, "set">> \notin mem'.with
      BY <1>2
    <3>2. ASSUME NEW q \in Saves, <<r, "set">> \notin mem.with, \A p \in Saves : <<r, "set">> \notin save[p].conf.with
          PROVE  <<r, "set">> \notin save'[q].conf.with
      BY <1>2, <3>1, <3>2
    <3>. QED BY <2>1, <3>1, <3>2 DEF CfgSaveInv, CfgSetOf, CfgHasConf, Cfg!Busy
  <2>4. CfgIsReady(r)' = CfgIsReady(r) /\ CfgReady(r)' = CfgReady(r) /\ CfgHasConf(r)' = CfgHasConf(r)
    BY <2>1 DEF CfgIsReady, CfgReady, CfgLooked, CfgHasConf, Cfg!Busy
  <2>5. CfgVersionOf(r)' /\ CfgChangesOf(r)'
    BY <2>1, <2>4 DEF CfgSaveInv, CfgVersionOf, CfgChangesOf
  <2>. QED BY <2>2, <2>3, <2>5 DEF CfgSaveInv
<1>. QED BY <1>1, <1>2

CfgInv == CfgTypeInv /\ CfgFileInv /\ \A s \in Saves : CfgSaveInv(s)

LEMMA CfgDoneIs ==
  ASSUME Cfg!StoreAssumption, CfgTypeInv, NEW s \in Saves, Cfg!Done(s)
  PROVE  /\ save' \in [Saves -> CfgSaveType] /\ \A r \in Saves : r # s => save'[r] = save[r]
         /\ save'[s] = Cfg!Gone /\ save'[s].at = "done" /\ save'[s].conf.with = {} /\ save'[s].kind = "post"
<1>1. save' = [save EXCEPT ![s] = Cfg!Gone] /\ save \in [Saves -> CfgSaveType]
  BY DEF CfgTypeInv, Cfg!Done
<1>2. Cfg!Gone.at = "done" /\ Cfg!Gone.conf.with = {} /\ Cfg!Gone.kind = "post"
  BY DEF Cfg!Gone, Cfg!Fresh, Cfg!NewConfig
<1>. QED BY <1>1, <1>2, CfgFreshType

(* A save that is done needs nothing of the rest.                          *)
LEMMA CfgDoneInv ==
  ASSUME CfgTypeInv, NEW s \in Saves, save'[s].at = "done", save'[s].kind = "post"
  PROVE  CfgSaveInv(s)'
<1>1. ~Cfg!Busy(s)' /\ ~CfgLooked(s)' /\ ~CfgCreated(s)' /\ ~CfgHasConf(s)' /\ ~CfgIsReady(s)'
  BY DEF Cfg!Busy, CfgLooked, CfgCreated, CfgHasConf, CfgIsReady
<1>. QED BY <1>1 DEF CfgSaveInv, CfgBusyOf, CfgNameOf, CfgSetOf, CfgVersionOf, CfgChangesOf

LEMMA CfgConfigIs ==
  ASSUME CfgTypeInv
  PROVE  /\ Cfg!Config \in CfgConfs /\ Cfg!Config.v <= mem.v /\ Cfg!Config.with \subseteq mem.with
         /\ loading # "empty" => Cfg!Config = mem
BY DEF CfgTypeInv, Cfg!Config, Cfg!NewConfig, CfgConfs

LEMMA CfgWithIs ==
  ASSUME Cfg!StoreAssumption, CfgTypeInv, NEW given \in CfgConfs, NEW s \in Saves, NEW what \in {"set", "upstreams"}
  PROVE  /\ Cfg!With(given, s, what) \in CfgConfs /\ Cfg!With(given, s, what).v = given.v
         /\ Cfg!With(given, s, what).with = given.with \cup {<<s, what>>}
BY DEF Cfg!With, CfgConfs, Cfg!Changes

LEMMA CfgPutIs ==
  ASSUME Cfg!StoreAssumption, CfgTypeInv, NEW s \in Saves, NEW what \in {"set", "upstreams"},
         Cfg!Put(Cfg!With(mem, s, what))
  PROVE  /\ mem' \in CfgConfs /\ mem'.v = mem.v /\ mem.with \subseteq mem'.with
         /\ mem'.with \subseteq mem.with \cup {<<s, what>>}
         /\ loading # "empty" => mem' = Cfg!With(mem, s, what)
<1>1. mem \in CfgConfs
  BY DEF CfgTypeInv
<1>. QED BY <1>1, CfgWithIs DEF Cfg!Put

LEMMA CfgFailIs ==
  ASSUME Cfg!StoreAssumption, CfgInv, NEW s \in Saves, CfgHasConf(s), cfgUp, Cfg!Fail(s),
         UNCHANGED <<file, disk, cfgTemp, behind, outlived>>
  PROVE  /\ CfgQuiet(s) /\ save' \in [Saves -> CfgSaveType] /\ mem' \in CfgConfs /\ cfgLock' \in Saves \cup {Cfg!NoOne}
         /\ save'[s].at = "done" /\ save'[s].kind = "post"
<1>1. /\ save' \in [Saves -> CfgSaveType] /\ \A r \in Saves : r # s => save'[r] = save[r]
      /\ save'[s].at = "done" /\ save'[s].conf.with = {} /\ save'[s].kind = "post"
  BY CfgDoneIs DEF CfgInv, Cfg!Fail
<1>2. cfgLock' \in Saves \cup {Cfg!NoOne}
  BY DEF CfgInv, CfgTypeInv, Cfg!Fail, Cfg!Unlock
<1>3. mem' \in CfgConfs /\ mem'.v = mem.v /\ mem'.with \subseteq mem.with
      /\ (outlived \/ mem'.with = mem.with \/ (save[s].kind = "profile" /\ mem'.with = mem.with \ {<<s, "set">>}))
  <2>1. CASE save[s].kind = "profile"
    <3>1. PICK loaded \in SUBSET {c \in mem.with : outlived /\ c[2] = "set"} :
            Cfg!Put([mem EXCEPT !.with = @ \ (loaded \cup {<<s, "set">>})])
      BY <2>1 DEF Cfg!Fail
    <3>2. ~outlived => loaded = {}
      OBVIOUS
    <3>3. mem' = mem \/ mem' = [mem EXCEPT !.with = @ \ (loaded \cup {<<s, "set">>})]
      BY <3>1 DEF Cfg!Put
    <3>. QED BY <2>1, <3>2, <3>3 DEF CfgInv, CfgTypeInv, CfgConfs
  <2>2. CASE save[s].kind # "profile"
    BY <2>2 DEF CfgInv, CfgTypeInv, Cfg!Fail
  <2>. QED BY <2>1, <2>2
<1>4. CfgChangesInv'
  <2>1. save[s].kind = "profile" => ~keyless /\ (~behind /\ ~outlived => <<s, "set">> \notin disk[file].with)
    BY DEF CfgInv, CfgSaveInv, CfgBusyOf, CfgSetOf
  <2>. QED BY <1>3, <2>1 DEF CfgInv, CfgFileInv, CfgChangesInv, Cfg!Fail
<1>. QED BY <1>1, <1>2, <1>3, <1>4 DEF CfgQuiet, Cfg!Fail

-----------------------------------------------------------------------------
LEMMA CfgOpenFormInv == ASSUME Cfg!StoreAssumption, CfgInv, NEW s \in Saves, Cfg!OpenForm(s) PROVE CfgInv'
<1>. DEFINE posted == Cfg!With(Cfg!Config, s, "set")
<1>1. /\ save' = [save EXCEPT ![s].at = "form", ![s].conf = posted] /\ ~keyless
      /\ UNCHANGED <<Cfg!running, Cfg!ondisk, Cfg!kept, second, crashes, behind>> /\ save[s] \in CfgSaveType
      /\ outlived' = (outlived \/ loading = "empty") /\ outlived' \in BOOLEAN
  BY DEF Cfg!OpenForm, Cfg!Met, CfgInv, CfgTypeInv
<1>2. posted \in CfgConfs /\ posted.v <= mem.v /\ posted.with \subseteq mem.with \cup {<<s, "set">>}
      /\ (~outlived' => posted.v = mem.v /\ mem.with \subseteq posted.with)
  BY <1>1, CfgConfigIs, CfgWithIs DEF CfgInv
<1>. HIDE DEF posted
<1>3. /\ save' \in [Saves -> CfgSaveType] /\ \A r \in Saves : r # s => save'[r] = save[r]
      /\ save'[s].at = "form" /\ save'[s].conf = posted /\ save'[s].kind = save[s].kind /\ save'[s].tunnel = save[s].tunnel
  BY <1>1, <1>2 DEF CfgInv, CfgTypeInv, CfgSaveType, CfgPlaces
<1>4. CfgTypeInv'
  BY <1>1, <1>3 DEF CfgInv, CfgTypeInv, Cfg!running, Cfg!ondisk, Cfg!kept
<1>5. CfgQuiet(s)
  BY <1>1, <1>2, <1>3 DEF CfgInv, CfgQuiet, CfgFileInv, CfgChangesInv, Cfg!running, Cfg!ondisk
<1>6. CfgSaveInv(s)'
  <2>1. ~Cfg!Busy(s)' /\ ~CfgCreated(s)' /\ ~CfgHasConf(s)' /\ ~CfgIsReady(s)'
    BY <1>3 DEF Cfg!Busy, CfgLooked, CfgCreated, CfgHasConf, CfgIsReady
  <2>2. save[s].at = "idle"
    BY DEF Cfg!OpenForm, Cfg!At
  <2>3. CfgNameOf(s)'
    BY <1>1, <2>1, <2>2 DEF CfgInv, CfgSaveInv, CfgNameOf, CfgCreated, Cfg!running, Cfg!ondisk
  <2>4. mem' = mem /\ keyless' = keyless /\ disk' = disk /\ file' = file /\ behind' = behind /\ (outlived => outlived')
    BY <1>1 DEF Cfg!running, Cfg!ondisk
  <2>5. CfgChangesOf(s)'
    BY <1>1, <1>2, <1>3, <2>1, <2>4 DEF CfgChangesOf, CfgInv, CfgFileInv, CfgChangesInv
  <2>6. save'[s].kind = "post" /\ ~save'[s].tunnel
    BY <1>3, <2>2 DEF CfgInv, CfgSaveInv, CfgBusyOf
  <2>7. CfgVersionOf(s)'
    BY <1>2, <1>3, <2>1, <2>4 DEF CfgVersionOf
  <2>. QED BY <1>1, <1>3, <2>1, <2>3, <2>4, <2>5, <2>6, <2>7 DEF CfgSaveInv, CfgBusyOf, CfgSetOf
<1>. QED BY <1>4, <1>5, <1>6, CfgQuietInv DEF CfgInv

(* A request is over, whatever it put into the running configuration.      *)
LEMMA CfgOverInv ==
  ASSUME Cfg!StoreAssumption, CfgInv, NEW s \in Saves, Cfg!Done(s), mem' \in CfgConfs, mem'.v = mem.v,
         mem.with \subseteq mem'.with, mem'.with \subseteq mem.with \cup {<<s, "set">>}, keyless => mem' = mem,
         UNCHANGED <<loading, cfgUp, keyless, cfgLock, file, disk, cfgTemp, cfgBackups, rotated, shared, second, behind, outlived>>
  PROVE  CfgInv'
<1>1. /\ save' \in [Saves -> CfgSaveType] /\ \A r \in Saves : r # s => save'[r] = save[r]
      /\ save'[s].at = "done" /\ save'[s].conf.with = {} /\ save'[s].kind = "post"
  BY CfgDoneIs DEF CfgInv
<1>2. CfgQuiet(s)
  BY <1>1 DEF CfgQuiet, CfgInv, CfgFileInv, CfgChangesInv
<1>3. CfgTypeInv'
  BY <1>1 DEF CfgInv, CfgTypeInv
<1>. QED BY <1>1, <1>2, <1>3, CfgQuietInv, CfgDoneInv DEF CfgInv

LEMMA CfgPostConfigInv == ASSUME Cfg!StoreAssumption, CfgInv, NEW s \in Saves, Cfg!PostConfig(s) PROVE CfgInv'
<1>1. /\ save[s] \in CfgSaveType /\ save[s].at = "form" /\ cfgUp /\ ~keyless
      /\ UNCHANGED <<mem, loading, cfgUp, keyless, cfgLock, file, disk, cfgTemp, cfgBackups, rotated, shared, second, behind>>
  BY DEF Cfg!PostConfig, Cfg!At, CfgInv, CfgTypeInv, Cfg!running, Cfg!ondisk, Cfg!kept, Cfg!seen, Cfg!Met
<1>2. CASE Cfg!Done(s) /\ UNCHANGED Cfg!seen
  BY <1>1, <1>2, CfgOverInv DEF Cfg!seen, CfgInv, CfgTypeInv
<1>3. ASSUME save[s].conf.v = Cfg!Config.v, NEW tunnel \in Cfg!Ways, Cfg!Met,
             save' = [save EXCEPT ![s].at = "backup", ![s].tunnel = tunnel]
      PROVE  CfgInv'
  <2>0. tunnel \in BOOLEAN /\ (loading # "no" => tunnel)
    BY DEF Cfg!Ways
  <2>1. /\ save' \in [Saves -> CfgSaveType] /\ \A r \in Saves : r # s => save'[r] = save[r]
        /\ save'[s].at = "backup" /\ save'[s].conf = save[s].conf /\ save'[s].kind = save[s].kind /\ save'[s].tunnel = tunnel
    BY <1>1, <1>3, <2>0 DEF CfgInv, CfgTypeInv, CfgSaveType, CfgPlaces
  <2>2. outlived' \in BOOLEAN /\ (outlived => outlived') /\ (~outlived' => save[s].conf.v = mem.v)
    BY <1>3, CfgConfigIs DEF CfgInv, CfgTypeInv, Cfg!Met
  <2>3. CfgQuiet(s)
    BY <1>1, <2>1, <2>2 DEF CfgQuiet, CfgInv, CfgFileInv, CfgChangesInv
  <2>4. CfgTypeInv'
    BY <1>1, <2>1, <2>2 DEF CfgInv, CfgTypeInv
  <2>5. CfgSaveInv(s)'
    <3>1. ~CfgCreated(s)' /\ CfgHasConf(s)' /\ ~CfgIsReady(s)'
      BY <2>1 DEF Cfg!Busy, CfgLooked, CfgCreated, CfgHasConf, CfgIsReady
    <3>2. save[s].kind = "post" /\ CfgSaveInv(s)
      BY <1>1 DEF CfgInv, CfgSaveInv, CfgBusyOf
    <3>3. CfgBusyOf(s)' /\ CfgNameOf(s)' /\ CfgSetOf(s)'
      BY <1>1, <2>0, <2>1, <2>2, <3>1, <3>2 DEF CfgSaveInv, CfgBusyOf, CfgNameOf, CfgSetOf, CfgCreated
    <3>4. CfgVersionOf(s)' /\ CfgChangesOf(s)'
      BY <1>1, <2>1, <2>2, <3>1, <3>2 DEF CfgSaveInv, CfgVersionOf, CfgChangesOf
    <3>. QED BY <3>3, <3>4 DEF CfgSaveInv
  <2>. QED BY <2>3, <2>4, <2>5, CfgQuietInv DEF CfgInv
<1>. QED BY <1>2, <1>3 DEF Cfg!PostConfig

LEMMA CfgPostProfileInv == ASSUME Cfg!StoreAssumption, CfgInv, NEW s \in Saves, Cfg!PostProfile(s) PROVE CfgInv'
<1>1. /\ save[s] \in CfgSaveType /\ save[s].at = "idle" /\ cfgUp /\ ~keyless
      /\ UNCHANGED <<loading, cfgUp, keyless, cfgLock, file, disk, cfgTemp, cfgBackups, rotated, shared, second, behind, outlived>>
  BY DEF Cfg!PostProfile, Cfg!At, CfgInv, CfgTypeInv, Cfg!ondisk, Cfg!kept, Cfg!seen
<1>2. CASE Cfg!Done(s) /\ UNCHANGED mem
  BY <1>1, <1>2, CfgOverInv DEF CfgInv, CfgTypeInv
<1>3. ASSUME Cfg!Put(Cfg!With(mem, s, "upstreams")) \/ UNCHANGED mem, NEW tunnel \in Cfg!Ways,
             save' = [save EXCEPT ![s].at = "profile", ![s].kind = "profile", ![s].tunnel = tunnel]
      PROVE  CfgInv'
  <2>0. tunnel \in BOOLEAN /\ (loading # "no" => tunnel)
    BY DEF Cfg!Ways
  <2>1. /\ save' \in [Saves -> CfgSaveType] /\ \A r \in Saves : r # s => save'[r] = save[r]
        /\ save'[s].at = "profile" /\ save'[s].conf = save[s].conf /\ save'[s].kind = "profile" /\ save'[s].tunnel = tunnel
    BY <1>1, <1>3, <2>0 DEF CfgInv, CfgTypeInv, CfgSaveType, CfgPlaces
  <2>2. mem' \in CfgConfs /\ mem'.v = mem.v /\ mem.with \subseteq mem'.with /\ mem'.with \subseteq mem.with \cup {<<s, "upstreams">>}
    BY <1>3, CfgPutIs DEF CfgInv, CfgTypeInv
  <2>3. CfgQuiet(s)
    BY <1>1, <2>1, <2>2 DEF CfgQuiet, CfgInv, CfgFileInv, CfgChangesInv
  <2>4. CfgTypeInv'
    BY <1>1, <2>1, <2>2 DEF CfgInv, CfgTypeInv
  <2>5. ~CfgCreated(s)' /\ ~CfgHasConf(s)' /\ ~CfgIsReady(s)'
    BY <2>1 DEF Cfg!Busy, CfgLooked, CfgCreated, CfgHasConf, CfgIsReady
  <2>6. CfgSetOf(s)'
    BY <1>1, <2>1, <2>2, <2>5 DEF CfgInv, CfgSaveInv, CfgSetOf
  <2>7. CfgSaveInv(s)'
    BY <1>1, <2>0, <2>1, <2>5, <2>6 DEF CfgInv, CfgSaveInv, CfgBusyOf, CfgNameOf, CfgVersionOf, CfgChangesOf, CfgCreated
  <2>. QED BY <2>3, <2>4, <2>7, CfgQuietInv DEF CfgInv
<1>. QED BY <1>2, <1>3 DEF Cfg!PostProfile

(* The configuration that is to be saved is the running one.               *)
LEMMA CfgCopyMemInv ==
  ASSUME Cfg!StoreAssumption, CfgInv, NEW s \in Saves, cfgUp, save[s].at = IF keyless THEN "idle" ELSE "profile",
         save' \in [Saves -> CfgSaveType], \A r \in Saves : r # s => save'[r] = save[r],
         save'[s].at = "backup", save'[s].kind = IF keyless THEN "key" ELSE "profile", save'[s].tunnel = save[s].tunnel,
         keyless => loading = "no",
         save'[s].conf = Cfg!With(Cfg!Config, s, "set"), Cfg!Put(Cfg!With(mem, s, "set")), cfgLock' = s,
         outlived' \in BOOLEAN, outlived \/ loading = "empty" => outlived',
         UNCHANGED <<loading, cfgUp, keyless, file, disk, cfgTemp, cfgBackups, rotated, shared, second, behind>>
  PROVE  CfgInv'
<1>1. mem' \in CfgConfs /\ mem'.v = mem.v /\ mem.with \subseteq mem'.with /\ mem'.with \subseteq mem.with \cup {<<s, "set">>}
  BY CfgPutIs DEF CfgInv
<1>0. /\ save'[s].conf.with \subseteq mem.with \cup {<<s, "set">>}
      /\ ~outlived' => save'[s].conf = mem'
  BY CfgConfigIs, CfgWithIs, CfgPutIs DEF CfgInv
<1>2. CfgQuiet(s)
  <2>1. CfgChangesInv'
    BY <1>1 DEF CfgInv, CfgFileInv, CfgChangesInv
  <2>. QED BY <1>0, <1>1, <2>1 DEF CfgQuiet
<1>3. CfgTypeInv'
  BY <1>1 DEF CfgInv, CfgTypeInv
<1>4. ~CfgCreated(s)' /\ CfgHasConf(s)' /\ ~CfgIsReady(s)'
  BY DEF Cfg!Busy, CfgLooked, CfgCreated, CfgHasConf, CfgIsReady
<1>5. CfgSetOf(s)' /\ CfgBusyOf(s)'
  <2>1. CfgSaveInv(s) /\ file \in Cfg!Files
    BY DEF CfgInv, CfgTypeInv
  <2>2. loading # "no" => save[s].tunnel
    BY <2>1 DEF CfgSaveInv, CfgBusyOf, Cfg!Busy
  <2>3. keyless => ~save[s].tunnel
    BY <2>1 DEF CfgSaveInv, CfgBusyOf
  <2>. QED BY <1>4, <2>1, <2>2, <2>3 DEF CfgSaveInv, CfgSetOf, CfgBusyOf
<1>6. CfgNameOf(s)'
  BY <1>4 DEF CfgInv, CfgSaveInv, CfgNameOf, CfgCreated
<1>7. CfgVersionOf(s)'
  BY <1>0, <1>1, <1>4 DEF CfgVersionOf
<1>8. CfgChangesOf(s)'
  BY <1>0, <1>2, <1>4 DEF CfgQuiet, CfgChangesOf, CfgChangesInv
<1>. QED BY <1>2, <1>3, <1>5, <1>6, <1>7, <1>8, CfgQuietInv DEF CfgInv, CfgSaveInv

LEMMA CfgSetUserPassInv == ASSUME Cfg!StoreAssumption, CfgInv, NEW s \in Saves, Cfg!SetUserPass(s) PROVE CfgInv'
<1>1. /\ save[s] \in CfgSaveType /\ save[s].at = "profile" /\ save[s].kind = "profile" /\ cfgUp /\ ~keyless
      /\ UNCHANGED <<loading, cfgUp, keyless, file, disk, cfgTemp, cfgBackups, rotated, shared, second, behind>>
  BY DEF Cfg!SetUserPass, Cfg!At, CfgInv, CfgTypeInv, CfgSaveInv, CfgBusyOf, Cfg!ondisk, Cfg!kept, Cfg!seen, Cfg!Met
<1>2. CASE Cfg!Done(s) /\ (UNCHANGED mem \/ Cfg!Put(Cfg!With(mem, s, "set"))) /\ UNCHANGED <<cfgLock, outlived>>
  <2>1. mem' \in CfgConfs /\ mem'.v = mem.v /\ mem.with \subseteq mem'.with /\ mem'.with \subseteq mem.with \cup {<<s, "set">>}
    BY <1>2, CfgPutIs DEF CfgInv, CfgTypeInv
  <2>. QED BY <1>1, <1>2, <2>1, CfgOverInv
<1>3. CASE /\ Cfg!Put(Cfg!With(mem, s, "set")) /\ cfgLock' = s /\ Cfg!Met
           /\ save' = [save EXCEPT ![s].at = "backup", ![s].conf = Cfg!With(Cfg!Config, s, "set")]
  <2>1. Cfg!With(Cfg!Config, s, "set") \in CfgConfs
    BY CfgConfigIs, CfgWithIs DEF CfgInv
  <2>2. /\ save' \in [Saves -> CfgSaveType] /\ \A r \in Saves : r # s => save'[r] = save[r]
        /\ save'[s].at = "backup" /\ save'[s].conf = Cfg!With(Cfg!Config, s, "set") /\ save'[s].kind = "profile"
        /\ save'[s].tunnel = save[s].tunnel
    BY <1>1, <1>3, <2>1 DEF CfgInv, CfgTypeInv, CfgSaveType, CfgPlaces
  <2>3. outlived' \in BOOLEAN /\ (outlived \/ loading = "empty" => outlived')
    BY <1>3 DEF Cfg!Met, CfgInv, CfgTypeInv
  <2>. QED BY <1>1, <1>3, <2>2, <2>3, CfgCopyMemInv
<1>. QED BY <1>2, <1>3 DEF Cfg!SetUserPass, Cfg!seen

LEMMA CfgPutAPIKeyInv == ASSUME Cfg!StoreAssumption, CfgInv, NEW s \in Saves, Cfg!PutAPIKey(s) PROVE CfgInv'
<1>1. /\ save[s] \in CfgSaveType /\ save[s].at = "idle" /\ cfgUp /\ keyless /\ loading = "no"
      /\ UNCHANGED <<loading, cfgUp, keyless, file, disk, cfgTemp, cfgBackups, rotated, shared, second, behind, outlived>>
  BY DEF Cfg!PutAPIKey, Cfg!At, CfgInv, CfgTypeInv, Cfg!ondisk, Cfg!kept, Cfg!seen
<1>2. CASE Cfg!Done(s) /\ UNCHANGED <<mem, cfgLock>>
  BY <1>1, <1>2, CfgOverInv DEF CfgInv, CfgTypeInv
<1>3. CASE /\ cfgLock' = s /\ mem' = Cfg!With(mem, s, "set")
           /\ save' = [save EXCEPT ![s].at = "backup", ![s].kind = "key", ![s].conf = mem']
  <2>1. mem' \in CfgConfs /\ Cfg!Put(Cfg!With(mem, s, "set")) /\ mem' = Cfg!With(Cfg!Config, s, "set")
    BY <1>1, <1>3, CfgWithIs DEF CfgInv, CfgTypeInv, Cfg!Put, Cfg!Config
  <2>2. /\ save' \in [Saves -> CfgSaveType] /\ \A r \in Saves : r # s => save'[r] = save[r]
        /\ save'[s].at = "backup" /\ save'[s].conf = mem' /\ save'[s].kind = "key" /\ save'[s].tunnel = save[s].tunnel
    BY <1>1, <1>3, <2>1 DEF CfgInv, CfgTypeInv, CfgSaveType, CfgPlaces
  <2>3. outlived' \in BOOLEAN /\ (outlived \/ loading = "empty" => outlived')
    BY <1>1 DEF CfgInv, CfgTypeInv
  <2>. QED BY <1>1, <1>3, <2>1, <2>2, <2>3, CfgCopyMemInv
<1>. QED BY <1>2, <1>3 DEF Cfg!PutAPIKey

-----------------------------------------------------------------------------
CfgCut == IF Len(cfgBackups) > Keep THEN Len(cfgBackups) - Keep ELSE 0

LEMMA CfgNewestIs ==
  ASSUME Cfg!StoreAssumption, CfgTypeInv
  PROVE  /\ Len(cfgBackups) \in Nat /\ CfgCut \in Nat /\ CfgCut <= Len(cfgBackups)
         /\ CfgCut > 0 => CfgCut = Len(cfgBackups) - Keep
         /\ Cfg!Newest \in Seq(CfgBackupType) /\ Len(Cfg!Newest) = Len(cfgBackups) - CfgCut
         /\ \A n \in 1 .. Len(cfgBackups) - CfgCut : Cfg!Newest[n] = cfgBackups[n + CfgCut]
<1>1. /\ Len(cfgBackups) \in Nat /\ Keep \in Nat /\ CfgCut \in Nat /\ CfgCut <= Len(cfgBackups)
      /\ CfgCut > 0 => CfgCut = Len(cfgBackups) - Keep
  BY DEF Cfg!StoreAssumption, CfgTypeInv, CfgCut
<1>2. Cfg!Newest = SubSeq(cfgBackups, CfgCut + 1, Len(cfgBackups))
  BY <1>1 DEF Cfg!Newest, CfgCut
<1>3. \A n \in CfgCut + 1 .. Len(cfgBackups) : cfgBackups[n] \in CfgBackupType
  BY <1>1 DEF CfgTypeInv
<1>4. CfgCut + 1 \in Int /\ Len(cfgBackups) \in Int
  BY <1>1
<1>5. /\ Cfg!Newest \in Seq(CfgBackupType)
      /\ Len(Cfg!Newest) = IF CfgCut + 1 <= Len(cfgBackups) THEN Len(cfgBackups) - (CfgCut + 1) + 1 ELSE 0
      /\ \A n \in 1 .. Len(cfgBackups) - (CfgCut + 1) + 1 : Cfg!Newest[n] = cfgBackups[CfgCut + 1 + n - 1]
  BY <1>2, <1>3, <1>4, SubSeqProperties
<1>. QED BY <1>1, <1>5

(* A whole backup is deleted only when Keep more were made after it.       *)
LEMMA CfgNewestInv ==
  ASSUME Cfg!StoreAssumption, CfgTypeInv, CfgCopyInv, cfgBackups' = Cfg!Newest,
         UNCHANGED <<file, disk, rotated, shared>>, \A r \in Saves : CfgCopying(r) => CfgCopying(r)'
  PROVE  CfgCopyInv'
<1>. rotated \in Nat /\ Keep \in Nat
  BY DEF Cfg!StoreAssumption, CfgTypeInv
<1>1. ASSUME NEW n \in DOMAIN cfgBackups, CfgKeptWhole(n), ~(rotated >= Keep) PROVE CfgCopyInv'
  <2>1. n \in 1 .. Len(cfgBackups) /\ Len(cfgBackups) - n <= rotated /\ n > CfgCut
    BY <1>1, CfgNewestIs DEF CfgTypeInv, CfgKeptWhole
  <2>. DEFINE m == n - CfgCut
  <2>2. m \in 1 .. Len(cfgBackups) - CfgCut /\ m + CfgCut = n /\ (Len(cfgBackups) - CfgCut) - m <= rotated
    BY <2>1, CfgNewestIs
  <2>. HIDE DEF m
  <2>3. m \in 1 .. Len(cfgBackups') /\ Len(cfgBackups') = Len(cfgBackups) - CfgCut /\ cfgBackups'[m] = cfgBackups[n]
    BY <2>2, CfgNewestIs
  <2>4. m \in DOMAIN cfgBackups' /\ cfgBackups'[m].whole = TRUE /\ Len(cfgBackups') - m <= rotated'
    BY <1>1, <2>2, <2>3, CfgNewestIs DEF CfgKeptWhole
  <2>. QED BY <2>4 DEF CfgCopyInv, CfgKeptWhole
<1>2. ASSUME rotated >= Keep \/ shared \/ (disk[file].whole = TRUE /\ \A r \in Saves : CfgCopying(r)) PROVE CfgCopyInv'
  BY <1>2 DEF CfgCopyInv
<1>. QED BY <1>1, <1>2 DEF CfgCopyInv

LEMMA CfgCopiedIs ==
  ASSUME Cfg!StoreAssumption, CfgTypeInv, NEW n \in Cfg!Seconds, NEW whole \in BOOLEAN, Cfg!Copied(n, whole)
  PROVE  /\ cfgBackups' \in Seq(CfgBackupType) /\ rotated' \in Nat /\ shared' \in BOOLEAN
         /\ whole => CfgCopyInv'
         /\ ~whole /\ ~shared' => /\ rotated' = rotated + 1 /\ ~shared
                                  /\ Len(cfgBackups') = Len(cfgBackups) + 1
                                  /\ \A i \in DOMAIN cfgBackups : i \in DOMAIN cfgBackups' /\ cfgBackups'[i] = cfgBackups[i]
<1>. DEFINE new == [second |-> n, whole |-> whole]
<1>1. new \in CfgBackupType /\ new.whole = whole
  BY DEF CfgBackupType
<1>2. /\ rotated' \in Nat /\ (whole => rotated' = 0) /\ (~whole => rotated' = rotated + 1)
      /\ shared' \in BOOLEAN /\ (~whole /\ ~shared' => ~shared /\ ~Cfg!Taken(n))
  <2>1. rotated \in Nat /\ rotated' = IF whole THEN 0 ELSE rotated + 1
    BY DEF CfgTypeInv, Cfg!Copied
  <2>2. shared' = (~whole /\ (shared \/ Cfg!Taken(n)))
    BY DEF Cfg!Copied
  <2>3. shared' \in BOOLEAN /\ (~whole /\ ~shared' => ~shared /\ ~Cfg!Taken(n))
    BY Zenon, <2>2
  <2>. QED BY <2>1, <2>3
<1>3. /\ \/ ~Cfg!Taken(n) /\ cfgBackups' = Append(cfgBackups, new)
         \/ /\ Cfg!Taken(n)
            /\ \E i \in DOMAIN cfgBackups :
                 cfgBackups' = Append(SubSeq(cfgBackups, 1, i - 1) \o SubSeq(cfgBackups, i + 1, Len(cfgBackups)), new)
  BY DEF Cfg!Copied
<1>. HIDE DEF new
<1>4. cfgBackups \in Seq(CfgBackupType)
  BY DEF CfgTypeInv
<1>5. ASSUME NEW others \in Seq(CfgBackupType), cfgBackups' = Append(others, new)
      PROVE  /\ cfgBackups' \in Seq(CfgBackupType) /\ Len(cfgBackups') = Len(others) + 1
             /\ whole => CfgCopyInv'
  <2>1. /\ cfgBackups' \in Seq(CfgBackupType) /\ Len(cfgBackups') = Len(others) + 1 /\ Len(others) \in Nat
        /\ cfgBackups'[Len(others) + 1] = new
    BY <1>1, <1>5
  <2>2. ASSUME whole PROVE CfgCopyInv'
    <3>1. Len(others) + 1 \in DOMAIN cfgBackups' /\ cfgBackups'[Len(others) + 1].whole = TRUE
          /\ Len(cfgBackups') - (Len(others) + 1) <= rotated'
      <4>1. new.whole = TRUE /\ rotated' = 0
        BY <1>1, <1>2, <2>2
      <4>. QED BY <2>1, <4>1
    <3>. QED BY <3>1 DEF CfgCopyInv, CfgKeptWhole
  <2>. QED BY <2>1, <2>2
<1>6. CASE ~Cfg!Taken(n) /\ cfgBackups' = Append(cfgBackups, new)
  BY <1>1, <1>2, <1>4, <1>5, <1>6
<1>7. CASE Cfg!Taken(n)
  <2>1. PICK i \in DOMAIN cfgBackups :
          cfgBackups' = Append(SubSeq(cfgBackups, 1, i - 1) \o SubSeq(cfgBackups, i + 1, Len(cfgBackups)), new)
    BY <1>3, <1>7
  <2>2. i \in 1 .. Len(cfgBackups) /\ Len(cfgBackups) \in Nat
    BY <1>4
  <2>3. SubSeq(cfgBackups, 1, i - 1) \in Seq(CfgBackupType)
    <3>1. 1 \in Int /\ i - 1 \in Int /\ \A j \in 1 .. i - 1 : cfgBackups[j] \in CfgBackupType
      BY <1>4, <2>2
    <3>. QED BY <3>1, SubSeqProperties
  <2>4. SubSeq(cfgBackups, i + 1, Len(cfgBackups)) \in Seq(CfgBackupType)
    <3>1. i + 1 \in Int /\ Len(cfgBackups) \in Int /\ \A j \in i + 1 .. Len(cfgBackups) : cfgBackups[j] \in CfgBackupType
      BY <1>4, <2>2
    <3>. QED BY <3>1, SubSeqProperties
  <2>. DEFINE others == SubSeq(cfgBackups, 1, i - 1) \o SubSeq(cfgBackups, i + 1, Len(cfgBackups))
  <2>5. others \in Seq(CfgBackupType)
    BY <2>3, <2>4
  <2>6. cfgBackups' = Append(others, new)
    BY <2>1
  <2>. HIDE DEF others
  <2>. QED BY <1>2, <1>5, <1>7, <2>5, <2>6
<1>. QED BY <1>3, <1>6, <1>7

(* A backup more, which is not whole, comes after the last whole one.      *)
LEMMA CfgCopiedInv ==
  ASSUME Cfg!StoreAssumption, CfgTypeInv, CfgCopyInv, NEW n \in Cfg!Seconds, NEW whole \in BOOLEAN, Cfg!Copied(n, whole),
         UNCHANGED <<file, disk>>,
         whole \/ shared' \/ ~disk[file].whole \/ (\E r \in Saves : ~CfgCopying(r)) \/ (\A r \in Saves : CfgCopying(r)')
  PROVE  CfgCopyInv'
<1>. rotated \in Nat /\ Keep \in Nat
  BY DEF Cfg!StoreAssumption, CfgTypeInv
<1>1. CASE whole \/ shared'
  BY <1>1, CfgCopiedIs DEF CfgCopyInv
<1>2. CASE ~whole /\ ~shared'
  <2>1. /\ rotated' = rotated + 1 /\ ~shared /\ Len(cfgBackups') = Len(cfgBackups) + 1 /\ Len(cfgBackups) \in Nat
        /\ \A i \in DOMAIN cfgBackups : i \in DOMAIN cfgBackups' /\ cfgBackups'[i] = cfgBackups[i]
    BY <1>2, CfgCopiedIs DEF CfgTypeInv
  <2>2. ASSUME NEW i \in DOMAIN cfgBackups, CfgKeptWhole(i) PROVE CfgCopyInv'
    <3>1. i \in DOMAIN cfgBackups' /\ cfgBackups'[i].whole = TRUE /\ Len(cfgBackups) - i <= rotated /\ i \in Int
      BY <2>1, <2>2 DEF CfgKeptWhole, CfgTypeInv
    <3>2. Len(cfgBackups') - i <= rotated'
      BY <2>1, <3>1
    <3>. QED BY <3>1, <3>2 DEF CfgCopyInv, CfgKeptWhole
  <2>3. ASSUME rotated >= Keep PROVE CfgCopyInv'
    BY <2>1, <2>3 DEF CfgCopyInv
  <2>4. ASSUME disk[file].whole = TRUE, \A r \in Saves : CfgCopying(r) PROVE CfgCopyInv'
    BY <1>2, <2>4 DEF CfgCopyInv
  <2>. QED BY <2>1, <2>2, <2>3, <2>4 DEF CfgCopyInv
<1>. QED BY <1>1, <1>2

(* A save that fails, or goes on, in what leaves the files alone.          *)
LEMMA CfgFailInv ==
  ASSUME Cfg!StoreAssumption, CfgInv, NEW s \in Saves, CfgHasConf(s), cfgUp, Cfg!Fail(s),
         cfgBackups' \in Seq(CfgBackupType), rotated' \in Nat, shared' \in BOOLEAN,
         UNCHANGED <<file, disk, cfgTemp, second, behind, outlived>>
  PROVE  CfgInv'
<1>1. /\ CfgQuiet(s) /\ save' \in [Saves -> CfgSaveType] /\ mem' \in CfgConfs /\ cfgLock' \in Saves \cup {Cfg!NoOne}
      /\ save'[s].at = "done" /\ save'[s].kind = "post" /\ UNCHANGED <<loading, cfgUp, keyless>>
  BY CfgFailIs DEF Cfg!Fail
<1>2. CfgTypeInv'
  BY <1>1 DEF CfgInv, CfgTypeInv
<1>. QED BY <1>1, <1>2, CfgQuietInv, CfgDoneInv DEF CfgInv

LEMMA CfgGoOnInv ==
  ASSUME Cfg!StoreAssumption, CfgInv, NEW s \in Saves, CfgHasConf(s), ~CfgCreated(s), cfgUp, save' \in [Saves -> CfgSaveType],
         \A r \in Saves : r # s => save'[r] = save[r],
         save'[s].at \in {"open", "copy", "look"}, save'[s].conf = save[s].conf, save'[s].kind = save[s].kind,
         save'[s].tunnel = save[s].tunnel, UNCHANGED Cfg!running,
         cfgBackups' \in Seq(CfgBackupType), rotated' \in Nat, shared' \in BOOLEAN,
         UNCHANGED <<file, disk, cfgTemp, second, behind, outlived>>
  PROVE  CfgInv'
<1>1. UNCHANGED <<mem, loading, cfgUp, keyless, cfgLock>>
  BY DEF Cfg!running
<1>2. CfgQuiet(s)
  BY <1>1 DEF CfgQuiet, CfgInv, CfgFileInv, CfgChangesInv
<1>3. CfgTypeInv'
  BY <1>1 DEF CfgInv, CfgTypeInv
<1>4. ~CfgCreated(s)' /\ CfgHasConf(s)' /\ ~CfgIsReady(s)' /\ Cfg!Busy(s)' /\ Cfg!Busy(s) /\ save[s].at \notin {"idle", "profile", "done"}
  BY DEF Cfg!Busy, CfgLooked, CfgCreated, CfgHasConf, CfgIsReady
<1>5. CfgBusyOf(s)' /\ CfgNameOf(s)' /\ CfgSetOf(s)'
  BY <1>1, <1>4 DEF CfgInv, CfgSaveInv, CfgBusyOf, CfgNameOf, CfgSetOf
<1>6. CfgVersionOf(s)' /\ CfgChangesOf(s)'
  BY <1>1, <1>4 DEF CfgInv, CfgSaveInv, CfgVersionOf, CfgChangesOf
<1>. QED BY <1>2, <1>3, <1>5, <1>6, CfgQuietInv DEF CfgInv, CfgSaveInv

LEMMA CfgBackupFileInv == ASSUME Cfg!StoreAssumption, CfgInv, NEW s \in Saves, Cfg!BackupFile(s) PROVE CfgInv'
<1>1. /\ save[s] \in CfgSaveType /\ save[s].at = "backup" /\ cfgUp /\ CfgHasConf(s) /\ ~CfgCreated(s)
      /\ UNCHANGED <<file, disk, cfgTemp, rotated, shared, second, behind, outlived>> /\ cfgBackups' = Cfg!Newest
  BY DEF Cfg!BackupFile, Cfg!At, CfgInv, CfgTypeInv, Cfg!ondisk, CfgHasConf, Cfg!Busy, CfgCreated, Cfg!seen
<1>2. cfgBackups' \in Seq(CfgBackupType) /\ rotated' \in Nat /\ shared' \in BOOLEAN
  BY <1>1, CfgNewestIs DEF CfgInv, CfgTypeInv
<1>3. CASE Cfg!Fail(s)
  BY <1>1, <1>2, <1>3, CfgFailInv
<1>4. CASE save' = [save EXCEPT ![s].at = "open", ![s].date = second] /\ UNCHANGED Cfg!running
  <2>1. /\ save' \in [Saves -> CfgSaveType] /\ \A r \in Saves : r # s => save'[r] = save[r]
        /\ save'[s].at = "open" /\ save'[s].conf = save[s].conf /\ save'[s].kind = save[s].kind
        /\ save'[s].tunnel = save[s].tunnel
    BY <1>1, <1>4 DEF CfgInv, CfgTypeInv, CfgSaveType, CfgPlaces
  <2>. QED BY <1>1, <1>2, <1>4, <2>1, CfgGoOnInv
<1>. QED BY <1>3, <1>4 DEF Cfg!BackupFile

LEMMA CfgOpenConfigInv == ASSUME Cfg!StoreAssumption, CfgInv, NEW s \in Saves, Cfg!OpenConfig(s) PROVE CfgInv'
<1>1. /\ save[s] \in CfgSaveType /\ save[s].at = "open" /\ cfgUp /\ CfgHasConf(s) /\ ~CfgCreated(s)
      /\ UNCHANGED <<file, disk, cfgTemp, cfgBackups, rotated, shared, second, behind, outlived>>
  BY DEF Cfg!OpenConfig, Cfg!At, CfgInv, CfgTypeInv, Cfg!ondisk, Cfg!kept, CfgHasConf, Cfg!Busy, CfgCreated, Cfg!seen
<1>2. cfgBackups' \in Seq(CfgBackupType) /\ rotated' \in Nat /\ shared' \in BOOLEAN
  BY <1>1 DEF CfgInv, CfgTypeInv
<1>3. CASE Cfg!Fail(s)
  BY <1>1, <1>2, <1>3, CfgFailInv
<1>4. CASE save' = [save EXCEPT ![s].at = "copy", ![s].opened = file] /\ UNCHANGED Cfg!running
  <2>1. /\ save' \in [Saves -> CfgSaveType] /\ \A r \in Saves : r # s => save'[r] = save[r]
        /\ save'[s].at = "copy" /\ save'[s].conf = save[s].conf /\ save'[s].kind = save[s].kind
        /\ save'[s].tunnel = save[s].tunnel
    BY <1>1, <1>4 DEF CfgInv, CfgTypeInv, CfgSaveType, CfgPlaces
  <2>. QED BY <1>1, <1>2, <1>4, <2>1, CfgGoOnInv
<1>. QED BY <1>3, <1>4 DEF Cfg!OpenConfig

LEMMA CfgCopyFileInv == ASSUME Cfg!StoreAssumption, CfgInv, NEW s \in Saves, Cfg!CopyFile(s) PROVE CfgInv'
<1>. DEFINE n == save[s].date
<1>1. /\ save[s] \in CfgSaveType /\ save[s].at = "copy" /\ cfgUp /\ CfgHasConf(s) /\ ~CfgCreated(s) /\ n \in Cfg!Seconds
      /\ UNCHANGED <<file, disk, cfgTemp, second, behind, outlived>> /\ disk[save[s].opened].whole \in BOOLEAN
  BY DEF Cfg!CopyFile, Cfg!At, CfgInv, CfgTypeInv, Cfg!ondisk, CfgHasConf, Cfg!Busy, CfgCreated, CfgSaveType, CfgFileType,
     Cfg!seen
<1>2. ASSUME NEW whole \in BOOLEAN, Cfg!Copied(n, whole)
      PROVE  cfgBackups' \in Seq(CfgBackupType) /\ rotated' \in Nat /\ shared' \in BOOLEAN
  <2>. HIDE DEF n
  <2>. QED BY <1>1, <1>2, CfgCopiedIs DEF CfgInv
<1>3. CASE Cfg!Copied(n, FALSE) /\ Cfg!Fail(s)
  BY <1>1, <1>2, <1>3, CfgFailInv
<1>4. CASE Cfg!Fail(s) /\ UNCHANGED Cfg!kept
  BY <1>1, <1>4, CfgFailInv DEF Cfg!kept, CfgInv, CfgTypeInv
<1>5. ASSUME NEW whole \in BOOLEAN, Cfg!Copied(n, whole), NEW began \in Cfg!Seconds,
             save' = [save EXCEPT ![s].at = "look", ![s].date = began], UNCHANGED Cfg!running
      PROVE  CfgInv'
  <2>1. /\ save' \in [Saves -> CfgSaveType] /\ \A r \in Saves : r # s => save'[r] = save[r]
        /\ save'[s].at = "look" /\ save'[s].conf = save[s].conf /\ save'[s].kind = save[s].kind
        /\ save'[s].tunnel = save[s].tunnel
    BY <1>1, <1>5 DEF CfgInv, CfgTypeInv, CfgSaveType, CfgPlaces
  <2>. QED BY <1>1, <1>2, <1>5, <2>1, CfgGoOnInv
<1>. QED BY <1>1, <1>3, <1>4, <1>5 DEF Cfg!CopyFile

LEMMA CfgLookForTempInv == ASSUME Cfg!StoreAssumption, CfgInv, NEW s \in Saves, Cfg!LookForTemp(s) PROVE CfgInv'
<1>1. /\ save[s] \in CfgSaveType /\ save[s].at = "look" /\ cfgUp /\ CfgHasConf(s)
      /\ UNCHANGED <<file, disk, cfgTemp, cfgBackups, rotated, shared, second, behind, outlived>>
  BY DEF Cfg!LookForTemp, Cfg!At, CfgInv, CfgTypeInv, Cfg!ondisk, Cfg!kept, Cfg!seen, CfgHasConf, Cfg!Busy
<1>2. ASSUME Cfg!Fail(s) PROVE CfgInv'
  BY <1>1, <1>2, CfgFailInv DEF CfgInv, CfgTypeInv
<1>3. ASSUME cfgTemp[save[s].date] = Cfg!NoOne, save' = [save EXCEPT ![s].at = "create"], UNCHANGED Cfg!running
      PROVE  CfgInv'
  <2>1. /\ save' \in [Saves -> CfgSaveType] /\ \A r \in Saves : r # s => save'[r] = save[r]
        /\ save'[s].at = "create" /\ save'[s].conf = save[s].conf /\ save'[s].kind = save[s].kind
        /\ save'[s].date = save[s].date /\ save'[s].tunnel = save[s].tunnel
    BY <1>1, <1>3 DEF CfgInv, CfgTypeInv, CfgSaveType, CfgPlaces
  <2>2. CfgQuiet(s)
    BY <1>1, <1>3, <2>1 DEF CfgQuiet, CfgInv, CfgFileInv, CfgChangesInv, Cfg!running
  <2>3. CfgTypeInv'
    BY <1>1, <1>3, <2>1 DEF CfgInv, CfgTypeInv, Cfg!running
  <2>4. ~CfgCreated(s)' /\ CfgHasConf(s)' /\ ~CfgIsReady(s)' /\ ~CfgCreated(s) /\ Cfg!Busy(s)
    BY <1>1, <1>3, <2>1 DEF Cfg!Busy, CfgLooked, CfgCreated, CfgHasConf, CfgIsReady
  <2>5. CfgBusyOf(s)' /\ CfgNameOf(s)' /\ CfgSetOf(s)'
    BY <1>1, <1>3, <2>1, <2>4 DEF CfgInv, CfgSaveInv, CfgBusyOf, CfgNameOf, CfgSetOf, Cfg!running
  <2>6. CfgVersionOf(s)' /\ CfgChangesOf(s)'
    BY <1>1, <1>3, <2>1, <2>4 DEF CfgInv, CfgSaveInv, CfgVersionOf, CfgChangesOf, Cfg!running
  <2>. QED BY <2>2, <2>3, <2>5, <2>6, CfgQuietInv DEF CfgInv, CfgSaveInv
<1>. QED BY <1>2, <1>3 DEF Cfg!LookForTemp

LEMMA CfgCreateTempInv == ASSUME Cfg!StoreAssumption, CfgInv, NEW s \in Saves, Cfg!CreateTemp(s) PROVE CfgInv'
<1>. DEFINE n == save[s].date
            f == IF cfgTemp[n] = Cfg!NoOne THEN s ELSE cfgTemp[n]
<1>1. /\ save[s] \in CfgSaveType /\ save[s].at = "create" /\ cfgUp /\ CfgHasConf(s) /\ ~CfgCreated(s)
      /\ UNCHANGED <<mem, loading, cfgUp, keyless, cfgLock, file, cfgBackups, rotated, shared, second, behind, outlived>>
  BY DEF Cfg!CreateTemp, Cfg!At, CfgInv, CfgTypeInv, Cfg!running, Cfg!kept, Cfg!seen, CfgHasConf, Cfg!Busy, CfgCreated
<1>2. /\ cfgTemp' = [cfgTemp EXCEPT ![n] = f] /\ disk' = [disk EXCEPT ![f].whole = FALSE]
      /\ save' = [save EXCEPT ![s].at = "write", ![s].opened = f]
  BY DEF Cfg!CreateTemp
<1>3. n \in Cfg!Seconds /\ f \in Saves /\ f \in Cfg!Files /\ f # Cfg!NoOne
  BY <1>1 DEF CfgInv, CfgTypeInv, Cfg!StoreAssumption, CfgSaveType, Cfg!Files, Cfg!NoOne
<1>4. f # file
  BY <1>1, <1>3 DEF CfgInv, CfgFileInv, CfgNamesInv, CfgSaveInv, CfgNameOf
<1>. /\ cfgTemp[n] = Cfg!NoOne => f = s
     /\ cfgTemp[n] # Cfg!NoOne => f = cfgTemp[n]
  OBVIOUS
<1>. HIDE DEF f
<1>5. /\ save' \in [Saves -> CfgSaveType] /\ \A r \in Saves : r # s => save'[r] = save[r]
      /\ save'[s].at = "write" /\ save'[s].conf = save[s].conf /\ save'[s].kind = save[s].kind
      /\ save'[s].date = n /\ save'[s].opened = f /\ save'[s].tunnel = save[s].tunnel
  BY <1>1, <1>2, <1>3 DEF CfgInv, CfgTypeInv, CfgSaveType, CfgPlaces
<1>. HIDE DEF n
<1>6. cfgTemp' \in [Cfg!Seconds -> Saves \cup {Cfg!NoOne}] /\ cfgTemp'[n] = f /\ \A m \in Cfg!Seconds : m # n => cfgTemp'[m] = cfgTemp[m]
  BY <1>2, <1>3 DEF CfgInv, CfgTypeInv
<1>7. /\ disk' \in [Cfg!Files -> CfgFileType] /\ disk'[f].whole = FALSE
      /\ \A g \in Cfg!Files : disk'[g].v = disk[g].v /\ disk'[g].with = disk[g].with /\ (g # f => disk'[g] = disk[g])
  BY <1>2, <1>3 DEF CfgInv, CfgTypeInv, CfgFileType
<1>8. CfgTypeInv'
  BY <1>1, <1>5, <1>6, <1>7 DEF CfgInv, CfgTypeInv
<1>9. disk'[file'] = disk[file] /\ file \in Cfg!Files
  BY <1>1, <1>4, <1>7 DEF CfgInv, CfgTypeInv
<1>10. CfgFileInv'
  <2>1. \A m \in Cfg!Seconds : cfgTemp'[m] # file'
    BY <1>1, <1>4, <1>6 DEF CfgInv, CfgFileInv, CfgNamesInv
  <2>2. \A m \in Cfg!Seconds : m # n => cfgTemp[m] # f
    BY <1>1, <1>3 DEF CfgInv, CfgFileInv, CfgNamesInv, CfgSaveInv, CfgNameOf
  <2>3. CfgNamesInv'
    BY <1>6, <2>1, <2>2 DEF CfgInv, CfgFileInv, CfgNamesInv
  <2>. QED BY <1>1, <1>9, <2>3 DEF CfgInv, CfgFileInv, CfgVersionInv, CfgChangesInv
<1>11. ASSUME NEW r \in Saves PROVE CfgSaveInv(r)'
  <2>1. /\ CfgSaveInv(r) /\ CfgHasConf(r)' = CfgHasConf(r) /\ Cfg!Busy(r)' = Cfg!Busy(r) /\ save'[r].conf = save[r].conf
        /\ save'[r].kind = save[r].kind /\ save'[r].tunnel = save[r].tunnel
        /\ \A where \in {"idle", "form", "profile", "done"} : (save'[r].at = where) = (save[r].at = where)
    BY <1>1, <1>5 DEF CfgInv, CfgHasConf, Cfg!Busy
  <2>2. CfgBusyOf(r)'
    BY <1>1, <2>1 DEF CfgSaveInv, CfgBusyOf
  <2>3. CfgNameOf(r)'
    <3>1. CASE r = s
      <4>1. CfgCreated(r)' /\ cfgTemp'[save'[r].date] = save'[r].opened
        BY <1>5, <1>6, <3>1 DEF CfgCreated
      <4>. QED BY <4>1 DEF CfgNameOf
    <3>2. CASE r # s
      <4>1. save'[r] = save[r] /\ save[r].opened # Cfg!NoOne /\ save[r].date \in Cfg!Seconds
        BY <1>5, <3>2 DEF CfgInv, CfgTypeInv, Cfg!StoreAssumption, CfgSaveType, Cfg!Files, Cfg!NoOne
      <4>2. file' = r \/ (\E m \in Cfg!Seconds : cfgTemp'[m] = r) => file = r \/ (\E m \in Cfg!Seconds : cfgTemp[m] = r)
        BY <1>1, <1>3, <1>6, <3>2
      <4>3. cfgTemp[save[r].date] = save[r].opened => cfgTemp'[save[r].date] = save[r].opened
        BY <1>6, <4>1
      <4>. QED BY <1>1, <2>1, <4>1, <4>2, <4>3 DEF CfgSaveInv, CfgNameOf, CfgCreated
    <3>. QED BY <3>1, <3>2
  <2>4. CfgSetOf(r)'
    <3>1. \A q \in Saves : save'[q].conf = save[q].conf
      BY <1>5
    <3>. QED BY <1>1, <1>7, <1>9, <2>1, <3>1 DEF CfgSaveInv, CfgSetOf
  <2>5. CfgIsReady(r)' => CfgIsReady(r) /\ CfgReady(r)' = CfgReady(r)
    <3>1. CASE save'[r].date = n
      BY <1>6, <1>7, <3>1 DEF CfgIsReady
    <3>2. CASE save'[r].date # n
      <4>1. save'[r] = save[r] /\ save[r].date \in Cfg!Seconds
        BY <1>5, <3>2 DEF CfgInv, CfgTypeInv, CfgSaveType
      <4>2. cfgTemp'[save'[r].date] = cfgTemp[save[r].date] /\ cfgTemp[save[r].date] # f
        BY <1>3, <1>6, <3>2, <4>1, <1>10, <1>5 DEF CfgFileInv, CfgNamesInv
      <4>3. cfgTemp[save[r].date] # Cfg!NoOne => cfgTemp[save[r].date] \in Cfg!Files
        BY <4>1 DEF CfgInv, CfgTypeInv, Cfg!Files
      <4>. QED BY <1>7, <4>1, <4>2, <4>3 DEF CfgIsReady, CfgReady, CfgLooked
    <3>. QED BY <3>1, <3>2
  <2>6. CfgVersionOf(r)' /\ CfgChangesOf(r)'
    BY <1>1, <1>9, <2>1, <2>5 DEF CfgSaveInv, CfgVersionOf, CfgChangesOf
  <2>. QED BY <2>2, <2>3, <2>4, <2>6 DEF CfgSaveInv
<1>. QED BY <1>8, <1>10, <1>11 DEF CfgInv

LEMMA CfgWriteInv == ASSUME Cfg!StoreAssumption, CfgInv, NEW s \in Saves, Cfg!Write(s) PROVE CfgInv'
<1>. DEFINE to == save[s].opened
            posted == save[s].conf
            new == [v |-> posted.v + 1, with |-> posted.with]
<1>1. /\ save[s] \in CfgSaveType /\ save[s].at = "write" /\ cfgUp /\ CfgHasConf(s) /\ CfgCreated(s) /\ to \in Cfg!Files
      /\ UNCHANGED <<file, cfgTemp, cfgBackups, rotated, shared, second, behind, outlived>>
  BY DEF Cfg!Write, Cfg!At, CfgInv, CfgTypeInv, Cfg!kept, Cfg!seen, CfgHasConf, Cfg!Busy, CfgCreated, CfgSaveType
<1>2. posted \in CfgConfs /\ new \in CfgConfs /\ new.v = posted.v + 1 /\ new.with = posted.with
  BY <1>1 DEF CfgSaveType, CfgConfs
<1>3. ASSUME Cfg!Fail(s), UNCHANGED disk PROVE CfgInv'
  BY <1>1, <1>3, CfgFailInv DEF CfgInv, CfgTypeInv
<1>4. ASSUME save[s].kind = "key", Cfg!Done(s), Cfg!Unlock(s), mem' \in {mem, new},
             UNCHANGED <<loading, cfgUp, keyless, disk>>
      PROVE  CfgInv'
  <2>. HIDE DEF new, posted
  <2>1. /\ save' \in [Saves -> CfgSaveType] /\ \A r \in Saves : r # s => save'[r] = save[r]
        /\ save'[s].at = "done" /\ save'[s].conf.with = {} /\ save'[s].kind = "post"
    BY <1>4, CfgDoneIs DEF CfgInv
  <2>2. keyless /\ mem' \in CfgConfs
    BY <1>1, <1>2, <1>4 DEF CfgInv, CfgTypeInv, CfgSaveInv, CfgBusyOf
  <2>3. cfgLock' \in Saves \cup {Cfg!NoOne}
    BY <1>4 DEF CfgInv, CfgTypeInv, Cfg!Unlock
  <2>4. CfgQuiet(s)
    <3>1. mem'.with \subseteq mem.with \cup posted.with
      BY <1>2, <1>4
    <3>2. CfgChangesInv'
      BY <1>1, <1>4, <2>2 DEF CfgInv, CfgFileInv, CfgChangesInv
    <3>. QED BY <1>1, <1>4, <2>1, <2>2, <3>1, <3>2 DEF CfgQuiet, posted
  <2>5. CfgTypeInv'
    BY <1>1, <1>4, <2>1, <2>2, <2>3 DEF CfgInv, CfgTypeInv
  <2>. QED BY <2>1, <2>4, <2>5, CfgQuietInv, CfgDoneInv DEF CfgInv
<1>5. ASSUME NEW whole \in BOOLEAN, disk' = [disk EXCEPT ![to] = [v |-> new.v, with |-> new.with, whole |-> whole]],
             save' = [save EXCEPT ![s].at = "rename"], mem' = IF save[s].kind = "key" THEN new ELSE mem,
             UNCHANGED <<loading, cfgUp, keyless, cfgLock>>
      PROVE  CfgInv'
  <2>. HIDE DEF new
  <2>1. /\ save' \in [Saves -> CfgSaveType] /\ \A r \in Saves : r # s => save'[r] = save[r]
        /\ save'[s].at = "rename" /\ save'[s].conf = posted /\ save'[s].kind = save[s].kind
        /\ save'[s].date = save[s].date /\ save'[s].opened = to /\ save'[s].tunnel = save[s].tunnel
    BY <1>1, <1>5 DEF CfgInv, CfgTypeInv, CfgSaveType, CfgPlaces
  <2>. HIDE DEF posted, to
  <2>2. /\ disk' \in [Cfg!Files -> CfgFileType] /\ disk'[to].v = posted.v + 1 /\ disk'[to].with = posted.with
        /\ \A g \in Cfg!Files : g # to => disk'[g] = disk[g]
    BY <1>1, <1>2, <1>5 DEF CfgInv, CfgTypeInv, CfgFileType, CfgConfs
  <2>3. /\ mem' \in CfgConfs /\ (~keyless => mem' = mem) /\ mem'.with \subseteq mem.with \cup posted.with
        /\ (keyless => mem'.with = posted.with)
    BY <1>1, <1>2, <1>5 DEF CfgInv, CfgTypeInv, CfgSaveInv, CfgBusyOf
  <2>4. CfgTypeInv'
    BY <1>1, <1>5, <2>1, <2>2, <2>3 DEF CfgInv, CfgTypeInv
  <2>5. /\ CfgSaveInv(s) /\ file \in Cfg!Files /\ save[s].date \in Cfg!Seconds
        /\ (~behind /\ ~outlived => cfgTemp[save[s].date] = to /\ to # file)
    BY <1>1 DEF CfgInv, CfgTypeInv, CfgFileInv, CfgNamesInv, CfgSaveInv, CfgNameOf, to, CfgSaveType
  <2>6. ~behind /\ ~outlived => disk'[file'] = disk[file]
    BY <1>1, <2>2, <2>5
  <2>7. ~keyless /\ ~outlived => posted.v = mem.v /\ (~behind => disk[file].with \subseteq posted.with)
    BY <1>1, <2>5 DEF CfgSaveInv, CfgVersionOf, CfgChangesOf, posted
  <2>8. CfgFileInv'
    <3>1. CfgVersionInv'
      <4>1. CASE file = to
        BY <1>1, <1>5, <2>2, <2>3, <2>5, <2>7, <4>1 DEF CfgVersionInv
      <4>2. CASE file # to
        <5>1. disk'[file'] = disk[file]
          BY <1>1, <2>2, <2>5, <4>2
        <5>. QED BY <1>1, <1>5, <2>3, <5>1 DEF CfgInv, CfgFileInv, CfgVersionInv
      <4>. QED BY <4>1, <4>2
    <3>2. CfgChangesInv'
      BY <1>1, <1>5, <2>3, <2>6 DEF CfgInv, CfgFileInv, CfgChangesInv
    <3>3. CfgNamesInv'
      BY <1>1 DEF CfgInv, CfgFileInv, CfgNamesInv
    <3>. QED BY <3>1, <3>2, <3>3 DEF CfgFileInv
  <2>9. ASSUME NEW r \in Saves PROVE CfgSaveInv(r)'
    <3>1. /\ CfgSaveInv(r) /\ CfgHasConf(r)' = CfgHasConf(r) /\ Cfg!Busy(r)' = Cfg!Busy(r) /\ save'[r].conf = save[r].conf
          /\ save'[r].kind = save[r].kind /\ save'[r].tunnel = save[r].tunnel /\ CfgCreated(r)' = CfgCreated(r) /\ CfgLooked(r)' = CfgLooked(r)
          /\ save'[r].date = save[r].date /\ save'[r].opened = save[r].opened /\ save[r].date \in Cfg!Seconds
          /\ \A where \in {"idle", "form", "profile", "done"} : (save'[r].at = where) = (save[r].at = where)
      BY SMTT(60), <1>1, <2>1 DEF CfgInv, CfgTypeInv, CfgSaveType, CfgHasConf, Cfg!Busy, CfgCreated, CfgLooked, posted, to
    <3>2. CfgBusyOf(r)'
      BY <1>5, <3>1 DEF CfgSaveInv, CfgBusyOf
    <3>3. CfgNameOf(r)'
      BY <1>1, <3>1 DEF CfgSaveInv, CfgNameOf
    <3>4. CfgSetOf(r)'
      <4>1. \A q \in Saves : save'[q].conf = save[q].conf
        BY <2>1 DEF posted
      <4>2. <<r, "set">> \notin mem.with /\ <<r, "set">> \notin posted.with => <<r, "set">> \notin mem'.with
        BY <2>3
      <4>3. ASSUME NEW g \in Cfg!Files, <<r, "set">> \notin disk[g].with, <<r, "set">> \notin posted.with
            PROVE  <<r, "set">> \notin disk'[g].with
        BY <2>2, <4>3
      <4>. QED BY <1>1, <2>6, <3>1, <4>1, <4>2, <4>3 DEF CfgSaveInv, CfgSetOf, posted
    <3>5. ASSUME CfgIsReady(r)'
          PROVE  \/ CfgIsReady(r) /\ CfgReady(r)' = CfgReady(r)
                 \/ CfgReady(r)'.v = posted.v + 1 /\ CfgReady(r)'.with = posted.with
      <4>1. cfgTemp[save[r].date] # Cfg!NoOne => cfgTemp[save[r].date] \in Cfg!Files
        BY <3>1 DEF CfgInv, CfgTypeInv, Cfg!Files
      <4>2. /\ CfgLooked(r) /\ cfgTemp[save[r].date] # Cfg!NoOne /\ disk'[cfgTemp[save[r].date]].whole
            /\ CfgReady(r)' = disk'[cfgTemp[save[r].date]]
        BY <1>1, <3>1, <3>5 DEF CfgIsReady, CfgReady
      <4>. QED BY <2>2, <4>1, <4>2 DEF CfgIsReady, CfgReady
    <3>6. CfgVersionOf(r)'
      BY <1>1, <1>5, <2>3, <2>7, <3>1, <3>5 DEF CfgSaveInv, CfgVersionOf
    <3>7. CfgChangesOf(r)'
      <4>1. CASE behind \/ keyless \/ outlived
        BY <1>1, <1>5, <4>1 DEF CfgChangesOf
      <4>2. CASE ~behind /\ ~keyless /\ ~outlived
        BY <1>5, <2>3, <2>6, <2>7, <3>1, <3>5, <4>2 DEF CfgSaveInv, CfgChangesOf
      <4>. QED BY <4>1, <4>2
    <3>. QED BY <3>2, <3>3, <3>4, <3>6, <3>7 DEF CfgSaveInv
  <2>. QED BY <2>4, <2>8, <2>9 DEF CfgInv
<1>. QED BY <1>3, <1>4, <1>5 DEF Cfg!Write

LEMMA CfgRenameInv == ASSUME Cfg!StoreAssumption, CfgInv, NEW s \in Saves, Cfg!Rename(s) PROVE CfgInv'
<1>. DEFINE n == save[s].date
<1>1. /\ save[s] \in CfgSaveType /\ save[s].at = "rename" /\ cfgUp /\ CfgHasConf(s) /\ CfgLooked(s) /\ n \in Cfg!Seconds
      /\ UNCHANGED <<disk, cfgBackups, rotated, shared, second, outlived>>
  BY DEF Cfg!Rename, Cfg!At, CfgInv, CfgTypeInv, Cfg!kept, CfgHasConf, Cfg!Busy, CfgLooked, CfgSaveType
<1>2. ASSUME Cfg!Fail(s), UNCHANGED <<file, cfgTemp, behind>> PROVE CfgInv'
  BY <1>1, <1>2, CfgFailInv DEF CfgInv, CfgTypeInv
<1>3. ASSUME cfgTemp[n] # Cfg!NoOne, file' = cfgTemp[n], cfgTemp' = [cfgTemp EXCEPT ![n] = Cfg!NoOne], behind' = TRUE,
             Cfg!Done(s), Cfg!Unlock(s), UNCHANGED <<mem, loading, cfgUp, keyless>>
      PROVE  CfgInv'
  <2>1. /\ save' \in [Saves -> CfgSaveType] /\ \A r \in Saves : r # s => save'[r] = save[r]
        /\ save'[s].at = "done" /\ save'[s].conf.with = {} /\ save'[s].kind = "post"
    BY <1>3, CfgDoneIs DEF CfgInv
  <2>2. cfgLock' \in Saves \cup {Cfg!NoOne}
    BY <1>1, <1>3 DEF CfgInv, CfgTypeInv, Cfg!Unlock, CfgSaveType
  <2>. HIDE DEF n
  <2>3. /\ cfgTemp' \in [Cfg!Seconds -> Saves \cup {Cfg!NoOne}] /\ cfgTemp'[n] = Cfg!NoOne
        /\ \A m \in Cfg!Seconds : m # n => cfgTemp'[m] = cfgTemp[m]
    BY <1>1, <1>3 DEF CfgInv, CfgTypeInv
  <2>4. file' \in Cfg!Files
    BY <1>1, <1>3 DEF CfgInv, CfgTypeInv, Cfg!Files
  <2>5. CfgTypeInv'
    BY <1>1, <1>3, <2>1, <2>2, <2>3, <2>4 DEF CfgInv, CfgTypeInv
  <2>6. CfgNamesInv'
    BY <1>1, <1>3, <2>3 DEF CfgInv, CfgFileInv, CfgNamesInv
  <2>7. CfgVersionInv'
    <3>1. disk[cfgTemp[n]].whole => CfgIsReady(s) /\ CfgReady(s) = disk[cfgTemp[n]]
      BY <1>1, <1>3 DEF CfgIsReady, CfgReady, n
    <3>. QED BY <1>1, <1>3, <3>1 DEF CfgInv, CfgSaveInv, CfgVersionInv, CfgVersionOf
  <2>8. CfgFileInv'
    BY <1>3, <2>6, <2>7 DEF CfgFileInv, CfgChangesInv
  <2>9. ASSUME NEW r \in Saves, r # s PROVE CfgSaveInv(r)'
    <3>1. save'[r] = save[r] /\ CfgSaveInv(r) /\ save[r].date \in Cfg!Seconds
      BY <2>1, <2>9 DEF CfgInv, CfgTypeInv, CfgSaveType
    <3>2. CfgBusyOf(r)'
      BY <1>3, <3>1 DEF CfgSaveInv, CfgBusyOf, Cfg!Busy, CfgHasConf
    <3>3. CfgNameOf(r)'
      <4>1. r # Cfg!NoOne
        BY DEF Cfg!StoreAssumption, Cfg!NoOne
      <4>2. file' = r \/ (\E m \in Cfg!Seconds : cfgTemp'[m] = r) => \E m \in Cfg!Seconds : cfgTemp[m] = r
        BY <1>1, <1>3, <2>3, <4>1
      <4>. QED BY <1>3, <3>1, <4>2 DEF CfgSaveInv, CfgNameOf, CfgCreated
    <3>4. CfgSetOf(r)'
      <4>1. \A q \in Saves : save'[q].conf.with = save[q].conf.with \/ save'[q].conf.with = {}
        BY <2>1
      <4>. QED BY <1>1, <1>3, <3>1, <4>1 DEF CfgSaveInv, CfgSetOf
    <3>5. CfgIsReady(r)' => CfgIsReady(r) /\ CfgReady(r)' = CfgReady(r)
      <4>1. cfgTemp'[save[r].date] # Cfg!NoOne => cfgTemp'[save[r].date] = cfgTemp[save[r].date]
        BY <2>3, <3>1
      <4>2. disk' = disk /\ CfgLooked(r)' = CfgLooked(r) /\ save'[r].date = save[r].date
        BY <1>1, <3>1 DEF CfgLooked
      <4>. QED BY <4>1, <4>2 DEF CfgIsReady, CfgReady
    <3>6. CfgVersionOf(r)'
      BY <1>1, <1>3, <3>1, <3>5 DEF CfgSaveInv, CfgVersionOf, CfgHasConf, Cfg!Busy
    <3>. QED BY <1>3, <3>2, <3>3, <3>4, <3>6 DEF CfgSaveInv, CfgChangesOf
  <2>. QED BY <2>1, <2>5, <2>8, <2>9, CfgDoneInv DEF CfgInv
<1>. QED BY <1>2, <1>3 DEF Cfg!Rename

-----------------------------------------------------------------------------
(* The client ends, and with it who was busy.                              *)
LEMMA CfgEndedInv ==
  ASSUME Cfg!StoreAssumption, CfgInv, cfgUp' = FALSE, cfgLock' = Cfg!NoOne, loading' = "no", save' = Cfg!Ended,
         UNCHANGED <<mem, keyless, file, disk, cfgTemp, cfgBackups, rotated, shared, second, behind, outlived>>
  PROVE  CfgInv'
<1>1. \A s \in Saves : save'[s] = IF Cfg!Busy(s) THEN Cfg!Gone ELSE save[s]
  BY DEF Cfg!Ended
<1>2. save' \in [Saves -> CfgSaveType]
  BY CfgFreshType DEF Cfg!Ended, CfgInv, CfgTypeInv
<1>3. Cfg!Gone.at = "done" /\ Cfg!Gone.kind = "post" /\ Cfg!Gone.conf.with = {}
  BY DEF Cfg!Gone, Cfg!Fresh, Cfg!NewConfig
<1>4. CfgTypeInv'
  BY <1>2 DEF CfgInv, CfgTypeInv
<1>5. CfgFileInv'
  BY DEF CfgInv, CfgFileInv, CfgNamesInv, CfgVersionInv, CfgChangesInv
<1>6. ASSUME NEW s \in Saves PROVE CfgSaveInv(s)'
  <2>1. CASE Cfg!Busy(s)
    BY <1>1, <1>3, <2>1, CfgDoneInv DEF CfgInv
  <2>2. CASE ~Cfg!Busy(s)
    <3>1. save'[s] = save[s] /\ CfgSaveInv(s)
      BY <1>1, <2>2 DEF CfgInv
    <3>2. \A q \in Saves : save'[q].conf.with = save[q].conf.with \/ save'[q].conf.with = {}
      BY <1>1, <1>3
    <3>3. CfgSetOf(s)'
      BY <2>2, <3>1, <3>2 DEF CfgSaveInv, CfgSetOf, CfgHasConf, Cfg!Busy
    <3>. QED
      BY <2>2, <3>1, <3>3 DEF CfgSaveInv, CfgBusyOf, CfgNameOf, CfgVersionOf, CfgChangesOf, CfgHasConf,
         Cfg!Busy, CfgCreated, CfgIsReady, CfgReady, CfgLooked
  <2>. QED BY <2>1, <2>2
<1>. QED BY <1>4, <1>5, <1>6 DEF CfgInv

(* The file is read when those who are about to replace it, if any, came   *)
(* through the tunnel.                                                     *)
LEMMA CfgReadFileInv ==
  ASSUME Cfg!StoreAssumption, CfgInv, Cfg!ReadFile, \A s \in Saves : Cfg!Busy(s) => save[s].tunnel
  PROVE  CfgInv'
<1>0. loading' = "no" /\ UNCHANGED <<file, disk, cfgTemp, cfgBackups, rotated, shared, second>>
  BY DEF Cfg!ReadFile, Cfg!ondisk, Cfg!kept
<1>1. CASE disk[file].whole
  <2>. DEFINE read == [v |-> disk[file].v, with |-> disk[file].with]
  <2>1. /\ cfgUp' = TRUE /\ behind' = FALSE /\ mem' = read /\ UNCHANGED <<save, cfgLock>>
        /\ keyless' = (keyless /\ disk[file].with = {}) /\ outlived' = (outlived \/ \E s \in Saves : Cfg!Busy(s))
    BY <1>1 DEF Cfg!ReadFile
  <2>2. read \in CfgConfs /\ read.v = disk[file].v /\ read.with = disk[file].with /\ disk[file].v \in Nat /\ mem.v \in Nat
    BY DEF CfgInv, CfgTypeInv, CfgFileType, CfgConfs
  <2>. HIDE DEF read
  <2>3. keyless' \in BOOLEAN /\ outlived' \in BOOLEAN
    BY <2>1 DEF CfgInv, CfgTypeInv
  <2>4. CfgTypeInv'
    BY <1>0, <2>1, <2>2, <2>3 DEF CfgInv, CfgTypeInv
  <2>5. CfgFileInv'
    BY <1>0, <2>1, <2>2 DEF CfgInv, CfgFileInv, CfgNamesInv, CfgVersionInv, CfgChangesInv
  <2>6. ASSUME NEW r \in Saves PROVE CfgSaveInv(r)'
    <3>1. /\ CfgSaveInv(r) /\ save'[r] = save[r] /\ save[r].conf.v \in Nat /\ Cfg!Busy(r)' = Cfg!Busy(r)
          /\ CfgHasConf(r)' = CfgHasConf(r) /\ CfgCreated(r)' = CfgCreated(r)
      BY <2>1 DEF CfgInv, CfgTypeInv, CfgSaveType, CfgConfs, Cfg!Busy, CfgHasConf, CfgCreated
    <3>2. CfgHasConf(r) \/ CfgCreated(r) \/ CfgIsReady(r)' => Cfg!Busy(r)
      BY <2>1 DEF CfgHasConf, CfgCreated, CfgIsReady, CfgLooked, Cfg!Busy
    <3>3. ~outlived' => ~outlived /\ ~CfgHasConf(r) /\ ~CfgCreated(r) /\ ~CfgIsReady(r)'
      BY <2>1, <3>2
    <3>4. CfgBusyOf(r)'
      BY <1>0, <2>1, <3>1, <3>2 DEF CfgSaveInv, CfgBusyOf
    <3>5. CfgNameOf(r)'
      BY <1>0, <3>1, <3>3 DEF CfgSaveInv, CfgNameOf
    <3>6. CfgSetOf(r)'
      BY <1>0, <2>1, <2>2, <3>1, <3>3 DEF CfgSaveInv, CfgSetOf, CfgInv, CfgTypeInv
    <3>7. CASE outlived' \/ save[r].at # "form"
      BY <3>1, <3>3, <3>4, <3>5, <3>6, <3>7 DEF CfgSaveInv, CfgVersionOf, CfgChangesOf
    <3>8. CASE ~outlived' /\ save[r].at = "form"
      <4>1. ~keyless /\ save[r].conf.v <= mem.v
        BY <3>1, <3>3, <3>8 DEF CfgSaveInv, CfgBusyOf, CfgVersionOf
      <4>2. disk[file].v = IF behind THEN mem.v + 1 ELSE mem.v
        BY <1>1, <3>3, <3>8, <4>1 DEF CfgInv, CfgFileInv, CfgVersionInv
      <4>3. CfgVersionOf(r)'
        BY <2>1, <2>2, <3>1, <3>3, <3>8, <4>1, <4>2 DEF CfgVersionOf
      <4>4. save[r].conf.v = disk[file].v => ~behind /\ save[r].conf.v = mem.v
        BY <2>2, <3>1, <4>1, <4>2
      <4>5. CfgChangesOf(r)'
        BY <1>0, <2>1, <2>2, <3>1, <3>3, <3>8, <4>1, <4>4 DEF CfgSaveInv, CfgChangesOf
      <4>. QED BY <3>4, <3>5, <3>6, <4>3, <4>5 DEF CfgSaveInv
    <3>. QED BY <3>7, <3>8
  <2>. QED BY <2>4, <2>5, <2>6 DEF CfgInv
<1>2. CASE ~disk[file].whole
  BY <1>0, <1>2, CfgEndedInv DEF Cfg!ReadFile, Cfg!seen
<1>. QED BY <1>1, <1>2

LEMMA CfgLoadInv == ASSUME Cfg!StoreAssumption, CfgInv, Cfg!Load PROVE CfgInv'
<1>1. \A s \in Saves : Cfg!Busy(s) => save[s].tunnel
  BY DEF Cfg!Load, CfgInv, CfgSaveInv, CfgBusyOf
<1>. QED BY <1>1, CfgReadFileInv DEF Cfg!Load

LEMMA CfgStartInv == ASSUME Cfg!StoreAssumption, CfgInv, Cfg!Start PROVE CfgInv'
<1>1. \A s \in Saves : Cfg!Busy(s) => save[s].tunnel
  BY DEF Cfg!Start, CfgInv, CfgSaveInv, CfgBusyOf
<1>. QED BY <1>1, CfgReadFileInv DEF Cfg!Start

LEMMA CfgCrashInv == ASSUME Cfg!StoreAssumption, CfgInv, Cfg!Crash PROVE CfgInv'
BY CfgEndedInv DEF Cfg!Crash, Cfg!ondisk, Cfg!kept, Cfg!seen

LEMMA CfgSameInv ==
  ASSUME CfgInv, UNCHANGED <<mem, cfgUp, keyless, cfgLock, save, Cfg!ondisk, Cfg!kept, Cfg!seen>>, second' \in Cfg!Seconds,
         \/ UNCHANGED loading
         \/ loading' \in {"stopped", "empty"} /\ \A s \in Saves : Cfg!Busy(s) => save[s].tunnel
  PROVE  CfgInv'
<1>. USE DEF Cfg!ondisk, Cfg!kept, Cfg!seen
<1>1. CfgTypeInv'
  BY DEF CfgInv, CfgTypeInv
<1>2. CfgFileInv'
  BY DEF CfgInv, CfgFileInv, CfgNamesInv, CfgVersionInv, CfgChangesInv
<1>3. ASSUME NEW s \in Saves PROVE CfgSaveInv(s)'
  BY DEF CfgInv, CfgSaveInv, CfgBusyOf, CfgNameOf, CfgSetOf, CfgVersionOf, CfgChangesOf, CfgHasConf, Cfg!Busy,
     CfgCreated, CfgIsReady, CfgReady, CfgLooked
<1>. QED BY <1>1, <1>2, <1>3 DEF CfgInv

LEMMA CfgStopWebServerInv == ASSUME CfgInv, Cfg!StopWebServer PROVE CfgInv'
BY CfgSameInv DEF CfgInv, CfgTypeInv, Cfg!StopWebServer

LEMMA CfgMakeNewConfigInv == ASSUME CfgInv, Cfg!MakeNewConfig PROVE CfgInv'
<1>1. \A s \in Saves : Cfg!Busy(s) => save[s].tunnel
  BY DEF Cfg!MakeNewConfig, CfgInv, CfgSaveInv, CfgBusyOf
<1>. QED BY <1>1, CfgSameInv DEF CfgInv, CfgTypeInv, Cfg!MakeNewConfig

LEMMA CfgTickInv == ASSUME Cfg!StoreAssumption, CfgInv, Cfg!Tick PROVE CfgInv'
<1>1. second' \in Cfg!Seconds
  BY DEF CfgInv, CfgTypeInv, Cfg!StoreAssumption, Cfg!Tick, Cfg!Seconds
<1>. QED BY <1>1, CfgSameInv DEF Cfg!Tick, Cfg!running

LEMMA CfgActionInv ==
  ASSUME Cfg!StoreAssumption, CfgInv, NEW s \in Saves,
         Cfg!OpenForm(s) \/ Cfg!PostConfig(s) \/ Cfg!PostProfile(s) \/ Cfg!SetUserPass(s) \/ Cfg!PutAPIKey(s) \/ Cfg!Saving(s)
  PROVE  CfgInv'
BY CfgOpenFormInv, CfgPostConfigInv, CfgPostProfileInv, CfgSetUserPassInv, CfgPutAPIKeyInv, CfgBackupFileInv,
   CfgOpenConfigInv, CfgCopyFileInv, CfgLookForTempInv, CfgCreateTempInv, CfgWriteInv, CfgRenameInv DEF Cfg!Saving

-----------------------------------------------------------------------------
LEMMA CfgKeptInv ==
  ASSUME CfgCopyInv, UNCHANGED <<cfgBackups, rotated, shared>>,
         \/ \E r \in Saves : ~CfgCopying(r)
         \/ UNCHANGED <<file, disk>> /\ \A r \in Saves : CfgCopying(r) => CfgCopying(r)'
  PROVE  CfgCopyInv'
BY DEF CfgCopyInv, CfgKeptWhole

(* Who has not opened the file yet, or is done, copies nothing that was    *)
(* there before.                                                           *)
LEMMA CfgFarCopying ==
  ASSUME NEW r \in Saves, UNCHANGED file,
         save'[r] = save[r] \/ save'[r].at \in {"form", "profile", "backup", "open", "done"}
  PROVE  CfgCopying(r) => CfgCopying(r)'
BY DEF CfgCopying, CfgCopied

LEMMA CfgRequestKept ==
  ASSUME Cfg!StoreAssumption, CfgTypeInv, CfgCopyInv, NEW s \in Saves,
         Cfg!OpenForm(s) \/ Cfg!PostConfig(s) \/ Cfg!PostProfile(s) \/ Cfg!SetUserPass(s) \/ Cfg!PutAPIKey(s)
  PROVE  CfgCopyInv'
<1>1. UNCHANGED <<cfgBackups, rotated, shared, file, disk>>
  BY DEF Cfg!OpenForm, Cfg!PostConfig, Cfg!PostProfile, Cfg!SetUserPass, Cfg!PutAPIKey, Cfg!ondisk, Cfg!kept
<1>2. Cfg!Done(s) => \A r \in Saves : save'[r] = save[r] \/ save'[r].at = "done"
  BY CfgDoneIs
<1>3. save \in [Saves -> CfgSaveType]
  BY DEF CfgTypeInv
<1>4. \A r \in Saves : save'[r] = save[r] \/ save'[r].at \in {"form", "profile", "backup", "open", "done"}
  <2>1. CASE Cfg!OpenForm(s)
    BY <1>3, <2>1 DEF Cfg!OpenForm, CfgSaveType
  <2>2. CASE Cfg!PostConfig(s)
    BY <1>2, <1>3, <2>2 DEF Cfg!PostConfig, CfgSaveType
  <2>3. CASE Cfg!PostProfile(s)
    BY <1>2, <1>3, <2>3 DEF Cfg!PostProfile, CfgSaveType
  <2>4. CASE Cfg!SetUserPass(s)
    BY <1>2, <1>3, <2>4 DEF Cfg!SetUserPass, CfgSaveType
  <2>5. CASE Cfg!PutAPIKey(s)
    BY <1>2, <1>3, <2>5 DEF Cfg!PutAPIKey, CfgSaveType
  <2>. QED BY <2>1, <2>2, <2>3, <2>4, <2>5
<1>. QED BY <1>1, <1>4, CfgFarCopying, CfgKeptInv

(* The copy of a whole file is made before the file is replaced.           *)
LEMMA CfgCopyFileKept ==
  ASSUME Cfg!StoreAssumption, CfgTypeInv, CfgCopyInv, NEW s \in Saves, Cfg!CopyFile(s)
  PROVE  CfgCopyInv'
<1>. DEFINE n == save[s].date
<1>1. UNCHANGED <<file, disk>> /\ save[s].at = "copy" /\ n \in Cfg!Seconds /\ save \in [Saves -> CfgSaveType]
      /\ disk[save[s].opened].whole \in BOOLEAN
  BY DEF Cfg!CopyFile, Cfg!At, Cfg!ondisk, CfgTypeInv, CfgSaveType, CfgFileType
<1>. HIDE DEF n
<1>2. ASSUME Cfg!Fail(s) PROVE \A r \in Saves : CfgCopying(r) => CfgCopying(r)'
  <2>1. \A r \in Saves : save'[r] = save[r] \/ save'[r].at = "done"
    BY <1>2, CfgDoneIs DEF Cfg!Fail
  <2>. QED BY <1>1, <2>1, CfgFarCopying
<1>3. CASE Cfg!Copied(n, FALSE) /\ Cfg!Fail(s)
  BY <1>1, <1>2, <1>3, CfgCopiedInv
<1>4. CASE Cfg!Fail(s) /\ UNCHANGED Cfg!kept
  BY <1>1, <1>2, <1>4, CfgKeptInv DEF Cfg!kept
<1>5. ASSUME NEW whole \in {disk[save[s].opened].whole} \cup {x \in {FALSE} : Cfg!Taken(n)}, Cfg!Copied(n, whole)
      PROVE  CfgCopyInv'
  <2>1. whole \in BOOLEAN /\ (whole = disk[save[s].opened].whole \/ (whole = FALSE /\ Cfg!Taken(n)))
    BY <1>1
  <2>2. CASE whole
    BY <1>1, <1>5, <2>1, <2>2, CfgCopiedInv
  <2>3. CASE ~whole /\ Cfg!Taken(n)
    <3>1. shared'
      BY <1>5, <2>3 DEF Cfg!Copied
    <3>. QED BY <1>1, <1>5, <2>1, <3>1, CfgCopiedInv
  <2>4. CASE ~whole /\ whole = disk[save[s].opened].whole
    <3>1. CfgCopying(s) => ~disk[file].whole
      BY <1>1, <2>4 DEF CfgCopying
    <3>. QED BY <1>1, <1>5, <2>1, <3>1, CfgCopiedInv
  <2>. QED BY <2>1, <2>2, <2>3, <2>4
<1>. QED BY <1>3, <1>4, <1>5 DEF Cfg!CopyFile, n

LEMMA CfgActionKept ==
  ASSUME Cfg!StoreAssumption, CfgTypeInv, CfgCopyInv, NEW s \in Saves,
         Cfg!OpenForm(s) \/ Cfg!PostConfig(s) \/ Cfg!PostProfile(s) \/ Cfg!SetUserPass(s) \/ Cfg!PutAPIKey(s) \/ Cfg!Saving(s)
  PROVE  CfgCopyInv'
<1>. save \in [Saves -> CfgSaveType]
  BY DEF CfgTypeInv
<1>1. CASE Cfg!LookForTemp(s) \/ Cfg!CreateTemp(s) \/ Cfg!Write(s) \/ Cfg!Rename(s)
  <2>1. ~CfgCopying(s) /\ UNCHANGED <<cfgBackups, rotated, shared>>
    BY <1>1 DEF Cfg!LookForTemp, Cfg!CreateTemp, Cfg!Write, Cfg!Rename, Cfg!At, CfgCopied, CfgCopying, Cfg!kept
  <2>. QED BY <2>1, CfgKeptInv
<1>2. Cfg!Fail(s) => \A r \in Saves : save'[r] = save[r] \/ save'[r].at = "done"
  BY CfgDoneIs DEF Cfg!Fail
<1>3. CASE Cfg!BackupFile(s)
  <2>1. UNCHANGED <<file, disk, rotated, shared>> /\ cfgBackups' = Cfg!Newest
    BY <1>3 DEF Cfg!BackupFile, Cfg!ondisk
  <2>2. \A r \in Saves : save'[r] = save[r] \/ save'[r].at \in {"open", "done"}
    BY <1>2, <1>3 DEF Cfg!BackupFile, CfgSaveType
  <2>. QED BY <2>1, <2>2, CfgFarCopying, CfgNewestInv
<1>4. CASE Cfg!OpenConfig(s)
  <2>1. UNCHANGED <<file, disk, cfgBackups, rotated, shared>>
    BY <1>4 DEF Cfg!OpenConfig, Cfg!ondisk, Cfg!kept
  <2>2. \A r \in Saves : save'[r] = save[r] \/ save'[r].at = "done" \/ (save'[r].at = "copy" /\ save'[r].opened = file)
    BY <1>2, <1>4 DEF Cfg!OpenConfig, CfgSaveType
  <2>3. \A r \in Saves : CfgCopying(r) => CfgCopying(r)'
    BY <2>1, <2>2 DEF CfgCopying, CfgCopied
  <2>. QED BY <2>1, <2>3, CfgKeptInv
<1>. QED BY <1>1, <1>3, <1>4, CfgRequestKept, CfgCopyFileKept DEF Cfg!Saving

CfgOther == Cfg!StopWebServer \/ Cfg!MakeNewConfig \/ Cfg!Load \/ Cfg!Crash \/ Cfg!Start \/ Cfg!Tick

LEMMA CfgOtherKept == ASSUME CfgTypeInv, CfgCopyInv, CfgOther \/ UNCHANGED Cfg!storeVars PROVE CfgCopyInv'
<1>1. UNCHANGED <<cfgBackups, rotated, shared, file, disk>>
  BY DEF CfgOther, Cfg!StopWebServer, Cfg!MakeNewConfig, Cfg!Load, Cfg!ReadFile, Cfg!Crash, Cfg!Start, Cfg!Tick,
     Cfg!storeVars, Cfg!ondisk, Cfg!kept
<1>2. UNCHANGED save \/ save' = Cfg!Ended
  BY DEF CfgOther, Cfg!StopWebServer, Cfg!MakeNewConfig, Cfg!Load, Cfg!ReadFile, Cfg!Crash, Cfg!Start, Cfg!Tick, Cfg!storeVars
<1>3. \A r \in Saves : save'[r] = save[r] \/ save'[r].at = "done"
  BY <1>2 DEF Cfg!Ended, Cfg!Gone, Cfg!Fresh
<1>. QED BY <1>1, <1>3, CfgFarCopying, CfgKeptInv

LEMMA CfgInductive == ASSUME Cfg!StoreAssumption, CfgIInv, [Cfg!Next]_(Cfg!storeVars) PROVE CfgIInv'
<1>1. CfgInv /\ CfgCopyInv
  BY DEF CfgIInv, CfgInv
<1>2. CfgTypeInv
  BY <1>1 DEF CfgInv
<1>3. CASE \E s \in Saves :
             Cfg!OpenForm(s) \/ Cfg!PostConfig(s) \/ Cfg!PostProfile(s) \/ Cfg!SetUserPass(s) \/ Cfg!PutAPIKey(s) \/ Cfg!Saving(s)
  BY <1>1, <1>2, <1>3, CfgActionInv, CfgActionKept DEF CfgIInv, CfgInv
<1>4. CASE CfgOther \/ UNCHANGED Cfg!storeVars
  <2>1. CfgCopyInv'
    BY <1>1, <1>2, <1>4, CfgOtherKept
  <2>2. UNCHANGED Cfg!storeVars => CfgInv'
    BY <1>1, <1>2, CfgSameInv DEF CfgTypeInv, Cfg!storeVars, Cfg!running
  <2>3. CfgOther => CfgInv'
    BY <1>1, CfgStopWebServerInv, CfgMakeNewConfigInv, CfgLoadInv, CfgCrashInv, CfgStartInv, CfgTickInv DEF CfgOther
  <2>. QED BY <1>4, <2>1, <2>2, <2>3 DEF CfgIInv, CfgInv
<1>. QED BY <1>3, <1>4 DEF Cfg!Next, CfgOther

LEMMA CfgCopies == ASSUME Cfg!StoreAssumption PROVE CfgIInv => Cfg!TypeOK /\ Cfg!WholeCopy
<1>1. ASSUME CfgIInv PROVE Cfg!TypeOK
  <2>1. mem.v \in Nat /\ mem.with \subseteq Cfg!Changes
    BY <1>1 DEF CfgIInv, CfgTypeInv, CfgConfs
  <2>2. \A s \in Saves :
       /\ save[s].at \in CfgPlaces /\ save[s].kind \in {"post", "profile", "key"}
       /\ save[s].opened \in Cfg!Files /\ save[s].date \in Cfg!Seconds
       /\ Cfg!Busy(s) /\ loading # "no" => save[s].tunnel
    BY <1>1 DEF CfgIInv, CfgTypeInv, CfgSaveType, CfgSaveInv, CfgBusyOf
  <2>3. \A f \in Cfg!Files : disk[f].v \in Nat /\ disk[f].with \subseteq Cfg!Changes /\ disk[f].whole \in BOOLEAN
    BY <1>1 DEF CfgIInv, CfgTypeInv, CfgFileType
  <2>4. /\ {cfgUp, keyless, behind, outlived, shared} \subseteq BOOLEAN /\ loading \in {"no", "stopped", "empty"}
        /\ cfgLock \in Saves \cup {Cfg!NoOne} /\ file \in Cfg!Files
        /\ \A n \in Cfg!Seconds : cfgTemp[n] \in Saves \cup {Cfg!NoOne}
        /\ second \in Cfg!Seconds
    BY <1>1 DEF CfgIInv, CfgTypeInv
  <2>5. \A i \in DOMAIN cfgBackups :
          cfgBackups[i].second \in Cfg!Seconds \cup {Cfg!Earlier} /\ cfgBackups[i].whole \in BOOLEAN
    <3>1. \A i \in DOMAIN cfgBackups : cfgBackups[i] \in CfgBackupType
      BY <1>1 DEF CfgIInv, CfgTypeInv
    <3>. QED BY <3>1 DEF CfgBackupType
  <2>. QED BY <2>1, <2>2, <2>3, <2>4, <2>5 DEF Cfg!TypeOK, CfgPlaces
<1>2. CfgIInv => Cfg!WholeCopy
  BY DEF CfgIInv, CfgCopyInv, CfgKeptWhole, Cfg!WholeCopy
<1>. QED BY <1>1, <1>2

(* The step that replaces the file, and the writes that come before it.    *)
LEMMA CfgBehind == ASSUME Cfg!StoreAssumption, CfgIInv, [Cfg!Next]_(Cfg!storeVars) PROVE Cfg!LossIsBehind
<1>1. CfgInv /\ CfgTypeInv
  BY DEF CfgIInv, CfgInv
<1>2. ASSUME UNCHANGED <<file, disk>> PROVE Cfg!LossIsBehind
  BY <1>2 DEF Cfg!LossIsBehind
<1>3. ASSUME NEW s \in Saves, Cfg!CreateTemp(s) PROVE Cfg!LossIsBehind
  <2>1. file' = file /\ \E f \in Cfg!Files : disk' = [disk EXCEPT ![f].whole = FALSE]
    BY <1>1, <1>3 DEF Cfg!CreateTemp, CfgTypeInv, CfgSaveType, Cfg!Files
  <2>2. disk'[file'].with = disk[file].with
    BY <1>1, <2>1 DEF CfgTypeInv, CfgFileType
  <2>. QED BY <2>2 DEF Cfg!LossIsBehind
<1>4. ASSUME NEW s \in Saves, Cfg!Write(s) PROVE Cfg!LossIsBehind
  <2>1. ~behind /\ ~outlived => save[s].opened # file
    <3>1. CfgCreated(s) /\ save[s].date \in Cfg!Seconds
      BY <1>1, <1>4 DEF Cfg!Write, Cfg!At, CfgCreated, CfgTypeInv, CfgSaveType
    <3>. QED BY <1>1, <3>1 DEF CfgInv, CfgFileInv, CfgNamesInv, CfgSaveInv, CfgNameOf
  <2>2. file' = file /\ (save[s].opened # file => disk'[file] = disk[file])
    BY <1>1, <1>4 DEF Cfg!Write, CfgTypeInv
  <2>. QED BY <2>1, <2>2 DEF Cfg!LossIsBehind
<1>5. ASSUME NEW s \in Saves, Cfg!Rename(s) PROVE Cfg!LossIsBehind
  <2>1. CfgHasConf(s) /\ disk' = disk /\ (file' = file \/ (file' = cfgTemp[save[s].date] /\ cfgTemp[save[s].date] # Cfg!NoOne))
    BY <1>5 DEF Cfg!Rename, Cfg!At, CfgHasConf, Cfg!Busy
  <2>2. CASE file' = cfgTemp[save[s].date] /\ cfgTemp[save[s].date] # Cfg!NoOne /\ disk[file'].whole /\ ~behind /\ ~outlived
    <3>1. CfgIsReady(s) /\ CfgReady(s) = disk'[file']
      BY <1>5, <2>1, <2>2 DEF Cfg!Rename, Cfg!At, CfgIsReady, CfgLooked, CfgReady
    <3>2. disk[file].with \subseteq disk'[file'].with
      BY <1>1, <2>1, <2>2, <3>1 DEF CfgInv, CfgFileInv, CfgChangesInv, CfgSaveInv, CfgChangesOf
    <3>. QED BY <3>2 DEF Cfg!LossIsBehind
  <2>. QED BY <2>1, <2>2 DEF Cfg!LossIsBehind
<1>6. [Cfg!Next]_(Cfg!storeVars) =>
        \/ UNCHANGED <<file, disk>>
        \/ \E s \in Saves : Cfg!CreateTemp(s) \/ Cfg!Write(s) \/ Cfg!Rename(s)
  BY DEF Cfg!Next, Cfg!storeVars, Cfg!Saving, Cfg!OpenForm, Cfg!PostConfig, Cfg!PostProfile, Cfg!SetUserPass,
     Cfg!PutAPIKey, Cfg!BackupFile, Cfg!OpenConfig, Cfg!CopyFile, Cfg!LookForTemp, Cfg!StopWebServer,
     Cfg!MakeNewConfig, Cfg!Load, Cfg!ReadFile, Cfg!Crash, Cfg!Start, Cfg!Tick, Cfg!ondisk
<1>. QED BY <1>2, <1>3, <1>4, <1>5, <1>6

LEMMA CfgInvariant == ASSUME Cfg!StoreAssumption PROVE Cfg!StoreSpec => []CfgIInv
<1>1. Cfg!Init => CfgIInv
  BY CfgInitInv
<1>2. CfgIInv /\ [Cfg!Next]_(Cfg!storeVars) => CfgIInv'
  BY CfgInductive
<1>. QED BY <1>1, <1>2, PTL DEF Cfg!StoreSpec

(* Wherever a save fails or the client is killed in it, a whole copy of    *)
(* the configuration file is in its place or in a backup, until so many    *)
(* backups as are kept were made since that are not whole, or one of them  *)
(* over another of the same second: for any set of saves, any Keep, any    *)
(* number of crashes, of reloads and of saves through the tunnel.          *)
THEOREM ConfigIsKept == ASSUME Cfg!StoreAssumption PROVE Cfg!StoreSpec => []Cfg!WholeCopy
<1>1. CfgIInv => Cfg!WholeCopy
  BY CfgCopies
<1>. QED BY <1>1, CfgInvariant, PTL

(* A client of which this part moves is one of this part alone.            *)
LEMMA CfgOfParts == Spec => Cfg!StoreSpec
<1>1. Init => Cfg!Init
  BY DEF Init
<1>2. [Next]_vars => [Cfg!Next]_(Cfg!storeVars)
  <2>1. Next => Cfg!Next \/ UNCHANGED storeVars
    BY DEF Next, Request, Store, Update, CheckBackups, TellQueues, TellSessions, CoolDown, AskMany, RunCommand
  <2>2. UNCHANGED vars => UNCHANGED storeVars
    BY DEF vars
  <2>3. UNCHANGED storeVars => UNCHANGED Cfg!storeVars
    BY DEF storeVars, Cfg!storeVars, Cfg!running, Cfg!ondisk, Cfg!kept, Cfg!seen
  <2>. QED BY <2>1, <2>2, <2>3
<1>. QED BY <1>1, <1>2, PTL DEF Spec, Cfg!StoreSpec

-----------------------------------------------------------------------------
(* Updates of the client's binary (UpdateFile).                            *)
UpdStages == {"idle", "download", "away", "clean", "place", "start", "done"}
UpdBackup == [good : BOOLEAN, by : Upd!Updaters]

UpdTypeInv == updBackups \in Seq(UpdBackup) /\ bad \in Nat

(* After backup n, a binary that starts, only "bad" more were made, so     *)
(* that it is there as long as those are fewer than Keep.                  *)
UpdKept(n) == updBackups[n].good = TRUE /\ Len(updBackups) - n <= bad

UpdBackupInv == updBackups = <<>> \/ (\E n \in DOMAIN updBackups : UpdKept(n)) \/ bad >= KeepBinaries \/ overwritten

(* Without backups nothing was replaced.                                   *)
UpdFirstInv == updBackups = <<>> => path = "good" /\ \A u \in Upd!Updaters : at[u] \notin {"clean", "place"}

UpdIInv == UpdTypeInv /\ at \in [Upd!Updaters -> UpdStages] /\ UpdBackupInv /\ UpdFirstInv

-----------------------------------------------------------------------------
LEMMA UpdInitInv == Upd!Init => UpdIInv
BY DEF UpdStages, Upd!Init, UpdIInv, UpdTypeInv, UpdBackupInv, UpdFirstInv, Upd!Idle

(* A backup more: a good one is the last, and one that does not start      *)
(* makes one more after the last good one.                                 *)
LEMMA UpdRenameAwayInv ==
  ASSUME Upd!UpdateAssumption, UpdIInv, NEW u \in Upd!Updaters, Upd!RenameAway(u)
  PROVE  UpdIInv'
<1>. DEFINE backup == [good |-> path = "good", by |-> u]
<1>1. CASE UNCHANGED Upd!files /\ Upd!To(u, Upd!End(u))
  BY <1>1 DEF UpdIInv, UpdTypeInv, UpdBackupInv, UpdFirstInv, UpdKept, Upd!files, Upd!To, Upd!End, UpdStages
<1>2. ASSUME path' = "none", Upd!To(u, "clean"),
             \/ updBackups' = Append(updBackups, backup) /\ UNCHANGED overwritten
             \/ /\ Len(updBackups) > 0
                /\ updBackups' = [updBackups EXCEPT ![Len(updBackups)] = backup] /\ overwritten' = TRUE,
             bad' = IF backup.good THEN 0 ELSE bad + 1
      PROVE  UpdIInv'
  <2>1. backup \in UpdBackup /\ backup.good = (path = "good")
    BY DEF UpdBackup
  <2>2. updBackups' \in Seq(UpdBackup) /\ bad' \in Nat /\ updBackups' # <<>>
    BY <1>2, <2>1 DEF UpdIInv, UpdTypeInv
  <2>3. at' \in [Upd!Updaters -> UpdStages]
    BY <1>2 DEF UpdIInv, Upd!To, UpdStages
  <2>4. CASE updBackups' = Append(updBackups, backup) /\ UNCHANGED overwritten
    <3>1. Len(updBackups') = Len(updBackups) + 1 /\ updBackups'[Len(updBackups) + 1] = backup
          /\ \A n \in DOMAIN updBackups : n \in DOMAIN updBackups' /\ updBackups'[n] = updBackups[n]
      BY <2>1, <2>4 DEF UpdIInv, UpdTypeInv
    <3>2. ASSUME path = "good" PROVE UpdBackupInv'
      <4>1. bad' = 0
        BY <1>2, <2>1, <3>2
      <4>2. backup.good = TRUE
        BY <3>2
      <4>3. updBackups'[Len(updBackups) + 1].good = TRUE
        BY <3>1, <4>2
      <4>4. Len(updBackups) + 1 \in DOMAIN updBackups' /\ updBackups'[Len(updBackups) + 1].good = TRUE
            /\ Len(updBackups') - (Len(updBackups) + 1) <= bad'
        BY <2>2, <3>1, <4>1, <4>3 DEF UpdIInv, UpdTypeInv
      <4>. QED BY <4>4 DEF UpdBackupInv, UpdKept
    <3>3. ASSUME path # "good" PROVE UpdBackupInv'
      <4>1. bad' = bad + 1
        BY <1>2, <2>1, <3>3
      <4>2. (\E n \in DOMAIN updBackups : UpdKept(n)) \/ bad >= KeepBinaries \/ overwritten
        BY <3>3 DEF UpdIInv, UpdBackupInv, UpdFirstInv
      <4>3. ASSUME NEW n \in DOMAIN updBackups, UpdKept(n) PROVE n \in DOMAIN updBackups' /\ updBackups'[n].good = TRUE /\ Len(updBackups') - n <= bad'
        BY <3>1, <4>1, <4>3 DEF UpdKept, UpdIInv, UpdTypeInv
      <4>4. bad >= KeepBinaries => bad' >= KeepBinaries
        BY <4>1 DEF Upd!UpdateAssumption, UpdIInv, UpdTypeInv
      <4>. QED BY <2>4, <4>2, <4>3, <4>4 DEF UpdBackupInv, UpdKept
    <3>4. UpdBackupInv'
      BY <3>2, <3>3
    <3>. QED BY <2>2, <2>3, <3>4 DEF UpdIInv, UpdTypeInv, UpdFirstInv
  <2>5. CASE overwritten'
    BY <2>2, <2>3, <2>5 DEF UpdIInv, UpdTypeInv, UpdBackupInv, UpdFirstInv
  <2>. QED BY <1>2, <2>4, <2>5
<1>. QED BY <1>1, <1>2 DEF Upd!RenameAway

(* The last Keep are kept; the last good one is among them, unless Keep    *)
(* that do not start came after it.                                        *)
LEMMA UpdCleanOldBackupsInv ==
  ASSUME Upd!UpdateAssumption, UpdIInv, NEW u \in Upd!Updaters, Upd!CleanOldBackups(u)
  PROVE  UpdIInv'
<1>. DEFINE cut == IF Len(updBackups) > KeepBinaries THEN Len(updBackups) - KeepBinaries ELSE 0
<1>1. /\ Len(updBackups) \in Nat /\ KeepBinaries \in Nat \ {0} /\ updBackups # <<>>
      /\ cut \in Nat /\ cut < Len(updBackups) /\ (cut = 0 \/ cut = Len(updBackups) - KeepBinaries)
  BY DEF Upd!UpdateAssumption, UpdIInv, UpdTypeInv, UpdFirstInv, Upd!CleanOldBackups
<1>2. updBackups' = SubSeq(updBackups, cut + 1, Len(updBackups)) /\ UNCHANGED <<path, bad, overwritten>>
  BY <1>1 DEF Upd!CleanOldBackups
<1>. HIDE DEF cut
<1>3. updBackups' \in Seq(UpdBackup) /\ Len(updBackups') = Len(updBackups) - cut
      /\ \A n \in 1 .. Len(updBackups) - cut : updBackups'[n] = updBackups[n + cut]
  <2>1. \A i \in cut + 1 .. Len(updBackups) : updBackups[i] \in UpdBackup
    BY <1>1 DEF UpdIInv, UpdTypeInv
  <2>2. cut + 1 \in Int /\ Len(updBackups) \in Int
    BY <1>1
  <2>3. /\ updBackups' \in Seq(UpdBackup)
        /\ Len(updBackups') = IF cut + 1 <= Len(updBackups) THEN Len(updBackups) - (cut + 1) + 1 ELSE 0
        /\ \A i \in 1 .. Len(updBackups) - (cut + 1) + 1 : updBackups'[i] = updBackups[cut + 1 + i - 1]
    <3>. DEFINE kept == SubSeq(updBackups, cut + 1, Len(updBackups))
    <3>1. /\ kept \in Seq(UpdBackup)
          /\ Len(kept) = IF cut + 1 <= Len(updBackups) THEN Len(updBackups) - (cut + 1) + 1 ELSE 0
          /\ \A i \in 1 .. Len(updBackups) - (cut + 1) + 1 : kept[i] = updBackups[cut + 1 + i - 1]
      BY <2>1, <2>2, SubSeqProperties
    <3>. QED BY <1>2, <3>1
  <2>. QED BY <1>1, <2>3
<1>4. updBackups' # <<>>
  BY <1>1, <1>3 DEF UpdIInv, UpdTypeInv
<1>5. at' \in [Upd!Updaters -> UpdStages]
  BY DEF Upd!CleanOldBackups, Upd!To, UpdIInv, UpdStages
<1>6. ASSUME NEW n \in DOMAIN updBackups, UpdKept(n), bad < KeepBinaries
      PROVE  n - cut \in DOMAIN updBackups' /\ updBackups'[n - cut].good = TRUE /\ Len(updBackups') - (n - cut) <= bad'
  BY <1>1, <1>2, <1>3, <1>6 DEF UpdKept, UpdIInv, UpdTypeInv
<1>7. UpdBackupInv'
  <2>1. CASE bad >= KeepBinaries \/ overwritten
    BY <1>2, <2>1 DEF UpdBackupInv
  <2>2. ASSUME ~(bad >= KeepBinaries), ~overwritten PROVE UpdBackupInv'
    <3>1. bad < KeepBinaries
      BY <1>1, <2>2 DEF UpdIInv, UpdTypeInv
    <3>2. PICK n \in DOMAIN updBackups : UpdKept(n)
      BY <1>1, <2>2 DEF UpdIInv, UpdBackupInv
    <3>. QED BY <1>6, <3>1, <3>2 DEF UpdBackupInv, UpdKept
  <2>. QED BY <2>1, <2>2
<1>. QED BY <1>2, <1>3, <1>4, <1>5, <1>7 DEF UpdIInv, UpdTypeInv, UpdFirstInv

LEMMA UpdInductive == ASSUME Upd!UpdateAssumption PROVE UpdIInv /\ [Upd!Next]_(Upd!updateVars) => UpdIInv'
<1>. SUFFICES ASSUME UpdIInv, [Upd!Next]_(Upd!updateVars) PROVE UpdIInv'
  OBVIOUS
<1>. USE DEF UpdIInv, UpdTypeInv, UpdBackupInv, UpdFirstInv, UpdKept, Upd!files, UpdStages
<1>1. ASSUME NEW u \in Upd!Updaters, Upd!Check(u) PROVE UpdIInv'
  BY <1>1 DEF Upd!Check, Upd!To, Upd!End
<1>2. ASSUME NEW u \in Upd!Updaters, Upd!Download(u) PROVE UpdIInv'
  BY <1>2 DEF Upd!Download, Upd!To, Upd!End
<1>3. ASSUME NEW u \in Upd!Updaters, Upd!RenameAway(u) PROVE UpdIInv'
  BY <1>3, UpdRenameAwayInv
<1>4. ASSUME NEW u \in Upd!Updaters, Upd!CleanOldBackups(u) PROVE UpdIInv'
  BY <1>4, UpdCleanOldBackupsInv
<1>5. ASSUME NEW u \in Upd!Updaters, Upd!Place(u) PROVE UpdIInv'
  BY <1>5 DEF Upd!Place, Upd!To, Upd!End
<1>6. ASSUME NEW u \in Upd!Updaters, Upd!StartNew(u) PROVE UpdIInv'
  BY <1>6 DEF Upd!StartNew, Upd!To, Upd!End
<1>7. CASE Upd!Reload
  BY <1>7 DEF Upd!Reload
<1>8. CASE Upd!Exit
  BY <1>8 DEF Upd!Exit, Upd!Idle
<1>9. CASE Upd!Start
  BY <1>9 DEF Upd!Start
<1>10. CASE UNCHANGED Upd!updateVars
  BY <1>10 DEF Upd!updateVars
<1>. QED BY <1>1, <1>2, <1>3, <1>4, <1>5, <1>6, <1>7, <1>8, <1>9, <1>10 DEF Upd!Next, Upd!Step

(* One updater at a time is between the two renames, with no binary at the *)
(* path, and it deletes the backup that is one too many before there is a  *)
(* binary that can be made another.                                        *)
UpdBetween(u) == at[u] \in {"clean", "place"}
UpdRoomInv ==
  /\ Len(updBackups) <= KeepBinaries + 1
  /\ path # "none" => Len(updBackups) <= KeepBinaries /\ \A u \in Upd!Updaters : ~UpdBetween(u)
  /\ \A u, v \in Upd!Updaters : UpdBetween(u) /\ UpdBetween(v) => u = v
  /\ \A u \in Upd!Updaters : at[u] = "place" => Len(updBackups) <= KeepBinaries

UpdBinaries == {"good", "bad", "none"}
UpdRestInv ==
  /\ path \in UpdBinaries /\ updTemp \in [Upd!Updaters -> UpdBinaries]
  /\ auto \in BOOLEAN /\ updUp \in BOOLEAN /\ exiting \in BOOLEAN /\ overwritten \in BOOLEAN
  /\ downloads \in 0..MaxDownloads

LEMMA UpdRestInitInv == ASSUME Upd!UpdateAssumption, Upd!Init PROVE UpdRestInv /\ UpdRoomInv
<1>1. UpdRestInv
  <2>1. downloads \in 0..MaxDownloads
    BY DEF Upd!UpdateAssumption, Upd!Init
  <2>2. path \in UpdBinaries /\ updTemp \in [Upd!Updaters -> UpdBinaries]
    BY DEF Upd!Init, UpdBinaries
  <2>. QED BY <2>1, <2>2 DEF Upd!Init, UpdRestInv
<1>2. \A u \in Upd!Updaters : at[u] = "idle"
  BY DEF Upd!Init, Upd!Idle
<1>3. Len(updBackups) = 0
  BY DEF Upd!Init
<1>. QED BY <1>1, <1>2, <1>3 DEF Upd!UpdateAssumption, UpdRoomInv, UpdBetween

LEMMA UpdRestInductive == ASSUME Upd!UpdateAssumption, UpdRestInv, [Upd!Next]_(Upd!updateVars) PROVE UpdRestInv'
<1>. USE DEF UpdRestInv, UpdBinaries
<1>1. ASSUME NEW u \in Upd!Updaters, Upd!Download(u) PROVE UpdRestInv'
  BY <1>1 DEF Upd!UpdateAssumption, Upd!Download, Upd!To
<1>2. ASSUME NEW u \in Upd!Updaters, Upd!RenameAway(u) PROVE UpdRestInv'
  BY <1>2 DEF Upd!RenameAway, Upd!files
<1>. QED
  BY <1>1, <1>2 DEF Upd!Next, Upd!Step, Upd!Check, Upd!CleanOldBackups, Upd!Place, Upd!StartNew, Upd!Reload, Upd!Exit,
     Upd!Start, Upd!files, Upd!updateVars, Upd!To

(* A step of one updater, that no other is between the renames for.        *)
LEMMA UpdRoomInductive == ASSUME Upd!UpdateAssumption, UpdIInv, UpdRoomInv, [Upd!Next]_(Upd!updateVars) PROVE UpdRoomInv'
<1>. USE DEF UpdRoomInv, UpdBetween
<1>1. KeepBinaries \in Nat /\ Len(updBackups) \in Nat /\ at \in [Upd!Updaters -> UpdStages]
  BY DEF Upd!UpdateAssumption, UpdIInv, UpdTypeInv
<1>2. ASSUME NEW u \in Upd!Updaters, Upd!RenameAway(u) PROVE UpdRoomInv'
  <2>1. CASE UNCHANGED Upd!files
    BY <1>1, <1>2, <2>1 DEF Upd!RenameAway, Upd!files, Upd!To, Upd!End
  <2>2. CASE path # "none" /\ Upd!To(u, "clean") /\ path' = "none"
    <3>1. Len(updBackups') <= Len(updBackups) + 1 /\ Len(updBackups) <= KeepBinaries /\ Len(updBackups') \in Nat
      BY <1>2, <2>2 DEF Upd!RenameAway, UpdIInv, UpdTypeInv, Upd!files
    <3>. QED BY <1>1, <2>2, <3>1 DEF Upd!To
  <2>. QED BY <1>2, <2>1, <2>2 DEF Upd!RenameAway
<1>3. ASSUME NEW u \in Upd!Updaters, Upd!CleanOldBackups(u) PROVE UpdRoomInv'
  <2>1. Len(updBackups') <= KeepBinaries
    BY <1>1, <1>3, SubSeqProperties DEF Upd!UpdateAssumption, Upd!CleanOldBackups, UpdIInv, UpdTypeInv
  <2>2. path' = "none"
    BY <1>3 DEF Upd!CleanOldBackups, UpdBinaries
  <2>3. \A v \in Upd!Updaters : v # u => at'[v] \notin {"clean", "place"}
    BY <1>1, <1>3 DEF Upd!CleanOldBackups, Upd!To
  <2>4. Len(updBackups') \in Nat
    <3>1. updBackups' \in Seq(UpdBackup)
      BY UpdInductive DEF UpdIInv, UpdTypeInv
    <3>. QED BY <3>1
  <2>. QED BY <1>1, <2>1, <2>2, <2>3, <2>4
<1>4. ASSUME NEW u \in Upd!Updaters, Upd!Place(u) PROVE UpdRoomInv'
  <2>1. updBackups' = updBackups /\ at[u] = "place" /\ \A v \in Upd!Updaters : UpdBetween(v) => v = u
    BY <1>4 DEF Upd!Place, Upd!files
  <2>2. at'[u] \notin {"clean", "place"} /\ \A v \in Upd!Updaters : v # u => at'[v] = at[v]
    BY <1>1, <1>4 DEF Upd!Place, Upd!To, Upd!End
  <2>3. \A v \in Upd!Updaters : at'[v] \notin {"clean", "place"}
    BY <2>1, <2>2
  <2>4. Len(updBackups') <= KeepBinaries /\ Len(updBackups') <= KeepBinaries + 1
    BY <1>1, <2>1
  <2>. QED BY <2>3, <2>4
<1>5. ASSUME NEW u \in Upd!Updaters, Upd!Check(u) \/ Upd!Download(u) \/ Upd!StartNew(u) PROVE UpdRoomInv'
  BY <1>1, <1>5 DEF Upd!Check, Upd!Download, Upd!StartNew, Upd!To, Upd!End, Upd!files
<1>6. CASE Upd!Reload \/ Upd!Exit \/ Upd!Start \/ UNCHANGED Upd!updateVars
  BY <1>1, <1>6 DEF Upd!Reload, Upd!Exit, Upd!Start, Upd!updateVars, Upd!files, Upd!Idle
<1>. QED BY <1>2, <1>3, <1>4, <1>5, <1>6 DEF Upd!Next, Upd!Step

LEMMA UpdTyped == UpdIInv /\ UpdRestInv /\ UpdRoomInv => Upd!TypeOK
<1>. SUFFICES ASSUME UpdIInv, UpdRestInv, UpdRoomInv PROVE Upd!TypeOK
  OBVIOUS
<1>1. \A n \in DOMAIN updBackups : updBackups[n] \in UpdBackup
  BY DEF UpdIInv, UpdTypeInv
<1>. QED BY <1>1 DEF UpdIInv, UpdTypeInv, UpdBackup, UpdStages, UpdRestInv, UpdBinaries, UpdRoomInv, Upd!TypeOK

LEMMA UpdInvariant == ASSUME Upd!UpdateAssumption PROVE Upd!UpdateSpec => [](UpdIInv /\ UpdRestInv /\ UpdRoomInv)
<1>1. Upd!Init => UpdIInv /\ UpdRestInv /\ UpdRoomInv
  BY UpdInitInv, UpdRestInitInv
<1>2. UpdIInv /\ UpdRestInv /\ UpdRoomInv /\ [Upd!Next]_(Upd!updateVars) => (UpdIInv /\ UpdRestInv /\ UpdRoomInv)'
  BY UpdInductive, UpdRestInductive, UpdRoomInductive
<1>. QED BY <1>1, <1>2, PTL DEF Upd!UpdateSpec

(* Wherever an update fails or the client is killed, a binary that starts  *)
(* is at the path or in a backup, for any number of backups that are kept  *)
(* and of downloads, unless that many that do not start were installed or  *)
(* one backup has overwritten another of the same second.                  *)
THEOREM BinaryIsKept == ASSUME Upd!UpdateAssumption PROVE Upd!UpdateSpec => []Upd!WholeCopy
<1>1. UpdIInv => Upd!WholeCopy
  BY DEF UpdIInv, UpdBackupInv, UpdFirstInv, UpdKept, Upd!WholeCopy
<1>. QED BY <1>1, UpdInvariant, PTL

(* A client of which this part moves is one of this part alone.            *)
LEMMA UpdOfParts == Spec => Upd!UpdateSpec
<1>1. Init => Upd!Init
  BY DEF Init
<1>2. [Next]_vars => [Upd!Next]_(Upd!updateVars)
  <2>1. Next => Upd!Next \/ UNCHANGED updateVars
    BY DEF Next, Request, Store, Update, CheckBackups, TellQueues, TellSessions, CoolDown, AskMany, RunCommand
  <2>2. UNCHANGED vars => UNCHANGED updateVars
    BY DEF vars
  <2>3. UNCHANGED updateVars => UNCHANGED Upd!updateVars
    BY DEF updateVars, Upd!updateVars, Upd!files
  <2>. QED BY <2>1, <2>2, <2>3
<1>. QED BY <1>1, <1>2, PTL DEF Spec, Upd!UpdateSpec

-----------------------------------------------------------------------------
(* Together: whatever a save or an update is cut short by, a whole copy of *)
(* the configuration file, and of the binary, is in its place or a backup, *)
(* but for the losses that ConfigIsKept and BinaryIsKept name.             *)
THEOREM ACopyIsWhole == Spec => []WholeCopy
<1>1. Cfg!WholeCopy /\ Upd!WholeCopy => WholeCopy
  BY DEF WholeCopy
<1>2. Cfg!StoreSpec => []Cfg!WholeCopy
  BY ConfigIsKept, PartsAssumption DEF PartsAssumption
<1>3. Upd!UpdateSpec => []Upd!WholeCopy
  BY BinaryIsKept, PartsAssumption DEF PartsAssumption
<1>. QED BY <1>1, <1>2, <1>3, CfgOfParts, UpdOfParts, PTL

(* A save that replaces the configuration file loses a change of another   *)
(* only in the time between that one's and the reload that takes it up, or *)
(* after a save through the tunnel was under way over a reload.            *)
THEOREM OnlyUnloadedIsLost == Spec => NoLossAfterReload
<1>1. Cfg!StoreAssumption
  BY PartsAssumption DEF PartsAssumption
<1>2. CfgIInv /\ [Cfg!Next]_(Cfg!storeVars) => [Cfg!LossIsBehind]_storeVars
  BY <1>1, CfgBehind
<1>3. Cfg!StoreSpec => []CfgIInv
  BY <1>1, CfgInvariant
<1>. QED BY <1>2, <1>3, CfgOfParts, PTL DEF Cfg!StoreSpec, NoLossAfterReload
=============================================================================
