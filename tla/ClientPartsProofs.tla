-------------------------- MODULE ClientPartsProofs --------------------------
(***************************************************************************)
(* Proof of what the client reports to the website, of queues, of backups and *)
(* of commands, and of the types of all parts.  The names of the invariants *)
(* begin as the definitions of their parts do in ClientParts.              *)
(***************************************************************************)
EXTENDS ClientPartsFilesProofs, ClientPartsAnswersProofs

-----------------------------------------------------------------------------
(* What is told of queues (StarrQueues).                                   *)
QueEntry(c) == c = [from |-> c.from, items |-> c.items] /\ c.from \in 0..2

QueTypeInv ==
  /\ conf \in Que!Orders
  /\ DOMAIN cache = Que!Places /\ \A p \in Que!Places : QueEntry(cache[p])
  /\ titles \in [Que!Places -> [Que!Media -> 0..2]]
  /\ empty \in BOOLEAN /\ lost \in BOOLEAN /\ moved \in BOOLEAN /\ mixed \in BOOLEAN
  /\ site \in {"unknown", "none", "some"} /\ reloads \in 0..MaxReloads

(* As long as no application was moved, what is stored for a place is of   *)
(* the application that has the place.                                     *)
QueOwnInv ==
  \/ moved
  \/ /\ ~mixed
     /\ \A p \in Que!Places : cache[p] = Que!Nothing \/ cache[p].from = conf[p]
     /\ \A p \in Que!Places, m \in Que!Media : titles[p][m] \in {0, conf[p]}

QueEmptyInv == empty => site = "none" \/ lost

QueIInv == QueTypeInv /\ QueOwnInv /\ QueEmptyInv

-----------------------------------------------------------------------------
LEMMA QueNothingIsEntry == QueEntry(Que!Nothing)
BY DEF QueEntry, Que!Nothing

LEMMA QueInitInv == ASSUME Que!QueuesAssumption, Que!Init PROVE QueIInv
<1>1. conf \in Que!Orders
  <2>1. \A p \in Que!Places : p[2] \in 1..2
    BY DEF Que!Places
  <2>2. \A p, q \in Que!Places : p # q /\ p[1] = q[1] => p[2] # q[2]
    BY DEF Que!Places
  <2>. QED BY <2>1, <2>2 DEF Que!Init, Que!Orders
<1>2. QueTypeInv
  <2>1. DOMAIN cache = Que!Places /\ \A p \in Que!Places : QueEntry(cache[p])
    BY QueNothingIsEntry DEF Que!Init
  <2>2. titles \in [Que!Places -> [Que!Media -> 0..2]]
    BY DEF Que!Init
  <2>3. reloads \in 0..MaxReloads
    BY DEF Que!QueuesAssumption, Que!Init
  <2>. QED BY <1>1, <2>1, <2>2, <2>3 DEF Que!Init, QueTypeInv
<1>. QED BY <1>2 DEF Que!Init, QueIInv, QueOwnInv, QueEmptyInv

LEMMA QueStoreQueueInv == ASSUME QueIInv, NEW p \in Que!Places, Que!StoreQueue(p) PROVE QueIInv'
<1>1. PICK q \in Queues : cache' = [cache EXCEPT ![p] = [from |-> conf[p], items |-> q]]
  BY DEF Que!StoreQueue
<1>2. conf[p] \in 0..2
  BY DEF QueIInv, QueTypeInv, Que!Orders
<1>3. cache'[p] = [from |-> conf[p], items |-> q] /\ \A o \in Que!Places : o # p => cache'[o] = cache[o]
  BY <1>1 DEF QueIInv, QueTypeInv
<1>4. QueEntry(cache'[p]) /\ cache'[p].from = conf[p]
  BY <1>2, <1>3 DEF QueEntry
<1>5. QueTypeInv'
  BY <1>1, <1>3, <1>4 DEF QueIInv, QueTypeInv, Que!StoreQueue
<1>6. QueOwnInv'
  BY <1>3, <1>4 DEF QueIInv, QueOwnInv, Que!StoreQueue
<1>. QED BY <1>5, <1>6 DEF QueIInv, QueEmptyInv, Que!StoreQueue

(* What is told is of the application that has the place, or the titles    *)
(* that are stored are not.                                                *)
LEMMA QueSendDownloadingInv == ASSUME QueIInv, Que!SendDownloading PROVE QueIInv'
<1>. DEFINE lists == {Que!LidarrDownloading, Que!RadarrDownloading, Que!ReadarrDownloading, Que!SonarrDownloading}
            some == ~Que!Empty(lists)
            found == UNION {DOMAIN l : l \in lists}
            Told(p) == Que!InDownload(cache[p].items).told
<1>1. PICK down \in SUBSET found :
        /\ cache' = [p \in Que!Places |-> IF p \in found THEN [cache[p] EXCEPT !.items = Que!InDownload(@).items] ELSE cache[p]]
        /\ titles' = [p \in Que!Places |->
                        IF p \notin found THEN titles[p]
                        ELSE [m \in Que!Media |-> IF Que!IsOf(m, Told(p)) THEN Que!Titled(p, m, down) ELSE titles[p][m]]]
        /\ empty' = ~some
        /\ IF some \/ ~empty
           THEN \/ lost' = FALSE /\ site' = IF some THEN "some" ELSE "none"
                \/ lost' = TRUE /\ UNCHANGED site
           ELSE UNCHANGED <<site, lost>>
        /\ mixed' = (mixed \/ \E p \in found : Que!IsOthers(p, Told(p), down))
        /\ UNCHANGED <<conf, reloads, moved>>
  BY DEF Que!SendDownloading, Que!FlagAfter
<1>2. \A p \in found : p \in Que!Places /\ cache[p] # Que!Nothing
  BY DEF Que!LidarrDownloading, Que!RadarrDownloading, Que!ReadarrDownloading, Que!SonarrDownloading, Que!Downloading
<1>. HIDE DEF found, Told, lists
<1>3. ASSUME NEW p \in Que!Places
      PROVE  QueEntry(cache'[p]) /\ cache'[p].from = cache[p].from /\ (cache[p] = Que!Nothing => cache'[p] = Que!Nothing)
  <2>1. QueEntry(cache[p])
    BY DEF QueIInv, QueTypeInv
  <2>2. CASE p \in found
    <3>1. cache'[p] = [cache[p] EXCEPT !.items = Que!InDownload(@).items]
      BY <1>1, <2>2
    <3>2. cache'[p].from = cache[p].from /\ cache'[p] = [from |-> cache'[p].from, items |-> cache'[p].items]
      BY <2>1, <3>1 DEF QueEntry
    <3>. QED BY <1>2, <2>1, <2>2, <3>2 DEF QueEntry
  <2>3. CASE p \notin found
    BY <1>1, <2>1, <2>3
  <2>. QED BY <2>2, <2>3
<1>4. ASSUME NEW p \in Que!Places, NEW m \in Que!Media
      PROVE  Que!Titled(p, m, down) \in 0..2 /\ (titles[p][m] \in {0, conf[p]} => Que!Titled(p, m, down) \in {0, conf[p]})
  <2>1. titles[p][m] \in 0..2 /\ conf[p] \in 0..2
    BY DEF QueIInv, QueTypeInv, Que!Orders
  <2>. QED BY <2>1 DEF Que!Titled
<1>5. ASSUME NEW p \in Que!Places, NEW m \in Que!Media
      PROVE  titles'[p][m] \in {titles[p][m], Que!Titled(p, m, down)}
  BY <1>1
<1>6. QueTypeInv'
  <2>1. titles' \in [Que!Places -> [Que!Media -> 0..2]]
    <3>1. \A p \in Que!Places : titles'[p] \in [Que!Media -> 0..2]
      BY <1>1, <1>4 DEF QueIInv, QueTypeInv
    <3>. QED BY <1>1, <3>1
  <2>2. DOMAIN cache' = Que!Places
    BY <1>1
  <2>3. /\ empty' \in BOOLEAN /\ lost' \in BOOLEAN /\ mixed' \in BOOLEAN
        /\ site' \in {"unknown", "none", "some"}
    BY <1>1 DEF QueIInv, QueTypeInv
  <2>. QED BY <1>1, <1>3, <2>1, <2>2, <2>3 DEF QueIInv, QueTypeInv
<1>7. ASSUME ~moved PROVE ~mixed'
  <2>1. ASSUME NEW p \in found, Que!IsOthers(p, Told(p), down) PROVE FALSE
    <3>1. p \in Que!Places /\ cache[p].from = conf[p]
      BY <1>2, <1>7 DEF QueIInv, QueOwnInv
    <3>2. PICK m \in Que!Media : Que!Titled(p, m, down) \notin {0, conf[p]}
      BY <2>1, <3>1 DEF Que!IsOthers
    <3>. QED BY <1>4, <1>7, <3>1, <3>2 DEF QueIInv, QueOwnInv
  <2>. QED BY <1>1, <1>7, <2>1 DEF QueIInv, QueOwnInv
<1>8. QueOwnInv'
  <2>1. CASE moved
    BY <1>1, <2>1 DEF QueOwnInv
  <2>2. CASE ~moved
    <3>1. \A p \in Que!Places : cache'[p] = Que!Nothing \/ cache'[p].from = conf[p]
      BY <1>3, <2>2 DEF QueIInv, QueOwnInv
    <3>2. \A p \in Que!Places, m \in Que!Media : titles'[p][m] \in {0, conf[p]}
      BY <1>4, <1>5, <2>2 DEF QueIInv, QueOwnInv
    <3>. QED BY <1>1, <1>7, <2>2, <3>1, <3>2 DEF QueOwnInv
  <2>. QED BY <2>1, <2>2
<1>9. QueEmptyInv'
  BY <1>1 DEF QueIInv, QueEmptyInv
<1>. QED BY <1>6, <1>8, <1>9 DEF QueIInv

LEMMA QueSendStuckInv == ASSUME QueIInv, Que!SendStuck PROVE QueIInv'
<1>. DEFINE lists == {Que!LidarrFinished, Que!RadarrFinished, Que!ReadarrFinished, Que!SonarrFinished}
<1>1. /\ mixed' = (mixed \/ \E l \in lists : \E p \in DOMAIN l : l[p] # <<>> /\ cache[p].from # conf[p])
      /\ UNCHANGED <<conf, cache, titles, empty, site, lost, reloads, moved>>
  BY DEF Que!SendStuck
<1>2. \A l \in lists : \A p \in DOMAIN l : p \in Que!Places /\ cache[p] # Que!Nothing
  BY DEF Que!LidarrFinished, Que!RadarrFinished, Que!ReadarrFinished, Que!SonarrFinished, Que!FinishedItems
<1>. HIDE DEF lists
<1>3. mixed' \in BOOLEAN /\ (~moved => ~mixed')
  BY <1>1, <1>2 DEF QueIInv, QueTypeInv, QueOwnInv
<1>. QED BY <1>1, <1>3 DEF QueIInv, QueTypeInv, QueOwnInv, QueEmptyInv, QueEntry

LEMMA QueInductive == ASSUME Que!QueuesAssumption PROVE QueIInv /\ [Que!Next]_(Que!queueVars) => QueIInv'
<1>. SUFFICES ASSUME QueIInv, [Que!Next]_(Que!queueVars) PROVE QueIInv'
  OBVIOUS
<1>1. ASSUME NEW p \in Que!Places, Que!StoreQueue(p) PROVE QueIInv'
  BY <1>1, QueStoreQueueInv
<1>2. ASSUME NEW p \in Que!Places, Que!Prune(p) PROVE QueIInv'
  <2>1. cache' = [cache EXCEPT ![p] = Que!Nothing] /\ UNCHANGED <<conf, titles, empty, site, lost, reloads, moved, mixed>>
    BY <1>2 DEF Que!Prune
  <2>2. DOMAIN cache' = Que!Places /\ \A q \in Que!Places : cache'[q] \in {cache[q], Que!Nothing}
    BY <2>1 DEF QueIInv, QueTypeInv
  <2>3. QueTypeInv'
    BY <2>1, <2>2, QueNothingIsEntry DEF QueIInv, QueTypeInv
  <2>4. QueOwnInv' /\ QueEmptyInv'
    BY <2>1, <2>2 DEF QueIInv, QueOwnInv, QueEmptyInv
  <2>. QED BY <2>3, <2>4 DEF QueIInv
<1>3. CASE Que!SendDownloading
  BY <1>3, QueSendDownloadingInv
<1>4. CASE Que!SendStuck
  BY <1>4, QueSendStuckInv
<1>5. CASE Que!Reload
  <2>1. reloads' \in 0..MaxReloads
    BY <1>5 DEF Que!QueuesAssumption, QueIInv, QueTypeInv, Que!Reload
  <2>4. moved' \in BOOLEAN /\ (~moved' => ~moved /\ conf' = conf)
    BY <1>5, Zenon DEF Que!Reload
  <2>2. QueTypeInv'
    BY <1>5, <2>1, <2>4 DEF QueIInv, QueTypeInv, Que!Reload
  <2>3. QueOwnInv' /\ QueEmptyInv'
    BY <1>5, <2>4 DEF QueIInv, QueOwnInv, QueEmptyInv, Que!Reload
  <2>. QED BY <2>2, <2>3 DEF QueIInv
<1>6. CASE UNCHANGED Que!queueVars
  BY <1>6 DEF Que!queueVars, QueIInv, QueTypeInv, QueOwnInv, QueEmptyInv
<1>. QED BY <1>1, <1>2, <1>3, <1>4, <1>5, <1>6 DEF Que!Next

LEMMA QueOwn == QueIInv => Que!TypeOK /\ Que!ReportsAreTrue
BY DEF QueIInv, QueTypeInv, QueOwnInv, QueEmptyInv, Que!TypeOK, Que!ReportsAreTrue, QueEntry

LEMMA QueInvariant == ASSUME Que!QueuesAssumption PROVE Que!QueuesSpec => []QueIInv
<1>1. Que!Init => QueIInv
  BY QueInitInv
<1>2. QueIInv /\ [Que!Next]_(Que!queueVars) => QueIInv'
  BY QueInductive
<1>. QED BY <1>1, <1>2, PTL DEF Que!QueuesSpec

(* The client is silent about empty queues only when the website knows or  *)
(* the payload was lost, and tells of an application what is its own as    *)
(* long as no reload moved it: for any queues and number of reloads.       *)
THEOREM QueuesAreOfTheirApplication == ASSUME Que!QueuesAssumption PROVE Que!QueuesSpec => []Que!ReportsAreTrue
<1>1. QueIInv => Que!ReportsAreTrue
  BY QueOwn
<1>. QED BY <1>1, QueInvariant, PTL

(* A client of which this part moves is one of this part alone.            *)
LEMMA QueOfParts == Spec => Que!QueuesSpec
<1>1. Init => Que!Init
  BY DEF Init
<1>2. [Next]_vars => [Que!Next]_(Que!queueVars)
  <2>1. Next => Que!Next \/ UNCHANGED queueVars
    BY DEF Next, Request, Store, Update, CheckBackups, TellQueues, TellSessions, CoolDown, AskMany, RunCommand
  <2>2. UNCHANGED vars => UNCHANGED queueVars
    BY DEF vars
  <2>3. UNCHANGED queueVars => UNCHANGED Que!queueVars
    BY DEF queueVars, Que!queueVars
  <2>. QED BY <2>1, <2>2, <2>3
<1>. QED BY <1>1, <1>2, PTL DEF Spec, Que!QueuesSpec

-----------------------------------------------------------------------------
(* What is told of backups (BackupChecks).                                 *)
ChkSettings == {Chk!Disabled, Chk!Unset} \cup 1..(MaxFiles + 1)

ChkTypeInv ==
  /\ enabled \subseteq Checked /\ newest \in [Checked -> 0..MaxFiles] /\ made \in [Checked -> 0..MaxFiles]
  /\ setting \in [Checked -> ChkSettings] /\ mark \in [Checked -> ChkSettings]
  /\ queued \in [Checked -> SUBSET Chk!Files] /\ told \in [Checked -> SUBSET Chk!Files] /\ here \in [Checked -> SUBSET Chk!Files]
  /\ twice \in BOOLEAN /\ chkLoads \in 1..MaxLoads

(* What the website may hand the client as checked it was told of, too.    *)
ChkToldInv ==
  \A p \in Checked :
    /\ told[p] \subseteq queued[p] /\ {setting[p]} \cap Chk!Files \subseteq told[p]
    /\ {mark[p]} \cap Chk!Files \subseteq told[p] \cup here[p]

(* The last file that was made is the mark, once it was reported and as    *)
(* long as it is there.                                                    *)
ChkTimed(p) ==
  /\ newest[p] <= made[p] /\ \A f \in here[p] : f <= made[p]
  /\ newest[p] = made[p] /\ made[p] \in here[p] => mark[p] \in {made[p], Chk!Disabled, Chk!Unset}
ChkTimedInv == ~twice /\ \A p \in Checked : ChkTimed(p)

ChkIInv == ChkTypeInv /\ ChkToldInv /\ ChkTimedInv

-----------------------------------------------------------------------------
LEMMA ChkMarksType ==
  ASSUME setting \in [Checked -> ChkSettings], NEW on, NEW info \in BOOLEAN
  PROVE  /\ Chk!Marks(on, info) \in [Checked -> ChkSettings]
         /\ \A p \in Checked : Chk!Marks(on, info)[p] \in {setting[p], Chk!Unset}
BY DEF Chk!Marks, ChkSettings

LEMMA ChkInitInv == ASSUME Chk!ChecksAssumption, Chk!Init PROVE ChkIInv
<1>1. {Chk!Disabled, Chk!Unset, MaxFiles + 1} \subseteq ChkSettings /\ {Chk!Disabled, Chk!Unset, MaxFiles + 1} \cap Chk!Files = {}
  BY DEF Chk!ChecksAssumption, ChkSettings, Chk!Disabled, Chk!Unset, Chk!Files
<1>2. setting \in [Checked -> ChkSettings] /\ \A p \in Checked : setting[p] \in {Chk!Disabled, Chk!Unset, MaxFiles + 1}
  BY <1>1 DEF Chk!Init
<1>3. mark \in [Checked -> ChkSettings] /\ \A p \in Checked : mark[p] \in {setting[p], Chk!Unset}
  BY <1>2, ChkMarksType DEF Chk!Init
<1>4. \A p \in Checked : newest[p] = 0 /\ made[p] = 0 /\ told[p] = {} /\ queued[p] = {} /\ here[p] = {}
  BY DEF Chk!Init
<1>5. ChkTypeInv
  <2>1. /\ newest \in [Checked -> 0..MaxFiles] /\ made \in [Checked -> 0..MaxFiles] /\ chkLoads \in 1..MaxLoads
        /\ queued \in [Checked -> SUBSET Chk!Files] /\ told \in [Checked -> SUBSET Chk!Files] /\ here \in [Checked -> SUBSET Chk!Files]
    BY DEF Chk!ChecksAssumption, Chk!Init
  <2>. QED BY <1>2, <1>3, <2>1 DEF Chk!Init, ChkTypeInv
<1>6. ChkToldInv
  BY <1>1, <1>2, <1>3, <1>4 DEF ChkToldInv
<1>7. ChkTimedInv
  BY <1>4 DEF Chk!Init, ChkTimedInv, ChkTimed
<1>. QED BY <1>5, <1>6, <1>7 DEF ChkIInv

(* One kind is checked: an instance keeps its mark, or it is the newest    *)
(* file, which was reported; what a timer reports is not its mark.         *)
LEMMA ChkSendCorruptionInv == ASSUME Chk!ChecksAssumption, ChkIInv, NEW kind, Chk!SendCorruption(kind) PROVE ChkIInv'
<1>1. PICK event \in Chk!Events, failed \in SUBSET {p \in Checked : p[1] = kind} :
        LET checked == {p \in Checked : p[1] = kind /\ p \notin failed /\ ~Chk!Skipped(p, event)} IN
        /\ mark' = [p \in Checked |-> IF p[1] = kind THEN Chk!MarkAfter(p, event, failed) ELSE mark[p]]
        /\ queued' = [p \in Checked |-> IF p \in checked THEN queued[p] \cup {newest[p]} ELSE queued[p]]
        /\ here' = [p \in Checked |-> IF p \in checked THEN here[p] \cup {newest[p]} ELSE here[p]]
        /\ twice' = (twice \/ (event = "cron" /\ \E p \in checked : newest[p] \in here[p] /\ newest[p] = made[p]))
        /\ UNCHANGED <<enabled, newest, made, setting, told, chkLoads>>
  BY DEF Chk!SendCorruption
<1>. DEFINE checked == {p \in Checked : p[1] = kind /\ p \notin failed /\ ~Chk!Skipped(p, event)}
<1>2. ASSUME NEW p \in Checked
      PROVE  /\ p \in checked => newest[p] \in Chk!Files /\ newest[p] # mark[p]
             /\ p \in checked /\ event = "cron" => mark[p] \notin {Chk!Disabled, Chk!Unset}
             /\ mark'[p] = mark[p] \/ (p \in checked /\ mark'[p] = newest[p])
             /\ p \in checked => mark'[p] \in {newest[p], Chk!Disabled, Chk!Unset}
  <2>1. newest[p] \in 0..MaxFiles
    BY DEF ChkIInv, ChkTypeInv
  <2>. QED BY <1>1, <2>1 DEF Chk!ChecksAssumption, Chk!Skipped, Chk!MarkAfter, Chk!Files
<1>. HIDE DEF checked
<1>3. ASSUME NEW p \in Checked
      PROVE  /\ queued'[p] = IF p \in checked THEN queued[p] \cup {newest[p]} ELSE queued[p]
             /\ here'[p] = IF p \in checked THEN here[p] \cup {newest[p]} ELSE here[p]
  BY <1>1 DEF checked
<1>4. ChkTypeInv'
  <2>1. queued' \in [Checked -> SUBSET Chk!Files] /\ here' \in [Checked -> SUBSET Chk!Files]
    <3>1. ASSUME NEW p \in Checked PROVE queued'[p] \in SUBSET Chk!Files /\ here'[p] \in SUBSET Chk!Files
      <4>1. queued[p] \in SUBSET Chk!Files /\ here[p] \in SUBSET Chk!Files /\ (p \in checked => newest[p] \in Chk!Files)
        BY <1>2 DEF ChkIInv, ChkTypeInv
      <4>. QED BY <1>3, <4>1
    <3>. QED BY <1>1, <3>1
  <2>2. mark' \in [Checked -> ChkSettings]
    <3>1. \A p \in Checked : newest[p] \in Chk!Files => newest[p] \in ChkSettings
      BY DEF Chk!ChecksAssumption, ChkSettings, Chk!Files
    <3>2. \A p \in Checked : mark'[p] \in ChkSettings
      BY <1>2, <3>1 DEF ChkIInv, ChkTypeInv
    <3>. QED BY <1>1, <3>2
  <2>3. twice' \in BOOLEAN
    BY <1>1
  <2>. QED BY <1>1, <2>1, <2>2, <2>3 DEF ChkIInv, ChkTypeInv
<1>5. ChkToldInv'
  <2>1. ASSUME NEW p \in Checked
        PROVE  /\ told'[p] \subseteq queued'[p] /\ {setting'[p]} \cap Chk!Files \subseteq told'[p]
               /\ {mark'[p]} \cap Chk!Files \subseteq told'[p] \cup here'[p]
    <3>1. /\ told[p] \subseteq queued[p] /\ {setting[p]} \cap Chk!Files \subseteq told[p]
          /\ {mark[p]} \cap Chk!Files \subseteq told[p] \cup here[p] /\ setting' = setting /\ told' = told
      BY <1>1 DEF ChkIInv, ChkToldInv
    <3>2. queued[p] \subseteq queued'[p] /\ here[p] \subseteq here'[p] /\ (p \in checked => newest[p] \in here'[p])
      BY <1>3
    <3>. QED BY <1>2, <3>1, <3>2
  <2>. QED BY <2>1 DEF ChkToldInv
<1>6. ~twice'
  <2>1. \A p \in checked : p \in Checked
    BY DEF checked
  <2>2. ASSUME event = "cron", NEW p \in checked, newest[p] \in here[p], newest[p] = made[p] PROVE FALSE
    BY <1>2, <2>1, <2>2 DEF ChkIInv, ChkTimedInv, ChkTimed
  <2>. QED BY <1>1, <2>2 DEF ChkIInv, ChkTimedInv, checked
<1>7. ASSUME NEW p \in Checked PROVE ChkTimed(p)'
  <2>1. newest' = newest /\ made' = made /\ newest[p] \in Nat /\ made[p] \in Nat /\ ChkTimed(p)
    BY <1>1 DEF ChkIInv, ChkTypeInv, ChkTimedInv
  <2>2. CASE p \in checked
    BY <1>2, <1>3, <2>1, <2>2 DEF ChkTimed
  <2>3. CASE p \notin checked
    BY <1>2, <1>3, <2>1, <2>3 DEF ChkTimed
  <2>. QED BY <2>2, <2>3
<1>. QED BY <1>4, <1>5, <1>6, <1>7 DEF ChkIInv, ChkTimedInv

LEMMA ChkInductive == ASSUME Chk!ChecksAssumption PROVE ChkIInv /\ [Chk!Next]_(Chk!checkVars) => ChkIInv'
<1>. SUFFICES ASSUME ChkIInv, [Chk!Next]_(Chk!checkVars) PROVE ChkIInv'
  OBVIOUS
<1>0. \A p \in Checked : newest[p] \in Nat /\ made[p] \in Nat /\ \A f \in here[p] : f \in Nat
  BY DEF ChkIInv, ChkTypeInv, Chk!Files
<1>1. ASSUME NEW p \in Checked, Chk!Backup(p) PROVE ChkIInv'
  <2>1. /\ newest' \in [Checked -> 0..MaxFiles] /\ made' \in [Checked -> 0..MaxFiles]
        /\ newest'[p] = made[p] + 1 /\ made'[p] = made[p] + 1
        /\ \A q \in Checked : q # p => newest'[q] = newest[q] /\ made'[q] = made[q]
    BY <1>1 DEF Chk!ChecksAssumption, Chk!Backup, ChkIInv, ChkTypeInv
  <2>2. ASSUME NEW q \in Checked PROVE ChkTimed(q)'
    <3>1. CASE q = p
      <4>1. made'[p] \notin here[p]
        BY <1>0, <2>1 DEF ChkIInv, ChkTimedInv, ChkTimed
      <4>. QED BY <1>0, <1>1, <2>1, <3>1, <4>1 DEF Chk!Backup, ChkIInv, ChkTimedInv, ChkTimed
    <3>2. CASE q # p
      BY <1>1, <2>1, <3>2 DEF Chk!Backup, ChkIInv, ChkTimedInv, ChkTimed
    <3>. QED BY <3>1, <3>2
  <2>. QED BY <1>1, <2>1, <2>2 DEF Chk!Backup, ChkIInv, ChkTypeInv, ChkToldInv, ChkTimedInv
<1>2. ASSUME NEW p \in Checked, Chk!Delete(p) PROVE ChkIInv'
  <2>1. PICK n \in 0..MaxFiles : n < newest[p] /\ newest' = [newest EXCEPT ![p] = n]
    BY <1>2 DEF Chk!Delete
  <2>2. /\ newest' \in [Checked -> 0..MaxFiles] /\ newest'[p] = n
        /\ \A q \in Checked : q # p => newest'[q] = newest[q]
    BY <2>1 DEF ChkIInv, ChkTypeInv
  <2>3. ASSUME NEW q \in Checked PROVE ChkTimed(q)'
    BY <1>0, <1>2, <2>1, <2>2 DEF Chk!Delete, ChkIInv, ChkTimedInv, ChkTimed
  <2>. QED BY <1>2, <2>2, <2>3 DEF Chk!Delete, ChkIInv, ChkTypeInv, ChkToldInv, ChkTimedInv
<1>3. ASSUME NEW p \in Checked, Chk!Arrives(p) PROVE ChkIInv'
  <2>1. PICK f \in queued[p] \ told[p] : told' = [told EXCEPT ![p] = @ \cup {f}]
    BY <1>3 DEF Chk!Arrives
  <2>2. f \in Chk!Files
    BY DEF ChkIInv, ChkTypeInv
  <2>3. told' \in [Checked -> SUBSET Chk!Files] /\ \A q \in Checked : told[q] \subseteq told'[q] /\ told'[q] \subseteq told[q] \cup {f}
    BY <2>1, <2>2 DEF ChkIInv, ChkTypeInv
  <2>4. \A q \in Checked : told'[q] \subseteq queued[q]
    BY <2>1 DEF ChkIInv, ChkTypeInv, ChkToldInv
  <2>. QED BY <1>3, <2>3, <2>4 DEF Chk!Arrives, ChkIInv, ChkTypeInv, ChkToldInv, ChkTimedInv, ChkTimed
<1>4. ASSUME NEW p \in Checked, Chk!Keeps(p) PROVE ChkIInv'
  <2>1. PICK f \in told[p] : setting' = [setting EXCEPT ![p] = f]
    BY <1>4 DEF Chk!Keeps
  <2>2. f \in ChkSettings
    BY DEF Chk!ChecksAssumption, ChkIInv, ChkTypeInv, ChkSettings, Chk!Files
  <2>. QED BY <1>4, <2>1, <2>2 DEF Chk!Keeps, ChkIInv, ChkTypeInv, ChkToldInv, ChkTimedInv, ChkTimed
<1>5. ASSUME NEW kind, Chk!SendCorruption(kind) PROVE ChkIInv'
  BY <1>5, ChkSendCorruptionInv
<1>6. CASE Chk!Reload
  <2>1. mark' \in [Checked -> ChkSettings] /\ \A p \in Checked : mark'[p] \in {setting[p], Chk!Unset}
    BY <1>6, ChkMarksType DEF Chk!Reload, ChkIInv, ChkTypeInv
  <2>2. Chk!Unset \notin Chk!Files
    BY DEF Chk!Unset, Chk!Files
  <2>3. chkLoads' \in 1..MaxLoads
    BY <1>6 DEF Chk!ChecksAssumption, Chk!Reload, ChkIInv, ChkTypeInv
  <2>4. \A p \in Checked : here'[p] = {}
    BY <1>6 DEF Chk!Reload
  <2>5. ChkTypeInv'
    BY <1>6, <2>1, <2>3 DEF Chk!Reload, ChkIInv, ChkTypeInv
  <2>6. ChkToldInv'
    BY <1>6, <2>1, <2>2 DEF Chk!Reload, ChkIInv, ChkToldInv
  <2>7. ChkTimedInv'
    BY <1>6, <2>4 DEF Chk!Reload, ChkIInv, ChkTimedInv, ChkTimed
  <2>. QED BY <2>5, <2>6, <2>7 DEF ChkIInv
<1>7. CASE UNCHANGED Chk!checkVars
  BY <1>7 DEF Chk!checkVars, ChkIInv, ChkTypeInv, ChkToldInv, ChkTimedInv, ChkTimed
<1>. QED BY <1>1, <1>2, <1>3, <1>4, <1>5, <1>6, <1>7 DEF Chk!Next

LEMMA ChkTold == ChkIInv => Chk!TypeOK /\ Chk!MarksAreTold
BY DEF ChkIInv, ChkTypeInv, ChkToldInv, ChkTimedInv, Chk!TypeOK, Chk!MarksAreTold, ChkSettings

LEMMA ChkInvariant == ASSUME Chk!ChecksAssumption PROVE Chk!ChecksSpec => []ChkIInv
<1>1. Chk!Init => ChkIInv
  BY ChkInitInv
<1>2. ChkIInv /\ [Chk!Next]_(Chk!checkVars) => ChkIInv'
  BY ChkInductive
<1>. QED BY <1>1, <1>2, PTL DEF Chk!ChecksSpec

(* A backup counts as checked only when its result reached the website, or *)
(* was put into the queue for it under the configuration that runs; and    *)
(* the timer reports none twice under it but one that is the newest again: *)
(* for any number of backups that are made and deleted, of instances and   *)
(* of configurations, and whatever results are late or lost.               *)
THEOREM MarksAreOfToldFiles == ASSUME Chk!ChecksAssumption PROVE Chk!ChecksSpec => []Chk!MarksAreTold
<1>1. ChkIInv => Chk!MarksAreTold
  BY ChkTold
<1>. QED BY <1>1, ChkInvariant, PTL

(* A client of which this part moves is one of this part alone.            *)
LEMMA ChkOfParts == Spec => Chk!ChecksSpec
<1>1. Init => Chk!Init
  BY DEF Init
<1>2. [Next]_vars => [Chk!Next]_(Chk!checkVars)
  <2>1. Next => Chk!Next \/ UNCHANGED checkVars
    BY DEF Next, Request, Store, Update, CheckBackups, TellQueues, TellSessions, CoolDown, AskMany, RunCommand
  <2>2. UNCHANGED vars => UNCHANGED checkVars
    BY DEF vars
  <2>3. UNCHANGED checkVars => UNCHANGED Chk!checkVars
    BY DEF checkVars, Chk!checkVars
  <2>. QED BY <2>1, <2>2, <2>3
<1>. QED BY <1>1, <1>2, PTL DEF Spec, Chk!ChecksSpec

-----------------------------------------------------------------------------
(* What is told of commands (Commands).                                    *)
ComRuns == 0..MaxRuns
ComStatsType == [runs : ComRuns, fails : ComRuns, output : ComRuns, args : ComRuns]
ComLine == [{1, 2} -> ComRuns]
ComPageType == [at : {"closed", "first", "second", "shown"}, stats : ComStatsType, line : ComLine, crossed : BOOLEAN]

ComTypeInv ==
  /\ cmdAt \in {"idle", "args", "line", "exec", "ended", "log"} /\ id \in ComRuns
  /\ broken \in BOOLEAN /\ failing \in BOOLEAN
  /\ stats \in ComStatsType /\ line \in ComLine /\ lineless \subseteq 1..id
  /\ page \in [Viewers -> ComPageType]

ComLineIsOf(l, n) == l[1] = n /\ l[2] = n

(* Between two runs all that is kept is of the last one, except that its   *)
(* command line is not there when it had none.                             *)
ComRunInv ==
  /\ broken => id = 0 /\ cmdAt = "idle"
  /\ cmdAt # "idle" => id > 0
  /\ stats.fails <= stats.runs /\ stats.runs <= id
  /\ cmdAt \in {"args", "line", "exec", "ended"} => stats.runs < id
  /\ cmdAt = "log" => stats.fails < stats.runs /\ stats.output = id
  /\ cmdAt # "log" => stats.output = stats.args
  /\ cmdAt = "idle" => stats.output = id
  /\ cmdAt = "line" => line[1] = id
  /\ cmdAt = "exec" => ComLineIsOf(line, id)
  /\ cmdAt \in {"idle", "ended", "log"} => ComLineIsOf(line, id) \/ id \in lineless

(* While a page reads and no run crosses it, nothing runs, and what it has *)
(* read is what is there.                                                  *)
ComPageInv(p) ==
  /\ page[p].stats.output = page[p].stats.args /\ page[p].stats.fails <= page[p].stats.runs
  /\ Com!Reading(p) /\ ~page[p].crossed => cmdAt = "idle" /\ page[p].stats = stats
  /\ page[p].at = "second" /\ ~page[p].crossed => page[p].line[1] = line[1]
  /\ page[p].at = "shown" /\ ~page[p].crossed =>
       ComLineIsOf(page[p].line, page[p].stats.output) \/ page[p].stats.output \in lineless

ComIInv == ComTypeInv /\ ComRunInv /\ \A p \in Viewers : ComPageInv(p)

-----------------------------------------------------------------------------
LEMMA ComInitInv == ASSUME Com!CommandsAssumption, Com!Init PROVE ComIInv
<1>1. Com!None \in ComStatsType /\ <<0, 0>> \in ComLine
  BY DEF Com!CommandsAssumption, Com!None, ComStatsType, ComLine, ComRuns
<1>2. Com!Closed \in ComPageType
  BY <1>1 DEF Com!Closed, ComPageType
<1>3. ComTypeInv
  <2>1. page \in [Viewers -> ComPageType]
    BY <1>2 DEF Com!Init
  <2>2. id \in ComRuns /\ lineless \subseteq 1..id
    BY DEF Com!CommandsAssumption, Com!Init, ComRuns
  <2>. QED BY <1>1, <2>1, <2>2 DEF Com!Init, ComTypeInv
<1>4. ComRunInv
  BY DEF Com!Init, ComRunInv, Com!None, ComLineIsOf
<1>5. ASSUME NEW p \in Viewers PROVE ComPageInv(p)
  <2>1. page[p].at = "closed" /\ page[p].stats = Com!None
    BY DEF Com!Init, Com!Closed
  <2>. QED BY <2>1 DEF ComPageInv, Com!Reading, Com!None
<1>. QED BY <1>3, <1>4, <1>5 DEF ComIInv

(* A step of the run, in which no page reads uncrossed.                    *)
LEMMA ComRunNowInv == ASSUME Com!CommandsAssumption, ComIInv, Com!RunNow PROVE ComIInv'
<1>1. \A p \in Viewers : page'[p] \in ComPageType /\ page'[p] = [page[p] EXCEPT !.crossed = @ \/ Com!Reading(p)]
  BY DEF ComIInv, ComTypeInv, Com!RunNow, ComPageType, Com!Reading
<1>2. ComTypeInv'
  <2>1. page' \in [Viewers -> ComPageType]
    BY <1>1 DEF Com!RunNow
  <2>2. id' \in ComRuns /\ lineless' \subseteq 1..id'
    BY DEF Com!CommandsAssumption, ComIInv, ComTypeInv, Com!RunNow, ComRuns
  <2>. QED BY <2>1, <2>2 DEF ComIInv, ComTypeInv, Com!RunNow, Com!To
<1>4. ComRunInv'
  BY DEF Com!CommandsAssumption, ComIInv, ComTypeInv, ComRunInv, Com!RunNow, Com!To, ComRuns, ComStatsType
<1>3. ASSUME NEW p \in Viewers PROVE ComPageInv(p)'
  <2>1. page[p] \in ComPageType /\ ComPageInv(p)
    BY DEF ComIInv, ComTypeInv
  <2>2. /\ page'[p].at = page[p].at /\ page'[p].stats = page[p].stats /\ page'[p].line = page[p].line
        /\ page'[p].crossed = (page[p].crossed \/ Com!Reading(p))
    BY <1>1, <2>1 DEF ComPageType
  <2>3. UNCHANGED <<stats, line, lineless>>
    BY DEF Com!RunNow
  <2>4. Com!Reading(p)' = Com!Reading(p) /\ (Com!Reading(p) => page'[p].crossed)
    BY <2>2 DEF Com!Reading
  <2>. QED BY <2>1, <2>2, <2>3, <2>4 DEF ComPageInv, Com!Reading
<1>. QED BY <1>2, <1>3, <1>4 DEF ComIInv

LEMMA ComRunStepInv ==
  ASSUME Com!CommandsAssumption, ComIInv, Com!NotRun \/ Com!GetCmd \/ Com!NoteLine \/ Com!Exec \/ Com!LogOutput \/ Com!LogFailed
  PROVE  ComIInv'
<1>1. ComTypeInv'
  <2>1. CASE Com!NotRun
    BY <2>1 DEF Com!CommandsAssumption, ComIInv, ComTypeInv, Com!NotRun, ComStatsType, ComRuns
  <2>2. CASE Com!GetCmd
    BY <2>2 DEF ComIInv, ComTypeInv, ComRunInv, Com!GetCmd, Com!To, ComRuns
  <2>3. CASE Com!NoteLine
    BY <2>3 DEF ComIInv, ComTypeInv, Com!NoteLine, Com!To, ComLine
  <2>4. CASE Com!Exec
    BY <2>4 DEF ComIInv, ComTypeInv, Com!Exec, Com!To
  <2>5. CASE Com!LogOutput
    <3>1. stats.runs + 1 \in ComRuns /\ id \in ComRuns /\ stats \in ComStatsType
      BY <2>5 DEF Com!CommandsAssumption, ComIInv, ComTypeInv, ComRunInv, Com!LogOutput, Com!To, ComStatsType, ComRuns
    <3>2. stats' \in ComStatsType
      BY <2>5, <3>1 DEF Com!LogOutput, ComStatsType
    <3>. QED BY <2>5, <3>2 DEF ComIInv, ComTypeInv, Com!LogOutput, Com!To
  <2>6. CASE Com!LogFailed
    <3>. DEFINE fails == IF failing THEN stats.fails + 1 ELSE stats.fails
    <3>1. fails \in ComRuns /\ id \in ComRuns /\ stats \in ComStatsType
      BY <2>6 DEF Com!CommandsAssumption, ComIInv, ComTypeInv, ComRunInv, Com!LogFailed, Com!To, ComStatsType, ComRuns
    <3>2. stats' = [stats EXCEPT !.args = id, !.fails = fails]
      BY <2>6 DEF Com!LogFailed
    <3>. HIDE DEF fails
    <3>3. stats' \in ComStatsType
      BY <3>1, <3>2 DEF ComStatsType
    <3>. QED BY <2>6, <3>3 DEF ComIInv, ComTypeInv, Com!LogFailed, Com!To
  <2>. QED BY <2>1, <2>2, <2>3, <2>4, <2>5, <2>6
<1>2. ComRunInv'
  <2>. USE DEF ComIInv, ComTypeInv, ComRunInv, Com!To, ComLineIsOf, ComStatsType, ComLine, ComRuns
  <2>1. CASE Com!NotRun
    BY <2>1 DEF Com!NotRun
  <2>2. CASE Com!GetCmd
    BY <2>2 DEF Com!GetCmd
  <2>3. CASE Com!NoteLine
    BY <2>3 DEF Com!NoteLine
  <2>4. CASE Com!Exec
    BY <2>4 DEF Com!Exec
  <2>5. CASE Com!LogOutput
    BY <2>5 DEF Com!LogOutput
  <2>6. CASE Com!LogFailed
    BY <2>6 DEF Com!LogFailed
  <2>. QED BY <2>1, <2>2, <2>3, <2>4, <2>5, <2>6
<1>3. ASSUME NEW p \in Viewers PROVE ComPageInv(p)'
  <2>1. ComPageInv(p) /\ page' = page /\ lineless \subseteq lineless'
    BY DEF ComIInv, Com!NotRun, Com!GetCmd, Com!NoteLine, Com!Exec, Com!LogOutput, Com!LogFailed
  <2>2. Com!Reading(p) => page[p].crossed
    BY <2>1 DEF ComPageInv, Com!Writable, Com!To, Com!NotRun, Com!GetCmd, Com!NoteLine, Com!Exec, Com!LogOutput,
       Com!LogFailed
  <2>. QED BY <2>1, <2>2 DEF ComPageInv, Com!Reading
<1>. QED BY <1>1, <1>2, <1>3 DEF ComIInv

(* What a page does is seen by nobody else.                                *)
LEMMA ComPageStepInv ==
  ASSUME ComIInv, NEW p \in Viewers, NEW new \in ComPageType, page' = [page EXCEPT ![p] = new],
         UNCHANGED <<broken, cmdAt, id, failing, stats, line, lineless>>, ComPageInv(p)'
  PROVE  ComIInv'
<1>1. ComTypeInv'
  BY DEF ComIInv, ComTypeInv
<1>2. ComRunInv'
  BY DEF ComIInv, ComRunInv
<1>3. ASSUME NEW q \in Viewers PROVE ComPageInv(q)'
  <2>1. CASE q = p
    BY <2>1
  <2>2. CASE q # p
    <3>1. page'[q] = page[q]
      BY <2>2 DEF ComIInv, ComTypeInv
    <3>. QED BY <3>1 DEF ComIInv, ComPageInv, Com!Reading
  <2>. QED BY <2>1, <2>2
<1>. QED BY <1>1, <1>2, <1>3 DEF ComIInv

LEMMA ComStatsInv == ASSUME Com!CommandsAssumption, ComIInv, NEW p \in Viewers, Com!Stats(p) PROVE ComIInv'
<1>. DEFINE new == [Com!Closed EXCEPT !.at = "first", !.stats = stats, !.crossed = Com!Underway]
<1>1. stats \in ComStatsType /\ <<0, 0>> \in ComLine
  BY DEF Com!CommandsAssumption, ComIInv, ComTypeInv, ComLine, ComRuns
<1>2. new.at = "first" /\ new.stats = stats /\ new.line = <<0, 0>> /\ new.crossed = Com!Underway
  BY DEF Com!Closed
<1>3. new \in ComPageType
  BY <1>1 DEF Com!Closed, ComPageType, Com!Underway
<1>4. page'[p] = new
  BY DEF ComIInv, ComTypeInv, Com!Stats, Com!Begins
<1>5. ComPageInv(p)'
  BY <1>2, <1>4 DEF ComIInv, ComTypeInv, ComRunInv, ComPageInv, Com!Reading, Com!Underway, Com!Stats, Com!Readable,
     Com!Begins
<1>. QED BY <1>3, <1>5, ComPageStepInv DEF Com!Stats, Com!Begins

LEMMA ComReadLineInv == ASSUME ComIInv, NEW p \in Viewers, Com!ReadLine(p) PROVE ComIInv'
<1>1. page[p] \in ComPageType /\ ComPageInv(p) /\ line \in ComLine /\ ComRunInv
  BY DEF ComIInv, ComTypeInv
<1>2. CASE page[p].at = "first" /\ page' = [page EXCEPT ![p].at = "second", ![p].line[1] = line[1]]
  <2>. DEFINE new == [page[p] EXCEPT !.at = "second", !.line[1] = line[1]]
  <2>1. page' = [page EXCEPT ![p] = new]
    BY <1>2
  <2>2. new \in ComPageType
    BY <1>1 DEF ComPageType, ComLine
  <2>3. /\ new.at = "second" /\ new.stats = page[p].stats /\ new.crossed = page[p].crossed
        /\ new.line[1] = line[1]
    BY <1>1 DEF ComPageType, ComLine
  <2>. HIDE DEF new
  <2>4. page'[p] = new
    BY <2>1 DEF ComIInv, ComTypeInv
  <2>5. ComPageInv(p)'
    BY <1>1, <1>2, <2>3, <2>4 DEF ComPageInv, Com!Reading, Com!ReadLine
  <2>. QED BY <2>1, <2>2, <2>5, ComPageStepInv DEF Com!ReadLine
<1>3. CASE page[p].at = "second" /\ page' = [page EXCEPT ![p].at = "shown", ![p].line[2] = line[2]]
  <2>. DEFINE new == [page[p] EXCEPT !.at = "shown", !.line[2] = line[2]]
  <2>1. page' = [page EXCEPT ![p] = new]
    BY <1>3
  <2>2. new \in ComPageType
    BY <1>1 DEF ComPageType, ComLine
  <2>3. /\ new.at = "shown" /\ new.stats = page[p].stats /\ new.crossed = page[p].crossed
        /\ new.line[1] = page[p].line[1] /\ new.line[2] = line[2]
    BY <1>1 DEF ComPageType, ComLine
  <2>. HIDE DEF new
  <2>4. page'[p] = new
    BY <2>1 DEF ComIInv, ComTypeInv
  <2>5. ASSUME ~page[p].crossed
        PROVE  ComLineIsOf(new.line, new.stats.output) \/ new.stats.output \in lineless
    <3>1. page[p].stats = stats /\ new.line[1] = line[1] /\ stats.output = id /\ cmdAt = "idle"
      BY <1>1, <1>3, <2>3, <2>5 DEF ComRunInv, ComPageInv, Com!Reading
    <3>. QED BY <1>1, <2>3, <3>1 DEF ComRunInv, ComLineIsOf
  <2>6. ComPageInv(p)'
    <3>1. lineless' = lineless
      BY DEF Com!ReadLine
    <3>. QED BY <1>1, <2>3, <2>4, <2>5, <3>1 DEF ComPageInv, Com!Reading
  <2>. QED BY <2>1, <2>2, <2>6, ComPageStepInv DEF Com!ReadLine
<1>. QED BY <1>2, <1>3 DEF Com!ReadLine

LEMMA ComCloseInv == ASSUME Com!CommandsAssumption, ComIInv, NEW p \in Viewers, Com!Close(p) PROVE ComIInv'
<1>1. Com!Closed \in ComPageType
  BY DEF Com!CommandsAssumption, Com!Closed, Com!None, ComPageType, ComStatsType, ComLine, ComRuns
<1>2. page'[p] = Com!Closed
  BY DEF ComIInv, ComTypeInv, Com!Close
<1>3. ComPageInv(p)'
  BY <1>2 DEF ComPageInv, Com!Reading, Com!Closed, Com!None
<1>. QED BY <1>1, <1>3, ComPageStepInv DEF Com!Close

LEMMA ComInductive == ASSUME Com!CommandsAssumption PROVE ComIInv /\ [Com!Next]_(Com!commandVars) => ComIInv'
<1>. SUFFICES ASSUME ComIInv, [Com!Next]_(Com!commandVars) PROVE ComIInv'
  OBVIOUS
<1>1. CASE UNCHANGED Com!commandVars
  BY <1>1 DEF Com!commandVars, ComIInv, ComTypeInv, ComRunInv, ComPageInv, Com!Reading
<1>. QED BY <1>1, ComRunNowInv, ComRunStepInv, ComStatsInv, ComReadLineInv, ComCloseInv DEF Com!Next

LEMMA ComOfOneRun == ASSUME Com!CommandsAssumption PROVE ComIInv => Com!TypeOK /\ Com!StatsAreOfOneRun
<1>. SUFFICES ASSUME ComIInv PROVE Com!TypeOK /\ Com!StatsAreOfOneRun
  OBVIOUS
<1>1. Com!TypeOK
  BY DEF Com!CommandsAssumption, ComIInv, ComTypeInv, Com!TypeOK, ComStatsType, ComLine, ComRuns, ComPageType
<1>2. ASSUME NEW p \in Viewers, ComLineIsOf(page[p].line, page[p].stats.output)
      PROVE  page[p].line = <<page[p].stats.output, page[p].stats.output>>
  <2>1. page[p].line \in ComLine /\ DOMAIN page[p].line = 1..2
    BY DEF ComIInv, ComTypeInv, ComPageType, ComLine
  <2>. QED BY <1>2, <2>1 DEF ComLineIsOf, ComLine
<1>3. Com!StatsAreOfOneRun
  BY <1>2 DEF ComIInv, ComPageInv, Com!StatsAreOfOneRun
<1>. QED BY <1>1, <1>3

LEMMA ComInvariant == ASSUME Com!CommandsAssumption PROVE Com!CommandsSpec => []ComIInv
<1>1. Com!Init => ComIInv
  BY ComInitInv
<1>2. ComIInv /\ [Com!Next]_(Com!commandVars) => ComIInv'
  BY ComInductive
<1>. QED BY <1>1, <1>2, PTL DEF Com!CommandsSpec

(* What a page shows of a command is of one run, but for a command line    *)
(* that was read while another run was under way, or that a run without one *)
(* left of another: for any number of runs and any set of pages.           *)
THEOREM StatsAreOfLastRun == ASSUME Com!CommandsAssumption PROVE Com!CommandsSpec => []Com!StatsAreOfOneRun
<1>1. ComIInv => Com!StatsAreOfOneRun
  BY ComOfOneRun
<1>. QED BY <1>1, ComInvariant, PTL

(* A client of which this part moves is one of this part alone.            *)
LEMMA ComOfParts == Spec => Com!CommandsSpec
<1>1. Init => Com!Init
  BY DEF Init
<1>2. [Next]_vars => [Com!Next]_(Com!commandVars)
  <2>1. Next => Com!Next \/ UNCHANGED commandVars
    BY DEF Next, Request, Store, Update, CheckBackups, TellQueues, TellSessions, CoolDown, AskMany, RunCommand
  <2>2. UNCHANGED vars => UNCHANGED commandVars
    BY DEF vars
  <2>3. UNCHANGED commandVars => UNCHANGED Com!commandVars
    BY DEF commandVars, Com!commandVars
  <2>. QED BY <2>1, <2>2, <2>3
<1>. QED BY <1>1, <1>2, PTL DEF Spec, Com!CommandsSpec

-----------------------------------------------------------------------------
(* Together: the client is silent only about what the website was told, or *)
(* was lost on the way there, and tells of each application and each run   *)
(* what is its own.                                                        *)
THEOREM EveryReportIsTrue == Spec => []ReportsAreTrue
<1>1. Que!ReportsAreTrue /\ Chk!MarksAreTold /\ Com!StatsAreOfOneRun => ReportsAreTrue
  BY DEF ReportsAreTrue
<1>2. Que!QueuesSpec => []Que!ReportsAreTrue
  BY QueuesAreOfTheirApplication, PartsAssumption DEF PartsAssumption
<1>3. Chk!ChecksSpec => []Chk!MarksAreTold
  BY MarksAreOfToldFiles, PartsAssumption DEF PartsAssumption
<1>4. Com!CommandsSpec => []Com!StatsAreOfOneRun
  BY StatsAreOfLastRun, PartsAssumption DEF PartsAssumption
<1>. QED BY <1>1, <1>2, <1>3, <1>4, QueOfParts, ChkOfParts, ComOfParts, PTL

(* Together: every part is in a state that its module knows, none of the   *)
(* bounded tables, channels and lists over its bound.                      *)
THEOREM PartsTypeCorrect == Spec => []TypeOK
<1>. DEFINE Inv1 == CfgIInv /\ UpdIInv /\ UpdRestInv /\ UpdRoomInv /\ ApiIInv /\ FanIInv
            Inv2 == CoolIInv /\ PlexIInv /\ QueIInv /\ ChkIInv /\ ComIInv
<1>1. /\ Api!RequestsAssumption /\ Cfg!StoreAssumption /\ Upd!UpdateAssumption /\ Chk!ChecksAssumption
      /\ Que!QueuesAssumption /\ Plex!SessionsAssumption /\ Cool!CooldownAssumption
      /\ Fan!FanAssumption /\ Com!CommandsAssumption
  BY PartsAssumption DEF PartsAssumption
<1>2. Inv1 => Cfg!TypeOK /\ Upd!TypeOK /\ Api!TypeOK /\ Fan!TypeOK
  BY <1>1, CfgCopies, UpdTyped, ApiTrue, FanWhole
<1>3. Inv2 => Cool!TypeOK /\ Plex!TypeOK /\ Que!TypeOK /\ Chk!TypeOK /\ Com!TypeOK
  BY <1>1, CoolTyped, PlexOnce, QueOwn, ChkTold, ComOfOneRun
<1>4. Inv1 /\ Inv2 => TypeOK
  BY <1>2, <1>3 DEF TypeOK
<1>5. Spec => []Inv1
  <2>1. /\ Cfg!StoreSpec => []CfgIInv
        /\ Upd!UpdateSpec => [](UpdIInv /\ UpdRestInv /\ UpdRoomInv)
        /\ Api!ApiSpec => []ApiIInv
        /\ Fan!FanSpec => []FanIInv
    BY <1>1, CfgInvariant, UpdInvariant, ApiInvariant, FanInvariant
  <2>. QED BY <2>1, CfgOfParts, UpdOfParts, ApiOfParts, FanOfParts, PTL
<1>6. Spec => []Inv2
  <2>1. /\ Cool!CooldownSpec => []CoolIInv
        /\ Plex!PlexSpec => []PlexIInv
        /\ Que!QueuesSpec => []QueIInv
        /\ Chk!ChecksSpec => []ChkIInv
        /\ Com!CommandsSpec => []ComIInv
    BY <1>1, CoolInvariant, PlexInvariant, QueInvariant, ChkInvariant, ComInvariant
  <2>. QED BY <2>1, CoolOfParts, PlexOfParts, QueOfParts, ChkOfParts, ComOfParts, PTL
<1>. QED BY <1>4, <1>5, <1>6, PTL
=============================================================================
