---------------------------- MODULE StarrQueues ----------------------------
(***************************************************************************)
(* The queues of the Starr applications (src/pkg/triggers/starrqueue): one *)
(* action for each instance stores its queue in a cache, two others tell   *)
(* the website, from the cache, what downloads and what is stuck.  The     *)
(* trigger loop runs them one at a time (TriggerLoop).  The cache is kept  *)
(* when the client reloads, and its keys are the kind of application and   *)
(* the place of the instance in the configuration.                         *)
(***************************************************************************)
EXTENDS Integers, Sequences, FiniteSets, SequencesExt

CONSTANTS
  Instances,    \* [kind -> number of instances configured]
  Queues,       \* the queues an application may have, sequences of items
  Finished,     \* instance numbers the website wants downloads of
  Stuck,        \* those it wants stuck items of
  MaxPayload,   \* maxQueuePayloadSize
  MaxReloads    \* bound on the reloads

QueuesAssumption ==
  /\ {"lidarr", "radarr", "readarr", "sonarr"} \subseteq DOMAIN Instances
  /\ \A q \in Queues : \A n \in DOMAIN q : q[n].status \in {"downloading", "stuck", "waiting"}
  /\ MaxPayload \in Nat \ {0} /\ MaxReloads \in Nat

VARIABLES
  conf,      \* which application each place in the configuration is for
  cache,     \* the queue stored for each place, and the application it is from
  titles,    \* the titles stored for each place: which application each is from
  empty,     \* c.empty, an empty payload was sent
  site,      \* the downloads that the website knows of
  lost,      \* the last payload of downloads did not get there
  reloads,
  moved,     \* history: a reload moved an application to another place
  mixed      \* history: something was told of one application that is another's

queueVars == <<conf, cache, titles, empty, site, lost, reloads, moved, mixed>>

Kinds == DOMAIN Instances
Places == {<<k, i>> : k \in Kinds, i \in 1..2} \cap UNION {{k} \X (1..Instances[k]) : k \in Kinds}
Nothing == [from |-> 0, items |-> <<>>]
Media == UNION {{q[n].media : n \in DOMAIN q} : q \in Queues}

(* Applications of a kind are numbered; a configuration puts them in some order. *)
Orders == {c \in [Places -> 1..2] : \A p, q \in Places : p # q /\ p[1] = q[1] => c[p] # c[q]}

Init ==
  /\ conf = [p \in Places |-> p[2]]
  /\ cache = [p \in Places |-> Nothing]
  /\ titles = [p \in Places |-> [m \in Media |-> 0]]
  /\ empty = FALSE /\ site = "unknown" /\ lost = FALSE
  /\ reloads = 0 /\ moved = FALSE /\ mixed = FALSE

-----------------------------------------------------------------------------
(* storeQueue: a queue that cannot be read leaves the one that was stored before. *)
StoreQueue(p) ==
  /\ \E q \in Queues : cache' = [cache EXCEPT ![p] = [from |-> conf[p], items |-> q]]
  /\ UNCHANGED <<conf, titles, empty, site, lost, reloads, moved, mixed>>

(* rangeDownloadingItems: items without a download ID get their size for one, in the cache, as far as
   the items are looked at; of those with the same ID the first is told, and so many are told at most. *)
Look(seen, item) ==
  IF Len(seen.told) >= MaxPayload THEN [seen EXCEPT !.items = Append(@, item)]
  ELSE LET named == [item EXCEPT !.id = IF @ = "" THEN item.size ELSE @]
           tell == item.status = "downloading" /\ \A n \in DOMAIN seen.told : seen.told[n].id # named.id
       IN [items |-> Append(seen.items, named), told |-> IF tell THEN Append(seen.told, named) ELSE seen.told]
InDownload(items) == FoldLeft(Look, [items |-> <<>>, told |-> <<>>], items)

(* getDownloadingItems: for each place of the kind, what of its queue is told. *)
Downloading(kind) ==
  [p \in {q \in Places : q[1] = kind /\ q[2] \in Finished /\ cache[q] # Nothing} |-> InDownload(cache[p].items).told]
LidarrDownloading == Downloading("lidarr")
RadarrDownloading == Downloading("radarr")
ReadarrDownloading == Downloading("readarr")
SonarrDownloading == Downloading("sonarr")

(* getFinishedItems: what is neither downloading nor waiting, once for each download ID. *)
StuckItems(items) ==
  LET Once(told, item) == IF item.status = "stuck" /\ \A n \in DOMAIN told : told[n].id # item.id
                          THEN Append(told, item) ELSE told
  IN FoldLeft(Once, <<>>, items)
FinishedItems(kind) ==
  [p \in {q \in Places : q[1] = kind /\ q[2] \in Stuck /\ cache[q] # Nothing} |-> StuckItems(cache[p].items)]
LidarrFinished == FinishedItems("lidarr")
RadarrFinished == FinishedItems("radarr")
ReadarrFinished == FinishedItems("readarr")
SonarrFinished == FinishedItems("sonarr")

Empty(lists) == \A l \in lists : \A p \in DOMAIN l : l[p] = <<>>

(* The title of each item is asked for at the application that has the place now, unless one is stored for
   the place; an answer that does not come leaves it blank. *)
Titled(p, m, down) == IF titles[p][m] # 0 THEN titles[p][m] ELSE IF p \in down THEN 0 ELSE conf[p]
IsOf(m, items) == \E n \in DOMAIN items : items[n].media = m
IsOthers(p, items, down) ==
  items # <<>> /\ (cache[p].from # conf[p] \/ \E m \in Media : IsOf(m, items) /\ Titled(p, m, down) \notin {0, conf[p]})

(* Mutant: the flag stays when there are downloads again. *)
FlagStays(some) == empty \/ ~some

FlagAfter(some) == ~some

SendDownloading ==
  LET lists == {LidarrDownloading, RadarrDownloading, ReadarrDownloading, SonarrDownloading}
      some == ~Empty(lists)
      found == UNION {DOMAIN l : l \in lists}
      Told(p) == InDownload(cache[p].items).told IN
  \E down \in SUBSET found :
    /\ cache' = [p \in Places |-> IF p \in found THEN [cache[p] EXCEPT !.items = InDownload(@).items] ELSE cache[p]]
    /\ titles' = [p \in Places |->
                    IF p \notin found THEN titles[p]
                    ELSE [m \in Media |-> IF IsOf(m, Told(p)) THEN Titled(p, m, down) ELSE titles[p][m]]]
    /\ empty' = FlagAfter(some)
    /\ IF some \/ ~empty
       THEN \/ lost' = FALSE /\ site' = IF some THEN "some" ELSE "none"
            \/ lost' = TRUE /\ UNCHANGED site
       ELSE UNCHANGED <<site, lost>>
    /\ mixed' = (mixed \/ \E p \in found : IsOthers(p, Told(p), down))
    /\ UNCHANGED <<conf, reloads, moved>>

(* sendStuckQueues: nothing is told when nothing is stuck. *)
SendStuck ==
  LET lists == {LidarrFinished, RadarrFinished, ReadarrFinished, SonarrFinished} IN
  /\ ~Empty(lists)
  /\ mixed' = (mixed \/ \E l \in lists : \E p \in DOMAIN l : l[p] # <<>> /\ cache[p].from # conf[p])
  /\ UNCHANGED <<conf, cache, titles, empty, site, lost, reloads, moved>>

(* golift.io/cache prunes what was not read for an hour. *)
Prune(p) ==
  /\ cache[p] # Nothing
  /\ cache' = [cache EXCEPT ![p] = Nothing]
  /\ UNCHANGED <<conf, titles, empty, site, lost, reloads, moved, mixed>>

(* A reload makes the actions anew. *)
Reload ==
  /\ reloads < MaxReloads /\ reloads' = reloads + 1
  /\ conf' \in Orders
  /\ empty' = FALSE
  /\ moved' = (moved \/ conf' # conf)
  /\ UNCHANGED <<cache, titles, site, lost, mixed>>

Next == (\E p \in Places : StoreQueue(p) \/ Prune(p)) \/ SendDownloading \/ SendStuck \/ Reload

QueuesSpec == Init /\ [][Next]_queueVars

-----------------------------------------------------------------------------
TypeOK ==
  /\ conf \in Orders
  /\ \A p \in Places : cache[p].from \in 0..2 /\ \A m \in Media : titles[p][m] \in 0..2
  /\ {empty, lost, moved, mixed} \subseteq BOOLEAN /\ site \in {"unknown", "none", "some"} /\ reloads \in 0..MaxReloads

(* The client stays silent about empty queues only when the website knows that they are, or the payload that
   said so was lost; and it tells of an application what is that application's, as long as no reload moved
   it to a place where another's queue or titles are stored. *)
ReportsAreTrue ==
  /\ empty => site = "none" \/ lost
  /\ mixed => moved
=============================================================================
