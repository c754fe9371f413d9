---------------------------- MODULE PlexSessions ---------------------------
(***************************************************************************)
(* The sessions of the Plex server (src/pkg/triggers/plexcron).  The       *)
(* trigger loop asks for them every minute, a webhook asks for them in a   *)
(* goroutine of its own, and all compare what they get with the list that  *)
(* was stored before, to tell the website of sessions that are new.  The   *)
(* store outlives a reload; the lock and the finished sessions that were   *)
(* told do not, and a webhook keeps those of the configuration it came to. *)
(***************************************************************************)
EXTENDS Integers, FiniteSets

CONSTANTS
  Sessions,    \* sessions that people start on the Plex server
  Hooks,       \* webhooks that ask for the sessions
  MaxLoads     \* bound on the configurations that are loaded

SessionsAssumption == MaxLoads \in Nat \ {0} /\ "loop" \notin Hooks /\ "none" \notin Hooks

VARIABLES
  plex,      \* what the Plex server knows of each session
  stored,    \* the list that was stored last, under plexCurrentSessions
  age,       \* of that list: 0 within a second, 1 within a minute, 2 older
  loads,     \* configurations that were loaded
  asker,     \* each that asks: where it is, for what, of which configuration
  lock,      \* the lock of each configuration: who asks Plex
  sent,      \* the finished sessions that each has told
  played,    \* how often the website was told that a session plays
  finished,  \* and that it is finished
  crossed    \* history: two configurations asked Plex at the same time

plexVars == <<plex, stored, age, loads, asker, lock, sent, played, finished, crossed>>

Askers == {"loop"} \cup Hooks
Loads == 1..MaxLoads
NoOne == "none"
Nobody == [s \in Sessions |-> "absent"]
Never == [known |-> FALSE, list |-> Nobody]
Idle == [at |-> "idle", job |-> "none", of |-> 1, before |-> Never, got |-> Nobody]

Init ==
  /\ plex = Nobody /\ stored = Never /\ age = 2
  /\ loads = 1 /\ lock = [n \in Loads |-> NoOne] /\ sent = [n \in Loads |-> {}]
  /\ asker = [a \in Askers |-> Idle]
  /\ played = [s \in Sessions |-> 0] /\ finished = [s \in Sessions |-> 0]
  /\ crossed = FALSE

-----------------------------------------------------------------------------
(* External: people start, pause and end sessions; "done" plays beyond the part that makes it finished. *)
Watch(s) ==
  /\ \E next \in (CASE plex[s] = "absent" -> {"playing", "paused"}
                    [] plex[s] = "playing" -> {"paused", "done", "gone"}
                    [] plex[s] = "paused" -> {"playing", "gone"}
                    [] plex[s] = "done" -> {"gone"}
                    [] OTHER -> {}) : plex' = [plex EXCEPT ![s] = next]
  /\ UNCHANGED <<stored, age, loads, asker, lock, sent, played, finished, crossed>>

Older == age < 2 /\ age' = age + 1 /\ UNCHANGED <<plex, stored, loads, asker, lock, sent, played, finished, crossed>>

(* The loop: checkForFinishedItems wants the sessions of this second, sendPlexSessions and the dashboard take
   those of this minute. *)
LoopAsks ==
  /\ asker["loop"].at = "idle"
  /\ \E job \in {"check", "report"} : asker' = [asker EXCEPT !["loop"] = [Idle EXCEPT !.at = "ask", !.job = job, !.of = loads]]
  /\ UNCHANGED <<plex, stored, age, loads, lock, sent, played, finished, crossed>>

(* SendWebhook: a goroutine that waits a while and then asks. *)
SendWebhook(h) ==
  /\ asker[h].at = "idle"
  /\ asker' = [asker EXCEPT ![h] = [Idle EXCEPT !.at = "ask", !.job = "hook", !.of = loads]]
  /\ UNCHANGED <<plex, stored, age, loads, lock, sent, played, finished, crossed>>

-----------------------------------------------------------------------------
Allowed(a) == IF asker[a].job = "report" THEN 1 ELSE 0
AsksPlex(a) == asker[a].at \in {"wait", "track"}

(* Mutant: the lock is not taken. *)
NoLock(a) ==
  /\ asker[a].at = "ask" /\ a \in Askers
  /\ asker' = [asker EXCEPT ![a].at = "wait", ![a].before = stored]
  /\ crossed' = (crossed \/ \E b \in Askers : AsksPlex(b) /\ asker[b].of # asker[a].of)
  /\ UNCHANGED <<plex, stored, age, loads, lock, sent, played, finished>>

(* getSessions up to the request: with the lock of its configuration, it takes the stored list if that is new
   enough, or keeps it to compare with and asks Plex. *)
GetSessions(a) ==
  /\ asker[a].at = "ask" /\ lock[asker[a].of] = NoOne
  /\ IF stored.known /\ age <= Allowed(a)
     THEN asker' = [asker EXCEPT ![a].at = "have", ![a].got = stored.list] /\ UNCHANGED <<lock, crossed>>
     ELSE /\ asker' = [asker EXCEPT ![a].at = "wait", ![a].before = stored]
          /\ lock' = [lock EXCEPT ![asker[a].of] = a]
          /\ crossed' = (crossed \/ \E b \in Askers : AsksPlex(b) /\ asker[b].of # asker[a].of)
  /\ UNCHANGED <<plex, stored, age, loads, sent, played, finished>>

Unlock(a) == lock' = [n \in Loads |-> IF lock[n] = a THEN NoOne ELSE lock[n]]

(* External: the Plex server answers with what it knows, or it fails and nothing is stored. *)
PlexAnswers(a) ==
  /\ asker[a].at = "wait"
  /\ \/ asker' = [asker EXCEPT ![a].at = "track", ![a].got = plex] /\ UNCHANGED lock
     \/ asker' = [asker EXCEPT ![a].at = IF a = "loop" /\ asker[a].job = "check" THEN "idle" ELSE "have"] /\ Unlock(a)
  /\ UNCHANGED <<plex, stored, age, loads, sent, played, finished, crossed>>

Present == {"playing", "paused", "done"}
Playing == {"playing", "done"}

(* checkExistingSession: a session of the list before is not a new one. *)
IsNew(a, s) == asker[a].got[s] \in Playing /\ asker[a].before.known /\ asker[a].before.list[s] \notin Present

(* plexSessionTracker: the list is stored first; then the new sessions are told, but for those of which Plex
   does not say the section. *)
Track(a) ==
  /\ asker[a].at = "track"
  /\ stored' = [known |-> TRUE, list |-> asker[a].got] /\ age' = 0
  /\ \E failed \in SUBSET {s \in Sessions : IsNew(a, s)} :
       played' = [s \in Sessions |-> played[s] + IF IsNew(a, s) /\ s \notin failed THEN 1 ELSE 0]
  /\ asker' = [asker EXCEPT ![a].at = "have"] /\ Unlock(a)
  /\ UNCHANGED <<plex, loads, sent, finished, crossed>>

(* checkForFinishedItems, checkSessionDone, sendSessionDone: those that are told are kept in mind. *)
CheckForFinished ==
  LET a == "loop"
      ready == {s \in Sessions : asker[a].got[s] = "done" /\ s \notin sent[asker[a].of]} IN
  /\ asker[a].at = "have" /\ asker[a].job = "check"
  /\ \E told \in SUBSET ready :
       /\ finished' = [s \in Sessions |-> finished[s] + IF s \in told THEN 1 ELSE 0]
       /\ sent' = [sent EXCEPT ![asker[a].of] = @ \cup told]
  /\ asker' = [asker EXCEPT ![a] = Idle]
  /\ UNCHANGED <<plex, stored, age, loads, lock, played, crossed>>

(* sendPlexSessions and the rest of sendWebhook: the list is sent, an empty one if it could not be had. *)
Report(a) ==
  /\ asker[a].at = "have" /\ asker[a].job # "check"
  /\ asker' = [asker EXCEPT ![a] = IF a = "loop" THEN Idle ELSE [Idle EXCEPT !.at = "done"]]
  /\ UNCHANGED <<plex, stored, age, loads, lock, sent, played, finished, crossed>>

(* New: the loop of the old configuration has come to its end, its webhooks may not. *)
Reload ==
  /\ loads < MaxLoads /\ asker["loop"].at = "idle"
  /\ loads' = loads + 1
  /\ UNCHANGED <<plex, stored, age, asker, lock, sent, played, finished, crossed>>

Next ==
  \/ \E s \in Sessions : Watch(s)
  \/ Older \/ LoopAsks \/ CheckForFinished \/ Reload
  \/ \E h \in Hooks : SendWebhook(h)
  \/ \E a \in Askers : GetSessions(a) \/ PlexAnswers(a) \/ Track(a) \/ Report(a)

PlexSpec == Init /\ [][Next]_plexVars

-----------------------------------------------------------------------------
TypeOK ==
  /\ \A s \in Sessions : plex[s] \in Present \cup {"absent", "gone"} /\ {played[s], finished[s]} \subseteq Nat
  /\ age \in 0..2 /\ loads \in Loads /\ crossed \in BOOLEAN
  /\ \A a \in Askers : asker[a].at \in {"idle", "ask", "wait", "track", "have", "done"} /\ asker[a].of \in 1..loads
  /\ \A n \in Loads : lock[n] \in Askers \cup {NoOne} /\ sent[n] \subseteq Sessions

(* The website is told once that a session plays, whoever asks and however often the client reloads, unless a
   webhook of an old configuration and the new one asked Plex at the same time, each with its own lock.  That
   a session is finished is told once for each configuration. *)
ToldOnce ==
  \A s \in Sessions : /\ played[s] > 1 => crossed
                      /\ finished[s] <= loads
=============================================================================
