--------------------------- MODULE FileWatchProofs ---------------------------
(***************************************************************************)
(* Proofs about FileWatch, for any files, handlers and tails and any       *)
(* bounds.                                                                 *)
(***************************************************************************)
EXTENDS FileWatch, FiniteSetTheorems, TLAPS

LoopPlaces == {"setup", "select", "kill", "unwatch", "tick", "restart", "queue", "done", "dead"}
StopperPlaces == {"idle", "lock", "files", "stop", "mark", "halt", "wait", "stopped", "dead"}
HandlerPlaces == {"idle", "stop", "mark", "halt", "add", "queue", "dead"}

(* Each goroutine is at a place of its own code, and has a file where that *)
(* works on one.                                                           *)
PlaceInv ==
  /\ at[Loop] \in LoopPlaces /\ at[Stopper] \in StopperPlaces
  /\ \A h \in Handlers : at[h] \in HandlerPlaces
  /\ \A p \in Procs : at[p] \in AtFile => on[p] \in Files

(* A panic ends them all.                                                  *)
DeadInv == IF crashed = "no" THEN \A p \in Procs : at[p] # "dead" ELSE \A p \in Procs : at[p] = "dead"

(* The lock: cmd.stop has it, or waits for it, from its beginning to its   *)
(* end, and files are not being added while it has it.                     *)
Stopping == {"files", "stop", "mark", "halt", "wait"}

LockInv ==
  /\ writer = Stopper <=> at[Stopper] \in Stopping \cup {"lock"}
  /\ at[Stopper] \in Stopping => Readers = {}

(* The channel: there is one while the loop is past its setup and until    *)
(* cmd.stop returns; it is closed only while cmd.stop waits for the loop,  *)
(* which then has nothing left to read.                                    *)
ChanInv ==
  /\ chan = "nil" <=> at[Loop] = "setup" \/ at[Stopper] = "stopped"
  /\ chan = "closed" <=> at[Stopper] = "wait"
  /\ chan = "nil" => Readers = {} /\ added = <<>> /\ Cases = {}
  /\ at[Loop] = "done" => at[Stopper] \in {"wait", "stopped"}
  /\ at[Stopper] = "stopped" => at[Loop] = "done"
  /\ at[Loop] = "done" => added = <<>> /\ Cases = {}
  /\ valid # {} => at[Loop] = "setup"

(* Whoever is about to use the tail of a file finds one, unless somebody   *)
(* was at the file already.                                                *)
UseInv ==
  \/ rushed
  \/ /\ \A f \in valid \cup Queued : Active(f)
     /\ \A p \in Procs : at[p] \in {"mark", "halt", "unwatch", "queue"} => Active(on[p])

IInv ==
  /\ TypeOK /\ PlaceInv /\ DeadInv /\ CrashHasCause /\ ActiveIsWatched
  /\ crashed = "no" => LockInv /\ ChanInv /\ UseInv

-----------------------------------------------------------------------------
(* The goroutines are others than each other, and Nobody is nobody.        *)
LEMMA Constants ==
  /\ Loop \in Procs /\ Stopper \in Procs /\ Handlers \subseteq Procs
  /\ Loop # Stopper /\ Loop \notin Handlers /\ Stopper \notin Handlers
  /\ Nobody # Stopper /\ Nobody \notin Files /\ Nobody \notin Tails /\ Nobody \notin Procs
  /\ MaxRetries \in Nat /\ MaxRetries > 0 /\ MaxCalls \in Nat /\ MaxRestarts \in Nat
BY FileAssumption DEF Procs

(* What is in a channel after a file is put into it, and after one is      *)
(* taken out.                                                              *)
LEMMA AppendQueued ==
  ASSUME added \in Seq(Files), NEW f \in Files, added' = Append(added, f)
  PROVE  /\ added' \in Seq(Files) /\ Len(added') = Len(added) + 1 /\ added' # <<>>
         /\ Queued' = Queued \cup {f}
<1>1. added' \in Seq(Files) /\ Len(added') = Len(added) + 1 /\ added'[Len(added) + 1] = f
      /\ \A i \in 1 .. Len(added) : added'[i] = added[i]
  OBVIOUS
<1>. QED BY <1>1 DEF Queued

(* And after one is taken out.                                             *)
LEMMA TailQueued ==
  ASSUME added \in Seq(Files), added # <<>>, added' = Tail(added)
  PROVE  /\ added' \in Seq(Files) /\ Len(added') = Len(added) - 1 /\ Head(added) \in Queued
         /\ Head(added) \in Files /\ Queued' \subseteq Queued /\ Queued \subseteq Queued' \cup {Head(added)}
<1>1. /\ added' \in Seq(Files) /\ Len(added') = Len(added) - 1 /\ Len(added) > 0
      /\ Head(added) = added[1] /\ Head(added) \in Files
      /\ \A i \in 1 .. Len(added) - 1 : added'[i] = added[i + 1]
  OBVIOUS
<1>2. Queued' \subseteq Queued
  BY <1>1 DEF Queued
<1>3. \A i \in 2 .. Len(added) : added[i] \in Queued'
  <2>. TAKE i \in 2 .. Len(added)
  <2>1. i - 1 \in 1 .. Len(added') /\ added'[i - 1] = added[i]
    BY <1>1
  <2>. QED BY <2>1 DEF Queued
<1>4. Queued \subseteq Queued' \cup {Head(added)}
  BY <1>1, <1>3 DEF Queued
<1>. QED BY <1>1, <1>2, <1>4 DEF Queued

(* Nothing is in an empty one.                                             *)
LEMMA EmptyQueued == ASSUME added = <<>> PROVE Queued = {}
BY DEF Queued

(* What the loop reads after it has taken a case in.                       *)
LEMMA CasesAdd ==
  ASSUME IsABag(watched), NEW c, watched' = watched (+) SetToBag({c})
  PROVE  IsABag(watched)' /\ Cases' = Cases \cup {c}
BY DEF IsABag, Cases, BagToSet, SetToBag, (+)

(* And out.                                                                *)
LEMMA CasesDrop ==
  ASSUME IsABag(watched), NEW c \in Cases, watched' = watched (-) SetToBag({c})
  PROVE  IsABag(watched)' /\ Cases' \subseteq Cases /\ Cases \ {c} \subseteq Cases'
BY DEF IsABag, Cases, BagToSet, SetToBag, (-)

(* Or began with a set of them,                                            *)
LEMMA CasesSet ==
  ASSUME NEW S, watched' = SetToBag(S)
  PROVE  IsABag(watched)' /\ Cases' = S
BY DEF IsABag, Cases, BagToSet, SetToBag

(* or with none.                                                           *)
LEMMA CasesEmpty == ASSUME watched = EmptyBag PROVE IsABag(watched) /\ Cases = {}
BY DEF IsABag, Cases, BagToSet, SetToBag, EmptyBag

(* Whoever runs finds that nothing has crashed.                            *)
LEMMA Running ==
  ASSUME IInv, NEW p \in Procs, at[p] # "dead"
  PROVE  crashed = "no" /\ LockInv /\ ChanInv /\ UseInv
BY DEF IInv, DeadInv

(* A crash with a cause.                                                   *)
LEMMA CrashInv ==
  ASSUME IInv, NEW why \in {"early", "panic"}, why = "panic" => rushed, Crash(why)
  PROVE  IInv'
<1>. USE DEF Crash, tailVars, chanVars, loopVars, boundVars, ghostVars
<1>1. TypeOK'
  BY DEF IInv, TypeOK, Places, Cases
<1>2. PlaceInv' /\ DeadInv' /\ CrashHasCause'
  BY Constants DEF PlaceInv, DeadInv, CrashHasCause, AtFile, LoopPlaces, StopperPlaces,
     HandlerPlaces
<1>3. ActiveIsWatched'
  BY DEF ActiveIsWatched
<1>. QED BY <1>1, <1>2, <1>3 DEF IInv

(* setup with a new tail: no file had that one, and no tail is forgotten   *)
(* but by doubled.                                                         *)
LEMMA OpensFile ==
  ASSUME TypeOK, NEW f \in Files, NEW p, Opens(f, p)
  PROVE  /\ NewTail \in Tails /\ tail' \in [Files -> Tails \cup {Nobody}] /\ tail'[f] = NewTail
         /\ \A g \in Files : g # f => tail'[g] = tail[g]
         /\ \A g \in Files : tail[g] # NewTail
         /\ live' = live \cup {NewTail} /\ live' \subseteq Tails /\ failed' \subseteq Tails
         /\ doubled' \in BOOLEAN /\ rushed' \in BOOLEAN /\ (rushed => rushed')
         /\ Active(f)' /\ \A g \in Files : Active(g) => Active(g)'
<1>1. NewTail \in Tails /\ NewTail \notin Referenced
  BY DEF Opens, NewTail
<1>. QED BY <1>1, Constants DEF Opens, Replaces, Referenced, TypeOK, Active

(* setup without a new tail.                                               *)
LEMMA MissesFile ==
  ASSUME TypeOK, NEW f \in Files, NEW p, Misses(f, p)
  PROVE  /\ tail' \in [Files -> Tails \cup {Nobody}] /\ tail'[f] = Nobody
         /\ \A g \in Files : g # f => tail'[g] = tail[g]
         /\ live' = live /\ failed' \subseteq Tails
         /\ doubled' \in BOOLEAN /\ rushed' \in BOOLEAN /\ (rushed' <=> rushed \/ Busy(f, p))
         /\ \A g \in Files : g # f => (Active(g)' <=> Active(g))
BY DEF Misses, Replaces, TypeOK, Active

(* stop: the tail is kept, or the file has none.                           *)
LEMMA StopsTail ==
  ASSUME TypeOK, NEW f \in Files, NEW p, StopTail(p, f)
  PROVE  /\ tail' \in [Files -> Tails \cup {Nobody}] /\ live' \subseteq live /\ failed' = failed
         /\ \A g \in Files : tail'[g] \in {tail[g], Nobody} /\ (g # f => tail'[g] = tail[g])
         /\ rushed' \in BOOLEAN /\ (rushed => rushed')
         /\ rushed' \/ ~Busy(f, p) \/ \A g \in Files : Active(g)' <=> Active(g)
BY DEF StopTail, Closed, TypeOK, Active

(* A goroutine goes to another place.                                      *)
LEMMA Turns ==
  ASSUME TypeOK, NEW p \in Procs, NEW place \in Places, NEW f \in Files \cup {Nobody}, Turn(p, place, f)
  PROVE  /\ at' \in [Procs -> Places] /\ on' \in [Procs -> Files \cup {Nobody}]
         /\ at'[p] = place /\ on'[p] = f
         /\ \A q \in Procs : q # p => at'[q] = at[q] /\ on'[q] = on[q]
BY DEF TypeOK, Turn

(* It keeps its file where it works on one.                                *)
LEMMA Goes ==
  ASSUME TypeOK, PlaceInv, NEW p \in Procs, NEW place \in Places, Go(p, place), at[p] \in AtFile \/ place \notin AtFile
  PROVE  /\ at' \in [Procs -> Places] /\ on' \in [Procs -> Files \cup {Nobody}]
         /\ at'[p] = place /\ (place \in AtFile => on'[p] = on[p] /\ on[p] \in Files)
         /\ \A q \in Procs : q # p => at'[q] = at[q] /\ on'[q] = on[q]
<1>. DEFINE f == IF place \in AtFile THEN on[p] ELSE Nobody
<1>1. f \in Files \cup {Nobody} /\ Turn(p, place, f)
  BY DEF TypeOK, PlaceInv, Go
<1>. QED BY <1>1, Turns DEF PlaceInv

(* What was watched is, as long as nothing is opened or forgotten.         *)
LEMMA StillWatched ==
  ASSUME ActiveIsWatched, crashed' = crashed,
         \A f \in Files : tail'[f] \in live' => tail'[f] = tail[f] /\ tail[f] \in live,
         \A f \in Files : <<f, tail[f]>> \in Cases /\ tail[f] \in live => <<f, tail[f]>> \in Cases',
         valid \subseteq valid', Queued \subseteq Queued',
         \A p \in Procs : at[p] = "queue" => on[p] \in Queued' \/ (at'[p] = "queue" /\ on'[p] = on[p])
  PROVE  ActiveIsWatched'
BY DEF ActiveIsWatched

(* A goroutine at one of these is about to use the tail of its file.       *)
Using == {"mark", "halt", "unwatch", "queue"}

(* What is in use is a file.                                               *)
LEMMA UsedFiles ==
  ASSUME TypeOK, PlaceInv
  PROVE  valid \cup Queued \subseteq Files /\ \A q \in Procs : at[q] \in Using => on[q] \in Files
BY DEF TypeOK, PlaceInv, Queued, Using, AtFile

(* Files that are in use stay active as long as their tails are kept.      *)
LEMMA StillUsed ==
  ASSUME TypeOK, PlaceInv, UseInv, rushed => rushed', valid' \cup Queued' \subseteq valid \cup Queued,
         \A q \in Procs : at'[q] \in Using => at[q] \in Using /\ on'[q] = on[q],
         \A f \in Files : Active(f) => Active(f)'
  PROVE  UseInv'
<1>1. CASE rushed'
  BY <1>1 DEF UseInv
<1>2. CASE ~rushed'
  <2>1. /\ \A f \in valid' \cup Queued' : f \in Files /\ Active(f)
        /\ \A q \in Procs : at'[q] \in Using => on[q] \in Files /\ Active(on[q])
    BY <1>2, UsedFiles DEF UseInv, Using
  <2>2. \A q \in Procs : at'[q] \in Using => Active(on[q])'
    BY <2>1 DEF Active
  <2>. QED BY <2>1, <2>2 DEF UseInv, Using
<1>. QED BY <1>1, <1>2

(* And one that nobody else uses may be forgotten.                         *)
LEMMA OthersUsed ==
  ASSUME TypeOK, PlaceInv, UseInv, rushed => rushed', UNCHANGED <<valid, added>>,
         NEW p \in Procs, NEW f \in Files, rushed' \/ ~Busy(f, p), at'[p] \notin Using,
         \A q \in Procs : q # p => at'[q] = at[q] /\ on'[q] = on[q],
         \A g \in Files : g # f /\ Active(g) => Active(g)'
  PROVE  UseInv'
<1>1. CASE rushed'
  BY <1>1 DEF UseInv
<1>2. CASE ~rushed'
  <2>1. f \notin valid \cup Queued /\ \A q \in Procs : q # p /\ at[q] \in Using => on[q] # f
    BY <1>2 DEF Busy, Using
  <2>2. /\ \A g \in valid' \cup Queued' : g \in Files /\ g # f /\ Active(g)
        /\ \A q \in Procs : at'[q] \in Using => on'[q] \in Files /\ on'[q] # f /\ Active(on'[q])
    BY <1>2, <2>1, UsedFiles DEF UseInv, Using, Queued
  <2>. QED BY <2>2 DEF UseInv, Using, Active
<1>. QED BY <1>1, <1>2

(* A request begins; nothing that others use is touched.                   *)
LEMMA CallInv ==
  ASSUME IInv, NEW h \in Handlers, Call(h)
  PROVE  IInv'
<1>. USE Constants DEF Active, tailVars, chanVars, loopVars, procVars, boundVars, ghostVars
<1>1. h \in Procs /\ crashed = "no" /\ LockInv /\ ChanInv /\ UseInv
  BY Constants, Running DEF IInv, Call
<1>2. h # Loop /\ h # Stopper /\ at[h] = "idle" /\ calls' \in 0 .. MaxCalls
  BY Constants DEF Call, IInv, TypeOK
<1>3. \E f \in Files, place \in {"stop", "add"} : Turn(h, place, f)
  BY DEF Call
<1>4. /\ at' \in [Procs -> Places] /\ on' \in [Procs -> Files \cup {Nobody}]
      /\ at'[h] \in {"stop", "add"} /\ on'[h] \in Files
      /\ \A q \in Procs : q # h => at'[q] = at[q] /\ on'[q] = on[q]
  BY <1>3, Turns DEF IInv, Places
<1>5. UNCHANGED <<tailVars, chanVars, loopVars, todo, restarts, ghostVars, crashed>>
  BY DEF Call
<1>6. TypeOK'
  BY <1>2, <1>4, <1>5 DEF IInv, TypeOK, Cases
<1>7. PlaceInv' /\ DeadInv' /\ CrashHasCause'
  <2>1. PlaceInv'
    BY <1>4 DEF IInv, PlaceInv, HandlerPlaces
  <2>2. DeadInv' /\ CrashHasCause'
    BY <1>1, <1>2, <1>3, <1>4, <1>5 DEF IInv, DeadInv, CrashHasCause
  <2>. QED BY <2>1, <2>2
<1>8. ActiveIsWatched'
  BY <1>2, <1>4, <1>5, StillWatched DEF IInv, Cases, Queued
<1>9. crashed' = "no" => LockInv'
  BY <1>4, <1>5 DEF IInv, LockInv, Readers
<1>10. crashed' = "no" => ChanInv'
  BY <1>4, <1>5 DEF IInv, ChanInv, Readers, Cases
<1>11. crashed' = "no" => UseInv'
  BY <1>3, <1>4, <1>5 DEF IInv, UseInv, Queued
<1>. QED BY <1>6, <1>7, <1>8, <1>9, <1>10, <1>11 DEF IInv

(* Stop looks whether the file is active.                                  *)
LEMMA StopCheckInv ==
  ASSUME IInv, NEW p \in Handlers \cup {Stopper}, StopCheck(p)
  PROVE  IInv'
<1>. USE Constants DEF Active, tailVars, chanVars, loopVars, procVars, boundVars, ghostVars, After
<1>1. p \in Procs /\ crashed = "no" /\ LockInv /\ ChanInv /\ UseInv
  BY Constants, Running DEF IInv, StopCheck
<1>2. p # Loop /\ at[p] = "stop" /\ on[p] \in Files
  BY DEF StopCheck, IInv, PlaceInv, AtFile
<1>3. \E place \in {"mark", After(p)} : Go(p, place) /\ (place = "mark" => Active(on[p]))
  BY DEF StopCheck
<1>4. /\ at' \in [Procs -> Places] /\ on' \in [Procs -> Files \cup {Nobody}]
      /\ at'[p] \in {"mark", After(p)} /\ (at'[p] = "mark" => on'[p] = on[p] /\ Active(on[p]))
      /\ \A q \in Procs : q # p => at'[q] = at[q] /\ on'[q] = on[q]
  BY <1>2, <1>3, Goes DEF IInv, Places, AtFile
<1>5. UNCHANGED <<tailVars, chanVars, loopVars, todo, ghostVars, boundVars, crashed>>
  BY DEF StopCheck
<1>6. TypeOK'
  BY <1>4, <1>5 DEF IInv, TypeOK, Cases
<1>7. PlaceInv' /\ DeadInv' /\ CrashHasCause'
  BY <1>1, <1>2, <1>3, <1>4, <1>5 DEF IInv, PlaceInv, DeadInv, CrashHasCause, AtFile, StopperPlaces,
     HandlerPlaces
<1>8. ActiveIsWatched'
  BY <1>2, <1>4, <1>5, StillWatched DEF IInv, Cases, Queued
<1>9. crashed' = "no" => LockInv'
  BY <1>2, <1>4, <1>5 DEF IInv, LockInv, Readers, Stopping
<1>10. crashed' = "no" => ChanInv'
  BY <1>2, <1>4, <1>5 DEF IInv, ChanInv, Readers, Cases
<1>11. crashed' = "no" => UseInv'
  <2>1. CASE rushed
    BY <1>5, <2>1 DEF UseInv
  <2>2. CASE ~rushed
    <3>1. \A f \in valid' \cup Queued' : Active(f)'
      BY <1>1, <1>5, <2>2 DEF UseInv, Queued
    <3>2. ASSUME NEW q \in Procs, at'[q] \in {"mark", "halt", "unwatch", "queue"} PROVE Active(on[q])'
      BY <1>1, <1>4, <1>5, <2>2, <3>2 DEF UseInv
    <3>. QED BY <3>1, <3>2 DEF UseInv
  <2>. QED BY <2>1, <2>2
<1>. QED BY <1>6, <1>7, <1>8, <1>9, <1>10, <1>11 DEF IInv

(* The ticker looks at a file.                                             *)
LEMMA TickFileInv ==
  ASSUME IInv, NEW f \in Files, TickFile(f)
  PROVE  IInv'
<1>. USE Constants DEF Active, tailVars, chanVars, loopVars, procVars, boundVars, ghostVars
<1>1. Loop \in Procs /\ crashed = "no" /\ LockInv /\ ChanInv /\ UseInv
  BY Constants, Running DEF IInv, TickFile
<1>2. at[Loop] = "tick" /\ todo' \in [Procs -> SUBSET Files]
  BY DEF TickFile, IInv, TypeOK
<1>3. \/ UNCHANGED <<retries, tries, at, on>>
      \/ Turn(Loop, "restart", f) /\ retries' \in [Files -> 0 .. MaxRetries] /\ tries' \in 0 .. MaxRetries
  BY SMTT(60), Constants DEF TickFile, GivenUp, IInv, TypeOK
<1>4. /\ at' \in [Procs -> Places] /\ on' \in [Procs -> Files \cup {Nobody}]
      /\ retries' \in [Files -> 0 .. MaxRetries] /\ tries' \in 0 .. MaxRetries
      /\ \/ at'[Loop] = "tick" /\ on'[Loop] = on[Loop]
         \/ at'[Loop] = "restart" /\ on'[Loop] = f
      /\ \A q \in Procs : q # Loop => at'[q] = at[q] /\ on'[q] = on[q]
  BY <1>2, <1>3, Turns DEF IInv, TypeOK, Places
<1>5. UNCHANGED <<tail, live, failed, chanVars, watched, valid, died, ghostVars, boundVars, crashed>>
  BY DEF TickFile
<1>6. TypeOK'
  BY <1>2, <1>4, <1>5 DEF IInv, TypeOK, Cases
<1>7. PlaceInv' /\ DeadInv' /\ CrashHasCause'
  BY <1>1, <1>2, <1>3, <1>4, <1>5 DEF IInv, PlaceInv, DeadInv, CrashHasCause, LoopPlaces
<1>8. ActiveIsWatched'
  BY <1>2, <1>4, <1>5, StillWatched DEF IInv, Cases, Queued
<1>9. crashed' = "no" => LockInv'
  BY <1>1, <1>2, <1>3, <1>4, <1>5 DEF IInv, TypeOK, LockInv, Readers, Stopping, PlaceInv, AtFile,
     LoopPlaces, StopperPlaces
<1>10. crashed' = "no" => ChanInv'
  BY <1>2, <1>4, <1>5 DEF IInv, ChanInv
<1>11. crashed' = "no" => UseInv'
  BY <1>3, <1>4, <1>5 DEF IInv, UseInv, Queued
<1>. QED BY <1>6, <1>7, <1>8, <1>9, <1>10, <1>11 DEF IInv

(* killWatcher looks whether the file is active.                           *)
LEMMA KillInv ==
  ASSUME IInv, Kill
  PROVE  IInv'
<1>. USE Constants DEF Active, tailVars, chanVars, loopVars, procVars, boundVars, ghostVars
<1>1. Loop \in Procs /\ crashed = "no" /\ LockInv /\ ChanInv /\ UseInv
  BY Constants, Running DEF IInv, Kill
<1>2. at[Loop] = "kill" /\ on[Loop] \in Files /\ died' \in BOOLEAN
  BY DEF Kill, IInv, TypeOK, PlaceInv, AtFile
<1>3. \E place \in {"unwatch", "select"} : Go(Loop, place) /\ (place = "unwatch" => Active(on[Loop]))
  BY DEF Kill, MayStop
<1>4. /\ at' \in [Procs -> Places] /\ on' \in [Procs -> Files \cup {Nobody}]
      /\ \/ at'[Loop] = "unwatch" /\ on'[Loop] = on[Loop] /\ Active(on[Loop])
         \/ at'[Loop] = "select"
      /\ \A q \in Procs : q # Loop => at'[q] = at[q] /\ on'[q] = on[q]
  BY <1>2, <1>3, Goes DEF IInv, Places, AtFile
<1>5. UNCHANGED <<tailVars, chanVars, watched, valid, tries, todo, ghostVars, boundVars, crashed>>
  BY DEF Kill
<1>6. TypeOK'
  BY <1>2, <1>4, <1>5 DEF IInv, TypeOK, Cases
<1>7. PlaceInv' /\ DeadInv' /\ CrashHasCause'
  <2>1. PlaceInv'
    BY <1>2, <1>4 DEF IInv, PlaceInv, AtFile, LoopPlaces
  <2>2. DeadInv' /\ CrashHasCause'
    BY <1>2, <1>4, <1>5 DEF IInv, DeadInv, CrashHasCause
  <2>. QED BY <2>1, <2>2
<1>8. ActiveIsWatched'
  BY <1>2, <1>4, <1>5, StillWatched DEF IInv, Cases, Queued
<1>9. crashed' = "no" => LockInv'
  BY <1>4, <1>5 DEF IInv, LockInv, Readers
<1>10. crashed' = "no" => ChanInv'
  BY <1>2, <1>4, <1>5 DEF IInv, ChanInv
<1>11. crashed' = "no" => UseInv'
  BY <1>4, <1>5 DEF IInv, UseInv, Queued
<1>. QED BY <1>6, <1>7, <1>8, <1>9, <1>10, <1>11 DEF IInv

(* The ticker has looked at every file.                                    *)
LEMMA TickEndsInv ==
  ASSUME IInv, TickEnds
  PROVE  IInv'
<1>. USE Constants DEF Active, tailVars, chanVars, loopVars, procVars, boundVars, ghostVars
<1>1. Loop \in Procs /\ crashed = "no" /\ LockInv /\ ChanInv /\ UseInv
  BY Constants, Running DEF IInv, TickEnds
<1>2. at[Loop] = "tick"
  BY DEF TickEnds
<1>3. /\ at' \in [Procs -> Places] /\ on' \in [Procs -> Files \cup {Nobody}]
      /\ at'[Loop] = "select"
      /\ \A q \in Procs : q # Loop => at'[q] = at[q] /\ on'[q] = on[q]
  BY Goes DEF IInv, TickEnds, Places, AtFile
<1>4. UNCHANGED <<tailVars, chanVars, loopVars, todo, ghostVars, boundVars, crashed>>
  BY DEF TickEnds
<1>5. TypeOK'
  BY <1>3, <1>4 DEF IInv, TypeOK, Cases
<1>6. PlaceInv' /\ DeadInv' /\ CrashHasCause'
  BY <1>1, <1>3, <1>4 DEF IInv, PlaceInv, DeadInv, CrashHasCause, AtFile, LoopPlaces
<1>7. ActiveIsWatched'
  BY <1>2, <1>3, <1>4, StillWatched DEF IInv, Cases, Queued
<1>8. crashed' = "no" => LockInv'
  BY <1>3, <1>4 DEF IInv, LockInv, Readers
<1>9. crashed' = "no" => ChanInv'
  BY <1>2, <1>3, <1>4 DEF IInv, ChanInv
<1>10. crashed' = "no" => UseInv'
  BY <1>3, <1>4 DEF IInv, UseInv, Queued
<1>. QED BY <1>5, <1>6, <1>7, <1>8, <1>9, <1>10 DEF IInv

(* The ticker begins.                                                      *)
LEMMA TickInv ==
  ASSUME IInv, Tick
  PROVE  IInv'
<1>. USE Constants DEF Active, tailVars, chanVars, loopVars, procVars, boundVars, ghostVars
<1>1. Loop \in Procs /\ crashed = "no" /\ LockInv /\ ChanInv /\ UseInv
  BY Constants, Running DEF IInv, Tick
<1>2. at[Loop] = "select"
  BY DEF Tick
<1>3. /\ at' \in [Procs -> Places] /\ on' \in [Procs -> Files \cup {Nobody}]
      /\ at'[Loop] = "tick"
      /\ \A q \in Procs : q # Loop => at'[q] = at[q] /\ on'[q] = on[q]
  BY Goes DEF IInv, Tick, Places, AtFile
<1>4. UNCHANGED <<tailVars, chanVars, watched, valid, tries, ghostVars, boundVars, crashed>>
  BY DEF Tick
<1>5. died' \in BOOLEAN /\ todo' \in [Procs -> SUBSET Files]
  BY DEF Tick, IInv, TypeOK
<1>6. TypeOK'
  BY <1>3, <1>4, <1>5 DEF IInv, TypeOK, Cases
<1>7. PlaceInv' /\ DeadInv' /\ CrashHasCause'
  BY <1>2, <1>3, <1>4, <1>5 DEF IInv, PlaceInv, DeadInv, CrashHasCause, AtFile, LoopPlaces
<1>8. ActiveIsWatched'
  BY <1>2, <1>3, <1>4, StillWatched DEF IInv, Cases, Queued
<1>9. crashed' = "no" => LockInv'
  BY <1>3, <1>4 DEF IInv, LockInv, Readers
<1>10. crashed' = "no" => ChanInv'
  BY <1>2, <1>3, <1>4 DEF IInv, ChanInv
<1>11. crashed' = "no" => UseInv'
  BY <1>1, <1>3, <1>4 DEF UseInv, Queued
<1>. QED BY <1>6, <1>7, <1>8, <1>9, <1>10, <1>11 DEF IInv

(* The loop ends: nothing is left to read.                                 *)
LEMMA LeaveInv ==
  ASSUME IInv, Leave
  PROVE  IInv'
<1>. USE Constants DEF Active, tailVars, chanVars, loopVars, procVars, boundVars, ghostVars
<1>1. Loop \in Procs /\ crashed = "no" /\ LockInv /\ ChanInv /\ UseInv
  BY Constants, Running DEF IInv, Leave
<1>2. at[Loop] = "select"
  BY DEF Leave
<1>3. /\ at' \in [Procs -> Places] /\ on' \in [Procs -> Files \cup {Nobody}]
      /\ at'[Loop] = "done"
      /\ \A q \in Procs : q # Loop => at'[q] = at[q] /\ on'[q] = on[q]
  BY Goes DEF IInv, Leave, Places, AtFile
<1>4. UNCHANGED <<tailVars, chanVars, loopVars, todo, ghostVars, boundVars, crashed>>
  BY DEF Leave
<1>5. added = <<>> /\ chan = "closed" /\ Cases = {}
  BY DEF Leave, NothingLeft
<1>6. TypeOK'
  BY <1>3, <1>4 DEF IInv, TypeOK, Cases
<1>7. PlaceInv' /\ DeadInv' /\ CrashHasCause'
  BY <1>2, <1>3, <1>4, <1>5 DEF IInv, PlaceInv, DeadInv, CrashHasCause, AtFile, LoopPlaces
<1>8. ActiveIsWatched'
  BY <1>2, <1>3, <1>4, StillWatched DEF IInv, Cases, Queued
<1>9. crashed' = "no" => LockInv'
  BY <1>3, <1>4 DEF IInv, LockInv, Readers
<1>10. crashed' = "no" => ChanInv'
  BY <1>3, <1>4, <1>5 DEF IInv, ChanInv, Cases
<1>11. crashed' = "no" => UseInv'
  BY <1>3, <1>4 DEF IInv, UseInv, Queued
<1>. QED BY <1>6, <1>7, <1>8, <1>9, <1>10, <1>11 DEF IInv

(* cmd.stop waits for the lock                                             *)
LEMMA StopAnnounceInv ==
  ASSUME IInv, StopAnnounce
  PROVE  IInv'
<1>. USE Constants DEF Active, tailVars, chanVars, loopVars, procVars, boundVars, ghostVars
<1>1. Stopper \in Procs /\ crashed = "no" /\ LockInv /\ ChanInv /\ UseInv
  BY Constants, Running DEF IInv, StopAnnounce
<1>2. at[Stopper] = "idle"
  BY DEF StopAnnounce
<1>3. /\ at' \in [Procs -> Places] /\ on' \in [Procs -> Files \cup {Nobody}]
      /\ at'[Stopper] = "lock"
      /\ \A q \in Procs : q # Stopper => at'[q] = at[q] /\ on'[q] = on[q]
  BY Goes DEF IInv, StopAnnounce, Places, AtFile
<1>4. UNCHANGED <<tailVars, added, chan, cap, loopVars, todo, ghostVars, boundVars, crashed>>
  BY DEF StopAnnounce
<1>5. writer' = Stopper
  BY DEF StopAnnounce
<1>6. TypeOK'
  BY <1>3, <1>4, <1>5 DEF IInv, TypeOK, Cases
<1>7. PlaceInv' /\ DeadInv' /\ CrashHasCause'
  BY <1>2, <1>3, <1>4 DEF IInv, PlaceInv, DeadInv, CrashHasCause, AtFile, StopperPlaces
<1>8. ActiveIsWatched'
  BY <1>2, <1>3, <1>4, StillWatched DEF IInv, Cases, Queued
<1>9. crashed' = "no" => LockInv'
  BY <1>3, <1>5 DEF LockInv, Stopping
<1>10. crashed' = "no" => ChanInv'
  BY <1>2, <1>3, <1>4 DEF IInv, ChanInv, Readers, Cases
<1>11. crashed' = "no" => UseInv'
  BY <1>3, <1>4 DEF IInv, UseInv, Queued
<1>. QED BY <1>6, <1>7, <1>8, <1>9, <1>10, <1>11 DEF IInv

(* and gets it.                                                            *)
LEMMA StopLockInv ==
  ASSUME IInv, StopLock
  PROVE  IInv'
<1>. USE Constants DEF Active, tailVars, chanVars, loopVars, procVars, boundVars, ghostVars
<1>1. Stopper \in Procs /\ crashed = "no" /\ LockInv /\ ChanInv /\ UseInv
  BY Constants, Running DEF IInv, StopLock
<1>2. at[Stopper] = "lock"
  BY DEF StopLock
<1>3. /\ at' \in [Procs -> Places] /\ on' \in [Procs -> Files \cup {Nobody}]
      /\ at'[Stopper] = "files"
      /\ \A q \in Procs : q # Stopper => at'[q] = at[q] /\ on'[q] = on[q]
  BY Goes DEF IInv, StopLock, Places, AtFile
<1>4. UNCHANGED <<tailVars, chanVars, loopVars, ghostVars, boundVars, crashed>>
  BY DEF StopLock
<1>5. Readers = {} /\ todo' \in [Procs -> SUBSET Files]
  BY DEF StopLock, IInv, TypeOK
<1>6. TypeOK'
  BY <1>3, <1>4, <1>5 DEF IInv, TypeOK, Cases
<1>7. PlaceInv' /\ DeadInv' /\ CrashHasCause'
  BY <1>2, <1>3, <1>4 DEF IInv, PlaceInv, DeadInv, CrashHasCause, AtFile, StopperPlaces
<1>8. ActiveIsWatched'
  BY <1>2, <1>3, <1>4, StillWatched DEF IInv, Cases, Queued
<1>9. crashed' = "no" => LockInv'
  BY <1>2, <1>3, <1>4, <1>5 DEF IInv, LockInv, Readers, Stopping
<1>10. crashed' = "no" => ChanInv'
  BY <1>2, <1>3, <1>4 DEF IInv, ChanInv, Readers, Cases
<1>11. crashed' = "no" => UseInv'
  BY <1>1, <1>2, <1>3, <1>4 DEF UseInv, Queued
<1>. QED BY <1>6, <1>7, <1>8, <1>9, <1>10, <1>11 DEF IInv

(* cmd.stop returns: nothing is left in the channel.                       *)
LEMMA StopEndsInv ==
  ASSUME IInv, StopEnds
  PROVE  IInv'
<1>. USE Constants DEF Active, tailVars, chanVars, loopVars, procVars, boundVars, ghostVars
<1>1. Stopper \in Procs /\ crashed = "no" /\ LockInv /\ ChanInv /\ UseInv
  BY Constants, Running DEF IInv, StopEnds
<1>2. at[Stopper] = "wait"
  BY DEF StopEnds
<1>3. /\ at' \in [Procs -> Places] /\ on' \in [Procs -> Files \cup {Nobody}]
      /\ at'[Stopper] = "stopped"
      /\ \A q \in Procs : q # Stopper => at'[q] = at[q] /\ on'[q] = on[q]
  BY Goes DEF IInv, StopEnds, Places, AtFile
<1>4. UNCHANGED <<tailVars, added, loopVars, todo, ghostVars, boundVars, crashed>>
  BY DEF StopEnds
<1>5. at[Loop] = "done" /\ chan' = "nil" /\ cap' = 0 /\ writer' = Nobody
  BY DEF StopEnds
<1>6. added = <<>> /\ Cases = {} /\ Readers = {}
  BY <1>1, <1>5 DEF ChanInv, LockInv, Stopping
<1>7. TypeOK'
  BY <1>3, <1>4, <1>5, <1>6 DEF IInv, TypeOK, Cases
<1>8. PlaceInv' /\ DeadInv' /\ CrashHasCause'
  BY <1>3, <1>4, <1>5 DEF IInv, PlaceInv, DeadInv, CrashHasCause, AtFile, StopperPlaces
<1>9. ActiveIsWatched'
  BY <1>2, <1>3, <1>4, StillWatched DEF IInv, Cases, Queued
<1>10. crashed' = "no" => LockInv'
  BY <1>3, <1>5 DEF LockInv, Stopping
<1>11. crashed' = "no" => ChanInv'
  BY <1>3, <1>4, <1>5 DEF IInv, LockInv, ChanInv, Readers, Stopping, Cases
<1>12. crashed' = "no" => UseInv'
  BY <1>3, <1>4 DEF IInv, UseInv, Queued
<1>. QED BY <1>7, <1>8, <1>9, <1>10, <1>11, <1>12 DEF IInv

(* A tail closes: one less to be watched.                                  *)
LEMMA TailDiesInv ==
  ASSUME IInv, NEW t \in Tails, TailDies(t)
  PROVE  IInv'
<1>. USE Constants DEF Active, tailVars, chanVars, loopVars, procVars, boundVars, ghostVars
<1>1. live' \subseteq live /\ failed' \subseteq Tails
  BY DEF TailDies, IInv, TypeOK
<1>2. UNCHANGED <<tail, retries, chanVars, loopVars, procVars, ghostVars, boundVars, crashed>>
  BY DEF TailDies
<1>3. TypeOK'
  BY <1>1, <1>2 DEF IInv, TypeOK, Cases
<1>4. PlaceInv' /\ DeadInv' /\ CrashHasCause'
  BY <1>2 DEF IInv, PlaceInv, DeadInv, CrashHasCause
<1>5. ActiveIsWatched'
  BY <1>1, <1>2, StillWatched DEF IInv, Cases, Queued
<1>6. crashed' = "no" => LockInv'
  BY <1>2 DEF IInv, LockInv, Readers
<1>7. crashed' = "no" => ChanInv'
  BY <1>2 DEF IInv, ChanInv, Readers, Cases
<1>8. crashed' = "no" => UseInv'
  BY <1>2 DEF IInv, UseInv, Queued
<1>. QED BY <1>3, <1>4, <1>5, <1>6, <1>7, <1>8 DEF IInv

(* Stop uses the retries up.                                               *)
LEMMA MarkInv ==
  ASSUME IInv, NEW p \in Handlers \cup {Stopper}, Mark(p)
  PROVE  IInv'
<1>. USE Constants DEF Active, tailVars, chanVars, loopVars, procVars, boundVars, ghostVars
<1>1. p \in Procs /\ crashed = "no" /\ LockInv /\ ChanInv /\ UseInv
  BY Constants, Running DEF IInv, Mark
<1>2. p # Loop /\ at[p] = "mark" /\ on[p] \in Files
  BY DEF Mark, IInv, PlaceInv, AtFile
<1>3. /\ at' \in [Procs -> Places] /\ on' \in [Procs -> Files \cup {Nobody}]
      /\ at'[p] = "halt" /\ on'[p] = on[p]
      /\ \A q \in Procs : q # p => at'[q] = at[q] /\ on'[q] = on[q]
  BY Goes DEF Mark, IInv, Places, AtFile
<1>4. MaxRetries \in 0 .. MaxRetries /\ retries' = [retries EXCEPT ![on[p]] = MaxRetries]
  BY Constants DEF Mark
<1>5. retries' \in [Files -> 0 .. MaxRetries]
  BY <1>4 DEF IInv, TypeOK
<1>6. UNCHANGED <<tail, live, failed, chanVars, loopVars, todo, ghostVars, boundVars, crashed>>
  BY DEF Mark
<1>7. TypeOK'
  BY <1>3, <1>5, <1>6 DEF IInv, TypeOK, Cases
<1>8. PlaceInv' /\ DeadInv' /\ CrashHasCause'
  <2>1. PlaceInv'
    BY <1>3, <1>4, <1>5 DEF IInv, PlaceInv, StopperPlaces, HandlerPlaces
  <2>2. DeadInv' /\ CrashHasCause'
    BY <1>2, <1>3, <1>6 DEF IInv, DeadInv, CrashHasCause
  <2>. QED BY <2>1, <2>2
<1>9. ActiveIsWatched'
  BY <1>2, <1>3, <1>6, StillWatched DEF IInv, Cases, Queued
<1>10. crashed' = "no" => LockInv'
  BY <1>2, <1>3, <1>6 DEF IInv, LockInv, Readers, Stopping
<1>11. crashed' = "no" => ChanInv'
  BY <1>2, <1>3, <1>6 DEF IInv, ChanInv, Readers, Cases
<1>12. crashed' = "no" => UseInv'
  <2>1. CASE rushed
    BY <1>6, <2>1 DEF UseInv
  <2>2. CASE ~rushed
    <3>1. \A f \in valid' \cup Queued' : Active(f)'
      BY <1>1, <1>6, <2>2 DEF UseInv, Queued
    <3>2. ASSUME NEW q \in Procs, at'[q] \in {"mark", "halt", "unwatch", "queue"} PROVE Active(on[q])'
      BY <1>1, <1>2, <1>3, <1>6, <2>2, <3>2 DEF UseInv
    <3>. QED BY <3>1, <3>2 DEF UseInv
  <2>. QED BY <2>1, <2>2
<1>. QED BY <1>7, <1>8, <1>9, <1>10, <1>11, <1>12 DEF IInv

(* A line resets the retries.                                              *)
LEMMA LineInv ==
  ASSUME IInv, NEW c \in Cases, Line(c)
  PROVE  IInv'
<1>. USE Constants DEF Active, tailVars, chanVars, loopVars, procVars, boundVars, ghostVars
<1>1. Loop \in Procs /\ crashed = "no" /\ LockInv /\ ChanInv /\ UseInv
  BY Constants, Running DEF IInv, Line
<1>2. retries' \in [Files -> 0 .. MaxRetries]
  BY Constants DEF Line, IInv, TypeOK
<1>3. UNCHANGED <<tail, live, failed, chanVars, loopVars, procVars, ghostVars, boundVars, crashed>>
  BY DEF Line
<1>4. TypeOK'
  BY <1>2, <1>3 DEF IInv, TypeOK, Cases
<1>5. PlaceInv' /\ DeadInv' /\ CrashHasCause'
  BY <1>3 DEF IInv, PlaceInv, DeadInv, CrashHasCause
<1>6. ActiveIsWatched'
  BY <1>3, StillWatched DEF IInv, Cases, Queued
<1>7. crashed' = "no" => LockInv'
  BY <1>3 DEF IInv, LockInv, Readers
<1>8. crashed' = "no" => ChanInv'
  BY <1>3 DEF IInv, ChanInv
<1>9. crashed' = "no" => UseInv'
  BY <1>3 DEF IInv, UseInv, Queued
<1>. QED BY <1>4, <1>5, <1>6, <1>7, <1>8, <1>9 DEF IInv

(* cmd.stop goes on to the next file.                                      *)
LEMMA StopFileInv ==
  ASSUME IInv, NEW f \in Files, StopFile(f)
  PROVE  IInv'
<1>. USE Constants DEF Active, tailVars, chanVars, loopVars, procVars, boundVars, ghostVars
<1>1. Stopper \in Procs /\ crashed = "no" /\ LockInv /\ ChanInv /\ UseInv
  BY Constants, Running DEF IInv, StopFile
<1>2. at[Stopper] = "files" /\ todo' \in [Procs -> SUBSET Files]
  BY DEF StopFile, IInv, TypeOK
<1>3. /\ at' \in [Procs -> Places] /\ on' \in [Procs -> Files \cup {Nobody}]
      /\ at'[Stopper] = "stop" /\ on'[Stopper] = f
      /\ \A q \in Procs : q # Stopper => at'[q] = at[q] /\ on'[q] = on[q]
  BY Turns DEF StopFile, IInv, Places
<1>4. UNCHANGED <<tailVars, chanVars, loopVars, ghostVars, boundVars, crashed>>
  BY DEF StopFile
<1>5. TypeOK'
  BY <1>2, <1>3, <1>4 DEF IInv, TypeOK, Cases
<1>6. PlaceInv' /\ DeadInv' /\ CrashHasCause'
  BY <1>2, <1>3, <1>4 DEF IInv, PlaceInv, DeadInv, CrashHasCause, StopperPlaces
<1>7. ActiveIsWatched'
  BY <1>2, <1>3, <1>4, StillWatched DEF IInv, Cases, Queued
<1>8. crashed' = "no" => LockInv'
  BY <1>2, <1>3, <1>4 DEF IInv, LockInv, Readers, Stopping
<1>9. crashed' = "no" => ChanInv'
  BY <1>2, <1>3, <1>4 DEF IInv, ChanInv, Readers, Cases
<1>10. crashed' = "no" => UseInv'
  BY <1>3, <1>4 DEF IInv, UseInv, Queued
<1>. QED BY <1>5, <1>6, <1>7, <1>8, <1>9, <1>10 DEF IInv

(* The actions run again: there is no channel now.                         *)
LEMMA RunAgainInv ==
  ASSUME IInv, RunAgain
  PROVE  IInv'
<1>. USE Constants DEF Active, tailVars, chanVars, loopVars, procVars, boundVars, ghostVars
<1>1. Stopper \in Procs /\ crashed = "no" /\ LockInv /\ ChanInv /\ UseInv
  BY Constants, Running DEF IInv, RunAgain
<1>2. at[Stopper] = "stopped" /\ at[Loop] = "done" /\ chan = "nil" /\ restarts' \in 0 .. MaxRestarts /\ died' = FALSE
  BY <1>1 DEF RunAgain, ChanInv, IInv, TypeOK
<1>3. /\ at' \in [Procs -> Places] /\ at'[Stopper] = "idle" /\ at'[Loop] = "setup"
      /\ \A q \in Handlers : at'[q] = at[q]
  BY DEF RunAgain, IInv, TypeOK, Places
<1>4. todo' \in [Procs -> SUBSET Files]
  BY DEF RunAgain, IInv, TypeOK
<1>5. \A q \in Procs : q \in Handlers \/ q = Loop \/ q = Stopper
  BY DEF Procs
<1>6. UNCHANGED <<tailVars, chanVars, watched, valid, tries, on, calls, ghostVars, crashed>>
  BY DEF RunAgain
<1>7. TypeOK'
  BY <1>2, <1>3, <1>4, <1>6 DEF IInv, TypeOK, Cases
<1>8. PlaceInv' /\ DeadInv' /\ CrashHasCause'
  BY <1>2, <1>3, <1>5, <1>6 DEF IInv, PlaceInv, DeadInv, CrashHasCause, AtFile, LoopPlaces,
     StopperPlaces
<1>9. ActiveIsWatched'
  BY <1>2, <1>3, <1>5, <1>6, StillWatched DEF IInv, Cases, Queued
<1>10. crashed' = "no" => LockInv'
  BY <1>2, <1>3, <1>6 DEF IInv, LockInv, Stopping
<1>11. crashed' = "no" => ChanInv'
  BY <1>2, <1>3, <1>5, <1>6 DEF IInv, ChanInv, Readers, Cases
<1>12. crashed' = "no" => UseInv'
  BY <1>2, <1>3, <1>5, <1>6 DEF IInv, UseInv, Queued
<1>. QED BY <1>7, <1>8, <1>9, <1>10, <1>11, <1>12 DEF IInv

(* The file that is taken out of the channel is read from then on.         *)
LEMMA TakeActiveInv ==
  ASSUME IInv, Active(Head(added)), at[Loop] = "select", added # <<>>, added' = Tail(added), watched' = AlsoWatched(Head(added)),
         UNCHANGED <<tailVars, chan, cap, writer, valid, tries, died, procVars, ghostVars, boundVars, crashed>>
  PROVE  IInv'
<1>. USE Constants DEF Active, tailVars, chanVars, loopVars, procVars, boundVars, ghostVars
<1>1. Loop \in Procs /\ crashed = "no" /\ LockInv /\ ChanInv /\ UseInv
  BY Constants, Running DEF IInv
<1>2. added \in Seq(Files) /\ Head(added) \in Queued /\ Head(added) \in Files
  BY TailQueued DEF IInv, TypeOK
<1>3. /\ added' \in Seq(Files) /\ Len(added') <= cap' /\ Queued' \subseteq Queued
      /\ Queued \subseteq Queued' \cup {Head(added)}
  BY TailQueued DEF IInv, TypeOK
<1>4. IsABag(watched)' /\ Cases' = Cases \cup {<<Head(added), tail[Head(added)]>>}
  BY CasesAdd DEF AlsoWatched, IInv, TypeOK
<1>5. tail[Head(added)] \in Tails
  BY DEF IInv, TypeOK
<1>6. TypeOK'
  BY <1>4 DEF IInv, TypeOK
<1>7. PlaceInv' /\ DeadInv' /\ CrashHasCause'
  BY DEF IInv, PlaceInv, DeadInv, CrashHasCause
<1>8. ActiveIsWatched'
  BY <1>3, <1>4 DEF IInv, ActiveIsWatched
<1>9. crashed' = "no" => LockInv'
  BY DEF IInv, LockInv, Readers
<1>10. crashed' = "no" => ChanInv'
  BY DEF IInv, ChanInv
<1>11. crashed' = "no" => UseInv'
  BY DEF IInv, UseInv, Queued
<1>. QED BY <1>6, <1>7, <1>8, <1>9, <1>10, <1>11 DEF IInv

(* A tail that closed is read no more; it does not live.                   *)
LEMMA GoneInv ==
  ASSUME IInv, NEW c \in Cases, Gone(c)
  PROVE  IInv'
<1>. USE Constants DEF Active, tailVars, chanVars, loopVars, procVars, boundVars, ghostVars
<1>1. Loop \in Procs /\ crashed = "no" /\ LockInv /\ ChanInv /\ UseInv
  BY Constants, Running DEF IInv, Gone
<1>2. at[Loop] = "select" /\ c[2] \notin live /\ c[1] \in Files
  BY DEF Gone, IInv, TypeOK
<1>3. /\ at' \in [Procs -> Places] /\ on' \in [Procs -> Files \cup {Nobody}]
      /\ at'[Loop] = "kill" /\ on'[Loop] = c[1]
      /\ \A q \in Procs : q # Loop => at'[q] = at[q] /\ on'[q] = on[q]
  BY <1>2, Turns DEF Gone, IInv, Places
<1>4. IsABag(watched)' /\ Cases' \subseteq Cases /\ Cases \ {c} \subseteq Cases'
  BY CasesDrop DEF Gone, IInv, TypeOK
<1>5. UNCHANGED <<tailVars, chanVars, valid, tries, died, todo, ghostVars, boundVars, crashed>>
  BY DEF Gone
<1>6. TypeOK'
  BY <1>3, <1>4, <1>5 DEF IInv, TypeOK
<1>7. PlaceInv' /\ DeadInv' /\ CrashHasCause'
  <2>1. PlaceInv'
    BY <1>2, <1>3 DEF IInv, PlaceInv, LoopPlaces
  <2>2. DeadInv' /\ CrashHasCause'
    BY <1>2, <1>3, <1>5 DEF IInv, DeadInv, CrashHasCause
  <2>. QED BY <2>1, <2>2
<1>8. ActiveIsWatched'
  BY <1>2, <1>3, <1>4, <1>5, StillWatched DEF IInv, Queued
<1>9. crashed' = "no" => LockInv'
  BY <1>3, <1>5 DEF IInv, LockInv, Readers
<1>10. crashed' = "no" => ChanInv'
  BY <1>3, <1>5 DEF IInv, ChanInv
<1>11. crashed' = "no" => UseInv'
  BY <1>3, <1>4, <1>5 DEF IInv, UseInv, Queued
<1>. QED BY <1>6, <1>7, <1>8, <1>9, <1>10, <1>11 DEF IInv

(* The channel is closed, and nobody is about to put a file into it.       *)
LEMMA StopClosesInv ==
  ASSUME IInv, chan # "nil" /\ StopClose
  PROVE  IInv'
<1>. USE Constants DEF Active, tailVars, chanVars, loopVars, procVars, boundVars, ghostVars
<1>1. Stopper \in Procs /\ crashed = "no" /\ LockInv /\ ChanInv /\ UseInv
  BY Constants, Running DEF IInv, StopClose
<1>2. at[Stopper] = "files" /\ chan' = "closed"
  BY DEF StopClose
<1>3. /\ at' \in [Procs -> Places] /\ on' \in [Procs -> Files \cup {Nobody}]
      /\ at'[Stopper] = "wait"
      /\ \A q \in Procs : q # Stopper => at'[q] = at[q] /\ on'[q] = on[q]
  BY Goes DEF StopClose, IInv, Places, AtFile
<1>4. UNCHANGED <<tailVars, added, cap, writer, loopVars, todo, ghostVars, boundVars, crashed>>
  BY DEF StopClose
<1>5. TypeOK'
  BY <1>2, <1>3, <1>4 DEF IInv, TypeOK, Cases
<1>6. PlaceInv' /\ DeadInv' /\ CrashHasCause'
  BY <1>2, <1>3, <1>4 DEF IInv, PlaceInv, DeadInv, CrashHasCause, AtFile, StopperPlaces
<1>7. ActiveIsWatched'
  BY <1>2, <1>3, <1>4, StillWatched DEF IInv, Cases, Queued
<1>8. crashed' = "no" => LockInv'
  BY <1>2, <1>3, <1>4 DEF IInv, LockInv, Readers, Stopping
<1>9. crashed' = "no" => ChanInv'
  BY <1>2, <1>3, <1>4 DEF IInv, ChanInv
<1>10. crashed' = "no" => UseInv'
  BY <1>3, <1>4 DEF IInv, UseInv, Queued
<1>. QED BY <1>5, <1>6, <1>7, <1>8, <1>9, <1>10 DEF IInv

(* Whoever has opened a file is about to put it into the channel.          *)
LEMMA OpensInv ==
  ASSUME IInv, NEW p \in Procs, (p \in Handlers /\ at[p] = "add") \/ (p = Loop /\ at[p] = "restart"),
         writer = Nobody, chan # "nil", Opens(on[p], p), Retry(on[p], 0), Go(p, "queue"),
         UNCHANGED <<chanVars, loopVars, todo, boundVars, crashed>>
  PROVE  IInv'
<1>. USE Constants DEF tailVars, chanVars, loopVars, procVars, boundVars, ghostVars
<1>1. p \in Procs /\ crashed = "no" /\ LockInv /\ ChanInv /\ UseInv
  BY Constants, Running DEF IInv
<1>2. p # Stopper /\ on[p] \in Files
  BY Constants DEF IInv, PlaceInv, AtFile
<1>3. /\ at' \in [Procs -> Places] /\ on' \in [Procs -> Files \cup {Nobody}]
      /\ at'[p] = "queue" /\ on'[p] = on[p]
      /\ \A q \in Procs : q # p => at'[q] = at[q] /\ on'[q] = on[q]
  BY Goes DEF IInv, Places, AtFile
<1>4. retries' \in [Files -> 0 .. MaxRetries]
  BY <1>2 DEF Retry, IInv, TypeOK
<1>5. /\ tail' \in [Files -> Tails \cup {Nobody}]
      /\ \A g \in Files : g # on[p] => tail'[g] = tail[g] /\ (tail[g] \in live' => tail[g] \in live)
      /\ live' \subseteq Tails /\ failed' \subseteq Tails /\ doubled' \in BOOLEAN /\ rushed' \in BOOLEAN
      /\ (rushed => rushed') /\ Active(on[p])' /\ \A g \in Files : Active(g) => Active(g)'
  BY <1>2, <1>3, OpensFile DEF IInv
<1>6. TypeOK'
  BY <1>3, <1>4, <1>5 DEF IInv, TypeOK, Cases
<1>7. PlaceInv' /\ DeadInv' /\ CrashHasCause'
  <2>1. PlaceInv'
    BY <1>3 DEF IInv, PlaceInv, AtFile, LoopPlaces, HandlerPlaces
  <2>2. DeadInv' /\ CrashHasCause'
    BY <1>3 DEF IInv, DeadInv, CrashHasCause
  <2>. QED BY <2>1, <2>2
<1>8. ActiveIsWatched'
  <2>1. \A f \in Files : tail'[f] \in live' /\ f # on[p] => tail[f] \in live /\ tail'[f] = tail[f]
    BY <1>5
  <2>2. \A q \in Procs : at[q] = "queue" => at'[q] = "queue" /\ on'[q] = on[q]
    BY <1>3
  <2>. QED BY <1>3, <2>1 DEF IInv, ActiveIsWatched, Cases, Queued
<1>9. crashed' = "no" => LockInv'
  BY <1>3 DEF IInv, LockInv
<1>10. crashed' = "no" => ChanInv'
  BY <1>3 DEF IInv, ChanInv, Cases
<1>11. crashed' = "no" => UseInv'
  <2>1. CASE rushed'
    BY <2>1 DEF UseInv
  <2>2. CASE ~rushed'
    <3>1. /\ \A f \in valid' \cup Queued' : f \in Files /\ Active(f)
          /\ \A q \in Procs : at'[q] \in Using => on'[q] \in Files /\ (Active(on'[q]) \/ on'[q] = on[p])
      BY <1>1, <1>2, <1>3, <1>5, <2>2, UsedFiles DEF IInv, UseInv, Using, Queued
    <3>. QED BY <1>3, <1>5, <3>1 DEF UseInv, Using
  <2>. QED BY <2>1, <2>2
<1>. QED BY <1>6, <1>7, <1>8, <1>9, <1>10, <1>11 DEF IInv

(* A file that could not be opened has no tail, which only matters to      *)
(* others that are at it.                                                  *)
LEMMA MissesInv ==
  ASSUME IInv, NEW p \in Procs, (p \in Handlers /\ at[p] = "add") \/ (p = Loop /\ at[p] = "restart"),
         Misses(on[p], p), Go(p, IF p = Loop THEN "tick" ELSE "idle"),
         retries' \in [Files -> 0 .. MaxRetries], tries' \in 0 .. MaxRetries, died' \in BOOLEAN,
         UNCHANGED <<chanVars, watched, valid, todo, boundVars, crashed>>
  PROVE  IInv'
<1>. USE Constants DEF tailVars, chanVars, loopVars, procVars, boundVars, ghostVars
<1>1. p \in Procs /\ crashed = "no" /\ LockInv /\ ChanInv /\ UseInv
  BY Constants, Running DEF IInv
<1>2. p # Stopper /\ on[p] \in Files
  BY Constants DEF IInv, PlaceInv, AtFile
<1>3. /\ at' \in [Procs -> Places] /\ on' \in [Procs -> Files \cup {Nobody}]
      /\ at'[p] = (IF p = Loop THEN "tick" ELSE "idle")
      /\ \A q \in Procs : q # p => at'[q] = at[q] /\ on'[q] = on[q]
  BY Goes DEF IInv, Places, AtFile
<1>4. /\ tail' \in [Files -> Tails \cup {Nobody}] /\ tail'[on[p]] = Nobody
      /\ \A g \in Files : g # on[p] => tail'[g] = tail[g] /\ (Active(g)' <=> Active(g))
      /\ live' = live /\ failed' \subseteq Tails /\ doubled' \in BOOLEAN /\ rushed' \in BOOLEAN
      /\ (rushed' <=> rushed \/ Busy(on[p], p))
  BY <1>2, MissesFile DEF IInv
<1>5. TypeOK'
  BY <1>3, <1>4 DEF IInv, TypeOK, Cases
<1>6. PlaceInv' /\ DeadInv' /\ CrashHasCause'
  <2>1. PlaceInv'
    BY <1>3 DEF IInv, PlaceInv, AtFile, LoopPlaces, HandlerPlaces
  <2>2. DeadInv' /\ CrashHasCause'
    BY <1>3 DEF IInv, DeadInv, CrashHasCause
  <2>. QED BY <2>1, <2>2
<1>7. ActiveIsWatched'
  BY <1>3, <1>4, StillWatched DEF IInv, TypeOK, Cases, Queued
<1>8. crashed' = "no" => LockInv'
  BY <1>3 DEF IInv, LockInv, Readers
<1>9. crashed' = "no" => ChanInv'
  BY <1>3 DEF IInv, ChanInv, Readers, Cases
<1>10. crashed' = "no" => UseInv'
  BY <1>2, <1>3, <1>4, OthersUsed DEF IInv, Using
<1>. QED BY <1>5, <1>6, <1>7, <1>8, <1>9, <1>10 DEF IInv

(* A file that was stopped has no tail, which only matters to others that  *)
(* are at it.                                                              *)
LEMMA StopsInv ==
  ASSUME IInv, NEW p \in Procs, (p \in Handlers \cup {Stopper} /\ at[p] = "halt") \/ (p = Loop /\ at[p] = "unwatch"),
         Active(on[p]), StopTail(p, on[p]), Go(p, IF p = Loop THEN "select" ELSE After(p)), died' \in BOOLEAN,
         UNCHANGED <<retries, chanVars, watched, valid, tries, todo, doubled, boundVars, crashed>>
  PROVE  IInv'
<1>. USE Constants DEF After, tailVars, chanVars, loopVars, procVars, boundVars, ghostVars
<1>1. p \in Procs /\ crashed = "no" /\ LockInv /\ ChanInv /\ UseInv
  BY Constants, Running DEF IInv
<1>2. on[p] \in Files /\ p \in Handlers \cup {Stopper, Loop}
  BY Constants DEF IInv, PlaceInv, AtFile
<1>3. /\ at' \in [Procs -> Places] /\ on' \in [Procs -> Files \cup {Nobody}]
      /\ at'[p] = (IF p = Loop THEN "select" ELSE After(p))
      /\ \A q \in Procs : q # p => at'[q] = at[q] /\ on'[q] = on[q]
  BY Goes DEF IInv, Places, AtFile
<1>4. /\ tail' \in [Files -> Tails \cup {Nobody}] /\ live' \subseteq live /\ failed' = failed
      /\ \A g \in Files : tail'[g] \in {tail[g], Nobody} /\ (g # on[p] => tail'[g] = tail[g] /\ (Active(g)' <=> Active(g)))
      /\ rushed' \in BOOLEAN /\ (rushed => rushed')
      /\ rushed' \/ ~Busy(on[p], p) \/ (\A g \in Files : Active(g)' <=> Active(g))
  BY <1>2, StopsTail DEF IInv, Active
<1>5. Nobody \notin live
  BY Constants DEF IInv, TypeOK
<1>6. TypeOK'
  BY <1>3, <1>4 DEF IInv, TypeOK, Cases
<1>7. PlaceInv' /\ DeadInv' /\ CrashHasCause'
  <2>1. PlaceInv'
    BY <1>3 DEF IInv, PlaceInv, AtFile, LoopPlaces, StopperPlaces, HandlerPlaces
  <2>2. DeadInv' /\ CrashHasCause'
    BY <1>3 DEF IInv, DeadInv, CrashHasCause
  <2>. QED BY <2>1, <2>2
<1>8. ActiveIsWatched'
  BY <1>3, <1>4, StillWatched DEF IInv, TypeOK, Cases, Queued
<1>9. crashed' = "no" => LockInv'
  BY <1>3 DEF IInv, LockInv, Readers, Stopping
<1>10. crashed' = "no" => ChanInv'
  BY <1>3 DEF IInv, ChanInv, Readers, Cases
<1>11. crashed' = "no" => UseInv'
  <2>1. CASE \A g \in Files : Active(g)' <=> Active(g)
    BY <1>3, <1>4, <2>1, StillUsed DEF IInv, Using, Queued
  <2>2. CASE rushed' \/ ~Busy(on[p], p)
    BY <1>2, <1>3, <1>4, <2>2, OthersUsed DEF IInv, Using
  <2>. QED BY <1>4, <2>1, <2>2
<1>. QED BY <1>6, <1>7, <1>8, <1>9, <1>10, <1>11 DEF IInv

(* The file put into the channel is active, and there was room.            *)
LEMMA EnqueueInv ==
  ASSUME IInv, NEW p \in Handlers \cup {Loop}, at[p] = "queue", Enqueue(p),
         Go(p, IF p = Loop THEN "tick" ELSE "idle"), retries' \in [Files -> 0 .. MaxRetries], tries' \in 0 .. MaxRetries,
         UNCHANGED <<tail, live, failed, chan, cap, writer, watched, valid, died, todo, ghostVars, boundVars, crashed>>
  PROVE  IInv'
<1>. USE Constants DEF tailVars, chanVars, loopVars, procVars, boundVars, ghostVars
<1>1. p \in Procs /\ crashed = "no" /\ LockInv /\ ChanInv /\ UseInv
  BY Constants, Running DEF IInv
<1>2. p # Stopper /\ on[p] \in Files
  BY Constants DEF IInv, PlaceInv, AtFile
<1>3. /\ at' \in [Procs -> Places] /\ on' \in [Procs -> Files \cup {Nobody}]
      /\ at'[p] = (IF p = Loop THEN "tick" ELSE "idle")
      /\ \A q \in Procs : q # p => at'[q] = at[q] /\ on'[q] = on[q]
  BY Goes DEF IInv, Places, AtFile
<1>4. added' \in Seq(Files) /\ Len(added') <= cap' /\ Queued' = Queued \cup {on[p]} /\ p \in Readers
  BY <1>2, AppendQueued DEF Enqueue, IInv, TypeOK, Readers
<1>5. TypeOK'
  BY <1>3, <1>4 DEF IInv, TypeOK, Cases
<1>6. PlaceInv' /\ DeadInv' /\ CrashHasCause'
  <2>1. PlaceInv'
    BY <1>3 DEF IInv, PlaceInv, AtFile, LoopPlaces, HandlerPlaces
  <2>2. DeadInv' /\ CrashHasCause'
    BY <1>3 DEF IInv, DeadInv, CrashHasCause
  <2>. QED BY <2>1, <2>2
<1>7. ActiveIsWatched'
  BY <1>3, <1>4, StillWatched DEF IInv, Cases
<1>8. crashed' = "no" => LockInv'
  BY <1>3 DEF IInv, LockInv, Readers
<1>9. crashed' = "no" => ChanInv'
  BY <1>3 DEF IInv, LockInv, ChanInv, Readers, Stopping
<1>10. crashed' = "no" => UseInv'
  <2>1. CASE rushed
    BY <2>1 DEF UseInv
  <2>2. CASE ~rushed
    <3>1. \A f \in valid' \cup Queued' : Active(f)'
      BY <1>1, <1>4, <2>2 DEF UseInv, Active
    <3>2. ASSUME NEW q \in Procs, at'[q] \in {"mark", "halt", "unwatch", "queue"} PROVE Active(on[q])'
      BY <1>1, <1>3, <2>2, <3>2 DEF UseInv, Active
    <3>. QED BY <3>1, <3>2 DEF UseInv
  <2>. QED BY <2>1, <2>2
<1>. QED BY <1>5, <1>6, <1>7, <1>8, <1>9, <1>10 DEF IInv

(* Whoever leaves a file to others changes nothing for them.               *)
LEMMA IdlesInv ==
  ASSUME IInv, NEW p \in Handlers, at[p] # "queue", at[p] # "dead", Go(p, "idle"),
         UNCHANGED <<tailVars, chanVars, loopVars, todo, ghostVars, boundVars, crashed>>, TRUE
  PROVE  IInv'
<1>. USE Constants DEF Active, tailVars, chanVars, loopVars, procVars, boundVars, ghostVars
<1>1. p \in Procs /\ crashed = "no" /\ LockInv /\ ChanInv /\ UseInv
  BY Constants, Running DEF IInv
<1>2. p # Loop /\ p # Stopper
  BY Constants
<1>3. /\ at' \in [Procs -> Places] /\ on' \in [Procs -> Files \cup {Nobody}]
      /\ at'[p] = "idle"
      /\ \A q \in Procs : q # p => at'[q] = at[q] /\ on'[q] = on[q]
  BY Goes DEF IInv, Places, AtFile
<1>4. TypeOK'
  BY <1>3 DEF IInv, TypeOK, Cases
<1>5. PlaceInv' /\ DeadInv' /\ CrashHasCause'
  <2>1. PlaceInv'
    BY <1>3 DEF IInv, PlaceInv, AtFile, HandlerPlaces
  <2>2. DeadInv' /\ CrashHasCause'
    BY <1>3 DEF IInv, DeadInv, CrashHasCause
  <2>. QED BY <2>1, <2>2
<1>6. ActiveIsWatched'
  BY <1>3, StillWatched DEF IInv, Cases, Queued
<1>7. crashed' = "no" => LockInv'
  BY <1>3 DEF IInv, LockInv, Readers
<1>8. crashed' = "no" => ChanInv'
  BY <1>3 DEF IInv, ChanInv, Readers, Cases
<1>9. crashed' = "no" => UseInv'
  BY <1>3 DEF IInv, UseInv, Queued
<1>. QED BY <1>4, <1>5, <1>6, <1>7, <1>8, <1>9 DEF IInv

(* run sets one file up.                                                   *)
LEMMA SetupInv ==
  ASSUME IInv, NEW f \in Files, Setup(f)
  PROVE  IInv'
<1>. USE Constants DEF tailVars, chanVars, loopVars, procVars, boundVars, ghostVars
<1>1. at[Loop] = "setup" /\ crashed = "no" /\ LockInv /\ ChanInv /\ UseInv
  BY Running DEF IInv, Setup
<1>2. todo' \in [Procs -> SUBSET Files] /\ UNCHANGED <<chanVars, watched, tries, died, at, on, boundVars, crashed>>
  BY DEF Setup, IInv, TypeOK
<1>3. retries' \in [Files -> 0 .. MaxRetries]
  <2>1. 0 \in 0 .. MaxRetries /\ MaxRetries \in 0 .. MaxRetries /\ (Retry(f, 0) \/ Retry(f, MaxRetries))
    BY DEF Setup
  <2>. QED BY <2>1 DEF Retry, IInv, TypeOK
<1>4. /\ tail' \in [Files -> Tails \cup {Nobody}] /\ live' \subseteq Tails /\ failed' \subseteq Tails
      /\ doubled' \in BOOLEAN /\ rushed' \in BOOLEAN /\ (rushed => rushed')
      /\ \A g \in Files : g # f => tail'[g] = tail[g] /\ (tail[g] \in live' => tail[g] \in live)
      /\ valid' \in {valid, valid \cup {f}} /\ (tail'[f] = Nobody \/ f \in valid')
  <2>1. CASE Opens(f, Loop) /\ valid' = valid \cup {f}
    <3>1. TypeOK
      BY DEF IInv
    <3>. QED BY <2>1, <3>1, OpensFile
  <2>2. CASE Misses(f, Loop) /\ UNCHANGED valid
    <3>1. TypeOK
      BY DEF IInv
    <3>2. live' = live /\ valid' = valid /\ live \subseteq Tails /\ (rushed => rushed')
      BY <2>2, <3>1, MissesFile DEF TypeOK
    <3>3. /\ tail' \in [Files -> Tails \cup {Nobody}] /\ tail'[f] = Nobody
          /\ failed' \subseteq Tails /\ doubled' \in BOOLEAN /\ rushed' \in BOOLEAN
      BY <2>2, <3>1, MissesFile
    <3>4. \A g \in Files : g # f => tail'[g] = tail[g]
      BY <2>2, <3>1, MissesFile
    <3>. QED BY <3>2, <3>3, <3>4
  <2>. QED BY <2>1, <2>2 DEF Setup
<1>5. TypeOK'
  BY <1>2, <1>3, <1>4 DEF IInv, TypeOK, Cases
<1>6. PlaceInv' /\ DeadInv' /\ CrashHasCause'
  BY <1>1, <1>2 DEF IInv, PlaceInv, DeadInv, CrashHasCause
<1>7. ActiveIsWatched'
  <2>1. Queued' = Queued /\ Cases' = Cases /\ valid \subseteq valid' /\ Nobody \notin live'
    BY <1>2, <1>4 DEF Queued, Cases
  <2>. QED BY <1>2, <1>4, <2>1 DEF IInv, ActiveIsWatched
<1>8. LockInv' /\ ChanInv'
  BY <1>1, <1>2 DEF LockInv, ChanInv, Readers, Cases
<1>9. UseInv'
  <2>1. CASE Opens(f, Loop)
    <3>1. TypeOK /\ PlaceInv
      BY DEF IInv
    <3>2. (rushed => rushed') /\ tail'[f] # Nobody /\ \A g \in Files : Active(g) => tail'[g] # Nobody
      BY <2>1, <3>1, OpensFile DEF Active
    <3>3. CASE rushed
      BY <3>2, <3>3 DEF UseInv
    <3>4. CASE ~rushed
      <4>1. Queued' = Queued /\ valid' \subseteq valid \cup {f}
        BY <1>2, <1>4 DEF Queued
      <4>2. \A g \in valid' \cup Queued' : g \in Files /\ tail'[g] # Nobody
        BY <1>1, <3>1, <3>2, <3>4, <4>1, UsedFiles DEF UseInv
      <4>3. \A q \in Procs : at'[q] \in Using => tail'[on'[q]] # Nobody
        BY <1>1, <1>2, <3>1, <3>2, <3>4, UsedFiles DEF UseInv, Using
      <4>. QED BY <4>2, <4>3 DEF UseInv, Using, Active
    <3>. QED BY <3>3, <3>4
  <2>2. CASE Misses(f, Loop) /\ UNCHANGED valid
    <3>1. rushed' \/ ~Busy(f, Loop)
      BY <2>2, MissesFile DEF IInv
    <3>2. \A g \in Files : g # f /\ Active(g) => Active(g)'
      BY <2>2, MissesFile DEF IInv
    <3>. QED BY <1>1, <1>2, <1>4, <2>2, <3>1, <3>2, OthersUsed DEF IInv, Using
  <2>. QED BY <2>1, <2>2 DEF Setup
<1>. QED BY <1>5, <1>6, <1>7, <1>8, <1>9 DEF IInv

(* collectFileTails: nothing was read before, and nothing is in a channel. *)
LEMMA CollectInv ==
  ASSUME IInv, Collect
  PROVE  IInv'
<1>. USE Constants DEF tailVars, chanVars, loopVars, procVars, boundVars, ghostVars
<1>1. at[Loop] = "setup" /\ crashed = "no" /\ LockInv /\ ChanInv /\ UseInv /\ writer = Nobody
  BY Running DEF IInv, Collect
<1>2. CASE \E f \in valid : ~Active(f)
  <2>1. rushed /\ Crash("panic")
    BY <1>1, <1>2 DEF Collect, UseInv
  <2>. QED BY <2>1, CrashInv
<1>3. CASE \A f \in valid : Active(f)
  <2>1. /\ watched' = SetToBag({<<f, tail[f]>> : f \in valid})
        /\ chan' = "open" /\ added' = <<>> /\ cap' = Cardinality(valid) + 3 /\ valid' = {}
        /\ Go(Loop, "select")
        /\ UNCHANGED <<tailVars, writer, tries, died, todo, ghostVars, boundVars, crashed>>
    BY <1>3 DEF Collect
  <2>2. /\ at' \in [Procs -> Places] /\ on' \in [Procs -> Files \cup {Nobody}] /\ at'[Loop] = "select"
        /\ \A q \in Procs : q # Loop => at'[q] = at[q] /\ on'[q] = on[q]
    BY <2>1, Goes DEF IInv, Places, AtFile
  <2>3. IsABag(watched)' /\ Cases' = {<<f, tail[f]>> : f \in valid}
    BY <2>1, CasesSet
  <2>4. cap' \in Nat /\ valid \subseteq Files
    <3>1. IsFiniteSet(valid) /\ valid \subseteq Files
      BY FileAssumption, FS_Subset DEF IInv, TypeOK
    <3>. QED BY <2>1, <3>1, FS_CardinalityType
  <2>5. \A f \in valid : tail[f] \in Tails
    BY <1>3 DEF IInv, TypeOK, Active
  <2>6. TypeOK'
    BY <2>1, <2>2, <2>3, <2>4, <2>5 DEF IInv, TypeOK
  <2>7. PlaceInv'
    BY <2>2 DEF IInv, PlaceInv, AtFile, LoopPlaces
  <2>8. DeadInv' /\ CrashHasCause'
    BY <1>1, <2>1, <2>2 DEF IInv, DeadInv, CrashHasCause
  <2>9. ActiveIsWatched'
    <3>1. Queued = {} /\ Cases = {} /\ Readers = {}
      BY <1>1, EmptyQueued DEF ChanInv
    <3>. QED BY <2>1, <2>3, <3>1 DEF IInv, ActiveIsWatched, Readers
  <2>10. LockInv' /\ ChanInv'
    BY <1>1, <2>1, <2>2 DEF LockInv, ChanInv
  <2>11. UseInv'
    <3>1. TypeOK /\ PlaceInv /\ rushed' = rushed /\ tail' = tail
      BY <2>1 DEF IInv
    <3>2. valid' = {} /\ Queued' = {}
      BY <2>1 DEF Queued
    <3>3. \A q \in Procs : at'[q] \in Using => at[q] \in Using /\ on'[q] = on[q]
      BY <2>2 DEF Using
    <3>. QED BY <1>1, <3>1, <3>2, <3>3, StillUsed DEF Active
  <2>. QED BY <2>6, <2>7, <2>8, <2>9, <2>10, <2>11 DEF IInv
<1>. QED BY <1>2, <1>3

-----------------------------------------------------------------------------
(* The other actions are those above, or crash with a cause.               *)

(* addFileWatcher, by a handler.                                           *)
LEMMA AddFileInv == ASSUME IInv, NEW h \in Handlers, AddFile(h) PROVE IInv'
<1>. USE Constants
<1>1. /\ h \in Procs /\ h # Loop /\ at[h] = "add" /\ writer = Nobody /\ UNCHANGED <<chanVars, loopVars, todo, boundVars, crashed>>
      /\ on[h] \in Files
  BY DEF AddFile, IInv, PlaceInv, AtFile
<1>2. CASE chan # "nil" /\ Opens(on[h], h) /\ Retry(on[h], 0) /\ Go(h, "queue")
  BY <1>1, <1>2, OpensInv
<1>3. CASE Misses(on[h], h) /\ Retry(on[h], MaxRetries) /\ Go(h, "idle")
  <2>1. MaxRetries \in 0 .. MaxRetries
    OBVIOUS
  <2>2. retries' \in [Files -> 0 .. MaxRetries] /\ tries' \in 0 .. MaxRetries /\ died' \in BOOLEAN
    BY <1>1, <1>3 DEF Retry, IInv, TypeOK, loopVars
  <2>. QED BY <1>1, <1>3, <2>2, MissesInv DEF loopVars
<1>4. CASE Go(h, "idle") /\ UNCHANGED <<tailVars, ghostVars>>
  BY <1>1, <1>4, IdlesInv
<1>. QED BY <1>2, <1>3, <1>4 DEF AddFile

(* addFileWatcher, by the ticker of the loop.                              *)
LEMMA RestartInv == ASSUME IInv, Restart PROVE IInv'
<1>. USE Constants
<1>1. /\ at[Loop] = "restart" /\ writer = Nobody /\ UNCHANGED <<chanVars, watched, valid, todo, boundVars, crashed>>
      /\ on[Loop] \in Files
  BY DEF Restart, IInv, PlaceInv, AtFile
<1>2. chan # "nil"
  BY <1>1, Running DEF ChanInv
<1>3. CASE Opens(on[Loop], Loop) /\ Retry(on[Loop], 0) /\ Go(Loop, "queue") /\ UNCHANGED <<tries, died>>
  BY <1>1, <1>2, <1>3, OpensInv DEF loopVars
<1>4. CASE Misses(on[Loop], Loop) /\ Retry(on[Loop], tries) /\ Go(Loop, "tick") /\ tries' = 0 /\ died' = TRUE
  <2>1. retries' \in [Files -> 0 .. MaxRetries] /\ tries' \in 0 .. MaxRetries /\ died' \in BOOLEAN
    BY <1>1, <1>4 DEF Retry, IInv, TypeOK
  <2>. QED BY <1>1, <1>4, <2>1, MissesInv
<1>. QED BY <1>3, <1>4 DEF Restart

(* w.stop, by a handler or by cmd.stop.                                    *)
LEMMA HaltInv == ASSUME IInv, NEW p \in Handlers \cup {Stopper}, Halt(p) PROVE IInv'
<1>. USE Constants
<1>1. p \in Procs /\ p # Loop /\ at[p] = "halt"
  BY DEF Halt
<1>2. crashed = "no" /\ UseInv /\ died \in BOOLEAN
  BY <1>1, Running DEF IInv, TypeOK
<1>3. CASE /\ Active(on[p]) /\ StopTail(p, on[p]) /\ Go(p, After(p))
           /\ UNCHANGED <<retries, chanVars, loopVars, todo, doubled, boundVars, crashed>>
  BY <1>1, <1>2, <1>3, StopsInv DEF loopVars
<1>4. CASE p \in Handlers /\ Go(p, "idle") /\ UNCHANGED <<tailVars, chanVars, loopVars, todo, ghostVars, boundVars, crashed>>
  BY <1>1, <1>4, IdlesInv
<1>5. CASE ~Active(on[p]) /\ p = Stopper /\ Crash("panic")
  BY <1>1, <1>2, <1>5, CrashInv DEF UseInv
<1>. QED BY <1>3, <1>4, <1>5 DEF Halt

(* w.stop, by the loop.                                                    *)
LEMMA UnwatchInv == ASSUME IInv, Unwatch PROVE IInv'
<1>. USE Constants
<1>1. at[Loop] = "unwatch"
  BY DEF Unwatch
<1>2. crashed = "no" /\ UseInv
  BY <1>1, Running
<1>3. CASE Active(on[Loop])
  BY <1>1, <1>3, StopsInv DEF Unwatch
<1>4. CASE ~Active(on[Loop])
  BY <1>2, <1>4, CrashInv DEF Unwatch, UseInv
<1>. QED BY <1>3, <1>4

(* A file that was added is read.                                          *)
LEMMA TakeInv == ASSUME IInv, Take PROVE IInv'
<1>. USE Constants
<1>1. at[Loop] = "select" /\ added # <<>>
  BY DEF Take
<1>2. crashed = "no" /\ UseInv /\ Head(added) \in Queued
  BY <1>1, Running DEF Queued
<1>3. CASE Active(Head(added))
  BY <1>1, <1>3, TakeActiveInv DEF Take
<1>4. CASE ~Active(Head(added))
  BY <1>2, <1>4, CrashInv DEF Take, UseInv
<1>. QED BY <1>3, <1>4

(* A file is put into the channel, by a handler                            *)
LEMMA QueueFileInv == ASSUME IInv, NEW h \in Handlers, QueueFile(h) PROVE IInv'
<1>1. h # Loop /\ tries \in 0 .. MaxRetries /\ retries \in [Files -> 0 .. MaxRetries]
  BY Constants DEF IInv, TypeOK
<1>. QED BY <1>1, EnqueueInv DEF QueueFile, tailVars, loopVars

(* or by the ticker.                                                       *)
LEMMA QueueRestartInv == ASSUME IInv, QueueRestart PROVE IInv'
<1>1. /\ tries \in 0 .. MaxRetries /\ retries \in [Files -> 0 .. MaxRetries]
      /\ retries' = [retries EXCEPT ![on[Loop]] = tries]
  BY DEF IInv, TypeOK, QueueRestart
<1>2. 0 \in 0 .. MaxRetries
  BY Constants
<1>3. retries' \in [Files -> 0 .. MaxRetries]
  BY <1>1
<1>. QED BY <1>2, <1>3, EnqueueInv DEF QueueRestart

(* cmd.stop closes the channel, if there is one.                           *)
LEMMA StopCloseInv == ASSUME IInv, StopClose PROVE IInv'
<1>1. CASE chan = "nil"
  BY <1>1, CrashInv DEF StopClose
<1>2. CASE chan # "nil"
  BY <1>2, StopClosesInv
<1>. QED BY <1>1, <1>2

-----------------------------------------------------------------------------
(* It holds at first.                                                       *)
LEMMA InitInv == Init => IInv
<1>. SUFFICES ASSUME Init PROVE IInv
  OBVIOUS
<1>. USE Constants DEF Init
<1>1. Cases = {} /\ IsABag(watched) /\ Queued = {}
  BY CasesEmpty, EmptyQueued
<1>2. TypeOK
  <2>1. /\ tail \in [Files -> Tails \cup {Nobody}] /\ live \subseteq Tails /\ failed \subseteq Tails
        /\ on \in [Procs -> Files \cup {Nobody}] /\ todo \in [Procs -> SUBSET Files] /\ valid \subseteq Files
    OBVIOUS
  <2>2. retries \in [Files -> 0 .. MaxRetries] /\ tries \in 0 .. MaxRetries
    OBVIOUS
  <2>3. Cases \subseteq Files \X Tails /\ added \in Seq(Files) /\ cap \in Nat /\ Len(added) <= cap
    BY <1>1
  <2>4. chan \in {"nil", "open", "closed"} /\ writer \in {Nobody, Stopper} /\ crashed \in {"no", "early", "panic"}
    OBVIOUS
  <2>5. at \in [Procs -> Places]
    BY DEF Places
  <2>6. calls \in 0 .. MaxCalls /\ restarts \in 0 .. MaxRestarts
    OBVIOUS
  <2>7. died \in BOOLEAN /\ doubled \in BOOLEAN /\ rushed \in BOOLEAN
    OBVIOUS
  <2>. QED BY <1>1, <2>5, <2>7 DEF TypeOK
<1>3. PlaceInv /\ DeadInv /\ CrashHasCause /\ ActiveIsWatched
  BY DEF PlaceInv, DeadInv, CrashHasCause, ActiveIsWatched, LoopPlaces, StopperPlaces,
     HandlerPlaces, AtFile
<1>4. LockInv /\ ChanInv /\ UseInv
  BY <1>1 DEF LockInv, ChanInv, UseInv, Readers, Stopping
<1>. QED BY <1>2, <1>3, <1>4 DEF IInv

(* Every step is one of the above.                                         *)
LEMMA NextInv == IInv /\ [Next]_vars => IInv'
<1>. SUFFICES ASSUME IInv, [Next]_vars PROVE IInv'
  OBVIOUS
<1>1. CASE \E t \in Tails : TailDies(t)
  BY <1>1, TailDiesInv
<1>2. CASE \E h \in Handlers : Call(h) \/ AddFile(h) \/ QueueFile(h)
  BY <1>2, CallInv, AddFileInv, QueueFileInv
<1>3. CASE \E p \in Handlers \cup {Stopper} : StopSteps(p)
  BY <1>3, StopCheckInv, MarkInv, HaltInv DEF StopSteps
<1>4. CASE Inner
  BY <1>4, SetupInv, TickFileInv, CollectInv, KillInv, UnwatchInv, TickEndsInv, RestartInv, QueueRestartInv
     DEF Inner
<1>5. CASE Serves \/ \E c \in Cases : Line(c)
  BY <1>5, TakeInv, TickInv, LeaveInv, GoneInv, LineInv DEF Serves
<1>6. CASE StopLock \/ StopClose \/ StopEnds \/ \E f \in Files : StopFile(f)
  BY <1>6, StopLockInv, StopCloseInv, StopEndsInv, StopFileInv
<1>7. CASE StopAnnounce \/ RunAgain
  BY <1>7, StopAnnounceInv, RunAgainInv
<1>8. CASE UNCHANGED vars
  BY <1>8 DEF vars, tailVars, chanVars, loopVars, procVars, boundVars, ghostVars, IInv, TypeOK,
     PlaceInv, DeadInv,
              CrashHasCause, ActiveIsWatched, LockInv, ChanInv, UseInv, Cases, Queued, Readers, Active
<1>. QED BY <1>1, <1>2, <1>3, <1>4, <1>5, <1>6, <1>7, <1>8 DEF Next, HandlerStep, StopperStep

(* What is invariant, for any files, handlers and tails, and any bounds.   *)
THEOREM Invariance == Spec => []IInv
BY InitInv, NextInv, PTL DEF Spec

(* The types are kept, and the channel its capacity.                       *)
THEOREM TypeCorrect == Spec => []TypeOK
<1>1. IInv => TypeOK
  BY DEF IInv
<1>. QED BY <1>1, Invariance, PTL

(* No tail that lives is forgotten: the loop reads it or is about to.      *)
THEOREM NoTailForgotten == Spec => []ActiveIsWatched
<1>1. IInv => ActiveIsWatched
  BY DEF IInv
<1>. QED BY <1>1, Invariance, PTL

(* When cmd.stop has returned, no file is read or about to be.             *)
THEOREM StopsAreComplete == Spec => []StopIsComplete
<1>1. IInv => StopIsComplete
  <2>. SUFFICES ASSUME IInv, at[Stopper] = "stopped" PROVE /\ Cases = {} /\ added = <<>> /\ Readers = {}
                                                          /\ \A f \in Files : tail[f] \notin live
    BY DEF StopIsComplete
  <2>1. crashed = "no" /\ ChanInv
    BY Constants, Running
  <2>2. Cases = {} /\ added = <<>> /\ Readers = {} /\ valid = {}
    BY <2>1 DEF ChanInv
  <2>. QED BY <2>1, <2>2, EmptyQueued DEF IInv, ActiveIsWatched, Readers
<1>. QED BY <1>1, Invariance, PTL

(* A panic of the loop or of cmd.stop comes only of a file that is started *)
(* or stopped by two at a time.                                            *)
THEOREM PanicsHaveCauses == Spec => []CrashHasCause
<1>1. IInv => CrashHasCause
  BY DEF IInv
<1>. QED BY <1>1, Invariance, PTL
=============================================================================
