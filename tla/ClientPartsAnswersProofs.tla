---------------------- MODULE ClientPartsAnswersProofs ----------------------
(***************************************************************************)
(* Proof of what the client answers and does once: the handlers of its API, the *)
(* requests that many jobs answer together, the cooldown of webhooks and what *)
(* is told of Plex sessions.  The names of their invariants begin as their *)
(* definitions do in ClientParts.                                          *)
(***************************************************************************)
EXTENDS ClientParts, FiniteSetTheorems, SequenceTheorems, TLAPS

-----------------------------------------------------------------------------
(* The API handlers (ApiRequests).                                         *)
LEMMA ApiCardinality == ASSUME NEW S PROVE Api!Cardinality(S) = Cardinality(S)
BY DEF Api!Cardinality, Cardinality

LEMMA ApiFinite == Api!RequestsAssumption => IsFiniteSet(Requests)
BY DEF Api!RequestsAssumption, Api!IsFiniteSet, IsFiniteSet

ApiSteps == [do : Api!Kinds, code : 0..599]
ApiRequest ==
  [at : {"idle", "work", "answered"}, ok : 0..599, steps : Seq(ApiSteps), load : Nat, code : 0..599, due : 0..1,
   done : 0..1, noted : BOOLEAN, alone : BOOLEAN]

ApiTypeInv ==
  /\ req \in [Requests -> ApiRequest] /\ apiLoads \in Api!Loads /\ copies \in Nat
  /\ tokens \in [Api!Loads -> Nat] /\ refills \in [Api!Loads -> Nat]
  /\ \A r \in Requests : req[r].load \in 1..apiLoads

(* What is left of a handler is a handler, and after what it has done there *)
(* are only failures that say so.                                          *)
ApiLeft(steps) == \E i \in DOMAIN steps : steps[i].do \in Api!Effects
ApiLate(steps) == \A i \in DOMAIN steps : steps[i].do = "refuse" /\ Api!IsLate(steps[i].code)
ApiAtWork(q) ==
  /\ Api!OneEffect(q.steps) /\ Api!AllTell(q.ok, q.steps)
  /\ q.done = 1 => ApiLate(q.steps)
  /\ \/ q.noted /\ q.steps = <<>>
     \/ q.due = IF ApiLeft(q.steps) THEN 1 ELSE q.done
ApiAnswered(q) ==
  /\ q.code = q.ok => q.done = q.due \/ q.noted
  /\ q.done = 1 => q.code = q.ok \/ Api!IsLate(q.code)
ApiRequestInv(q) ==
  /\ q.at = "idle" => q.done = 0 /\ q.alone
  /\ q.at = "work" => ApiAtWork(q)
  /\ q.at = "answered" => ApiAnswered(q)

(* Each copy but the first is one that a request has made.                 *)
ApiCopyInv == copies <= 1 + Cardinality({r \in Requests : req[r].done = 1})

(* When no two were ever at work at once, the one that is has looked before *)
(* it adds.                                                                *)
ApiAloneInv ==
  (\A r \in Requests : req[r].alone) =>
    /\ copies <= 1
    /\ \A r, s \in Requests : req[r].at = "work" /\ req[s].at = "work" => r = s
    /\ \A r \in Requests : req[r].at = "work" /\ copies > 0 => Api!LooksFirst(req[r].steps)

ApiIInv == ApiTypeInv /\ (\A r \in Requests : ApiRequestInv(req[r])) /\ ApiCopyInv /\ ApiAloneInv

-----------------------------------------------------------------------------
LEMMA ApiInitInv == ASSUME Api!RequestsAssumption, Api!Init PROVE ApiIInv
<1>1. ApiTypeInv
  <2>1. Api!Idle \in ApiRequest
    BY DEF Api!Idle, ApiRequest
  <2>2. 1 \in Api!Loads /\ Deletes \in Nat
    BY DEF Api!RequestsAssumption, Api!Loads
  <2>. QED BY <2>1, <2>2 DEF Api!Init, ApiTypeInv, Api!Idle
<1>2. \A r \in Requests : ApiRequestInv(req[r])
  BY DEF Api!Init, ApiRequestInv, Api!Idle
<1>3. ApiCopyInv
  <2>. DEFINE S == {r \in Requests : req[r].done = 1}
  <2>1. S = {}
    BY DEF Api!Init, Api!Idle
  <2>2. Cardinality(S) = 0
    BY <2>1, FS_EmptySet
  <2>. QED BY <2>2 DEF Api!Init, ApiCopyInv
<1>4. ApiAloneInv
  BY DEF Api!Init, ApiAloneInv, Api!Idle
<1>. QED BY <1>1, <1>2, <1>3, <1>4 DEF ApiIInv

-----------------------------------------------------------------------------
(* What is left when the first step is taken away.                         *)
LEMMA ApiTailIs ==
  ASSUME NEW steps \in Seq(ApiSteps), steps # <<>>, NEW ok, Api!OneEffect(steps), Api!AllTell(ok, steps)
  PROVE  /\ Head(steps) \in ApiSteps /\ Tail(steps) \in Seq(ApiSteps)
         /\ Api!OneEffect(Tail(steps)) /\ Api!AllTell(ok, Tail(steps)) /\ Api!Tells(ok, Head(steps))
         /\ ApiLeft(steps) <=> Head(steps).do \in Api!Effects \/ ApiLeft(Tail(steps))
         /\ Head(steps).do \in Api!Effects => ApiLate(Tail(steps)) /\ ~ApiLeft(Tail(steps))
         /\ ApiLate(steps) => ApiLate(Tail(steps)) /\ Head(steps).do = "refuse" /\ Api!IsLate(Head(steps).code)
         /\ Api!LooksFirst(steps) /\ Head(steps).do # "look" => Api!LooksFirst(Tail(steps))
         /\ Api!LooksFirst(steps) => Head(steps).do # "add"
<1>. DEFINE h == Head(steps)
            t == Tail(steps)
<1>1. /\ Len(steps) \in Nat \ {0} /\ h = steps[1] /\ t \in Seq(ApiSteps) /\ Len(t) = Len(steps) - 1
      /\ \A i \in 1..Len(t) : t[i] = steps[i + 1]
  OBVIOUS
<1>2. /\ DOMAIN steps = 1..Len(steps) /\ DOMAIN t = 1..Len(t) /\ Len(t) \in Nat
  BY <1>1
<1>3. \A i \in DOMAIN t : i + 1 \in DOMAIN steps /\ t[i] = steps[i + 1]
  BY <1>1, <1>2
<1>4. \A i \in DOMAIN steps : i = 1 \/ (i - 1 \in DOMAIN t /\ t[i - 1] = steps[i])
  BY <1>1, <1>2
<1>5. h \in ApiSteps
  BY <1>1
<1>6. h = steps[1] /\ 1 \in DOMAIN steps
  BY <1>1
<1>. HIDE DEF h, t
<1>7. Api!OneEffect(t)
  <2>1. ASSUME NEW i \in DOMAIN t, t[i].do \in Api!Effects, NEW j \in i + 1 .. Len(t)
        PROVE  t[j].do = "refuse" /\ Api!IsLate(t[j].code)
    <3>1. i + 1 \in DOMAIN steps /\ steps[i + 1].do \in Api!Effects /\ j \in DOMAIN t
      BY <1>2, <1>3, <2>1
    <3>2. j + 1 \in i + 2 .. Len(steps) /\ t[j] = steps[j + 1]
      BY <1>1, <1>2, <1>3, <2>1, <3>1
    <3>. QED BY <3>1, <3>2, <1>1, <1>2 DEF Api!OneEffect
  <2>. QED BY <2>1 DEF Api!OneEffect
<1>8. Api!AllTell(ok, t)
  BY <1>3 DEF Api!AllTell
<1>14. Api!Tells(ok, h)
  BY <1>6 DEF Api!AllTell
<1>9. ApiLeft(steps) <=> h.do \in Api!Effects \/ ApiLeft(t)
  BY <1>3, <1>4, <1>6 DEF ApiLeft
<1>10. ASSUME h.do \in Api!Effects PROVE ApiLate(t) /\ ~ApiLeft(t)
  <2>1. \A j \in 2 .. Len(steps) : steps[j].do = "refuse" /\ Api!IsLate(steps[j].code)
    BY <1>6, <1>10 DEF Api!OneEffect
  <2>2. \A i \in DOMAIN t : t[i].do = "refuse" /\ Api!IsLate(t[i].code)
    BY <1>1, <1>2, <2>1
  <2>. QED BY <2>2 DEF ApiLate, ApiLeft, Api!Effects
<1>11. ApiLate(steps) => ApiLate(t) /\ h.do = "refuse" /\ Api!IsLate(h.code)
  BY <1>3, <1>6 DEF ApiLate
<1>12. ASSUME Api!LooksFirst(steps), h.do # "look" PROVE Api!LooksFirst(t)
  <2>1. ASSUME NEW i \in DOMAIN t, t[i].do = "add" PROVE \E j \in 1..(i - 1) : t[j].do = "look"
    <3>1. i + 1 \in DOMAIN steps /\ steps[i + 1].do = "add" /\ i \in Nat /\ i <= Len(t)
      BY <1>2, <1>3, <2>1
    <3>2. PICK j \in 1..((i + 1) - 1) : steps[j].do = "look"
      BY <1>12, <3>1 DEF Api!LooksFirst
    <3>3. j # 1
      BY <1>6, <1>12, <3>2
    <3>4. j - 1 \in 1..(i - 1) /\ j \in DOMAIN steps
      BY <1>1, <1>2, <3>1, <3>2, <3>3
    <3>. QED BY <1>4, <3>2, <3>3, <3>4
  <2>. QED BY <2>1 DEF Api!LooksFirst
<1>13. Api!LooksFirst(steps) => h.do # "add"
  BY <1>6 DEF Api!LooksFirst
<1>. QED BY <1>1, <1>5, <1>7, <1>8, <1>9, <1>10, <1>11, <1>12, <1>13, <1>14 DEF h, t

LEMMA ApiNoSteps ==
  /\ Api!OneEffect(<<>>) /\ Api!LooksFirst(<<>>) /\ ~ApiLeft(<<>>) /\ ApiLate(<<>>)
  /\ \A ok : Api!AllTell(ok, <<>>)
BY DEF Api!OneEffect, Api!LooksFirst, ApiLeft, ApiLate, Api!AllTell

(* A handler does one thing, or nothing.                                   *)
LEMMA ApiDueIs ==
  ASSUME NEW steps \in Seq(ApiSteps), Api!OneEffect(steps)
  PROVE  Api!Due(steps) = IF ApiLeft(steps) THEN 1 ELSE 0
<1>. DEFINE S == {i \in DOMAIN steps : steps[i].do \in Api!Effects}
<1>1. CASE ApiLeft(steps)
  <2>1. PICK i \in DOMAIN steps : steps[i].do \in Api!Effects
    BY <1>1 DEF ApiLeft
  <2>2. ASSUME NEW j \in DOMAIN steps, steps[j].do \in Api!Effects PROVE j = i
    <3>1. i \in Nat /\ j \in Nat /\ i <= Len(steps) /\ j <= Len(steps)
      OBVIOUS
    <3>2. i < j => j \in i + 1 .. Len(steps)
      BY <3>1
    <3>3. j < i => i \in j + 1 .. Len(steps)
      BY <3>1
    <3>4. ~(i < j) /\ ~(j < i)
      BY <2>1, <2>2, <3>2, <3>3 DEF Api!OneEffect, Api!Effects
    <3>. QED BY <3>1, <3>4
  <2>3. S = {i}
    BY <2>1, <2>2
  <2>4. Cardinality(S) = 1
    BY <2>3, FS_Singleton
  <2>. QED BY <1>1, <2>4, ApiCardinality DEF Api!Due
<1>2. CASE ~ApiLeft(steps)
  <2>1. S = {}
    BY <1>2 DEF ApiLeft
  <2>2. Cardinality(S) = 0
    BY <2>1, FS_EmptySet
  <2>. QED BY <1>2, <2>2, ApiCardinality DEF Api!Due
<1>. QED BY <1>1, <1>2

-----------------------------------------------------------------------------
(* Request r goes on or is answered, and the rest of them stay as they are. *)
ApiMoves(r) ==
  /\ req[r].at = "work" /\ req'[r].at \in {"work", "answered"}
  /\ req' \in [Requests -> ApiRequest] /\ \A s \in Requests : s # r => req'[s] = req[s]
  /\ req'[r].load = req[r].load /\ req'[r].alone = req[r].alone
  /\ ApiRequestInv(req'[r])

LEMMA ApiMoveInv ==
  ASSUME Api!RequestsAssumption, ApiIInv, NEW r \in Requests, ApiMoves(r), apiLoads' = apiLoads,
         tokens' \in [Api!Loads -> Nat], refills' \in [Api!Loads -> Nat],
         \/ /\ copies' = copies /\ req'[r].done >= req[r].done
            /\ req'[r].at = "work" /\ copies > 0 /\ Api!LooksFirst(req[r].steps) => Api!LooksFirst(req'[r].steps)
         \/ /\ copies' = copies + 1 /\ req[r].done = 0 /\ req'[r].done = 1
            /\ ~Api!LooksFirst(req[r].steps) /\ Api!LooksFirst(req'[r].steps)
  PROVE  ApiIInv'
<1>. DEFINE S == {s \in Requests : req[s].done = 1}
            T == {s \in Requests : req'[s].done = 1}
<1>1. req \in [Requests -> ApiRequest] /\ copies \in Nat /\ apiLoads \in Api!Loads
  BY DEF ApiIInv, ApiTypeInv
<1>2. ApiTypeInv'
  <2>1. copies' \in Nat
    BY <1>1
  <2>2. \A s \in Requests : req'[s].load \in 1..apiLoads
    BY DEF ApiMoves, ApiIInv, ApiTypeInv
  <2>. QED BY <1>1, <2>1, <2>2 DEF ApiMoves, ApiTypeInv
<1>3. \A s \in Requests : ApiRequestInv(req'[s])
  BY DEF ApiMoves, ApiIInv
<1>4. req[r].done \in 0..1 /\ req'[r].done \in 0..1
  BY <1>1 DEF ApiMoves, ApiRequest
<1>5. IsFiniteSet(S) /\ IsFiniteSet(T) /\ Cardinality(S) \in Nat /\ Cardinality(T) \in Nat
  BY ApiFinite, FS_Subset, FS_CardinalityType
<1>6. ApiCopyInv'
  <2>1. CASE copies' = copies /\ req'[r].done >= req[r].done
    <3>1. S \subseteq T
      BY <1>4, <2>1 DEF ApiMoves
    <3>2. Cardinality(S) <= Cardinality(T)
      BY <1>5, <3>1, FS_Subset
    <3>. QED BY <1>1, <1>5, <2>1, <3>2 DEF ApiIInv, ApiCopyInv
  <2>2. CASE copies' = copies + 1 /\ req[r].done = 0 /\ req'[r].done = 1
    <3>1. r \notin S /\ T = S \cup {r}
      BY <2>2 DEF ApiMoves
    <3>2. Cardinality(T) = Cardinality(S) + 1
      BY <1>5, <3>1, FS_AddElement
    <3>. QED BY <1>1, <1>5, <2>2, <3>2 DEF ApiIInv, ApiCopyInv
  <2>. QED BY <2>1, <2>2
<1>7. ApiAloneInv'
  <2>1. SUFFICES ASSUME \A s \in Requests : req'[s].alone
                 PROVE  /\ copies' <= 1
                        /\ \A p, q \in Requests : req'[p].at = "work" /\ req'[q].at = "work" => p = q
                        /\ \A q \in Requests : req'[q].at = "work" /\ copies' > 0 => Api!LooksFirst(req'[q].steps)
    BY DEF ApiAloneInv
  <2>2. \A s \in Requests : req[s].alone
    BY <2>1 DEF ApiMoves
  <2>3. /\ copies <= 1
        /\ \A p, q \in Requests : req[p].at = "work" /\ req[q].at = "work" => p = q
        /\ \A q \in Requests : req[q].at = "work" /\ copies > 0 => Api!LooksFirst(req[q].steps)
    BY <2>2 DEF ApiIInv, ApiAloneInv
  <2>4. \A q \in Requests : req'[q].at = "work" => q = r
    BY <2>3 DEF ApiMoves
  <2>5. copies' <= 1
    BY <1>1, <2>3 DEF ApiMoves
  <2>6. req'[r].at = "work" /\ copies' > 0 => Api!LooksFirst(req'[r].steps)
    BY <2>3 DEF ApiMoves
  <2>. QED BY <2>4, <2>5, <2>6
<1>. QED BY <1>2, <1>3, <1>6, <1>7 DEF ApiIInv

-----------------------------------------------------------------------------
(* The ways on, each for a request that is at some step.                   *)
ApiStep1(r) == Head(req[r].steps)
ApiIsAt(r) == req[r].at = "work" /\ req[r].steps # <<>>

LEMMA ApiStepIs ==
  ASSUME ApiTypeInv, NEW r \in Requests, ApiRequestInv(req[r]), ApiIsAt(r)
  PROVE  /\ req[r] \in ApiRequest /\ ApiStep1(r) \in ApiSteps /\ Tail(req[r].steps) \in Seq(ApiSteps)
         /\ Api!OneEffect(Tail(req[r].steps)) /\ Api!AllTell(req[r].ok, Tail(req[r].steps)) /\ Api!Tells(req[r].ok, ApiStep1(r))
         /\ ApiLeft(req[r].steps) <=> ApiStep1(r).do \in Api!Effects \/ ApiLeft(Tail(req[r].steps))
         /\ ApiStep1(r).do \in Api!Effects => ApiLate(Tail(req[r].steps)) /\ ~ApiLeft(Tail(req[r].steps)) /\ req[r].done = 0
         /\ req[r].done = 1 => ApiLate(Tail(req[r].steps)) /\ ApiStep1(r).do = "refuse" /\ Api!IsLate(ApiStep1(r).code)
         /\ Api!LooksFirst(req[r].steps) /\ ApiStep1(r).do # "look" => Api!LooksFirst(Tail(req[r].steps))
         /\ Api!LooksFirst(req[r].steps) => ApiStep1(r).do # "add"
         /\ req[r].due = IF ApiLeft(req[r].steps) THEN 1 ELSE req[r].done
<1>1. req[r] \in ApiRequest /\ req[r].steps \in Seq(ApiSteps) /\ req[r].done \in 0..1
  BY DEF ApiTypeInv, ApiRequest
<1>2. ApiAtWork(req[r])
  BY DEF ApiRequestInv, ApiIsAt
<1>3. ApiStep1(r).do \in Api!Effects => req[r].done = 0
  <2>1. ApiLate(req[r].steps) => ApiStep1(r).do = "refuse"
    BY <1>1, <1>2, ApiTailIs DEF ApiAtWork, ApiIsAt, ApiStep1
  <2>. QED BY <1>1, <1>2, <2>1 DEF ApiAtWork, Api!Effects
<1>. QED BY <1>1, <1>2, <1>3, ApiTailIs DEF ApiAtWork, ApiIsAt, ApiStep1

LEMMA ApiChangedType ==
  ASSUME NEW q \in ApiRequest, NEW steps \in Seq(ApiSteps), NEW done \in 0..1
  PROVE  [q EXCEPT !.steps = steps, !.done = done] \in ApiRequest
BY ZenonT(60) DEF ApiRequest

LEMMA ApiGoOnIs ==
  ASSUME ApiTypeInv, NEW r \in Requests, ApiRequestInv(req[r]), ApiIsAt(r),
         NEW n \in 0..1, n = (IF ApiStep1(r).do \in Api!Effects THEN 1 ELSE 0), Api!GoOn(r, n)
  PROVE  ApiMoves(r) /\ req'[r].steps = Tail(req[r].steps) /\ req'[r].done = req[r].done + n
<1>. DEFINE t == Tail(req[r].steps)
<1>1. req[r] \in ApiRequest /\ t \in Seq(ApiSteps) /\ req[r].done + n \in 0..1
  BY ApiStepIs DEF ApiRequest
<1>2. /\ req' \in [Requests -> ApiRequest] /\ \A s \in Requests : s # r => req'[s] = req[s]
      /\ req'[r].steps = t /\ req'[r].done = req[r].done + n /\ req'[r].at = req[r].at /\ req'[r].ok = req[r].ok
      /\ req'[r].due = req[r].due /\ req'[r].load = req[r].load /\ req'[r].alone = req[r].alone
  <2>. DEFINE d == req[r].done + n
              q == [req[r] EXCEPT !.steps = t, !.done = d]
  <2>1. req \in [Requests -> ApiRequest] /\ req' = [req EXCEPT ![r] = q]
    BY DEF ApiTypeInv, Api!GoOn
  <2>5. d \in 0..1 /\ d = req[r].done + n
    BY <1>1
  <2>. HIDE DEF t, d
  <2>2. q \in ApiRequest
    BY <1>1, <2>5, ApiChangedType
  <2>3. /\ q.steps = t /\ q.done = d /\ q.at = req[r].at /\ q.ok = req[r].ok
        /\ q.due = req[r].due /\ q.load = req[r].load /\ q.alone = req[r].alone
    BY <1>1 DEF ApiRequest
  <2>. HIDE DEF q
  <2>4. req' \in [Requests -> ApiRequest] /\ req'[r] = q /\ \A s \in Requests : s # r => req'[s] = req[s]
    BY <2>1, <2>2
  <2>. QED BY <2>3, <2>4, <2>5
<1>. HIDE DEF t
<1>3. req'[r].due = IF ApiLeft(t) THEN 1 ELSE req'[r].done
  BY <1>1, <1>2, ApiStepIs DEF t, ApiRequest
<1>4. req'[r].done = 1 => ApiLate(t)
  BY <1>1, <1>2, ApiStepIs DEF t, ApiRequest
<1>5. ApiAtWork(req'[r])
  BY <1>2, <1>3, <1>4, ApiStepIs DEF ApiAtWork, t
<1>. QED BY <1>2, <1>5 DEF ApiMoves, ApiIsAt, ApiRequestInv, t

LEMMA ApiAnswerIs ==
  ASSUME ApiTypeInv, NEW r \in Requests, req[r].at = "work",
         NEW code \in 0..599, NEW n \in 0..1, Api!Answer(r, code, n), req[r].done + n <= 1,
         code = req[r].ok => req[r].done + n = req[r].due \/ req[r].noted,
         req[r].done + n = 1 => code = req[r].ok \/ Api!IsLate(code)
  PROVE  ApiMoves(r) /\ req'[r].at = "answered" /\ req'[r].done = req[r].done + n /\ req'[r].steps = <<>>
<1>1. req[r] \in ApiRequest /\ req[r].done + n \in 0..1 /\ <<>> \in Seq(ApiSteps)
  BY DEF ApiTypeInv, ApiRequest
<1>2. /\ req' \in [Requests -> ApiRequest] /\ \A s \in Requests : s # r => req'[s] = req[s]
      /\ req'[r].steps = <<>> /\ req'[r].done = req[r].done + n /\ req'[r].at = "answered" /\ req'[r].ok = req[r].ok
      /\ req'[r].due = req[r].due /\ req'[r].load = req[r].load /\ req'[r].alone = req[r].alone
      /\ req'[r].code = code /\ req'[r].noted = req[r].noted
  <2>. DEFINE q == [req[r] EXCEPT !.at = "answered", !.code = code, !.steps = <<>>, !.done = req[r].done + n]
  <2>1. req \in [Requests -> ApiRequest] /\ req' = [req EXCEPT ![r] = q]
    BY DEF ApiTypeInv, Api!Answer
  <2>2. q \in ApiRequest
    BY ZenonT(60), <1>1 DEF ApiRequest
  <2>3. /\ q.steps = <<>> /\ q.done = req[r].done + n /\ q.at = "answered" /\ q.ok = req[r].ok
        /\ q.due = req[r].due /\ q.load = req[r].load /\ q.alone = req[r].alone
        /\ q.code = code /\ q.noted = req[r].noted
    BY <1>1 DEF ApiRequest
  <2>. HIDE DEF q
  <2>4. req' \in [Requests -> ApiRequest] /\ req'[r] = q /\ \A s \in Requests : s # r => req'[s] = req[s]
    BY <2>1, <2>2
  <2>. QED BY <2>3, <2>4
<1>3. ApiAnswered(req'[r])
  BY <1>2 DEF ApiAnswered
<1>. QED BY <1>2, <1>3 DEF ApiMoves, ApiRequestInv

ApiTold == {"read", "write", "command", "look", "add"}
LEMMA ApiCodesAre ==
  ASSUME Api!RequestsAssumption, ApiTypeInv, NEW r \in Requests, ApiRequestInv(req[r]), ApiIsAt(r), ApiStep1(r).do \in ApiTold,
         NEW code \in Api!ErrorCodes(r)
  PROVE  /\ code \in 0..599 /\ code # req[r].ok
         /\ ApiStep1(r).do \in {"write", "command", "add"} /\ code \notin 400..499 => Api!IsLate(code)
<1>. DEFINE x == ApiStep1(r)
<1>1. x \in ApiSteps /\ Api!Tells(req[r].ok, x) /\ Api!Code(r) = x.code
  BY ApiStepIs DEF ApiStep1, Api!Code
<1>2. Api!ErrorCodes(r) = {x.code} \cup (IF x.do = "command" THEN {} ELSE AppCodes)
  BY <1>1 DEF Api!ErrorCodes, ApiStep1
<1>3. AppCodes \subseteq 400..599
  BY DEF Api!RequestsAssumption
<1>. HIDE DEF x
<1>4. x.do \in ApiTold
  BY DEF x
<1>5. CASE code = x.code
  BY <1>1, <1>4, <1>5 DEF Api!Tells, ApiSteps, ApiTold, Api!IsLate, x
<1>6. CASE code \in AppCodes /\ x.do # "command"
  <2>1. x.do \in {"read", "write", "look", "add"}
    BY <1>4, <1>6 DEF ApiTold
  <2>2. code \in 400..599 /\ req[r].ok \notin 400..599
    BY <1>1, <1>3, <1>6, <2>1 DEF Api!Tells
  <2>3. code \in 0..599 /\ code # req[r].ok /\ (code \notin 400..499 => code \in 500..599)
    BY <2>2
  <2>. QED BY <2>3 DEF Api!IsLate
<1>. QED BY <1>2, <1>5, <1>6

(* Nothing has been done yet at a step that asks or does something.        *)
LEMMA ApiNotYet ==
  ASSUME ApiTypeInv, NEW r \in Requests, ApiRequestInv(req[r]), ApiIsAt(r), ApiStep1(r).do # "refuse"
  PROVE  req[r].done = 0
BY ApiStepIs DEF ApiRequest

LEMMA ApiAtStepIs ==
  ASSUME NEW r, NEW kinds, Api!AtStep(r, kinds)
  PROVE  ApiIsAt(r) /\ ApiStep1(r).do \in kinds
BY DEF Api!AtStep, ApiIsAt, ApiStep1

LEMMA ApiNotedType ==
  ASSUME NEW q \in ApiRequest, NEW steps \in Seq(ApiSteps), NEW noted \in BOOLEAN
  PROVE  [q EXCEPT !.steps = steps, !.noted = noted] \in ApiRequest
BY ZenonT(60) DEF ApiRequest

LEMMA ApiSkipIs ==
  ASSUME ApiTypeInv, NEW r \in Requests, ApiRequestInv(req[r]), ApiIsAt(r), ApiStep1(r).do # "refuse",
         req' = [req EXCEPT ![r].steps = <<>>, ![r].noted = TRUE]
  PROVE  ApiMoves(r) /\ req'[r].steps = <<>> /\ req'[r].done = req[r].done
<1>. DEFINE q == [req[r] EXCEPT !.steps = <<>>, !.noted = TRUE]
<1>1. req[r] \in ApiRequest /\ req \in [Requests -> ApiRequest] /\ <<>> \in Seq(ApiSteps) /\ req[r].done = 0
  BY ApiNotYet DEF ApiTypeInv
<1>2. q \in ApiRequest
  BY <1>1, ApiNotedType
<1>3. /\ q.steps = <<>> /\ q.done = req[r].done /\ q.at = req[r].at /\ q.noted = TRUE
      /\ q.load = req[r].load /\ q.alone = req[r].alone
  BY <1>1 DEF ApiRequest
<1>4. req' = [req EXCEPT ![r] = q]
  BY <1>1
<1>. HIDE DEF q
<1>5. req' \in [Requests -> ApiRequest] /\ req'[r] = q /\ \A s \in Requests : s # r => req'[s] = req[s]
  BY <1>1, <1>2, <1>4
<1>6. ApiAtWork(q)
  BY <1>1, <1>3, ApiNoSteps DEF ApiAtWork
<1>. QED BY <1>3, <1>5, <1>6 DEF ApiMoves, ApiIsAt, ApiRequestInv

LEMMA ApiEachIs ==
  ASSUME ApiTypeInv, NEW r \in Requests, ApiRequestInv(req[r]), ApiIsAt(r), ApiStep1(r).do = "each", NEW failed \in BOOLEAN,
         req' = [req EXCEPT ![r].steps = Tail(@), ![r].noted = failed]
  PROVE  ApiMoves(r) /\ req'[r].steps = Tail(req[r].steps) /\ req'[r].done = req[r].done
<1>. DEFINE t == Tail(req[r].steps)
            q == [req[r] EXCEPT !.steps = t, !.noted = failed]
<1>1. req[r] \in ApiRequest /\ req \in [Requests -> ApiRequest] /\ t \in Seq(ApiSteps) /\ req[r].done = 0
  BY ApiNotYet, ApiStepIs DEF ApiTypeInv
<1>4. req' = [req EXCEPT ![r] = q]
  BY <1>1
<1>. HIDE DEF t
<1>2. q \in ApiRequest
  BY <1>1, ApiNotedType
<1>3. /\ q.steps = t /\ q.done = req[r].done /\ q.at = req[r].at /\ q.ok = req[r].ok
      /\ q.due = req[r].due /\ q.load = req[r].load /\ q.alone = req[r].alone
  BY <1>1 DEF ApiRequest
<1>. HIDE DEF q
<1>5. req' \in [Requests -> ApiRequest] /\ req'[r] = q /\ \A s \in Requests : s # r => req'[s] = req[s]
  BY <1>1, <1>2, <1>4
<1>6. q.due = IF ApiLeft(t) THEN 1 ELSE q.done
  BY <1>1, <1>3, ApiStepIs DEF t, Api!Effects
<1>7. ApiAtWork(q)
  BY <1>1, <1>3, <1>6, ApiStepIs DEF ApiAtWork, t
<1>. QED BY <1>3, <1>5, <1>7 DEF ApiMoves, ApiIsAt, ApiRequestInv, t

(* A move that leaves the title alone.                                     *)
LEMMA ApiQuietInv ==
  ASSUME Api!RequestsAssumption, ApiIInv, NEW r \in Requests, ApiMoves(r), UNCHANGED <<apiLoads, copies>>,
         tokens' \in [Api!Loads -> Nat], refills' \in [Api!Loads -> Nat], req'[r].done >= req[r].done,
         \/ req'[r].steps = <<>>
         \/ /\ ApiIsAt(r) /\ req'[r].steps = Tail(req[r].steps)
            /\ ApiStep1(r).do # "look" \/ copies = 0
  PROVE  ApiIInv'
<1>1. ApiTypeInv /\ ApiRequestInv(req[r])
  BY DEF ApiIInv
<1>2. req'[r].at = "work" /\ copies > 0 /\ Api!LooksFirst(req[r].steps) => Api!LooksFirst(req'[r].steps)
  BY <1>1, ApiStepIs, ApiNoSteps
<1>. QED BY <1>2, ApiMoveInv

-----------------------------------------------------------------------------
LEMMA ApiTyped == ASSUME ApiIInv, NEW r \in Requests
                  PROVE  ApiTypeInv /\ ApiRequestInv(req[r]) /\ req[r] \in ApiRequest /\ tokens \in [Api!Loads -> Nat] /\ refills \in [Api!Loads -> Nat]
                         /\ req[r].done \in 0..1
BY DEF ApiIInv, ApiTypeInv, ApiRequest

(* A step that does nothing that the caller is told of: the way on, and the answer. *)
LEMMA ApiWayOn ==
  ASSUME Api!RequestsAssumption, ApiIInv, NEW r \in Requests, ApiIsAt(r), UNCHANGED <<apiLoads, copies>>, tokens' \in [Api!Loads -> Nat],
         refills' \in [Api!Loads -> Nat], ApiStep1(r).do # "look" \/ copies = 0,
         NEW n \in 0..1, n = (IF ApiStep1(r).do \in Api!Effects THEN 1 ELSE 0), Api!GoOn(r, n)
  PROVE  ApiIInv'
<1>1. ApiMoves(r) /\ req'[r].steps = Tail(req[r].steps) /\ req'[r].done = req[r].done + n
  BY ApiTyped, ApiGoOnIs
<1>2. req'[r].done >= req[r].done
  BY <1>1, ApiTyped
<1>. QED BY <1>1, <1>2, ApiQuietInv

LEMMA ApiWayOut ==
  ASSUME Api!RequestsAssumption, ApiIInv, NEW r \in Requests, req[r].at = "work", UNCHANGED <<apiLoads, copies>>,
         tokens' \in [Api!Loads -> Nat], refills' \in [Api!Loads -> Nat],
         NEW code \in 0..599, NEW n \in 0..1, Api!Answer(r, code, n), req[r].done + n <= 1,
         code = req[r].ok => req[r].done + n = req[r].due \/ req[r].noted,
         req[r].done + n = 1 => code = req[r].ok \/ Api!IsLate(code)
  PROVE  ApiIInv'
<1>1. ApiMoves(r) /\ req'[r].at = "answered" /\ req'[r].done = req[r].done + n /\ req'[r].steps = <<>>
  BY ApiTyped, ApiAnswerIs
<1>2. req'[r].done >= req[r].done
  <2>1. req[r].done \in 0..1
    BY ApiTyped
  <2>. QED BY <1>1, <2>1
<1>. QED BY <1>1, <1>2, ApiQuietInv

(* An answer that nothing was done before.                                 *)
LEMMA ApiRefused ==
  ASSUME Api!RequestsAssumption, ApiIInv, NEW r \in Requests, ApiIsAt(r), UNCHANGED <<apiLoads, copies, tokens, refills>>,
         NEW code \in 0..599, code # req[r].ok, Api!Answer(r, code, 0), req[r].done = 0 \/ Api!IsLate(code)
  PROVE  ApiIInv'
<1>1. /\ req[r].done + 0 \in 0..1 /\ 0 \in 0..1 /\ req[r].at = "work"
      /\ tokens' \in [Api!Loads -> Nat] /\ refills' \in [Api!Loads -> Nat]
      /\ req[r].done + 0 = 1 => req[r].done # 0
  BY ApiTyped DEF ApiIsAt
<1>2. req[r].done + 0 <= 1
  BY <1>1
<1>. QED BY <1>1, <1>2, ApiWayOut

LEMMA ApiDoneAnswerIs ==
  ASSUME ApiTypeInv, NEW r \in Requests, req[r].at = "work", req[r].done = 0,
         NEW code \in 0..599, code # req[r].ok, Api!IsLate(code), Api!Answer(r, code, 1)
  PROVE  ApiMoves(r) /\ req'[r].steps = <<>> /\ req'[r].done = req[r].done + 1
<1>1. 1 \in 0..1 /\ req[r].done + 1 <= 1
  OBVIOUS
<1>. QED BY ZenonT(60), <1>1, ApiAnswerIs

LEMMA ApiRespondInv == ASSUME Api!RequestsAssumption, ApiIInv, NEW r \in Requests, Api!Respond(r) PROVE ApiIInv'
<1>1. /\ req[r].at = "work" /\ req[r].steps = <<>> /\ Api!Answer(r, req[r].ok, 0) /\ UNCHANGED <<apiLoads, tokens, refills, copies>>
  BY DEF Api!Respond
<1>2. req[r].ok \in 0..599 /\ req[r].done \in 0..1 /\ req[r].due \in 0..1
  <2>1. req[r] \in ApiRequest
    BY SMTT(60), ApiTyped
  <2>. QED BY <2>1 DEF ApiRequest
<1>3. req[r].noted \/ req[r].due = req[r].done
  BY <1>1, ApiTyped, ApiNoSteps DEF ApiRequestInv, ApiAtWork
<1>4. req[r].done + 0 <= 1 /\ 0 \in 0..1 /\ (req[r].due = req[r].done => req[r].done + 0 = req[r].due)
  BY <1>2
<1>. QED BY <1>1, <1>2, <1>3, <1>4, ApiTyped, ApiWayOut

LEMMA ApiLookOverInv == ASSUME Api!RequestsAssumption, ApiIInv, NEW r \in Requests, Api!LookOver(r) PROVE ApiIInv'
<1>1. ApiIsAt(r) /\ ApiStep1(r).do \in {"refuse", "skip"} /\ UNCHANGED <<apiLoads, tokens, refills, copies>>
  BY ApiAtStepIs DEF Api!LookOver
<1>2. CASE Api!GoOn(r, 0)
  BY <1>1, <1>2, ApiTyped, ApiWayOn DEF Api!Effects
<1>3. CASE Api!AtStep(r, {"refuse"}) /\ Api!Answer(r, Api!Code(r), 0)
  <2>1. ApiStep1(r) \in ApiSteps /\ Api!Tells(req[r].ok, ApiStep1(r)) /\ Api!Code(r) = ApiStep1(r).code /\ ApiStep1(r).do = "refuse"
    BY <1>1, <1>3, ApiTyped, ApiStepIs, ApiAtStepIs DEF ApiStep1, Api!Code
  <2>2. Api!Code(r) \in 0..599 /\ Api!Code(r) # req[r].ok
    BY <2>1 DEF ApiSteps, Api!Tells
  <2>3. req[r].done = 0 \/ Api!IsLate(Api!Code(r))
    BY <1>1, <2>1, ApiTyped, ApiStepIs
  <2>. QED BY <1>1, <1>3, <2>2, <2>3, ApiRefused
<1>4. CASE Api!AtStep(r, {"skip"}) /\ req' = [req EXCEPT ![r].steps = <<>>, ![r].noted = TRUE]
  <2>1. ApiStep1(r).do = "skip"
    BY <1>4, ApiAtStepIs
  <2>2. ApiMoves(r) /\ req'[r].steps = <<>> /\ req'[r].done = req[r].done
    BY <1>1, <1>4, <2>1, ApiTyped, ApiSkipIs
  <2>3. req'[r].done >= req[r].done
    BY <2>2, ApiTyped
  <2>. QED BY <1>1, <2>2, <2>3, ApiTyped, ApiQuietInv
<1>. QED BY <1>2, <1>3, <1>4 DEF Api!LookOver

LEMMA ApiAskAppInv == ASSUME Api!RequestsAssumption, ApiIInv, NEW r \in Requests, Api!AskApp(r) PROVE ApiIInv'
<1>1. ApiIsAt(r) /\ ApiStep1(r).do = "read" /\ UNCHANGED <<apiLoads, tokens, refills, copies>>
  BY ApiAtStepIs DEF Api!AskApp
<1>2. CASE Api!GoOn(r, 0)
  BY <1>1, <1>2, ApiTyped, ApiWayOn DEF Api!Effects
<1>3. ASSUME NEW code \in Api!ErrorCodes(r), Api!Answer(r, code, 0) PROVE ApiIInv'
  BY <1>1, <1>3, ApiTyped, ApiNotYet, ApiCodesAre, ApiRefused DEF ApiTold
<1>. QED BY <1>2, <1>3 DEF Api!AskApp

LEMMA ApiLookUpInv == ASSUME Api!RequestsAssumption, ApiIInv, NEW r \in Requests, Api!LookUp(r) PROVE ApiIInv'
<1>1. ApiIsAt(r) /\ ApiStep1(r).do = "look" /\ UNCHANGED <<apiLoads, tokens, refills, copies>>
  BY ApiAtStepIs DEF Api!LookUp
<1>2. CASE copies = 0 /\ Api!GoOn(r, 0)
  BY <1>1, <1>2, ApiTyped, ApiWayOn DEF Api!Effects
<1>3. CASE Api!Answer(r, 409, 0)
  <2>1. req[r].ok # 409
    BY <1>1, ApiTyped, ApiStepIs DEF Api!Tells
  <2>. QED BY <1>1, <1>3, <2>1, ApiTyped, ApiNotYet, ApiRefused
<1>4. ASSUME NEW code \in Api!ErrorCodes(r), Api!Answer(r, code, 0) PROVE ApiIInv'
  BY <1>1, <1>4, ApiTyped, ApiNotYet, ApiCodesAre, ApiRefused DEF ApiTold
<1>. QED BY <1>2, <1>3, <1>4 DEF Api!LookUp

LEMMA ApiTellAppInv == ASSUME Api!RequestsAssumption, ApiIInv, NEW r \in Requests, Api!TellApp(r) PROVE ApiIInv'
<1>. DEFINE n == IF Api!AtStep(r, {"add"}) THEN 1 ELSE 0
            t == Tail(req[r].steps)
<1>1. /\ ApiIsAt(r) /\ ApiStep1(r).do \in {"write", "command", "add"} /\ UNCHANGED <<apiLoads, tokens, refills>>
      /\ n = IF ApiStep1(r).do = "add" THEN 1 ELSE 0
  BY ApiAtStepIs DEF Api!TellApp, Api!AtStep, ApiIsAt, ApiStep1
<1>2. /\ req[r].done = 0 /\ ApiStep1(r).do \in Api!Effects /\ ApiStep1(r).do \in ApiTold /\ ApiStep1(r).do # "look"
      /\ ApiTypeInv /\ ApiRequestInv(req[r])
  BY <1>1, ApiTyped, ApiNotYet DEF ApiTold, Api!Effects
<1>3. Api!LooksFirst(t)
  <2>1. ApiLate(t)
    BY <1>1, <1>2, ApiStepIs
  <2>. QED BY <2>1 DEF ApiLate, Api!LooksFirst
<1>4. ApiStep1(r).do = "add" => ~Api!LooksFirst(req[r].steps)
  BY <1>1, <1>2, ApiStepIs
<1>. HIDE DEF n, t
<1>5. copies \in Nat /\ (n = 0 => copies + n = copies)
  BY DEF ApiIInv, ApiTypeInv
<1>6. ASSUME Api!GoOn(r, 1), copies' = copies + n PROVE ApiIInv'
  <2>1. ApiMoves(r) /\ req'[r].steps = t /\ req'[r].done = req[r].done + 1
    BY <1>1, <1>2, <1>6, ApiGoOnIs DEF t
  <2>. QED BY <1>1, <1>2, <1>3, <1>4, <1>5, <1>6, <2>1, ApiTyped, ApiMoveInv
<1>7. ASSUME NEW code \in Api!ErrorCodes(r) \ 400..499, Api!Answer(r, code, 1), copies' = copies + n PROVE ApiIInv'
  <2>1. code \in 0..599 /\ code # req[r].ok /\ Api!IsLate(code)
    BY <1>1, <1>2, ApiCodesAre
  <2>2. ApiMoves(r) /\ req'[r].steps = <<>> /\ req'[r].done = req[r].done + 1
    <3>1. ApiTypeInv
      BY <1>2
    <3>2. req[r].at = "work" /\ req[r].done = 0
      BY <1>1, <1>2 DEF ApiIsAt
    <3>3. code \in 0..599 /\ code # req[r].ok /\ Api!IsLate(code) /\ Api!Answer(r, code, 1)
      BY <1>7, <2>1
    <3>4. PICK c \in 0..599 : c = code
      BY <3>3
    <3>5. c # req[r].ok /\ Api!IsLate(c) /\ Api!Answer(r, c, 1)
      BY <3>3, <3>4
    <3>. QED BY ONLY <3>1, <3>2, <3>5, ApiDoneAnswerIs, r \in Requests, c \in 0..599
  <2>3. req'[r].done = 1 /\ req'[r].done >= req[r].done /\ Api!LooksFirst(req'[r].steps)
    BY <1>2, <2>2, ApiNoSteps
  <2>4. tokens' \in [Api!Loads -> Nat] /\ refills' \in [Api!Loads -> Nat] /\ apiLoads' = apiLoads
    BY <1>1, ApiTyped
  <2>5. CASE n = 0
    BY <1>5, <1>7, <2>2, <2>3, <2>4, <2>5, ApiMoveInv
  <2>6. CASE n = 1
    <3>1. ~Api!LooksFirst(req[r].steps)
      BY <1>1, <1>4, <2>6
    <3>. QED BY <1>2, <1>7, <2>2, <2>3, <2>4, <2>6, <3>1, ApiMoveInv
  <2>. QED BY <1>1, <2>5, <2>6
<1>8. ASSUME NEW code \in Api!ErrorCodes(r), Api!Answer(r, code, 0), UNCHANGED copies PROVE ApiIInv'
  BY ZenonT(60), <1>1, <1>2, <1>8, ApiCodesAre, ApiRefused
<1>. QED BY <1>6, <1>7, <1>8 DEF Api!TellApp, n

LEMMA ApiDeleteEachInv == ASSUME Api!RequestsAssumption, ApiIInv, NEW r \in Requests, Api!DeleteEach(r) PROVE ApiIInv'
<1>1. ApiIsAt(r) /\ ApiStep1(r).do = "each" /\ UNCHANGED <<apiLoads, tokens, refills, copies>>
  BY ApiAtStepIs DEF Api!DeleteEach
<1>2. PICK failed \in BOOLEAN : req' = [req EXCEPT ![r].steps = Tail(@), ![r].noted = failed]
  BY DEF Api!DeleteEach
<1>3. ApiMoves(r) /\ req'[r].steps = Tail(req[r].steps) /\ req'[r].done = req[r].done
  BY <1>1, <1>2, ApiTyped, ApiEachIs
<1>4. req'[r].done >= req[r].done
  BY <1>3, ApiTyped
<1>. QED BY <1>1, <1>3, <1>4, ApiTyped, ApiQuietInv

LEMMA ApiActHereInv == ASSUME Api!RequestsAssumption, ApiIInv, NEW r \in Requests, Api!ActHere(r) PROVE ApiIInv'
<1>1. ApiIsAt(r) /\ ApiStep1(r).do \in {"act", "local", "try"} /\ UNCHANGED <<apiLoads, tokens, refills, copies>>
  BY ApiAtStepIs DEF Api!ActHere
<1>2. CASE Api!GoOn(r, IF Api!AtStep(r, {"try"}) THEN 0 ELSE 1)
  <2>. DEFINE n == IF Api!AtStep(r, {"try"}) THEN 0 ELSE 1
  <2>1. n \in 0..1 /\ n = IF ApiStep1(r).do \in Api!Effects THEN 1 ELSE 0
    BY <1>1 DEF Api!AtStep, ApiIsAt, ApiStep1, Api!Effects
  <2>2. Api!GoOn(r, n)
    BY <1>2
  <2>. HIDE DEF n
  <2>. QED BY <1>1, <2>1, <2>2, ApiTyped, ApiWayOn
<1>3. CASE Api!AtStep(r, {"local"}) /\ Api!Answer(r, Api!Code(r), 0)
  <2>1. ApiStep1(r) \in ApiSteps /\ Api!Tells(req[r].ok, ApiStep1(r)) /\ Api!Code(r) = ApiStep1(r).code /\ ApiStep1(r).do = "local"
    BY <1>1, <1>3, ApiTyped, ApiStepIs, ApiAtStepIs DEF ApiStep1, Api!Code
  <2>2. Api!Code(r) \in 0..599 /\ Api!Code(r) # req[r].ok
    BY <2>1 DEF ApiSteps, Api!Tells
  <2>. QED BY <1>1, <1>3, <2>1, <2>2, ApiTyped, ApiNotYet, ApiRefused
<1>. QED BY <1>2, <1>3 DEF Api!ActHere

LEMMA ApiDelOKInv == ASSUME Api!RequestsAssumption, ApiIInv, NEW r \in Requests, Api!DelOK(r) PROVE ApiIInv'
<1>1. ApiIsAt(r) /\ ApiStep1(r).do = "limit" /\ UNCHANGED <<apiLoads, refills, copies>>
  BY ApiAtStepIs DEF Api!DelOK
<1>. DEFINE n == req[r].load
<1>2. n \in Api!Loads
  BY DEF ApiIInv, ApiTypeInv, Api!Loads, Api!RequestsAssumption
<1>3. CASE tokens[n] > 0 /\ tokens' = [tokens EXCEPT ![n] = @ - 1] /\ Api!GoOn(r, 0)
  <2>1. tokens' \in [Api!Loads -> Nat]
    BY <1>2, <1>3, ApiTyped
  <2>. QED BY <1>1, <1>3, <2>1, ApiTyped, ApiWayOn DEF Api!Effects
<1>4. CASE Api!Answer(r, 423, 0) /\ UNCHANGED tokens
  <2>1. req[r].ok # 423
    BY <1>1, ApiTyped, ApiStepIs DEF Api!Tells
  <2>. QED BY <1>1, <1>4, <2>1, ApiTyped, ApiNotYet, ApiRefused
<1>. QED BY <1>3, <1>4 DEF Api!DelOK

-----------------------------------------------------------------------------
LEMMA ApiIdleType == Api!Idle \in ApiRequest /\ Api!Idle.done = 0
BY DEF Api!Idle, ApiRequest

ApiArrived(i, ok, steps, load, due, alone) ==
  [i EXCEPT !.at = "work", !.ok = ok, !.steps = steps, !.load = load, !.due = due, !.alone = alone]

LEMMA ApiArrivedType ==
  ASSUME NEW i \in ApiRequest, NEW ok \in 0..599, NEW steps \in Seq(ApiSteps), NEW load \in Nat, NEW due \in 0..1,
         NEW alone \in BOOLEAN
  PROVE  ApiArrived(i, ok, steps, load, due, alone) \in ApiRequest
BY ZenonT(60) DEF ApiRequest, ApiArrived

LEMMA ApiArrivedIs ==
  ASSUME NEW i \in ApiRequest, NEW ok, NEW steps, NEW load, NEW due, NEW alone,
         NEW q, q = ApiArrived(i, ok, steps, load, due, alone)
  PROVE  /\ q.at = "work" /\ q.ok = ok /\ q.steps = steps /\ q.load = load /\ q.due = due
         /\ q.done = i.done /\ q.alone = alone
BY DEF ApiRequest, ApiArrived

LEMMA ApiArriveInv == ASSUME Api!RequestsAssumption, ApiIInv, NEW r \in Requests, Api!Arrive(r) PROVE ApiIInv'
<1>1. PICK route \in Served[r] :
        req' = [s \in Requests |->
                 IF s = r THEN [Api!Idle EXCEPT !.at = "work", !.ok = route.ok, !.steps = route.steps, !.load = apiLoads,
                                                !.due = Api!Due(route.steps),
                                                !.alone = \A t \in Requests : req[t].at # "work"]
                 ELSE IF req[s].at = "work" THEN [req[s] EXCEPT !.alone = FALSE] ELSE req[s]]
  BY DEF Api!Arrive
<1>2. req[r].at = "idle" /\ UNCHANGED <<apiLoads, tokens, refills, copies>>
  BY DEF Api!Arrive
<1>3. /\ route.ok \in 0..599 /\ route.steps \in Seq(ApiSteps)
      /\ Api!OneEffect(route.steps) /\ Api!AllTell(route.ok, route.steps) /\ Api!LooksFirst(route.steps)
  <2>1. route \in Api!AllRoutes
    BY DEF Api!RequestsAssumption
  <2>. QED BY <2>1 DEF Api!RequestsAssumption, Api!InOrder, ApiSteps
<1>. DEFINE due == Api!Due(route.steps)
            alone == \A t \in Requests : req[t].at # "work"
            q == ApiArrived(Api!Idle, route.ok, route.steps, apiLoads, due, alone)
<1>4. due = (IF ApiLeft(route.steps) THEN 1 ELSE 0) /\ due \in 0..1
  BY <1>3, ApiDueIs
<1>5. apiLoads \in Nat /\ apiLoads \in Api!Loads /\ apiLoads \in 1..apiLoads
  BY DEF ApiIInv, ApiTypeInv, Api!Loads, Api!RequestsAssumption
<1>6. alone \in BOOLEAN
  OBVIOUS
<1>7. req'[r] = q
  BY <1>1 DEF ApiArrived
<1>. HIDE DEF due, alone
<1>9. q \in ApiRequest
  BY ZenonT(60), <1>3, <1>4, <1>5, <1>6, ApiIdleType, ApiArrivedType
<1>10. /\ q.at = "work" /\ q.ok = route.ok /\ q.steps = route.steps /\ q.load = apiLoads /\ q.due = due /\ q.done = 0
       /\ q.alone = alone
  <2>. HIDE DEF q
  <2>1. q = ApiArrived(Api!Idle, route.ok, route.steps, apiLoads, due, alone)
    BY DEF q
  <2>2. q.done = Api!Idle.done /\ q.at = "work" /\ q.ok = route.ok /\ q.steps = route.steps
    BY <2>1, ApiIdleType, ApiArrivedIs
  <2>3. q.load = apiLoads /\ q.due = due /\ q.alone = alone
    BY <2>1, ApiIdleType, ApiArrivedIs
  <2>. QED BY <2>2, <2>3, ApiIdleType
<1>. HIDE DEF q
<1>11. ApiAtWork(q)
  BY <1>3, <1>4, <1>10 DEF ApiAtWork
<1>12. ASSUME NEW s \in Requests, s # r
       PROVE  /\ req'[s] \in ApiRequest /\ ApiRequestInv(req'[s]) /\ req'[s].at = req[s].at /\ req'[s].done = req[s].done
              /\ req'[s].load = req[s].load
              /\ req'[s].alone => req[s].at # "work" /\ req[s].alone
  <2>1. req[s] \in ApiRequest /\ ApiRequestInv(req[s])
    BY ApiTyped
  <2>2. CASE req[s].at = "work"
    <3>. DEFINE p == [req[s] EXCEPT !.alone = FALSE]
    <3>1. req'[s] = p
      BY <1>1, <1>12, <2>2
    <3>2. p \in ApiRequest
      BY <2>1, ZenonT(60) DEF ApiRequest
    <3>3. /\ p.at = req[s].at /\ p.ok = req[s].ok /\ p.steps = req[s].steps /\ p.due = req[s].due
          /\ p.done = req[s].done /\ p.load = req[s].load /\ p.noted = req[s].noted /\ p.alone = FALSE
      BY <2>1 DEF ApiRequest
    <3>. HIDE DEF p
    <3>. QED BY <2>1, <2>2, <3>1, <3>2, <3>3 DEF ApiRequestInv, ApiAtWork
  <2>3. CASE req[s].at # "work"
    <3>1. req'[s] = req[s]
      BY <1>1, <1>12, <2>3
    <3>. QED BY <2>1, <2>3, <3>1
  <2>. QED BY <2>2, <2>3
<1>13. ApiTypeInv'
  <2>1. req' \in [Requests -> ApiRequest]
    <3>1. req' = [s \in Requests |-> req'[s]]
      BY <1>1
    <3>2. \A s \in Requests : req'[s] \in ApiRequest
      BY <1>7, <1>9, <1>12
    <3>. QED BY <3>1, <3>2
  <2>2. \A s \in Requests : req'[s].load \in 1..apiLoads
    BY <1>5, <1>7, <1>10, <1>12 DEF ApiIInv, ApiTypeInv
  <2>. QED BY <1>2, <2>1, <2>2 DEF ApiIInv, ApiTypeInv
<1>14. \A s \in Requests : ApiRequestInv(req'[s])
  BY <1>7, <1>10, <1>11, <1>12 DEF ApiRequestInv
<1>15. ApiCopyInv'
  <2>1. req[r].done = 0
    BY <1>2, ApiTyped DEF ApiRequestInv
  <2>2. {s \in Requests : req'[s].done = 1} = {s \in Requests : req[s].done = 1}
    BY <1>7, <1>10, <1>12, <2>1
  <2>. QED BY <1>2, <2>2 DEF ApiIInv, ApiCopyInv
<1>16. ApiAloneInv'
  <2>1. SUFFICES ASSUME \A s \in Requests : req'[s].alone
                 PROVE  /\ copies' <= 1
                        /\ \A p, s \in Requests : req'[p].at = "work" /\ req'[s].at = "work" => p = s
                        /\ \A s \in Requests : req'[s].at = "work" /\ copies' > 0 => Api!LooksFirst(req'[s].steps)
    BY DEF ApiAloneInv
  <2>2. \A s \in Requests : s # r => req'[s].at # "work" /\ req[s].alone
    BY <1>12, <2>1
  <2>3. req[r].alone
    BY <1>2, ApiTyped DEF ApiRequestInv
  <2>4. copies <= 1
    BY <2>2, <2>3 DEF ApiIInv, ApiAloneInv
  <2>. QED BY <1>2, <1>3, <1>7, <1>10, <2>2, <2>4
<1>. QED BY <1>13, <1>14, <1>15, <1>16 DEF ApiIInv

LEMMA ApiSameInv ==
  ASSUME ApiIInv, UNCHANGED <<req, copies>>, apiLoads' \in Api!Loads, apiLoads' >= apiLoads,
         tokens' \in [Api!Loads -> Nat], refills' \in [Api!Loads -> Nat]
  PROVE  ApiIInv'
<1>1. \A r \in Requests : req[r].load \in 1..apiLoads'
  <2>1. apiLoads \in Nat /\ apiLoads' \in Nat
    BY DEF ApiIInv, ApiTypeInv, Api!Loads
  <2>. QED BY <2>1 DEF ApiIInv, ApiTypeInv
<1>2. ApiTypeInv'
  BY <1>1 DEF ApiIInv, ApiTypeInv
<1>. QED BY <1>2 DEF ApiIInv, ApiCopyInv, ApiAloneInv

LEMMA ApiInductive == ASSUME Api!RequestsAssumption, ApiIInv, [Api!Next]_(Api!apiVars) PROVE ApiIInv'
<1>1. /\ tokens \in [Api!Loads -> Nat] /\ refills \in [Api!Loads -> Nat] /\ apiLoads \in Api!Loads /\ apiLoads \in Nat /\ MaxLoads \in Nat
  BY DEF ApiIInv, ApiTypeInv, Api!Loads, Api!RequestsAssumption
<1>2. CASE Api!Load
  <2>1. apiLoads' \in Api!Loads /\ apiLoads' >= apiLoads
    BY <1>1, <1>2 DEF Api!Load, Api!Loads
  <2>. QED BY <1>1, <1>2, <2>1, ApiSameInv DEF Api!Load
<1>3. ASSUME NEW n \in Api!Loads, Api!Refill(n) PROVE ApiIInv'
  <2>1. tokens' \in [Api!Loads -> Nat] /\ refills' \in [Api!Loads -> Nat]
    BY <1>1, <1>3 DEF Api!Refill
  <2>. QED BY <1>1, <1>3, <2>1, ApiSameInv DEF Api!Refill
<1>4. ASSUME NEW r \in Requests, Api!Arrive(r) \/ Api!Step(r) PROVE ApiIInv'
  BY <1>4, ApiArriveInv, ApiRespondInv, ApiLookOverInv, ApiAskAppInv, ApiLookUpInv, ApiTellAppInv, ApiDeleteEachInv,
     ApiActHereInv, ApiDelOKInv DEF Api!Step
<1>5. CASE UNCHANGED Api!apiVars
  BY <1>1, <1>5, ApiSameInv DEF Api!apiVars
<1>. QED BY <1>2, <1>3, <1>4, <1>5 DEF Api!Next

LEMMA ApiTrue == ASSUME Api!RequestsAssumption PROVE ApiIInv => Api!TypeOK /\ Api!AnswersAreTrue /\ Api!RetriesAddOnce
<1>1. ASSUME ApiIInv PROVE Api!TypeOK
  <2>1. \A r \in Requests :
          /\ req[r].at \in {"idle", "work", "answered"} /\ req[r].steps \in Seq(ApiSteps)
          /\ req[r].load \in 1..apiLoads /\ req[r].done \in 0..1 /\ req[r].due \in 0..1
          /\ req[r].code \in 0..599 /\ {req[r].noted, req[r].alone} \subseteq BOOLEAN
    BY SMTT(60), <1>1 DEF ApiIInv, ApiTypeInv, ApiRequest
  <2>2. \A r \in Requests : \A i \in DOMAIN req[r].steps : req[r].steps[i].do \in Api!Kinds
    <3>1. ASSUME NEW r \in Requests, NEW i \in DOMAIN req[r].steps PROVE req[r].steps[i] \in ApiSteps
      BY <2>1
    <3>. QED BY <3>1 DEF ApiSteps
  <2>3. copies \in 0..(1 + Cardinality(Requests))
    <3>. DEFINE S == {r \in Requests : req[r].done = 1}
    <3>1. IsFiniteSet(Requests) /\ S \subseteq Requests
      BY ApiFinite
    <3>2. Cardinality(S) <= Cardinality(Requests) /\ Cardinality(S) \in Nat /\ Cardinality(Requests) \in Nat
      BY <3>1, FS_Subset, FS_CardinalityType
    <3>3. copies \in Nat /\ copies <= 1 + Cardinality(S)
      BY <1>1 DEF ApiIInv, ApiTypeInv, ApiCopyInv
    <3>. QED BY <3>2, <3>3
  <2>4. apiLoads \in Api!Loads /\ {tokens, refills} \subseteq [Api!Loads -> Nat]
    BY <1>1 DEF ApiIInv, ApiTypeInv
  <2>. QED BY <2>1, <2>2, <2>3, <2>4, ApiCardinality DEF Api!TypeOK
<1>2. ASSUME ApiIInv, NEW r \in Requests, req[r].at = "answered"
      PROVE  /\ req[r].code = req[r].ok => req[r].done = req[r].due \/ req[r].noted
             /\ req[r].code < 500 /\ req[r].code \notin {req[r].ok, 406} => req[r].done = 0
  <2>1. ApiAnswered(req[r]) /\ req[r].done \in 0..1 /\ req[r].code \in 0..599
    BY SMTT(60), <1>2, ApiTyped DEF ApiRequestInv, ApiRequest
  <2>. QED BY <2>1 DEF ApiAnswered, Api!IsLate
<1>3. ASSUME ApiIInv PROVE Api!RetriesAddOnce
  <2>1. copies \in Nat
    BY <1>3 DEF ApiIInv, ApiTypeInv
  <2>. QED BY <1>3, <2>1 DEF ApiIInv, ApiAloneInv, Api!RetriesAddOnce
<1>. QED BY <1>1, <1>2, <1>3 DEF Api!AnswersAreTrue

LEMMA ApiInvariant == ASSUME Api!RequestsAssumption PROVE Api!ApiSpec => []ApiIInv
<1>1. Api!Init => ApiIInv
  BY ApiInitInv
<1>2. ApiIInv /\ [Api!Next]_(Api!apiVars) => ApiIInv'
  BY ApiInductive
<1>. QED BY <1>1, <1>2, PTL DEF Api!ApiSpec

(* The status of an API answer tells whether the application did what the  *)
(* route is for, and an addition that is asked for again adds nothing      *)
(* twice unless two requests were at work at once: for any set of requests, *)
(* routes that are served, statuses of applications and limits.            *)
THEOREM AnswersAreOfWhatWasDone == ASSUME Api!RequestsAssumption PROVE Api!ApiSpec => [](Api!AnswersAreTrue /\ Api!RetriesAddOnce)
<1>1. ApiIInv => Api!AnswersAreTrue /\ Api!RetriesAddOnce
  BY ApiTrue
<1>. QED BY <1>1, ApiInvariant, PTL

(* A client of which this part moves is one of this part alone.            *)
LEMMA ApiOfParts == Spec => Api!ApiSpec
<1>1. Init => Api!Init
  BY DEF Init
<1>2. [Next]_vars => [Api!Next]_(Api!apiVars)
  <2>1. Next => Api!Next \/ UNCHANGED apiVars
    BY DEF Next, Request, Store, Update, CheckBackups, TellQueues, TellSessions, CoolDown, AskMany, RunCommand
  <2>2. UNCHANGED vars => UNCHANGED apiVars
    BY DEF vars
  <2>3. UNCHANGED apiVars => UNCHANGED Api!apiVars
    BY DEF apiVars, Api!apiVars
  <2>. QED BY <2>1, <2>2, <2>3
<1>. QED BY <1>1, <1>2, PTL DEF Spec, Api!ApiSpec

-----------------------------------------------------------------------------
(* Requests that many jobs answer together (FanOut).                       *)
LEMMA FanCardinality == ASSUME NEW S PROVE Fan!Cardinality(S) = Cardinality(S)
BY DEF Fan!Cardinality, Cardinality

(* How far each of the handlers takes a job.                               *)
FanStages ==
  IF way = "pool" THEN {"todo", "queued", "busy", "ended"}
  ELSE IF way = "collect" THEN {"todo", "busy", "sending", "ended", "silent"}
  ELSE {"todo", "busy", "ended"}

FanTypeInv ==
  /\ way \in {"pool", "each", "serial", "collect"} /\ jobs \in Nat
  /\ job \in [Fan!Jobs -> FanStages] /\ slot \in [Fan!Jobs -> {"blank", "disabled", "result"}]
  /\ queue \in Seq(Fan!Jobs) /\ Len(queue) <= Buffer
  /\ worker \in [Fan!Workers -> -1..jobs]
  /\ open \in BOOLEAN /\ answered \in BOOLEAN

(* A job of the pool that is not answered yet is in the channel or with a  *)
(* worker, and a worker leaves only a channel that is closed and empty.    *)
FanPoolInv ==
  /\ way # "pool" => queue = <<>>
  /\ \A j \in Fan!Jobs : job[j] = "queued" => \E n \in DOMAIN queue : queue[n] = j
  /\ way = "pool" => \A j \in Fan!Jobs : job[j] = "busy" => \E w \in Fan!Workers : worker[w] = j
  /\ \A w \in Fan!Workers : worker[w] = -1 => queue = <<>> /\ ~open

(* The channel is closed when all was given to it, that of the collector   *)
(* by the answer.                                                          *)
FanOpenInv ==
  /\ ~open => Fan!AllOut /\ (way # "pool" => answered)
  /\ answered => ~open

(* Whom the request waits for: the workers that have not left, or the      *)
(* goroutines that have not told the wait group.                           *)
FanOwing ==
  IF way = "pool" THEN {w \in Fan!Workers : worker[w] # -1}
  ELSE IF way = "serial" THEN {}
  ELSE {j \in Fan!Jobs : job[j] \in {"busy", "sending", "silent"}}

FanOwedInv == owed = Cardinality(FanOwing)

FanEndInv ==
  /\ \A j \in Fan!Jobs : job[j] = "ended" => slot[j] # "blank"
  /\ answered => queue = <<>> /\ \A j \in Fan!Jobs : job[j] = "ended"

FanIInv == FanTypeInv /\ FanPoolInv /\ FanOpenInv /\ FanOwedInv /\ FanEndInv

-----------------------------------------------------------------------------
LEMMA FanOwingIsFinite == ASSUME FanTypeInv PROVE IsFiniteSet(FanOwing)
<1>1. jobs \in Int /\ jobs \div 2 + 1 \in Int
  BY DEF FanTypeInv
<1>2. IsFiniteSet(Fan!Jobs) /\ IsFiniteSet(Fan!Workers) /\ IsFiniteSet({})
  BY <1>1, FS_Interval, FS_EmptySet DEF Fan!Jobs, Fan!Workers
<1>3. FanOwing \in SUBSET Fan!Jobs \/ FanOwing \in SUBSET Fan!Workers \/ FanOwing = {}
  BY DEF FanOwing
<1>. QED BY <1>2, <1>3, FS_Subset

LEMMA FanInitInv == ASSUME Fan!FanAssumption, Fan!Init PROVE FanIInv
<1>1. FanTypeInv
  <2>1. job \in [Fan!Jobs -> FanStages] /\ slot \in [Fan!Jobs -> {"blank", "disabled", "result"}]
    BY DEF Fan!Init, FanStages
  <2>2. jobs \in Nat /\ worker \in [Fan!Workers -> -1..jobs]
    BY DEF Fan!FanAssumption, Fan!Init
  <2>3. queue \in Seq(Fan!Jobs) /\ Len(queue) <= Buffer
    BY DEF Fan!FanAssumption, Fan!Init
  <2>. QED BY <2>1, <2>2, <2>3 DEF Fan!Init, FanTypeInv
<1>2. FanOwing = Fan!Workers
  <2>1. \A w \in Fan!Workers : worker[w] # -1
    BY DEF Fan!Init
  <2>2. \A j \in Fan!Jobs : job[j] = "todo"
    BY DEF Fan!Init
  <2>. QED BY <2>1, <2>2 DEF FanOwing, Fan!Workers
<1>. QED BY <1>1, <1>2, FanCardinality DEF Fan!Init, FanIInv, FanPoolInv, FanOpenInv, FanOwedInv, FanEndInv

(* A job that is put somewhere else, and with it nobody who was waited for *)
(* or whose answer is not there yet.                                       *)
LEMMA FanGiveToPoolInv == ASSUME Fan!FanAssumption, FanIInv, NEW j \in Fan!Jobs, Fan!GiveToPool(j) PROVE FanIInv'
<1>1. FanTypeInv'
  <2>1. FanStages' = FanStages /\ Fan!Jobs' = Fan!Jobs /\ Fan!Workers' = Fan!Workers
    BY DEF Fan!GiveToPool, FanStages, Fan!Jobs, Fan!Workers
  <2>2. job' \in [Fan!Jobs -> FanStages]
    BY DEF FanIInv, FanTypeInv, Fan!GiveToPool, Fan!Put, FanStages
  <2>3. queue' \in Seq(Fan!Jobs) /\ Len(queue') <= Buffer
    BY DEF Fan!FanAssumption, FanIInv, FanTypeInv, Fan!GiveToPool
  <2>. QED BY <2>1, <2>2, <2>3 DEF FanIInv, FanTypeInv, Fan!GiveToPool
<1>2. /\ open /\ ~answered /\ queue' = Append(queue, j) /\ Len(queue) \in Nat
      /\ \A w \in Fan!Workers : worker[w] # -1
  BY DEF FanIInv, FanTypeInv, FanPoolInv, FanOpenInv, FanEndInv, Fan!GiveToPool, Fan!IsNext, Fan!AllOut
<1>3. /\ \A n \in DOMAIN queue : n \in DOMAIN queue' /\ queue'[n] = queue[n]
      /\ Len(queue) + 1 \in DOMAIN queue' /\ queue'[Len(queue) + 1] = j
  BY <1>2 DEF FanIInv, FanTypeInv
<1>4. FanPoolInv'
  BY <1>2, <1>3 DEF FanIInv, FanTypeInv, FanPoolInv, Fan!GiveToPool, Fan!Put, Fan!Jobs, Fan!Workers
<1>5. FanOpenInv' /\ FanEndInv'
  BY <1>2 DEF FanIInv, FanTypeInv, FanOpenInv, FanEndInv, Fan!GiveToPool, Fan!Put, Fan!Jobs, Fan!AllOut
<1>6. FanOwing' = FanOwing /\ owed' = owed
  BY DEF Fan!GiveToPool, FanOwing, Fan!Workers
<1>. QED BY <1>1, <1>4, <1>5, <1>6 DEF FanIInv, FanOwedInv

LEMMA FanAskInv == ASSUME FanIInv, NEW j \in Fan!Jobs, Fan!Ask(j) PROVE FanIInv'
<1>1. FanTypeInv'
  BY DEF FanIInv, FanTypeInv, Fan!Ask, Fan!Put, Fan!Jobs, Fan!Workers, FanStages
<1>2. open /\ ~answered
  BY DEF FanIInv, FanOpenInv, Fan!Ask, Fan!IsNext, Fan!AllOut
<1>3. FanPoolInv'
  BY DEF FanIInv, FanTypeInv, FanPoolInv, Fan!Ask, Fan!Put, Fan!Jobs, Fan!Workers, FanStages
<1>4. FanOpenInv' /\ FanEndInv'
  BY <1>2 DEF FanIInv, FanTypeInv, FanOpenInv, FanEndInv, Fan!Ask, Fan!Put, Fan!Jobs, Fan!AllOut
<1>5. FanOwing' = FanOwing \cup {j} /\ j \notin FanOwing
  BY DEF FanIInv, FanTypeInv, Fan!Ask, Fan!Put, FanOwing, Fan!Jobs, Fan!IsNext
<1>6. FanOwedInv'
  BY <1>5, FanOwingIsFinite, FS_AddElement DEF FanIInv, FanOwedInv, Fan!Ask
<1>. QED BY <1>1, <1>3, <1>4, <1>6 DEF FanIInv

LEMMA FanWorkInv == ASSUME Fan!FanAssumption, FanIInv, NEW w \in Fan!Workers, Fan!Work(w) PROVE FanIInv'
<1>. DEFINE j == Head(queue)
<1>1. /\ way = "pool" /\ j \in Fan!Jobs /\ j \in Nat \ {0} /\ queue' \in Seq(Fan!Jobs)
      /\ Len(queue) \in Nat \ {0} /\ Len(queue') = Len(queue) - 1
      /\ queue[1] = j /\ \A n \in DOMAIN queue : n # 1 => n - 1 \in DOMAIN queue' /\ queue'[n - 1] = queue[n]
  BY DEF FanIInv, FanTypeInv, FanPoolInv, Fan!Work, Fan!Jobs
<1>2. job' = [job EXCEPT ![j] = "busy"] /\ worker' = [worker EXCEPT ![w] = j]
      /\ UNCHANGED <<way, jobs, slot, open, owed, answered>>
  BY DEF Fan!Work, Fan!Put
<1>. HIDE DEF j
<1>3. FanTypeInv'
  <2>1. FanStages' = FanStages /\ Fan!Jobs' = Fan!Jobs /\ Fan!Workers' = Fan!Workers
    BY <1>2 DEF FanStages, Fan!Jobs, Fan!Workers
  <2>2. job' \in [Fan!Jobs -> FanStages]
    BY <1>1, <1>2 DEF FanIInv, FanTypeInv, FanStages
  <2>3. worker' \in [Fan!Workers -> -1..jobs]
    BY <1>1, <1>2 DEF FanIInv, FanTypeInv, Fan!Jobs
  <2>4. Len(queue') <= Buffer
    BY <1>1 DEF Fan!FanAssumption, FanIInv, FanTypeInv
  <2>. QED BY <1>1, <1>2, <2>1, <2>2, <2>3, <2>4 DEF FanIInv, FanTypeInv
<1>4. \A i \in Fan!Jobs : i # j => job'[i] = job[i]
  BY <1>1, <1>2 DEF FanIInv, FanTypeInv
<1>5. ASSUME NEW i \in Fan!Jobs, job'[i] = "queued" PROVE \E n \in DOMAIN queue' : queue'[n] = i
  <2>1. i # j /\ job[i] = "queued"
    BY <1>1, <1>2, <1>4, <1>5 DEF FanIInv, FanTypeInv
  <2>2. PICK n \in DOMAIN queue : queue[n] = i
    BY <2>1 DEF FanIInv, FanPoolInv
  <2>. QED BY <1>1, <2>1, <2>2
<1>6. ASSUME NEW i \in Fan!Jobs, job'[i] = "busy" PROVE \E v \in Fan!Workers : worker'[v] = i
  <2>1. CASE i = j
    BY <1>2, <2>1 DEF FanIInv, FanTypeInv
  <2>2. CASE i # j
    <3>1. PICK v \in Fan!Workers : worker[v] = i
      BY <1>1, <1>4, <1>6, <2>2 DEF FanIInv, FanPoolInv
    <3>2. i # 0 /\ worker[w] = 0
      BY DEF Fan!Jobs, Fan!Work, FanIInv, FanTypeInv
    <3>. QED BY <1>2, <3>1, <3>2 DEF FanIInv, FanTypeInv
  <2>. QED BY <2>1, <2>2
<1>7. FanPoolInv'
  <2>1. \A v \in Fan!Workers : worker'[v] # -1
    BY <1>1, <1>2 DEF FanIInv, FanTypeInv, FanPoolInv, Fan!Work
  <2>. QED BY <1>1, <1>2, <1>5, <1>6, <2>1 DEF FanPoolInv, Fan!Jobs, Fan!Workers
<1>8. FanOpenInv' /\ FanEndInv'
  <2>1. ~answered
    BY DEF FanIInv, FanEndInv, Fan!Work
  <2>. QED BY <1>1, <1>2, <1>4, <2>1 DEF FanIInv, FanTypeInv, FanOpenInv, FanEndInv, Fan!Jobs, Fan!AllOut
<1>9. FanOwing' = FanOwing
  BY <1>1, <1>2 DEF FanIInv, FanTypeInv, FanOwing, Fan!Workers, Fan!Work
<1>. QED BY <1>2, <1>3, <1>7, <1>8, <1>9 DEF FanIInv, FanOwedInv

LEMMA FanLeaveInv == ASSUME FanIInv, NEW w \in Fan!Workers, Fan!Leave(w) PROVE FanIInv'
<1>1. /\ way = "pool" /\ queue = <<>> /\ ~open /\ worker[w] = 0 /\ worker' = [worker EXCEPT ![w] = -1]
      /\ owed' = owed - 1 /\ UNCHANGED <<way, jobs, job, slot, queue, open, answered>>
  BY DEF Fan!Leave, Fan!Workers
<1>2. FanStages' = FanStages /\ Fan!Jobs' = Fan!Jobs /\ Fan!Workers' = Fan!Workers
  BY <1>1 DEF FanStages, Fan!Jobs, Fan!Workers
<1>3. FanTypeInv'
  BY <1>1, <1>2 DEF FanIInv, FanTypeInv
<1>4. FanPoolInv'
  <2>1. \A j \in Fan!Jobs : j # 0
    BY DEF Fan!Jobs
  <2>. QED BY <1>1, <1>2, <2>1 DEF FanIInv, FanTypeInv, FanPoolInv
<1>5. FanOpenInv' /\ FanEndInv'
  BY <1>1, <1>2 DEF FanIInv, FanOpenInv, FanEndInv, Fan!AllOut
<1>6. FanOwing' = FanOwing \ {w} /\ w \in FanOwing
  BY <1>1, <1>2 DEF FanIInv, FanTypeInv, FanOwing
<1>7. FanOwedInv'
  BY <1>1, <1>6, FanOwingIsFinite, FS_RemoveElement DEF FanIInv, FanOwedInv
<1>. QED BY <1>3, <1>4, <1>5, <1>7 DEF FanIInv

(* A job that ends has its result.                                         *)
LEMMA FanEndInvOf ==
  ASSUME FanIInv, NEW j \in Fan!Jobs, job' = [job EXCEPT ![j] = "ended"],
         NEW with \in {"disabled", "result"}, slot' = [slot EXCEPT ![j] = with], UNCHANGED <<jobs, queue, answered>>
  PROVE  FanEndInv'
BY DEF FanIInv, FanTypeInv, FanEndInv, Fan!Jobs

LEMMA FanFinishInv == ASSUME FanIInv, NEW j \in Fan!Jobs, Fan!Finish(j) PROVE FanIInv'
<1>1. /\ way # "collect" /\ job[j] = "busy" /\ job' = [job EXCEPT ![j] = "ended"]
      /\ worker' = [w \in Fan!Workers |-> IF worker[w] = j THEN 0 ELSE worker[w]]
      /\ owed' = (IF way = "each" THEN owed - 1 ELSE owed) /\ UNCHANGED <<way, jobs, queue, open, answered>>
  BY DEF Fan!Finish, Fan!Put
<1>2. FanStages' = FanStages /\ Fan!Jobs' = Fan!Jobs /\ Fan!Workers' = Fan!Workers
  BY <1>1 DEF FanStages, Fan!Jobs, Fan!Workers
<1>3. FanTypeInv'
  <2>1. job' \in [Fan!Jobs -> FanStages] /\ slot' \in [Fan!Jobs -> {"blank", "disabled", "result"}]
    BY <1>1 DEF FanIInv, FanTypeInv, FanStages, Fan!Finish, Fan!Fill
  <2>2. worker' \in [Fan!Workers -> -1..jobs]
    BY <1>1 DEF FanIInv, FanTypeInv
  <2>. QED BY <1>1, <1>2, <2>1, <2>2 DEF FanIInv, FanTypeInv
<1>4. FanPoolInv'
  <2>1. \A w \in Fan!Workers : worker'[w] = -1 => worker[w] = -1
    BY <1>1 DEF FanIInv, FanTypeInv
  <2>2. \A i \in Fan!Jobs : i # j => job'[i] = job[i] /\ \A w \in Fan!Workers : worker[w] = i => worker'[w] = i
    BY <1>1 DEF FanIInv, FanTypeInv
  <2>3. job'[j] = "ended"
    BY <1>1 DEF FanIInv, FanTypeInv
  <2>. QED BY <1>1, <1>2, <2>1, <2>2, <2>3 DEF FanIInv, FanPoolInv
<1>5. FanOpenInv'
  BY <1>1, <1>2 DEF FanIInv, FanTypeInv, FanOpenInv, Fan!AllOut
<1>6. FanEndInv'
  BY <1>1, FanEndInvOf DEF Fan!Finish, Fan!Fill
<1>7. FanOwedInv'
  <2>1. CASE way = "each"
    <3>1. FanOwing' = FanOwing \ {j} /\ j \in FanOwing
      BY <1>1, <1>2, <2>1 DEF FanIInv, FanTypeInv, FanOwing
    <3>. QED BY <1>1, <2>1, <3>1, FanOwingIsFinite, FS_RemoveElement DEF FanIInv, FanOwedInv
  <2>2. CASE way # "each"
    <3>1. \A w \in Fan!Workers : worker'[w] # -1 <=> worker[w] # -1
      BY <1>1 DEF FanIInv, FanTypeInv, Fan!Jobs
    <3>2. FanOwing' = FanOwing
      BY <1>1, <1>2, <2>2, <3>1 DEF FanIInv, FanTypeInv, FanOwing
    <3>. QED BY <1>1, <2>2, <3>2 DEF FanIInv, FanOwedInv
  <2>. QED BY <2>1, <2>2
<1>. QED BY <1>3, <1>4, <1>5, <1>6, <1>7 DEF FanIInv

(* The request has waited for everyone, unless it is of those that wait    *)
(* for nobody.                                                             *)
LEMMA FanNobodyIsOwing ==
  ASSUME FanIInv, Fan!AllOut, owed = 0, way = "serial" => \A j \in Fan!Jobs : job[j] = "ended"
  PROVE  queue = <<>> /\ \A j \in Fan!Jobs : job[j] = "ended"
<1>1. FanOwing = {}
  BY FanOwingIsFinite, FS_EmptySet DEF FanIInv, FanOwedInv
<1>2. CASE way = "pool"
  <2>1. 1 \in Fan!Workers /\ \A w \in Fan!Workers : worker[w] = -1
    BY <1>1, <1>2 DEF FanIInv, FanTypeInv, FanOwing, Fan!Workers
  <2>2. queue = <<>>
    BY <2>1 DEF FanIInv, FanPoolInv
  <2>3. \A j \in Fan!Jobs : job[j] # "queued" /\ job[j] # "busy"
    BY <1>2, <2>1, <2>2 DEF FanIInv, FanPoolInv, Fan!Jobs
  <2>. QED BY <1>2, <2>2, <2>3 DEF FanIInv, FanTypeInv, FanStages, Fan!AllOut
<1>3. CASE way # "pool"
  BY <1>1, <1>3 DEF FanIInv, FanTypeInv, FanPoolInv, FanStages, Fan!AllOut, FanOwing
<1>. QED BY <1>2, <1>3

LEMMA FanInductive == ASSUME Fan!FanAssumption PROVE FanIInv /\ [Fan!Next]_(Fan!fanVars) => FanIInv'
<1>. SUFFICES ASSUME FanIInv, [Fan!Next]_(Fan!fanVars) PROVE FanIInv'
  OBVIOUS
<1>1. ASSUME NEW j \in Fan!Jobs, Fan!GiveToPool(j) PROVE FanIInv'
  BY <1>1, FanGiveToPoolInv
<1>2. ASSUME NEW j \in Fan!Jobs, Fan!Disabled(j) PROVE FanIInv'
  <2>1. FanEndInv'
    BY <1>2, FanEndInvOf DEF Fan!Disabled, Fan!Put, Fan!Fill
  <2>2. FanStages' = FanStages /\ Fan!Jobs' = Fan!Jobs /\ Fan!Workers' = Fan!Workers
    BY <1>2 DEF Fan!Disabled, FanStages, Fan!Jobs, Fan!Workers
  <2>3. FanTypeInv'
    BY <1>2, <2>2 DEF Fan!Disabled, Fan!Put, Fan!Fill, FanIInv, FanTypeInv, FanStages
  <2>4. FanPoolInv' /\ FanOpenInv'
    BY <1>2, <2>2 DEF Fan!Disabled, Fan!Put, Fan!IsNext, Fan!AllOut, FanIInv, FanTypeInv, FanPoolInv, FanOpenInv
  <2>5. FanOwing' = FanOwing /\ owed' = owed
    BY <1>2, <2>2 DEF Fan!Disabled, Fan!Put, Fan!IsNext, FanIInv, FanTypeInv, FanOwing
  <2>. QED BY <2>1, <2>3, <2>4, <2>5 DEF FanIInv, FanOwedInv
<1>3. ASSUME NEW j \in Fan!Jobs, Fan!Ask(j) PROVE FanIInv'
  BY <1>3, FanAskInv
<1>4. ASSUME NEW j \in Fan!Jobs, Fan!AskInTurn(j) PROVE FanIInv'
  <2>1. FanStages' = FanStages /\ Fan!Jobs' = Fan!Jobs /\ Fan!Workers' = Fan!Workers
    BY <1>4 DEF Fan!AskInTurn, FanStages, Fan!Jobs, Fan!Workers
  <2>2. FanTypeInv'
    BY <1>4, <2>1 DEF Fan!AskInTurn, Fan!Put, FanIInv, FanTypeInv, FanStages
  <2>3. FanPoolInv' /\ FanOpenInv' /\ FanEndInv'
    BY <1>4, <2>1 DEF Fan!AskInTurn, Fan!Put, Fan!IsNext, Fan!AllOut, FanIInv, FanTypeInv, FanPoolInv, FanOpenInv,
       FanEndInv
  <2>4. FanOwing' = FanOwing /\ owed' = owed
    BY <1>4, <2>1 DEF Fan!AskInTurn, FanOwing
  <2>. QED BY <2>2, <2>3, <2>4 DEF FanIInv, FanOwedInv
<1>5. ASSUME NEW j \in Fan!Jobs, Fan!Finish(j) PROVE FanIInv'
  BY <1>5, FanFinishInv
<1>6. ASSUME NEW j \in Fan!Jobs, Fan!PingTunnel(j) PROVE FanIInv'
  <2>1. PICK where \in {"sending", "silent"} : Fan!Put(j, where)
    BY <1>6 DEF Fan!PingTunnel
  <2>2. FanStages' = FanStages /\ Fan!Jobs' = Fan!Jobs /\ Fan!Workers' = Fan!Workers
    BY <1>6 DEF Fan!PingTunnel, FanStages, Fan!Jobs, Fan!Workers
  <2>3. FanTypeInv'
    BY <1>6, <2>1, <2>2 DEF Fan!PingTunnel, Fan!Put, FanIInv, FanTypeInv, FanStages
  <2>4. FanPoolInv' /\ FanOpenInv' /\ FanEndInv'
    BY <1>6, <2>1, <2>2 DEF Fan!PingTunnel, Fan!Put, Fan!AllOut, FanIInv, FanTypeInv, FanPoolInv, FanOpenInv, FanEndInv
  <2>5. FanOwing' = FanOwing /\ owed' = owed
    BY <1>6, <2>1, <2>2 DEF Fan!PingTunnel, Fan!Put, FanIInv, FanTypeInv, FanOwing
  <2>. QED BY <2>3, <2>4, <2>5 DEF FanIInv, FanOwedInv
<1>7. ASSUME NEW j \in Fan!Jobs, Fan!Collect(j) PROVE FanIInv'
  <2>1. FanEndInv'
    BY <1>7, FanEndInvOf DEF Fan!Collect, Fan!Put, Fan!Fill
  <2>2. FanStages' = FanStages /\ Fan!Jobs' = Fan!Jobs /\ Fan!Workers' = Fan!Workers /\ way = "collect"
    BY <1>7 DEF Fan!Collect, FanIInv, FanTypeInv, FanStages, Fan!Jobs, Fan!Workers
  <2>3. FanTypeInv'
    BY <1>7, <2>2 DEF Fan!Collect, Fan!Put, Fan!Fill, FanIInv, FanTypeInv, FanStages
  <2>4. FanPoolInv' /\ FanOpenInv'
    BY <1>7, <2>2 DEF Fan!Collect, Fan!Put, Fan!AllOut, FanIInv, FanTypeInv, FanPoolInv, FanOpenInv
  <2>5. FanOwing' = FanOwing \ {j} /\ j \in FanOwing
    BY <1>7, <2>2 DEF Fan!Collect, Fan!Put, FanIInv, FanTypeInv, FanOwing
  <2>6. FanOwedInv'
    BY <1>7, <2>5, FanOwingIsFinite, FS_RemoveElement DEF Fan!Collect, FanIInv, FanOwedInv
  <2>. QED BY <2>1, <2>3, <2>4, <2>6 DEF FanIInv
<1>8. ASSUME NEW w \in Fan!Workers, Fan!Work(w) PROVE FanIInv'
  BY <1>8, FanWorkInv
<1>9. ASSUME NEW w \in Fan!Workers, Fan!Leave(w) PROVE FanIInv'
  BY <1>9, FanLeaveInv
<1>10. CASE Fan!CloseQueue
  BY <1>10 DEF Fan!CloseQueue, Fan!AllOut, FanIInv, FanTypeInv, FanPoolInv, FanOpenInv, FanOwedInv, FanEndInv,
     Fan!Jobs, Fan!Workers, FanStages, FanOwing
<1>11. CASE Fan!Answer
  <2>1. queue = <<>> /\ \A j \in Fan!Jobs : job[j] = "ended"
    BY <1>11, FanNobodyIsOwing DEF Fan!Answer
  <2>. QED
    BY <1>11, <2>1 DEF Fan!Answer, Fan!AllOut, FanIInv, FanTypeInv, FanPoolInv, FanOpenInv, FanOwedInv, FanEndInv,
       Fan!Jobs, Fan!Workers, FanStages, FanOwing
<1>12. CASE UNCHANGED Fan!fanVars
  BY <1>12 DEF Fan!fanVars, Fan!AllOut, FanIInv, FanTypeInv, FanPoolInv, FanOpenInv, FanOwedInv, FanEndInv, Fan!Jobs,
     Fan!Workers, FanStages, FanOwing
<1>. QED
  BY <1>1, <1>2, <1>3, <1>4, <1>5, <1>6, <1>7, <1>8, <1>9, <1>10, <1>11, <1>12 DEF Fan!Next

LEMMA FanWhole == FanIInv => Fan!TypeOK /\ Fan!AnswersAreWhole
<1>. SUFFICES ASSUME FanIInv PROVE Fan!TypeOK /\ Fan!AnswersAreWhole
  OBVIOUS
<1>1. owed \in Nat
  BY FanOwingIsFinite, FS_CardinalityType DEF FanIInv, FanOwedInv
<1>2. Fan!TypeOK
  <2>1. job \in [Fan!Jobs -> {"todo", "queued", "busy", "sending", "ended", "silent"}]
    BY DEF FanIInv, FanTypeInv, FanStages
  <2>. QED BY <1>1, <2>1 DEF FanIInv, FanTypeInv, Fan!TypeOK
<1>3. ASSUME Fan!AllOut, \A j \in Fan!Jobs : job[j] \in {"ended", "silent"}, \A w \in Fan!Workers : worker[w] = -1
      PROVE  FanOwing = {j \in Fan!Jobs : job[j] = "silent"}
  BY <1>3 DEF FanIInv, FanTypeInv, FanStages, FanOwing
<1>4. Fan!AnswersAreWhole
  BY <1>3, FanCardinality DEF FanIInv, FanOwedInv, FanEndInv, Fan!AnswersAreWhole
<1>. QED BY <1>2, <1>4

LEMMA FanInvariant == ASSUME Fan!FanAssumption PROVE Fan!FanSpec => []FanIInv
<1>1. Fan!Init => FanIInv
  BY FanInitInv
<1>2. FanIInv /\ [Fan!Next]_(Fan!fanVars) => FanIInv'
  BY FanInductive
<1>. QED BY <1>1, <1>2, PTL DEF Fan!FanSpec

(* An answer that many jobs have a part in has the part of each, and what  *)
(* the request waits for in the end are the pings without a result, for    *)
(* any number of jobs and any size of the channel.                         *)
THEOREM AnswersHaveAllParts == ASSUME Fan!FanAssumption PROVE Fan!FanSpec => []Fan!AnswersAreWhole
<1>1. FanIInv => Fan!AnswersAreWhole
  BY FanWhole
<1>. QED BY <1>1, FanInvariant, PTL

(* A client of which this part moves is one of this part alone.            *)
LEMMA FanOfParts == Spec => Fan!FanSpec
<1>1. Init => Fan!Init
  BY DEF Init
<1>2. [Next]_vars => [Fan!Next]_(Fan!fanVars)
  <2>1. Next => Fan!Next \/ UNCHANGED fanVars
    BY DEF Next, Request, Store, Update, CheckBackups, TellQueues, TellSessions, CoolDown, AskMany, RunCommand
  <2>2. UNCHANGED vars => UNCHANGED fanVars
    BY DEF vars
  <2>3. UNCHANGED fanVars => UNCHANGED Fan!fanVars
    BY DEF fanVars, Fan!fanVars
  <2>. QED BY <2>1, <2>2, <2>3
<1>. QED BY <1>1, <1>2, PTL DEF Spec, Fan!FanSpec

-----------------------------------------------------------------------------
(* The cooldown of webhooks (Cooldown).                                    *)
LEMMA CoolCardinality == ASSUME NEW S PROVE Cool!Cardinality(S) = Cardinality(S)
BY DEF Cool!Cardinality, Cardinality

CoolCallerType == [at : {"idle", "asked", "done"}, in : Nat, active : BOOLEAN]

CoolTypeInv ==
  /\ caller \in [Callers -> CoolCallerType]
  /\ rep \in Seq(BOOLEAN) /\ Len(rep) <= 1
  /\ cool \subseteq Cool!Keys /\ cools \in [Cool!Keys -> 0..MaxCools]

(* An answer is held out exactly while somebody waits, and only one does:  *)
(* the channels are unbuffered. Who has asked and has not been let through *)
(* is "active" still.                                                      *)
CoolAskerInv ==
  /\ \A c \in Callers : caller[c].at = "asked" => rep # <<>> /\ caller[c].active
  /\ \A c, d \in Callers : caller[c].at = "asked" /\ caller[d].at = "asked" => c = d
  /\ \A c \in Callers : caller[c].in <= cools[KeyOf[c]]
  /\ \A c \in Callers : caller[c].at = "idle" => caller[c].active /\ caller[c].in = 0

(* No two are let through in one cooldown, and whoever is about to be let  *)
(* through is the first to ask in his.                                     *)
CoolOnceInv ==
  \A c, d \in Callers :
    KeyOf[c] = KeyOf[d] /\ caller[c].in = caller[d].in /\ caller[c].in > 0 /\ c # d =>
      /\ caller[c].active \/ caller[d].active
      /\ caller[c].at = "asked" => rep[1] \/ caller[d].active

CoolIInv == CoolTypeInv /\ CoolAskerInv /\ CoolOnceInv

-----------------------------------------------------------------------------
LEMMA CoolInitInv == ASSUME Cool!CooldownAssumption, Cool!Init PROVE CoolIInv
<1>1. CoolTypeInv
  BY DEF Cool!CooldownAssumption, Cool!Init, CoolTypeInv, CoolCallerType
<1>2. CoolAskerInv /\ CoolOnceInv
  BY DEF Cool!CooldownAssumption, Cool!Init, CoolAskerInv, CoolOnceInv, Cool!Keys
<1>. QED BY <1>1, <1>2 DEF CoolIInv

LEMMA CoolAskInv ==
  ASSUME Cool!CooldownAssumption, CoolIInv, NEW c \in Callers, Cool!Ask(c)
  PROVE  CoolIInv'
<1>. USE DEF Cool!CooldownAssumption
<1>. DEFINE k == KeyOf[c]
<1>1. k \in Cool!Keys /\ cools[k] \in Nat /\ rep = <<>> /\ rep' = <<k \in cool>>
  BY DEF Cool!Ask, Cool!Asked, CoolIInv, CoolTypeInv, Cool!Keys
<1>2. cool' \subseteq Cool!Keys /\ cools' \in [Cool!Keys -> 0..MaxCools] /\ cools'[k] = (IF k \in cool THEN cools[k] ELSE cools[k] + 1)
      /\ \A l \in Cool!Keys : l # k => cools'[l] = cools[l]
  BY <1>1 DEF Cool!Ask, Cool!Asked, CoolIInv, CoolTypeInv
<1>3. caller[c].active /\ caller[c] \in CoolCallerType /\ \A d \in Callers : caller[d].at # "asked"
  BY <1>1 DEF Cool!Ask, CoolIInv, CoolTypeInv, CoolAskerInv
<1>4. caller' \in [Callers -> CoolCallerType]
  BY <1>1, <1>2 DEF Cool!Ask, Cool!Asked, CoolIInv, CoolTypeInv, CoolCallerType
<1>5. caller'[c].at = "asked" /\ caller'[c].in = cools'[k] /\ caller'[c].active
  BY <1>1, <1>3 DEF Cool!Ask, Cool!Asked, CoolIInv, CoolTypeInv, CoolCallerType
<1>6. CoolTypeInv'
  BY <1>1, <1>2, <1>4 DEF CoolIInv, CoolTypeInv
<1>7. \A d \in Callers : d # c => caller'[d] = caller[d]
  BY DEF Cool!Ask, Cool!Asked, CoolIInv, CoolTypeInv
<1>8. \A d \in Callers : KeyOf[d] \in Cool!Keys /\ caller[d].in \in Nat /\ caller[d].in <= cools[KeyOf[d]]
  BY DEF Cool!Keys, CoolIInv, CoolTypeInv, CoolAskerInv, CoolCallerType
<1>9. CoolAskerInv'
  <2>1. \A d \in Callers : caller'[d].at = "asked" => d = c
    BY <1>3, <1>5, <1>7
  <2>2. \A d \in Callers : caller'[d].in <= cools'[KeyOf[d]]
    BY <1>1, <1>2, <1>5, <1>7, <1>8
  <2>. QED BY <1>1, <1>5, <1>7, <2>1, <2>2 DEF CoolIInv, CoolAskerInv
<1>10. CoolOnceInv'
  <2>. SUFFICES ASSUME NEW d \in Callers, NEW e \in Callers, d # e, KeyOf[d] = KeyOf[e],
                       caller'[d].in = caller'[e].in, caller'[d].in > 0
                PROVE  /\ caller'[d].active \/ caller'[e].active
                       /\ caller'[d].at = "asked" => rep'[1] \/ caller'[e].active
    BY DEF CoolOnceInv
  <2>1. CASE d = c
    <3>1. KeyOf[e] = k /\ caller'[e] = caller[e]
      BY <1>5, <1>7, <2>1
    <3>2. CASE k \in cool
      <4>1. rep'[1]
        BY <1>1, <3>2
      <4>. QED BY <1>5, <1>7, <2>1, <4>1
    <3>3. CASE k \notin cool
      BY <1>1, <1>2, <1>5, <1>7, <1>8, <2>1, <3>1, <3>3
    <3>. QED BY <3>2, <3>3
  <2>2. CASE e = c
    BY <1>3, <1>5, <1>7, <2>2
  <2>3. CASE d # c /\ e # c
    BY <1>3, <1>5, <1>7, <2>3 DEF CoolIInv, CoolOnceInv
  <2>. QED BY <2>1, <2>2, <2>3
<1>. QED BY <1>6, <1>9, <1>10 DEF CoolIInv

LEMMA CoolTakeInv ==
  ASSUME CoolIInv, NEW c \in Callers, Cool!Take(c)
  PROVE  CoolIInv'
<1>1. caller[c] \in CoolCallerType /\ caller[c].at = "asked" /\ rep # <<>> /\ rep[1] \in BOOLEAN /\ rep' = <<>>
  BY DEF Cool!Take, CoolIInv, CoolTypeInv
<1>2. caller' \in [Callers -> CoolCallerType] /\ UNCHANGED <<cool, cools>>
  BY <1>1 DEF Cool!Take, CoolIInv, CoolTypeInv, CoolCallerType
<1>3. caller'[c].at = "done" /\ caller'[c].in = caller[c].in /\ caller'[c].active = rep[1]
  BY <1>1 DEF Cool!Take, CoolIInv, CoolTypeInv, CoolCallerType
<1>4. CoolTypeInv'
  BY <1>1, <1>2 DEF CoolIInv, CoolTypeInv
<1>5. \A d \in Callers : d # c => caller'[d] = caller[d]
  BY DEF Cool!Take, CoolIInv, CoolTypeInv
<1>6. \A d \in Callers : d # c => caller[d].at # "asked"
  BY <1>1 DEF CoolIInv, CoolAskerInv
<1>7. CoolAskerInv'
  BY <1>1, <1>2, <1>3, <1>5, <1>6 DEF CoolIInv, CoolAskerInv
<1>8. CoolOnceInv'
  BY <1>1, <1>3, <1>5, <1>6 DEF CoolIInv, CoolOnceInv
<1>. QED BY <1>4, <1>7, <1>8 DEF CoolIInv

LEMMA CoolInductive == ASSUME Cool!CooldownAssumption PROVE CoolIInv /\ [Cool!Next]_(Cool!coolVars) => CoolIInv'
<1>. SUFFICES ASSUME CoolIInv, [Cool!Next]_(Cool!coolVars) PROVE CoolIInv'
  OBVIOUS
<1>1. ASSUME NEW c \in Callers, Cool!Ask(c) PROVE CoolIInv'
  BY <1>1, CoolAskInv
<1>2. ASSUME NEW c \in Callers, Cool!Take(c) PROVE CoolIInv'
  BY <1>2, CoolTakeInv
<1>3. CASE UNCHANGED Cool!coolVars
  BY <1>3 DEF CoolIInv, CoolTypeInv, CoolAskerInv, CoolOnceInv, Cool!coolVars
<1>4. ASSUME NEW k \in Cool!Keys, Cool!CooledDown(k) PROVE CoolIInv'
  BY <1>4 DEF CoolIInv, CoolTypeInv, CoolAskerInv, CoolOnceInv, Cool!CooledDown
<1>. QED BY <1>1, <1>2, <1>3, <1>4 DEF Cool!Next

LEMMA CoolTyped == CoolIInv => Cool!TypeOK
BY DEF CoolIInv, CoolTypeInv, Cool!TypeOK, CoolCallerType

LEMMA CoolOne == ASSUME Cool!CooldownAssumption PROVE CoolIInv => Cool!OncePerCooldown
<1>. SUFFICES ASSUME CoolIInv, NEW k \in Cool!Keys, NEW n \in 1..MaxCools
              PROVE  Cardinality({c \in Callers : KeyOf[c] = k /\ caller[c].in = n /\ ~caller[c].active}) <= 1
  BY CoolCardinality DEF Cool!OncePerCooldown
<1>. DEFINE through == {c \in Callers : KeyOf[c] = k /\ caller[c].in = n /\ ~caller[c].active}
<1>1. \A c, d \in through : c = d
  BY DEF CoolIInv, CoolOnceInv, Cool!CooldownAssumption
<1>. SUFFICES Cardinality(through) <= 1
  OBVIOUS
<1>. HIDE DEF through
<1>2. CASE through = {}
  BY <1>2, FS_EmptySet
<1>3. CASE through # {}
  <2>1. PICK c \in through : through = {c}
    BY <1>1, <1>3
  <2>2. Cardinality({c}) = 1
    BY FS_Singleton
  <2>. QED BY <2>1, <2>2
<1>. QED BY <1>2, <1>3

LEMMA CoolInvariant == ASSUME Cool!CooldownAssumption PROVE Cool!CooldownSpec => []CoolIInv
<1>1. Cool!Init => CoolIInv
  BY CoolInitInv
<1>2. CoolIInv /\ [Cool!Next]_(Cool!coolVars) => CoolIInv'
  BY CoolInductive
<1>. QED BY <1>1, <1>2, PTL DEF Cool!CooldownSpec

(* Of the webhooks for one key that come in one cooldown, one is let       *)
(* through, although an answer does not say whose it is: for any set of    *)
(* webhooks and of keys.                                                   *)
THEOREM OneIsLetThrough == ASSUME Cool!CooldownAssumption PROVE Cool!CooldownSpec => []Cool!OncePerCooldown
<1>1. CoolIInv => Cool!OncePerCooldown
  BY CoolOne
<1>. QED BY <1>1, CoolInvariant, PTL

(* A client of which this part moves is one of this part alone.            *)
LEMMA CoolOfParts == Spec => Cool!CooldownSpec
<1>1. Init => Cool!Init
  BY DEF Init
<1>2. [Next]_vars => [Cool!Next]_(Cool!coolVars)
  <2>1. Next => Cool!Next \/ UNCHANGED coolVars
    BY DEF Next, Request, Store, Update, CheckBackups, TellQueues, TellSessions, CoolDown, AskMany, RunCommand
  <2>2. UNCHANGED vars => UNCHANGED coolVars
    BY DEF vars
  <2>3. UNCHANGED coolVars => UNCHANGED Cool!coolVars
    BY DEF coolVars, Cool!coolVars
  <2>. QED BY <2>1, <2>2, <2>3
<1>. QED BY <1>1, <1>2, PTL DEF Spec, Cool!CooldownSpec

-----------------------------------------------------------------------------
(* What is told of Plex sessions (PlexSessions).                           *)
PlexStates == Plex!Present \cup {"absent", "gone"}
PlexLists == [Sessions -> PlexStates]
PlexStored == [known : BOOLEAN, list : PlexLists]
PlexAskerType ==
  [at : {"idle", "ask", "wait", "track", "have", "done"}, job : {"none", "check", "report", "hook"},
   of : Plex!Loads, before : PlexStored, got : PlexLists]

PlexTypeInv ==
  /\ plex \in PlexLists /\ stored \in PlexStored /\ age \in 0..2 /\ plexLoads \in Plex!Loads
  /\ asker \in [Plex!Askers -> PlexAskerType] /\ \A a \in Plex!Askers : asker[a].of <= plexLoads
  /\ plexLock \in [Plex!Loads -> Plex!Askers \cup {Plex!NoOne}] /\ sent \in [Plex!Loads -> SUBSET Sessions]
  /\ played \in [Sessions -> Nat] /\ finished \in [Sessions -> Nat] /\ crossed \in BOOLEAN

(* A session does not begin again: what Plex says of it only goes on.      *)
PlexFollows(old, new) ==
  \A s \in Sessions :
    \/ old[s] = "absent"
    \/ old[s] \in Plex!Present /\ new[s] # "absent"
    \/ old[s] = "gone" /\ new[s] = "gone"

PlexLockInv == \A a \in Plex!Askers : Plex!AsksPlex(a) => plexLock[asker[a].of] = a

(* As long as no two configurations ask Plex at once, whoever asks is the  *)
(* only one, and the list that it compares with is the one that is stored. *)
PlexAloneInv ==
  \A a \in Plex!Askers : Plex!AsksPlex(a) => asker[a].before = stored /\ \A b \in Plex!Askers : Plex!AsksPlex(b) => b = a

(* What is stored is older than what an answer says, and that than what    *)
(* Plex knows.                                                             *)
PlexOrderInv ==
  /\ PlexFollows(stored.list, plex)
  /\ \A a \in Plex!Askers : asker[a].at = "track" => PlexFollows(stored.list, asker[a].got) /\ PlexFollows(asker[a].got, plex)

(* A session of which the website was told is in the list.                 *)
PlexPlayedInv == \A s \in Sessions : played[s] <= 1 /\ (played[s] = 1 => stored.list[s] # "absent")

(* That a session is finished was told once for each configuration that    *)
(* keeps it in mind.                                                       *)
PlexFinishedInv ==
  /\ \A n \in Plex!Loads : n > plexLoads => sent[n] = {}
  /\ \A s \in Sessions : finished[s] = Cardinality({n \in Plex!Loads : s \in sent[n]})

PlexOnceInv == crossed \/ (PlexAloneInv /\ PlexOrderInv /\ PlexPlayedInv)

PlexIInv == PlexTypeInv /\ PlexLockInv /\ PlexOnceInv /\ PlexFinishedInv

-----------------------------------------------------------------------------
LEMMA PlexFollowsIsTransitive ==
  ASSUME NEW x, NEW y \in PlexLists, NEW z, PlexFollows(x, y), PlexFollows(y, z)
  PROVE  PlexFollows(x, z)
BY DEF PlexFollows, PlexLists, PlexStates, Plex!Present

LEMMA PlexNobodyIsFirst == Plex!Nobody \in PlexLists /\ \A x : PlexFollows(Plex!Nobody, x)
BY DEF Plex!Nobody, PlexLists, PlexStates, PlexFollows

LEMMA PlexIdleType == ASSUME Plex!SessionsAssumption PROVE Plex!Idle \in PlexAskerType
BY PlexNobodyIsFirst DEF Plex!SessionsAssumption, Plex!Idle, PlexAskerType, Plex!Never, PlexStored, Plex!Loads

LEMMA PlexInitInv == ASSUME Plex!SessionsAssumption, Plex!Init PROVE PlexIInv
<1>1. PlexTypeInv
  <2>1. asker \in [Plex!Askers -> PlexAskerType] /\ \A a \in Plex!Askers : asker[a].of = 1
    BY PlexIdleType DEF Plex!Init, Plex!Idle
  <2>2. plex \in PlexLists /\ stored \in PlexStored
    BY PlexNobodyIsFirst DEF Plex!Init, Plex!Never, PlexStored
  <2>3. age \in 0..2 /\ plexLoads \in Plex!Loads /\ plexLoads = 1
    BY DEF Plex!SessionsAssumption, Plex!Init, Plex!Loads
  <2>4. /\ plexLock \in [Plex!Loads -> Plex!Askers \cup {Plex!NoOne}] /\ sent \in [Plex!Loads -> SUBSET Sessions]
        /\ played \in [Sessions -> Nat] /\ finished \in [Sessions -> Nat]
    BY DEF Plex!Init
  <2>5. \A a \in Plex!Askers : asker[a].of <= plexLoads
    BY <2>1, <2>3
  <2>. QED BY <2>1, <2>2, <2>3, <2>4, <2>5 DEF Plex!Init, PlexTypeInv
<1>2. \A a \in Plex!Askers : asker[a].at = "idle"
  BY DEF Plex!Init, Plex!Idle
<1>3. PlexLockInv /\ PlexOnceInv
  BY <1>2, PlexNobodyIsFirst DEF Plex!Init, PlexLockInv, PlexOnceInv, PlexAloneInv, PlexOrderInv, PlexPlayedInv,
     Plex!AsksPlex, Plex!Never
<1>4. PlexFinishedInv
  <2>1. \A s \in Sessions : {n \in Plex!Loads : s \in sent[n]} = {}
    BY DEF Plex!Init
  <2>. QED BY <2>1, FS_EmptySet DEF Plex!Init, PlexFinishedInv
<1>. QED BY <1>1, <1>3, <1>4 DEF PlexIInv

(* One asker goes on, and neither it nor another asks Plex for that.       *)
LEMMA PlexAskerInv ==
  ASSUME PlexIInv, NEW a \in Plex!Askers, NEW new \in PlexAskerType, asker' = [asker EXCEPT ![a] = new], new.of <= plexLoads,
         new.at \notin {"wait", "track"}, ~Plex!AsksPlex(a),
         UNCHANGED <<plex, stored, age, plexLoads, plexLock, sent, played, finished, crossed>>
  PROVE  PlexIInv'
<1>1. asker'[a] = new /\ \A b \in Plex!Askers : b # a => asker'[b] = asker[b]
  BY DEF PlexIInv, PlexTypeInv
<1>2. PlexTypeInv'
  BY <1>1 DEF PlexIInv, PlexTypeInv
<1>3. \A b \in Plex!Askers : Plex!AsksPlex(b)' => b # a /\ Plex!AsksPlex(b)
  BY <1>1 DEF Plex!AsksPlex
<1>4. PlexLockInv'
  BY <1>1, <1>3 DEF PlexIInv, PlexLockInv
<1>5. PlexAloneInv => PlexAloneInv'
  BY <1>1, <1>3 DEF PlexAloneInv
<1>6. PlexOrderInv => PlexOrderInv'
  <2>1. \A b \in Plex!Askers : asker'[b].at = "track" => b # a
    BY <1>1
  <2>. QED BY <1>1, <2>1 DEF PlexOrderInv, PlexFollows
<1>7. PlexOnceInv'
  BY <1>5, <1>6 DEF PlexIInv, PlexOnceInv, PlexPlayedInv
<1>. QED BY <1>2, <1>4, <1>7 DEF PlexIInv, PlexFinishedInv

LEMMA PlexWatchInv == ASSUME PlexIInv, NEW s \in Sessions, Plex!Watch(s) PROVE PlexIInv'
<1>1. plex' \in PlexLists /\ PlexFollows(plex, plex')
  <2>1. PICK next \in PlexStates : plex' = [plex EXCEPT ![s] = next] /\
          CASE plex[s] = "absent" -> next \in {"playing", "paused"}
            [] plex[s] = "playing" -> next \in {"paused", "done", "gone"}
            [] plex[s] = "paused" -> next \in {"playing", "gone"}
            [] plex[s] = "done" -> next = "gone"
            [] OTHER -> FALSE
    BY DEF Plex!Watch, PlexStates, Plex!Present
  <2>. QED BY <2>1 DEF PlexIInv, PlexTypeInv, PlexLists, PlexStates, Plex!Present, PlexFollows
<1>2. UNCHANGED <<stored, age, plexLoads, asker, plexLock, sent, played, finished, crossed>> /\ plex \in PlexLists /\ stored \in PlexStored
  BY DEF Plex!Watch, PlexIInv, PlexTypeInv
<1>3. PlexTypeInv' /\ PlexLockInv' /\ PlexFinishedInv'
  BY <1>1, <1>2 DEF PlexIInv, PlexTypeInv, PlexLockInv, PlexFinishedInv, Plex!AsksPlex
<1>4. PlexOrderInv => PlexOrderInv'
  BY <1>1, <1>2, PlexFollowsIsTransitive DEF PlexOrderInv
<1>5. PlexOnceInv'
  BY <1>2, <1>4 DEF PlexIInv, PlexOnceInv, PlexAloneInv, PlexPlayedInv, Plex!AsksPlex
<1>. QED BY <1>3, <1>5 DEF PlexIInv

(* Whoever takes the stored list asks nobody; whoever asks Plex has the    *)
(* lock of its configuration, and is alone unless another has another.     *)
LEMMA PlexGetSessionsInv == ASSUME Plex!SessionsAssumption, PlexIInv, NEW a \in Plex!Askers, Plex!GetSessions(a) PROVE PlexIInv'
<1>1. asker[a] \in PlexAskerType /\ asker[a].at = "ask" /\ plexLock[asker[a].of] = Plex!NoOne /\ stored \in PlexStored
      /\ asker[a].of <= plexLoads
  BY DEF PlexIInv, PlexTypeInv, Plex!GetSessions
<1>2. CASE stored.known /\ age <= Plex!Allowed(a)
  <2>. DEFINE new == [asker[a] EXCEPT !.at = "have", !.got = stored.list]
  <2>1. new \in PlexAskerType /\ new.at = "have" /\ new.of = asker[a].of
    BY <1>1 DEF PlexAskerType, PlexStored
  <2>2. asker' = [asker EXCEPT ![a] = new] /\ UNCHANGED <<plex, stored, age, plexLoads, plexLock, sent, played, finished, crossed>>
    BY <1>2 DEF Plex!GetSessions
  <2>3. ~Plex!AsksPlex(a)
    BY <1>1 DEF Plex!AsksPlex
  <2>. HIDE DEF new
  <2>. QED BY <1>1, <2>1, <2>2, <2>3, PlexAskerInv
<1>3. CASE ~(stored.known /\ age <= Plex!Allowed(a))
  <2>. DEFINE new == [asker[a] EXCEPT !.at = "wait", !.before = stored]
  <2>1. new \in PlexAskerType /\ new.at = "wait" /\ new.before = stored /\ new.of = asker[a].of
    BY <1>1 DEF PlexAskerType
  <2>2. /\ asker' = [asker EXCEPT ![a] = new] /\ plexLock' = [plexLock EXCEPT ![asker[a].of] = a]
        /\ crossed' = (crossed \/ \E b \in Plex!Askers : Plex!AsksPlex(b) /\ asker[b].of # asker[a].of)
        /\ UNCHANGED <<plex, stored, age, plexLoads, sent, played, finished>>
    BY <1>3 DEF Plex!GetSessions
  <2>. HIDE DEF new
  <2>3. asker'[a] = new /\ \A b \in Plex!Askers : b # a => asker'[b] = asker[b]
    BY <2>2 DEF PlexIInv, PlexTypeInv
  <2>4. asker[a].of \in Plex!Loads /\ plexLock'[asker[a].of] = a /\ \A n \in Plex!Loads : n # asker[a].of => plexLock'[n] = plexLock[n]
    BY <1>1, <2>2 DEF PlexIInv, PlexTypeInv, PlexAskerType
  <2>5. \A b \in Plex!Askers : Plex!AsksPlex(b) => plexLock[asker[b].of] = b /\ b # Plex!NoOne /\ asker[b].of \in Plex!Loads
    BY DEF Plex!SessionsAssumption, PlexIInv, PlexTypeInv, PlexLockInv, Plex!NoOne, Plex!Askers, PlexAskerType
  <2>6. PlexTypeInv'
    <3>1. asker' \in [Plex!Askers -> PlexAskerType] /\ \A b \in Plex!Askers : asker'[b].of <= plexLoads
      BY <1>1, <2>1, <2>2, <2>3 DEF PlexIInv, PlexTypeInv
    <3>2. crossed' \in BOOLEAN
      BY <2>2 DEF PlexIInv, PlexTypeInv
    <3>3. plexLock' \in [Plex!Loads -> Plex!Askers \cup {Plex!NoOne}]
      BY <2>2 DEF PlexIInv, PlexTypeInv
    <3>. QED BY <2>2, <3>1, <3>2, <3>3 DEF PlexIInv, PlexTypeInv
  <2>7. PlexLockInv'
    <3>1. ASSUME NEW b \in Plex!Askers, Plex!AsksPlex(b)', b # a PROVE plexLock'[asker'[b].of] = b
      <4>1. Plex!AsksPlex(b) /\ asker'[b] = asker[b]
        BY <2>3, <3>1 DEF Plex!AsksPlex
      <4>. QED BY <1>1, <2>4, <2>5, <4>1
    <3>. QED BY <2>1, <2>3, <2>4, <3>1 DEF PlexLockInv
  <2>8. ASSUME ~crossed' PROVE ~crossed /\ \A b \in Plex!Askers : ~Plex!AsksPlex(b)
    BY <1>1, <2>2, <2>5, <2>8
  <2>9. ASSUME ~crossed' PROVE PlexAloneInv' /\ PlexOrderInv' /\ PlexPlayedInv'
    <3>1. \A b \in Plex!Askers : Plex!AsksPlex(b)' => b = a
      BY <2>3, <2>8, <2>9 DEF Plex!AsksPlex
    <3>2. PlexAloneInv'
      BY <2>1, <2>2, <2>3, <3>1 DEF PlexAloneInv
    <3>3. \A b \in Plex!Askers : asker'[b].at # "track"
      BY <2>1, <2>3, <3>1 DEF Plex!AsksPlex
    <3>. QED BY <2>2, <2>8, <2>9, <3>2, <3>3 DEF PlexIInv, PlexOnceInv, PlexOrderInv, PlexPlayedInv
  <2>. QED BY <2>2, <2>6, <2>7, <2>9 DEF PlexIInv, PlexOnceInv, PlexFinishedInv
<1>. QED BY <1>2, <1>3

(* Only the lock that the asker has is given back.                         *)
LEMMA PlexUnlockInv ==
  ASSUME Plex!SessionsAssumption, PlexIInv, NEW a \in Plex!Askers, Plex!Unlock(a)
  PROVE  /\ plexLock' \in [Plex!Loads -> Plex!Askers \cup {Plex!NoOne}]
         /\ \A b \in Plex!Askers : b # a /\ Plex!AsksPlex(b) => plexLock'[asker[b].of] = b
BY DEF PlexIInv, PlexTypeInv, PlexLockInv, PlexAskerType, Plex!Unlock

LEMMA PlexPlexAnswersInv == ASSUME Plex!SessionsAssumption, PlexIInv, NEW a \in Plex!Askers, Plex!PlexAnswers(a) PROVE PlexIInv'
<1>1. asker[a] \in PlexAskerType /\ Plex!AsksPlex(a) /\ asker[a].of <= plexLoads /\ plex \in PlexLists /\ asker[a].at = "wait"
      /\ UNCHANGED <<plex, stored, age, plexLoads, sent, played, finished, crossed>>
  BY DEF PlexIInv, PlexTypeInv, Plex!PlexAnswers, Plex!AsksPlex
<1>2. ASSUME NEW new \in PlexAskerType, asker' = [asker EXCEPT ![a] = new], new.of = asker[a].of,
             new.before = asker[a].before, new.at # "wait",
             new.at = "track" => new.got = plex,
             IF new.at = "track" THEN UNCHANGED plexLock ELSE Plex!Unlock(a)
      PROVE  PlexIInv'
  <2>1. asker'[a] = new /\ \A b \in Plex!Askers : b # a => asker'[b] = asker[b]
    BY <1>2 DEF PlexIInv, PlexTypeInv
  <2>2. plexLock' \in [Plex!Loads -> Plex!Askers \cup {Plex!NoOne}] /\ \A b \in Plex!Askers : b # a /\ Plex!AsksPlex(b) => plexLock'[asker[b].of] = b
    BY <1>2, PlexUnlockInv DEF PlexIInv, PlexTypeInv, PlexLockInv
  <2>3. PlexTypeInv'
    BY <1>1, <1>2, <2>1, <2>2 DEF PlexIInv, PlexTypeInv
  <2>4. PlexLockInv'
    <3>1. Plex!AsksPlex(a)' => new.at = "track"
      BY <1>2, <2>1 DEF Plex!AsksPlex
    <3>2. Plex!AsksPlex(a)' => plexLock'[asker'[a].of] = a
      BY <1>1, <1>2, <2>1, <3>1, PlexUnlockInv DEF PlexIInv, PlexLockInv
    <3>. QED BY <2>1, <2>2, <3>2 DEF PlexLockInv, Plex!AsksPlex
  <2>5. \A b \in Plex!Askers : Plex!AsksPlex(b)' => Plex!AsksPlex(b)
    BY <1>1, <2>1 DEF Plex!AsksPlex
  <2>6. PlexAloneInv => PlexAloneInv'
    BY <1>1, <1>2, <2>1, <2>5 DEF PlexAloneInv
  <2>7. PlexOrderInv => PlexOrderInv'
    <3>1. PlexFollows(plex, plex)
      BY <1>1 DEF PlexFollows, PlexLists, PlexStates
    <3>. QED BY <1>1, <1>2, <2>1, <3>1 DEF PlexOrderInv
  <2>. QED BY <1>1, <2>3, <2>4, <2>6, <2>7 DEF PlexIInv, PlexOnceInv, PlexPlayedInv, PlexFinishedInv
<1>3. CASE asker' = [asker EXCEPT ![a].at = "track", ![a].got = plex] /\ UNCHANGED plexLock
  <2>. DEFINE new == [asker[a] EXCEPT !.at = "track", !.got = plex]
  <2>1. /\ new \in PlexAskerType /\ new.of = asker[a].of /\ new.before = asker[a].before
        /\ new.at = "track" /\ new.got = plex
    BY <1>1 DEF PlexAskerType
  <2>2. asker' = [asker EXCEPT ![a] = new]
    BY <1>3
  <2>. HIDE DEF new
  <2>. QED BY <1>2, <1>3, <2>1, <2>2
<1>4. CASE asker' = [asker EXCEPT ![a].at = IF a = "loop" /\ asker[a].job = "check" THEN "idle" ELSE "have"] /\ Plex!Unlock(a)
  <2>. DEFINE to == IF a = "loop" /\ asker[a].job = "check" THEN "idle" ELSE "have"
              new == [asker[a] EXCEPT !.at = to]
  <2>1. to \in {"idle", "have"}
    OBVIOUS
  <2>2. asker' = [asker EXCEPT ![a] = new]
    BY <1>4
  <2>. HIDE DEF to
  <2>3. /\ new \in PlexAskerType /\ new.of = asker[a].of /\ new.before = asker[a].before
        /\ new.at \notin {"wait", "track"}
    BY <1>1, <2>1 DEF PlexAskerType
  <2>. HIDE DEF new
  <2>. QED BY <1>2, <1>4, <2>2, <2>3
<1>. QED BY <1>3, <1>4 DEF Plex!PlexAnswers

(* A session that is new to the list that is stored was not told of.       *)
LEMMA PlexTrackInv == ASSUME Plex!SessionsAssumption, PlexIInv, NEW a \in Plex!Askers, Plex!Track(a) PROVE PlexIInv'
<1>. DEFINE got == asker[a].got
            new == [asker[a] EXCEPT !.at = "have"]
<1>1. asker[a] \in PlexAskerType /\ Plex!AsksPlex(a) /\ asker[a].at = "track" /\ asker[a].of <= plexLoads /\ got \in PlexLists
  BY DEF PlexIInv, PlexTypeInv, Plex!Track, Plex!AsksPlex, PlexAskerType
<1>2. new \in PlexAskerType /\ new.at = "have" /\ new.of = asker[a].of
  BY <1>1 DEF PlexAskerType
<1>3. PICK failed \in SUBSET {s \in Sessions : Plex!IsNew(a, s)} :
        played' = [s \in Sessions |-> played[s] + IF Plex!IsNew(a, s) /\ s \notin failed THEN 1 ELSE 0]
  BY DEF Plex!Track
<1>4. /\ stored' = [known |-> TRUE, list |-> got] /\ age' = 0
      /\ asker' = [asker EXCEPT ![a] = new] /\ Plex!Unlock(a)
      /\ UNCHANGED <<plex, plexLoads, sent, finished, crossed>>
  BY DEF Plex!Track
<1>5. asker'[a] = new /\ \A b \in Plex!Askers : b # a => asker'[b] = asker[b]
  BY <1>4 DEF PlexIInv, PlexTypeInv
<1>6. PlexTypeInv'
  <2>1. played' \in [Sessions -> Nat]
    BY <1>3 DEF PlexIInv, PlexTypeInv
  <2>2. stored' \in PlexStored
    BY <1>1, <1>4 DEF PlexStored
  <2>3. age' \in 0..2
    BY <1>4
  <2>. QED BY <1>1, <1>2, <1>4, <1>5, <2>1, <2>2, <2>3, PlexUnlockInv DEF PlexIInv, PlexTypeInv
<1>7. PlexLockInv'
  BY <1>2, <1>4, <1>5, PlexUnlockInv DEF PlexLockInv, Plex!AsksPlex
<1>8. ASSUME ~crossed PROVE PlexAloneInv' /\ PlexOrderInv' /\ PlexPlayedInv'
  <2>1. asker[a].before = stored /\ (\A b \in Plex!Askers : Plex!AsksPlex(b) => b = a)
        /\ PlexFollows(stored.list, got) /\ PlexFollows(got, plex) /\ PlexPlayedInv
    BY <1>1, <1>8 DEF PlexIInv, PlexOnceInv, PlexAloneInv, PlexOrderInv
  <2>2. \A b \in Plex!Askers : ~Plex!AsksPlex(b)'
    BY <1>2, <1>5, <2>1 DEF Plex!AsksPlex
  <2>3. PlexAloneInv' /\ PlexOrderInv'
    BY <1>4, <2>1, <2>2 DEF PlexAloneInv, PlexOrderInv, Plex!AsksPlex
  <2>4. ASSUME NEW s \in Sessions PROVE played'[s] <= 1 /\ (played'[s] = 1 => stored'.list[s] # "absent")
    <3>1. /\ played[s] \in Nat /\ played[s] <= 1 /\ (played[s] = 1 => stored.list[s] # "absent")
          /\ stored'.list[s] = got[s] /\ played'[s] = played[s] + IF Plex!IsNew(a, s) /\ s \notin failed THEN 1 ELSE 0
      BY <1>3, <1>4, <2>1 DEF PlexPlayedInv, PlexIInv, PlexTypeInv
    <3>2. Plex!IsNew(a, s) => stored.list[s] = "absent" /\ got[s] # "absent"
      BY <2>1 DEF Plex!IsNew, Plex!Playing, PlexFollows
    <3>3. stored.list[s] # "absent" => got[s] # "absent"
      BY <2>1 DEF PlexFollows
    <3>4. CASE Plex!IsNew(a, s) /\ s \notin failed
      BY <3>1, <3>2, <3>4
    <3>5. CASE ~(Plex!IsNew(a, s) /\ s \notin failed)
      BY <3>1, <3>3, <3>5
    <3>. QED BY <3>4, <3>5
  <2>. QED BY <2>3, <2>4 DEF PlexPlayedInv
<1>. QED BY <1>4, <1>6, <1>7, <1>8 DEF PlexIInv, PlexOnceInv, PlexFinishedInv

LEMMA PlexCheckForFinishedInv == ASSUME Plex!SessionsAssumption, PlexIInv, Plex!CheckForFinished PROVE PlexIInv'
<1>. DEFINE a == "loop"
            n == asker[a].of
<1>1. PICK said \in SUBSET {s \in Sessions : asker[a].got[s] = "done" /\ s \notin sent[n]} :
        /\ finished' = [s \in Sessions |-> finished[s] + IF s \in said THEN 1 ELSE 0]
        /\ sent' = [sent EXCEPT ![n] = @ \cup said]
  BY DEF Plex!CheckForFinished
<1>2. /\ a \in Plex!Askers /\ asker[a].at = "have" /\ n \in Plex!Loads /\ n <= plexLoads /\ plexLoads \in Plex!Loads
      /\ asker' = [asker EXCEPT ![a] = Plex!Idle] /\ UNCHANGED <<plex, stored, age, plexLoads, plexLock, played, crossed>>
  BY DEF Plex!CheckForFinished, Plex!Askers, PlexIInv, PlexTypeInv, PlexAskerType
<1>. HIDE DEF a, n
<1>3. sent'[n] = sent[n] \cup said /\ (\A m \in Plex!Loads : m # n => sent'[m] = sent[m]) /\ said \cap sent[n] = {}
  BY <1>1, <1>2 DEF PlexIInv, PlexTypeInv
<1>4. PlexFinishedInv'
  <2>1. ASSUME NEW m \in Plex!Loads, m > plexLoads PROVE sent'[m] = {}
    <3>1. m # n
      BY <1>2, <2>1 DEF Plex!Loads
    <3>. QED BY <1>3, <2>1, <3>1 DEF PlexIInv, PlexFinishedInv
  <2>2. ASSUME NEW s \in Sessions PROVE finished'[s] = Cardinality({m \in Plex!Loads : s \in sent'[m]})
    <3>. DEFINE old == {m \in Plex!Loads : s \in sent[m]}
                now == {m \in Plex!Loads : s \in sent'[m]}
    <3>. SUFFICES finished'[s] = Cardinality(now)
      OBVIOUS
    <3>1. IsFiniteSet(old)
      <4>1. IsFiniteSet(Plex!Loads) /\ old \in SUBSET Plex!Loads
        BY FS_Interval DEF Plex!SessionsAssumption, Plex!Loads
      <4>. QED BY <4>1, FS_Subset
    <3>2. finished[s] = Cardinality(old) /\ finished'[s] = finished[s] + IF s \in said THEN 1 ELSE 0
      BY <1>1 DEF PlexIInv, PlexFinishedInv
    <3>3. CASE s \in said
      <4>1. now = old \cup {n} /\ n \notin old
        BY <1>2, <1>3, <3>3
      <4>. HIDE DEF old, now
      <4>2. Cardinality(now) = Cardinality(old) + 1
        BY <3>1, <4>1, FS_AddElement
      <4>3. finished'[s] = finished[s] + 1
        BY <3>2, <3>3
      <4>4. finished[s] = Cardinality(old)
        BY <3>2
      <4>. QED BY <4>2, <4>3, <4>4
    <3>4. CASE s \notin said
      <4>1. now = old
        BY <1>2, <1>3, <3>4
      <4>2. finished'[s] = finished[s] + 0 /\ finished[s] \in Nat
        BY <3>2, <3>4 DEF PlexIInv, PlexTypeInv
      <4>3. finished'[s] = finished[s] /\ finished[s] = Cardinality(old)
        BY <3>2, <4>2
      <4>. HIDE DEF old, now
      <4>. QED BY <4>1, <4>3
    <3>. QED BY <3>3, <3>4
  <2>. QED BY <1>2, <2>1, <2>2 DEF PlexFinishedInv
<1>5. PlexTypeInv'
  <2>1. sent' \in [Plex!Loads -> SUBSET Sessions] /\ finished' \in [Sessions -> Nat]
    BY <1>1, <1>2 DEF PlexIInv, PlexTypeInv
  <2>2. Plex!Idle.of <= plexLoads
    BY <1>2 DEF Plex!Idle, Plex!Loads
  <2>. QED BY <1>2, <2>1, <2>2, PlexIdleType DEF PlexIInv, PlexTypeInv
<1>6. \A b \in Plex!Askers : (Plex!AsksPlex(b)' => b # a /\ Plex!AsksPlex(b)) /\ (b # a => asker'[b] = asker[b])
  BY <1>2 DEF PlexIInv, PlexTypeInv, Plex!AsksPlex, Plex!Idle
<1>7. PlexLockInv'
  BY <1>2, <1>6 DEF PlexIInv, PlexLockInv
<1>8. PlexAloneInv => PlexAloneInv'
  BY <1>2, <1>6 DEF PlexAloneInv
<1>9. PlexOrderInv => PlexOrderInv'
  <2>1. \A b \in Plex!Askers : asker'[b].at = "track" => b # a
    BY <1>6 DEF Plex!AsksPlex
  <2>. QED BY <1>2, <1>6, <2>1 DEF PlexOrderInv
<1>10. PlexOnceInv'
  BY <1>2, <1>8, <1>9 DEF PlexIInv, PlexOnceInv, PlexPlayedInv
<1>. QED BY <1>4, <1>5, <1>7, <1>10 DEF PlexIInv

LEMMA PlexInductive == ASSUME Plex!SessionsAssumption PROVE PlexIInv /\ [Plex!Next]_(Plex!plexVars) => PlexIInv'
<1>. SUFFICES ASSUME PlexIInv, [Plex!Next]_(Plex!plexVars) PROVE PlexIInv'
  OBVIOUS
<1>1. ASSUME NEW s \in Sessions, Plex!Watch(s) PROVE PlexIInv'
  BY <1>1, PlexWatchInv
<1>2. CASE Plex!Older
  <2>1. age' \in 0..2
    BY <1>2 DEF Plex!Older, PlexIInv, PlexTypeInv
  <2>. QED
    BY <1>2, <2>1 DEF Plex!Older, PlexIInv, PlexTypeInv, PlexLockInv, PlexOnceInv, PlexAloneInv, PlexOrderInv,
       PlexPlayedInv, PlexFinishedInv, Plex!AsksPlex
<1>3. CASE Plex!LoopAsks
  <2>1. PICK task \in {"check", "report"} :
          asker' = [asker EXCEPT !["loop"] = [Plex!Idle EXCEPT !.at = "ask", !.job = task, !.of = plexLoads]]
    BY <1>3 DEF Plex!LoopAsks
  <2>. DEFINE new == [Plex!Idle EXCEPT !.at = "ask", !.job = task, !.of = plexLoads]
  <2>2. plexLoads \in Plex!Loads /\ "loop" \in Plex!Askers /\ ~Plex!AsksPlex("loop")
    BY <1>3 DEF PlexIInv, PlexTypeInv, Plex!Askers, Plex!AsksPlex, Plex!LoopAsks
  <2>3. new \in PlexAskerType /\ new.of = plexLoads /\ new.at = "ask"
    BY <2>2, PlexIdleType DEF PlexAskerType
  <2>. HIDE DEF new
  <2>4. new.of <= plexLoads
    BY <2>2, <2>3 DEF Plex!Loads
  <2>5. asker' = [asker EXCEPT !["loop"] = new]
    BY <2>1 DEF new
  <2>. QED BY <1>3, <2>2, <2>3, <2>4, <2>5, PlexAskerInv DEF Plex!LoopAsks
<1>4. ASSUME NEW h \in Hooks, Plex!SendWebhook(h) PROVE PlexIInv'
  <2>. DEFINE new == [Plex!Idle EXCEPT !.at = "ask", !.job = "hook", !.of = plexLoads]
  <2>1. plexLoads \in Plex!Loads /\ h \in Plex!Askers /\ ~Plex!AsksPlex(h)
    BY <1>4 DEF PlexIInv, PlexTypeInv, Plex!Askers, Plex!AsksPlex, Plex!SendWebhook
  <2>2. new \in PlexAskerType /\ new.of = plexLoads /\ new.at = "ask"
    BY <2>1, PlexIdleType DEF PlexAskerType
  <2>3. asker' = [asker EXCEPT ![h] = new]
    BY <1>4 DEF Plex!SendWebhook
  <2>. HIDE DEF new
  <2>4. new.of <= plexLoads
    BY <2>1, <2>2 DEF Plex!Loads
  <2>. QED BY <1>4, <2>1, <2>2, <2>3, <2>4, PlexAskerInv DEF Plex!SendWebhook
<1>5. ASSUME NEW a \in Plex!Askers, Plex!GetSessions(a) PROVE PlexIInv'
  BY <1>5, PlexGetSessionsInv
<1>6. ASSUME NEW a \in Plex!Askers, Plex!PlexAnswers(a) PROVE PlexIInv'
  BY <1>6, PlexPlexAnswersInv
<1>7. ASSUME NEW a \in Plex!Askers, Plex!Track(a) PROVE PlexIInv'
  BY <1>7, PlexTrackInv
<1>8. CASE Plex!CheckForFinished
  BY <1>8, PlexCheckForFinishedInv
<1>9. ASSUME NEW a \in Plex!Askers, Plex!Report(a) PROVE PlexIInv'
  <2>. DEFINE new == IF a = "loop" THEN Plex!Idle ELSE [Plex!Idle EXCEPT !.at = "done"]
  <2>1. plexLoads \in Plex!Loads /\ ~Plex!AsksPlex(a)
    BY <1>9 DEF PlexIInv, PlexTypeInv, Plex!AsksPlex, Plex!Report
  <2>2. [Plex!Idle EXCEPT !.at = "done"] \in PlexAskerType /\ [Plex!Idle EXCEPT !.at = "done"].of = 1
        /\ [Plex!Idle EXCEPT !.at = "done"].at = "done" /\ Plex!Idle.of = 1 /\ Plex!Idle.at = "idle"
    BY PlexIdleType DEF PlexAskerType, Plex!Idle
  <2>3. new \in PlexAskerType /\ new.of = 1 /\ new.at \in {"idle", "done"}
    BY <2>2, PlexIdleType
  <2>4. asker' = [asker EXCEPT ![a] = new]
    BY <1>9 DEF Plex!Report
  <2>. HIDE DEF new
  <2>5. new.of <= plexLoads
    BY <2>1, <2>3 DEF Plex!Loads
  <2>. QED BY <1>9, <2>1, <2>3, <2>4, <2>5, PlexAskerInv DEF Plex!Report
<1>10. CASE Plex!Reload
  <2>1. plexLoads \in Nat /\ plexLoads' = plexLoads + 1 /\ plexLoads' \in Plex!Loads
    BY <1>10 DEF Plex!SessionsAssumption, Plex!Reload, PlexIInv, PlexTypeInv, Plex!Loads
  <2>2. \A a \in Plex!Askers : asker[a].of <= plexLoads'
    <3>1. \A a \in Plex!Askers : asker[a].of \in Nat /\ asker[a].of <= plexLoads
      BY DEF PlexIInv, PlexTypeInv, PlexAskerType, Plex!Loads
    <3>. QED BY <2>1, <3>1
  <2>3. \A n \in Plex!Loads : n > plexLoads' => n > plexLoads
    BY <2>1 DEF Plex!Loads
  <2>. QED
    BY <1>10, <2>1, <2>2, <2>3 DEF Plex!Reload, PlexIInv, PlexTypeInv, PlexLockInv, PlexOnceInv, PlexAloneInv,
       PlexOrderInv, PlexPlayedInv, PlexFinishedInv, Plex!AsksPlex
<1>11. CASE UNCHANGED Plex!plexVars
  BY <1>11 DEF Plex!plexVars, PlexIInv, PlexTypeInv, PlexLockInv, PlexOnceInv, PlexAloneInv, PlexOrderInv,
     PlexPlayedInv, PlexFinishedInv, Plex!AsksPlex
<1>. QED BY <1>1, <1>2, <1>3, <1>4, <1>5, <1>6, <1>7, <1>8, <1>9, <1>10, <1>11 DEF Plex!Next

LEMMA PlexOnce == ASSUME Plex!SessionsAssumption PROVE PlexIInv => Plex!TypeOK /\ Plex!ToldOnce
<1>. SUFFICES ASSUME PlexIInv PROVE Plex!TypeOK /\ Plex!ToldOnce
  OBVIOUS
<1>1. Plex!TypeOK
  <2>1. plexLoads \in Plex!Loads /\ \A a \in Plex!Askers : asker[a] \in PlexAskerType /\ asker[a].of <= plexLoads
    BY DEF PlexIInv, PlexTypeInv
  <2>2. \A a \in Plex!Askers : asker[a].at \in {"idle", "ask", "wait", "track", "have", "done"} /\ asker[a].of \in 1..plexLoads
    BY <2>1 DEF PlexAskerType, Plex!Loads
  <2>. QED BY <2>2 DEF PlexIInv, PlexTypeInv, Plex!TypeOK, PlexLists, PlexStates
<1>2. ASSUME NEW s \in Sessions PROVE finished[s] <= plexLoads
  <2>. DEFINE said == {n \in Plex!Loads : s \in sent[n]}
  <2>1. plexLoads \in Nat /\ said \in SUBSET (1..plexLoads)
    BY DEF PlexIInv, PlexTypeInv, PlexFinishedInv, Plex!Loads
  <2>2. IsFiniteSet(1..plexLoads) /\ Cardinality(1..plexLoads) = plexLoads
    BY <2>1, FS_Interval DEF PlexIInv, PlexTypeInv, Plex!Loads
  <2>3. finished[s] = Cardinality(said)
    BY DEF PlexIInv, PlexFinishedInv
  <2>. HIDE DEF said
  <2>. QED BY <2>1, <2>2, <2>3, FS_Subset
<1>3. Plex!ToldOnce
  BY <1>2 DEF PlexIInv, PlexTypeInv, PlexOnceInv, PlexPlayedInv, Plex!ToldOnce
<1>. QED BY <1>1, <1>3

LEMMA PlexInvariant == ASSUME Plex!SessionsAssumption PROVE Plex!PlexSpec => []PlexIInv
<1>1. Plex!Init => PlexIInv
  BY PlexInitInv
<1>2. PlexIInv /\ [Plex!Next]_(Plex!plexVars) => PlexIInv'
  BY PlexInductive
<1>. QED BY <1>1, <1>2, PTL DEF Plex!PlexSpec

(* The website is told once that a session plays, unless an old and a new  *)
(* configuration asked Plex at once, and once for each configuration that  *)
(* it is finished: for any sessions, webhooks and number of reloads.       *)
THEOREM SessionsAreToldOnce == ASSUME Plex!SessionsAssumption PROVE Plex!PlexSpec => []Plex!ToldOnce
<1>1. PlexIInv => Plex!ToldOnce
  BY PlexOnce
<1>. QED BY <1>1, PlexInvariant, PTL

(* A client of which this part moves is one of this part alone.            *)
LEMMA PlexOfParts == Spec => Plex!PlexSpec
<1>1. Init => Plex!Init
  BY DEF Init
<1>2. [Next]_vars => [Plex!Next]_(Plex!plexVars)
  <2>1. Next => Plex!Next \/ UNCHANGED plexVars
    BY DEF Next, Request, Store, Update, CheckBackups, TellQueues, TellSessions, CoolDown, AskMany, RunCommand
  <2>2. UNCHANGED vars => UNCHANGED plexVars
    BY DEF vars
  <2>3. UNCHANGED plexVars => UNCHANGED Plex!plexVars
    BY DEF plexVars, Plex!plexVars
  <2>. QED BY <2>1, <2>2, <2>3
<1>. QED BY <1>1, <1>2, PTL DEF Spec, Plex!PlexSpec

-----------------------------------------------------------------------------
(* Together: what the web API and the web UI answer is true of what was    *)
(* done, and whole.                                                        *)
THEOREM EveryAnswerIsTrue == Spec => []AnswersAreTrue
<1>1. Api!AnswersAreTrue /\ Fan!AnswersAreWhole => AnswersAreTrue
  BY DEF AnswersAreTrue
<1>2. Api!ApiSpec => [](Api!AnswersAreTrue /\ Api!RetriesAddOnce)
  BY AnswersAreOfWhatWasDone, PartsAssumption DEF PartsAssumption
<1>3. Fan!FanSpec => []Fan!AnswersAreWhole
  BY AnswersHaveAllParts, PartsAssumption DEF PartsAssumption
<1>. QED BY <1>1, <1>2, <1>3, ApiOfParts, FanOfParts, PTL

(* Together: an addition that is tried again, a webhook in a cooldown and  *)
(* the end of a session are done, let through and told once.               *)
THEOREM EachIsDoneOnce == Spec => []DoneOnce
<1>1. Api!RetriesAddOnce /\ Cool!OncePerCooldown /\ Plex!ToldOnce => DoneOnce
  BY DEF DoneOnce
<1>2. Api!ApiSpec => [](Api!AnswersAreTrue /\ Api!RetriesAddOnce)
  BY AnswersAreOfWhatWasDone, PartsAssumption DEF PartsAssumption
<1>3. Cool!CooldownSpec => []Cool!OncePerCooldown
  BY OneIsLetThrough, PartsAssumption DEF PartsAssumption
<1>4. Plex!PlexSpec => []Plex!ToldOnce
  BY SessionsAreToldOnce, PartsAssumption DEF PartsAssumption
<1>. QED BY <1>1, <1>2, <1>3, <1>4, ApiOfParts, CoolOfParts, PlexOfParts, PTL
=============================================================================
