------------------------- MODULE WebsiteQueueProofs -------------------------
(***************************************************************************)
(* Proofs about WebsiteQueue, for any callers and uses, any keys, any      *)
(* settings and a queue of any capacity.                                   *)
(***************************************************************************)
EXTENDS WebsiteQueue, SequenceTheorems, TLAPS

(* Where the sender is says what it holds.                                 *)
WorkInv ==
  /\ sender = "select" <=> hand = NoRequest
  /\ sender = "select" => attempt = 0
  /\ sender = "reply" <=> result # "none"

(* The sticky failure and the keys that were rejected belong together.     *)
KeyInv ==
  /\ sender \in {"host", "hostLog", "hostShare", "post"} => ~KeyIsRefused
  /\ result = "refused" => KeyIsRefused
  /\ invalid <=> rejected # {}
  /\ rejected \subseteq {config.key}

(* Whether the request in hand is a GetData of caller c.                   *)
InHand(c) == hand = [from |-> c, kind |-> "ask"]

(* The request of a GetData is in one place, for as long as it waits.      *)
AskInv ==
  \A c \in Callers :
    /\ \A i, j \in Asks(c) : i = j
    /\ InHand(c) => Asks(c) = {}
    /\ caller[c] = "await" <=> InHand(c) \/ Asks(c) # {}

IInv == TypeOK /\ WorkInv /\ KeyInv /\ AskInv

-----------------------------------------------------------------------------
(* Facts about the constants and about requests.                           *)

LEMMA RetriesType == \A n \in Settings : Retries(n) \in Nat
BY WebsiteAssumption DEF Retries

LEMMA ConfigType == \A f \in Configs : f.key \in Keys /\ f.retries \in Nat
BY RetriesType DEF Configs

LEMMA NoRequestIsNone == NoRequest \notin Requests
BY DEF NoRequest, Requests, Kinds

(* What Put does to the queue.                                             *)
LEMMA PutType ==
  ASSUME QueueType, HasRoom, NEW who \in Callers \cup {Sender}, NEW kind \in Kinds,
         Put(who, kind)
  PROVE  queue' \in Seq(Requests) /\ Len(queue') <= QueueCap
<1>1. [from |-> who, kind |-> kind] \in Requests
  BY DEF Requests
<1>. QED BY <1>1, WebsiteAssumption DEF QueueType, HasRoom, Put

-----------------------------------------------------------------------------
(* Type correctness.                                                       *)

LEMMA InitType == Init => TypeOK
<1>. SUFFICES ASSUME Init PROVE TypeOK
  OBVIOUS
<1>1. QueueType
  BY WebsiteAssumption DEF Init, QueueType
<1>2. WorkType
  <2>1. config.retries \in Nat
    BY ConfigType DEF Init
  <2>2. attempt \in 0 .. config.retries
    BY <2>1 DEF Init
  <2>3. /\ invalid \in BOOLEAN /\ rejected \in SUBSET Keys
        /\ hostKnown \in BOOLEAN /\ unread \in BOOLEAN
    BY DEF Init
  <2>. QED BY <2>2, <2>3 DEF Init, WorkType
<1>3. LockType
  BY DEF Init, LockType
<1>. QED BY <1>1, <1>2, <1>3 DEF TypeOK

LEMMA QueueTypeStep == ASSUME TypeOK, [Next]_vars PROVE QueueType'
<1>. USE DEF TypeOK
<1>1. ASSUME NEW c \in Callers, SendData(c) PROVE QueueType'
  <2>1. caller[c] \in Kinds /\ HasRoom /\ Put(c, caller[c])
    BY <1>1 DEF SendData, Kinds
  <2>2. queue' \in Seq(Requests) /\ Len(queue') <= QueueCap
    BY <2>1, PutType
  <2>. QED BY <1>1, <2>2 DEF SendData, QueueType, workVars
<1>2. ASSUME NEW c \in Callers, LogShare(c) PROVE QueueType'
  BY <1>2, PutType DEF LogShare, QueueType, workVars, Kinds
<1>3. CASE HostShare
  BY <1>3, PutType DEF HostShare, QueueType, Kinds
<1>4. CASE Take
  <2>1. queue \in Seq(Requests) /\ queue # <<>> /\ Len(queue) <= QueueCap
    BY <1>4 DEF Take, QueueType
  <2>2. Head(queue) \in Requests /\ Tail(queue) \in Seq(Requests) /\ Len(Tail(queue)) = Len(queue) - 1
    BY <2>1, HeadTailProperties
  <2>3. Len(queue) \in Nat
    BY <2>1, LenProperties
  <2>. QED BY <1>4, <2>1, <2>2, <2>3, WebsiteAssumption DEF Take, QueueType
<1>5. CASE Finish
  BY <1>5 DEF Finish, QueueType
<1>6. CASE UNCHANGED <<queue, hand>>
  BY <1>6 DEF QueueType
<1>7. CASE GetHostInfo \/ HostLock \/ PostStep
  BY <1>6, <1>7 DEF GetHostInfo, HostLock, PostStep, PostDone, PostRejected, PostAgain
<1>8. ASSUME NEW c \in Callers,
             Call(c) \/ LogLock(c) \/ ToggleAnnounce(c) \/ Toggle(c) \/ Reconfigure(c)
      PROVE  QueueType'
  BY <1>6, <1>8 DEF Call, LogLock, ToggleAnnounce, Toggle, Reconfigure, workVars
<1>9. CASE UNCHANGED vars
  BY <1>6, <1>9 DEF vars, workVars
<1>. QED BY <1>1, <1>2, <1>3, <1>4, <1>5, <1>7, <1>8, <1>9 DEF Next, SenderStep, CallerStep

LEMMA WorkTypeStep == ASSUME TypeOK, WorkInv, [Next]_vars PROVE WorkType'
<1>. USE DEF TypeOK
<1>1. CASE Take
  BY <1>1 DEF Take, WorkType, keyVars
<1>2. CASE GetHostInfo \/ HostLock \/ HostShare
  BY <1>2 DEF GetHostInfo, HostLock, HostShare, WorkType, keyVars
<1>3. CASE PostDone
  BY <1>3 DEF PostDone, WorkType, keyVars
<1>4. CASE PostRejected
  BY <1>4, ConfigType DEF PostRejected, WorkType, SetsInvalid
<1>5. CASE PostAgain
  <2>1. config.retries \in Nat
    BY ConfigType DEF WorkType
  <2>2. attempt' \in 0 .. config.retries
    BY <1>5, <2>1 DEF PostAgain, WorkType, UsedUp
  <2>3. unread' \in BOOLEAN
    BY <1>5 DEF PostAgain, WorkType
  <2>. QED BY <1>5, <2>2, <2>3 DEF PostAgain, WorkType, keyVars
<1>6. CASE Finish
  <2>1. config.retries \in Nat
    BY ConfigType DEF WorkType
  <2>. QED BY <1>6, <2>1 DEF Finish, WorkType, keyVars
<1>7. ASSUME NEW c \in Callers, Reconfigure(c) PROVE WorkType'
  <2>1. attempt' = 0 /\ config'.retries \in Nat
    BY <1>7, ConfigType DEF Reconfigure, WorkInv, workVars
  <2>2. attempt' \in 0 .. config'.retries
    BY <2>1
  <2>3. rejected' \in SUBSET Keys /\ invalid' \in BOOLEAN /\ config' \in Configs
    BY <1>7 DEF Reconfigure, AfterReconfig
  <2>. QED BY <1>7, <2>2, <2>3 DEF Reconfigure, WorkType, workVars
<1>8. CASE UNCHANGED <<workVars, keyVars>>
  BY <1>8 DEF workVars, keyVars, WorkType
<1>9. ASSUME NEW c \in Callers,
             Call(c) \/ SendData(c) \/ LogLock(c) \/ LogShare(c) \/ ToggleAnnounce(c) \/ Toggle(c)
      PROVE  WorkType'
  BY <1>8, <1>9 DEF Call, SendData, LogLock, LogShare, ToggleAnnounce, Toggle
<1>. QED BY <1>1, <1>2, <1>3, <1>4, <1>5, <1>6, <1>7, <1>8, <1>9
  DEF Next, SenderStep, PostStep, CallerStep, vars

LEMMA LockTypeStep == ASSUME TypeOK, [Next]_vars PROVE LockType'
<1>. USE DEF TypeOK
<1>1. ASSUME NEW c \in Callers, Call(c) PROVE LockType'
  <2>1. Ops[c] \subseteq OpNames
    BY WebsiteAssumption
  <2>. QED BY <1>1, <2>1 DEF Call, LockType, lockVars
<1>2. ASSUME NEW c \in Callers, CallerStep(c) PROVE LockType'
  BY <1>2 DEF CallerStep, SendData, LogLock, LogShare, ToggleAnnounce, Toggle, Reconfigure,
    LockType, lockVars, Unlocked
<1>3. CASE SenderStep
  BY <1>3 DEF SenderStep, Take, GetHostInfo, HostLock, HostShare, PostStep, PostDone,
    PostRejected, PostAgain, Finish, LockType, lockVars, Unlocked
<1>4. CASE UNCHANGED vars
  BY <1>4 DEF vars, lockVars, LockType
<1>. QED BY <1>1, <1>2, <1>3, <1>4 DEF Next

LEMMA TypeStep == ASSUME TypeOK, WorkInv, [Next]_vars PROVE TypeOK'
BY QueueTypeStep, WorkTypeStep, LockTypeStep DEF TypeOK

-----------------------------------------------------------------------------
(* The sender and what it holds; the key and what was rejected.            *)

LEMMA WorkInvStep == ASSUME TypeOK, WorkInv, [Next]_vars PROVE WorkInv'
<1>1. CASE Take
  <2>1. Head(queue) # NoRequest
    BY <1>1, HeadTailProperties, NoRequestIsNone DEF Take, TypeOK, QueueType
  <2>. QED BY <1>1, <2>1 DEF Take, WorkInv
<1>2. CASE GetHostInfo \/ HostLock \/ HostShare \/ PostStep
  BY <1>2 DEF GetHostInfo, HostLock, HostShare, PostStep, PostDone, PostRejected, PostAgain, WorkInv
<1>3. CASE Finish
  BY <1>3 DEF Finish, WorkInv
<1>4. CASE UNCHANGED workVars
  BY <1>4 DEF workVars, WorkInv
<1>5. ASSUME NEW c \in Callers, Call(c) \/ CallerStep(c) PROVE WorkInv'
  BY <1>4, <1>5 DEF Call, CallerStep, SendData, LogLock, LogShare, ToggleAnnounce, Toggle, Reconfigure
<1>. QED BY <1>1, <1>2, <1>3, <1>4, <1>5 DEF Next, SenderStep, vars

LEMMA KeyInvStep == ASSUME TypeOK, WorkInv, KeyInv, [Next]_vars PROVE KeyInv'
<1>1. CASE Take
  BY <1>1 DEF Take, keyVars, KeyInv, KeyIsRefused, WorkInv
<1>2. CASE GetHostInfo \/ HostLock \/ HostShare \/ PostDone \/ PostAgain
  BY <1>2 DEF GetHostInfo, HostLock, HostShare, PostDone, PostAgain, keyVars, KeyInv, KeyIsRefused, WorkInv
<1>3. CASE PostRejected
  BY <1>3 DEF PostRejected, SetsInvalid, KeyInv, KeyIsRefused, TypeOK, WorkType
<1>4. CASE Finish
  BY <1>4 DEF Finish, keyVars, KeyInv, KeyIsRefused
<1>5. ASSUME NEW c \in Callers, Reconfigure(c) PROVE KeyInv'
  BY <1>5 DEF Reconfigure, AfterReconfig, workVars, KeyInv, WorkInv
<1>6. CASE UNCHANGED <<workVars, keyVars>>
  BY <1>6 DEF workVars, keyVars, KeyInv, KeyIsRefused
<1>7. ASSUME NEW c \in Callers,
             Call(c) \/ SendData(c) \/ LogLock(c) \/ LogShare(c) \/ ToggleAnnounce(c) \/ Toggle(c)
      PROVE  KeyInv'
  BY <1>6, <1>7 DEF Call, SendData, LogLock, LogShare, ToggleAnnounce, Toggle
<1>. QED BY <1>1, <1>2, <1>3, <1>4, <1>5, <1>6, <1>7 DEF Next, SenderStep, PostStep, CallerStep, vars

-----------------------------------------------------------------------------
(* The requests of GetData.                                                *)

(* Putting a request at the end adds its own position and no other.        *)
LEMMA AsksPut ==
  ASSUME QueueType, NEW who \in Callers \cup {Sender}, NEW kind \in Kinds, Put(who, kind),
         NEW c \in Callers, NEW i
  PROVE  i \in Asks(c)' <=> i \in Asks(c) \/ (i = Len(queue) + 1 /\ who = c /\ kind = "ask")
<1>. DEFINE r == [from |-> who, kind |-> kind]
<1>1. r \in Requests
  BY DEF Requests
<1>2. Len(queue) \in Nat /\ queue \in Seq(Requests)
  BY DEF QueueType
<1>3. /\ Len(queue') = Len(queue) + 1
      /\ \A j \in 1 .. Len(queue) : queue'[j] = queue[j]
      /\ queue'[Len(queue) + 1] = r
  BY <1>1, <1>2 DEF Put
<1>4. r = [from |-> c, kind |-> "ask"] <=> who = c /\ kind = "ask"
  OBVIOUS
<1>. HIDE DEF r
<1>. QED BY <1>2, <1>3, <1>4 DEF Asks

(* Taking the first request moves the positions of the others by one.      *)
LEMMA AsksTail ==
  ASSUME queue \in Seq(Requests), queue # <<>>, queue' = Tail(queue), NEW c \in Callers, NEW i
  PROVE  i \in Asks(c)' <=> i \in Nat \ {0} /\ i + 1 \in Asks(c)
<1>1. Len(queue) \in Nat /\ Len(queue) # 0 /\ Len(queue') = Len(queue) - 1
  BY HeadTailProperties, LenProperties, EmptySeq
<1>2. \A j \in 1 .. Len(queue) - 1 : queue'[j] = queue[j + 1]
  BY HeadTailProperties
<1>. QED BY <1>1, <1>2 DEF Asks

LEMMA AskInvPut ==
  ASSUME QueueType, AskInv, NEW who \in Callers \cup {Sender}, NEW kind \in Kinds \ {"ask"},
         Put(who, kind), hand' = hand,
         \A c \in Callers : caller'[c] = "await" <=> caller[c] = "await"
  PROVE  AskInv'
<1>1. \A c \in Callers : \A i : i \in Asks(c)' <=> i \in Asks(c)
  BY AsksPut
<1>. QED BY <1>1 DEF AskInv, InHand

LEMMA AskInvStep == ASSUME TypeOK, WorkInv, AskInv, [Next]_vars PROVE AskInv'
<1>. USE DEF TypeOK
<1>1. ASSUME NEW c \in Callers, SendData(c) PROVE AskInv'
  <2>1. /\ caller[c] \in {"send", "ask", "file"} /\ Put(c, caller[c]) /\ hand' = hand
        /\ caller \in [Callers -> {"idle", "await", "share", "lock"} \cup OpNames]
        /\ caller' = [caller EXCEPT ![c] = IF caller[c] = "ask" THEN "await" ELSE "idle"]
    BY <1>1 DEF SendData, workVars, LockType
  <2>2. CASE caller[c] = "ask"
    <3>1. \A d \in Callers : \A i :
            i \in Asks(d)' <=> i \in Asks(d) \/ (i = Len(queue) + 1 /\ c = d)
      BY <2>1, <2>2, AsksPut DEF Kinds
    <3>2. ~InHand(c) /\ Asks(c) = {}
      BY <2>2 DEF AskInv
    <3>3. \A d \in Callers : caller'[d] = "await" <=> caller[d] = "await" \/ d = c
      BY <2>1, <2>2
    <3>. QED BY <2>1, <3>1, <3>2, <3>3 DEF AskInv, InHand
  <2>3. CASE caller[c] \in {"send", "file"}
    <3>1. \A d \in Callers : caller'[d] = "await" <=> caller[d] = "await"
      BY <2>1, <2>3
    <3>. QED BY <2>1, <2>3, <3>1, AskInvPut DEF Kinds
  <2>. QED BY <2>1, <2>2, <2>3
<1>2. ASSUME NEW c \in Callers, LogShare(c) PROVE AskInv'
  <2>1. \A d \in Callers : caller'[d] = "await" <=> caller[d] = "await"
    BY <1>2 DEF LogShare, LockType
  <2>2. Put(c, "share") /\ hand' = hand
    BY <1>2 DEF LogShare, workVars
  <2>. QED BY <2>1, <2>2, AskInvPut DEF Kinds
<1>3. CASE HostShare
  BY <1>3, AskInvPut DEF HostShare, Kinds
<1>4. CASE Take
  <2>1. queue \in Seq(Requests) /\ queue # <<>> /\ queue' = Tail(queue) /\ hand = NoRequest
    BY <1>4 DEF Take, QueueType, WorkInv
  <2>2. Len(queue) \in Nat /\ Len(queue) # 0 /\ Head(queue) = queue[1]
    BY <2>1, LenProperties, EmptySeq
  <2>3. \A c \in Callers : \A i : i \in Asks(c)' <=> i \in Nat \ {0} /\ i + 1 \in Asks(c)
    BY <2>1, AsksTail
  <2>4. \A c \in Callers : InHand(c)' <=> 1 \in Asks(c)
    BY <1>4, <2>2 DEF Take, InHand, Asks
  <2>5. \A c \in Callers : ~InHand(c)
    BY <2>1 DEF NoRequest, InHand
  <2>6. \A c \in Callers : Asks(c) \subseteq Nat \ {0}
    BY <2>2 DEF Asks
  <2>7. caller' = caller
    BY <1>4 DEF Take
  <2>8. ASSUME NEW c \in Callers
        PROVE  /\ \A i, j \in Asks(c)' : i = j
               /\ InHand(c)' => Asks(c)' = {}
               /\ InHand(c) \/ Asks(c) # {} <=> InHand(c)' \/ Asks(c)' # {}
    <3>1. \A i, j \in Asks(c) : i = j
      BY DEF AskInv
    <3>2. \A i, j \in Asks(c)' : i = j
      BY <2>3, <3>1
    <3>3. InHand(c)' => Asks(c)' = {}
      BY <2>3, <2>4, <3>1
    <3>4. ASSUME NEW i \in Asks(c), i # 1 PROVE i - 1 \in Asks(c)'
      BY <2>3, <2>6, <3>4
    <3>. QED BY <2>3, <2>4, <2>5, <3>2, <3>3, <3>4
  <2>. QED BY <2>7, <2>8 DEF AskInv
<1>5. CASE Finish
  <2>1. hand \in Requests /\ hand' = NoRequest
    BY <1>5 DEF Finish, QueueType, WorkInv
  <2>2. \A c \in Callers : InHand(c) <=> hand.kind = "ask" /\ hand.from = c
    BY <2>1 DEF InHand, Requests
  <2>3. \A c \in Callers : ~InHand(c)' /\ Asks(c)' = Asks(c)
    BY <1>5, <2>1 DEF Finish, NoRequest, InHand, Asks
  <2>4. \A c \in Callers : caller'[c] = "await" <=> caller[c] = "await" /\ ~InHand(c)
    BY <1>5, <2>2 DEF Finish, WantsAnswer, LockType
  <2>. QED BY <2>3, <2>4 DEF AskInv
<1>6. ASSUME UNCHANGED <<queue, hand>>,
             \A c \in Callers : caller'[c] = "await" <=> caller[c] = "await"
      PROVE  AskInv'
  BY <1>6 DEF AskInv, InHand, Asks
<1>7. CASE GetHostInfo \/ HostLock \/ PostStep \/ UNCHANGED vars
  BY <1>6, <1>7 DEF GetHostInfo, HostLock, PostStep, PostDone, PostRejected, PostAgain, vars, workVars
<1>8. ASSUME NEW c \in Callers,
             Call(c) \/ LogLock(c) \/ ToggleAnnounce(c) \/ Toggle(c) \/ Reconfigure(c)
      PROVE  AskInv'
  <2>1. Ops[c] \subseteq OpNames
    BY WebsiteAssumption
  <2>2. \A d \in Callers : caller'[d] = "await" <=> caller[d] = "await"
    BY <1>8, <2>1 DEF Call, LogLock, ToggleAnnounce, Toggle, Reconfigure, LockType, OpNames
  <2>3. UNCHANGED <<queue, hand>>
    BY <1>8 DEF Call, LogLock, ToggleAnnounce, Toggle, Reconfigure, workVars
  <2>. QED BY <1>6, <2>2, <2>3
<1>. QED BY <1>1, <1>2, <1>3, <1>4, <1>5, <1>7, <1>8 DEF Next, SenderStep, CallerStep

-----------------------------------------------------------------------------
(* The invariant.                                                          *)

LEMMA InitIInv == Init => IInv
<1>. SUFFICES ASSUME Init PROVE IInv
  OBVIOUS
<1>1. WorkInv
  BY DEF Init, WorkInv
<1>2. KeyInv
  <2>1. invalid = FALSE /\ rejected = {} /\ sender = "select" /\ result = "none"
    BY DEF Init
  <2>. QED BY <2>1 DEF KeyInv
<1>3. \A c \in Callers : ~InHand(c) /\ Asks(c) = {} /\ caller[c] # "await"
  <2>1. queue = <<>> /\ hand = NoRequest /\ caller = [c \in Callers |-> "idle"]
    BY DEF Init
  <2>2. ASSUME NEW c \in Callers PROVE ~InHand(c) /\ caller[c] # "await"
    BY <2>1 DEF NoRequest, InHand
  <2>3. ASSUME NEW c \in Callers PROVE Asks(c) = {}
    <3>1. Len(queue) = 0
      BY <2>1
    <3>. QED BY <3>1 DEF Asks
  <2>. QED BY <2>2, <2>3
<1>. QED BY <1>1, <1>2, <1>3, InitType DEF IInv, AskInv

LEMMA StepIInv == ASSUME IInv, [Next]_vars PROVE IInv'
BY TypeStep, WorkInvStep, KeyInvStep, AskInvStep DEF IInv

(* The inductive invariant holds in every state: types, what the sender    *)
(* holds, what is known of the key, where the request of a GetData is.     *)
THEOREM Invariance == Spec => []IInv
BY InitIInv, StepIInv, PTL DEF Spec

(* Every variable keeps its type: the queue its capacity, the retries the  *)
(* limit of the configuration in force, even when it changes.              *)
THEOREM TypeCorrect == Spec => []TypeOK
<1>1. IInv => TypeOK
  BY DEF IInv
<1>. QED BY <1>1, Invariance, PTL

(* A key that was rejected is not used again, and no request is refused    *)
(* for a key other than one that is short or was rejected since it came.   *)
THEOREM KeysJudgedRight == Spec => []KeyVerdict
<1>1. IInv => KeyVerdict
  BY DEF IInv, TypeOK, WorkType, KeyInv, KeyIsRefused, KeyVerdict
<1>. QED BY <1>1, Invariance, PTL

(* A GetData that waits has one request on its way, and a caller that does *)
(* not wait has none: the sender never answers on a channel that is closed.*)
THEOREM OneRequestEach == Spec => []OneRequestPerAsk
<1>1. ASSUME IInv PROVE OneRequestPerAsk
  <2>1. \A c \in Callers : Asks(c) \subseteq 1 .. Len(queue)
    BY DEF Asks
  <2>2. \A c \in Callers : Asks(c) # {} => \E i \in 1 .. Len(queue) : Asks(c) = {i}
    BY <1>1, <2>1 DEF IInv, AskInv
  <2>. QED BY <1>1, <2>2 DEF IInv, AskInv, InHand, OneRequestPerAsk
<1>. QED BY <1>1, Invariance, PTL

-----------------------------------------------------------------------------
(* The refinement: requests that are queued appear at the end of the ones  *)
(* the Outbox holds, and taking one changes nothing but what is said of it.*)

(* Putting a request adds it at the end, whatever the sender holds.        *)
LEMMA PendingPut ==
  ASSUME QueueType, HasRoom, NEW who \in Callers \cup {Sender}, NEW kind \in Kinds,
         Put(who, kind), hand' = hand, result' = result, UNCHANGED keyVars
  PROVE  \E r \in Requests : Promise!Submit(r)
<1>. DEFINE r == [from |-> who, kind |-> kind]
<1>1. r \in Requests
  BY DEF Requests
<1>2. queue \in Seq(Requests) /\ hand \in Requests \cup {NoRequest} /\ queue' = Append(queue, r)
  BY DEF QueueType, Put
<1>3. Len(queue) \in Nat /\ Len(queue) < QueueCap /\ QueueCap \in Nat
  BY <1>2, LenProperties, WebsiteAssumption DEF HasRoom
<1>. HIDE DEF r
<1>4. Len(Pending) < QueueCap + 1 /\ Pending' = Append(Pending, r)
  <2>1. CASE hand = NoRequest
    BY <1>2, <1>3, <2>1 DEF Pending
  <2>2. CASE hand # NoRequest
    <3>1. <<hand>> \in Seq(Requests)
      BY <1>2, <2>2
    <3>2. Append(<<hand>> \o queue, r) = <<hand>> \o Append(queue, r)
      BY <1>1, <1>2, <3>1
    <3>3. Len(<<hand>> \o queue) = Len(queue) + 1
      BY <1>2, <3>1
    <3>. QED BY <1>2, <1>3, <2>2, <3>2, <3>3 DEF Pending
  <2>. QED BY <2>1, <2>2
<1>5. UNCHANGED <<Mode, KeyIsRefused>>
  BY DEF Mode, KeyIsRefused, keyVars
<1>. QED BY <1>1, <1>4, <1>5 DEF Promise!Submit

LEMMA PromiseInit == Init => Promise!Init
<1>. SUFFICES ASSUME Init PROVE Promise!Init
  OBVIOUS
<1>1. queue = <<>> /\ hand = NoRequest
  BY DEF Init
<1>2. KeyIsRefused \in BOOLEAN
  BY DEF KeyIsRefused
<1>. QED BY <1>1, <1>2 DEF Promise!Init, Pending, Mode

LEMMA PromiseStep == ASSUME IInv, [Next]_vars PROVE [Promise!Next]_(Promise!vars)
<1>. USE DEF IInv, TypeOK
<1>1. ASSUME UNCHANGED <<queue, hand, result, keyVars>> PROVE UNCHANGED Promise!vars
  BY <1>1 DEF Promise!vars, Pending, Mode, KeyIsRefused, keyVars
<1>2. ASSUME NEW c \in Callers, SendData(c) PROVE Promise!Next
  <2>1. caller[c] \in Kinds /\ HasRoom /\ Put(c, caller[c])
    BY <1>2 DEF SendData, Kinds
  <2>2. hand' = hand /\ result' = result /\ UNCHANGED keyVars
    BY <1>2 DEF SendData, workVars
  <2>. QED BY <2>1, <2>2, PendingPut DEF Promise!Next
<1>3. ASSUME NEW c \in Callers, LogShare(c) PROVE Promise!Next
  <2>1. HasRoom /\ Put(c, "share") /\ hand' = hand /\ result' = result /\ UNCHANGED keyVars
    BY <1>3 DEF LogShare, workVars
  <2>. QED BY <2>1, PendingPut DEF Promise!Next, Kinds
<1>4. CASE HostShare
  BY <1>4, PendingPut DEF HostShare, Promise!Next, Kinds
<1>5. CASE Take
  <2>1. queue \in Seq(Requests) /\ queue # <<>> /\ hand = NoRequest /\ result = "none"
    BY <1>5 DEF Take, QueueType, WorkInv
  <2>2. hand' = Head(queue) /\ hand' \in Requests /\ hand' # NoRequest
    BY <1>5, <2>1, HeadTailProperties, NoRequestIsNone DEF Take
  <2>3. <<Head(queue)>> \o Tail(queue) = queue
    BY <2>1
  <2>4. Pending = queue /\ Pending' = queue
    BY <1>5, <2>1, <2>2, <2>3 DEF Take, Pending
  <2>5. Mode = "idle" /\ Mode' = IF KeyIsRefused THEN "refused" ELSE "sending"
    BY <1>5, <2>1, <2>2 DEF Take, Mode
  <2>6. KeyIsRefused' = KeyIsRefused
    BY <1>5 DEF Take, KeyIsRefused, keyVars
  <2>. QED BY <2>1, <2>4, <2>5, <2>6 DEF Promise!Next, Promise!Begin
<1>6. CASE PostDone \/ PostAgain
  <2>1. hand # NoRequest /\ result = "none"
    BY <1>6 DEF PostDone, PostAgain, WorkInv
  <2>2. Mode' = Mode
    BY <1>6, <2>1 DEF PostDone, PostAgain, Mode
  <2>3. Pending' = Pending /\ KeyIsRefused' = KeyIsRefused
    BY <1>6 DEF PostDone, PostAgain, Pending, KeyIsRefused, keyVars
  <2>. QED BY <2>2, <2>3 DEF Promise!vars
<1>7. CASE PostRejected
  <2>1. hand # NoRequest /\ result = "none"
    BY <1>7 DEF PostRejected, WorkInv
  <2>2. Mode = "sending" /\ Mode' = "rejected"
    BY <1>7, <2>1 DEF PostRejected, Mode
  <2>3. Pending' = Pending /\ KeyIsRefused' = TRUE
    BY <1>7 DEF PostRejected, SetsInvalid, Pending, KeyIsRefused
  <2>. QED BY <2>2, <2>3 DEF Promise!Next, Promise!Reject
<1>8. CASE Finish
  <2>1. hand \in Requests /\ hand # NoRequest /\ queue \in Seq(Requests)
    BY <1>8, NoRequestIsNone DEF Finish, WorkInv, QueueType
  <2>2. Tail(<<hand>> \o queue) = queue
    BY <2>1
  <2>3. Pending' = Tail(Pending)
    BY <1>8, <2>1, <2>2 DEF Finish, Pending
  <2>4. Mode # "idle" /\ Mode' = "idle"
    BY <1>8, <2>1 DEF Finish, Mode
  <2>5. KeyIsRefused' = KeyIsRefused
    BY <1>8 DEF Finish, KeyIsRefused, keyVars
  <2>. QED BY <2>3, <2>4, <2>5 DEF Promise!Next, Promise!Finish
<1>9. ASSUME NEW c \in Callers, Reconfigure(c) PROVE Promise!Next
  <2>1. hand = NoRequest /\ UNCHANGED <<queue, hand, result>>
    BY <1>9 DEF Reconfigure, workVars, WorkInv
  <2>2. Mode = "idle" /\ UNCHANGED <<Pending, Mode>>
    BY <2>1 DEF Mode, Pending
  <2>3. KeyIsRefused' \in BOOLEAN
    BY DEF KeyIsRefused
  <2>. QED BY <2>2, <2>3 DEF Promise!Next, Promise!Configure
<1>10. CASE GetHostInfo \/ HostLock \/ UNCHANGED vars
  BY <1>1, <1>10 DEF GetHostInfo, HostLock, vars, workVars
<1>11. ASSUME NEW c \in Callers, Call(c) \/ LogLock(c) \/ ToggleAnnounce(c) \/ Toggle(c)
       PROVE  UNCHANGED Promise!vars
  BY <1>1, <1>11 DEF Call, LogLock, ToggleAnnounce, Toggle, workVars
<1>. QED BY <1>2, <1>3, <1>4, <1>5, <1>6, <1>7, <1>8, <1>9, <1>10, <1>11
  DEF Next, SenderStep, PostStep, CallerStep

(* The queue, the goroutine behind it and the sticky failure implement the *)
(* Outbox: every request is handled once, in order, one at a time, and     *)
(* none is sent with a key that is known to be bad.                        *)
THEOREM PromiseKept == Spec => KeepsPromise
BY Invariance, PromiseInit, PromiseStep, PTL DEF Spec, KeepsPromise, Promise!Spec
=============================================================================
