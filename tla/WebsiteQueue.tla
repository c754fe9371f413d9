---------------------------- MODULE WebsiteQueue ----------------------------
(***************************************************************************)
(* The client of the website (pkg/website): one goroutine,                 *)
(* watchSendDataChan, takes requests from a bounded queue and posts them   *)
(* one at a time; it also takes the configurations that New hands over. In *)
(* front of the queue are the goroutines that call SendData, GetData and   *)
(* New, and the ones that log an error, which pkg/logs/share turns into a  *)
(* request of its own while it holds a read lock. Enable and Disable take  *)
(* that lock for writing. The sender itself may log such an error.         *)
(*                                                                         *)
(* The website is outside: it answers a post in any way at any time.       *)
(***************************************************************************)
EXTENDS Integers, Sequences

CONSTANTS
  Callers,      (* goroutines that use the package                         *)
  Ops,          (* Ops[c]: what caller c does, a subset of OpNames         *)
  Sender,       (* the goroutine that runs watchSendDataChan               *)
  Nobody,
  Keys,         (* API keys                                                *)
  ShortKeys,    (* those that have not the length of a key                 *)
  Settings,     (* the values of the retries setting in configurations     *)
  DefaultRetries,
  QueueCap,     (* mnd.Base8                                               *)
  HostMayFail   (* the operating system may refuse to tell the host info   *)

OpNames == {"send", "ask", "file", "log", "toggle", "new"}

ASSUME WebsiteAssumption ==
  /\ Ops \in [Callers -> SUBSET OpNames]
  /\ Sender \notin Callers /\ Nobody \notin Callers \cup {Sender}
  /\ ShortKeys \subseteq Keys
  /\ Settings \subseteq Int
  /\ DefaultRetries \in Nat \ {0}
  /\ QueueCap \in Nat \ {0}
  /\ HostMayFail \in BOOLEAN

VARIABLES
  queue,        (* sendData: requests, each with its kind and its caller   *)
  hand,         (* the request the sender works on                         *)
  sender,       (* where the sender is                                     *)
  attempt,      (* the retry it is at                                      *)
  unread,       (* the buffer that holds its payload has not been read     *)
  result,       (* what became of the request in hand                      *)
  config,       (* the key and the number of retries in force              *)
  invalid,      (* the sticky invalidKey is set                            *)
  rejected,     (* history: keys the website answered with 401 or 403      *)
                (* since the configuration in force arrived                *)
  hostKnown,    (* the host info is cached                                 *)
  enabled,      (* errors are shared                                       *)
  readers,      (* who holds the lock of share.Log for reading             *)
  writer,       (* who holds it for writing, or waits for the readers      *)
  caller        (* where each caller is                                    *)

keyVars   == <<config, invalid, rejected>>
lockVars  == <<enabled, readers, writer>>
workVars  == <<hand, sender, attempt, unread, result, hostKnown>>
vars == <<queue, workVars, keyVars, lockVars, caller>>

NoRequest == [from |-> Nobody, kind |-> "none"]

(* What New makes of the retries setting.                                  *)
Retries(setting) ==
  IF setting < 0 THEN 0 ELSE IF setting = 0 THEN DefaultRetries ELSE setting

Configs == [key : Keys, retries : {Retries(n) : n \in Settings}]

Init ==
  /\ queue = <<>> /\ hand = NoRequest /\ sender = "select"
  /\ attempt = 0 /\ unread = TRUE /\ result = "none"
  /\ config \in Configs
  /\ invalid = FALSE /\ rejected = {} /\ hostKnown = FALSE
  /\ enabled \in BOOLEAN /\ readers = {} /\ writer = Nobody
  /\ caller = [c \in Callers |-> "idle"]

HasRoom == Len(queue) < QueueCap

Put(who, kind) == queue' = Append(queue, [from |-> who, kind |-> kind])

-----------------------------------------------------------------------------
(* The callers.                                                            *)

Call(c) ==
  /\ caller[c] = "idle"
  /\ \E o \in Ops[c] : caller' = [caller EXCEPT ![c] = o]
  /\ UNCHANGED <<queue, workVars, keyVars, lockVars>>

(* SendData, of a payload or of a file, returns when the queue had room;   *)
(* GetData then waits for the answer.                                      *)
SendData(c) ==
  /\ caller[c] \in {"send", "ask", "file"} /\ HasRoom
  /\ Put(c, caller[c])
  /\ caller' = [caller EXCEPT ![c] = IF @ = "ask" THEN "await" ELSE "idle"]
  /\ UNCHANGED <<workVars, keyVars, lockVars>>

(* The lock after an early return. Mutant: without the deferred unlock.    *)
Leaked(who) == readers \cup {who}
Unlocked(who) == readers \ {who}

(* share.Log: the read lock, then the question whether to share at all. An *)
(* enabled sharing may still find no client info, or the message on        *)
(* cooldown.                                                               *)
LogLock(c) ==
  /\ caller[c] = "log" /\ writer = Nobody
  /\ \/ caller' = [caller EXCEPT ![c] = "idle"] /\ readers' = Unlocked(c)
     \/ /\ enabled
        /\ readers' = readers \cup {c}
        /\ caller' = [caller EXCEPT ![c] = "share"]
  /\ UNCHANGED <<queue, workVars, keyVars, enabled, writer>>

(* The request is queued with the lock held.                               *)
LogShare(c) ==
  /\ caller[c] = "share" /\ HasRoom
  /\ Put(c, "share")
  /\ readers' = Unlocked(c)
  /\ caller' = [caller EXCEPT ![c] = "idle"]
  /\ UNCHANGED <<workVars, keyVars, enabled, writer>>

(* Enable and Disable. A writer that waits keeps new readers out.          *)
ToggleAnnounce(c) ==
  /\ caller[c] = "toggle" /\ writer = Nobody
  /\ writer' = c
  /\ caller' = [caller EXCEPT ![c] = "lock"]
  /\ UNCHANGED <<queue, workVars, keyVars, enabled, readers>>

Toggle(c) ==
  /\ caller[c] = "lock" /\ readers = {}
  /\ enabled' \in BOOLEAN
  /\ writer' = Nobody
  /\ caller' = [caller EXCEPT ![c] = "idle"]
  /\ UNCHANGED <<queue, workVars, keyVars, readers>>

(* The reconfig arm clears the sticky failure. Mutant: it does not.        *)
StaysInvalid == invalid
AfterReconfig == FALSE

(* New gives a configuration to the sender's select, over a channel that   *)
(* has no buffer.                                                          *)
Reconfigure(c) ==
  /\ caller[c] = "new" /\ sender = "select"
  /\ config' \in Configs
  /\ invalid' = AfterReconfig
  /\ rejected' = {}
  /\ caller' = [caller EXCEPT ![c] = "idle"]
  /\ UNCHANGED <<queue, workVars, lockVars>>

-----------------------------------------------------------------------------
(* The sender: watchSendDataChan, sendRequest, sendPayload, sendFile, Do.  *)

(* checkAPIKey. Mutant: it looks at the length only.                       *)
LengthOnly == config.key \in ShortKeys
KeyIsRefused == invalid \/ config.key \in ShortKeys

(* A request is taken; without a good key it is not posted.                *)
Take ==
  /\ sender = "select" /\ queue # <<>>
  /\ hand' = Head(queue) /\ queue' = Tail(queue)
  /\ IF KeyIsRefused
     THEN sender' = "reply" /\ result' = "refused"
     ELSE /\ sender' = IF Head(queue).kind = "file" THEN "post" ELSE "host"
          /\ UNCHANGED result
  /\ UNCHANGED <<attempt, unread, hostKnown, keyVars, lockVars, caller>>

(* GetHostInfo, for the payload: cached once known, logged when unknown.   *)
GetHostInfo ==
  /\ sender = "host"
  /\ \/ sender' = "post" /\ hostKnown' = TRUE
     \/ ~hostKnown /\ HostMayFail /\ sender' = "hostLog" /\ UNCHANGED hostKnown
  /\ UNCHANGED <<queue, hand, attempt, unread, result, keyVars, lockVars, caller>>

HostLock ==
  /\ sender = "hostLog" /\ writer = Nobody
  /\ \/ sender' = "post" /\ readers' = Unlocked(Sender)
     \/ enabled /\ readers' = readers \cup {Sender} /\ sender' = "hostShare"
  /\ UNCHANGED <<queue, hand, attempt, unread, result, hostKnown, keyVars, enabled, writer,
                 caller>>

HostShare ==
  /\ sender = "hostShare" /\ HasRoom
  /\ Put(Sender, "share")
  /\ readers' = Unlocked(Sender)
  /\ sender' = "post"
  /\ UNCHANGED <<hand, attempt, unread, result, hostKnown, keyVars, enabled, writer, caller>>

(* The website has an answer that ends the request: it is accepted, or it  *)
(* fails (an error status, a body that is no JSON, the end of its timeout, *)
(* a payload that cannot be encoded).                                      *)
PostDone ==
  /\ sender = "post"
  /\ result' \in {"accepted", "failed"}
  /\ sender' = "reply"
  /\ UNCHANGED <<queue, hand, attempt, unread, hostKnown, keyVars, lockVars, caller>>

(* 401 and 403 make the key invalid. Mutant: not for a file.               *)
NotForFiles == hand.kind # "file"
SetsInvalid == TRUE

PostRejected ==
  /\ sender = "post"
  /\ result' = "rejected"
  /\ invalid' = (invalid \/ SetsInvalid)
  /\ rejected' = rejected \cup {config.key}
  /\ sender' = "reply"
  /\ UNCHANGED <<queue, hand, attempt, unread, hostKnown, config, lockVars, caller>>

(* Mutant: one retry too many.                                             *)
OneTooMany == attempt = config.retries + 1
UsedUp == attempt = config.retries

(* 500 and above, cloudflare's own 400, or no connection: again, unless    *)
(* the retries are used up. It is the same request, and its body the same  *)
(* buffer: net/http has read it, unless there was no connection.           *)
PostAgain ==
  /\ sender = "post"
  /\ IF UsedUp
     THEN result' = "failed" /\ sender' = "reply" /\ UNCHANGED <<attempt, unread>>
     ELSE /\ attempt' = attempt + 1
          /\ unread' = FALSE \/ UNCHANGED unread
          /\ UNCHANGED <<sender, result>>
  /\ UNCHANGED <<queue, hand, hostKnown, keyVars, lockVars, caller>>

(* Who gets an answer. Mutant: a request that was refused gets none.       *)
PostedOnly == hand.kind = "ask" /\ result # "refused"
WantsAnswer == hand.kind = "ask"

(* The answer to GetData, over a channel of the request's own.             *)
Finish ==
  /\ sender = "reply"
  /\ caller' = IF WantsAnswer THEN [caller EXCEPT ![hand.from] = "idle"] ELSE caller
  /\ sender' = "select" /\ hand' = NoRequest
  /\ attempt' = 0 /\ unread' = TRUE /\ result' = "none"
  /\ UNCHANGED <<queue, hostKnown, keyVars, lockVars>>

-----------------------------------------------------------------------------
PostStep == PostDone \/ PostRejected \/ PostAgain

SenderStep ==
  Take \/ GetHostInfo \/ HostLock \/ HostShare \/ PostStep \/ Finish

CallerStep(c) ==
  \/ SendData(c) \/ LogLock(c) \/ LogShare(c)
  \/ ToggleAnnounce(c) \/ Toggle(c) \/ Reconfigure(c)

Next ==
  \/ SenderStep
  \/ \E c \in Callers : Call(c) \/ CallerStep(c)

Spec == Init /\ [][Next]_vars

(* The sender's select takes each arm that is ready time and again, a      *)
(* channel serves blocked senders in turn, and a lock its waiters. A post  *)
(* of a payload ends at its deadline; one of a file has none.              *)
Fairness ==
  /\ SF_vars(Take)
  /\ WF_vars(GetHostInfo) /\ SF_vars(HostLock) /\ SF_vars(HostShare)
  /\ WF_vars(PostStep /\ hand.kind # "file") /\ WF_vars(Finish)
  /\ \A c \in Callers : SF_vars(CallerStep(c))

FairSpec == Spec /\ Fairness

-----------------------------------------------------------------------------
(* Properties.                                                             *)

Kinds == {"send", "ask", "file", "share"}

Requests == [from : Callers \cup {Sender}, kind : Kinds]

QueueType ==
  /\ queue \in Seq(Requests) /\ Len(queue) <= QueueCap
  /\ hand \in Requests \cup {NoRequest}

WorkType ==
  /\ sender \in {"select", "host", "hostLog", "hostShare", "post", "reply"}
  /\ result \in {"none", "refused", "accepted", "rejected", "failed"}
  /\ config \in Configs
  /\ attempt \in 0 .. config.retries /\ unread \in BOOLEAN
  /\ invalid \in BOOLEAN /\ rejected \in SUBSET Keys
  /\ hostKnown \in BOOLEAN

LockType ==
  /\ enabled \in BOOLEAN
  /\ readers \in SUBSET (Callers \cup {Sender})
  /\ writer \in Callers \cup {Nobody}
  /\ caller \in [Callers -> {"idle", "await", "share", "lock"} \cup OpNames]

(* Every variable keeps its type, the queue its capacity, and no request   *)
(* is retried more often than the configuration in force says.             *)
TypeOK == QueueType /\ WorkType /\ LockType

(* A key the website rejected is not posted again, and a request is        *)
(* refused without a post only for a key that is short or was rejected     *)
(* since its configuration arrived: an answer that comes while New waits   *)
(* never condemns the key that New brings.                                 *)
KeyVerdict ==
  /\ sender \in {"host", "hostLog", "hostShare", "post"} => config.key \notin rejected
  /\ result = "refused" => config.key \in ShortKeys \cup rejected

Asks(c) == {i \in 1 .. Len(queue) : queue[i] = [from |-> c, kind |-> "ask"]}

(* Each GetData that waits has exactly one request on its way, and the     *)
(* sender never answers a caller that does not wait: that would block it   *)
(* on a channel nobody reads, or that GetData has closed.                  *)
OneRequestPerAsk ==
  \A c \in Callers :
    LET inHand == hand = [from |-> c, kind |-> "ask"]
    IN  IF caller[c] = "await"
        THEN IF inHand THEN Asks(c) = {} ELSE \E i \in 1 .. Len(queue) : Asks(c) = {i}
        ELSE ~inHand /\ Asks(c) = {}

Pending == IF hand = NoRequest THEN queue ELSE <<hand>> \o queue

Mode == IF hand = NoRequest THEN "idle"
        ELSE IF result \in {"refused", "rejected"} THEN result ELSE "sending"

Promise == INSTANCE Outbox
  WITH pending <- Pending, mode <- Mode, refusing <- KeyIsRefused, Cap <- QueueCap + 1

(* The queue, the sender and the sticky failure implement the promise made *)
(* in Outbox: requests are handled one at a time, each once, in the order  *)
(* in which they were queued; none is sent with a key known to be bad.     *)
KeepsPromise == Promise!Spec

(* The two ways in which the sender blocks for good: it waits for room in  *)
(* the queue that it alone empties, or for the answer to an upload.        *)
WaitsForItself == sender \in {"hostLog", "hostShare"} /\ ~HasRoom
Uploading == sender = "post" /\ hand.kind = "file"

(* Unless the sender blocks in one of these ways every call returns:       *)
(* SendData, GetData, New, Errorf, Enable and Disable.                     *)
CallsReturn ==
  ~(<>[]WaitsForItself \/ <>[]Uploading)
    => \A c \in Callers : caller[c] # "idle" ~> caller[c] = "idle"

(* GetData sends data and returns a response (server.go:98).               *)
GetDataReturns == \A c \in Callers : caller[c] = "await" ~> caller[c] = "idle"

(* Retries mitigate the 521 of cloudflare (notifiarr.conf.example:104-105):*)
(* what is posted again is the request, with its payload.                  *)
RetriesSendPayload == sender = "post" => unread
=============================================================================
