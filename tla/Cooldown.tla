------------------------------ MODULE Cooldown ------------------------------
(***************************************************************************)
(* The cooldown of Plex webhooks (src/pkg/cooldown): goroutines that ask,  *)
(* over one channel, whether a key cools down, and one goroutine that      *)
(* answers over another.  Both channels are unbuffered, and an answer does *)
(* not say whose it is.                                                    *)
(***************************************************************************)
EXTENDS Integers, Sequences, FiniteSets

CONSTANTS
  Callers,    \* goroutines that ask
  KeyOf,      \* [Callers -> keys]
  MaxCools    \* bound on the cooldowns of a key

CooldownAssumption == MaxCools \in Nat \ {0} /\ DOMAIN KeyOf = Callers

VARIABLES
  caller,   \* each: where it is, the cooldown its question fell into, the answer it took
  rep,      \* the answer that chanWatcher holds out
  cool,     \* t.track, the keys that cool down
  cools     \* history: how many cooldowns each key had

coolVars == <<caller, rep, cool, cools>>

Keys == {KeyOf[c] : c \in Callers}

Init ==
  /\ caller = [c \in Callers |-> [at |-> "idle", in |-> 0, active |-> TRUE]]
  /\ rep = <<>> /\ cool = {} /\ cools = [k \in Keys |-> 0]

Asked(c) ==
  LET k == KeyOf[c] IN
  /\ rep' = Append(rep, k \in cool)
  /\ cool' = cool \cup {k}
  /\ cools' = [cools EXCEPT ![k] = IF k \in cool THEN @ ELSE @ + 1]
  /\ caller' = [caller EXCEPT ![c] = [at |-> "asked", in |-> cools'[k], active |-> TRUE]]

(* Mutant: the channels are buffered. *)
AskBuffered(c) == caller[c].at = "idle" /\ cools[KeyOf[c]] < MaxCools /\ Asked(c)

(* Active, and the first case of chanWatcher, which takes a question when it has no answer to give. *)
Ask(c) ==
  /\ caller[c].at = "idle" /\ rep = <<>>
  /\ KeyOf[c] \in cool \/ cools[KeyOf[c]] < MaxCools
  /\ Asked(c)

(* The end of Active: whoever waits takes the answer. *)
Take(c) ==
  /\ caller[c].at = "asked" /\ rep # <<>>
  /\ caller' = [caller EXCEPT ![c] = [at |-> "done", in |-> caller[c].in, active |-> Head(rep)]]
  /\ rep' = Tail(rep)
  /\ UNCHANGED <<cool, cools>>

(* The time is over, whether or not the ticker has come to delete the key. *)
CooledDown(k) ==
  /\ k \in cool /\ cool' = cool \ {k}
  /\ UNCHANGED <<caller, rep, cools>>

Next == (\E c \in Callers : Ask(c) \/ Take(c)) \/ \E k \in Keys : CooledDown(k)

CooldownSpec == Init /\ [][Next]_coolVars

-----------------------------------------------------------------------------
TypeOK ==
  /\ \A c \in Callers : caller[c].at \in {"idle", "asked", "done"} /\ caller[c].active \in BOOLEAN
  /\ cool \subseteq Keys /\ (\A n \in DOMAIN rep : rep[n] \in BOOLEAN) /\ \A k \in Keys : cools[k] \in 0..MaxCools

(* Of the webhooks for one key that come in one cooldown, one is let through. *)
OncePerCooldown ==
  \A k \in Keys : \A n \in 1..MaxCools :
    Cardinality({c \in Callers : KeyOf[c] = k /\ caller[c].in = n /\ ~caller[c].active}) <= 1
=============================================================================
