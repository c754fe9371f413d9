-------------------------- MODULE MCServiceChecker --------------------------
(* Small instances of ServiceChecker for TLC.                              *)
EXTENDS ServiceChecker, TLC

(* Every method but the trigger that only logs.                            *)
AllButLog == [c \in Callers |-> OpNames \ {"logall"}]

(* Every caller asks, and runs the checks of one service or of all.        *)
Busybody == [c \in Callers |-> {"running", "runone", "logall"}]

(* Permuting the workers, services and verdicts changes nothing.           *)
PoolSymmetry == Permutations(Workers) \cup Permutations(Svcs) \cup Permutations(Verdicts)
=============================================================================
