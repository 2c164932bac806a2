----------------------------- MODULE AtLeastOnce ----------------------------
(***************************************************************************)
(* What ops/AT-LEAST-ONCE.md and app/jobs.py promise of every staged job:  *)
(* the promise to perform it is never forgotten, it is called kept only    *)
(* after its side effect has happened, it is performed only while it is    *)
(* owed, and it is given up only for an operator to take up again.         *)
(***************************************************************************)
EXTENDS Naturals

CONSTANT Jobs

VARIABLES
  debt,     \* "none", "owed", "kept" or "given_up"
  effects   \* how often the side effect has happened

Init ==
  /\ debt = [j \in Jobs |-> "none"]
  /\ effects = [j \in Jobs |-> 0]

\* A job becomes owed, by the transaction that stages it or by a retry.
Owe ==
  /\ \E S \in SUBSET {j \in Jobs : debt[j] \in {"none", "given_up"}} :
       debt' = [j \in Jobs |-> IF j \in S THEN "owed" ELSE debt[j]]
  /\ UNCHANGED effects

Perform(j) ==
  /\ debt[j] = "owed"
  /\ effects' = [effects EXCEPT ![j] = @ + 1]
  /\ UNCHANGED debt

Keep(j) ==
  /\ debt[j] = "owed" /\ effects[j] > 0
  /\ debt' = [debt EXCEPT ![j] = "kept"]
  /\ UNCHANGED effects

GiveUp(j) ==
  /\ debt[j] = "owed"
  /\ debt' = [debt EXCEPT ![j] = "given_up"]
  /\ UNCHANGED effects

Next == Owe \/ \E j \in Jobs : Perform(j) \/ Keep(j) \/ GiveUp(j)

Spec == Init /\ [][Next]_<<debt, effects>>

=============================================================================
