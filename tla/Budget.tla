------------------------------- MODULE Budget -------------------------------
(***************************************************************************)
(* Allowances of a receiving session (peer_budget.py).  A window is either *)
(* a number of automatic deliveries or Unlimited; the store keeps what is  *)
(* left of it.  Every automatic delivery asks Available first and writes   *)
(* Spend back in the same transaction.                                     *)
(***************************************************************************)
EXTENDS Naturals

CONSTANT Unlimited      \* the string "unlimited" of the store

ASSUME UnlimitedAssumption == Unlimited \notin Nat

Allowance == Nat \cup {Unlimited}

\* Is there room for one more delivery?
Available(left) == left # 0

\* Is there room for one more after n deliveries out of `left`?
AvailableAfter(left, n) == IF left = Unlimited THEN TRUE ELSE n < left

\* Mistaken variant: one transaction is charged once, however much it delivers.
SpendOnce(left, n) == IF left = Unlimited \/ n = 0 \/ left = 0 THEN left ELSE left - 1

\* What is left after n deliveries: Spend iterated n times.
SpendAll(left, n) ==
  IF left = Unlimited THEN Unlimited
  ELSE IF n > left THEN 0 ELSE left - n

Spend(left) == SpendAll(left, 1)
=============================================================================
