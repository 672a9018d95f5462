----------------------------- MODULE ClickLedger -----------------------------
(***************************************************************************)
(* What purels promises about visits: each is recorded once, then counted  *)
(* once or removed together with its link.  Counting a batch and removing  *)
(* links are ONE step each here; ClickRollup shows how transactions and    *)
(* row locks of concurrent workers implement this.                         *)
(***************************************************************************)
EXTENDS ClickTables

Next ==
    \/ \E e \in Events : Insert(e)
    \/ \E S \in SUBSET Pending : RollUp(S)
    \/ \E D \in SUBSET exists : Remove(D)

Spec == InitTables /\ [][Next]_tables
=============================================================================
