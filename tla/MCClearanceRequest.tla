------------------------- MODULE MCClearanceRequest -------------------------
(***************************************************************************)
(* Instances of ClearanceRequest for TLC.                                  *)
(***************************************************************************)
EXTENDS ClearanceRequest, TLC

\* No action and no property tells users, invoices, payments or orders apart.
Symmetry == Permutations(User) \cup Permutations(Invoice)
            \cup Permutations(Payment) \cup Permutations(Order)
=============================================================================
