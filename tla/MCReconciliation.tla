--------------------------- MODULE MCReconciliation ---------------------------
(***************************************************************************)
(* Small instances of Reconciliation.                                      *)
(***************************************************************************)
EXTENDS Reconciliation

CONSTANTS m1, m2, p, q

\* A line of 3 and a line of 2; the items pay the first with two of them and
\* the second with one.
TwoAmounts     == <<3, 2>>
TwoItems       == {m1, m2}
ItemResidual   == [m \in MoveLine |-> IF m = m1 THEN 2 ELSE 1]
ItemKind       == [m \in MoveLine |-> IF m = m2 THEN "match_other" ELSE "match_rp"]
ItemPartner    == [m \in MoveLine |-> IF m = m2 THEN q ELSE p]
SamePartner    == [m \in MoveLine |-> p]
AllNamed       == [l \in Lines |-> p]
SecondNamed    == [l \in Lines |-> IF l = 2 THEN p ELSE NoPartner]
NoSearch       == {""}
NoMatches      == [f \in {""} |-> MoveLine]
OneSearch      == {"", "first"}
SearchMatches  == [f \in Filters |-> IF f = "" THEN MoveLine ELSE {m1}]

=============================================================================
