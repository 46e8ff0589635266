-------------------------- MODULE MCShippingOrders --------------------------
(***************************************************************************)
(* Small instances of ShippingOrders.                                      *)
(***************************************************************************)
EXTENDS ShippingOrders, TLC

CONSTANTS y, c1, c2, ly, l1, l2, l3

\* A yard order with services, the customer order made from it, and another.
FromYard    == [o \in Order |-> IF o = c1 THEN y ELSE NoOrder]
LineOrders  == [l \in Line |-> CASE l = ly -> y [] l = l1 -> c1 [] OTHER -> c2]
RoutePrices == [l \in Line |-> IF l = l3 THEN 1 ELSE 2]

Users == Permutations(User)

=============================================================================
