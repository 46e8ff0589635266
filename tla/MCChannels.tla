----------------------------- MODULE MCChannels -----------------------------
(***************************************************************************)
(* Instances of Channels for TLC: a root channel with one or two below it, *)
(* and one above one of these.                                             *)
(***************************************************************************)
EXTENDS Channels, TLC

CONSTANTS j1, j2, j3, A, B, S

\* S below A below the root, and B below the root.
DeepParent == (S :> A) @@ (A :> Root) @@ (B :> Root)
DeepPath   == (S :> {S, A, Root}) @@ (A :> {A, Root}) @@ (B :> {B, Root}) @@ (Root :> {Root})
DeepHome   == (j1 :> S) @@ (j2 :> A) @@ (j3 :> B)
DeepCapacity == (S :> 0) @@ (A :> 1) @@ (B :> 1) @@ (Root :> 1)
DeepThrottle == (S :> 0) @@ (A :> 1) @@ (B :> 0) @@ (Root :> 0)

\* A below the root.
FlatParent == A :> Root
FlatPath   == (A :> {A, Root}) @@ (Root :> {Root})

\* A is sequential and has all the jobs.
SeqHome     == [j \in Job |-> A]
SeqCapacity == (A :> 1) @@ (Root :> 2)

Order      == [j \in Job |-> CASE j = j1 -> 1 [] j = j2 -> 2 [] OTHER -> 3]
NoThrottle == [c \in Channel |-> 0]
=============================================================================
