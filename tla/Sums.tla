-------------------------------- MODULE Sums --------------------------------
(***************************************************************************)
(* Sums over finite sets: what MapThenSumSet of the community modules adds *)
(* up for the prices of the routes (ShippingOrders) and for the residuals  *)
(* of journal items (Reconciliation).  Its definition takes the elements   *)
(* one by one in an order of CHOOSE; the lemmas show that the order does   *)
(* not matter.  They are stated for the values f[x] of a function, and     *)
(* proved by smallest counterexamples, since the induction theorems of the *)
(* library are about operators.                                            *)
(***************************************************************************)
EXTENDS Integers, FiniteSets, FiniteSetsExt, FiniteSetTheorems, TLAPS

SumOver(f, S) == MapThenSumSet(LAMBDA x : f[x], S)

(* g adds up f over every subset of S.                                     *)
Adds(f, S, g) ==
    g = [T \in SUBSET S |-> IF T = {} THEN 0
                            ELSE LET x == CHOOSE x \in T : TRUE IN f[x] + g[T \ {x}]]

Some(T) == CHOOSE x \in T : TRUE

(* The next sum from that of the set without one element.                  *)
Next1(f, T, rest) == IF T = {} THEN 0 ELSE f[Some(T)] + rest

LEMMA SumOverDef ==
    ASSUME NEW f, NEW S
    PROVE  SumOver(f, S) = (CHOOSE g : Adds(f, S, g))[S]
BY DEF SumOver, MapThenSumSet, MapThenFoldSet, Adds

LEMMA AddsAt ==
    ASSUME NEW f, NEW S, NEW g
    PROVE  Adds(f, S, g) <=> /\ g = [T \in SUBSET S |-> g[T]]
                             /\ \A T \in SUBSET S : g[T] = Next1(f, T, g[T \ {Some(T)}])
  <1> DEFINE h == [T \in SUBSET S |-> Next1(f, T, g[T \ {Some(T)}])]
  <1>1. Adds(f, S, g) <=> g = h
    BY DEF Adds, Next1, Some
  <1>2. \A T \in SUBSET S : h[T] = Next1(f, T, g[T \ {Some(T)}])
    OBVIOUS
  <1>3. h = [T \in SUBSET S |-> h[T]]
    OBVIOUS
  <1> HIDE DEF h
  <1>4. ASSUME g = [T \in SUBSET S |-> g[T]],
               \A T \in SUBSET S : g[T] = Next1(f, T, g[T \ {Some(T)}])
        PROVE  g = h
    <2>1. \A T \in SUBSET S : g[T] = h[T]
      BY <1>2, <1>4
    <2> QED
      BY <1>3, <1>4, <2>1
  <1> QED
    BY <1>1, <1>2, <1>3, <1>4

(* A collection of subsets of a finite set has one that leaves it with     *)
(* every element taken away.                                               *)
LEMMA Smallest ==
    ASSUME NEW S, IsFiniteSet(S), NEW C \in SUBSET (SUBSET S), C # {}
    PROVE  \E T \in C : \A x \in T : T \ {x} \notin C
  <1>1. /\ FiniteSubsetsOf(S) = SUBSET S
        /\ IsWellFoundedOn(StrictSubsetOrdering(S), FiniteSubsetsOf(S))
    BY FS_FiniteSubsetsOfFinite, FS_StrictSubsetOrderingWellFounded
  <1>2. PICK T \in C : \A U \in C : <<U, T>> \notin StrictSubsetOrdering(S)
    BY <1>1, WFMin
  <1>3. ASSUME NEW x \in T, T \ {x} \in C PROVE FALSE
    BY <1>2, <1>3 DEF StrictSubsetOrdering
  <1> QED
    BY <1>2, <1>3

LEMMA SomeIn == ASSUME NEW T, T # {} PROVE Some(T) \in T
BY DEF Some

LEMMA AddsUnique ==
    ASSUME NEW S, IsFiniteSet(S), NEW f, NEW g, NEW h, Adds(f, S, g), Adds(f, S, h)
    PROVE  g = h
  <1> DEFINE D == {T \in SUBSET S : g[T] # h[T]}
  <1>1. SUFFICES ASSUME D # {} PROVE FALSE
    <2>1. D = {}
      BY <1>1
    <2>2. g = [T \in SUBSET S |-> g[T]] /\ h = [T \in SUBSET S |-> h[T]]
      BY AddsAt
    <2> QED
      BY <2>1, <2>2
  <1>2. PICK T \in D : \A x \in T : T \ {x} \notin D
    BY <1>1, Smallest
  <1>3. /\ g[T] = Next1(f, T, g[T \ {Some(T)}])
        /\ h[T] = Next1(f, T, h[T \ {Some(T)}])
    BY <1>1, AddsAt
  <1>4. T # {} /\ T \in SUBSET S /\ g[T] # h[T]
    BY <1>1, <1>3 DEF Next1
  <1>5. g[T \ {Some(T)}] = h[T \ {Some(T)}]
    BY <1>1, <1>2, <1>4, SomeIn
  <1> QED
    BY <1>3, <1>4, <1>5

LEMMA AddsWithin ==
    ASSUME NEW f, NEW S, NEW g, Adds(f, S, g), NEW T \in SUBSET S
    PROVE  Adds(f, T, [U \in SUBSET T |-> g[U]])
  <1> DEFINE h == [U \in SUBSET T |-> g[U]]
  <1>1. \A U \in SUBSET S : g[U] = Next1(f, U, g[U \ {Some(U)}])
    BY AddsAt
  <1>2. \A U \in SUBSET T : h[U] = g[U] /\ h[U \ {Some(U)}] = g[U \ {Some(U)}]
    OBVIOUS
  <1>3. h = [U \in SUBSET T |-> h[U]]
    OBVIOUS
  <1> HIDE DEF h
  <1>4. \A U \in SUBSET T : h[U] = Next1(f, U, h[U \ {Some(U)}])
    BY <1>1, <1>2
  <1>5. Adds(f, T, h)
    BY <1>3, <1>4, AddsAt
  <1> QED
    BY <1>5 DEF h

(* The sum over T, once some function adds up over its subsets.            *)
LEMMA SumFrom ==
    ASSUME NEW f, NEW S, IsFiniteSet(S), NEW g, Adds(f, S, g)
    PROVE  /\ \A T \in SUBSET S : SumOver(f, T) = g[T]
           /\ SumOver(f, S) = Next1(f, S, SumOver(f, S \ {Some(S)}))
  <1>1. ASSUME NEW T \in SUBSET S PROVE SumOver(f, T) = g[T]
    <2> DEFINE h == [U \in SUBSET T |-> g[U]]
               k == CHOOSE k : Adds(f, T, k)
    <2>1. Adds(f, T, h)
      BY AddsWithin
    <2>2. Adds(f, T, k)
      BY <2>1
    <2>3. IsFiniteSet(T)
      BY FS_Subset
    <2>4. h[T] = g[T]
      OBVIOUS
    <2> HIDE DEF h
    <2>5. SumOver(f, T) = k[T]
      BY SumOverDef
    <2> HIDE DEF k
    <2>6. k = h
      BY <2>1, <2>2, <2>3, AddsUnique
    <2> QED
      BY <2>4, <2>5, <2>6
  <1>2. g[S] = Next1(f, S, g[S \ {Some(S)}])
    BY AddsAt
  <1> QED
    BY <1>1, <1>2

LEMMA AddsExists ==
    ASSUME NEW f, NEW S, IsFiniteSet(S)
    PROVE  \E g : Adds(f, S, g)
  <1> DEFINE D == {T \in SUBSET S : ~ \E g : Adds(f, T, g)}
  <1>1. SUFFICES ASSUME D # {} PROVE FALSE
    <2>1. D = {}
      BY <1>1
    <2>2. S \in SUBSET S
      OBVIOUS
    <2> QED
      BY <2>1, <2>2
  <1>2. PICK T \in D : \A x \in T : T \ {x} \notin D
    BY <1>1, Smallest
  <1>3. ASSUME NEW U \in SUBSET T, U # T PROVE \E g : Adds(f, U, g)
    <2>1. PICK x \in T : x \notin U
      BY <1>3
    <2>2. T \ {x} \in SUBSET S /\ T \ {x} \notin D /\ U \in SUBSET (T \ {x})
      BY <1>1, <1>2, <2>1
    <2>3. PICK g : Adds(f, T \ {x}, g)
      BY <1>1, <2>2
    <2> QED
      BY <2>2, <2>3, AddsWithin
  <1> DEFINE h == [U \in SUBSET T |-> Next1(f, U, SumOver(f, U \ {Some(U)}))]
  <1>4. h = [U \in SUBSET T |-> h[U]]
    OBVIOUS
  <1>5. \A U \in SUBSET T : h[U] = Next1(f, U, SumOver(f, U \ {Some(U)}))
    OBVIOUS
  <1> HIDE DEF h
  <1>6. ASSUME NEW U \in SUBSET T, U # T PROVE h[U] = SumOver(f, U)
    <2>1. PICK g : Adds(f, U, g)
      BY <1>3, <1>6
    <2>2. U \in SUBSET S
      BY <1>1, <1>2
    <2>3. IsFiniteSet(U)
      BY <2>2, FS_Subset
    <2>4. SumOver(f, U) = Next1(f, U, SumOver(f, U \ {Some(U)}))
      BY <2>1, <2>3, SumFrom
    <2> QED
      BY <1>5, <2>4
  <1>7. ASSUME NEW U \in SUBSET T PROVE h[U] = Next1(f, U, h[U \ {Some(U)}])
    <2>1. CASE U = {}
      BY <1>5, <2>1 DEF Next1
    <2>2. CASE U # {}
      <3>1. U \ {Some(U)} \in SUBSET T /\ U \ {Some(U)} # T
        BY <2>2, SomeIn
      <3> QED
        BY <1>5, <1>6, <3>1
    <2> QED
      BY <2>1, <2>2
  <1>8. Adds(f, T, h)
    BY <1>4, <1>7, AddsAt
  <1> QED
    BY <1>1, <1>8

LEMMA SumStep ==
    ASSUME NEW f, NEW S, IsFiniteSet(S)
    PROVE  SumOver(f, S) = Next1(f, S, SumOver(f, S \ {Some(S)}))
BY AddsExists, SumFrom

LEMMA SumEmpty == ASSUME NEW f PROVE SumOver(f, {}) = 0
  <1>1. IsFiniteSet({})
    BY FS_EmptySet
  <1> QED
    BY <1>1, SumStep DEF Next1

(* The sum has the type of what is added.                                  *)
THEOREM SumType ==
    ASSUME NEW S, IsFiniteSet(S), NEW f, NEW N, N = Int \/ N = Nat, \A x \in S : f[x] \in N
    PROVE  SumOver(f, S) \in N
  <1> DEFINE D == {T \in SUBSET S : SumOver(f, T) \notin N}
  <1>1. SUFFICES ASSUME D # {} PROVE FALSE
    <2>1. D = {}
      BY <1>1
    <2>2. S \in SUBSET S
      OBVIOUS
    <2> QED
      BY <2>1, <2>2
  <1>2. PICK T \in D : \A x \in T : T \ {x} \notin D
    BY <1>1, Smallest
  <1>3. T \in SUBSET S /\ SumOver(f, T) \notin N
    BY <1>1
  <1>4. IsFiniteSet(T)
    BY <1>3, FS_Subset
  <1>5. SumOver(f, T) = Next1(f, T, SumOver(f, T \ {Some(T)}))
    BY <1>4, SumStep
  <1>6. T # {}
    BY <1>3, <1>5 DEF Next1
  <1>7. f[Some(T)] \in N /\ SumOver(f, T \ {Some(T)}) \in N
    BY <1>1, <1>2, <1>3, <1>6, SomeIn
  <1>8. SumOver(f, T) = f[Some(T)] + SumOver(f, T \ {Some(T)})
    BY <1>5, <1>6 DEF Next1
  <1> QED
    BY <1>3, <1>7, <1>8

(* Any element can be taken out of the sum.                                *)
THEOREM SumWithout ==
    ASSUME NEW S, IsFiniteSet(S), NEW f, \A x \in S : f[x] \in Int, NEW a \in S
    PROVE  SumOver(f, S) = f[a] + SumOver(f, S \ {a})
  <1> DEFINE Good(T) == \A x \in T : SumOver(f, T) = f[x] + SumOver(f, T \ {x})
  <1> DEFINE D == {T \in SUBSET S : ~Good(T)}
  <1>1. SUFFICES ASSUME D # {} PROVE FALSE
    <2>1. D = {}
      BY <1>1
    <2>2. S \in SUBSET S
      OBVIOUS
    <2>3. Good(S)
      BY <2>1, <2>2
    <2> QED
      BY <2>3
  <1>2. PICK T \in D : \A x \in T : T \ {x} \notin D
    BY <1>1, Smallest
  <1>3. T \in SUBSET S /\ ~Good(T)
    BY <1>1
  <1>4. PICK b \in T : SumOver(f, T) # f[b] + SumOver(f, T \ {b})
    BY <1>3
  <1> DEFINE c == Some(T)
  <1>5. c \in T
    BY <1>4, SomeIn
  <1>6. SumOver(f, T) = f[c] + SumOver(f, T \ {c})
    <2>1. IsFiniteSet(T)
      BY <1>3, FS_Subset
    <2> QED
      BY <1>5, <2>1, SumStep DEF Next1
  <1> HIDE DEF c
  <1>7. b # c
    BY <1>4, <1>6
  <1>8. Good(T \ {c}) /\ Good(T \ {b})
    BY <1>1, <1>2, <1>3, <1>5
  <1>9. (T \ {c}) \ {b} = (T \ {b}) \ {c} /\ b \in T \ {c} /\ c \in T \ {b}
    BY <1>5, <1>7
  <1>10. /\ SumOver(f, T \ {c}) = f[b] + SumOver(f, (T \ {b}) \ {c})
         /\ SumOver(f, T \ {b}) = f[c] + SumOver(f, (T \ {b}) \ {c})
    BY <1>8, <1>9
  <1>11. SumOver(f, (T \ {b}) \ {c}) \in Int /\ f[b] \in Int /\ f[c] \in Int
    <2>1. (T \ {b}) \ {c} \in SUBSET S
      BY <1>3
    <2>2. IsFiniteSet((T \ {b}) \ {c})
      BY <2>1, FS_Subset
    <2> QED
      BY <1>3, <1>5, <2>1, <2>2, SumType
  <1> QED
    BY <1>4, <1>6, <1>10, <1>11

(* The sum over two sets without a common element.                         *)
THEOREM SumDisjoint ==
    ASSUME NEW S, IsFiniteSet(S), NEW f, \A x \in S : f[x] \in Int,
           NEW A \in SUBSET S, NEW B \in SUBSET S, A \cap B = {}
    PROVE  SumOver(f, A \cup B) = SumOver(f, A) + SumOver(f, B)
  <1> DEFINE Good(T) == SumOver(f, T \cup B) = SumOver(f, T) + SumOver(f, B)
             D == {T \in SUBSET A : ~Good(T)}
  <1>1. SUFFICES ASSUME D # {} PROVE FALSE
    <2>1. D = {} /\ A \in SUBSET A
      BY <1>1
    <2>2. Good(A)
      BY <2>1
    <2> QED
      BY <2>2
  <1>2. PICK T \in D : \A x \in T : T \ {x} \notin D
    <2>1. D \in SUBSET (SUBSET A) /\ IsFiniteSet(A)
      BY FS_Subset
    <2> HIDE DEF D
    <2> QED
      BY <1>1, <2>1, Smallest
  <1>3. T \in SUBSET A /\ ~Good(T)
    OBVIOUS
  <1>4. ASSUME NEW V \in SUBSET S
        PROVE  IsFiniteSet(V) /\ SumOver(f, V) \in Int /\ \A x \in V : f[x] \in Int
    <2>1. IsFiniteSet(V)
      BY FS_Subset
    <2> QED
      BY <2>1, SumType
  <1>5. T # {}
    <2>1. SumOver(f, {}) = 0 /\ {} \cup B = B /\ SumOver(f, B) \in Int
      BY <1>4, SumEmpty
    <2>2. Good({})
      BY <2>1
    <2> QED
      BY <1>3, <2>2
  <1>6. PICK a \in T : TRUE
    BY <1>5
  <1>7. /\ T \ {a} \in SUBSET A /\ T \ {a} \in SUBSET S /\ T \in SUBSET S
        /\ T \cup B \in SUBSET S /\ a \in T \cup B
        /\ (T \cup B) \ {a} = (T \ {a}) \cup B
    BY <1>3, <1>6
  <1>8. Good(T \ {a})
    BY <1>2, <1>6, <1>7
  <1>9. SumOver(f, T \cup B) = f[a] + SumOver(f, (T \cup B) \ {a})
    BY <1>4, <1>7, SumWithout
  <1>10. SumOver(f, T) = f[a] + SumOver(f, T \ {a})
    BY <1>4, <1>6, <1>7, SumWithout
  <1>11. f[a] \in Int /\ SumOver(f, T \ {a}) \in Int /\ SumOver(f, B) \in Int
    BY <1>4, <1>6, <1>7
  <1>12. SumOver(f, T \cup B) = f[a] + SumOver(f, (T \ {a}) \cup B)
    BY <1>7, <1>9
  <1>13. SumOver(f, (T \ {a}) \cup B) = SumOver(f, T \ {a}) + SumOver(f, B)
    BY <1>8
  <1>14. Good(T)
    BY <1>10, <1>11, <1>12, <1>13
  <1> QED
    BY <1>3, <1>14

=============================================================================
