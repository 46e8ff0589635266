------------------------ MODULE ShippingOrders_proofs ------------------------
(***************************************************************************)
(* Proofs about ShippingOrders, for any orders, lines and users and any    *)
(* number of methods.                                                      *)
(***************************************************************************)
EXTENDS ShippingOrders, Sums, SequenceTheorems, TLAPS

-----------------------------------------------------------------------------
(* Databases, without the sums that are billed *)

DbFields == {"state", "reward", "pays", "billed", "bills", "services"}

Shaped(d) == /\ d = [f \in DbFields |-> d[f]]
             /\ d.state = [o \in Order |-> d.state[o]]

(* A line points to the last of its rewards, and the first alone may come  *)
(* from a way bill.                                                        *)
Paid(d) ==
    /\ d.reward \in [Line -> Nat]
    /\ d.pays = [l \in Line |-> d.pays[l]]
    /\ \A l \in Line : d.pays[l] \in [1..d.reward[l] -> Rewards]
    /\ \A l \in Line : \A i \in 1..d.reward[l] :
           d.pays[l][i].by = "print_way_bill_report" => i = 1

IsDb(d) == Shaped(d) /\ Paid(d)

(* d has the rewards of s, and perhaps more; none is open again.           *)
Later(s, d) ==
    \A l \in Line :
        /\ s.reward[l] <= d.reward[l]
        /\ \A i \in 1..s.reward[l] :
               /\ d.pays[l][i].by = s.pays[l][i].by
               /\ s.pays[l][i].open = FALSE => d.pays[l][i].open = FALSE

(* What a method may make of a snapshot.                                   *)
Step(s, n) == IsDb(n) /\ Later(s, n) /\ \A l \in Line : n.reward[l] <= s.reward[l] + 1

LEMMA SeqOf ==
    ASSUME NEW S, NEW n \in Nat, NEW f \in [1..n -> S]
    PROVE  f \in Seq(S) /\ Len(f) = n /\ DOMAIN f = 1..n
  <1>1. f \in Seq(S)
    BY SeqDef
  <1>2. Len(f) \in Nat /\ DOMAIN f = 1..Len(f)
    BY <1>1, LenProperties
  <1>3. DOMAIN f = 1..n
    OBVIOUS
  <1>4. Len(f) = n
    BY <1>2, <1>3
  <1> QED
    BY <1>1, <1>3, <1>4

LEMMA PaysOf ==
    ASSUME NEW d, Paid(d), NEW l \in Line
    PROVE  /\ d.reward[l] \in Nat
           /\ d.pays[l] \in [1..d.reward[l] -> Rewards]
           /\ d.pays[l] \in Seq(Rewards)
           /\ Len(d.pays[l]) = d.reward[l] /\ DOMAIN d.pays[l] = 1..d.reward[l]
  <1>1. d.reward[l] \in Nat /\ d.pays[l] \in [1..d.reward[l] -> Rewards]
    BY DEF Paid
  <1> QED
    BY <1>1, SeqOf

-----------------------------------------------------------------------------
(* What each method makes of a database *)

(* The methods that leave the rewards alone.                               *)
LEMMA KeptStep ==
    ASSUME NEW s, IsDb(s), NEW n, Shaped(n), n.pays = s.pays, n.reward = s.reward
    PROVE  Step(s, n)
BY DEF IsDb, Paid, Step, Later

LEMMA BillKeeps ==
    ASSUME NEW s, IsDb(s), NEW o
    PROVE  LET b == BillDifference(s, o)
           IN  Shaped(b) /\ b.pays = s.pays /\ b.reward = s.reward /\ b.state = s.state
  <1> DEFINE b == BillDifference(s, o)
             price == Total(LinesOf(o)) + Total(DoneLines(s))
             extra == [s EXCEPT !.billed = @ + Abs(price - @), !.bills = @ + 1]
  <1>1. b = s \/ b = extra
    BY Zenon DEF BillDifference
  <1>2. Shaped(extra) /\ extra.pays = s.pays /\ extra.reward = s.reward /\ extra.state = s.state
    BY DEF IsDb, Shaped, DbFields
  <1> HIDE DEF b, extra
  <1>3. Shaped(b) /\ b.pays = s.pays /\ b.reward = s.reward /\ b.state = s.state
    BY <1>1, <1>2 DEF IsDb
  <1> QED
    BY <1>3 DEF b

LEMMA DoneStep ==
    ASSUME NEW s, IsDb(s), NEW o
    PROVE  Step(s, action_done(s, o))
  <1> DEFINE b == BillDifference(s, o)
             n == [b EXCEPT !.state[o] = "done",
                            !.services[o] = IF Parent[o] \in Serviced THEN @ + 1 ELSE @]
  <1>1. Shaped(b) /\ b.pays = s.pays /\ b.reward = s.reward
    BY BillKeeps
  <1> HIDE DEF b
  <1>2. Shaped(n) /\ n.pays = b.pays /\ n.reward = b.reward
    BY <1>1 DEF Shaped, DbFields
  <1>3. n = action_done(s, o)
    BY DEF action_done, b
  <1> HIDE DEF n
  <1> QED
    BY <1>1, <1>2, <1>3, KeptStep

LEMMA ClosedStep ==
    ASSUME NEW s, IsDb(s), NEW o
    PROVE  Step(s, action_closed(s, o)) /\ Step(s, set_to_draft(s, o))
  <1> DEFINE n(state) == [s EXCEPT !.state[o] = state]
  <1>1. ASSUME NEW state PROVE Step(s, n(state))
    <2>1. Shaped(n(state)) /\ n(state).pays = s.pays /\ n(state).reward = s.reward
      BY DEF IsDb, Shaped, DbFields
    <2> HIDE DEF n
    <2> QED
      BY <2>1, KeptStep
  <1> QED
    BY <1>1 DEF action_closed, set_to_draft

Gone(o) == {p \in Order : p = o \/ Parent[p] = o}

Cancels(s, o, n) ==
    /\ \A p \in Gone(o) : n.state[p] = "canceled"
    /\ \A l \in Line :
          /\ n.reward[l] = s.reward[l]
          /\ OrderOf[l] \in Gone(o) => \A i \in 1..s.reward[l] : n.pays[l][i].open = FALSE

LEMMA CancelStep ==
    ASSUME NEW s, IsDb(s), NEW o
    PROVE  Step(s, action_cancel(s, o)) /\ Cancels(s, o, action_cancel(s, o))
  <1> DEFINE gone  == Gone(o)
             state == [p \in Order |-> IF p \in gone THEN "canceled" ELSE s.state[p]]
             pays  == [l \in Line |->
                         [i \in DOMAIN s.pays[l] |->
                             IF OrderOf[l] \in gone THEN [s.pays[l][i] EXCEPT !.open = FALSE]
                             ELSE s.pays[l][i]]]
             n     == [s EXCEPT !.state = state, !.pays = pays]
  <1>1. n = action_cancel(s, o)
    BY DEF action_cancel, Gone
  <1>2. Shaped(n) /\ n.reward = s.reward /\ n.state = state /\ n.pays = pays
    BY DEF IsDb, Shaped, DbFields
  <1>3. \A p \in gone : n.state[p] = "canceled"
    BY <1>2 DEF Gone
  <1> HIDE DEF gone, n
  <1>4. ASSUME NEW l \in Line, NEW i \in 1..s.reward[l]
        PROVE  /\ pays[l][i] \in Rewards
               /\ pays[l][i].by = s.pays[l][i].by
               /\ s.pays[l][i].open = FALSE \/ OrderOf[l] \in gone => pays[l][i].open = FALSE
    <2>1. s.pays[l][i] \in Rewards /\ i \in DOMAIN s.pays[l]
      BY PaysOf DEF IsDb
    <2>2. pays[l][i] = IF OrderOf[l] \in gone THEN [s.pays[l][i] EXCEPT !.open = FALSE]
                       ELSE s.pays[l][i]
      BY <2>1
    <2> HIDE DEF pays
    <2> QED
      BY <2>1, <2>2 DEF Rewards
  <1>5. ASSUME NEW l \in Line PROVE pays[l] \in [1..s.reward[l] -> Rewards]
    <2>1. DOMAIN s.pays[l] = 1..s.reward[l]
      BY PaysOf DEF IsDb
    <2>2. pays[l] = [i \in 1..s.reward[l] |-> pays[l][i]]
      BY <2>1
    <2> HIDE DEF pays
    <2> QED
      BY <1>4, <2>2
  <1>6. pays = [l \in Line |-> pays[l]]
    OBVIOUS
  <1> HIDE DEF pays
  <1>7. Paid(n)
    BY <1>2, <1>4, <1>5, <1>6 DEF IsDb, Paid
  <1>8. Later(s, n) /\ \A l \in Line : n.reward[l] = s.reward[l] /\ s.reward[l] \in Nat
    <2>1. \A l \in Line : s.reward[l] \in Nat
      BY PaysOf DEF IsDb
    <2> QED
      <3> SUFFICES ASSUME NEW l \in Line
                   PROVE  /\ n.reward[l] = s.reward[l] /\ s.reward[l] <= n.reward[l]
                          /\ \A i \in 1..s.reward[l] :
                                 /\ n.pays[l][i].by = s.pays[l][i].by
                                 /\ s.pays[l][i].open = FALSE => n.pays[l][i].open = FALSE
        BY <2>1 DEF Later
      <3>1. n.reward[l] = s.reward[l] /\ s.reward[l] <= n.reward[l]
        BY <1>2, <2>1
      <3>2. n.pays[l] = pays[l]
        BY <1>2
      <3> QED
        BY <1>4, <3>1, <3>2
  <1>9. Step(s, n)
    BY <1>2, <1>7, <1>8 DEF Step, IsDb
  <1> QED
    BY <1>1, <1>2, <1>3, <1>4, <1>8, <1>9 DEF gone, Cancels

(* A reward from a way bill is made for lines without a reward.            *)
LEMMA RewardStep ==
    ASSUME NEW s, IsDb(s), NEW lines, NEW op \in LineOps \cup {"create_rewards_payments"},
           op = "print_way_bill_report" => \A l \in lines : s.reward[l] = 0
    PROVE  Step(s, Reward(s, lines, op))
  <1> DEFINE new    == [by |-> op, open |-> TRUE]
             pays   == [l \in Line |-> IF l \in lines THEN Append(s.pays[l], new) ELSE s.pays[l]]
             reward == [l \in Line |-> IF l \in lines THEN Len(s.pays[l]) + 1 ELSE s.reward[l]]
             n      == [s EXCEPT !.pays = pays, !.reward = reward]
  <1>1. n = Reward(s, lines, op)
    BY DEF Reward
  <1>2. Shaped(n) /\ n.reward = reward /\ n.pays = pays
    BY DEF IsDb, Shaped, DbFields
  <1>3. new \in Rewards /\ new.by = op
    BY DEF Rewards
  <1> HIDE DEF n, new
  <1>4. ASSUME NEW l \in Line
        PROVE  /\ reward[l] \in Nat /\ reward[l] \in {s.reward[l], s.reward[l] + 1}
               /\ pays[l] \in [1..reward[l] -> Rewards]
               /\ \A i \in 1..s.reward[l] : pays[l][i] = s.pays[l][i]
               /\ \A i \in 1..reward[l] : pays[l][i].by = "print_way_bill_report" => i = 1
    <2>1. /\ s.reward[l] \in Nat /\ s.pays[l] \in Seq(Rewards) /\ Len(s.pays[l]) = s.reward[l]
          /\ s.pays[l] \in [1..s.reward[l] -> Rewards]
      BY PaysOf DEF IsDb
    <2>2. \A i \in 1..s.reward[l] : s.pays[l][i].by = "print_way_bill_report" => i = 1
      BY DEF IsDb, Paid
    <2>3. CASE l \notin lines
      BY <2>1, <2>2, <2>3
    <2>4. CASE l \in lines
      <3> DEFINE longer == Append(s.pays[l], new)
      <3>1. /\ longer \in Seq(Rewards) /\ Len(longer) = s.reward[l] + 1
            /\ \A i \in 1..s.reward[l] : longer[i] = s.pays[l][i]
            /\ longer[s.reward[l] + 1] = new
        BY <1>3, <2>1, AppendProperties
      <3>2. longer \in [1..(s.reward[l] + 1) -> Rewards]
        BY <3>1, LenProperties
      <3>3. pays[l] = longer /\ reward[l] = s.reward[l] + 1
        BY <2>1, <2>4
      <3> HIDE DEF longer, pays, reward
      <3>4. ASSUME NEW i \in 1..(s.reward[l] + 1), longer[i].by = "print_way_bill_report"
            PROVE  i = 1
        <4>1. CASE i \in 1..s.reward[l]
          BY <2>2, <3>1, <3>4, <4>1
        <4>2. CASE i = s.reward[l] + 1
          BY <1>3, <2>1, <2>4, <3>1, <3>4, <4>2
        <4> QED
          BY <2>1, <4>1, <4>2
      <3> QED
        BY <2>1, <3>1, <3>2, <3>3, <3>4
    <2> QED
      BY <2>3, <2>4
  <1>5. pays = [l \in Line |-> pays[l]] /\ reward = [l \in Line |-> reward[l]]
    OBVIOUS
  <1> HIDE DEF pays, reward
  <1>6. Paid(n)
    BY <1>2, <1>4, <1>5 DEF Paid
  <1>7. Later(s, n) /\ \A l \in Line : n.reward[l] <= s.reward[l] + 1
    <2>1. \A l \in Line : s.reward[l] \in Nat
      BY PaysOf DEF IsDb
    <2> QED
      BY <1>2, <1>4, <2>1 DEF Later
  <1> QED
    BY <1>1, <1>2, <1>6, <1>7 DEF Step, IsDb

-----------------------------------------------------------------------------
(* A method ends on a database that has moved on *)

(* One line of the merged database.                                        *)
MergedReward(s, n, d, l) == IF n.reward[l] = s.reward[l] THEN d.reward[l] ELSE n.reward[l]

MergedPays(s, n, d, l) ==
    [i \in DOMAIN n.pays[l] \cup DOMAIN d.pays[l] |->
        IF i \notin DOMAIN n.pays[l] \/ (i \in DOMAIN s.pays[l] /\ n.pays[l][i] = s.pays[l][i])
        THEN d.pays[l][i] ELSE n.pays[l][i]]

LineMerged(s, n, d, l, reward, pays) ==
    /\ reward \in Nat /\ d.reward[l] <= reward
    /\ pays \in [1..reward -> Rewards]
    /\ \A i \in 1..reward : pays[i].by = "print_way_bill_report" => i = 1
    /\ \A i \in 1..d.reward[l] : /\ pays[i].by = d.pays[l][i].by
                                 /\ d.pays[l][i].open = FALSE => pays[i].open = FALSE
    /\ \A i \in 1..s.reward[l] : n.pays[l][i].open = FALSE => pays[i].open = FALSE

LEMMA MergedLine ==
    ASSUME NEW s, IsDb(s), NEW d, IsDb(d), NEW n, Step(s, n), Later(s, d), NEW l \in Line,
           n.reward[l] # s.reward[l] => d.reward[l] = s.reward[l]
    PROVE  LineMerged(s, n, d, l, MergedReward(s, n, d, l), MergedPays(s, n, d, l))
  <1> DEFINE reward == MergedReward(s, n, d, l)
             pays   == MergedPays(s, n, d, l)
  <1>1. /\ s.reward[l] \in Nat /\ s.pays[l] \in [1..s.reward[l] -> Rewards]
        /\ d.reward[l] \in Nat /\ d.pays[l] \in [1..d.reward[l] -> Rewards]
        /\ n.reward[l] \in Nat /\ n.pays[l] \in [1..n.reward[l] -> Rewards]
    BY PaysOf DEF IsDb, Step
  <1>2. /\ s.reward[l] <= d.reward[l] /\ s.reward[l] <= n.reward[l]
        /\ n.reward[l] <= s.reward[l] + 1
    BY DEF Step, Later
  <1>3. /\ reward \in Nat /\ d.reward[l] <= reward
        /\ DOMAIN n.pays[l] \cup DOMAIN d.pays[l] = 1..reward
    BY <1>1, <1>2 DEF MergedReward
  <1>4. ASSUME NEW i \in 1..reward
        PROVE  pays[i] = IF i \notin 1..n.reward[l]
                            \/ (i \in 1..s.reward[l] /\ n.pays[l][i] = s.pays[l][i])
                         THEN d.pays[l][i] ELSE n.pays[l][i]
    BY <1>1, <1>3 DEF MergedPays
  <1>5. pays = [i \in 1..reward |-> pays[i]]
    BY <1>3 DEF MergedPays
  <1> HIDE DEF reward, pays
  <1>6. ASSUME NEW i \in 1..s.reward[l]
        PROVE  /\ i \in 1..reward /\ i \in 1..n.reward[l] /\ i \in 1..d.reward[l]
               /\ s.pays[l][i] \in Rewards /\ n.pays[l][i] \in Rewards /\ d.pays[l][i] \in Rewards
               /\ d.pays[l][i].by = s.pays[l][i].by /\ n.pays[l][i].by = s.pays[l][i].by
               /\ s.pays[l][i].open = FALSE =>
                      d.pays[l][i].open = FALSE /\ n.pays[l][i].open = FALSE
    BY <1>1, <1>2, <1>3 DEF Step, Later
  <1>7. ASSUME NEW i \in 1..reward, i \notin 1..s.reward[l]
        PROVE  \/ pays[i] = d.pays[l][i] /\ i \in 1..d.reward[l]
               \/ pays[i] = n.pays[l][i] /\ i \in 1..n.reward[l] /\ i \notin 1..d.reward[l]
    <2>1. i > s.reward[l] /\ i \in Nat
      BY <1>1, <1>3, <1>7
    <2>2. CASE i \in 1..n.reward[l]
      <3>1. i \notin 1..d.reward[l] \/ d.reward[l] > s.reward[l]
        BY <1>1, <2>1
      <3>2. i = n.reward[l] /\ d.reward[l] = s.reward[l]
        BY <1>1, <1>2, <2>1, <2>2
      <3> QED
        BY <1>1, <1>4, <1>7, <2>2, <3>1, <3>2
    <2>3. CASE i \notin 1..n.reward[l]
      <3>1. i \in 1..d.reward[l]
        BY <1>1, <1>3, <2>1, <2>3
      <3> QED
        BY <1>4, <2>3, <3>1
    <2> QED
      BY <2>2, <2>3
  <1>8. ASSUME NEW i \in 1..s.reward[l]
        PROVE  /\ pays[i] \in Rewards /\ pays[i].by = d.pays[l][i].by
               /\ d.pays[l][i].open = FALSE \/ n.pays[l][i].open = FALSE => pays[i].open = FALSE
    <2>1. CASE n.pays[l][i] = s.pays[l][i]
      BY <1>4, <1>6, <2>1
    <2>2. CASE n.pays[l][i] # s.pays[l][i]
      <3>1. pays[i] = n.pays[l][i]
        BY <1>4, <1>6, <2>2
      <3>2. n.pays[l][i].open = FALSE
        <4>1. /\ n.pays[l][i] = [by |-> n.pays[l][i].by, open |-> n.pays[l][i].open]
              /\ s.pays[l][i] = [by |-> s.pays[l][i].by, open |-> s.pays[l][i].open]
              /\ n.pays[l][i].open \in BOOLEAN /\ s.pays[l][i].open \in BOOLEAN
          BY <1>6 DEF Rewards
        <4>2. n.pays[l][i].open # s.pays[l][i].open
          BY <1>6, <2>2, <4>1
        <4> QED
          BY <1>6, <4>1, <4>2
      <3> QED
        BY <1>6, <3>1, <3>2
    <2> QED
      BY <2>1, <2>2
  <1>9. \A i \in 1..reward : pays[i] \in Rewards
    BY <1>1, <1>7, <1>8
  <1>10. ASSUME NEW i \in 1..reward, pays[i].by = "print_way_bill_report" PROVE i = 1
    <2>1. /\ \A j \in 1..d.reward[l] : d.pays[l][j].by = "print_way_bill_report" => j = 1
          /\ \A j \in 1..n.reward[l] : n.pays[l][j].by = "print_way_bill_report" => j = 1
      BY DEF IsDb, Step, Paid
    <2> QED
      BY <1>6, <1>7, <1>8, <1>10, <2>1
  <1>11. ASSUME NEW i \in 1..d.reward[l]
         PROVE  /\ pays[i].by = d.pays[l][i].by
                /\ d.pays[l][i].open = FALSE => pays[i].open = FALSE
    <2>1. i \in 1..reward
      BY <1>1, <1>3
    <2> QED
      BY <1>7, <1>8, <2>1
  <1>12. pays \in [1..reward -> Rewards]
    BY <1>5, <1>9
  <1> QED
    BY <1>3, <1>8, <1>10, <1>11, <1>12 DEF reward, pays, LineMerged

MergesTo(s, n, d, m) ==
    /\ IsDb(m) /\ Later(d, m)
    /\ \A o \in Order : m.state[o] = IF n.state[o] = s.state[o] THEN d.state[o] ELSE n.state[o]
    /\ \A l \in Line :
          /\ m.reward[l] = MergedReward(s, n, d, l)
          /\ \A i \in 1..s.reward[l] : n.pays[l][i].open = FALSE => m.pays[l][i].open = FALSE

LEMMA Merged ==
    ASSUME NEW s, IsDb(s), NEW d, IsDb(d), NEW n, Step(s, n), Later(s, d),
           \A l \in Line : n.reward[l] # s.reward[l] => d.reward[l] = s.reward[l]
    PROVE  MergesTo(s, n, d, Merge(s, n, d))
  <1> DEFINE m == Merge(s, n, d)
             reward == [l \in Line |-> MergedReward(s, n, d, l)]
             state  == [o \in Order |-> IF n.state[o] = s.state[o] THEN d.state[o] ELSE n.state[o]]
             pays   == [l \in Line |-> MergedPays(s, n, d, l)]
  <1>1. /\ m.state = state /\ m.reward = reward /\ m.pays = pays
        /\ m = [f \in DbFields |-> m[f]]
    BY DEF Merge, DbFields, MergedReward, MergedPays
  <1>2. \A l \in Line : LineMerged(s, n, d, l, reward[l], pays[l])
    BY MergedLine
  <1>3. /\ pays = [l \in Line |-> pays[l]] /\ reward = [l \in Line |-> reward[l]]
        /\ state = [o \in Order |-> state[o]]
        /\ \A o \in Order : state[o] = IF n.state[o] = s.state[o] THEN d.state[o] ELSE n.state[o]
        /\ \A l \in Line : reward[l] = MergedReward(s, n, d, l)
    OBVIOUS
  <1> HIDE DEF m, state, reward, pays
  <1>4. IsDb(m)
    BY <1>1, <1>2, <1>3 DEF IsDb, Shaped, Paid, LineMerged
  <1>5. Later(d, m)
    BY <1>1, <1>2 DEF Later, LineMerged
  <1>6. \A l \in Line : \A i \in 1..s.reward[l] :
           n.pays[l][i].open = FALSE => m.pays[l][i].open = FALSE
    BY <1>1, <1>2 DEF LineMerged
  <1> QED
    BY <1>1, <1>3, <1>4, <1>5, <1>6 DEF m, MergesTo

LEMMA LaterOn ==
    ASSUME NEW s, IsDb(s), NEW d, IsDb(d), NEW e, IsDb(e), Later(s, d), Later(d, e)
    PROVE  Later(s, e)
  <1>1. \A l \in Line : s.reward[l] \in Nat /\ d.reward[l] \in Nat /\ e.reward[l] \in Nat
    BY PaysOf DEF IsDb
  <1> QED
    BY <1>1 DEF Later

LEMMA LaterSame ==
    ASSUME NEW s, IsDb(s)
    PROVE  Later(s, s)
  <1>1. \A l \in Line : s.reward[l] \in Nat
    BY PaysOf DEF IsDb
  <1> QED
    BY <1>1 DEF Later

-----------------------------------------------------------------------------
(* The inductive invariant *)

TxFields == {"op", "on", "snap", "spoiled"}

(* A method under way: its snapshot is a former database, and the rows     *)
(* that nobody wrote since are what they are in the database.              *)
Sound(t, d) ==
    /\ t = [f \in TxFields |-> t[f]]
    /\ t.op # "none"
    /\ IsDb(t.snap) /\ Later(t.snap, d)
    /\ \A l \in Line : l \notin t.spoiled => t.snap.reward[l] = d.reward[l]
    /\ \A o \in Order : o \notin t.spoiled => t.snap.state[o] = d.state[o]

SnapshotInv ==
    /\ IsDb(db)
    /\ tx = [u \in User |-> tx[u]]
    /\ \A u \in User : tx[u] = NoTx \/ Sound(tx[u], db)

(* The method of u ends with n.                                            *)
Installs(u, n) ==
    LET rows == Written(tx[u].op, tx[u].on) \cup Changed(tx[u].snap, n)
    IN  /\ tx[u] # NoTx
        /\ rows \cap tx[u].spoiled = {}
        /\ db' = Merge(tx[u].snap, n, db)
        /\ tx' = [v \in User |->
                     IF v = u \/ tx[v] = NoTx THEN NoTx
                     ELSE [tx[v] EXCEPT !.spoiled = @ \cup rows]]

LEMMA InitSnapshots == Init => SnapshotInv
  <1> SUFFICES ASSUME Init PROVE SnapshotInv
    OBVIOUS
  <1>1. /\ db.state = [o \in Order |-> "draft"] /\ db.reward = [l \in Line |-> 0]
        /\ db.pays = [l \in Line |-> <<>>] /\ db = [f \in DbFields |-> db[f]]
    BY DEF Init, DbFields
  <1>2. \A l \in Line : db.pays[l] \in [1..db.reward[l] -> Rewards]
    BY <1>1
  <1>3. Paid(db)
    <2>1. db.reward \in [Line -> Nat] /\ db.pays = [l \in Line |-> db.pays[l]]
      BY <1>1
    <2>2. \A l \in Line : db.reward[l] = 0
      BY <1>1
    <2> QED
      BY <1>2, <2>1, <2>2 DEF Paid
  <1>4. Shaped(db)
    BY <1>1 DEF Shaped
  <1>5. tx = [u \in User |-> NoTx]
    BY DEF Init
  <1> QED
    BY <1>3, <1>4, <1>5 DEF SnapshotInv, IsDb

(* What a method must make of its snapshot to keep the others sound.       *)
LEMMA InstallsKeep ==
    ASSUME SnapshotInv, NEW u \in User, NEW n, Step(tx[u].snap, n), Installs(u, n)
    PROVE  SnapshotInv'
  <1> DEFINE s    == tx[u].snap
             rows == Written(tx[u].op, tx[u].on) \cup Changed(s, n)
  <1>1. /\ tx[u] # NoTx /\ rows \cap tx[u].spoiled = {} /\ db' = Merge(s, n, db)
        /\ tx' = [v \in User |-> IF v = u \/ tx[v] = NoTx THEN NoTx
                                 ELSE [tx[v] EXCEPT !.spoiled = @ \cup rows]]
    BY Zenon DEF Installs
  <1>2. IsDb(db) /\ Sound(tx[u], db)
    BY <1>1 DEF SnapshotInv
  <1>3. IsDb(s) /\ Later(s, db)
    BY <1>2 DEF Sound
  <1>4. /\ \A l \in Line : n.reward[l] # s.reward[l] => l \in rows
        /\ \A o \in Order : n.state[o] # s.state[o] => o \in rows
    BY DEF Changed
  <1> HIDE DEF rows
  <1>5. \A l \in Line : n.reward[l] # s.reward[l] => db.reward[l] = s.reward[l]
    BY <1>1, <1>2, <1>4 DEF Sound
  <1>6. Step(s, n)
    OBVIOUS
  <1> HIDE DEF s
  <1>7. /\ IsDb(db') /\ Later(db, db')
        /\ \A o \in Order : o \notin rows => db'.state[o] = db.state[o]
        /\ \A l \in Line : l \notin rows => db'.reward[l] = db.reward[l]
    <2>1. MergesTo(s, n, db, db')
      BY <1>1, <1>2, <1>3, <1>5, <1>6, Merged
    <2> QED
      BY <1>4, <2>1 DEF MergesTo, MergedReward
  <1>8. ASSUME NEW v \in User, tx'[v] # NoTx PROVE Sound(tx'[v], db')
    <2>1. /\ tx[v] # NoTx /\ tx'[v] = [tx[v] EXCEPT !.spoiled = tx[v].spoiled \cup rows]
          /\ Sound(tx[v], db)
      BY <1>1, <1>8 DEF SnapshotInv
    <2>2. /\ tx'[v] = [f \in TxFields |-> tx'[v][f]]
          /\ tx'[v].op = tx[v].op /\ tx'[v].snap = tx[v].snap
          /\ tx'[v].spoiled = tx[v].spoiled \cup rows
      BY <2>1 DEF Sound, TxFields
    <2>3. Later(tx[v].snap, db')
      BY <1>2, <1>7, <2>1, LaterOn DEF Sound
    <2> QED
      BY <1>7, <2>1, <2>2, <2>3 DEF Sound
  <1>9. tx' = [v \in User |-> tx'[v]]
    BY <1>1
  <1> QED
    BY <1>7, <1>8, <1>9 DEF SnapshotInv

(* What each method ends with.                                             *)
LEMMA MethodEnds ==
    ASSUME SnapshotInv, NEW u \in User, Method(u)
    PROVE  \E n : /\ Step(tx[u].snap, n) /\ Installs(u, n)
                  /\ tx[u].op = "action_cancel" => n = action_cancel(tx[u].snap, tx[u].on)
  <1> DEFINE s  == tx[u].snap
             on == tx[u].on
  <1>1. tx[u] # NoTx
    BY DEF Method, Commit
  <1>2. IsDb(s)
    BY <1>1 DEF SnapshotInv, Sound
  <1>3. ASSUME Commit(u, "action_done", action_done)
        PROVE  Installs(u, action_done(s, on)) /\ tx[u].op = "action_done"
    BY <1>3 DEF Commit, Installs
  <1>4. ASSUME Commit(u, "action_closed", action_closed)
        PROVE  Installs(u, action_closed(s, on)) /\ tx[u].op = "action_closed"
    BY <1>4 DEF Commit, Installs
  <1>5. ASSUME Commit(u, "action_cancel", action_cancel)
        PROVE  Installs(u, action_cancel(s, on)) /\ tx[u].op = "action_cancel"
    BY <1>5 DEF Commit, Installs
  <1>6. ASSUME Commit(u, "set_to_draft", set_to_draft)
        PROVE  Installs(u, set_to_draft(s, on)) /\ tx[u].op = "set_to_draft"
    BY <1>6 DEF Commit, Installs
  <1>7. ASSUME Commit(u, "create_rewards_payments", create_rewards_payments)
        PROVE  Installs(u, create_rewards_payments(s, on)) /\ tx[u].op = "create_rewards_payments"
    BY <1>7 DEF Commit, Installs
  <1>8. ASSUME Commit(u, "create_reward_payment", create_reward_payment)
        PROVE  Installs(u, create_reward_payment(s, on)) /\ tx[u].op = "create_reward_payment"
    BY <1>8 DEF Commit, Installs
  <1>9. ASSUME Commit(u, "print_way_bill_report", print_way_bill_report)
        PROVE  Installs(u, print_way_bill_report(s, on)) /\ tx[u].op = "print_way_bill_report"
    BY <1>9 DEF Commit, Installs
  <1> HIDE DEF s, on
  <1>10. /\ Step(s, action_done(s, on)) /\ Step(s, action_closed(s, on))
         /\ Step(s, action_cancel(s, on)) /\ Step(s, set_to_draft(s, on))
    BY <1>2, DoneStep, ClosedStep, CancelStep
  <1>11. Step(s, create_rewards_payments(s, on)) /\ Step(s, create_reward_payment(s, on))
    BY <1>2, RewardStep DEF create_rewards_payments, create_reward_payment, LineOps
  <1>12. Step(s, print_way_bill_report(s, on))
    <2>1. CASE s.reward[on] = 0
      BY <1>2, <2>1, RewardStep DEF print_way_bill_report, LineOps
    <2>2. CASE s.reward[on] # 0
      <3>1. Step(s, s)
        BY <1>2, KeptStep DEF IsDb
      <3> QED
        BY <2>2, <3>1 DEF print_way_bill_report
    <2> QED
      BY <2>1, <2>2
  <1> USE DEF s, on
  <1> QED
    BY <1>3, <1>4, <1>5, <1>6, <1>7, <1>8, <1>9, <1>10, <1>11, <1>12 DEF Method

LEMMA SnapshotsKept == SnapshotInv /\ [Next]_vars => SnapshotInv'
  <1> SUFFICES ASSUME SnapshotInv, [Next]_vars PROVE SnapshotInv'
    OBVIOUS
  <1>1. CASE UNCHANGED vars
    BY <1>1 DEF vars, SnapshotInv
  <1>2. ASSUME NEW u \in User, NEW op \in OrderOps \cup LineOps, NEW on, Press(u, op, on)
        PROVE  SnapshotInv'
    <2> DEFINE t == [op |-> op, on |-> on, snap |-> db, spoiled |-> {}]
    <2>1. db' = db /\ tx' = [tx EXCEPT ![u] = t]
      BY <1>2 DEF Press
    <2>2. t = [f \in TxFields |-> t[f]] /\ t.op = op /\ t.snap = db /\ t.spoiled = {}
      BY DEF TxFields
    <2>3. op # "none"
      BY DEF OrderOps, LineOps
    <2>4. Sound(t, db)
      BY <2>2, <2>3, LaterSame DEF Sound, SnapshotInv
    <2> HIDE DEF t
    <2> QED
      BY <2>1, <2>4 DEF SnapshotInv
  <1>3. ASSUME NEW u \in User, Method(u) PROVE SnapshotInv'
    BY <1>3, MethodEnds, InstallsKeep
  <1>4. ASSUME NEW u \in User, Repeat(u) PROVE SnapshotInv'
    <2> DEFINE t == [tx[u] EXCEPT !.snap = db, !.spoiled = {}]
    <2>1. db' = db /\ tx' = [tx EXCEPT ![u] = t] /\ tx[u] # NoTx
      BY <1>4 DEF Repeat, SnapshotInv
    <2>2. t = [f \in TxFields |-> t[f]] /\ t.op = tx[u].op /\ t.snap = db /\ t.spoiled = {}
      BY <2>1 DEF TxFields, SnapshotInv, Sound
    <2>3. Sound(t, db)
      BY <2>1, <2>2, LaterSame DEF Sound, SnapshotInv
    <2> HIDE DEF t
    <2> QED
      BY <2>1, <2>3 DEF SnapshotInv
  <1> QED
    BY <1>1, <1>2, <1>3, <1>4 DEF Next

(* However many way bills are printed at once, a way bill rewards the      *)
(* driver of a line only when it has no reward: the second to write the    *)
(* line is refused, and its repeat finds the reward.                       *)
THEOREM WayBillsReward == Spec => []WayBillRewardsOnce
  <1>1. SnapshotInv => WayBillRewardsOnce
    BY PaysOf DEF SnapshotInv, IsDb, Paid, WayBillRewardsOnce
  <1> QED
    BY <1>1, InitSnapshots, SnapshotsKept, PTL DEF Spec

(* A user who is done with a method committed it.                          *)
LEMMA EndsByMethod ==
    ASSUME SnapshotInv, Next, NEW u \in User, tx[u] # NoTx, tx'[u] = NoTx
    PROVE  Method(u)
  <1>1. tx = [v \in User |-> tx[v]] /\ Sound(tx[u], db) /\ NoTx.op = "none"
    BY DEF SnapshotInv, NoTx
  <1>2. ASSUME NEW v \in User, NEW op, NEW on, Press(v, op, on) PROVE FALSE
    <2>1. tx[v] = NoTx /\ \A w \in User \ {v} : tx'[w] = tx[w]
      BY <1>1, <1>2 DEF Press
    <2> QED
      BY <2>1
  <1>3. ASSUME NEW v \in User, Repeat(v) PROVE FALSE
    <2>1. tx'[u] = tx[u] \/ tx'[u] = [tx[u] EXCEPT !.snap = db, !.spoiled = {}]
      BY <1>1, <1>3 DEF Repeat
    <2>2. tx'[u].op = tx[u].op
      BY <1>1, <2>1 DEF Sound, TxFields
    <2> QED
      BY <1>1, <2>2 DEF Sound
  <1>4. ASSUME NEW v \in User, v # u, Method(v) PROVE FALSE
    <2>1. PICK n : Installs(v, n)
      BY <1>4, MethodEnds
    <2>2. PICK rows : tx' = [w \in User |-> IF w = v \/ tx[w] = NoTx THEN NoTx
                                            ELSE [tx[w] EXCEPT !.spoiled = @ \cup rows]]
      BY <2>1 DEF Installs
    <2>3. tx'[u] = [tx[u] EXCEPT !.spoiled = tx[u].spoiled \cup rows]
      BY <1>4, <2>2
    <2>4. tx'[u].op = tx[u].op
      BY <1>1, <2>3 DEF Sound, TxFields
    <2> QED
      BY <1>1, <2>4 DEF Sound
  <1> QED
    BY <1>2, <1>3, <1>4 DEF Next

(* A cancellation ends with the order and the orders made from it          *)
(* cancelled, and with no reward open that it saw, whatever is confirmed,  *)
(* printed and rewarded meanwhile: it writes the state of all these orders, *)
(* also of those that are cancelled already, and a reward that is not open *)
(* never opens again.                                                      *)
THEOREM CancelTakes == Spec => CancelTakesAll
  <1> DEFINE Taken(u) ==
               tx[u] # NoTx /\ tx'[u] = NoTx /\ tx[u].op = "action_cancel" =>
                 \A o \in Order : o = tx[u].on \/ Parent[o] = tx[u].on =>
                     /\ db'.state[o] = "canceled"
                     /\ \A l \in LinesOf(o) : \A i \in DOMAIN tx[u].snap.pays[l] :
                            ~db'.pays[l][i].open
  <1>1. ASSUME SnapshotInv, [Next]_vars PROVE [\A u \in User : Taken(u)]_vars
    <2> SUFFICES ASSUME Next, NEW u \in User, tx[u] # NoTx, tx'[u] = NoTx,
                        tx[u].op = "action_cancel",
                        NEW o \in Order, o = tx[u].on \/ Parent[o] = tx[u].on
                 PROVE  /\ db'.state[o] = "canceled"
                        /\ \A l \in LinesOf(o) : \A i \in DOMAIN tx[u].snap.pays[l] :
                               ~db'.pays[l][i].open
      BY <1>1
    <2> DEFINE s    == tx[u].snap
               n    == action_cancel(s, tx[u].on)
               gone == Gone(tx[u].on)
    <2>1. /\ IsDb(db) /\ Sound(tx[u], db)
          /\ IsDb(s) /\ Later(s, db)
      BY <1>1 DEF SnapshotInv, Sound
    <2>2. Step(s, n) /\ Installs(u, n)
      BY <1>1, EndsByMethod, MethodEnds
    <2>3. Cancels(s, tx[u].on, n)
      BY <2>1, CancelStep
    <2>4. db' = Merge(s, n, db) /\ o \notin tx[u].spoiled
      BY <2>2 DEF Installs, Written
    <2> HIDE DEF s, n
    <2>5. MergesTo(s, n, db, db')
      BY <2>1, <2>2, <2>3, <2>4, Merged DEF Cancels
    <2>6. db'.state[o] = "canceled"
      <3>1. s.state[o] = db.state[o]
        BY <2>1, <2>4 DEF Sound, s
      <3> QED
        BY <2>3, <2>5, <3>1 DEF MergesTo, Cancels, Gone
    <2>7. ASSUME NEW l \in LinesOf(o), NEW i \in DOMAIN s.pays[l] PROVE ~db'.pays[l][i].open
      <3>1. l \in Line /\ OrderOf[l] \in gone /\ i \in 1..s.reward[l]
        BY <2>1, <2>7, PaysOf DEF LinesOf, IsDb, Gone
      <3> QED
        BY <2>3, <2>5, <3>1 DEF MergesTo, Cancels
    <2> QED
      BY <2>6, <2>7 DEF s
  <1>2. SnapshotInv /\ [Next]_vars => [\A u \in User : Taken(u)]_vars
    BY <1>1
  <1>3. Spec => [][\A u \in User : Taken(u)]_vars
    BY <1>2, InitSnapshots, SnapshotsKept, PTL DEF Spec
  <1> QED
    BY <1>3 DEF CancelTakesAll

-----------------------------------------------------------------------------
(* Types of what is billed, and what each method bills *)

Typed(d) ==
    /\ d.state \in [Order -> States] /\ d.billed \in Nat /\ d.bills \in Nat
    /\ d.services \in [Order -> Nat]

(* Nothing that was billed is taken back.                                  *)
Grown(s, n) ==
    /\ Typed(n) /\ s.billed <= n.billed /\ s.bills <= n.bills
    /\ \A o \in Order : s.services[o] <= n.services[o]

Called(op, on) == \/ op \in OrderOps /\ on \in Order
                  \/ op \in LineOps /\ on \in Line

(* n is what the method op makes of the snapshot s.                        *)
Makes(op, s, on, n) ==
    \/ op = "action_done" /\ n = action_done(s, on)
    \/ op = "action_closed" /\ n = action_closed(s, on)
    \/ op = "action_cancel" /\ n = action_cancel(s, on)
    \/ op = "set_to_draft" /\ n = set_to_draft(s, on)
    \/ op = "create_rewards_payments" /\ n = create_rewards_payments(s, on)
    \/ op = "create_reward_payment" /\ n = create_reward_payment(s, on)
    \/ op = "print_way_bill_report" /\ n = print_way_bill_report(s, on)

PriceAt(s, o) == Total(LinesOf(o)) + Total(DoneLines(s))

CountAt(s, o) == Cardinality(LinesOf(o)) + Cardinality(DoneLines(s))

Differs(s, o) ==
    o \in Customer /\ s.billed # 0 /\ PriceAt(s, o) # s.billed /\ CountAt(s, o) = Goods

(* n bills the difference that s shows.                                    *)
BilledBy(s, o, n) ==
    IF Differs(s, o)
    THEN n.billed = s.billed + Abs(PriceAt(s, o) - s.billed) /\ n.bills = s.bills + 1
    ELSE n.billed = s.billed /\ n.bills = s.bills

(* What the methods do to the states of the orders and to the bills: only  *)
(* a confirmation makes an order done, and only a confirmation bills.      *)
Outcome(op, s, on, n) ==
    /\ Grown(s, n)
    /\ op = "action_done" =>
         /\ BilledBy(s, on, n) /\ n.state[on] = "done"
         /\ \A o \in Order : o # on => n.state[o] = s.state[o]
    /\ op # "action_done" =>
         /\ n.billed = s.billed /\ n.bills = s.bills
         /\ \A o \in Order : n.state[o] = "done" => s.state[o] = "done"

LEMMA TotalIs ==
    ASSUME NEW lines \in SUBSET Line
    PROVE  Total(lines) = SumOver(Price, lines) /\ Total(lines) \in Nat /\ IsFiniteSet(lines)
  <1>1. Total(lines) = SumOver(Price, lines)
    BY DEF Total, SumOver
  <1>2. IsFiniteSet(lines)
    BY ConstantsAssumption, FS_Subset
  <1>3. \A l \in lines : Price[l] \in Nat
    BY ConstantsAssumption
  <1> QED
    BY <1>1, <1>2, <1>3, SumType

LEMMA SomeLines == ASSUME NEW s, NEW o PROVE LinesOf(o) \in SUBSET Line /\ DoneLines(s) \in SUBSET Line
BY DEF LinesOf, DoneLines

LEMMA BillIs ==
    ASSUME NEW s, IsDb(s), Typed(s), NEW o
    PROVE  LET b == BillDifference(s, o)
           IN  /\ BilledBy(s, o, b) /\ b.state = s.state /\ b.services = s.services
               /\ b.billed \in Nat /\ b.bills \in Nat
               /\ s.billed <= b.billed /\ s.bills <= b.bills
  <1> DEFINE b == BillDifference(s, o)
             extra == [s EXCEPT !.billed = @ + Abs(PriceAt(s, o) - @), !.bills = @ + 1]
  <1>1. b = IF Differs(s, o) THEN extra ELSE s
    BY DEF BillDifference, Differs, PriceAt, CountAt
  <1>2. /\ extra.billed = s.billed + Abs(PriceAt(s, o) - s.billed) /\ extra.bills = s.bills + 1
        /\ extra.state = s.state /\ extra.services = s.services
    BY DEF IsDb, Shaped, DbFields
  <1>3. PriceAt(s, o) \in Nat
    BY SomeLines, TotalIs DEF PriceAt
  <1>4. s.billed \in Nat /\ s.bills \in Nat
    BY DEF Typed
  <1>5. Abs(PriceAt(s, o) - s.billed) \in Nat
    BY <1>3, <1>4 DEF Abs
  <1> HIDE DEF b, extra
  <1>6. /\ BilledBy(s, o, b) /\ b.state = s.state /\ b.services = s.services
        /\ b.billed \in Nat /\ b.bills \in Nat
        /\ s.billed <= b.billed /\ s.bills <= b.bills
    <2>1. CASE Differs(s, o)
      BY <1>1, <1>2, <1>4, <1>5, <2>1 DEF BilledBy
    <2>2. CASE ~Differs(s, o)
      BY <1>1, <1>4, <2>2 DEF BilledBy
    <2> QED
      BY <2>1, <2>2
  <1> QED
    BY <1>6 DEF b

LEMMA DoneOutcome ==
    ASSUME NEW s, IsDb(s), Typed(s), NEW o \in Order
    PROVE  Outcome("action_done", s, o, action_done(s, o))
  <1> DEFINE b == BillDifference(s, o)
             n == [b EXCEPT !.state[o] = "done",
                            !.services[o] = IF Parent[o] \in Serviced THEN @ + 1 ELSE @]
  <1>1. /\ BilledBy(s, o, b) /\ b.state = s.state /\ b.services = s.services
        /\ b.billed \in Nat /\ b.bills \in Nat
        /\ s.billed <= b.billed /\ s.bills <= b.bills
    BY BillIs
  <1>2. Shaped(b)
    BY BillKeeps
  <1>3. s.state \in [Order -> States] /\ s.services \in [Order -> Nat]
    BY DEF Typed
  <1>4. n = action_done(s, o)
    BY DEF action_done
  <1> HIDE DEF b
  <1>5. /\ n.billed = b.billed /\ n.bills = b.bills
        /\ n.state = [s.state EXCEPT ![o] = "done"]
        /\ n.services = [s.services EXCEPT ![o] = IF Parent[o] \in Serviced THEN @ + 1 ELSE @]
    BY <1>1, <1>2 DEF Shaped, DbFields
  <1> HIDE DEF n
  <1>6. n.state \in [Order -> States] /\ n.state[o] = "done"
    BY <1>3, <1>5 DEF States
  <1>7. \A p \in Order : p # o => n.state[p] = s.state[p]
    BY <1>3, <1>5
  <1>8. n.services \in [Order -> Nat] /\ \A p \in Order : s.services[p] <= n.services[p]
    BY <1>3, <1>5
  <1>9. BilledBy(s, o, n)
    BY <1>1, <1>5 DEF BilledBy
  <1>10. Grown(s, n)
    BY <1>1, <1>5, <1>6, <1>8 DEF Grown, Typed
  <1> QED
    BY <1>4, <1>6, <1>7, <1>9, <1>10 DEF Outcome

(* The methods that bill nothing.                                          *)
LEMMA UnbilledOutcome ==
    ASSUME NEW s, Typed(s), NEW n, n.billed = s.billed, n.bills = s.bills,
           n.services = s.services, n.state \in [Order -> States],
           \A o \in Order : n.state[o] = "done" => s.state[o] = "done",
           NEW op, op # "action_done", NEW on
    PROVE  Outcome(op, s, on, n)
BY DEF Outcome, Grown, Typed

LEMMA MethodOutcome ==
    ASSUME NEW s, IsDb(s), Typed(s), NEW op, NEW on, Called(op, on), NEW n, Makes(op, s, on, n)
    PROVE  Outcome(op, s, on, n)
  <1>1. s = [f \in DbFields |-> s[f]] /\ s.state \in [Order -> States]
    BY DEF IsDb, Shaped, Typed
  <1>2. CASE op = "action_done" /\ n = action_done(s, on)
    <2>1. on \in Order
      BY <1>2 DEF Called, OrderOps, LineOps
    <2> QED
      BY <1>2, <2>1, DoneOutcome
  <1>3. CASE op = "action_closed" /\ n = action_closed(s, on)
    <2>1. /\ n.billed = s.billed /\ n.bills = s.bills /\ n.services = s.services
          /\ n.state = [s.state EXCEPT ![on] = "closed"]
      BY <1>1, <1>3 DEF action_closed, DbFields
    <2>2. n.state \in [Order -> States] /\ \A o \in Order : n.state[o] = "done" => s.state[o] = "done"
      BY <1>1, <2>1 DEF States
    <2> QED
      BY <1>3, <2>1, <2>2, UnbilledOutcome
  <1>4. CASE op = "action_cancel" /\ n = action_cancel(s, on)
    <2> DEFINE state == [p \in Order |-> IF p \in Gone(on) THEN "canceled" ELSE s.state[p]]
    <2>1. /\ n.billed = s.billed /\ n.bills = s.bills /\ n.services = s.services
          /\ n.state = state
      BY <1>1, <1>4 DEF action_cancel, DbFields, Gone
    <2>2. state \in [Order -> States] /\ \A o \in Order : state[o] = "done" => s.state[o] = "done"
      BY <1>1 DEF States
    <2> QED
      BY <1>4, <2>1, <2>2, UnbilledOutcome
  <1>5. CASE op = "set_to_draft" /\ n = set_to_draft(s, on)
    <2>1. /\ n.billed = s.billed /\ n.bills = s.bills /\ n.services = s.services
          /\ n.state = [s.state EXCEPT ![on] = "draft"]
      BY <1>1, <1>5 DEF set_to_draft, DbFields
    <2>2. n.state \in [Order -> States] /\ \A o \in Order : n.state[o] = "done" => s.state[o] = "done"
      BY <1>1, <2>1 DEF States
    <2> QED
      BY <1>5, <2>1, <2>2, UnbilledOutcome
  <1>6. ASSUME op # "action_done", n = s \/ \E lines, by : n = Reward(s, lines, by)
        PROVE  Outcome(op, s, on, n)
    <2>1. /\ n.billed = s.billed /\ n.bills = s.bills /\ n.services = s.services
          /\ n.state = s.state
      BY <1>1, <1>6 DEF Reward, DbFields
    <2> QED
      BY <1>1, <1>6, <2>1, UnbilledOutcome
  <1>7. CASE \/ op = "create_rewards_payments" /\ n = create_rewards_payments(s, on)
             \/ op = "create_reward_payment" /\ n = create_reward_payment(s, on)
             \/ op = "print_way_bill_report" /\ n = print_way_bill_report(s, on)
    <2>1. n = s \/ \E lines, by : n = Reward(s, lines, by)
      BY <1>7 DEF create_rewards_payments, create_reward_payment, print_way_bill_report
    <2> QED
      BY <1>6, <1>7, <2>1
  <1> QED
    BY <1>2, <1>3, <1>4, <1>5, <1>7 DEF Makes

(* Merged with what others billed meanwhile.                               *)
LEMMA MergeGrows ==
    ASSUME NEW s, Typed(s), NEW d, Typed(d), NEW n, Grown(s, n)
    PROVE  LET m == Merge(s, n, d)
           IN  /\ Grown(d, m)
               /\ m.billed = d.billed + n.billed - s.billed
               /\ m.bills = d.bills + n.bills - s.bills
               /\ \A o \in Order :
                      m.state[o] = IF n.state[o] = s.state[o] THEN d.state[o] ELSE n.state[o]
  <1> DEFINE m == Merge(s, n, d)
             state    == [o \in Order |-> IF n.state[o] = s.state[o] THEN d.state[o] ELSE n.state[o]]
             services == [o \in Order |-> d.services[o] + n.services[o] - s.services[o]]
  <1>1. /\ m.state = state /\ m.services = services
        /\ m.billed = d.billed + n.billed - s.billed
        /\ m.bills = d.bills + n.bills - s.bills
    BY DEF Merge
  <1>2. /\ s.billed \in Nat /\ d.billed \in Nat /\ n.billed \in Nat /\ s.billed <= n.billed
        /\ s.bills \in Nat /\ d.bills \in Nat /\ n.bills \in Nat /\ s.bills <= n.bills
    BY DEF Grown, Typed
  <1>3. state \in [Order -> States]
    BY DEF Grown, Typed
  <1>4. ASSUME NEW o \in Order
        PROVE  services[o] \in Nat /\ d.services[o] <= services[o]
    <2>1. /\ s.services[o] \in Nat /\ d.services[o] \in Nat /\ n.services[o] \in Nat
          /\ s.services[o] <= n.services[o]
      BY DEF Grown, Typed
    <2> QED
      BY <2>1
  <1>5. services = [o \in Order |-> services[o]]
    OBVIOUS
  <1>6. \A o \in Order : state[o] = IF n.state[o] = s.state[o] THEN d.state[o] ELSE n.state[o]
    OBVIOUS
  <1> HIDE DEF m, state, services
  <1>7. services \in [Order -> Nat]
    BY <1>4, <1>5
  <1>8. m.billed \in Nat /\ m.bills \in Nat /\ d.billed <= m.billed /\ d.bills <= m.bills
    BY <1>1, <1>2
  <1>9. Grown(d, m)
    BY <1>1, <1>3, <1>4, <1>7, <1>8 DEF Grown, Typed
  <1> QED
    BY <1>1, <1>6, <1>9 DEF m

-----------------------------------------------------------------------------
(* The three ways in which a step goes on *)

Others(u) ==
    \A v \in User \ {u} : tx'[v] # NoTx =>
        /\ tx[v] # NoTx /\ tx'[v].op = tx[v].op /\ tx'[v].on = tx[v].on
        /\ tx'[v].snap = tx[v].snap

Began(u, op, on) ==
    /\ Called(op, on) /\ presses' = presses + 1 /\ presses < MaxPresses
    /\ db' = db /\ Others(u)
    /\ tx'[u] # NoTx /\ tx'[u].op = op /\ tx'[u].on = on /\ tx'[u].snap = db
    /\ op = "action_done" =>
         /\ db.state[on] = "draft"
         /\ ~ConfirmTwice => \A v \in User :
                tx[v] # NoTx /\ tx[v].op = "action_done" => tx[v].on # on

Repeated(u) ==
    /\ tx[u] # NoTx /\ db' = db /\ presses' = presses /\ Others(u)
    /\ tx'[u] # NoTx /\ tx'[u].op = tx[u].op /\ tx'[u].on = tx[u].on /\ tx'[u].snap = db

Ended(u, n) ==
    /\ tx[u] # NoTx /\ Makes(tx[u].op, tx[u].snap, tx[u].on, n)
    /\ db' = Merge(tx[u].snap, n, db)
    /\ tx'[u] = NoTx /\ presses' = presses /\ Others(u)

LEMMA PressBegins ==
    ASSUME SnapshotInv, NEW u \in User, NEW op, NEW on, Called(op, on), Press(u, op, on),
           op = "action_done" => db.state[on] = "draft"
    PROVE  Began(u, op, on)
  <1> DEFINE t == [op |-> op, on |-> on, snap |-> db, spoiled |-> {}]
  <1>1. /\ db' = db /\ tx' = [tx EXCEPT ![u] = t] /\ presses' = presses + 1
        /\ presses < MaxPresses
    BY DEF Press
  <1>2. tx = [v \in User |-> tx[v]]
    BY DEF SnapshotInv
  <1>3. t.op = op /\ t.on = on /\ t.snap = db /\ op # "none" /\ NoTx.op = "none"
    BY DEF Called, OrderOps, LineOps, NoTx
  <1> HIDE DEF t
  <1>4. tx'[u] = t /\ \A v \in User \ {u} : tx'[v] = tx[v]
    BY <1>1, <1>2
  <1>5. tx'[u] # NoTx
    BY <1>3, <1>4
  <1>6. Others(u)
    BY <1>4 DEF Others
  <1>7. op = "action_done" /\ ~ConfirmTwice => \A v \in User :
            tx[v] # NoTx /\ tx[v].op = "action_done" => tx[v].on # on
    BY DEF Press
  <1> QED
    BY <1>1, <1>3, <1>4, <1>5, <1>6, <1>7 DEF Began

LEMMA RepeatRepeats ==
    ASSUME SnapshotInv, NEW u \in User, Repeat(u)
    PROVE  Repeated(u)
  <1> DEFINE t == [tx[u] EXCEPT !.snap = db, !.spoiled = {}]
  <1>1. /\ db' = db /\ tx' = [tx EXCEPT ![u] = t] /\ tx[u] # NoTx /\ presses' = presses
        /\ tx = [v \in User |-> tx[v]] /\ Sound(tx[u], db)
    BY DEF Repeat, SnapshotInv
  <1>2. t.op = tx[u].op /\ t.on = tx[u].on /\ t.snap = db /\ t.op # "none" /\ NoTx.op = "none"
    BY <1>1 DEF Sound, TxFields, NoTx
  <1> HIDE DEF t
  <1>3. tx'[u] = t /\ \A v \in User \ {u} : tx'[v] = tx[v]
    BY <1>1
  <1>4. Others(u)
    BY <1>3 DEF Others
  <1> QED
    BY <1>1, <1>2, <1>3, <1>4 DEF Repeated

LEMMA MethodIsEnd ==
    ASSUME SnapshotInv, NEW u \in User, Method(u)
    PROVE  \E n : Ended(u, n)
  <1>1. PICK n : /\ tx[u] # NoTx /\ Makes(tx[u].op, tx[u].snap, tx[u].on, n)
                 /\ Installs(u, n) /\ presses' = presses
    <2> DEFINE s  == tx[u].snap
               on == tx[u].on
               Found == \E n : /\ tx[u] # NoTx /\ Makes(tx[u].op, s, on, n)
                               /\ Installs(u, n) /\ presses' = presses
    <2>1. ASSUME Commit(u, "action_done", action_done) PROVE Found
      <3>1. /\ tx[u] # NoTx /\ tx[u].op = "action_done"
            /\ Installs(u, action_done(s, on)) /\ presses' = presses
        BY <2>1 DEF Commit, Installs
      <3> HIDE DEF s, on
      <3> QED
        BY <3>1 DEF Makes
    <2>2. ASSUME Commit(u, "action_closed", action_closed) PROVE Found
      <3>1. /\ tx[u] # NoTx /\ tx[u].op = "action_closed"
            /\ Installs(u, action_closed(s, on)) /\ presses' = presses
        BY <2>2 DEF Commit, Installs
      <3> HIDE DEF s, on
      <3> QED
        BY <3>1 DEF Makes
    <2>3. ASSUME Commit(u, "action_cancel", action_cancel) PROVE Found
      <3>1. /\ tx[u] # NoTx /\ tx[u].op = "action_cancel"
            /\ Installs(u, action_cancel(s, on)) /\ presses' = presses
        BY <2>3 DEF Commit, Installs
      <3> HIDE DEF s, on
      <3> QED
        BY <3>1 DEF Makes
    <2>4. ASSUME Commit(u, "set_to_draft", set_to_draft) PROVE Found
      <3>1. /\ tx[u] # NoTx /\ tx[u].op = "set_to_draft"
            /\ Installs(u, set_to_draft(s, on)) /\ presses' = presses
        BY <2>4 DEF Commit, Installs
      <3> HIDE DEF s, on
      <3> QED
        BY <3>1 DEF Makes
    <2>5. ASSUME Commit(u, "create_rewards_payments", create_rewards_payments) PROVE Found
      <3>1. /\ tx[u] # NoTx /\ tx[u].op = "create_rewards_payments"
            /\ Installs(u, create_rewards_payments(s, on)) /\ presses' = presses
        BY <2>5 DEF Commit, Installs
      <3> HIDE DEF s, on
      <3> QED
        BY <3>1 DEF Makes
    <2>6. ASSUME Commit(u, "create_reward_payment", create_reward_payment) PROVE Found
      <3>1. /\ tx[u] # NoTx /\ tx[u].op = "create_reward_payment"
            /\ Installs(u, create_reward_payment(s, on)) /\ presses' = presses
        BY <2>6 DEF Commit, Installs
      <3> HIDE DEF s, on
      <3> QED
        BY <3>1 DEF Makes
    <2>7. ASSUME Commit(u, "print_way_bill_report", print_way_bill_report) PROVE Found
      <3>1. /\ tx[u] # NoTx /\ tx[u].op = "print_way_bill_report"
            /\ Installs(u, print_way_bill_report(s, on)) /\ presses' = presses
        BY <2>7 DEF Commit, Installs
      <3> HIDE DEF s, on
      <3> QED
        BY <3>1 DEF Makes
    <2> HIDE DEF Found
    <2>8. Found
      BY <2>1, <2>2, <2>3, <2>4, <2>5, <2>6, <2>7 DEF Method
    <2> QED
      BY <2>8 DEF Found
  <1>2. PICK rows : tx' = [v \in User |-> IF v = u \/ tx[v] = NoTx THEN NoTx
                                          ELSE [tx[v] EXCEPT !.spoiled = @ \cup rows]]
    BY <1>1 DEF Installs
  <1>3. ASSUME NEW v \in User \ {u}, tx'[v] # NoTx
        PROVE  /\ tx[v] # NoTx /\ tx'[v].op = tx[v].op /\ tx'[v].on = tx[v].on
               /\ tx'[v].snap = tx[v].snap
    <2>1. tx[v] # NoTx /\ tx'[v] = [tx[v] EXCEPT !.spoiled = tx[v].spoiled \cup rows]
      BY <1>2, <1>3
    <2>2. tx[v] = [f \in TxFields |-> tx[v][f]]
      BY <2>1 DEF SnapshotInv, Sound
    <2> QED
      BY <2>1, <2>2 DEF TxFields
  <1>4. tx'[u] = NoTx
    BY <1>2
  <1> QED
    BY <1>1, <1>3, <1>4 DEF Installs, Ended, Others

LEMMA Moves ==
    ASSUME SnapshotInv, Next
    PROVE  \E u \in User : \/ \E op, on : Began(u, op, on)
                           \/ Repeated(u)
                           \/ Method(u) /\ \E n : Ended(u, n)
  <1>1. ASSUME NEW u \in User, NEW op \in OrderOps, NEW o \in Order, Shown(op, o), Press(u, op, o)
        PROVE  Began(u, op, o)
    <2>1. op = "action_done" => db.state[o] = "draft"
      BY <1>1 DEF Shown
    <2> QED
      BY <1>1, <2>1, PressBegins DEF Called
  <1>2. ASSUME NEW u \in User, NEW op \in LineOps, NEW l \in Line, Press(u, op, l)
        PROVE  Began(u, op, l)
    <2>1. op # "action_done"
      BY DEF LineOps
    <2> QED
      BY <1>2, <2>1, PressBegins DEF Called
  <1> QED
    BY <1>1, <1>2, RepeatRepeats, MethodIsEnd DEF Next

-----------------------------------------------------------------------------
(* Types *)

TypeInv ==
    /\ Typed(db)
    /\ \A u \in User : tx[u] # NoTx => Called(tx[u].op, tx[u].on) /\ Typed(tx[u].snap)
    /\ presses \in 0..MaxPresses

(* What the method of u does to the states and the bills of the database.  *)
LEMMA EndOutcome ==
    ASSUME SnapshotInv, TypeInv, NEW u \in User, NEW n, Ended(u, n)
    PROVE  LET s == tx[u].snap
           IN  /\ Outcome(tx[u].op, s, tx[u].on, n)
               /\ Grown(db, db')
               /\ db'.billed = db.billed + n.billed - s.billed
               /\ db'.bills = db.bills + n.bills - s.bills
               /\ \A o \in Order :
                      db'.state[o] = IF n.state[o] = s.state[o] THEN db.state[o] ELSE n.state[o]
  <1> DEFINE s == tx[u].snap
  <1>1. IsDb(s)
    BY DEF SnapshotInv, Sound, Ended
  <1>2. Typed(s) /\ Typed(db) /\ Called(tx[u].op, tx[u].on)
    BY DEF TypeInv, Ended
  <1>3. Makes(tx[u].op, s, tx[u].on, n) /\ db' = Merge(s, n, db)
    BY DEF Ended
  <1> HIDE DEF s
  <1>4. Outcome(tx[u].op, s, tx[u].on, n)
    BY <1>1, <1>2, <1>3, MethodOutcome
  <1>5. Grown(s, n)
    BY <1>4 DEF Outcome
  <1>6. /\ Grown(db, Merge(s, n, db))
        /\ Merge(s, n, db).billed = db.billed + n.billed - s.billed
        /\ Merge(s, n, db).bills = db.bills + n.bills - s.bills
        /\ \A o \in Order : Merge(s, n, db).state[o]
                              = IF n.state[o] = s.state[o] THEN db.state[o] ELSE n.state[o]
    BY <1>2, <1>5, MergeGrows
  <1> QED
    BY <1>3, <1>4, <1>6 DEF s

LEMMA InitTyped == Init => TypeInv
  <1> SUFFICES ASSUME Init PROVE TypeInv
    OBVIOUS
  <1>1. /\ db.state = [o \in Order |-> "draft"] /\ db.services = [o \in Order |-> 0]
        /\ db.billed = Billed /\ db.bills = 0
        /\ tx = [u \in User |-> NoTx] /\ presses = 0
    BY DEF Init
  <1> QED
    BY <1>1, ConstantsAssumption DEF TypeInv, Typed, States

LEMMA TypesKept == SnapshotInv /\ TypeInv /\ [Next]_vars => TypeInv'
  <1> SUFFICES ASSUME SnapshotInv, TypeInv, [Next]_vars PROVE TypeInv'
    OBVIOUS
  <1>1. CASE UNCHANGED vars
    BY <1>1 DEF vars, TypeInv, Typed
  <1>2. ASSUME NEW u \in User, NEW op, NEW on, Began(u, op, on) PROVE TypeInv'
    <2>1. presses' \in 0..MaxPresses
      BY <1>2, ConstantsAssumption DEF Began, TypeInv
    <2> QED
      BY <1>2, <2>1 DEF Began, TypeInv, Others, Typed
  <1>3. ASSUME NEW u \in User, Repeated(u) PROVE TypeInv'
    BY <1>3 DEF Repeated, TypeInv, Others, Typed
  <1>4. ASSUME NEW u \in User, NEW n, Ended(u, n) PROVE TypeInv'
    <2>1. Typed(db')
      BY <1>4, EndOutcome DEF Grown
    <2>2. tx'[u] = NoTx /\ presses' = presses /\ Others(u)
      BY <1>4 DEF Ended
    <2> QED
      BY <2>1, <2>2 DEF TypeInv, Others, Typed
  <1> QED
    BY <1>1, <1>2, <1>3, <1>4, Moves

(* For any users, orders, lines and prices the databases keep their type:  *)
(* no confirmation takes back what was billed, so that no count goes below *)
(* zero when a method ends on a database that has moved on, and a line     *)
(* points to a reward that was made for it.                                *)
THEOREM TypeCorrect == Spec => []TypeOK
  <1>1. ASSUME NEW d, IsDb(d), Typed(d)
        PROVE  d \in Databases /\ \A l \in Line : d.reward[l] \in 0..Len(d.pays[l])
    <2>1. d.reward \in [Line -> Nat] /\ d.pays = [l \in Line |-> d.pays[l]]
      BY <1>1 DEF IsDb, Paid
    <2>2. \A l \in Line : d.pays[l] \in Seq(Rewards) /\ Len(d.pays[l]) = d.reward[l]
      BY <1>1, PaysOf DEF IsDb
    <2>3. d.pays \in [Line -> Seq(Rewards)]
      BY <2>1, <2>2
    <2>4. d = [state |-> d.state, reward |-> d.reward, pays |-> d.pays, billed |-> d.billed,
               bills |-> d.bills, services |-> d.services]
      BY <1>1 DEF IsDb, Shaped, DbFields
    <2>5. d \in Databases
      BY <1>1, <2>1, <2>3, <2>4 DEF Typed, Databases
    <2> QED
      BY <2>1, <2>2, <2>5
  <1>2. SnapshotInv /\ TypeInv => TypeOK
    <2> SUFFICES ASSUME SnapshotInv, TypeInv PROVE TypeOK
      OBVIOUS
    <2>1. db \in Databases /\ \A l \in Line : db.reward[l] \in 0..Len(db.pays[l])
      BY <1>1 DEF SnapshotInv, TypeInv
    <2>2. ASSUME NEW u \in User, tx[u] # NoTx
          PROVE  Called(tx[u].op, tx[u].on) /\ tx[u].snap \in Databases
      BY <1>1, <2>2 DEF SnapshotInv, TypeInv, Sound
    <2> QED
      BY <2>1, <2>2 DEF TypeOK, TypeInv, Called
  <1> QED
    BY <1>2, InitSnapshots, SnapshotsKept, InitTyped, TypesKept, PTL DEF Spec

-----------------------------------------------------------------------------
(* The difference between routes and invoices *)

Confirms(u) == tx[u] # NoTx /\ tx[u].op = "action_done"

(* With one confirmation of an order at a time: an order that is being     *)
(* confirmed is not done, nor was it when the snapshot was taken.          *)
ConfirmInv ==
    /\ Billed <= db.billed
    /\ \A u \in User : Confirms(u) =>
         tx[u].snap.state[tx[u].on] # "done" /\ db.state[tx[u].on] # "done"
    /\ \A u, v \in User : u # v /\ Confirms(u) /\ Confirms(v) => tx[u].on # tx[v].on

LEMMA InitConfirms == Init => ConfirmInv
  <1> SUFFICES ASSUME Init PROVE ConfirmInv
    OBVIOUS
  <1>1. db.billed = Billed /\ tx = [u \in User |-> NoTx]
    BY DEF Init
  <1> QED
    BY <1>1, ConstantsAssumption DEF ConfirmInv, Confirms

LEMMA OneOrderMore ==
    ASSUME SnapshotInv, TypeInv, NEW u \in User, NEW n, Ended(u, n),
           NEW o \in Order, db'.state[o] = "done", db.state[o] # "done"
    PROVE  Confirms(u) /\ tx[u].on = o
  <1> DEFINE s == tx[u].snap
  <1>1. /\ Outcome(tx[u].op, s, tx[u].on, n)
        /\ db'.state[o] = IF n.state[o] = s.state[o] THEN db.state[o] ELSE n.state[o]
    BY EndOutcome
  <1>2. n.state[o] = "done" /\ n.state[o] # s.state[o]
    BY <1>1
  <1> HIDE DEF s
  <1>3. tx[u].op = "action_done" /\ tx[u].on = o
    BY <1>1, <1>2 DEF Outcome
  <1> QED
    BY <1>3 DEF Confirms, Ended

LEMMA ConfirmsKept ==
    ASSUME ~ConfirmTwice
    PROVE  SnapshotInv /\ TypeInv /\ ConfirmInv /\ [Next]_vars => ConfirmInv'
  <1> SUFFICES ASSUME SnapshotInv, TypeInv, ConfirmInv, [Next]_vars PROVE ConfirmInv'
    OBVIOUS
  <1>1. CASE UNCHANGED vars
    BY <1>1 DEF vars, ConfirmInv, Confirms
  <1>2. ASSUME NEW u \in User, NEW op, NEW on, Began(u, op, on) PROVE ConfirmInv'
    <2>1. Others(u) /\ db' = db /\ tx'[u].op = op /\ tx'[u].on = on /\ tx'[u].snap = db
      BY <1>2 DEF Began
    <2>2. op = "action_done" =>
            /\ db.state[on] # "done"
            /\ \A v \in User : Confirms(v) => tx[v].on # on
      BY <1>2 DEF Began, Confirms
    <2>3. ASSUME NEW v \in User \ {u}, Confirms(v)'
          PROVE  Confirms(v) /\ tx'[v].on = tx[v].on /\ tx'[v].snap = tx[v].snap
      BY <2>1, <2>3 DEF Others, Confirms
    <2>4. ASSUME NEW v \in User, Confirms(v)'
          PROVE  tx'[v].snap.state[tx'[v].on] # "done" /\ db'.state[tx'[v].on] # "done"
      <3>1. CASE v = u
        BY <2>1, <2>2, <2>4, <3>1 DEF Confirms
      <3>2. CASE v # u
        BY <2>1, <2>3, <2>4, <3>2 DEF ConfirmInv
      <3> QED
        BY <3>1, <3>2
    <2>5. ASSUME NEW v \in User, NEW w \in User, v # w, Confirms(v)', Confirms(w)'
          PROVE  tx'[v].on # tx'[w].on
      <3>1. CASE v # u /\ w # u
        BY <2>3, <2>5, <3>1 DEF ConfirmInv
      <3>2. CASE v = u
        <4>1. op = "action_done"
          BY <2>1, <2>5, <3>2 DEF Confirms
        <4> QED
          BY <2>1, <2>2, <2>3, <2>5, <3>2, <4>1
      <3>3. CASE w = u
        <4>1. op = "action_done"
          BY <2>1, <2>5, <3>3 DEF Confirms
        <4> QED
          BY <2>1, <2>2, <2>3, <2>5, <3>3, <4>1
      <3> QED
        BY <3>1, <3>2, <3>3
    <2> QED
      BY <2>1, <2>4, <2>5 DEF ConfirmInv
  <1>3. ASSUME NEW u \in User, Repeated(u) PROVE ConfirmInv'
    <2>1. ASSUME NEW v \in User, Confirms(v)'
          PROVE  Confirms(v) /\ tx'[v].on = tx[v].on
                 /\ (tx'[v].snap = tx[v].snap \/ tx'[v].snap = db)
      BY <1>3, <2>1 DEF Repeated, Others, Confirms
    <2>2. db' = db
      BY <1>3 DEF Repeated
    <2> QED
      BY <2>1, <2>2 DEF ConfirmInv
  <1>4. ASSUME NEW u \in User, NEW n, Ended(u, n) PROVE ConfirmInv'
    <2>1. ASSUME NEW v \in User, Confirms(v)'
          PROVE  v # u /\ Confirms(v) /\ tx'[v].on = tx[v].on /\ tx'[v].snap = tx[v].snap
      BY <1>4, <2>1 DEF Ended, Others, Confirms
    <2>2. Grown(db, db')
      BY <1>4, EndOutcome
    <2>3. Billed <= db'.billed
      BY <2>2, ConstantsAssumption DEF Grown, Typed, TypeInv, ConfirmInv
    <2>4. ASSUME NEW v \in User, Confirms(v)'
          PROVE  tx'[v].snap.state[tx'[v].on] # "done" /\ db'.state[tx'[v].on] # "done"
      <3>1. v # u /\ Confirms(v) /\ tx'[v].on = tx[v].on /\ tx'[v].snap = tx[v].snap
        BY <2>1, <2>4
      <3>2. tx[v].on \in Order
        BY <3>1 DEF TypeInv, Called, Confirms, LineOps
      <3>3. Confirms(u) => tx[u].on # tx[v].on
        BY <3>1 DEF ConfirmInv
      <3>4. tx[v].snap.state[tx[v].on] # "done" /\ db.state[tx[v].on] # "done"
        BY <3>1 DEF ConfirmInv
      <3>5. db'.state[tx[v].on] # "done"
        BY <1>4, <3>2, <3>3, <3>4, OneOrderMore
      <3> QED
        BY <3>1, <3>4, <3>5
    <2>5. ASSUME NEW v \in User, NEW w \in User, v # w, Confirms(v)', Confirms(w)'
          PROVE  tx'[v].on # tx'[w].on
      BY <2>1, <2>5 DEF ConfirmInv
    <2> QED
      BY <2>3, <2>4, <2>5 DEF ConfirmInv
  <1> QED
    BY <1>1, <1>2, <1>3, <1>4, Moves

(* The lines of an order that is not done are none of the done lines.      *)
LEMMA LinesAtHand ==
    ASSUME NEW s, NEW o \in Customer, s.state[o] # "done"
    PROVE  LET lines == LinesOf(o) \cup DoneLines(s)
           IN  /\ lines \in SUBSET CustomerLines
               /\ CountAt(s, o) = Cardinality(lines) /\ PriceAt(s, o) = Total(lines)
  <1> DEFINE A == LinesOf(o)
             B == DoneLines(s)
  <1>1. A \in SUBSET Line /\ B \in SUBSET Line /\ A \cup B \in SUBSET Line
    BY SomeLines
  <1>2. A \cup B \in SUBSET CustomerLines
    BY DEF LinesOf, DoneLines, CustomerLines
  <1>3. A \cap B = {}
    BY DEF LinesOf, DoneLines
  <1>4. CountAt(s, o) = Cardinality(A) + Cardinality(B) /\ PriceAt(s, o) = Total(A) + Total(B)
    BY DEF CountAt, PriceAt
  <1> HIDE DEF A, B
  <1>5. IsFiniteSet(A) /\ IsFiniteSet(B)
    BY <1>1, TotalIs
  <1>6. Cardinality(A \cup B) = Cardinality(A) + Cardinality(B)
    <2>1. Cardinality(A \cup B) = Cardinality(A) + Cardinality(B) - Cardinality(A \cap B)
      BY <1>5, FS_Union
    <2>2. Cardinality(A \cap B) = 0
      BY <1>3, FS_EmptySet
    <2>3. Cardinality(A) \in Nat /\ Cardinality(B) \in Nat
      BY <1>5, FS_CardinalityType
    <2> QED
      BY <2>1, <2>2, <2>3
  <1>7. Total(A \cup B) = Total(A) + Total(B)
    <2>1. /\ Total(A) = SumOver(Price, A) /\ Total(B) = SumOver(Price, B)
          /\ Total(A \cup B) = SumOver(Price, A \cup B)
      BY <1>1, TotalIs
    <2>2. IsFiniteSet(Line) /\ \A l \in Line : Price[l] \in Int
      BY ConstantsAssumption
    <2> QED
      BY <1>1, <1>3, <2>1, <2>2, SumDisjoint
  <1> QED
    BY <1>2, <1>4, <1>6, <1>7 DEF A, B

(* When the other orders of the customer are done all lines are counted.   *)
LEMMA AllAtHand ==
    ASSUME NEW s, NEW o \in Customer, s.state[o] # "done",
           \A c \in Customer \ {o} : s.state[c] = "done"
    PROVE  PriceAt(s, o) = Total(CustomerLines) /\ CountAt(s, o) = Cardinality(CustomerLines)
  <1>1. LinesOf(o) \cup DoneLines(s) = CustomerLines
    BY DEF LinesOf, DoneLines, CustomerLines
  <1> QED
    BY <1>1, LinesAtHand

(* With one confirmation of an order at a time, the confirmation that      *)
(* makes the last order done, alone, leaves the prices of all routes       *)
(* billed, whatever was confirmed, cancelled or set to draft before.       *)
THEOREM LastBills == ASSUME ~ConfirmTwice PROVE Spec => DifferenceBilled
  <1> DEFINE Settled(u) ==
               /\ tx[u] # NoTx /\ tx'[u] = NoTx /\ tx[u].op = "action_done"
               /\ tx[u].on \in Customer /\ tx[u].snap = db
               /\ \A o \in Customer : db'.state[o] = "done"
               /\ Billed # 0 /\ Cardinality(CustomerLines) = Goods
               => db'.billed >= Total(CustomerLines)
  <1>1. ASSUME SnapshotInv, TypeInv, ConfirmInv, [Next]_vars
        PROVE  [\A u \in User : Settled(u)]_vars
    <2> SUFFICES ASSUME Next, NEW u \in User, tx[u] # NoTx, tx'[u] = NoTx,
                        tx[u].op = "action_done", tx[u].on \in Customer, tx[u].snap = db,
                        \A o \in Customer : db'.state[o] = "done",
                        Billed # 0, Cardinality(CustomerLines) = Goods
                 PROVE  db'.billed >= Total(CustomerLines)
      BY <1>1
    <2> DEFINE on == tx[u].on
    <2>1. PICK n : Ended(u, n)
      BY <1>1, EndsByMethod, MethodIsEnd
    <2>2. /\ Outcome("action_done", db, on, n)
          /\ db'.billed = db.billed + n.billed - db.billed
          /\ \A o \in Order : db'.state[o] = IF n.state[o] = db.state[o] THEN db.state[o]
                                             ELSE n.state[o]
      BY <1>1, <2>1, EndOutcome
    <2>3. db.state[on] # "done"
      BY <1>1 DEF ConfirmInv, Confirms
    <2>4. on \in Customer /\ Customer \subseteq Order
      BY ConstantsAssumption
    <2> HIDE DEF on
    <2>5. \A c \in Customer \ {on} : db.state[c] = "done"
      BY <2>2, <2>4 DEF Outcome
    <2>6. PriceAt(db, on) = Total(CustomerLines) /\ CountAt(db, on) = Goods
      BY <2>3, <2>4, <2>5, AllAtHand
    <2>7. db.billed \in Nat /\ n.billed \in Nat /\ db.billed # 0
      BY <1>1, <2>2, ConstantsAssumption DEF TypeInv, Typed, Outcome, Grown, ConfirmInv
    <2>8. Total(CustomerLines) \in Nat
      BY TotalIs DEF CustomerLines
    <2>9. BilledBy(db, on, n) /\ (Differs(db, on) <=> Total(CustomerLines) # db.billed)
      BY <2>2, <2>4, <2>6, <2>7 DEF Outcome, Differs
    <2>10. n.billed >= Total(CustomerLines)
      BY <2>6, <2>7, <2>8, <2>9 DEF BilledBy, Abs
    <2> QED
      BY <2>2, <2>7, <2>10
  <1>2. SnapshotInv /\ TypeInv /\ ConfirmInv /\ [Next]_vars => [\A u \in User : Settled(u)]_vars
    BY <1>1
  <1>3. Spec => [][\A u \in User : Settled(u)]_vars
    BY <1>2, InitSnapshots, SnapshotsKept, InitTyped, TypesKept, InitConfirms, ConfirmsKept, PTL
       DEF Spec
  <1> QED
    BY <1>3 DEF DifferenceBilled

(* The goods of the request are the lines of its customer orders, and no   *)
(* order comes without goods.                                              *)
WholeOrders ==
    /\ Goods = Cardinality(CustomerLines)
    /\ \A o \in Customer : LinesOf(o) # {}

(* The converse of AllAtHand: all goods are counted only if all others are *)
(* done.                                                                   *)
LEMMA AllDone ==
    ASSUME WholeOrders, NEW s, NEW o \in Customer, s.state[o] # "done", CountAt(s, o) = Goods
    PROVE  /\ \A c \in Customer \ {o} : s.state[c] = "done"
           /\ PriceAt(s, o) = Total(CustomerLines)
  <1> DEFINE lines == LinesOf(o) \cup DoneLines(s)
  <1>1. /\ lines \in SUBSET CustomerLines
        /\ CountAt(s, o) = Cardinality(lines) /\ PriceAt(s, o) = Total(lines)
    BY LinesAtHand
  <1>2. IsFiniteSet(CustomerLines)
    BY TotalIs DEF CustomerLines
  <1> HIDE DEF lines
  <1>3. lines = CustomerLines
    BY <1>1, <1>2, FS_Subset DEF WholeOrders
  <1>4. ASSUME NEW c \in Customer \ {o} PROVE s.state[c] = "done"
    <2>1. PICK l : l \in LinesOf(c)
      BY DEF WholeOrders
    <2>2. l \in Line /\ OrderOf[l] = c
      BY <2>1 DEF LinesOf
    <2>3. l \in lines
      BY <1>3, <2>2 DEF CustomerLines
    <2> QED
      BY <2>2, <2>3 DEF lines, LinesOf, DoneLines
  <1> QED
    BY <1>1, <1>3, <1>4

(* No difference is billed yet, or the one that makes the bills whole.     *)
BillOf(d) == \/ d.bills = 0 /\ d.billed = Billed
             \/ d.bills = 1 /\ d.billed = Total(CustomerLines)

(* u confirms the last order of the customer.                              *)
Completes(u) ==
    /\ Confirms(u) /\ tx[u].on \in Customer
    /\ \A c \in Customer \ {tx[u].on} : tx[u].snap.state[c] = "done"

(* One user at a time confirms the last order, for whoever begins while    *)
(* another one confirms finds that order not done; and nobody bills        *)
(* meanwhile.                                                              *)
BillInv ==
    /\ BillOf(db)
    /\ \A u \in User : tx[u] # NoTx => BillOf(tx[u].snap)
    /\ \A u \in User : Completes(u) =>
         tx[u].snap.billed = db.billed /\ tx[u].snap.bills = db.bills
    /\ \A u, v \in User : Completes(u) /\ Completes(v) => u = v

LEMMA InitBills == Init => BillInv
  <1> SUFFICES ASSUME Init PROVE BillInv
    OBVIOUS
  <1>1. db.billed = Billed /\ db.bills = 0 /\ tx = [u \in User |-> NoTx]
    BY DEF Init
  <1> QED
    BY <1>1 DEF BillInv, BillOf, Completes, Confirms

(* u looks at the database, and the others go on.                          *)
LEMMA LooksKeep ==
    ASSUME ConfirmInv, ConfirmInv', BillInv, NEW u \in User, db' = db, Others(u),
           tx'[u] # NoTx, tx'[u].snap = db
    PROVE  BillInv'
  <1>1. ASSUME NEW v \in User \ {u}, tx'[v] # NoTx
        PROVE  /\ tx[v] # NoTx /\ tx'[v].op = tx[v].op /\ tx'[v].on = tx[v].on
               /\ tx'[v].snap = tx[v].snap
    BY <1>1 DEF Others
  <1>2. ASSUME NEW v \in User \ {u}, Completes(v)' PROVE Completes(v)
    BY <1>1, <1>2 DEF Completes, Confirms
  <1>3. ASSUME NEW v \in User \ {u}, Completes(v)', Completes(u)' PROVE FALSE
    <2>1. Confirms(v)' /\ Confirms(u)' /\ tx'[v].on \in Customer
      BY <1>3 DEF Completes
    <2>2. tx'[v].on # tx'[u].on /\ db'.state[tx'[v].on] # "done"
      BY <1>3, <2>1 DEF ConfirmInv
    <2> QED
      BY <1>3, <2>1, <2>2 DEF Completes
  <1>4. \A v \in User : tx'[v] # NoTx => BillOf(tx'[v].snap)
    BY <1>1 DEF BillInv
  <1>5. \A v \in User : Completes(v)' =>
            tx'[v].snap.billed = db'.billed /\ tx'[v].snap.bills = db'.bills
    BY <1>1, <1>2 DEF BillInv, Completes, Confirms
  <1>6. \A v, w \in User : Completes(v)' /\ Completes(w)' => v = w
    BY <1>2, <1>3 DEF BillInv
  <1> QED
    BY <1>4, <1>5, <1>6 DEF BillInv, BillOf

LEMMA BillsKept ==
    ASSUME WholeOrders, Billed <= Total(CustomerLines)
    PROVE  /\ SnapshotInv /\ TypeInv /\ ConfirmInv /\ ConfirmInv' /\ BillInv /\ [Next]_vars
           => BillInv'
  <1> SUFFICES ASSUME SnapshotInv, TypeInv, ConfirmInv, ConfirmInv', BillInv, [Next]_vars
               PROVE  BillInv'
    OBVIOUS
  <1>1. CASE UNCHANGED vars
    BY <1>1 DEF vars, BillInv, BillOf, Completes, Confirms
  <1>2. ASSUME NEW u \in User, NEW op, NEW on, Began(u, op, on) PROVE BillInv'
    BY <1>2, LooksKeep DEF Began
  <1>3. ASSUME NEW u \in User, Repeated(u) PROVE BillInv'
    BY <1>3, LooksKeep DEF Repeated
  <1>4. ASSUME NEW u \in User, NEW n, Ended(u, n) PROVE BillInv'
    <2> DEFINE s  == tx[u].snap
               on == tx[u].on
               Bills == tx[u].op = "action_done" /\ Differs(s, on)
    <2>1. /\ Outcome(tx[u].op, s, on, n)
          /\ db'.billed = db.billed + n.billed - s.billed
          /\ db'.bills = db.bills + n.bills - s.bills
      BY <1>4, EndOutcome
    <2>2. tx[u] # NoTx /\ tx'[u] = NoTx /\ Others(u)
      BY <1>4 DEF Ended
    <2>3. /\ db.billed \in Nat /\ db.bills \in Nat /\ s.billed \in Nat /\ s.bills \in Nat
          /\ BillOf(db) /\ BillOf(s)
      BY <2>2 DEF TypeInv, Typed, BillInv
    <2>4. ASSUME NEW v \in User, tx'[v] # NoTx
          PROVE  /\ v # u /\ tx[v] # NoTx /\ tx'[v].op = tx[v].op /\ tx'[v].on = tx[v].on
                 /\ tx'[v].snap = tx[v].snap
      BY <2>2, <2>4 DEF Others
    <2>5. ASSUME NEW v \in User, Completes(v)' PROVE v # u /\ Completes(v)
      BY <2>4, <2>5 DEF Completes, Confirms
    <2>6. ASSUME ~Bills PROVE db'.billed = db.billed /\ db'.bills = db.bills
      <3>1. n.billed = s.billed /\ n.bills = s.bills
        BY <2>1, <2>6 DEF Outcome, BilledBy
      <3> QED
        BY <2>1, <2>3, <3>1
    <2>7. ASSUME Bills
          PROVE  Completes(u) /\ db'.bills = 1 /\ db'.billed = Total(CustomerLines)
      <3>1. Confirms(u) /\ on \in Customer /\ CountAt(s, on) = Goods
            /\ PriceAt(s, on) # s.billed
        BY <2>2, <2>7 DEF Confirms, Differs
      <3>2. s.state[on] # "done"
        BY <3>1 DEF ConfirmInv
      <3>3. /\ \A c \in Customer \ {on} : s.state[c] = "done"
            /\ PriceAt(s, on) = Total(CustomerLines)
        BY <3>1, <3>2, AllDone
      <3>4. Completes(u)
        BY <3>1, <3>3 DEF Completes
      <3>5. s.billed = db.billed /\ s.bills = db.bills
        BY <3>4 DEF BillInv
      <3>6. n.billed = s.billed + Abs(Total(CustomerLines) - s.billed) /\ n.bills = s.bills + 1
        BY <2>1, <2>7, <3>3 DEF Outcome, BilledBy
      <3>7. s.bills = 0 /\ s.billed = Billed
        BY <2>3, <3>1, <3>3 DEF BillOf
      <3>8. Total(CustomerLines) \in Nat /\ Billed \in Nat
        BY TotalIs, ConstantsAssumption DEF CustomerLines
      <3> QED
        BY <2>1, <2>3, <3>4, <3>5, <3>6, <3>7, <3>8 DEF Abs
    <2> HIDE DEF Bills
    <2>8. BillOf(db')
      BY <2>3, <2>6, <2>7 DEF BillOf
    <2>9. \A v \in User : tx'[v] # NoTx => BillOf(tx'[v].snap)
      BY <2>4 DEF BillInv
    <2>10. \A v \in User : Completes(v)' =>
              tx'[v].snap.billed = db'.billed /\ tx'[v].snap.bills = db'.bills
      <3> SUFFICES ASSUME NEW v \in User, Completes(v)'
                   PROVE  tx'[v].snap.billed = db'.billed /\ tx'[v].snap.bills = db'.bills
        OBVIOUS
      <3>1. v # u /\ Completes(v) /\ tx'[v].snap = tx[v].snap
        BY <2>4, <2>5 DEF Completes, Confirms
      <3>2. ~Bills
        BY <2>7, <3>1 DEF BillInv
      <3> QED
        BY <2>6, <3>1, <3>2 DEF BillInv
    <2>11. \A v, w \in User : Completes(v)' /\ Completes(w)' => v = w
      BY <2>5 DEF BillInv
    <2> QED
      BY <2>8, <2>9, <2>10, <2>11 DEF BillInv, BillOf
  <1> QED
    BY <1>1, <1>2, <1>3, <1>4, Moves

(* For any users, prices and number of orders, with one confirmation of an *)
(* order at a time the difference is billed at most once, though orders    *)
(* are confirmed at once, set to draft and confirmed again.                *)
THEOREM BilledOnce ==
    ASSUME ~ConfirmTwice, WholeOrders
    PROVE  Spec => []OneDifference
  <1>1. ASSUME ~(Billed <= Total(CustomerLines)) PROVE Spec => []OneDifference
    <2>1. OneDifference
      BY <1>1 DEF OneDifference
    <2> QED
      BY <2>1, PTL
  <1>2. ASSUME Billed <= Total(CustomerLines) PROVE Spec => []OneDifference
    <2>1. BillInv => OneDifference
      BY DEF BillInv, BillOf, OneDifference
    <2>2. SnapshotInv /\ TypeInv /\ ConfirmInv /\ ConfirmInv' /\ BillInv /\ [Next]_vars => BillInv'
      BY <1>2, BillsKept
    <2>3. SnapshotInv /\ TypeInv /\ ConfirmInv /\ [Next]_vars => ConfirmInv'
      BY ConfirmsKept
    <2> QED
      BY <2>1, <2>2, <2>3, InitSnapshots, SnapshotsKept, InitTyped, TypesKept, InitConfirms,
         InitBills, PTL DEF Spec
  <1> QED
    BY <1>1, <1>2

=============================================================================
