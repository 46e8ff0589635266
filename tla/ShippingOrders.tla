--------------------------- MODULE ShippingOrders ---------------------------
(***************************************************************************)
(* The shipping orders of one request (addon transportation), their lines, *)
(* the rewards of the drivers and the invoices an order makes, worked on   *)
(* by several users at once.                                               *)
(*                                                                         *)
(*  db       the committed database:                                       *)
(*             state    the state of each order                            *)
(*             reward   the reward each line points to: its place in pays  *)
(*             pays     the rewards made for each line: the method that    *)
(*                      made it, and whether it is open or cancelled       *)
(*             billed   the transport lines of the request's invoices      *)
(*             bills    how many of its invoices bill a difference         *)
(*             services how many invoices of services each order made      *)
(*  tx       per user, the method under way: its name, its order or line,  *)
(*           its snapshot of the database, the rows others changed since   *)
(*  presses  the buttons pressed so far (a bound)                          *)
(*                                                                         *)
(* Transactions are those of ClearanceRequest.  A method that PostgreSQL   *)
(* refuses is repeated by Odoo on a new snapshot, and the form is not      *)
(* asked again whether it still offers the button.                         *)
(***************************************************************************)
EXTENDS Integers, FiniteSets, Sequences, FiniteSetsExt

CONSTANTS
    User,
    Order, NoOrder,
    Customer,       \* the orders that bring goods to the customer
    Parent,         \* the yard order an order was made from
    Serviced,       \* the yard orders with services to bill
    Line,           \* the lines of the orders, each with a good of its own
    OrderOf,
    Price,          \* the price of the route of each line
    Goods,          \* how many goods the request has
    Billed,         \* the transport line of the request's invoice
    ConfirmTwice,   \* two users may confirm one order at once
    MaxPresses      \* bound: buttons pressed

ASSUME ConstantsAssumption ==
    /\ Customer \subseteq Order /\ Serviced \subseteq Order \ Customer
    /\ NoOrder \notin Order
    /\ Parent \in [Order -> (Order \ Customer) \cup {NoOrder}]
    /\ \A o \in Order : Parent[o] # NoOrder => o \in Customer
    /\ IsFiniteSet(Line) /\ OrderOf \in [Line -> Order]
    /\ Price \in [Line -> Nat] /\ Goods \in Nat /\ Billed \in Nat
    /\ ConfirmTwice \in BOOLEAN /\ MaxPresses \in Nat

VARIABLES db, tx, presses

vars == <<db, tx, presses>>

\* A user has no method under way.
NoTx == [op |-> "none"]

States == {"draft", "done", "closed", "canceled"}

OrderOps == {"action_done", "action_closed", "action_cancel", "set_to_draft",
             "create_rewards_payments"}
LineOps  == {"print_way_bill_report", "create_reward_payment"}

Rewards == [by : LineOps \cup {"create_rewards_payments"}, open : BOOLEAN]

Databases == [state : [Order -> States], reward : [Line -> Nat],
              pays : [Line -> Seq(Rewards)], billed : Nat, bills : Nat,
              services : [Order -> Nat]]

LinesOf(o) == {l \in Line : OrderOf[l] = o}

CustomerLines == {l \in Line : OrderOf[l] \in Customer}

\* The computed fields is_paid (stored with the order) and is_set_to_draft.
IsPaid(s, o)     == \E l \in LinesOf(o) : s.reward[l] # 0
IsSetToDraft(s, o) == s.state[o] = "done" /\ \E l \in LinesOf(o) : s.reward[l] = 0

Live(s, o) == s.state[o] \notin {"closed", "canceled"}

\* The buttons of the form of an order, and of its lines.
Shown(op, o) ==
    CASE op = "action_done"             -> db.state[o] = "draft"
      [] op = "action_closed"           -> db.state[o] = "done"
      [] op = "action_cancel"           -> db.state[o] # "canceled"
      [] op = "set_to_draft"            -> IsSetToDraft(db, o)
      [] op = "create_rewards_payments" -> db.state[o] = "done" /\ ~IsPaid(db, o)

LineShown(op, l) ==
    /\ Live(db, OrderOf[l])
    /\ op = "create_reward_payment" => IsPaid(db, OrderOf[l]) /\ db.reward[l] = 0

Init ==
    /\ db = [state    |-> [o \in Order |-> "draft"],
             reward   |-> [l \in Line |-> 0],
             pays     |-> [l \in Line |-> <<>>],
             billed   |-> Billed,
             bills    |-> 0,
             services |-> [o \in Order |-> 0]]
    /\ tx = [u \in User |-> NoTx]
    /\ presses = 0

-----------------------------------------------------------------------------
(* What the methods make of a snapshot *)

\* What get_routes_amounts_invoice() adds up.
Total(lines) == MapThenSumSet(LAMBDA l : Price[l], lines)

\* The lines of the done customer orders; the order's own come on top, also
\* when it is done already.
DoneLines(s) == UNION {LinesOf(o) : o \in {c \in Customer : s.state[c] = "done"}}

Abs(n) == IF n < 0 THEN -n ELSE n

\* Mutant: a difference is billed though there is none.
BillDifferenceAlways(s, o) ==
    LET lines == LinesOf(o) \cup DoneLines(s)
    IN  IF o \in Customer /\ s.billed # 0 /\ Cardinality(lines) = Goods
        THEN [s EXCEPT !.billed = @ + Abs(Total(lines) - @), !.bills = @ + 1] ELSE s

\* Mutant: the lines of the order at hand are forgotten.
BillDifferenceDone(s, o) ==
    LET price == Total(DoneLines(s))
    IN  IF o \in Customer /\ s.billed # 0 /\ price # s.billed /\ Cardinality(DoneLines(s)) = Goods
        THEN [s EXCEPT !.billed = @ + Abs(price - @), !.bills = @ + 1] ELSE s

\* The difference between the prices of the routes and what was billed.
BillDifference(s, o) ==
    LET price == Total(LinesOf(o)) + Total(DoneLines(s))
        count == Cardinality(LinesOf(o)) + Cardinality(DoneLines(s))
    IN  IF o \in Customer /\ s.billed # 0 /\ price # s.billed /\ count = Goods
        THEN [s EXCEPT !.billed = @ + Abs(price - @), !.bills = @ + 1] ELSE s

action_done(s, o) ==
    [BillDifference(s, o) EXCEPT
        !.state[o] = "done",
        !.services[o] = IF Parent[o] \in Serviced THEN @ + 1 ELSE @]

action_closed(s, o) == [s EXCEPT !.state[o] = "closed"]

set_to_draft(s, o) == [s EXCEPT !.state[o] = "draft"]

\* Mutant: the orders made from it stay.
action_cancelAlone(s, o) ==
    [s EXCEPT !.state[o] = "canceled",
              !.pays = [l \in Line |->
                          [i \in DOMAIN s.pays[l] |->
                              IF OrderOf[l] = o THEN [s.pays[l][i] EXCEPT !.open = FALSE]
                              ELSE s.pays[l][i]]]]

\* The orders made from it go with it, and the payments of them all.
action_cancel(s, o) ==
    LET gone == {p \in Order : p = o \/ Parent[p] = o}
    IN  [s EXCEPT
            !.state = [p \in Order |-> IF p \in gone THEN "canceled" ELSE s.state[p]],
            !.pays = [l \in Line |->
                        [i \in DOMAIN s.pays[l] |->
                            IF OrderOf[l] \in gone THEN [s.pays[l][i] EXCEPT !.open = FALSE]
                            ELSE s.pays[l][i]]]]

\* Mutant: the line points to a reward that is not made.
RewardNotMade(s, lines, op) ==
    [s EXCEPT !.reward = [l \in Line |-> IF l \in lines THEN Len(s.pays[l]) + 1 ELSE s.reward[l]]]

\* A new reward for each of the lines, whatever they have.
Reward(s, lines, op) ==
    [s EXCEPT !.pays = [l \in Line |-> IF l \in lines THEN Append(s.pays[l], [by |-> op, open |-> TRUE])
                                       ELSE s.pays[l]],
              !.reward = [l \in Line |-> IF l \in lines THEN Len(s.pays[l]) + 1 ELSE s.reward[l]]]

create_rewards_payments(s, o) == Reward(s, LinesOf(o), "create_rewards_payments")

create_reward_payment(s, l) == Reward(s, {l}, "create_reward_payment")

\* Mutant: whatever reward the line has.
print_way_bill_reportAgain(s, l) == Reward(s, {l}, "print_way_bill_report")

print_way_bill_report(s, l) ==
    IF s.reward[l] = 0 THEN Reward(s, {l}, "print_way_bill_report") ELSE s

-----------------------------------------------------------------------------
(* Transactions *)

\* The rows in which two databases differ: orders, lines, and rewards that
\* are in both.
Changed(a, b) ==
    {o \in Order : a.state[o] # b.state[o] \/ IsPaid(a, o) # IsPaid(b, o)}
    \cup {l \in Line : a.reward[l] # b.reward[l]}
    \cup {p \in UNION {{<<l, i>> : i \in DOMAIN a.pays[l] \cap DOMAIN b.pays[l]} : l \in Line} :
            a.pays[p[1]][p[2]] # b.pays[p[1]][p[2]]}

\* The orders whose state a method writes, be it the state they have.
Written(op, on) ==
    CASE op = "action_cancel" -> {p \in Order : p = on \/ Parent[p] = on}
      [] op \in {"action_done", "action_closed", "set_to_draft"} -> {on}
      [] OTHER -> {}

\* d with what n, made from the snapshot s, writes and inserts.
Merge(s, n, d) ==
    [state    |-> [o \in Order |-> IF n.state[o] = s.state[o] THEN d.state[o] ELSE n.state[o]],
     reward   |-> [l \in Line |-> IF n.reward[l] = s.reward[l] THEN d.reward[l] ELSE n.reward[l]],
     pays     |-> [l \in Line |->
                    [i \in DOMAIN n.pays[l] \cup DOMAIN d.pays[l] |->
                        IF i \notin DOMAIN n.pays[l] \/ (i \in DOMAIN s.pays[l] /\ n.pays[l][i] = s.pays[l][i])
                        THEN d.pays[l][i] ELSE n.pays[l][i]]],
     billed   |-> d.billed + n.billed - s.billed,
     bills    |-> d.bills + n.bills - s.bills,
     services |-> [o \in Order |-> d.services[o] + n.services[o] - s.services[o]]]

\* A user presses a button that the form of the order offers.
Press(u, op, on) ==
    /\ tx[u] = NoTx
    /\ presses < MaxPresses
    /\ op = "action_done" /\ ~ConfirmTwice =>
         \A v \in {w \in User : tx[w] # NoTx} : <<tx[v].op, tx[v].on>> # <<op, on>>
    /\ tx' = [tx EXCEPT ![u] = [op |-> op, on |-> on, snap |-> db, spoiled |-> {}]]
    /\ presses' = presses + 1
    /\ UNCHANGED db

\* The method of u ends; the snapshots of the others grow old.
Commit(u, op, Result(_, _)) ==
    /\ tx[u] # NoTx
    /\ tx[u].op = op
    /\ LET s == tx[u].snap
           n == Result(s, tx[u].on)
           rows == Written(op, tx[u].on) \cup Changed(s, n)
       IN  /\ rows \cap tx[u].spoiled = {}
           /\ db' = Merge(s, n, db)
           /\ tx' = [v \in User |->
                        IF v = u \/ tx[v] = NoTx THEN NoTx
                        ELSE [tx[v] EXCEPT !.spoiled = @ \cup rows]]
    /\ UNCHANGED presses

\* Odoo repeats a method that lost a row to another one.
Repeat(u) ==
    /\ tx[u] # NoTx
    /\ tx[u].spoiled # {}
    /\ tx' = [tx EXCEPT ![u].snap = db, ![u].spoiled = {}]
    /\ UNCHANGED <<db, presses>>

Method(u) ==
    \/ Commit(u, "action_done", action_done)
    \/ Commit(u, "action_closed", action_closed)
    \/ Commit(u, "action_cancel", action_cancel)
    \/ Commit(u, "set_to_draft", set_to_draft)
    \/ Commit(u, "create_rewards_payments", create_rewards_payments)
    \/ Commit(u, "create_reward_payment", create_reward_payment)
    \/ Commit(u, "print_way_bill_report", print_way_bill_report)

Next ==
    \E u \in User :
        \/ \E op \in OrderOps, o \in Order : Shown(op, o) /\ Press(u, op, o)
        \/ \E op \in LineOps, l \in Line : LineShown(op, l) /\ Press(u, op, l)
        \/ Method(u)
        \/ Repeat(u)

Spec == Init /\ [][Next]_vars

-----------------------------------------------------------------------------
(* Properties *)

TypeOK ==
    /\ db \in Databases
    /\ \A l \in Line : db.reward[l] \in 0..Len(db.pays[l])
    /\ \A u \in User : tx[u] # NoTx =>
         /\ \/ tx[u].op \in OrderOps /\ tx[u].on \in Order
            \/ tx[u].op \in LineOps /\ tx[u].on \in Line
         /\ tx[u].snap \in Databases
    /\ presses \in 0..MaxPresses

(* The difference between routes and invoices is billed once, though the   *)
(* orders are confirmed at once, set to draft and confirmed again: the     *)
(* orders that matter are rows that the confirmations write (action_done). *)
OneDifference == Billed <= Total(CustomerLines) => db.bills <= 1

(* A way bill rewards the driver of a line that has no reward yet, however *)
(* many way bills are printed at once (print_way_bill_report).             *)
WayBillRewardsOnce ==
    \A l \in Line : \A i \in DOMAIN db.pays[l] :
        db.pays[l][i].by = "print_way_bill_report" => i = 1

(* When the cancellation of an order ends, it and the orders made from it  *)
(* are cancelled, those confirmed meanwhile too, and no reward of theirs   *)
(* that its snapshot had is open (action_cancel).                          *)
CancelTakesAll ==
    [][ \A u \in User : tx[u] # NoTx /\ tx'[u] = NoTx /\ tx[u].op = "action_cancel" =>
          \A o \in Order : o = tx[u].on \/ Parent[o] = tx[u].on =>
              /\ db'.state[o] = "canceled"
              /\ \A l \in LinesOf(o) : \A i \in DOMAIN tx[u].snap.pays[l] :
                     ~db'.pays[l][i].open ]_vars

(* "create invoice if there is difference between routes prices and        *)
(* precedent invoice" (transportation.py:665): the confirmation that makes *)
(* the last order done leaves the prices of the routes billed, if no other *)
(* method ends meanwhile.  (Of two that confirm the last orders at once    *)
(* neither sees the other's order done, and nobody bills.)                 *)
DifferenceBilled ==
    [][ \A u \in User :
          /\ tx[u] # NoTx /\ tx'[u] = NoTx /\ tx[u].op = "action_done"
          /\ tx[u].on \in Customer /\ tx[u].snap = db
          /\ \A o \in Customer : db'.state[o] = "done"
          /\ Billed # 0 /\ Cardinality(CustomerLines) = Goods
          => db'.billed >= Total(CustomerLines) ]_vars

=============================================================================
