----------------------- MODULE ClearanceRequest_proofs -----------------------
(***************************************************************************)
(* Proofs about ClearanceRequest, for every number of users, invoices,     *)
(* payments and orders.  The type invariant holds whatever the forms show. *)
(* That there is one main invoice, and that the workflow implements        *)
(* RequestLifecycle, needs up-to-date forms: then every validation that    *)
(* bills also changes the state, hence writes the row of the request, and  *)
(* of two that overlap the second is refused.                              *)
(***************************************************************************)
EXTENDS ClearanceRequest, FiniteSetTheorems, TLAPS

-----------------------------------------------------------------------------
(* Types of what the methods make of a snapshot *)

(* Setting the state of a database to a state gives a database.            *)
LEMMA SetStateType ==
    ASSUME NEW s \in Databases, NEW state \in States
    PROVE  /\ SetState(s, state) \in Databases
           /\ SetState(s, state).req = [s.req EXCEPT !.state = state]
           /\ SetState(s, state).req.state = state
           /\ SetState(s, state).inv = s.inv
  BY DEF SetState, Databases, Requests

(* A new invoice has an unused number; the rest is left alone.             *)
LEMMA NewInvoiceType ==
    ASSUME NEW s \in Databases, NEW kind \in {"main", "warehouse", "extra", "order"},
           NEW n \in NewInvoice(s, kind)
    PROVE  /\ n \in Databases
           /\ n.req = s.req
           /\ \E i \in Invoice \ Existing(s) :
                 n.inv = [s.inv EXCEPT ![i] = [kind |-> kind, state |-> "draft"]]
  <1>1. PICK i \in Invoice \ Existing(s) :
            n = [s EXCEPT !.inv[i] = [kind |-> kind, state |-> "draft"]]
    BY DEF NewInvoice
  <1>2. [kind |-> kind, state |-> "draft"] \in Invoices
    BY DEF Invoices
  <1>3. n.inv = [s.inv EXCEPT ![i] = [kind |-> kind, state |-> "draft"]]
    BY <1>1 DEF Databases
  <1>4. n.inv \in [Invoice -> Invoices]
    BY <1>2, <1>3 DEF Databases
  <1> QED
    BY <1>1, <1>3, <1>4 DEF Databases

-----------------------------------------------------------------------------
(* What a result may do to the main invoices and to the state *)

Mains(d) == {i \in Invoice : d.inv[i].kind = "main"}

\* No invoice becomes or ceases to be a main invoice.
SameMains(s, n) == Mains(n) = Mains(s)

\* The one main invoice is created, where there was no invoice at all.
FirstMain(s, n) == Existing(s) = {} /\ \E i \in Invoice : Mains(n) = {i}

(* Bill leaves everything but the invoices alone, and creates at most the  *)
(* first main invoice.                                                     *)
LEMMA BillResult ==
    ASSUME NEW s \in Databases, NEW types, NEW n \in Bill(s, types)
    PROVE  /\ n \in Databases
           /\ n.req = s.req
           /\ SameMains(s, n) \/ FirstMain(s, n)
  <1>1. CASE n = s
    BY <1>1 DEF SameMains
  <1>2. CASE n # s
    <2>1. n \in NewInvoice(s, "main") /\ Existing(s) = {}
      BY <1>2 DEF Bill
    <2>2. /\ n \in Databases
          /\ n.req = s.req
          /\ \E i \in Invoice \ Existing(s) :
                n.inv = [s.inv EXCEPT ![i] = [kind |-> "main", state |-> "draft"]]
      BY <2>1, NewInvoiceType
    <2>3. PICK i \in Invoice :
                n.inv = [s.inv EXCEPT ![i] = [kind |-> "main", state |-> "draft"]]
      BY <2>2
    <2>4. \A j \in Invoice : s.inv[j].kind # "main"
      BY <2>1 DEF Existing, NoInvoice
    <2>5. Mains(n) = {i}
      BY <2>3, <2>4 DEF Mains, Databases
    <2> QED
      BY <2>1, <2>2, <2>5 DEF FirstMain
  <1> QED
    BY <1>1, <1>2

(* BillWarehouse creates no main invoice.                                  *)
LEMMA BillWarehouseResult ==
    ASSUME NEW s \in Databases, NEW n \in BillWarehouse(s)
    PROVE  /\ n \in Databases
           /\ n.req = s.req
           /\ SameMains(s, n)
  <1>1. CASE n = s
    BY <1>1 DEF SameMains
  <1>2. CASE n # s
    <2>1. n \in NewInvoice(s, "warehouse")
      BY <1>2 DEF BillWarehouse
    <2>2. /\ n \in Databases
          /\ n.req = s.req
          /\ \E i \in Invoice \ Existing(s) :
                n.inv = [s.inv EXCEPT ![i] = [kind |-> "warehouse", state |-> "draft"]]
      BY <2>1, NewInvoiceType
    <2>3. SameMains(s, n)
      BY <2>2 DEF SameMains, Mains, Existing, NoInvoice, Databases
    <2> QED
      BY <2>2, <2>3
  <1> QED
    BY <1>1, <1>2

(* action_customs_statement(): its state; the invoices stay.               *)
LEMMA CustomsStatementResult ==
    ASSUME NEW s \in Databases, NEW n \in CustomsStatement(s)
    PROVE  n \in Databases /\ n.req.state = "customs_statement" /\ SameMains(s, n)
  <1> DEFINE d == SetState(s, "customs_statement")
  <1>1. n = [d EXCEPT !.lines = s.lines \cup {"fees"}]
    BY DEF CustomsStatement
  <1>2. "customs_statement" \in States /\ s.lines \cup {"fees"} \in SUBSET LineParts
    BY DEF States, LineParts, Databases
  <1>3. d \in Databases /\ d.req.state = "customs_statement" /\ d.inv = s.inv
    BY <1>2, SetStateType
  <1> HIDE DEF d
  <1>4. n \in Databases /\ n.req = d.req /\ n.inv = d.inv
    BY <1>1, <1>2, <1>3 DEF Databases
  <1> QED
    BY <1>3, <1>4 DEF SameMains, Mains

(* action_transport(): its state, and at most the first main invoice.      *)
LEMMA TransportResult ==
    ASSUME NEW s \in Databases, NEW n \in Transport(s)
    PROVE  /\ n \in Databases
           /\ n.req.state = "transport"
           /\ SameMains(s, n) \/ FirstMain(s, n)
  <1>1. PICK b \in Bill(s, {"clearance"}) : n = SetState(b, "transport")
    BY DEF Transport
  <1>2. b \in Databases /\ b.req = s.req /\ (SameMains(s, b) \/ FirstMain(s, b))
    BY BillResult
  <1>3. "transport" \in States
    BY DEF States
  <1>4. /\ SetState(b, "transport") \in Databases
        /\ SetState(b, "transport").req.state = "transport"
        /\ SetState(b, "transport").inv = b.inv
    BY <1>2, <1>3, SetStateType
  <1>5. SameMains(s, n) \/ FirstMain(s, n)
    BY <1>1, <1>2, <1>4 DEF SameMains, FirstMain, Mains
  <1> QED
    BY <1>1, <1>4, <1>5

(* action_delivery_done(): its state, and at most the first main invoice.  *)
LEMMA DeliveryDoneResult ==
    ASSUME NEW s \in Databases, NEW n \in DeliveryDone(s)
    PROVE  /\ n \in Databases
           /\ n.req.state = "delivery_done"
           /\ SameMains(s, n) \/ FirstMain(s, n)
  <1> DEFINE m == [SetState(s, "delivery_done") EXCEPT
                     !.asked = IF HasRequirements THEN Asks ELSE s.asked]
  <1>2. m \in Databases /\ m.req.state = "delivery_done" /\ m.inv = s.inv
    <2> DEFINE d == SetState(s, "delivery_done")
    <2>1. "delivery_done" \in States
      BY DEF States
    <2>2. d \in Databases /\ d.req.state = "delivery_done" /\ d.inv = s.inv
      BY <2>1, SetStateType
    <2>3. (IF HasRequirements THEN Asks ELSE s.asked) \in SUBSET Asks
      BY DEF Databases
    <2> HIDE DEF d
    <2> QED
      BY <2>2, <2>3 DEF Databases, d
  <1>3. PICK b \in Bill(m, Types \ {"clearance"}) : n \in BillWarehouse(b)
    BY DEF DeliveryDone
  <1> HIDE DEF m
  <1>4. b \in Databases /\ b.req = m.req /\ (SameMains(m, b) \/ FirstMain(m, b))
    BY <1>2, <1>3, BillResult
  <1>5. n \in Databases /\ n.req = b.req /\ Mains(n) = Mains(b)
    BY <1>3, <1>4, BillWarehouseResult DEF SameMains
  <1>6. SameMains(s, n) \/ FirstMain(s, n)
    BY <1>2, <1>4, <1>5 DEF SameMains, FirstMain, Mains, Existing
  <1> QED
    BY <1>2, <1>4, <1>5, <1>6

(* action_cancel(): its state; every invoice keeps its kind.               *)
LEMMA CancelResult ==
    ASSUME NEW s \in Databases, NEW n \in Cancel(s)
    PROVE  n \in Databases /\ n.req.state = "canceled" /\ SameMains(s, n)
  <1> DEFINE d == SetState(s, "canceled")
             inv == [i \in Invoice |-> IF s.inv[i] = NoInvoice THEN NoInvoice
                                      ELSE [s.inv[i] EXCEPT !.state = "cancel"]]
             pay == [p \in Payment |-> IF \/ s.pay[p] = NoPayment
                                         \/ s.pay[p].order \in {o \in Order : s.ord[o] = "none"}
                                      THEN s.pay[p]
                                      ELSE [s.pay[p] EXCEPT !.state = "cancel"]]
             ord == [o \in Order |-> IF s.ord[o] = "none" THEN "none" ELSE "canceled"]
  <1>1. n = [d EXCEPT !.inv = inv, !.pay = pay, !.ord = ord]
    BY DEF Cancel
  <1>2. inv \in [Invoice -> Invoices]
    BY DEF Databases, Invoices, NoInvoice
  <1>3. pay \in [Payment -> Payments]
    BY DEF Databases, Payments, NoPayment
  <1>4. ord \in [Order -> OrderStates]
    BY DEF OrderStates
  <1>5. \A i \in Invoice : inv[i].kind = s.inv[i].kind
    BY DEF Databases, Invoices, NoInvoice
  <1>6. "canceled" \in States
    BY DEF States
  <1>7. d \in Databases /\ d.req.state = "canceled"
    BY <1>6, SetStateType
  <1> HIDE DEF d, inv, pay, ord
  <1>8. n \in Databases /\ n.req = d.req /\ n.inv = inv
    BY <1>1, <1>2, <1>3, <1>4, <1>7 DEF Databases
  <1>9. SameMains(s, n)
    BY <1>5, <1>8 DEF SameMains, Mains
  <1> QED
    BY <1>7, <1>8, <1>9

(* The wizard: the state and the main invoices stay.                       *)
LEMMA ExtraChargesResult ==
    ASSUME NEW s \in Databases, NEW n \in ExtraCharges(s)
    PROVE  n \in Databases /\ n.req.state = s.req.state /\ SameMains(s, n)
  <1>1. PICK m \in NewInvoice(s, "extra") :
            n = [m EXCEPT !.req.charged = @ \cup ({m.req.state} \cap Charges)]
    BY DEF ExtraCharges
  <1>2. /\ m \in Databases
        /\ m.req = s.req
        /\ \E i \in Invoice \ Existing(s) :
              m.inv = [s.inv EXCEPT ![i] = [kind |-> "extra", state |-> "draft"]]
    BY NewInvoiceType
  <1>3. n \in Databases /\ n.req.state = s.req.state /\ n.inv = m.inv
    BY <1>1, <1>2 DEF Databases, Requests
  <1>4. Mains(m) = Mains(s)
    BY <1>2 DEF Mains, Existing, NoInvoice, Databases
  <1> QED
    BY <1>3, <1>4 DEF SameMains, Mains

(* Whatever a method makes of a database is a database.                    *)
LEMMA ResultsType ==
    ASSUME NEW s \in Databases
    PROVE  /\ Send(s) \subseteq Databases
           /\ CustomsStatement(s) \subseteq Databases
           /\ Transport(s) \subseteq Databases
           /\ Delivery(s) \subseteq Databases
           /\ DeliveryDone(s) \subseteq Databases
           /\ Close(s) \subseteq Databases
           /\ Cancel(s) \subseteq Databases
           /\ SetToDraft(s) \subseteq Databases
           /\ ExtraCharges(s) \subseteq Databases
  <1>1. \A state \in States : SetState(s, state) \in Databases
    BY SetStateType
  <1>2. {"draft", "customs_clearance", "customs_statement", "transport",
         "delivery", "close"} \subseteq States
    BY DEF States
  <1>3. Send(s) \subseteq Databases
    BY <1>1, <1>2 DEF Send
  <1>4. /\ Delivery(s) \subseteq Databases
        /\ Close(s) \subseteq Databases
        /\ SetToDraft(s) \subseteq Databases
    BY <1>1, <1>2 DEF Delivery, Close, SetToDraft
  <1> QED
    BY <1>3, <1>4, CustomsStatementResult, TransportResult, DeliveryDoneResult, CancelResult, ExtraChargesResult

-----------------------------------------------------------------------------
(* A legal result of a method pressed on a form that showed its button: a  *)
(* database; a legal step of the state; and a main invoice only together   *)
(* with a change of the state.                                             *)

Moves(a, b) ==
    \/ b = a
    \/ b \in {"canceled", "draft"}
    \/ <<a, b>> \in Lifecycle!Forward

Legal(s, n) ==
    /\ n \in Databases
    /\ Moves(s.req.state, n.req.state)
    /\ \/ SameMains(s, n)
       \/ /\ FirstMain(s, n)
          /\ <<s.req.state, n.req.state>> \in Lifecycle!Billing

(* A method that only moves the state, legally.                            *)
LEMMA StateOnly ==
    ASSUME NEW s \in Databases, NEW state \in States, Moves(s.req.state, state)
    PROVE  Legal(s, SetState(s, state))
  BY SetStateType DEF Legal, SameMains, Mains

(* Each method, on a form that shows its button, gives a legal result.     *)
LEMMA SendLegal ==
    ASSUME NEW s \in Databases, "action_send" \in Offered(s), NEW n \in Send(s)
    PROVE  Legal(s, n)
  <1>1. s.req.state = "draft"
    BY DEF Offered, ShownIn, Fields, EditableIn
  <1>2. Moves("draft", "transport") /\ Moves("draft", "customs_clearance")
    BY DEF Moves, Lifecycle!Forward
  <1> QED
    BY <1>1, <1>2, StateOnly DEF Send, States

(* The customs statement follows the customs clearance.                    *)
LEMMA CustomsStatementLegal ==
    ASSUME NEW s \in Databases, "action_customs_statement" \in Offered(s),
           NEW n \in CustomsStatement(s)
    PROVE  Legal(s, n)
  <1>1. s.req.state = "customs_clearance"
    BY DEF Offered, ShownIn, Fields, EditableIn
  <1>2. Moves("customs_clearance", "customs_statement")
    BY DEF Moves, Lifecycle!Forward
  <1> QED
    BY <1>1, <1>2, CustomsStatementResult DEF Legal

(* The transport follows the customs statement, and bills the clearance.   *)
LEMMA TransportLegal ==
    ASSUME NEW s \in Databases, "action_transport" \in Offered(s), NEW n \in Transport(s)
    PROVE  Legal(s, n)
  <1>1. s.req.state = "customs_statement"
    BY DEF Offered, ShownIn, Fields, EditableIn
  <1>2. <<"customs_statement", "transport">> \in Lifecycle!Forward \cap Lifecycle!Billing
    BY DEF Lifecycle!Forward, Lifecycle!Billing
  <1> QED
    BY <1>1, <1>2, TransportResult DEF Legal, Moves

(* The delivery follows the transport.                                     *)
LEMMA DeliveryLegal ==
    ASSUME NEW s \in Databases, "action_delivery" \in Offered(s), NEW n \in Delivery(s)
    PROVE  Legal(s, n)
  <1>1. s.req.state = "transport"
    BY DEF Offered, ShownIn, Fields, EditableIn
  <1>2. Moves("transport", "delivery")
    BY DEF Moves, Lifecycle!Forward
  <1> QED
    BY <1>1, <1>2, StateOnly DEF Delivery, States

(* The end of the delivery follows the delivery, and bills the rest.       *)
LEMMA DeliveryDoneLegal ==
    ASSUME NEW s \in Databases, "action_delivery_done" \in Offered(s),
           NEW n \in DeliveryDone(s)
    PROVE  Legal(s, n)
  <1>1. s.req.state = "delivery"
    BY DEF Offered, ShownIn, Fields, EditableIn
  <1>2. <<"delivery", "delivery_done">> \in Lifecycle!Forward \cap Lifecycle!Billing
    BY DEF Lifecycle!Forward, Lifecycle!Billing
  <1> QED
    BY <1>1, <1>2, DeliveryDoneResult DEF Legal, Moves

(* The request is closed after its delivery.                               *)
LEMMA CloseLegal ==
    ASSUME NEW s \in Databases, "action_close" \in Offered(s), NEW n \in Close(s)
    PROVE  Legal(s, n)
  <1>1. s.req.state = "delivery_done"
    BY DEF Offered, ShownIn, Fields, EditableIn
  <1>2. Moves("delivery_done", "close")
    BY DEF Moves, Lifecycle!Forward
  <1> QED
    BY <1>1, <1>2, StateOnly DEF Close, States

(* From any state the request may be set back to draft, ...                *)
LEMMA SetToDraftLegal ==
    ASSUME NEW s \in Databases, NEW n \in SetToDraft(s)
    PROVE  Legal(s, n)
  BY StateOnly DEF SetToDraft, States, Moves

(* ... may be cancelled, ...                                               *)
LEMMA CancelLegal ==
    ASSUME NEW s \in Databases, NEW n \in Cancel(s)
    PROVE  Legal(s, n)
  BY CancelResult DEF Legal, Moves

(* ... and may be invoiced for extra charges.                              *)
LEMMA ExtraChargesLegal ==
    ASSUME NEW s \in Databases, NEW n \in ExtraCharges(s)
    PROVE  Legal(s, n)
  BY ExtraChargesResult DEF Legal, Moves

-----------------------------------------------------------------------------
(* Types of what the other people write *)

(* Rows that changed are rows.                                             *)
LEMMA ChangedType ==
    ASSUME NEW a, NEW b
    PROVE  Changed(a, b) \subseteq Rows
  BY DEF Changed, Rows

(* The snapshots of the others stay; they grow old.                        *)
LEMMA SpoiledType ==
    ASSUME TypeOK, NEW d
    PROVE  /\ Spoiled(d) \in [User -> {NoTx} \cup Transactions]
           /\ \A u \in User :
                /\ Spoiled(d)[u] # NoTx => tx[u] # NoTx
                /\ tx[u] # NoTx =>
                     /\ Spoiled(d)[u].op = tx[u].op
                     /\ Spoiled(d)[u].snap = tx[u].snap
                     /\ Spoiled(d)[u].spoiled = tx[u].spoiled \cup Changed(db, d)
  BY ChangedType DEF TypeOK, Spoiled, Transactions

(* The form offers buttons of the program.                                 *)
LEMMA OfferedType ==
    ASSUME NEW d
    PROVE  Offered(d) \subseteq Ops \cup Fields
  BY DEF Offered, Ops

(* Rows of one database merged with rows of another.                       *)
LEMMA MergeType ==
    ASSUME NEW s \in Databases, NEW n \in Databases, NEW d \in Databases
    PROVE  /\ Merge(s, n, d) \in Databases
           /\ Merge(s, n, d).req = IF n.req = s.req THEN d.req ELSE n.req
           /\ \A i \in Invoice : Merge(s, n, d).inv[i] =
                     IF n.inv[i] = s.inv[i] THEN d.inv[i] ELSE n.inv[i]
  <1> DEFINE req == IF n.req = s.req THEN d.req ELSE n.req
             lines == IF n.lines = s.lines THEN d.lines ELSE n.lines
             asked == IF n.asked = s.asked THEN d.asked ELSE n.asked
             inv == [i \in Invoice |-> IF n.inv[i] = s.inv[i] THEN d.inv[i] ELSE n.inv[i]]
             pay == [p \in Payment |-> IF n.pay[p] = s.pay[p] THEN d.pay[p] ELSE n.pay[p]]
             ord == [o \in Order |-> IF n.ord[o] = s.ord[o] THEN d.ord[o] ELSE n.ord[o]]
  <1>1. req \in Requests /\ lines \in SUBSET LineParts /\ asked \in SUBSET Asks
    BY DEF Databases
  <1>2. inv \in [Invoice -> Invoices]
    BY DEF Databases
  <1>3. pay \in [Payment -> Payments]
    BY DEF Databases
  <1>4. ord \in [Order -> OrderStates]
    BY DEF Databases
  <1>5. Merge(s, n, d) = [req |-> req, lines |-> lines, asked |-> asked,
                          inv |-> inv, pay |-> pay, ord |-> ord]
    BY DEF Merge
  <1>6. \A i \in Invoice : inv[i] = IF n.inv[i] = s.inv[i] THEN d.inv[i] ELSE n.inv[i]
    OBVIOUS
  <1> HIDE DEF lines, asked, inv, pay, ord
  <1> QED
    BY <1>1, <1>2, <1>3, <1>4, <1>5, <1>6 DEF Databases

-----------------------------------------------------------------------------
(* What a commit does, whatever the method *)

\* The transaction of u ends with result n.
Installs(u, n) ==
    /\ tx[u] # NoTx
    /\ Changed(tx[u].snap, n) \cap tx[u].spoiled = {}
    /\ db' = Merge(tx[u].snap, n, db)
    /\ tx' = [Spoiled(db') EXCEPT ![u] = NoTx]
    /\ Refresh
    /\ UNCHANGED edits

(* A method installs one of the results computed from its snapshot.        *)
LEMMA MethodInstalls ==
    ASSUME TypeOK, NEW u \in User, Method(u)
    PROVE  \E n \in Databases : Installs(u, n)
  <1>1. tx[u] # NoTx /\ tx[u].snap \in Databases
    BY DEF Method, ActionSend, ActionCustomsStatement, ActionTransport, ActionDelivery,
           ActionDeliveryDone, ActionClose, ActionCancel, ActionSetToDraft,
           CreateInvoiceAction, Commit, TypeOK, Transactions
  <1>2. CASE ActionSend(u)
    BY <1>1, <1>2, ResultsType DEF ActionSend, Commit, Installs
  <1>3. CASE ActionCustomsStatement(u)
    BY <1>1, <1>3, ResultsType DEF ActionCustomsStatement, Commit, Installs
  <1>4. CASE ActionTransport(u)
    BY <1>1, <1>4, ResultsType DEF ActionTransport, Commit, Installs
  <1>5. CASE ActionDelivery(u)
    BY <1>1, <1>5, ResultsType DEF ActionDelivery, Commit, Installs
  <1>6. CASE ActionDeliveryDone(u)
    BY <1>1, <1>6, ResultsType DEF ActionDeliveryDone, Commit, Installs
  <1>7. CASE ActionClose(u)
    BY <1>1, <1>7, ResultsType DEF ActionClose, Commit, Installs
  <1>8. CASE ActionCancel(u)
    BY <1>1, <1>8, ResultsType DEF ActionCancel, Commit, Installs
  <1>9. CASE ActionSetToDraft(u)
    BY <1>1, <1>9, ResultsType DEF ActionSetToDraft, Commit, Installs
  <1>10. CASE CreateInvoiceAction(u)
    BY <1>1, <1>10, ResultsType DEF CreateInvoiceAction, Commit, Installs
  <1> QED
    BY <1>2, <1>3, <1>4, <1>5, <1>6, <1>7, <1>8, <1>9, <1>10 DEF Method

(* Counting the orders changes no more than their number.                  *)
LEMMA RecountType ==
    ASSUME ConstantsAssumption, NEW d \in Databases
    PROVE  /\ Recount(d) \in Databases
           /\ Recount(d).req.state = d.req.state
           /\ Recount(d).inv = d.inv
  <1> DEFINE number == Cardinality({o \in Order : d.ord[o] # "none"})
  <1>1. number \in Nat
    <2>1. IsFiniteSet({o \in Order : d.ord[o] # "none"})
      BY FS_Subset DEF ConstantsAssumption
    <2> QED
      BY <2>1, FS_CardinalityType
  <1> HIDE DEF number
  <1>2. Recount(d) = [d EXCEPT !.req.orders = number]
    BY DEF Recount, number
  <1> QED
    BY <1>1, <1>2 DEF Databases, Requests

(* An invoice of an order's is no main invoice.                            *)
LEMMA OrderInvoiceResult ==
    ASSUME NEW s \in Databases, NEW n \in NewInvoice(s, "order")
    PROVE  /\ n \in Databases
           /\ n.req = s.req
           /\ Mains(n) = Mains(s)
  <1>1. /\ n \in Databases
        /\ n.req = s.req
        /\ \E i \in Invoice \ Existing(s) :
              n.inv = [s.inv EXCEPT ![i] = [kind |-> "order", state |-> "draft"]]
    BY NewInvoiceType
  <1>2. Mains(n) = Mains(s)
    BY <1>1 DEF Mains, Existing, NoInvoice, Databases
  <1> QED
    BY <1>1, <1>2

(* What other people write is a database, and it makes no invoice a main   *)
(* one; none of them moves the state of the request.                       *)
LEMMA OthersResult ==
    ASSUME ConstantsAssumption, TypeOK, Others
    PROVE  \E d \in Databases :
             /\ Edit(d)
             /\ d.req.state = db.req.state
             /\ Mains(d) = Mains(db) \/ \E i \in Invoice : Mains(d) = Mains(db) \ {i}
  <1> DEFINE Good(d) ==
             /\ d \in Databases
             /\ Edit(d)
             /\ d.req.state = db.req.state
             /\ Mains(d) = Mains(db) \/ \E i \in Invoice : Mains(d) = Mains(db) \ {i}
  <1>t. db \in Databases
    BY DEF TypeOK
  <1>1. ASSUME NEW t \in RequestTypes, EditType(t) PROVE \E d : Good(d)
    BY <1>t, <1>1 DEF EditType, Databases, Requests, ConstantsAssumption, Mains
  <1>2. ASSUME NEW part \in RowParts \cap Missing, EditRow(part) PROVE \E d : Good(d)
    <2>1. /\ Edit([db EXCEPT !.req.data = Toggle(db.req.data, part)])
          /\ Toggle(db.req.data, part) \in SUBSET RowParts
      BY <1>t, <1>2 DEF EditRow, Toggle, Databases, Requests
    <2> QED
      BY <1>t, <2>1 DEF Databases, Requests, Mains
  <1>3. ASSUME NEW part \in LineParts, EditLines(part) PROVE \E d : Good(d)
    <2>1. /\ Edit([db EXCEPT !.lines = Toggle(db.lines, part)])
          /\ Toggle(db.lines, part) \in SUBSET LineParts
      BY <1>t, <1>3 DEF EditLines, Toggle, Databases
    <2> QED
      BY <1>t, <2>1 DEF Databases, Mains
  <1>12. ASSUME NEW ask \in Asks, Answer(ask) PROVE \E d : Good(d)
    <2>1. /\ Edit([db EXCEPT !.asked = Toggle(db.asked, ask)])
          /\ Toggle(db.asked, ask) \in SUBSET Asks
      BY <1>t, <1>12 DEF Answer, Toggle, Databases
    <2> QED
      BY <1>t, <2>1 DEF Databases, Mains
  <1>4. ASSUME NEW i \in Invoice, DeleteInvoice(i) PROVE \E d : Good(d)
    BY <1>t, <1>4 DEF DeleteInvoice, Databases, Invoices, NoInvoice, Mains
  <1>5. ASSUME NEW i \in Invoice, NEW state \in {"draft", "posted", "cancel"},
               EditInvoice(i, state)
        PROVE  \E d : Good(d)
    BY <1>t, <1>5 DEF EditInvoice, Databases, Invoices, NoInvoice, Mains
  <1>6. ASSUME NEW p \in Payment, NEW o \in Order \cup {NoOrder}, CreatePayment(p, o)
        PROVE  \E d : Good(d)
    BY <1>t, <1>6 DEF CreatePayment, Databases, Payments, NoPayment, Mains
  <1>7. ASSUME NEW p \in Payment, PostPayment(p) PROVE \E d : Good(d)
    BY <1>t, <1>7 DEF PostPayment, Databases, Payments, NoPayment, Mains
  <1>8. ASSUME NEW o \in Order, CreateOrder(o) PROVE \E d : Good(d)
    <2>1. /\ Edit(Recount([db EXCEPT !.ord[o] = "draft"]))
          /\ [db EXCEPT !.ord[o] = "draft"] \in Databases
      BY <1>t, <1>8 DEF CreateOrder, Databases, OrderStates
    <2> QED
      BY <1>t, <2>1, RecountType DEF Databases, Mains
  <1>9. ASSUME NEW o \in Order, MoveOrder(o) PROVE \E d : Good(d)
    <2>1. /\ Edit(Recount([db EXCEPT !.ord[o] = "none"]))
          /\ [db EXCEPT !.ord[o] = "none"] \in Databases
      BY <1>t, <1>9 DEF MoveOrder, Databases, OrderStates
    <2> QED
      BY <1>t, <2>1, RecountType DEF Databases, Mains
  <1>10. ASSUME NEW o \in Order, NEW made \in SUBSET Order, CancelOrder(o, made)
         PROVE  \E d : Good(d)
    <2> DEFINE ord == [p \in Order |-> IF p \in made \cup {o} THEN "canceled" ELSE db.ord[p]]
               pay == [p \in Payment |-> IF db.pay[p].order \in made \cup {o}
                                         THEN [db.pay[p] EXCEPT !.state = "cancel"]
                                         ELSE db.pay[p]]
               d == [db EXCEPT !.ord = ord, !.pay = pay]
    <2>1. pay \in [Payment -> Payments]
      <3> SUFFICES ASSUME NEW p \in Payment, db.pay[p].order \in Order
                   PROVE  [db.pay[p] EXCEPT !.state = "cancel"] \in Payments
        BY <1>t DEF Databases
      <3>1. db.pay[p] \in [order : Order \cup {NoOrder},
                           state : {"none", "draft", "posted", "cancel"}]
        BY <1>t DEF Databases, Payments, NoPayment
      <3> QED
        BY <3>1 DEF Payments
    <2>2. ord \in [Order -> OrderStates]
      BY <1>t DEF Databases, OrderStates
    <2>3. Edit(d)
      BY <1>10 DEF CancelOrder
    <2> HIDE DEF ord, pay
    <2>4. d \in Databases /\ d.req = db.req /\ d.inv = db.inv
      BY <1>t, <2>1, <2>2 DEF Databases
    <2> HIDE DEF d
    <2> QED
      BY <2>3, <2>4 DEF Mains
  <1>11. ASSUME NEW o \in Order, NEW state \in {"draft", "closed"}, EditOrder(o, state)
         PROVE  \E d : Good(d)
    <2>1. OrderStates = {"none", "draft", "done", "closed", "canceled"}
      BY DEF OrderStates
    <2> QED
      BY <1>t, <1>11, <2>1 DEF EditOrder, Databases, Mains
  <1>13. ASSUME NEW o \in Order, DoneOrder(o) PROVE \E d : Good(d)
    <2>1. PICK s : /\ \E d \in Difference(db) : s \in Services(d, o)
                   /\ Edit([s EXCEPT !.ord[o] = "done"])
      BY <1>13 DEF DoneOrder
    <2>2. s \in Databases /\ s.req = db.req /\ Mains(s) = Mains(db)
      <3>1. PICK d \in Difference(db) : s \in Services(d, o)
        BY <2>1
      <3>2. d \in Databases /\ d.req = db.req /\ Mains(d) = Mains(db)
        BY <1>t, <3>1, OrderInvoiceResult DEF Difference
      <3> QED
        BY <3>1, <3>2, OrderInvoiceResult DEF Services
    <2>3. "done" \in OrderStates
      BY DEF OrderStates
    <2> DEFINE d == [s EXCEPT !.ord[o] = "done"]
    <2>4. d \in Databases /\ d.req = s.req /\ d.inv = s.inv
      BY <2>2, <2>3 DEF Databases
    <2>5. Mains(d) = Mains(s)
      BY <2>4 DEF Mains
    <2> HIDE DEF d
    <2> QED
      BY <2>1, <2>2, <2>4, <2>5 DEF d
  <1> HIDE DEF Good
  <1>14. \E d : Good(d)
    <2>1. CASE \/ \E t \in RequestTypes : EditType(t)
               \/ \E part \in RowParts \cap Missing : EditRow(part)
      BY <1>1, <1>2, <2>1
    <2>2. CASE \/ \E part \in LineParts \cap (Missing \cup {"translation"}) : EditLines(part)
               \/ \E ask \in Asks : Answer(ask)
      BY <1>3, <1>12, <2>2
    <2>3. CASE \/ \E i \in Invoice : DeleteInvoice(i)
               \/ \E i \in Invoice, state \in {"draft", "posted", "cancel"} : EditInvoice(i, state)
      BY <1>4, <1>5, <2>3
    <2>4. CASE \/ \E p \in Payment, o \in Order \cup {NoOrder} : CreatePayment(p, o)
               \/ \E p \in Payment : PostPayment(p)
      BY <1>6, <1>7, <2>4
    <2>5. CASE \E o \in Order : CreateOrder(o) \/ MoveOrder(o) \/ DoneOrder(o)
      BY <1>8, <1>9, <1>13, <2>5
    <2>6. CASE \/ \E o \in Order, state \in {"closed", "draft"} : EditOrder(o, state)
               \/ \E o \in Order, made \in SUBSET Order : CancelOrder(o, made)
      BY <1>10, <1>11, <2>6
    <2> QED
      BY <2>1, <2>2, <2>3, <2>4, <2>5, <2>6 DEF Others
  <1> QED
    BY <1>14 DEF Good

-----------------------------------------------------------------------------
(* The type invariant *)

(* It holds at the start.                                                  *)
LEMMA InitType == ASSUME ConstantsAssumption, Init PROVE TypeOK
  <1>1. PICK t \in RequestTypes :
          db = [req |-> [type |-> t, state |-> "draft", data |-> RowParts \ Missing,
                         charged |-> {}, orders |-> 0],
                lines |-> {"goods"} \ Missing,
                asked |-> {},
                inv |-> [i \in Invoice |-> NoInvoice],
                pay |-> [p \in Payment |-> NoPayment],
                ord |-> [o \in Order |-> "none"]]
    BY DEF Init
  <1>2. /\ [i \in Invoice |-> NoInvoice] \in [Invoice -> Invoices]
        /\ [p \in Payment |-> NoPayment] \in [Payment -> Payments]
        /\ [o \in Order |-> "none"] \in [Order -> OrderStates]
    BY DEF Invoices, Payments, OrderStates
  <1>3. [type |-> t, state |-> "draft", data |-> RowParts \ Missing,
         charged |-> {}, orders |-> 0] \in Requests
    BY DEF Requests, ConstantsAssumption, States
  <1>4. db \in Databases
    BY <1>1, <1>2, <1>3 DEF Databases, LineParts
  <1> QED
    BY <1>4, OfferedType DEF Init, TypeOK, ConstantsAssumption

(* After a commit of anybody's, everything still has its type.             *)
LEMMA RefreshType ==
    ASSUME TypeOK, Refresh
    PROVE  forms' \subseteq Ops \cup Fields
  BY OfferedType DEF TypeOK, Refresh

(* An edit by other people preserves the types.                            *)
LEMMA EditKeepsType ==
    ASSUME ConstantsAssumption, TypeOK, NEW d \in Databases, Edit(d)
    PROVE  TypeOK'
  <1>1. tx' \in [User -> {NoTx} \cup Transactions]
    BY SpoiledType DEF Edit
  <1>2. db' \in Databases /\ edits' \in 0..MaxEdits
    BY DEF Edit, TypeOK, ConstantsAssumption
  <1> QED
    BY <1>1, <1>2, RefreshType DEF Edit, TypeOK, Transactions

(* So does the commit of a method.                                         *)
LEMMA InstallKeepsType ==
    ASSUME TypeOK, NEW u \in User, NEW n \in Databases, Installs(u, n)
    PROVE  TypeOK'
  <1>1. tx[u].snap \in Databases /\ db \in Databases
    BY DEF Installs, TypeOK, Transactions
  <1>2. db' \in Databases
    BY <1>1, MergeType DEF Installs
  <1>3. tx' \in [User -> {NoTx} \cup Transactions]
    BY SpoiledType DEF Installs
  <1> QED
    BY <1>2, <1>3, RefreshType DEF Installs, TypeOK, Transactions

(* ... and every step.                                                     *)
LEMMA NextType == ASSUME ConstantsAssumption, TypeOK, [Next]_vars PROVE TypeOK'
  <1>1. CASE UNCHANGED vars
    BY <1>1 DEF vars, TypeOK
  <1>2. ASSUME NEW u \in User, NEW op \in Ops, Press(u, op) PROVE TypeOK'
    BY <1>2 DEF Press, TypeOK, Transactions
  <1>3. ASSUME NEW u \in User, Method(u) PROVE TypeOK'
    BY <1>3, MethodInstalls, InstallKeepsType
  <1>4. ASSUME NEW u \in User, Abort(u) PROVE TypeOK'
    BY <1>4 DEF Abort, TypeOK
  <1>5. CASE Others
    BY <1>5, OthersResult, EditKeepsType
  <1> QED
    BY <1>1, <1>2, <1>3, <1>4, <1>5 DEF Next

(* Every variable keeps its type, whatever the forms show and however the  *)
(* transactions of the users interleave: no method writes a state the      *)
(* selection field does not have, or settles extra charges nobody asks for.*)
THEOREM TypeCorrect == Spec => []TypeOK
  <1>1. Init => TypeOK
    BY InitType, ConstantsAssumption
  <1>2. TypeOK /\ [Next]_vars => TypeOK'
    BY NextType, ConstantsAssumption
  <1> QED
    BY <1>1, <1>2, PTL DEF Spec

-----------------------------------------------------------------------------
(* One main invoice *)

\* What makes it inductive: a transaction under way was begun on a form that
\* showed its button, and as long as nobody else has changed the row of the
\* request, no main invoice was created that its snapshot does not have.
Sound(t) ==
    /\ t.op \in Offered(t.snap)
    /\ \A i \in Invoice : i \notin t.spoiled => t.snap.inv[i] = db.inv[i]
    /\ "req" \notin t.spoiled => /\ t.snap.req = db.req
                                /\ Mains(db) \subseteq Mains(t.snap)

AtMostOne(d) == \A i, j \in Mains(d) : i = j

IInv ==
    /\ TypeOK
    /\ forms \subseteq Offered(db)
    /\ AtMostOne(db)
    /\ \A u \in User : tx[u] # NoTx => Sound(tx[u])

(* On up-to-date forms a method makes a legal result of its snapshot.      *)
LEMMA MethodLegal ==
    ASSUME IInv, NEW u \in User, Method(u)
    PROVE  \E n \in Databases : Installs(u, n) /\ Legal(tx[u].snap, n)
  <1>1. /\ tx[u] # NoTx
        /\ tx[u].snap \in Databases
        /\ tx[u].op \in Offered(tx[u].snap)
    BY DEF Method, ActionSend, ActionCustomsStatement, ActionTransport, ActionDelivery,
           ActionDeliveryDone, ActionClose, ActionCancel, ActionSetToDraft,
           CreateInvoiceAction, Commit, IInv, TypeOK, Transactions, Sound
  <1>t. \A n : Legal(tx[u].snap, n) => n \in Databases
    BY DEF Legal
  <1>2. CASE ActionSend(u)
    BY <1>1, <1>2, <1>t, SendLegal DEF ActionSend, Commit, Installs
  <1>3. CASE ActionCustomsStatement(u)
    BY <1>1, <1>3, <1>t, CustomsStatementLegal DEF ActionCustomsStatement, Commit, Installs
  <1>4. CASE ActionTransport(u)
    BY <1>1, <1>4, <1>t, TransportLegal DEF ActionTransport, Commit, Installs
  <1>5. CASE ActionDelivery(u)
    BY <1>1, <1>5, <1>t, DeliveryLegal DEF ActionDelivery, Commit, Installs
  <1>6. CASE ActionDeliveryDone(u)
    BY <1>1, <1>6, <1>t, DeliveryDoneLegal DEF ActionDeliveryDone, Commit, Installs
  <1>7. CASE ActionClose(u)
    BY <1>1, <1>7, <1>t, CloseLegal DEF ActionClose, Commit, Installs
  <1>8. CASE ActionCancel(u)
    BY <1>1, <1>8, <1>t, CancelLegal DEF ActionCancel, Commit, Installs
  <1>9. CASE ActionSetToDraft(u)
    BY <1>1, <1>9, <1>t, SetToDraftLegal DEF ActionSetToDraft, Commit, Installs
  <1>10. CASE CreateInvoiceAction(u)
    BY <1>1, <1>10, <1>t, ExtraChargesLegal DEF CreateInvoiceAction, Commit, Installs
  <1> QED
    BY <1>2, <1>3, <1>4, <1>5, <1>6, <1>7, <1>8, <1>9, <1>10 DEF Method

(* Rows that did not change are the same.                                  *)
LEMMA Unchanged ==
    ASSUME NEW a \in Databases, NEW b \in Databases
    PROVE  /\ "req" \notin Changed(a, b) => a.req = b.req
           /\ \A i \in Invoice : i \notin Changed(a, b) => a.inv[i] = b.inv[i]
  <1>1. "req" \notin Changed(a, b) => a["req"] = b["req"]
    BY DEF Changed
  <1>2. a["req"] = a.req /\ b["req"] = b.req
    OBVIOUS
  <1>3. \A i \in Invoice : i \notin Changed(a, b) => a.inv[i] = b.inv[i]
    BY DEF Changed
  <1> QED
    BY <1>1, <1>2, <1>3

(* What a legal commit does to the main invoices: none is created, or the  *)
(* first one is, and then the row of the request is written as well.       *)
LEMMA InstallMains ==
    ASSUME IInv, NEW u \in User, NEW n, Installs(u, n), Legal(tx[u].snap, n)
    PROVE  /\ db' \in Databases
           /\ \/ Mains(db') = Mains(db)
              \/ /\ Mains(db) = {}
                 /\ \E i \in Invoice : Mains(db') = {i}
                 /\ <<db.req.state, db'.req.state>> \in Lifecycle!Billing
           /\ Moves(db.req.state, db'.req.state)
  <1> DEFINE s == tx[u].snap
  <1>1. s \in Databases /\ db \in Databases /\ n \in Databases /\ Sound(tx[u])
    BY DEF Installs, Legal, IInv, TypeOK, Transactions
  <1>2. db' = Merge(s, n, db)
    BY DEF Installs
  <1>3. \A r : r \in Changed(s, n) => r \notin tx[u].spoiled
    BY DEF Installs
  <1> HIDE DEF s
  <1>4. /\ db' \in Databases
        /\ db'.req = IF n.req = s.req THEN db.req ELSE n.req
        /\ \A i \in Invoice : db'.inv[i] = IF n.inv[i] = s.inv[i] THEN db.inv[i] ELSE n.inv[i]
    BY <1>1, <1>2, MergeType
  <1>5. n.req # s.req => s.req = db.req /\ Mains(db) \subseteq Mains(s)
    BY <1>1, <1>3, Unchanged DEF Sound, s
  <1>6. \A i \in Invoice : n.inv[i] # s.inv[i] => s.inv[i] = db.inv[i]
    BY <1>1, <1>3, Unchanged DEF Sound, s
  <1>7. Moves(db.req.state, db'.req.state)
    BY <1>4, <1>5 DEF Legal, Moves, s
  <1>8. CASE SameMains(s, n)
    <2>1. \A i \in Invoice : (db'.inv[i].kind = "main") <=> (db.inv[i].kind = "main")
      BY <1>4, <1>6, <1>8 DEF SameMains, Mains
    <2> QED
      BY <1>4, <1>7, <2>1 DEF Mains
  <1>9. CASE FirstMain(s, n) /\ <<s.req.state, n.req.state>> \in Lifecycle!Billing
    <2>1. PICK i \in Invoice : Mains(n) = {i}
      BY <1>9 DEF FirstMain
    <2>2. n.req # s.req
      BY <1>9 DEF Lifecycle!Billing
    <2>3. Mains(s) = {}
      BY <1>9 DEF FirstMain, Existing, Mains, NoInvoice
    <2>4. Mains(db) = {} /\ db'.req = n.req /\ db.req = s.req
      BY <1>4, <1>5, <2>2, <2>3
    <2>5. n.inv[i] # s.inv[i]
      BY <2>1, <2>3 DEF Mains
    <2>6. Mains(db') = {i}
      BY <1>4, <2>1, <2>4, <2>5 DEF Mains
    <2> QED
      BY <1>4, <1>7, <1>9, <2>4, <2>6
  <1> QED
    BY <1>8, <1>9 DEF Legal, s

(* Somebody's writes, none of which adds a main invoice without writing    *)
(* the row of the request, leave every other transaction sound.            *)
LEMMA SoundKept ==
    ASSUME IInv, NEW d \in Databases, db' = d,
           "req" \in Changed(db, d) \/ Mains(d) \subseteq Mains(db),
           NEW u \in User, tx[u] # NoTx, tx'[u] = Spoiled(d)[u]
    PROVE  Sound(tx[u])'
  <1>1. /\ tx'[u].op = tx[u].op
        /\ tx'[u].snap = tx[u].snap
        /\ tx'[u].spoiled = tx[u].spoiled \cup Changed(db, d)
    BY SpoiledType DEF IInv
  <1>2. Sound(tx[u]) /\ db \in Databases
    BY DEF IInv, TypeOK
  <1>3. \A i \in Invoice : i \notin tx'[u].spoiled => tx'[u].snap.inv[i] = d.inv[i]
    BY <1>1, <1>2, Unchanged DEF Sound
  <1>4. "req" \notin tx'[u].spoiled => /\ tx'[u].snap.req = d.req
                                      /\ Mains(d) \subseteq Mains(tx'[u].snap)
    BY <1>1, <1>2, Unchanged DEF Sound
  <1> QED
    BY <1>1, <1>2, <1>3, <1>4 DEF Sound

(* The inductive invariant holds at the start ...                          *)
LEMMA InitSound == ASSUME ConstantsAssumption, Init PROVE IInv
  <1>1. TypeOK
    BY InitType
  <1>2. Mains(db) = {}
    BY DEF Init, Mains, NoInvoice
  <1>3. forms = Offered(db) /\ \A u \in User : tx[u] = NoTx
    BY DEF Init
  <1> QED
    BY <1>1, <1>2, <1>3 DEF IInv, AtMostOne

(* ... and every step on up-to-date forms preserves it.                    *)
LEMMA NextSound == ASSUME ConstantsAssumption, ~StaleForms, IInv, [Next]_vars PROVE IInv'
  <1>t. TypeOK /\ TypeOK'
    BY NextType DEF IInv
  <1>1. CASE UNCHANGED vars
    BY <1>1, <1>t DEF vars, IInv, AtMostOne, Mains, Sound
  <1>2. ASSUME NEW u \in User, NEW op \in Ops, Press(u, op) PROVE IInv'
    <2>1. op \in Offered(db) /\ db' = db /\ forms' = forms
      BY <1>2 DEF Press, IInv
    <2>2. tx' = [tx EXCEPT ![u] = [op |-> op, snap |-> db, spoiled |-> {}]]
      BY <1>2 DEF Press
    <2>3. ASSUME NEW v \in User, tx'[v] # NoTx PROVE Sound(tx[v])'
      <3>1. CASE v = u
        <4>1. tx'[v] = [op |-> op, snap |-> db, spoiled |-> {}]
          BY <2>2, <3>1, <1>t DEF TypeOK
        <4> QED
          BY <4>1, <2>1 DEF Sound, Mains
      <3>2. CASE v # u
        <4>1. tx'[v] = tx[v] /\ Sound(tx[v])
          BY <2>2, <2>3, <3>2, <1>t DEF TypeOK, IInv
        <4> QED
          BY <4>1, <2>1 DEF Sound, Mains
      <3> QED
        BY <3>1, <3>2
    <2> QED
      BY <1>t, <2>1, <2>3 DEF IInv, AtMostOne, Mains
  <1>3. ASSUME NEW u \in User, Method(u) PROVE IInv'
    <2>1. PICK n \in Databases : Installs(u, n) /\ Legal(tx[u].snap, n)
      BY <1>3, MethodLegal
    <2>2. /\ db' \in Databases
          /\ \/ Mains(db') = Mains(db)
             \/ /\ Mains(db) = {}
                /\ \E i \in Invoice : Mains(db') = {i}
                /\ <<db.req.state, db'.req.state>> \in Lifecycle!Billing
      BY <2>1, InstallMains
    <2>3. <<db.req.state, db'.req.state>> \in Lifecycle!Billing => db.req # db'.req
      BY DEF Lifecycle!Billing
    <2>4. "req" \in Changed(db, db') \/ Mains(db') \subseteq Mains(db)
      BY <1>t, <2>2, <2>3, Unchanged DEF TypeOK
    <2>5. forms' = Offered(db') /\ tx' = [Spoiled(db') EXCEPT ![u] = NoTx]
      BY <2>1 DEF Installs, Refresh
    <2>6. Spoiled(db') \in [User -> {NoTx} \cup Transactions]
      BY <1>t, SpoiledType
    <2>7. ASSUME NEW v \in User, tx'[v] # NoTx PROVE Sound(tx[v])'
      <3>1. tx'[v] = Spoiled(db')[v] /\ tx[v] # NoTx
        BY <1>t, <2>5, <2>6, <2>7, SpoiledType
      <3> QED
        BY <2>2, <2>4, <3>1, SoundKept
    <2>8. AtMostOne(db)'
      BY <2>2 DEF IInv, AtMostOne, Mains
    <2> QED
      BY <1>t, <2>5, <2>7, <2>8 DEF IInv
  <1>4. ASSUME NEW u \in User, Abort(u) PROVE IInv'
    <2>1. db' = db /\ forms' = forms /\ tx' = [tx EXCEPT ![u] = NoTx]
      BY <1>4 DEF Abort
    <2>2. ASSUME NEW v \in User, tx'[v] # NoTx PROVE Sound(tx[v])'
      <3>1. tx'[v] = tx[v] /\ Sound(tx[v])
        BY <1>t, <2>1, <2>2 DEF TypeOK, IInv
      <3> QED
        BY <2>1, <3>1 DEF Sound, Mains
    <2> QED
      BY <1>t, <2>1, <2>2 DEF IInv, AtMostOne, Mains
  <1>5. CASE Others
    <2>1. PICK d \in Databases : Edit(d) /\ Mains(d) \subseteq Mains(db)
      BY <1>5, <1>t, OthersResult
    <2>2. db' = d /\ forms' = Offered(d) /\ tx' = Spoiled(d)
      BY <2>1 DEF Edit, Refresh
    <2>3. ASSUME NEW v \in User, tx'[v] # NoTx PROVE Sound(tx[v])'
      <3>1. tx'[v] = Spoiled(d)[v] /\ tx[v] # NoTx
        BY <1>t, <2>2, <2>3, SpoiledType
      <3> QED
        BY <2>1, <2>2, <3>1, SoundKept
    <2>4. AtMostOne(db)'
      BY <2>1, <2>2 DEF IInv, AtMostOne
    <2> QED
      BY <1>t, <2>2, <2>3, <2>4 DEF IInv
  <1> QED
    BY <1>1, <1>2, <1>3, <1>4, <1>5 DEF Next

(* The inductive invariant is one.                                         *)
LEMMA AllSound == ASSUME ~StaleForms PROVE Spec => []IInv
  <1>1. Init => IInv
    BY InitSound, ConstantsAssumption
  <1>2. IInv /\ [Next]_vars => IInv'
    BY NextSound, ConstantsAssumption
  <1> QED
    BY <1>1, <1>2, PTL DEF Spec

(* A set without two elements has at most one; Cardinality counts it.      *)
LEMMA AtMostOneCounts ==
    ASSUME NEW S, \A x, y \in S : x = y
    PROVE  /\ IsFiniteSet(S)
           /\ Cardinality(S) = IF S = {} THEN 0 ELSE 1
  <1>1. CASE S = {}
    BY <1>1, FS_EmptySet
  <1>2. CASE S # {}
    <2>1. PICK x : S = {x}
      BY <1>2
    <2> QED
      BY <2>1, FS_Singleton
  <1> QED
    BY <1>1, <1>2

(* On up-to-date forms a request is billed by at most one main invoice,    *)
(* for any number of users who validate it at the same time: a validation  *)
(* that bills also writes the state, in the row of the request, and of two *)
(* such writes that overlap PostgreSQL refuses the second.                 *)
THEOREM OneMain == ASSUME ~StaleForms PROVE Spec => []OneMainInvoice
  <1>1. IInv => OneMainInvoice
    <2> SUFFICES ASSUME IInv PROVE OneMainInvoice
      OBVIOUS
    <2>1. \A i, j \in OfKind("main") : i = j
      BY DEF IInv, AtMostOne, Mains, OfKind
    <2> QED
      BY <2>1, AtMostOneCounts DEF OneMainInvoice
  <1> QED
    BY <1>1, AllSound, PTL

-----------------------------------------------------------------------------
(* The refinement *)

(* The number of bills, from the main invoices.                            *)
LEMMA BillsCount ==
    ASSUME IInv
    PROVE  Cardinality(OfKind("main")) = IF Mains(db) = {} THEN 0 ELSE 1
  <1>1. OfKind("main") = Mains(db)
    BY DEF OfKind, Mains
  <1> QED
    BY <1>1, AtMostOneCounts DEF IInv, AtMostOne

(* Every step is a step of the life cycle or leaves stage and bills alone. *)
LEMMA StepSimulation ==
    ASSUME ConstantsAssumption, IInv, IInv', [Next]_vars
    PROVE  [Lifecycle!Next]_(Lifecycle!vars)
  <1> DEFINE bills == Cardinality(OfKind("main"))
  <1>1. /\ bills = IF Mains(db) = {} THEN 0 ELSE 1
        /\ bills' = IF Mains(db') = {} THEN 0 ELSE 1
    <2>1. OfKind("main")' = Mains(db') /\ \A i, j \in Mains(db') : i = j
      BY DEF OfKind, Mains, IInv, AtMostOne
    <2>2. bills' = Cardinality(Mains(db'))
      BY <2>1
    <2> QED
      BY <2>1, <2>2, AtMostOneCounts, BillsCount
  <1> HIDE DEF bills
  <1> SUFFICES \/ db'.req.state = db.req.state /\ bills' = bills
               \/ Lifecycle!Next
    BY DEF Lifecycle!vars, bills
  <1>2. ASSUME db' = db PROVE db'.req.state = db.req.state /\ bills' = bills
    BY <1>1, <1>2
  <1>3. ASSUME NEW u \in User, Method(u)
        PROVE  \/ db'.req.state = db.req.state /\ bills' = bills
               \/ Lifecycle!Next
    <2>1. PICK n \in Databases : Installs(u, n) /\ Legal(tx[u].snap, n)
      BY <1>3, MethodLegal
    <2>2. /\ db' \in Databases
          /\ \/ Mains(db') = Mains(db)
             \/ /\ Mains(db) = {}
                /\ \E i \in Invoice : Mains(db') = {i}
                /\ <<db.req.state, db'.req.state>> \in Lifecycle!Billing
          /\ Moves(db.req.state, db'.req.state)
      BY <2>1, InstallMains
    <2>3. db'.req.state \in Lifecycle!Stages
      BY <2>2 DEF Databases, Requests, States, Lifecycle!Stages
    <2>4. CASE Mains(db') = Mains(db)
      BY <1>1, <2>2, <2>3, <2>4
         DEF Moves, Lifecycle!Next, Lifecycle!Validate, Lifecycle!Withdraw, bills
    <2>5. CASE /\ Mains(db) = {}
               /\ \E i \in Invoice : Mains(db') = {i}
               /\ <<db.req.state, db'.req.state>> \in Lifecycle!Billing
      <3>1. bills = 0 /\ bills' = 1
        BY <1>1, <2>5
      <3>2. <<db.req.state, db'.req.state>> \in Lifecycle!Forward
        BY <2>5 DEF Lifecycle!Billing, Lifecycle!Forward
      <3> QED
        BY <2>3, <2>5, <3>1, <3>2 DEF Lifecycle!Next, Lifecycle!Validate, bills
    <2> QED
      BY <2>2, <2>4, <2>5
  <1>4. CASE Others
    <2>1. PICK d \in Databases :
             /\ Edit(d)
             /\ d.req.state = db.req.state
             /\ Mains(d) = Mains(db) \/ \E i \in Invoice : Mains(d) = Mains(db) \ {i}
      BY <1>4, OthersResult DEF IInv
    <2>2. db' = d
      BY <2>1 DEF Edit
    <2>3. bills' = bills \/ bills' = 0
      BY <1>1, <2>1, <2>2
    <2> QED
      BY <2>1, <2>2, <2>3 DEF Lifecycle!Next, Lifecycle!Unbill, bills
  <1> QED
    BY <1>2, <1>3, <1>4 DEF Next, vars, Press, Abort

(* On up-to-date forms the workflow implements RequestLifecycle: the state *)
(* follows the stages of the status bar one validation at a time, however  *)
(* the methods of several users interleave, and only the two billing       *)
(* validations ever add the main invoice, once.                            *)
THEOREM Implements == ASSUME ~StaleForms PROVE Spec => LifecycleSpec
  <1>1. Init => Lifecycle!Init
    <2> SUFFICES ASSUME Init PROVE Lifecycle!Init
      OBVIOUS
    <2>1. IInv
      BY InitSound, ConstantsAssumption
    <2>2. Mains(db) = {} /\ db.req.state = "draft"
      BY DEF Init, Mains, NoInvoice
    <2> QED
      BY <2>1, <2>2, BillsCount DEF Lifecycle!Init
  <1>2. IInv /\ IInv' /\ [Next]_vars => [Lifecycle!Next]_(Lifecycle!vars)
    BY StepSimulation, ConstantsAssumption
  <1> QED
    BY <1>1, <1>2, AllSound, PTL DEF Spec, LifecycleSpec, Lifecycle!Spec

=============================================================================
