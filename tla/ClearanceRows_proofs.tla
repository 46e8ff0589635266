------------------------ MODULE ClearanceRows_proofs ------------------------
(***************************************************************************)
(* Proofs about ClearanceRequest that rest on which rows a method writes:  *)
(* what PostgreSQL refuses is a write to a row that somebody else changed, *)
(* so a row nobody changed is still the one of the snapshot.  The number   *)
(* of orders is stored in the row of the request, so that an order that    *)
(* comes or goes puts itself in conflict with every validation.  Where a   *)
(* theorem does not ask for up-to-date forms it holds on forms of any age. *)
(***************************************************************************)
EXTENDS ClearanceRequest_proofs

-----------------------------------------------------------------------------
(* The orders of a request, and their stored number *)

Ords(d) == {o \in Order : d.ord[o] # "none"}

Counted(d) == d.req.orders = Cardinality(Ords(d))

\* A cancelled order stays, and either no order comes or goes, or the stored
\* number of orders changes with them.
Orderly(a, b) ==
    /\ \A o \in Order : a.ord[o] = "canceled" => b.ord[o] = "canceled"
    /\ \/ Ords(b) = Ords(a) /\ b.req.orders = a.req.orders
       \/ Counted(b) /\ b.req.orders # a.req.orders

\* What a method does to the orders: cancel some at most.
OrdersKept(s, n) ==
    /\ n.req.orders = s.req.orders
    /\ \A o \in Order : \/ n.ord[o] = s.ord[o]
                        \/ s.ord[o] # "none" /\ n.ord[o] = "canceled"

(* Setting the state leaves the other columns and rows alone.              *)
LEMMA SetStateRest ==
    ASSUME NEW s \in Databases, NEW state \in States
    PROVE  /\ SetState(s, state) \in Databases
           /\ SetState(s, state).req.state = state
           /\ SetState(s, state).req.type = s.req.type
           /\ SetState(s, state).req.data = s.req.data
           /\ SetState(s, state).req.orders = s.req.orders
           /\ SetState(s, state).ord = s.ord
           /\ SetState(s, state).inv = s.inv
  BY DEF SetState, Databases, Requests

(* A new invoice leaves the orders alone.                                  *)
LEMMA NewInvoiceRest ==
    ASSUME NEW s \in Databases, NEW kind \in {"main", "warehouse", "extra", "order"},
           NEW n \in NewInvoice(s, kind)
    PROVE  n \in Databases /\ n.req = s.req /\ n.ord = s.ord
  <1>1. n \in Databases /\ n.req = s.req
    BY NewInvoiceType
  <1>2. n.ord = s.ord
    BY DEF NewInvoice, Databases
  <1> QED
    BY <1>1, <1>2

(* So does the main invoice of a validation, ...                           *)
LEMMA BillRest ==
    ASSUME NEW s \in Databases, NEW types, NEW n \in Bill(s, types)
    PROVE  n \in Databases /\ n.req = s.req /\ n.ord = s.ord
  BY NewInvoiceRest DEF Bill

(* ... and the warehousing invoice.                                        *)
LEMMA BillWarehouseRest ==
    ASSUME NEW s \in Databases, NEW n \in BillWarehouse(s)
    PROVE  n \in Databases /\ n.req = s.req /\ n.ord = s.ord
  BY NewInvoiceRest DEF BillWarehouse

-----------------------------------------------------------------------------
(* What a method makes of its snapshot *)

Warehouses(d) == {i \in Invoice : d.inv[i].kind = "warehouse"}

\* The one warehousing invoice is created, together with the state.
FirstWarehouse(s, n) ==
    /\ Warehouses(s) = {}
    /\ \E i \in Invoice : Warehouses(n) = {i}
    /\ n.req.state = "delivery_done"

\* Whoever moves the request to delivery saw an order of it, ...
DeliveredWithOrder(s, n) ==
    n.req.state = "delivery" =>
        \/ s.req.state = "delivery"
        \/ n.ord = s.ord /\ (s.req.type = "other_service" \/ Ords(s) # {})

\* ... and whoever moves a clearance to transport saw the agent and the
\* declaration, if he pressed on a form that showed the button.
TransportedWithData(s, n) ==
    n.req.state = "transport" /\ n.req.type = "clearance" =>
        \/ s.req.state # "customs_statement"
        \/ {"agent", "declaration"} \subseteq n.req.data

\* The methods that move the request to transport, or bill the warehousing.
Effect(op, s, n) ==
    /\ n \in Databases
    /\ OrdersKept(s, n)
    /\ n.req.type = s.req.type
    /\ DeliveredWithOrder(s, n)
    /\ n.req.state = s.req.state \/ TransportedWithData(s, n)
    /\ \/ n.req.state # "transport"
       \/ n.req.state = s.req.state
       \/ n.req.type # "clearance"
       \/ op = "action_transport"
    /\ \/ Warehouses(n) = Warehouses(s)
       \/ FirstWarehouse(s, n) /\ op = "action_delivery_done"
    /\ op = "action_cancel" => n \in Cancel(s)

(* A method that only moves the state.                                     *)
LEMMA StateOnlyEffect ==
    ASSUME NEW s \in Databases, NEW state \in States, NEW op,
           op # "action_cancel",
           state = "delivery" => s.req.type = "other_service" \/ Ords(s) # {},
           state = "transport" => s.req.type # "clearance"
    PROVE  Effect(op, s, SetState(s, state))
  <1> DEFINE n == SetState(s, state)
  <1>1. /\ n \in Databases
        /\ n.req.state = state
        /\ n.req.type = s.req.type
        /\ n.req.orders = s.req.orders
        /\ n.ord = s.ord
        /\ n.inv = s.inv
    BY SetStateRest
  <1> HIDE DEF n
  <1>2. OrdersKept(s, n) /\ Warehouses(n) = Warehouses(s)
    BY <1>1 DEF OrdersKept, Warehouses
  <1>3. DeliveredWithOrder(s, n) /\ TransportedWithData(s, n)
    BY <1>1 DEF DeliveredWithOrder, TransportedWithData
  <1>4. n.req.state # "transport" \/ n.req.type # "clearance"
    BY <1>1
  <1>5. Effect(op, s, n)
    BY <1>1, <1>2, <1>3, <1>4 DEF Effect
  <1> QED
    BY <1>5 DEF n

(* action_send(): a clearance is not sent to transport.                    *)
LEMMA SendEffect ==
    ASSUME NEW s \in Databases, NEW n \in Send(s)
    PROVE  Effect("action_send", s, n)
  BY StateOnlyEffect DEF Send, States

(* action_customs_statement(): the fees are added.                         *)
LEMMA CustomsStatementEffect ==
    ASSUME NEW s \in Databases, NEW n \in CustomsStatement(s)
    PROVE  Effect("action_customs_statement", s, n)
  <1> DEFINE d == SetState(s, "customs_statement")
  <1>1. n = [d EXCEPT !.lines = s.lines \cup {"fees"}]
    BY DEF CustomsStatement
  <1>2. s.lines \cup {"fees"} \in SUBSET LineParts
    BY DEF LineParts, Databases
  <1>3. Effect("action_customs_statement", s, d)
    BY StateOnlyEffect DEF States
  <1>4. d.req.state = "customs_statement"
    BY SetStateRest DEF States
  <1> HIDE DEF d
  <1>5. n \in Databases /\ n.req = d.req /\ n.inv = d.inv /\ n.ord = d.ord
    BY <1>1, <1>2, <1>3 DEF Databases, Effect
  <1>6. OrdersKept(s, n) /\ Warehouses(n) = Warehouses(s)
    BY <1>3, <1>4, <1>5 DEF Effect, OrdersKept, Warehouses, FirstWarehouse
  <1> QED
    BY <1>3, <1>4, <1>5, <1>6 DEF Effect, DeliveredWithOrder, TransportedWithData

(* action_transport(): pressed on the customs statement, it finds the      *)
(* agent and the declaration; its invoice is no warehousing invoice.       *)
LEMMA TransportEffect ==
    ASSUME NEW s \in Databases, NEW n \in Transport(s)
    PROVE  Effect("action_transport", s, n)
  <1>1. PICK b \in Bill(s, {"clearance"}) : n = SetState(b, "transport")
    BY DEF Transport
  <1>2. b \in Databases /\ b.req = s.req /\ b.ord = s.ord
    BY BillRest
  <1>3. /\ n \in Databases
        /\ n.req.state = "transport"
        /\ n.req.type = s.req.type
        /\ n.req.data = s.req.data
        /\ n.req.orders = s.req.orders
        /\ n.ord = s.ord
        /\ n.inv = b.inv
    BY <1>1, <1>2, SetStateRest DEF States
  <1>4. Warehouses(b) = Warehouses(s)
    <2>1. CASE b = s
      BY <2>1
    <2>2. CASE b \in NewInvoice(s, "main")
      <3>1. \E i \in Invoice \ Existing(s) :
                b.inv = [s.inv EXCEPT ![i] = [kind |-> "main", state |-> "draft"]]
        BY <2>2, NewInvoiceType
      <3> QED
        BY <3>1 DEF Warehouses, Existing, NoInvoice, Databases
    <2> QED
      BY <2>1, <2>2 DEF Bill
  <1>5. ~IsNotData(s)
    BY DEF Transport
  <1>6. TransportedWithData(s, n)
    BY <1>3, <1>5 DEF TransportedWithData, IsNotData
  <1> QED
    BY <1>3, <1>4, <1>6 DEF Effect, OrdersKept, Warehouses, DeliveredWithOrder

(* action_delivery(): the request has an order.                            *)
LEMMA DeliveryEffect ==
    ASSUME NEW s \in Databases, NEW n \in Delivery(s)
    PROVE  Effect("action_delivery", s, n)
  <1>1. n = SetState(s, "delivery") /\ (s.req.type = "other_service" \/ Ords(s) # {})
    BY DEF Delivery, Ords
  <1> QED
    BY <1>1, StateOnlyEffect DEF States

(* action_delivery_done(): at most the first warehousing invoice.          *)
LEMMA DeliveryDoneEffect ==
    ASSUME NEW s \in Databases, NEW n \in DeliveryDone(s)
    PROVE  Effect("action_delivery_done", s, n)
  <1> DEFINE d == SetState(s, "delivery_done")
             m == [d EXCEPT !.asked = IF HasRequirements THEN Asks ELSE s.asked]
  <1>1. /\ d \in Databases
        /\ d.req.state = "delivery_done"
        /\ d.req.type = s.req.type
        /\ d.req.orders = s.req.orders
        /\ d.ord = s.ord
        /\ d.inv = s.inv
    BY SetStateRest DEF States
  <1>2. (IF HasRequirements THEN Asks ELSE s.asked) \in SUBSET Asks
    BY DEF Databases
  <1>3. m \in Databases /\ m.req = d.req /\ m.ord = d.ord /\ m.inv = d.inv
    <2> HIDE DEF d
    <2> QED
      BY <1>1, <1>2 DEF Databases
  <1>4. PICK b \in Bill(m, Types \ {"clearance"}) : n \in BillWarehouse(b)
    BY DEF DeliveryDone
  <1> HIDE DEF d, m
  <1>5. b \in Databases /\ b.req = m.req /\ b.ord = m.ord
    BY <1>3, BillRest
  <1>6. n \in Databases /\ n.req = b.req /\ n.ord = b.ord
    BY <1>4, <1>5, BillWarehouseRest
  <1>7. Warehouses(b) = Warehouses(s)
    <2>1. CASE b = m
      BY <1>1, <1>3, <2>1 DEF Warehouses
    <2>2. CASE b \in NewInvoice(m, "main")
      <3>1. \E i \in Invoice \ Existing(m) :
                b.inv = [m.inv EXCEPT ![i] = [kind |-> "main", state |-> "draft"]]
        BY <1>3, <2>2, NewInvoiceType
      <3>2. Warehouses(b) = Warehouses(m)
        BY <1>3, <3>1 DEF Warehouses, Existing, NoInvoice, Databases
      <3> QED
        BY <1>1, <1>3, <3>2 DEF Warehouses
    <2> QED
      BY <2>1, <2>2 DEF Bill
  <1>8. Warehouses(n) = Warehouses(s) \/ FirstWarehouse(s, n)
    <2>1. CASE n = b
      BY <1>7, <2>1
    <2>2. CASE n \in NewInvoice(b, "warehouse") /\ \A i \in Existing(b) : b.inv[i].kind # "warehouse"
      <3>1. PICK i \in Invoice \ Existing(b) :
                n.inv = [b.inv EXCEPT ![i] = [kind |-> "warehouse", state |-> "draft"]]
        BY <1>5, <2>2, NewInvoiceType
      <3>2. Warehouses(b) = {}
        BY <2>2 DEF Warehouses, Existing, NoInvoice
      <3>3. Warehouses(n) = {i}
        BY <1>5, <3>1, <3>2 DEF Warehouses, Databases
      <3> QED
        BY <1>1, <1>3, <1>5, <1>6, <1>7, <3>2, <3>3 DEF FirstWarehouse
    <2> QED
      BY <1>4, <2>1, <2>2 DEF BillWarehouse
  <1> QED
    BY <1>1, <1>3, <1>5, <1>6, <1>8
       DEF Effect, OrdersKept, DeliveredWithOrder, TransportedWithData

(* action_close() and set_to_draft() only move the state.                  *)
LEMMA CloseEffect ==
    ASSUME NEW s \in Databases, NEW n \in Close(s)
    PROVE  Effect("action_close", s, n)
  BY StateOnlyEffect DEF Close, States

(* From any state.                                                         *)
LEMMA SetToDraftEffect ==
    ASSUME NEW s \in Databases, NEW n \in SetToDraft(s)
    PROVE  Effect("set_to_draft", s, n)
  BY StateOnlyEffect DEF SetToDraft, States

\* What action_cancel() writes: no order is left open, and the invoices and
\* payments that were open are cancelled.
CancelsAll(s, n) ==
    /\ n.req = [s.req EXCEPT !.state = "canceled"]
    /\ \A o \in Order : n.ord[o] = IF s.ord[o] = "none" THEN "none" ELSE "canceled"
    /\ \A i \in Invoice :
         /\ n.inv[i].kind = s.inv[i].kind
         /\ s.inv[i].state \in {"draft", "posted"} => n.inv[i].state = "cancel"
    /\ \A p \in Payment :
         /\ s.pay[p].state \in {"draft", "posted"}
         /\ \A o \in Order : s.ord[o] = "none" => s.pay[p].order # o
         => n.pay[p].state = "cancel"

(* action_cancel() writes all of it.                                       *)
LEMMA CancelWrites ==
    ASSUME NEW s \in Databases, NEW n \in Cancel(s)
    PROVE  CancelsAll(s, n)
  <1> DEFINE d == SetState(s, "canceled")
             inv == [i \in Invoice |-> IF s.inv[i] = NoInvoice THEN NoInvoice
                                      ELSE [s.inv[i] EXCEPT !.state = "cancel"]]
             pay == [p \in Payment |-> IF \/ s.pay[p] = NoPayment
                                         \/ s.pay[p].order \in {o \in Order : s.ord[o] = "none"}
                                      THEN s.pay[p]
                                      ELSE [s.pay[p] EXCEPT !.state = "cancel"]]
             ord == [o \in Order |-> IF s.ord[o] = "none" THEN "none" ELSE "canceled"]
  <1>1. n = [d EXCEPT !.inv = inv, !.pay = pay, !.ord = ord]
    BY DEF Cancel
  <1>2. d \in Databases /\ d.req = [s.req EXCEPT !.state = "canceled"]
    BY SetStateType DEF States
  <1>3. \A i \in Invoice :
           /\ inv[i].kind = s.inv[i].kind
           /\ s.inv[i].state \in {"draft", "posted"} => inv[i].state = "cancel"
    BY DEF Databases, Invoices, NoInvoice
  <1>4. ASSUME NEW p \in Payment, s.pay[p].state \in {"draft", "posted"},
               \A o \in Order : s.ord[o] = "none" => s.pay[p].order # o
        PROVE  pay[p].state = "cancel"
    <2>1. s.pay[p] \in Payments /\ s.pay[p] # NoPayment
      BY <1>4 DEF Databases, NoPayment
    <2>2. pay[p] = [s.pay[p] EXCEPT !.state = "cancel"]
      BY <1>4, <2>1
    <2> HIDE DEF pay
    <2> QED
      BY <2>1, <2>2 DEF Payments
  <1>5. \A o \in Order : ord[o] = IF s.ord[o] = "none" THEN "none" ELSE "canceled"
    OBVIOUS
  <1> HIDE DEF d, inv, pay, ord
  <1>6. n.req = d.req /\ n.inv = inv /\ n.pay = pay /\ n.ord = ord
    BY <1>1, <1>2 DEF Databases
  <1> QED
    BY <1>2, <1>3, <1>4, <1>5, <1>6 DEF CancelsAll

(* action_cancel(): the orders it finds are cancelled.                     *)
LEMMA CancelEffect ==
    ASSUME NEW s \in Databases, NEW n \in Cancel(s)
    PROVE  Effect("action_cancel", s, n)
  <1>1. n \in Databases /\ n.req.state = "canceled"
    BY CancelResult
  <1>w. /\ n.req = [s.req EXCEPT !.state = "canceled"]
        /\ \A o \in Order : n.ord[o] = IF s.ord[o] = "none" THEN "none" ELSE "canceled"
        /\ \A i \in Invoice : n.inv[i].kind = s.inv[i].kind
    BY CancelWrites DEF CancelsAll
  <1>2. n.req.orders = s.req.orders /\ n.req.type = s.req.type
    <2>1. s.req \in Requests
      BY DEF Databases
    <2> QED
      BY <1>w, <2>1 DEF Requests
  <1>3. OrdersKept(s, n)
    BY <1>w, <1>2 DEF OrdersKept
  <1>4. Warehouses(n) = Warehouses(s)
    BY <1>w DEF Warehouses
  <1> QED
    BY <1>1, <1>2, <1>3, <1>4 DEF Effect, DeliveredWithOrder, TransportedWithData

(* The wizard: its invoice is no warehousing invoice.                      *)
LEMMA ExtraChargesEffect ==
    ASSUME NEW s \in Databases, NEW n \in ExtraCharges(s)
    PROVE  Effect("create_invoice_action", s, n)
  <1>1. PICK m \in NewInvoice(s, "extra") :
            n = [m EXCEPT !.req.charged = @ \cup ({m.req.state} \cap Charges)]
    BY DEF ExtraCharges
  <1>2. /\ m \in Databases
        /\ m.req = s.req
        /\ m.ord = s.ord
        /\ \E i \in Invoice \ Existing(s) :
              m.inv = [s.inv EXCEPT ![i] = [kind |-> "extra", state |-> "draft"]]
    BY NewInvoiceType, NewInvoiceRest
  <1>3. /\ n \in Databases
        /\ n.req.state = s.req.state
        /\ n.req.type = s.req.type
        /\ n.req.orders = s.req.orders
        /\ n.inv = m.inv
        /\ n.ord = s.ord
    BY <1>1, <1>2 DEF Databases, Requests
  <1>4. Warehouses(n) = Warehouses(s)
    BY <1>2, <1>3 DEF Warehouses, Existing, NoInvoice, Databases
  <1> QED
    BY <1>3, <1>4 DEF Effect, OrdersKept, DeliveredWithOrder

(* A method installs a result with its effect.                             *)
LEMMA MethodEffect ==
    ASSUME TypeOK, NEW u \in User, Method(u)
    PROVE  \E n \in Databases : Installs(u, n) /\ Effect(tx[u].op, tx[u].snap, n)
  <1>1. tx[u] # NoTx /\ tx[u].snap \in Databases
    BY DEF Method, ActionSend, ActionCustomsStatement, ActionTransport, ActionDelivery,
           ActionDeliveryDone, ActionClose, ActionCancel, ActionSetToDraft,
           CreateInvoiceAction, Commit, TypeOK, Transactions
  <1>t. \A op, s, n : Effect(op, s, n) => n \in Databases
    BY DEF Effect
  <1>2. CASE ActionSend(u)
    BY <1>1, <1>2, <1>t, SendEffect DEF ActionSend, Commit, Installs
  <1>3. CASE ActionCustomsStatement(u)
    BY <1>1, <1>3, <1>t, CustomsStatementEffect DEF ActionCustomsStatement, Commit, Installs
  <1>4. CASE ActionTransport(u)
    BY <1>1, <1>4, <1>t, TransportEffect DEF ActionTransport, Commit, Installs
  <1>5. CASE ActionDelivery(u)
    BY <1>1, <1>5, <1>t, DeliveryEffect DEF ActionDelivery, Commit, Installs
  <1>6. CASE ActionDeliveryDone(u)
    BY <1>1, <1>6, <1>t, DeliveryDoneEffect DEF ActionDeliveryDone, Commit, Installs
  <1>7. CASE ActionClose(u)
    BY <1>1, <1>7, <1>t, CloseEffect DEF ActionClose, Commit, Installs
  <1>8. CASE ActionCancel(u)
    BY <1>1, <1>8, <1>t, CancelEffect DEF ActionCancel, Commit, Installs
  <1>9. CASE ActionSetToDraft(u)
    BY <1>1, <1>9, <1>t, SetToDraftEffect DEF ActionSetToDraft, Commit, Installs
  <1>10. CASE CreateInvoiceAction(u)
    BY <1>1, <1>10, <1>t, ExtraChargesEffect DEF CreateInvoiceAction, Commit, Installs
  <1> QED
    BY <1>2, <1>3, <1>4, <1>5, <1>6, <1>7, <1>8, <1>9, <1>10 DEF Method

-----------------------------------------------------------------------------
(* What the other people do to the orders *)

(* The rows of the orders stay, and so does their number.                  *)
LEMMA SameOrders ==
    ASSUME NEW a, NEW b, b.ord = a.ord, b.req.orders = a.req.orders
    PROVE  Orderly(a, b)
  BY DEF Orderly, Ords

(* An order that comes or goes is counted.                                 *)
LEMMA RecountOrderly ==
    ASSUME ConstantsAssumption, NEW a \in Databases, Counted(a),
           NEW o \in Order, NEW state \in OrderStates,
           a.ord[o] # "canceled",
           (a.ord[o] = "none") # (state = "none")
    PROVE  Orderly(a, Recount([a EXCEPT !.ord[o] = state]))
  <1> DEFINE m == [a EXCEPT !.ord[o] = state]
             b == Recount(m)
  <1>1. m \in Databases /\ m.ord = [a.ord EXCEPT ![o] = state]
    BY DEF Databases
  <1>2. /\ b.ord = m.ord
        /\ b.req.orders = Cardinality(Ords(m))
    <2>1. b = [m EXCEPT !.req.orders = Cardinality(Ords(m))]
      BY DEF Recount, Ords
    <2> HIDE DEF m, b
    <2> QED
      BY <1>1, <2>1 DEF Databases, Requests
  <1> HIDE DEF m, b
  <1>3. Counted(b)
    BY <1>2 DEF Counted, Ords
  <1>4. IsFiniteSet(Ords(a)) /\ IsFiniteSet(Ords(m))
    BY FS_Subset DEF ConstantsAssumption, Ords
  <1>5. Cardinality(Ords(m)) # Cardinality(Ords(a))
    <2>1. CASE a.ord[o] = "none"
      <3>1. Ords(m) = Ords(a) \cup {o} /\ o \notin Ords(a)
        BY <1>1, <2>1 DEF Ords, Databases
      <3> QED
        BY <1>4, <3>1, FS_AddElement, FS_CardinalityType
    <2>2. CASE state = "none"
      <3>1. Ords(m) = Ords(a) \ {o} /\ o \in Ords(a)
        BY <1>1, <2>2 DEF Ords, Databases
      <3> QED
        BY <1>4, <3>1, FS_RemoveElement, FS_CardinalityType
    <2> QED
      BY <2>1, <2>2
  <1>6. \A p \in Order : a.ord[p] = "canceled" => b.ord[p] = "canceled"
    BY <1>1, <1>2 DEF Databases
  <1>7. Orderly(a, b)
    BY <1>2, <1>3, <1>5, <1>6 DEF Orderly, Counted
  <1> QED
    BY <1>7 DEF b, m

(* Orders that stay orders are not counted again.                          *)
LEMMA StayOrderly ==
    ASSUME NEW a, NEW b, b.req.orders = a.req.orders,
           \A o \in Order : \/ b.ord[o] = a.ord[o]
                            \/ b.ord[o] # "none" /\ a.ord[o] \notin {"none", "canceled"}
                            \/ b.ord[o] = "canceled" /\ a.ord[o] # "none"
    PROVE  Orderly(a, b)
  BY DEF Orderly, Ords

(* The new invoice of an order is no warehousing invoice.                  *)
LEMMA OrderInvoiceRest ==
    ASSUME NEW s \in Databases, NEW n \in NewInvoice(s, "order")
    PROVE  n \in Databases /\ n.req = s.req /\ n.ord = s.ord /\ Warehouses(n) = Warehouses(s)
  <1>1. /\ n \in Databases
        /\ n.req = s.req
        /\ n.ord = s.ord
        /\ \E i \in Invoice \ Existing(s) :
              n.inv = [s.inv EXCEPT ![i] = [kind |-> "order", state |-> "draft"]]
    BY NewInvoiceType, NewInvoiceRest
  <1>2. Warehouses(n) = Warehouses(s)
    BY <1>1 DEF Warehouses, Existing, NoInvoice, Databases
  <1> QED
    BY <1>1, <1>2

(* Whoever makes an order, moves one away, or does anything else besides   *)
(* the buttons of the request, keeps the number of its orders stored, and  *)
(* makes no invoice a warehousing invoice.                                 *)
LEMMA OthersOrderly ==
    ASSUME ConstantsAssumption, TypeOK, Counted(db), Others
    PROVE  Orderly(db, db') /\ Warehouses(db') \subseteq Warehouses(db)
  <1> DEFINE Good == Orderly(db, db') /\ Warehouses(db') \subseteq Warehouses(db)
  <1>t. db \in Databases
    BY DEF TypeOK
  <1>r. ASSUME db'.ord = db.ord, db'.req.orders = db.req.orders, db'.inv = db.inv PROVE Good
    BY <1>r, SameOrders DEF Warehouses
  <1>1. ASSUME NEW t \in RequestTypes, EditType(t) PROVE Good
    <2>1. db' = [db EXCEPT !.req.type = t]
      BY <1>1 DEF EditType, Edit
    <2>2. db'.ord = db.ord /\ db'.req.orders = db.req.orders /\ db'.inv = db.inv
      BY <1>t, <2>1 DEF Databases, Requests
    <2> QED
      BY <1>r, <2>2
  <1>2. ASSUME NEW part \in RowParts \cap Missing, EditRow(part) PROVE Good
    <2>1. db' = [db EXCEPT !.req.data = Toggle(db.req.data, part)]
      BY <1>2 DEF EditRow, Edit
    <2>2. db'.ord = db.ord /\ db'.req.orders = db.req.orders /\ db'.inv = db.inv
      BY <1>t, <2>1 DEF Databases, Requests
    <2> QED
      BY <1>r, <2>2
  <1>3. ASSUME NEW part \in LineParts, EditLines(part) PROVE Good
    <2>1. db' = [db EXCEPT !.lines = Toggle(db.lines, part)]
      BY <1>3 DEF EditLines, Edit
    <2> QED
      BY <1>t, <1>r, <2>1 DEF Databases
  <1>4. ASSUME NEW ask \in Asks, Answer(ask) PROVE Good
    <2>1. db' = [db EXCEPT !.asked = Toggle(db.asked, ask)]
      BY <1>4 DEF Answer, Edit
    <2> QED
      BY <1>t, <1>r, <2>1 DEF Databases
  <1>5. ASSUME NEW i \in Invoice, DeleteInvoice(i) PROVE Good
    <2>1. db' = [db EXCEPT !.inv[i] = NoInvoice]
      BY <1>5 DEF DeleteInvoice, Edit
    <2>2. db'.ord = db.ord /\ db'.req = db.req /\ db'.inv = [db.inv EXCEPT ![i] = NoInvoice]
      BY <1>t, <2>1 DEF Databases
    <2>3. Warehouses(db') \subseteq Warehouses(db)
      BY <1>t, <2>2 DEF Warehouses, Databases, NoInvoice
    <2> QED
      BY <2>2, <2>3, SameOrders
  <1>6. ASSUME NEW i \in Invoice, NEW state \in {"draft", "posted", "cancel"},
               EditInvoice(i, state)
        PROVE  Good
    <2>1. db' = [db EXCEPT !.inv[i].state = state]
      BY <1>6 DEF EditInvoice, Edit
    <2>2. /\ db'.ord = db.ord
          /\ db'.req = db.req
          /\ db'.inv = [db.inv EXCEPT ![i] = [db.inv[i] EXCEPT !.state = state]]
      BY <1>t, <2>1 DEF Databases
    <2>3. [db.inv[i] EXCEPT !.state = state].kind = db.inv[i].kind
      BY <1>t DEF Databases, Invoices, NoInvoice
    <2>4. Warehouses(db') \subseteq Warehouses(db)
      BY <1>t, <2>2, <2>3 DEF Warehouses, Databases
    <2> QED
      BY <2>2, <2>4, SameOrders
  <1>7. ASSUME NEW p \in Payment, NEW o \in Order \cup {NoOrder}, CreatePayment(p, o) PROVE Good
    <2>1. db' = [db EXCEPT !.pay[p] = [order |-> o, state |-> "draft"]]
      BY <1>7 DEF CreatePayment, Edit
    <2> QED
      BY <1>t, <1>r, <2>1 DEF Databases
  <1>8. ASSUME NEW p \in Payment, PostPayment(p) PROVE Good
    <2>1. db' = [db EXCEPT !.pay[p].state = "posted"]
      BY <1>8 DEF PostPayment, Edit
    <2> QED
      BY <1>t, <1>r, <2>1 DEF Databases
  <1>9. ASSUME NEW o \in Order, NEW state \in {"draft", "none"},
               db' = Recount([db EXCEPT !.ord[o] = state]),
               db.ord[o] = IF state = "draft" THEN "none" ELSE "draft"
        PROVE  Good
    <2>1. Orderly(db, db')
      <3>1. state \in OrderStates
        BY DEF OrderStates
      <3> QED
        BY <1>t, <1>9, <3>1, RecountOrderly
    <2>2. db'.inv = db.inv
      <3>1. [db EXCEPT !.ord[o] = state] \in Databases /\ [db EXCEPT !.ord[o] = state].inv = db.inv
        BY <1>t DEF Databases, OrderStates
      <3> QED
        BY <1>9, <3>1, RecountType
    <2> QED
      BY <2>1, <2>2 DEF Warehouses
  <1>10. ASSUME NEW o \in Order, DoneOrder(o) PROVE Good
    <2>s. PICK s \in UNION {Services(d, o) : d \in Difference(db)} :
                db' = [s EXCEPT !.ord[o] = "done"]
      BY <1>10 DEF DoneOrder, Edit
    <2>1. PICK d \in Difference(db) : s \in Services(d, o)
      BY <2>s
    <2>2. d \in Databases /\ d.req = db.req /\ d.ord = db.ord /\ Warehouses(d) = Warehouses(db)
      BY <1>t, <2>1, OrderInvoiceRest DEF Difference
    <2>3. s \in Databases /\ s.req = db.req /\ s.ord = db.ord /\ Warehouses(s) = Warehouses(db)
      BY <2>1, <2>2, OrderInvoiceRest DEF Services
    <2>4. db'.req = db.req /\ db'.inv = s.inv /\ db'.ord = [db.ord EXCEPT ![o] = "done"]
      BY <2>s, <2>3 DEF Databases
    <2>5. Orderly(db, db')
      <3>1. db.ord[o] = "draft"
        BY <1>10 DEF DoneOrder
      <3> QED
        BY <1>t, <2>4, <3>1, StayOrderly DEF Databases
    <2> QED
      BY <2>3, <2>4, <2>5 DEF Warehouses
  <1>11. ASSUME NEW o \in Order, NEW state \in {"draft", "closed"}, EditOrder(o, state) PROVE Good
    <2>1. db' = [db EXCEPT !.ord[o] = state] /\ db.ord[o] = "done"
      BY <1>11 DEF EditOrder, Edit
    <2>2. db'.req = db.req /\ db'.inv = db.inv /\ db'.ord = [db.ord EXCEPT ![o] = state]
      BY <1>t, <2>1 DEF Databases
    <2>3. Orderly(db, db')
      BY <1>t, <2>1, <2>2, StayOrderly DEF Databases
    <2> QED
      BY <2>2, <2>3 DEF Warehouses
  <1>12. ASSUME NEW o \in Order, NEW made \in SUBSET Order, CancelOrder(o, made) PROVE Good
    <2> DEFINE ord == [p \in Order |-> IF p \in made \cup {o} THEN "canceled" ELSE db.ord[p]]
               pay == [p \in Payment |-> IF db.pay[p].order \in made \cup {o}
                                         THEN [db.pay[p] EXCEPT !.state = "cancel"]
                                         ELSE db.pay[p]]
    <2>1. /\ db' = [db EXCEPT !.ord = ord, !.pay = pay]
          /\ \A p \in made \cup {o} : db.ord[p] # "none"
      BY <1>12 DEF CancelOrder, Edit
    <2>2. \A p \in Order : \/ ord[p] = db.ord[p]
                           \/ ord[p] = "canceled" /\ db.ord[p] # "none"
      BY <2>1
    <2> HIDE DEF ord, pay
    <2>3. db'.req = db.req /\ db'.inv = db.inv /\ db'.ord = ord
      BY <1>t, <2>1 DEF Databases
    <2>4. Orderly(db, db')
      BY <2>2, <2>3, StayOrderly
    <2> QED
      BY <2>3, <2>4 DEF Warehouses
  <1> HIDE DEF Good
  <1>13. Good
    <2>1. CASE \/ \E t \in RequestTypes : EditType(t)
               \/ \E part \in RowParts \cap Missing : EditRow(part)
      BY <1>1, <1>2, <2>1
    <2>2. CASE \/ \E part \in LineParts \cap (Missing \cup {"translation"}) : EditLines(part)
               \/ \E ask \in Asks : Answer(ask)
      BY <1>3, <1>4, <2>2
    <2>3. CASE \/ \E i \in Invoice : DeleteInvoice(i)
               \/ \E i \in Invoice, state \in {"draft", "posted", "cancel"} : EditInvoice(i, state)
      BY <1>5, <1>6, <2>3
    <2>4. CASE \/ \E p \in Payment, o \in Order \cup {NoOrder} : CreatePayment(p, o)
               \/ \E p \in Payment : PostPayment(p)
      BY <1>7, <1>8, <2>4
    <2>5. CASE \E o \in Order : CreateOrder(o) \/ MoveOrder(o)
      <3>1. \E o \in Order, state \in {"draft", "none"} :
               /\ db' = Recount([db EXCEPT !.ord[o] = state])
               /\ db.ord[o] = IF state = "draft" THEN "none" ELSE "draft"
        BY <2>5 DEF CreateOrder, MoveOrder, Edit
      <3> QED
        BY <1>9, <3>1
    <2>6. CASE \E o \in Order : DoneOrder(o)
      BY <1>10, <2>6
    <2>7. CASE \/ \E o \in Order, state \in {"closed", "draft"} : EditOrder(o, state)
               \/ \E o \in Order, made \in SUBSET Order : CancelOrder(o, made)
      BY <1>11, <1>12, <2>7
    <2> QED
      BY <2>1, <2>2, <2>3, <2>4, <2>5, <2>6, <2>7 DEF Others
  <1> QED
    BY <1>13 DEF Good

-----------------------------------------------------------------------------
(* The rows of the snapshots *)

\* Who changed a row since the snapshot of t has spoiled it; where nobody
\* changed the row of the request, no order came or went; and an order that
\* the snapshot has as cancelled still is.
Faithful(t) ==
    /\ Changed(t.snap, db) \subseteq t.spoiled
    /\ "req" \notin t.spoiled => Ords(t.snap) = Ords(db)
    /\ \A o \in Order : t.snap.ord[o] = "canceled" => db.ord[o] = "canceled"

RInv ==
    /\ TypeOK
    /\ Counted(db)
    /\ \A u \in User : tx[u] # NoTx => Faithful(tx[u])

(* What changes in two steps changes in one of them.                       *)
LEMMA ChangedInSteps ==
    ASSUME NEW a, NEW b, NEW c
    PROVE  Changed(a, c) \subseteq Changed(a, b) \cup Changed(b, c)
  BY DEF Changed

(* A number of orders that stays stored means the same orders.             *)
LEMMA SameRequestSameOrders ==
    ASSUME NEW a \in Databases, NEW b \in Databases, Orderly(a, b)
    PROVE  /\ "req" \notin Changed(a, b) => Ords(b) = Ords(a)
           /\ Counted(a) => Counted(b)
  BY Unchanged DEF Orderly, Counted

(* A commit takes each row from the method that wrote it, if the snapshot  *)
(* had it right, or else from the database.                                *)
LEMMA CommitRows ==
    ASSUME RInv, NEW u \in User, NEW n \in Databases, Installs(u, n),
           NEW s, s = tx[u].snap
    PROVE  /\ s \in Databases
           /\ db' \in Databases
           /\ Faithful(tx[u])
           /\ \/ n.req = s.req /\ db'.req = db.req
              \/ /\ n.req # s.req /\ db.req = s.req /\ db'.req = n.req
                 /\ "req" \notin tx[u].spoiled
           /\ \A i \in Invoice : \/ n.inv[i] = s.inv[i] /\ db'.inv[i] = db.inv[i]
                                 \/ /\ n.inv[i] # s.inv[i] /\ db.inv[i] = s.inv[i]
                                    /\ db'.inv[i] = n.inv[i]
           /\ \A p \in Payment : n.pay[p] # s.pay[p] => db'.pay[p] = n.pay[p]
           /\ \A o \in Order : \/ n.ord[o] = s.ord[o] /\ db'.ord[o] = db.ord[o]
                               \/ /\ n.ord[o] # s.ord[o] /\ db.ord[o] = s.ord[o]
                                  /\ db'.ord[o] = n.ord[o]
  <1>1. s \in Databases /\ db \in Databases /\ Faithful(tx[u])
    BY DEF Installs, RInv, TypeOK, Transactions
  <1>2. db' = Merge(s, n, db) /\ Changed(s, n) \cap tx[u].spoiled = {}
    BY DEF Installs
  <1>3. db' \in Databases
    BY <1>1, <1>2, MergeType
  <1>4. Changed(s, n) \cap Changed(s, db) = {}
    BY <1>1, <1>2 DEF Faithful
  <1>5. db'.req = IF n.req = s.req THEN db.req ELSE n.req
    BY <1>1, <1>2, MergeType
  <1>6. n.req # s.req => db.req = s.req /\ "req" \notin tx[u].spoiled
    <2>1. n.req # s.req => "req" \in Changed(s, n)
      BY <1>1, Unchanged
    <2>2. "req" \notin Changed(s, db) => db.req = s.req
      BY <1>1, Unchanged
    <2> QED
      BY <1>2, <1>4, <2>1, <2>2
  <1>7. \A i \in Invoice : \/ n.inv[i] = s.inv[i] /\ db'.inv[i] = db.inv[i]
                           \/ /\ n.inv[i] # s.inv[i] /\ db.inv[i] = s.inv[i]
                              /\ db'.inv[i] = n.inv[i]
    BY <1>2, <1>4 DEF Merge, Changed
  <1>8. \A p \in Payment : n.pay[p] # s.pay[p] => db'.pay[p] = n.pay[p]
    BY <1>2 DEF Merge
  <1>9. \A o \in Order : \/ n.ord[o] = s.ord[o] /\ db'.ord[o] = db.ord[o]
                         \/ /\ n.ord[o] # s.ord[o] /\ db.ord[o] = s.ord[o]
                            /\ db'.ord[o] = n.ord[o]
    BY <1>2, <1>4 DEF Merge, Changed
  <1> QED
    BY <1>1, <1>3, <1>5, <1>6, <1>7, <1>8, <1>9

(* A method keeps the orders counted.                                      *)
LEMMA CommitOrderly ==
    ASSUME RInv, NEW u \in User, NEW n \in Databases, Installs(u, n),
           OrdersKept(tx[u].snap, n)
    PROVE  Orderly(db, db')
  <1> DEFINE s == tx[u].snap
  <1>1. /\ n.req.orders = s.req.orders
        /\ \A o \in Order : \/ n.ord[o] = s.ord[o]
                            \/ s.ord[o] # "none" /\ n.ord[o] = "canceled"
    BY DEF OrdersKept
  <1>2. /\ \/ n.req = s.req /\ db'.req = db.req
           \/ n.req # s.req /\ db.req = s.req /\ db'.req = n.req
        /\ \A o \in Order : \/ n.ord[o] = s.ord[o] /\ db'.ord[o] = db.ord[o]
                            \/ /\ n.ord[o] # s.ord[o] /\ db.ord[o] = s.ord[o]
                               /\ db'.ord[o] = n.ord[o]
    BY CommitRows
  <1> HIDE DEF s
  <1>3. db'.req.orders = db.req.orders
    BY <1>1, <1>2
  <1> QED
    BY <1>1, <1>2, <1>3, StayOrderly

(* Orderly writes leave every other transaction faithful.                  *)
LEMMA FaithfulKept ==
    ASSUME RInv, db' \in Databases, Orderly(db, db'),
           NEW u \in User, tx[u] # NoTx, tx'[u] = Spoiled(db')[u]
    PROVE  Faithful(tx[u])'
  <1>1. /\ tx'[u].snap = tx[u].snap
        /\ tx'[u].spoiled = tx[u].spoiled \cup Changed(db, db')
    BY SpoiledType DEF RInv
  <1>2. Faithful(tx[u]) /\ db \in Databases
    BY DEF RInv, TypeOK
  <1>3. Changed(tx[u].snap, db') \subseteq Changed(tx[u].snap, db) \cup Changed(db, db')
    BY ChangedInSteps
  <1>4. "req" \notin Changed(db, db') => Ords(db') = Ords(db)
    BY <1>2, SameRequestSameOrders
  <1>5. \A o \in Order : db.ord[o] = "canceled" => db'.ord[o] = "canceled"
    BY DEF Orderly
  <1> QED
    BY <1>1, <1>2, <1>3, <1>4, <1>5 DEF Faithful

(* The rows are right at the start ...                                     *)
LEMMA InitRows == ASSUME ConstantsAssumption, Init PROVE RInv
  <1>1. TypeOK
    BY InitType
  <1>2. Counted(db)
    <2>1. Ords(db) = {} /\ db.req.orders = 0
      BY DEF Init, Ords
    <2> QED
      BY <2>1, FS_EmptySet DEF Counted
  <1>3. \A u \in User : tx[u] = NoTx
    BY DEF Init
  <1> QED
    BY <1>1, <1>2, <1>3 DEF RInv

(* ... and every step, on forms of any age, keeps them so.                 *)
LEMMA NextRows == ASSUME ConstantsAssumption, RInv, [Next]_vars PROVE RInv'
  <1>t. TypeOK /\ TypeOK' /\ db \in Databases /\ db' \in Databases
    BY NextType DEF RInv, TypeOK
  <1>0. ASSUME db' = db,
               \A u \in User : tx'[u] # NoTx =>
                   \/ tx'[u] = tx[u]
                   \/ tx'[u].snap = db
        PROVE  RInv'
    <2>1. ASSUME NEW u \in User, tx'[u] # NoTx PROVE Faithful(tx[u])'
      <3>1. CASE tx'[u] = tx[u]
        BY <1>0, <2>1, <3>1 DEF RInv, Faithful, Ords
      <3>2. CASE tx'[u].snap = db
        BY <1>0, <3>2 DEF Faithful, Changed, Ords
      <3> QED
        BY <1>0, <2>1, <3>1, <3>2
    <2> QED
      BY <1>0, <1>t, <2>1 DEF RInv, Counted, Ords
  <1>1. CASE UNCHANGED vars
    BY <1>0, <1>1 DEF vars
  <1>2. ASSUME NEW u \in User, NEW op \in Ops, Press(u, op) PROVE RInv'
    <2>1. db' = db /\ tx' = [tx EXCEPT ![u] = [op |-> op, snap |-> db, spoiled |-> {}]]
      BY <1>2 DEF Press
    <2> QED
      BY <1>0, <1>t, <2>1 DEF TypeOK
  <1>3. ASSUME NEW u \in User, Abort(u) PROVE RInv'
    <2>1. db' = db /\ tx' = [tx EXCEPT ![u] = NoTx]
      BY <1>3 DEF Abort
    <2> QED
      BY <1>0, <1>t, <2>1 DEF TypeOK
  <1>4. ASSUME Orderly(db, db'),
               \A u \in User : tx'[u] # NoTx => tx'[u] = Spoiled(db')[u]
        PROVE  RInv'
    <2>1. Counted(db')
      BY <1>4, <1>t, SameRequestSameOrders DEF RInv
    <2>2. ASSUME NEW u \in User, tx'[u] # NoTx PROVE Faithful(tx[u])'
      <3>1. tx[u] # NoTx /\ tx'[u] = Spoiled(db')[u]
        BY <1>4, <1>t, <2>2, SpoiledType
      <3> QED
        BY <1>4, <1>t, <3>1, FaithfulKept
    <2> QED
      BY <1>t, <2>1, <2>2 DEF RInv, Counted, Ords
  <1>5. ASSUME NEW u \in User, Method(u) PROVE RInv'
    <2>1. PICK n \in Databases : Installs(u, n) /\ Effect(tx[u].op, tx[u].snap, n)
      BY <1>5, <1>t, MethodEffect
    <2>2. Orderly(db, db')
      BY <2>1, CommitOrderly DEF Effect
    <2>3. tx' = [Spoiled(db') EXCEPT ![u] = NoTx]
      BY <2>1 DEF Installs
    <2>4. Spoiled(db') \in [User -> {NoTx} \cup Transactions]
      BY <1>t, SpoiledType
    <2> QED
      BY <1>4, <2>2, <2>3, <2>4
  <1>6. CASE Others
    <2>1. Orderly(db, db')
      BY <1>6, OthersOrderly DEF RInv
    <2>2. tx' = Spoiled(db')
      <3>1. PICK d \in Databases : Edit(d)
        BY <1>6, <1>t, OthersResult
      <3> QED
        BY <3>1 DEF Edit
    <2> QED
      BY <1>4, <2>1, <2>2
  <1> QED
    BY <1>1, <1>2, <1>3, <1>5, <1>6 DEF Next

(* The inductive invariant is one.                                         *)
LEMMA AllRows == Spec => []RInv
  <1>1. Init => RInv
    BY InitRows, ConstantsAssumption
  <1>2. RInv /\ [Next]_vars => RInv'
    BY NextRows, ConstantsAssumption
  <1> QED
    BY <1>1, <1>2, PTL DEF Spec

(* Only a method moves the state of the request.                           *)
LEMMA StateMovers ==
    ASSUME ConstantsAssumption, RInv, [Next]_vars, db'.req.state # db.req.state
    PROVE  \E u \in User, n \in Databases :
              Method(u) /\ Installs(u, n) /\ Effect(tx[u].op, tx[u].snap, n)
  <1>1. CASE UNCHANGED vars
    BY <1>1 DEF vars
  <1>2. CASE \/ \E u \in User, op \in Ops : Press(u, op)
             \/ \E u \in User : Abort(u)
    BY <1>2 DEF Press, Abort
  <1>3. CASE Others
    <2>1. PICK d \in Databases : Edit(d) /\ d.req.state = db.req.state
      BY <1>3, OthersResult DEF RInv
    <2> QED
      BY <2>1 DEF Edit
  <1>4. ASSUME NEW u \in User, Method(u)
        PROVE  \E n \in Databases : Installs(u, n) /\ Effect(tx[u].op, tx[u].snap, n)
    BY <1>4, MethodEffect DEF RInv
  <1> QED
    BY <1>1, <1>2, <1>3, <1>4 DEF Next

(* ... and it writes the row of the request, as nobody else did since its  *)
(* snapshot: the orders are those of the snapshot.                         *)
LEMMA MoverWrites ==
    ASSUME RInv, NEW u \in User, NEW n \in Databases, Installs(u, n),
           Effect(tx[u].op, tx[u].snap, n), db'.req.state # db.req.state
    PROVE  /\ db.req = tx[u].snap.req
           /\ db'.req = n.req
           /\ "req" \notin tx[u].spoiled
           /\ Ords(tx[u].snap) = Ords(db)
  BY CommitRows DEF Faithful

(* No request moves to delivery without an order, on forms of any age and  *)
(* whatever becomes of its orders meanwhile: an order that is moved away   *)
(* writes the row of the request too, and the validation is refused.       *)
THEOREM DeliveryHasOrder == Spec => DeliveryNeedsOrder
  <1>1. ASSUME ConstantsAssumption, RInv, [Next]_vars,
               db.req.state # "delivery",
               db'.req.state = "delivery",
               db'.req.type # "other_service"
        PROVE  \E o \in Order : db'.ord[o] # "none"
    <2>1. PICK u \in User, n \in Databases :
              Installs(u, n) /\ Effect(tx[u].op, tx[u].snap, n)
      BY <1>1, StateMovers
    <2> DEFINE s == tx[u].snap
    <2>2. db.req = s.req /\ db'.req = n.req /\ Ords(s) = Ords(db)
      BY <1>1, <2>1, MoverWrites
    <2>3. Effect(tx[u].op, s, n)
      BY <2>1
    <2>4. \A o \in Order : n.ord[o] = s.ord[o] => db'.ord[o] = db.ord[o]
      BY <1>1, <2>1, CommitRows
    <2> HIDE DEF s
    <2>5. n.ord = s.ord /\ Ords(s) # {}
      BY <1>1, <2>2, <2>3 DEF Effect, DeliveredWithOrder
    <2> QED
      BY <2>2, <2>4, <2>5 DEF Ords
  <1>2. RInv /\ [Next]_vars =>
          [ /\ db.req.state # "delivery"
            /\ db'.req.state = "delivery"
            /\ db'.req.type # "other_service"
            => \E o \in Order : db'.ord[o] # "none" ]_db
    BY <1>1, ConstantsAssumption
  <1> QED
    BY <1>2, AllRows, PTL DEF Spec, DeliveryNeedsOrder

(* Cancelling a request leaves no order open, on forms of any age: an      *)
(* order made while action_cancel() runs writes the row of the request,    *)
(* which action_cancel() writes as well; and of the invoices and payments  *)
(* that its snapshot has open it cancels every one.                        *)
THEOREM CancelledWhole == Spec => CancelLeavesNothingOpen
  <1>1. ASSUME ConstantsAssumption, RInv, [Next]_vars, NEW u \in User, Cancels(u)
        PROVE  /\ \A o \in Order : db'.ord[o] \in {"none", "canceled"}
               /\ \A i \in Invoice : tx[u].snap.inv[i].state \in {"draft", "posted"}
                                      => db'.inv[i].state = "cancel"
               /\ \A p \in Payment :
                     /\ tx[u].snap.pay[p].state \in {"draft", "posted"}
                     /\ \A o \in Order : tx[u].snap.ord[o] = "none" => tx[u].snap.pay[p].order # o
                     => db'.pay[p].state = "cancel"
    <2>1. PICK v \in User, n \in Databases :
              Installs(v, n) /\ Effect(tx[v].op, tx[v].snap, n)
      BY <1>1, StateMovers DEF Cancels
    <2>2. v = u
      <3>1. SUFFICES ASSUME v # u PROVE FALSE
        OBVIOUS
      <3>2. tx' = [Spoiled(db') EXCEPT ![v] = NoTx]
        BY <2>1 DEF Installs
      <3>3. Spoiled(db') \in [User -> {NoTx} \cup Transactions]
        BY <1>1, SpoiledType DEF RInv
      <3>4. tx'[u] = Spoiled(db')[u]
        BY <3>1, <3>2, <3>3
      <3>5. tx[u] \in Transactions
        BY <1>1 DEF RInv, TypeOK, Cancels
      <3>6. [tx[u] EXCEPT !.spoiled = @ \cup Changed(db, db')] \in Transactions
        BY <3>5, ChangedType DEF Transactions
      <3> QED
        BY <1>1, <3>4, <3>6, NoTxAssumption DEF Spoiled, Cancels
    <2> DEFINE s == tx[u].snap
    <2>3. n \in Cancel(s) /\ s \in Databases
      BY <1>1, <2>1, <2>2, CommitRows DEF Effect, Cancels
    <2>4. CancelsAll(s, n)
      BY <2>3, CancelWrites
    <2>5. /\ \A i \in Invoice : n.inv[i] # s.inv[i] => db'.inv[i] = n.inv[i]
          /\ \A p \in Payment : n.pay[p] # s.pay[p] => db'.pay[p] = n.pay[p]
          /\ \A o \in Order : \/ n.ord[o] = s.ord[o] /\ db'.ord[o] = db.ord[o]
                              \/ n.ord[o] # s.ord[o] /\ db'.ord[o] = n.ord[o]
      BY <1>1, <2>1, <2>2, CommitRows
    <2>6. Ords(s) = Ords(db)
      BY <1>1, <2>1, <2>2, MoverWrites DEF Cancels
    <2>7. \A o \in Order : s.ord[o] = "canceled" => db.ord[o] = "canceled"
      BY <1>1, <2>1, <2>2, CommitRows DEF Faithful
    <2> HIDE DEF s
    <2>8. \A o \in Order : db'.ord[o] \in {"none", "canceled"}
      BY <2>4, <2>5, <2>6, <2>7 DEF Ords, CancelsAll
    <2>9. \A i \in Invoice : s.inv[i].state \in {"draft", "posted"} => db'.inv[i].state = "cancel"
      BY <2>4, <2>5 DEF CancelsAll
    <2>10. \A p \in Payment :
              /\ s.pay[p].state \in {"draft", "posted"}
              /\ \A o \in Order : s.ord[o] = "none" => s.pay[p].order # o
              => db'.pay[p].state = "cancel"
      BY <2>4, <2>5 DEF CancelsAll
    <2> QED
      BY <2>8, <2>9, <2>10 DEF s
  <1>2. RInv /\ [Next]_vars =>
          [ \A u \in User : Cancels(u) =>
              /\ \A o \in Order : db'.ord[o] \in {"none", "canceled"}
              /\ \A i \in Invoice : tx[u].snap.inv[i].state \in {"draft", "posted"}
                                     => db'.inv[i].state = "cancel"
              /\ \A p \in Payment :
                    /\ tx[u].snap.pay[p].state \in {"draft", "posted"}
                    /\ \A o \in Order : tx[u].snap.ord[o] = "none" => tx[u].snap.pay[p].order # o
                    => db'.pay[p].state = "cancel" ]_vars
    BY <1>1, ConstantsAssumption
  <1> QED
    BY <1>2, AllRows, PTL DEF Spec, CancelLeavesNothingOpen

(* On up-to-date forms a clearance goes to transport only with the agent   *)
(* and the declaration in its row: whoever clears one of them meanwhile    *)
(* writes the row that the validation writes, too.                         *)
THEOREM TransportHasData == ASSUME ~StaleForms PROVE Spec => TransportNeedsData
  <1>1. ASSUME ConstantsAssumption, RInv, IInv, [Next]_vars,
               db.req.state # "transport",
               db'.req.state = "transport",
               db'.req.type = "clearance"
        PROVE  {"agent", "declaration"} \subseteq db'.req.data
    <2>1. PICK u \in User, n \in Databases :
              Installs(u, n) /\ Effect(tx[u].op, tx[u].snap, n)
      BY <1>1, StateMovers
    <2> DEFINE s == tx[u].snap
    <2>2. db.req = s.req /\ db'.req = n.req
      BY <1>1, <2>1, MoverWrites
    <2>3. tx[u].op = "action_transport" /\ TransportedWithData(s, n)
      BY <1>1, <2>1, <2>2 DEF Effect
    <2>4. tx[u].op \in Offered(s)
      BY <1>1, <2>1 DEF Installs, IInv, Sound
    <2> HIDE DEF s
    <2>5. s.req.state = "customs_statement"
      BY <2>3, <2>4 DEF Offered, ShownIn, Fields, EditableIn
    <2> QED
      BY <1>1, <2>2, <2>3, <2>5 DEF TransportedWithData
  <1>2. RInv /\ IInv /\ [Next]_vars =>
          [ /\ db.req.state # "transport"
            /\ db'.req.state = "transport"
            /\ db'.req.type = "clearance"
            => {"agent", "declaration"} \subseteq db'.req.data ]_db
    BY <1>1, ConstantsAssumption
  <1> QED
    BY <1>2, AllRows, AllSound, PTL DEF Spec, TransportNeedsData

-----------------------------------------------------------------------------
(* One warehousing invoice *)

\* What makes it inductive: as long as nobody else has changed the row of
\* the request, no warehousing invoice was created that a snapshot lacks.
WInv ==
    /\ \A i, j \in Warehouses(db) : i = j
    /\ \A u \in User : tx[u] # NoTx /\ "req" \notin tx[u].spoiled
                          => Warehouses(db) \subseteq Warehouses(tx[u].snap)

(* A commit on up-to-date forms creates the first warehousing invoice, and *)
(* then writes the row of the request, or none.                            *)
LEMMA CommitWarehouses ==
    ASSUME RInv, IInv, WInv, NEW u \in User, NEW n \in Databases, Installs(u, n),
           Effect(tx[u].op, tx[u].snap, n)
    PROVE  \/ Warehouses(db') = Warehouses(db)
           \/ /\ Warehouses(db) = {}
              /\ \E i \in Invoice : Warehouses(db') = {i}
              /\ db'.req # db.req
  <1> DEFINE s == tx[u].snap
  <1>1. /\ \/ n.req = s.req /\ db'.req = db.req
           \/ /\ n.req # s.req /\ db.req = s.req /\ db'.req = n.req
              /\ "req" \notin tx[u].spoiled
        /\ \A i \in Invoice : \/ n.inv[i] = s.inv[i] /\ db'.inv[i] = db.inv[i]
                              \/ /\ n.inv[i] # s.inv[i] /\ db.inv[i] = s.inv[i]
                                 /\ db'.inv[i] = n.inv[i]
    BY CommitRows
  <1>2. tx[u].op \in Offered(s)
    BY DEF IInv, Sound, Installs
  <1>3. "req" \notin tx[u].spoiled => Warehouses(db) \subseteq Warehouses(s)
    BY DEF WInv, Installs
  <1>4. \/ Warehouses(n) = Warehouses(s)
        \/ FirstWarehouse(s, n) /\ tx[u].op = "action_delivery_done"
    BY DEF Effect
  <1> HIDE DEF s
  <1>5. CASE Warehouses(n) = Warehouses(s)
    <2>1. \A i \in Invoice : (n.inv[i].kind = "warehouse") <=> (s.inv[i].kind = "warehouse")
      BY <1>5 DEF Warehouses
    <2> QED
      BY <1>1, <2>1 DEF Warehouses
  <1>6. CASE FirstWarehouse(s, n) /\ tx[u].op = "action_delivery_done"
    <2>1. s.req.state = "delivery"
      BY <1>2, <1>6 DEF Offered, ShownIn, Fields, EditableIn
    <2>2. n.req # s.req
      BY <1>6, <2>1 DEF FirstWarehouse
    <2>3. Warehouses(db) = {} /\ Warehouses(s) = {} /\ db'.req # db.req
      BY <1>1, <1>3, <1>6, <2>2 DEF FirstWarehouse
    <2>4. PICK i \in Invoice : Warehouses(n) = {i}
      BY <1>6 DEF FirstWarehouse
    <2>5. Warehouses(db') = {i}
      BY <1>1, <2>3, <2>4 DEF Warehouses
    <2> QED
      BY <2>3, <2>5
  <1> QED
    BY <1>4, <1>5, <1>6

(* No step on up-to-date forms creates a second one.                       *)
LEMMA NextWarehouses ==
    ASSUME ConstantsAssumption, RInv, IInv, WInv, [Next]_vars
    PROVE  WInv'
  <1>t. TypeOK /\ db \in Databases
    BY DEF RInv, TypeOK
  <1>0. ASSUME db' = db,
               \A u \in User : tx'[u] # NoTx => tx'[u] = tx[u] \/ tx'[u].snap = db
        PROVE  WInv'
    BY <1>0 DEF WInv, Warehouses
  <1>1. CASE UNCHANGED vars
    BY <1>0, <1>1 DEF vars
  <1>2. ASSUME NEW u \in User, NEW op \in Ops, Press(u, op) PROVE WInv'
    <2>1. db' = db /\ tx' = [tx EXCEPT ![u] = [op |-> op, snap |-> db, spoiled |-> {}]]
      BY <1>2 DEF Press
    <2> QED
      BY <1>0, <1>t, <2>1 DEF TypeOK
  <1>3. ASSUME NEW u \in User, Abort(u) PROVE WInv'
    <2>1. db' = db /\ tx' = [tx EXCEPT ![u] = NoTx]
      BY <1>3 DEF Abort
    <2> QED
      BY <1>0, <1>t, <2>1 DEF TypeOK
  <1>4. ASSUME db' \in Databases,
               \/ Warehouses(db') \subseteq Warehouses(db)
               \/ /\ Warehouses(db) = {}
                  /\ \E i \in Invoice : Warehouses(db') = {i}
                  /\ db'.req # db.req,
               \A u \in User : tx'[u] # NoTx => tx'[u] = Spoiled(db')[u]
        PROVE  WInv'
    <2>1. \A i, j \in Warehouses(db') : i = j
      BY <1>4 DEF WInv
    <2>2. ASSUME NEW u \in User, tx'[u] # NoTx, "req" \notin tx'[u].spoiled
          PROVE  Warehouses(db') \subseteq Warehouses(tx'[u].snap)
      <3>1. /\ tx[u] # NoTx
            /\ tx'[u].snap = tx[u].snap
            /\ tx'[u].spoiled = tx[u].spoiled \cup Changed(db, db')
        BY <1>4, <1>t, <2>2, SpoiledType
      <3>2. db'.req = db.req
        BY <1>4, <1>t, <2>2, <3>1, Unchanged
      <3> QED
        BY <1>4, <2>2, <3>1, <3>2 DEF WInv
    <2>3. /\ Warehouses(db)' = Warehouses(db')
          /\ \A u \in User : Warehouses(tx[u].snap)' = Warehouses(tx'[u].snap)
      BY DEF Warehouses
    <2> QED
      BY <2>1, <2>2, <2>3 DEF WInv
  <1>5. ASSUME NEW u \in User, Method(u) PROVE WInv'
    <2>1. PICK n \in Databases : Installs(u, n) /\ Effect(tx[u].op, tx[u].snap, n)
      BY <1>5, <1>t, MethodEffect
    <2>2. tx' = [Spoiled(db') EXCEPT ![u] = NoTx]
      BY <2>1 DEF Installs
    <2>3. Spoiled(db') \in [User -> {NoTx} \cup Transactions]
      BY <1>t, SpoiledType
    <2>4. db' \in Databases
      BY <2>1, CommitRows
    <2> QED
      BY <1>4, <2>1, <2>2, <2>3, <2>4, CommitWarehouses
  <1>6. CASE Others
    <2>1. PICK d \in Databases : Edit(d)
      BY <1>6, <1>t, OthersResult
    <2>2. db' \in Databases /\ tx' = Spoiled(db')
      BY <2>1 DEF Edit
    <2>3. Warehouses(db') \subseteq Warehouses(db)
      BY <1>6, OthersOrderly DEF RInv
    <2> QED
      BY <1>4, <2>2, <2>3
  <1> QED
    BY <1>1, <1>2, <1>3, <1>5, <1>6 DEF Next

(* On up-to-date forms a request has at most one warehousing invoice, for  *)
(* any number of users who validate its delivery at the same time.  (The   *)
(* code only looks whether the snapshot has one; that two validations      *)
(* cannot both miss it is due to the state they both write.)               *)
THEOREM OneWarehouse == ASSUME ~StaleForms PROVE Spec => []OneWarehouseInvoice
  <1>1. Init => WInv
    <2> SUFFICES ASSUME Init PROVE WInv
      OBVIOUS
    <2>1. Warehouses(db) = {}
      BY DEF Init, Warehouses, NoInvoice
    <2> QED
      BY <2>1 DEF WInv
  <1>2. RInv /\ IInv /\ WInv /\ [Next]_vars => WInv'
    BY NextWarehouses, ConstantsAssumption
  <1>3. WInv => OneWarehouseInvoice
    <2> SUFFICES ASSUME WInv PROVE OneWarehouseInvoice
      OBVIOUS
    <2>1. \A i, j \in OfKind("warehouse") : i = j
      BY DEF WInv, Warehouses, OfKind
    <2> QED
      BY <2>1, AtMostOneCounts DEF OneWarehouseInvoice
  <1> QED
    BY <1>1, <1>2, <1>3, AllRows, AllSound, PTL DEF Spec

-----------------------------------------------------------------------------
(* One main invoice, on forms of any age *)

\* The state in which a request of its type has been billed.
BillingState(req) ==
    req.state = IF req.type = "clearance" THEN "transport" ELSE "delivery_done"

Billed(d) == BillingState(d.req) => Existing(d) # {}

\* A method loses no invoice, bills whom it moves to this state, and creates
\* a main invoice only for such a move, where there was no invoice at all.
BillEffect(s, n) ==
    /\ n \in Databases
    /\ n.req.type = s.req.type
    /\ Existing(s) \subseteq Existing(n)
    /\ BillingState(n.req) => n.req.state = s.req.state \/ Existing(n) # {}
    /\ SameMains(s, n) \/ (FirstMain(s, n) /\ BillingState(n.req))

(* A new invoice comes on top of those there are.                          *)
LEMMA NewInvoiceExists ==
    ASSUME NEW s \in Databases, NEW kind \in {"main", "warehouse", "extra", "order"},
           NEW n \in NewInvoice(s, kind)
    PROVE  Existing(s) \subseteq Existing(n) /\ Existing(n) # {}
  <1>1. PICK i \in Invoice \ Existing(s) :
            n.inv = [s.inv EXCEPT ![i] = [kind |-> kind, state |-> "draft"]]
    BY NewInvoiceType
  <1>2. [kind |-> kind, state |-> "draft"] # NoInvoice
    BY DEF NoInvoice
  <1>3. i \in Existing(n)
    BY <1>1, <1>2 DEF Existing, Databases
  <1>4. Existing(s) \subseteq Existing(n)
    BY <1>1 DEF Existing, Databases
  <1> QED
    BY <1>3, <1>4

(* Bill leaves a request of the given types with an invoice, and one of    *)
(* another type alone.                                                     *)
LEMMA BillExists ==
    ASSUME NEW s \in Databases, NEW types, NEW n \in Bill(s, types)
    PROVE  /\ Existing(s) \subseteq Existing(n)
           /\ s.req.type \in types => Existing(n) # {}
           /\ s.req.type \notin types => n = s
  BY NewInvoiceExists DEF Bill

(* A method that only moves the state, and not to where one bills.         *)
LEMMA StateOnlyBills ==
    ASSUME NEW s \in Databases, NEW state \in States,
           state # IF s.req.type = "clearance" THEN "transport" ELSE "delivery_done"
    PROVE  BillEffect(s, SetState(s, state))
  <1> DEFINE n == SetState(s, state)
  <1>1. n \in Databases /\ n.req.state = state /\ n.req.type = s.req.type /\ n.inv = s.inv
    BY SetStateRest
  <1> HIDE DEF n
  <1>2. Existing(n) = Existing(s) /\ SameMains(s, n)
    BY <1>1 DEF Existing, SameMains, Mains
  <1>3. ~BillingState(n.req)
    BY <1>1 DEF BillingState
  <1>4. BillEffect(s, n)
    BY <1>1, <1>2, <1>3 DEF BillEffect
  <1> QED
    BY <1>4 DEF n

(* action_customs_statement() creates no invoice.                          *)
LEMMA CustomsStatementBills ==
    ASSUME NEW s \in Databases, NEW n \in CustomsStatement(s)
    PROVE  BillEffect(s, n)
  <1> DEFINE d == SetState(s, "customs_statement")
  <1>1. n = [d EXCEPT !.lines = s.lines \cup {"fees"}]
    BY DEF CustomsStatement
  <1>2. s.lines \cup {"fees"} \in SUBSET LineParts
    BY DEF LineParts, Databases
  <1>3. BillEffect(s, d)
    BY StateOnlyBills DEF States
  <1> HIDE DEF d
  <1>4. n \in Databases /\ n.req = d.req /\ n.inv = d.inv
    BY <1>1, <1>2, <1>3 DEF Databases, BillEffect
  <1> QED
    BY <1>3, <1>4 DEF BillEffect, SameMains, FirstMain, Mains, Existing

(* action_transport() bills a clearance, and no other request.             *)
LEMMA TransportBills ==
    ASSUME NEW s \in Databases, NEW n \in Transport(s)
    PROVE  BillEffect(s, n)
  <1>1. PICK b \in Bill(s, {"clearance"}) : n = SetState(b, "transport")
    BY DEF Transport
  <1>2. /\ b \in Databases
        /\ b.req = s.req
        /\ SameMains(s, b) \/ FirstMain(s, b)
        /\ Existing(s) \subseteq Existing(b)
        /\ s.req.type = "clearance" => Existing(b) # {}
        /\ s.req.type # "clearance" => b = s
    BY BillResult, BillExists
  <1>3. /\ n \in Databases
        /\ n.req.state = "transport"
        /\ n.req.type = s.req.type
        /\ n.inv = b.inv
    BY <1>1, <1>2, SetStateRest DEF States
  <1>4. Existing(n) = Existing(b) /\ Mains(n) = Mains(b)
    BY <1>3 DEF Existing, Mains
  <1>5. BillingState(n.req) <=> s.req.type = "clearance"
    BY <1>3 DEF BillingState
  <1>6. SameMains(s, n) \/ (FirstMain(s, n) /\ BillingState(n.req))
    <2>1. CASE s.req.type = "clearance"
      BY <1>2, <1>4, <1>5, <2>1 DEF SameMains, FirstMain
    <2>2. CASE s.req.type # "clearance"
      BY <1>2, <1>4, <2>2 DEF SameMains
    <2> QED
      BY <2>1, <2>2
  <1>7. BillingState(n.req) => Existing(n) # {}
    BY <1>2, <1>4, <1>5
  <1> QED
    BY <1>2, <1>3, <1>4, <1>6, <1>7 DEF BillEffect

(* action_delivery_done() bills all but a clearance.                       *)
LEMMA DeliveryDoneBills ==
    ASSUME NEW s \in Databases, NEW n \in DeliveryDone(s)
    PROVE  BillEffect(s, n)
  <1> DEFINE d == SetState(s, "delivery_done")
             m == [d EXCEPT !.asked = IF HasRequirements THEN Asks ELSE s.asked]
  <1>1. /\ d \in Databases
        /\ d.req.state = "delivery_done"
        /\ d.req.type = s.req.type
        /\ d.inv = s.inv
    BY SetStateRest DEF States
  <1>2. (IF HasRequirements THEN Asks ELSE s.asked) \in SUBSET Asks
    BY DEF Databases
  <1>3. m \in Databases /\ m.req = d.req /\ m.inv = s.inv
    <2> HIDE DEF d
    <2> QED
      BY <1>1, <1>2 DEF Databases
  <1>4. PICK b \in Bill(m, Types \ {"clearance"}) : n \in BillWarehouse(b)
    BY DEF DeliveryDone
  <1> HIDE DEF d, m
  <1>5. Existing(m) = Existing(s) /\ Mains(m) = Mains(s)
    BY <1>3 DEF Existing, Mains
  <1>6. m.req.type \in Types
    BY <1>3 DEF Databases, Requests
  <1>7. /\ b \in Databases
        /\ b.req = m.req
        /\ SameMains(m, b) \/ FirstMain(m, b)
        /\ Existing(m) \subseteq Existing(b)
        /\ m.req.type # "clearance" => Existing(b) # {}
        /\ m.req.type = "clearance" => b = m
    BY <1>3, <1>4, <1>6, BillResult, BillExists
  <1>8. n \in Databases /\ n.req = b.req /\ Mains(n) = Mains(b)
    BY <1>4, <1>7, BillWarehouseResult DEF SameMains
  <1>9. Existing(b) \subseteq Existing(n)
    BY <1>4, <1>7, NewInvoiceExists DEF BillWarehouse
  <1>10. n.req.type = s.req.type /\ n.req.state = "delivery_done"
    BY <1>1, <1>3, <1>7, <1>8
  <1>11. BillingState(n.req) <=> s.req.type # "clearance"
    BY <1>10 DEF BillingState
  <1>12. SameMains(s, n) \/ (FirstMain(s, n) /\ s.req.type # "clearance")
    <2>1. CASE s.req.type # "clearance"
      BY <1>5, <1>7, <1>8, <2>1 DEF SameMains, FirstMain
    <2>2. CASE s.req.type = "clearance"
      BY <1>1, <1>3, <1>5, <1>7, <1>8, <2>2 DEF SameMains
    <2> QED
      BY <2>1, <2>2
  <1> QED
    BY <1>1, <1>3, <1>5, <1>7, <1>8, <1>9, <1>10, <1>11, <1>12 DEF BillEffect

(* action_cancel() deletes no invoice.                                     *)
LEMMA CancelBills ==
    ASSUME NEW s \in Databases, NEW n \in Cancel(s)
    PROVE  BillEffect(s, n)
  <1>1. n \in Databases /\ n.req.state = "canceled" /\ SameMains(s, n)
    BY CancelResult
  <1>2. n.req = [s.req EXCEPT !.state = "canceled"] /\ \A i \in Invoice : n.inv[i].kind = s.inv[i].kind
    BY CancelWrites DEF CancelsAll
  <1>3. n.req.type = s.req.type
    BY <1>2 DEF Databases, Requests
  <1>4. \A i \in Invoice : s.inv[i] # NoInvoice => n.inv[i] # NoInvoice
    BY <1>2 DEF Databases, Invoices, NoInvoice
  <1> QED
    <2>1. Existing(s) \subseteq Existing(n)
      BY <1>4 DEF Existing
    <2>2. ~BillingState(n.req)
      BY <1>1 DEF BillingState
    <2> QED
      BY <1>1, <1>3, <2>1, <2>2 DEF BillEffect

(* The wizard leaves the state alone.                                      *)
LEMMA ExtraChargesBills ==
    ASSUME NEW s \in Databases, NEW n \in ExtraCharges(s)
    PROVE  BillEffect(s, n)
  <1>1. PICK m \in NewInvoice(s, "extra") :
            n = [m EXCEPT !.req.charged = @ \cup ({m.req.state} \cap Charges)]
    BY DEF ExtraCharges
  <1>2. m \in Databases /\ m.req = s.req /\ Existing(s) \subseteq Existing(m)
    BY NewInvoiceType, NewInvoiceExists
  <1>3. n.req.type = s.req.type /\ n.inv = m.inv
    BY <1>1, <1>2 DEF Databases, Requests
  <1>4. n \in Databases /\ n.req.state = s.req.state /\ SameMains(s, n)
    BY ExtraChargesResult
  <1> QED
    <2>1. Existing(s) \subseteq Existing(n)
      BY <1>2, <1>3 DEF Existing
    <2> QED
      BY <1>3, <1>4, <2>1 DEF BillEffect

(* A method installs a result that bills so.                               *)
LEMMA MethodBills ==
    ASSUME TypeOK, NEW u \in User, Method(u)
    PROVE  \E n \in Databases : Installs(u, n) /\ BillEffect(tx[u].snap, n)
  <1>1. tx[u] # NoTx /\ tx[u].snap \in Databases
    BY DEF Method, ActionSend, ActionCustomsStatement, ActionTransport, ActionDelivery,
           ActionDeliveryDone, ActionClose, ActionCancel, ActionSetToDraft,
           CreateInvoiceAction, Commit, TypeOK, Transactions
  <1>t. \A s, n : BillEffect(s, n) => n \in Databases
    BY DEF BillEffect
  <1>2. CASE ActionSend(u)
    <2>1. \A s \in Databases : \A n \in Send(s) : BillEffect(s, n)
      BY StateOnlyBills DEF Send, States
    <2> QED
      BY <1>1, <1>2, <1>t, <2>1 DEF ActionSend, Commit, Installs
  <1>3. CASE ActionCustomsStatement(u)
    BY <1>1, <1>3, <1>t, CustomsStatementBills DEF ActionCustomsStatement, Commit, Installs
  <1>4. CASE ActionTransport(u)
    BY <1>1, <1>4, <1>t, TransportBills DEF ActionTransport, Commit, Installs
  <1>5. CASE ActionDelivery(u)
    <2>1. \A s \in Databases : \A n \in Delivery(s) : BillEffect(s, n)
      BY StateOnlyBills DEF Delivery, States
    <2> QED
      BY <1>1, <1>5, <1>t, <2>1 DEF ActionDelivery, Commit, Installs
  <1>6. CASE ActionDeliveryDone(u)
    BY <1>1, <1>6, <1>t, DeliveryDoneBills DEF ActionDeliveryDone, Commit, Installs
  <1>7. CASE ActionClose(u)
    <2>1. \A s \in Databases : \A n \in Close(s) : BillEffect(s, n)
      BY StateOnlyBills DEF Close, States
    <2> QED
      BY <1>1, <1>7, <1>t, <2>1 DEF ActionClose, Commit, Installs
  <1>8. CASE ActionCancel(u)
    BY <1>1, <1>8, <1>t, CancelBills DEF ActionCancel, Commit, Installs
  <1>9. CASE ActionSetToDraft(u)
    <2>1. \A s \in Databases : \A n \in SetToDraft(s) : BillEffect(s, n)
      BY StateOnlyBills DEF SetToDraft, States
    <2> QED
      BY <1>1, <1>9, <1>t, <2>1 DEF ActionSetToDraft, Commit, Installs
  <1>10. CASE CreateInvoiceAction(u)
    BY <1>1, <1>10, <1>t, ExtraChargesBills DEF CreateInvoiceAction, Commit, Installs
  <1> QED
    BY <1>2, <1>3, <1>4, <1>5, <1>6, <1>7, <1>8, <1>9, <1>10 DEF Method

(* If invoices are not deleted and the type is not changed, other people   *)
(* do neither: the invoices there are stay.                                *)
LEMMA OthersKeepInvoices ==
    ASSUME TypeOK, ~Unlink, ~Retype, Others
    PROVE  db'.req.type = db.req.type /\ Existing(db) \subseteq Existing(db')
  <1> DEFINE Good == db'.req.type = db.req.type /\ Existing(db) \subseteq Existing(db')
  <1>t. db \in Databases
    BY DEF TypeOK
  <1>r. ASSUME db'.req.type = db.req.type, db'.inv = db.inv PROVE Good
    BY <1>r DEF Existing
  <1>1. ASSUME NEW part \in RowParts \cap Missing, EditRow(part) PROVE Good
    <2>1. db' = [db EXCEPT !.req.data = Toggle(db.req.data, part)]
      BY <1>1 DEF EditRow, Edit
    <2>2. db'.req.type = db.req.type /\ db'.inv = db.inv
      BY <1>t, <2>1 DEF Databases, Requests
    <2> QED
      BY <1>r, <2>2
  <1>2. ASSUME NEW part \in LineParts, EditLines(part) PROVE Good
    <2>1. db' = [db EXCEPT !.lines = Toggle(db.lines, part)]
      BY <1>2 DEF EditLines, Edit
    <2> QED
      BY <1>t, <1>r, <2>1 DEF Databases
  <1>3. ASSUME NEW ask \in Asks, Answer(ask) PROVE Good
    <2>1. db' = [db EXCEPT !.asked = Toggle(db.asked, ask)]
      BY <1>3 DEF Answer, Edit
    <2> QED
      BY <1>t, <1>r, <2>1 DEF Databases
  <1>4. ASSUME NEW i \in Invoice, NEW state \in {"draft", "posted", "cancel"},
               EditInvoice(i, state)
        PROVE  Good
    <2>1. db' = [db EXCEPT !.inv[i].state = state]
      BY <1>4 DEF EditInvoice, Edit
    <2>2. db'.req = db.req /\ db'.inv = [db.inv EXCEPT ![i] = [db.inv[i] EXCEPT !.state = state]]
      BY <1>t, <2>1 DEF Databases
    <2>3. [db.inv[i] EXCEPT !.state = state] # NoInvoice
      BY <1>t DEF Databases, Invoices, NoInvoice
    <2>4. Existing(db) \subseteq Existing(db')
      BY <1>t, <2>2, <2>3 DEF Existing, Databases
    <2> QED
      BY <2>2, <2>4
  <1>5. ASSUME NEW p \in Payment, NEW o \in Order \cup {NoOrder}, CreatePayment(p, o) PROVE Good
    <2>1. db' = [db EXCEPT !.pay[p] = [order |-> o, state |-> "draft"]]
      BY <1>5 DEF CreatePayment, Edit
    <2> QED
      BY <1>t, <1>r, <2>1 DEF Databases
  <1>6. ASSUME NEW p \in Payment, PostPayment(p) PROVE Good
    <2>1. db' = [db EXCEPT !.pay[p].state = "posted"]
      BY <1>6 DEF PostPayment, Edit
    <2> QED
      BY <1>t, <1>r, <2>1 DEF Databases
  <1>7. ASSUME NEW o \in Order, NEW state \in {"draft", "none"},
               db' = Recount([db EXCEPT !.ord[o] = state])
        PROVE  Good
    <2>1. db'.req.type = db.req.type /\ db'.inv = db.inv
      BY <1>t, <1>7 DEF Recount, Databases, Requests
    <2> QED
      BY <1>r, <2>1
  <1>8. ASSUME NEW o \in Order, DoneOrder(o) PROVE Good
    <2>1. PICK s \in UNION {Services(d, o) : d \in Difference(db)} :
                db' = [s EXCEPT !.ord[o] = "done"]
      BY <1>8 DEF DoneOrder, Edit
    <2>2. PICK d \in Difference(db) : s \in Services(d, o)
      BY <2>1
    <2>3. d \in Databases /\ d.req = db.req /\ Existing(db) \subseteq Existing(d)
      BY <1>t, <2>2, NewInvoiceRest, NewInvoiceExists DEF Difference
    <2>4. s \in Databases /\ s.req = db.req /\ Existing(d) \subseteq Existing(s)
      BY <2>2, <2>3, NewInvoiceRest, NewInvoiceExists DEF Services
    <2>5. db'.req = db.req /\ db'.inv = s.inv
      BY <2>1, <2>4 DEF Databases
    <2> QED
      BY <2>3, <2>4, <2>5 DEF Existing
  <1>9. ASSUME NEW o \in Order, NEW state \in {"draft", "closed"}, EditOrder(o, state) PROVE Good
    <2>1. db' = [db EXCEPT !.ord[o] = state]
      BY <1>9 DEF EditOrder, Edit
    <2> QED
      BY <1>t, <1>r, <2>1 DEF Databases
  <1>10. ASSUME NEW o \in Order, NEW made \in SUBSET Order, CancelOrder(o, made) PROVE Good
    <2> DEFINE ord == [p \in Order |-> IF p \in made \cup {o} THEN "canceled" ELSE db.ord[p]]
               pay == [p \in Payment |-> IF db.pay[p].order \in made \cup {o}
                                         THEN [db.pay[p] EXCEPT !.state = "cancel"]
                                         ELSE db.pay[p]]
    <2>1. db' = [db EXCEPT !.ord = ord, !.pay = pay]
      BY <1>10 DEF CancelOrder, Edit
    <2> HIDE DEF ord, pay
    <2> QED
      BY <1>t, <1>r, <2>1 DEF Databases
  <1> HIDE DEF Good
  <1>11. Good
    <2>1. CASE \/ \E part \in RowParts \cap Missing : EditRow(part)
               \/ \E part \in LineParts \cap (Missing \cup {"translation"}) : EditLines(part)
               \/ \E ask \in Asks : Answer(ask)
      BY <1>1, <1>2, <1>3, <2>1
    <2>2. CASE \E i \in Invoice, state \in {"draft", "posted", "cancel"} : EditInvoice(i, state)
      BY <1>4, <2>2
    <2>3. CASE \/ \E p \in Payment, o \in Order \cup {NoOrder} : CreatePayment(p, o)
               \/ \E p \in Payment : PostPayment(p)
      BY <1>5, <1>6, <2>3
    <2>4. CASE \E o \in Order : CreateOrder(o) \/ MoveOrder(o)
      BY <1>7, <2>4 DEF CreateOrder, MoveOrder, Edit
    <2>5. CASE \E o \in Order : DoneOrder(o)
      BY <1>8, <2>5
    <2>6. CASE \/ \E o \in Order, state \in {"closed", "draft"} : EditOrder(o, state)
               \/ \E o \in Order, made \in SUBSET Order : CancelOrder(o, made)
      BY <1>9, <1>10, <2>6
    <2>7. (\A t \in RequestTypes : ~EditType(t)) /\ (\A i \in Invoice : ~DeleteInvoice(i))
      BY DEF EditType, DeleteInvoice
    <2> QED
      BY <2>1, <2>2, <2>3, <2>4, <2>5, <2>6, <2>7 DEF Others
  <1> QED
    BY <1>11 DEF Good

\* What makes it inductive: a request in the state in which it is billed has
\* an invoice; the invoices of a snapshot are still there; and as long as
\* nobody has changed the row of the request, no main invoice was created.
MInv ==
    /\ \A i, j \in Mains(db) : i = j
    /\ Billed(db)
    /\ \A u \in User : tx[u] # NoTx =>
          /\ Billed(tx[u].snap)
          /\ Existing(tx[u].snap) \subseteq Existing(db)
          /\ "req" \notin tx[u].spoiled => Mains(db) \subseteq Mains(tx[u].snap)

(* A commit keeps the invoices and creates at most the first main invoice; *)
(* then it moves the request to the state where it is billed, hence writes *)
(* its row: the request was not in that state yet, as it had no invoice.   *)
LEMMA CommitMains ==
    ASSUME RInv, MInv, NEW u \in User, NEW n \in Databases, Installs(u, n),
           BillEffect(tx[u].snap, n)
    PROVE  /\ Existing(db) \subseteq Existing(db')
           /\ Billed(db')
           /\ \/ Mains(db') = Mains(db)
              \/ /\ Mains(db) = {}
                 /\ \E i \in Invoice : Mains(db') = {i}
                 /\ db'.req # db.req
  <1> DEFINE s == tx[u].snap
  <1>1. /\ \/ n.req = s.req /\ db'.req = db.req
           \/ /\ n.req # s.req /\ db.req = s.req /\ db'.req = n.req
              /\ "req" \notin tx[u].spoiled
        /\ \A i \in Invoice : \/ n.inv[i] = s.inv[i] /\ db'.inv[i] = db.inv[i]
                              \/ /\ n.inv[i] # s.inv[i] /\ db.inv[i] = s.inv[i]
                                 /\ db'.inv[i] = n.inv[i]
    BY CommitRows
  <1>2. /\ Billed(s)
        /\ Existing(s) \subseteq Existing(db)
        /\ "req" \notin tx[u].spoiled => Mains(db) \subseteq Mains(s)
    BY DEF MInv, Installs
  <1>3. BillEffect(s, n)
    OBVIOUS
  <1> HIDE DEF s
  <1>4. Existing(db) \subseteq Existing(db')
    BY <1>1, <1>3 DEF BillEffect, Existing
  <1>5. Existing(n) \subseteq Existing(db')
    BY <1>1, <1>2 DEF Existing
  <1>6. Billed(db')
    <2>1. CASE db'.req = db.req
      BY <1>4, <2>1 DEF MInv, Billed
    <2>2. CASE db.req = s.req /\ db'.req = n.req
      <3>1. BillingState(n.req) /\ n.req.state = s.req.state => BillingState(s.req)
        BY <1>3 DEF BillEffect, BillingState
      <3>2. BillingState(n.req) => Existing(n) # {} \/ Existing(s) # {}
        BY <1>2, <1>3, <3>1 DEF BillEffect, Billed
      <3> QED
        BY <1>2, <1>4, <1>5, <2>2, <3>2 DEF Billed
    <2> QED
      BY <1>1, <2>1, <2>2
  <1>7. CASE SameMains(s, n)
    <2>1. \A i \in Invoice : (n.inv[i].kind = "main") <=> (s.inv[i].kind = "main")
      BY <1>7 DEF SameMains, Mains
    <2>2. Mains(db') = Mains(db)
      BY <1>1, <2>1 DEF Mains
    <2> QED
      BY <1>4, <1>6, <2>2
  <1>8. CASE FirstMain(s, n) /\ BillingState(n.req)
    <2>1. Existing(s) = {} /\ \E i \in Invoice : Mains(n) = {i}
      BY <1>8 DEF FirstMain
    <2>2. ~BillingState(s.req)
      BY <1>2, <2>1 DEF Billed
    <2>3. n.req # s.req
      BY <1>8, <2>2
    <2>4. Mains(s) = {}
      BY <2>1 DEF Mains, Existing, NoInvoice
    <2>5. Mains(db) = {} /\ db'.req # db.req
      BY <1>1, <1>2, <2>3, <2>4
    <2>6. PICK i \in Invoice : Mains(n) = {i}
      BY <2>1
    <2>7. Mains(db') = {i}
      BY <1>1, <2>4, <2>5, <2>6 DEF Mains
    <2> QED
      BY <1>4, <1>6, <2>5, <2>7
  <1> QED
    BY <1>3, <1>7, <1>8 DEF BillEffect

(* No step creates a second one.                                           *)
LEMMA NextMains ==
    ASSUME ConstantsAssumption, ~Unlink, ~Retype, RInv, MInv, [Next]_vars
    PROVE  MInv'
  <1>t. TypeOK /\ db \in Databases
    BY DEF RInv, TypeOK
  <1>p. /\ Mains(db)' = Mains(db')
        /\ Billed(db)' = Billed(db')
        /\ Existing(db)' = Existing(db')
        /\ \A u \in User : /\ Mains(tx[u].snap)' = Mains(tx'[u].snap)
                           /\ Billed(tx[u].snap)' = Billed(tx'[u].snap)
                           /\ Existing(tx[u].snap)' = Existing(tx'[u].snap)
    BY DEF Mains, Billed, BillingState, Existing
  <1>0. ASSUME db' = db,
               \A u \in User : tx'[u] # NoTx => tx'[u] = tx[u] \/ tx'[u].snap = db
        PROVE  MInv'
    BY <1>0, <1>p DEF MInv
  <1>1. CASE UNCHANGED vars
    BY <1>0, <1>1 DEF vars
  <1>2. ASSUME NEW u \in User, NEW op \in Ops, Press(u, op) PROVE MInv'
    <2>1. db' = db /\ tx' = [tx EXCEPT ![u] = [op |-> op, snap |-> db, spoiled |-> {}]]
      BY <1>2 DEF Press
    <2> QED
      BY <1>0, <1>t, <2>1 DEF TypeOK
  <1>3. ASSUME NEW u \in User, Abort(u) PROVE MInv'
    <2>1. db' = db /\ tx' = [tx EXCEPT ![u] = NoTx]
      BY <1>3 DEF Abort
    <2> QED
      BY <1>0, <1>t, <2>1 DEF TypeOK
  <1>4. ASSUME db' \in Databases,
               Existing(db) \subseteq Existing(db'),
               Billed(db'),
               \/ Mains(db') \subseteq Mains(db)
               \/ /\ Mains(db) = {}
                  /\ \E i \in Invoice : Mains(db') = {i}
                  /\ db'.req # db.req,
               \A u \in User : tx'[u] # NoTx => tx'[u] = Spoiled(db')[u]
        PROVE  MInv'
    <2>1. \A i, j \in Mains(db') : i = j
      BY <1>4 DEF MInv
    <2>2. ASSUME NEW u \in User, tx'[u] # NoTx
          PROVE  /\ Billed(tx'[u].snap)
                 /\ Existing(tx'[u].snap) \subseteq Existing(db')
                 /\ "req" \notin tx'[u].spoiled => Mains(db') \subseteq Mains(tx'[u].snap)
      <3>1. /\ tx[u] # NoTx
            /\ tx'[u].snap = tx[u].snap
            /\ tx'[u].spoiled = tx[u].spoiled \cup Changed(db, db')
        BY <1>4, <1>t, <2>2, SpoiledType
      <3>2. "req" \notin tx'[u].spoiled => db'.req = db.req
        BY <1>4, <1>t, <3>1, Unchanged
      <3> QED
        BY <1>4, <3>1, <3>2 DEF MInv
    <2> QED
      BY <1>4, <1>p, <2>1, <2>2 DEF MInv
  <1>5. ASSUME NEW u \in User, Method(u) PROVE MInv'
    <2>1. PICK n \in Databases : Installs(u, n) /\ BillEffect(tx[u].snap, n)
      BY <1>5, <1>t, MethodBills
    <2>2. tx' = [Spoiled(db') EXCEPT ![u] = NoTx]
      BY <2>1 DEF Installs
    <2>3. Spoiled(db') \in [User -> {NoTx} \cup Transactions]
      BY <1>t, SpoiledType
    <2>4. db' \in Databases
      BY <2>1, CommitRows
    <2> QED
      BY <1>4, <2>1, <2>2, <2>3, <2>4, CommitMains
  <1>6. CASE Others
    <2>1. PICK d \in Databases :
              /\ Edit(d)
              /\ d.req.state = db.req.state
              /\ Mains(d) \subseteq Mains(db)
      BY <1>6, <1>t, OthersResult
    <2>2. db' = d /\ tx' = Spoiled(db')
      BY <2>1 DEF Edit
    <2>3. db'.req.type = db.req.type /\ Existing(db) \subseteq Existing(db')
      BY <1>6, <1>t, OthersKeepInvoices
    <2>4. Billed(db')
      BY <2>1, <2>2, <2>3 DEF MInv, Billed, BillingState
    <2> QED
      BY <1>4, <2>1, <2>2, <2>3, <2>4
  <1> QED
    BY <1>1, <1>2, <1>3, <1>5, <1>6 DEF Next

(* A request has at most one main invoice on forms of any age, too, as     *)
(* long as nobody deletes an invoice or changes the type of the request: a *)
(* validation repeated on an old form finds the invoice that came with the *)
(* state it would move to, and one that finds none moves the state, hence  *)
(* writes the row that every other validation that bills writes as well.   *)
THEOREM OneMainAnyForm == ASSUME ~Unlink, ~Retype PROVE Spec => []OneMainInvoice
  <1>1. Init => MInv
    <2> SUFFICES ASSUME Init PROVE MInv
      OBVIOUS
    <2>1. Mains(db) = {} /\ db.req.state = "draft" /\ \A u \in User : tx[u] = NoTx
      BY DEF Init, Mains, NoInvoice
    <2> QED
      BY <2>1 DEF MInv, Billed, BillingState
  <1>2. RInv /\ MInv /\ [Next]_vars => MInv'
    BY NextMains, ConstantsAssumption
  <1>3. MInv => OneMainInvoice
    <2> SUFFICES ASSUME MInv PROVE OneMainInvoice
      OBVIOUS
    <2>1. \A i, j \in OfKind("main") : i = j
      BY DEF MInv, Mains, OfKind
    <2> QED
      BY <2>1, AtMostOneCounts DEF OneMainInvoice
  <1> QED
    BY <1>1, <1>2, <1>3, AllRows, PTL DEF Spec

=============================================================================
