-------------------------- MODULE ClearanceRequest --------------------------
(***************************************************************************)
(* One clearance request of addons clearance, transportation and           *)
(* clearance_extra_charges, with its invoices, payments and shipping       *)
(* orders, worked on by several users at once.                             *)
(*                                                                         *)
(*  db     the committed database:                                         *)
(*           req   the row of the request: type, state, the parts of its   *)
(*                 data that are filled in, the stages whose extra charges *)
(*                 were invoiced, and the stored number of its orders      *)
(*           lines  the filled-in parts kept in lines of the request       *)
(*           asked  what its closing requirements still lack               *)
(*           inv, pay, ord   its customer invoices, its payments (of which *)
(*                 the drivers' rewards belong to an order), its orders    *)
(*  tx     per user, the button method under way: its name, the snapshot   *)
(*         of the database it works on, and the rows others changed since  *)
(*  forms  the buttons and fields some open form still offers              *)
(*  edits  how many more changes come from outside the methods (a bound)   *)
(*                                                                         *)
(* Odoo runs a method in one REPEATABLE READ transaction: it reads its     *)
(* snapshot, its writes appear at once, and PostgreSQL refuses a write to  *)
(* a row that another transaction changed since the snapshot; Odoo then    *)
(* repeats the method on a new snapshot (here: Abort, and press again).    *)
(* Inserted rows never conflict, and assigning a field the value it has    *)
(* writes nothing.  No method tests the state it starts from: the form     *)
(* hides its button, and a form may be old.                                *)
(***************************************************************************)
EXTENDS Naturals, FiniteSets

CONSTANTS
    User, NoTx,
    Invoice, Payment, Order,
    NoOrder,          \* the order of a payment that is no driver's reward
    RequestTypes,     \* the request types covered
    Retype,           \* the type is changed on forms that show the draft
    Missing,          \* the parts of the data that people fill in and clear
    Charges,          \* the stages for which extra charges are asked
    HasRequirements,  \* the company has closing requirements
    BillsWarehousing, \* the partner is in the warehousing settings
    StaleForms,       \* forms stay open while others work
    Unlink,           \* accountants may delete draft invoices
    MaxEdits          \* bound: edits, postings, orders and payments

States == {"draft", "customs_clearance", "customs_statement", "transport",
           "delivery", "delivery_done", "close", "canceled"}
Types  == {"clearance", "transport", "storage", "other_service"}

\* What the validations ask for, in the row of the request and in its lines.
RowParts  == {"policy", "agent", "declaration"}
LineParts == {"translation", "goods", "fees"}

\* What a closing requirement is asked for.
Asks == {"answer", "attachment"}

ASSUME ConstantsAssumption ==
    /\ IsFiniteSet(Invoice) /\ IsFiniteSet(Order)
    /\ RequestTypes \subseteq Types /\ RequestTypes # {}
    /\ Missing \subseteq RowParts \cup LineParts
    /\ Charges \subseteq {"customs_statement", "delivery"}
    /\ {Retype, HasRequirements, BillsWarehousing, StaleForms, Unlink}
           \subseteq BOOLEAN
    /\ MaxEdits \in Nat
    /\ NoOrder \notin Order

VARIABLES db, tx, forms, edits

vars == <<db, tx, forms, edits>>

Requests == [type : Types, state : States, data : SUBSET RowParts,
             charged : SUBSET Charges, orders : Nat]

NoInvoice == [kind |-> "none", state |-> "none"]
Invoices  == {NoInvoice} \cup [kind : {"main", "warehouse", "extra", "order"},
                               state : {"draft", "posted", "cancel"}]

NoPayment == [order |-> NoOrder, state |-> "none"]
Payments  == {NoPayment} \cup [order : Order \cup {NoOrder},
                               state : {"draft", "posted", "cancel"}]

\* "none": not an order of this request.
OrderStates == {"none", "draft", "done", "closed", "canceled"}

Databases == [req : Requests, lines : SUBSET LineParts, asked : SUBSET Asks,
              inv : [Invoice -> Invoices], pay : [Payment -> Payments],
              ord : [Order -> OrderStates]]

-----------------------------------------------------------------------------
(* The buttons of the form *)

\* The validations, with the state in which the form shows them.
ShownIn == [action_send |-> "draft",
            action_customs_statement |-> "customs_clearance",
            action_transport |-> "customs_statement",
            action_delivery |-> "transport",
            action_delivery_done |-> "delivery",
            action_close |-> "delivery_done"]

Ops == DOMAIN ShownIn \cup {"action_cancel", "set_to_draft", "create_invoice_action"}

\* The fields that are read-only but in some states; the row parts have
\* fields that never are.
EditableIn == [type         |-> {"draft"},
               translation  |-> {"customs_clearance"},
               goods        |-> {"draft", "customs_clearance", "customs_statement", "transport"},
               fees         |-> {"draft", "customs_clearance", "customs_statement"},
               requirements |-> {"delivery_done"}]

Fields == DOMAIN EditableIn

\* Mutant: the Close button asks for the answers alone.
OfferedAnswered(d) ==
    {op \in DOMAIN ShownIn : \/ d.req.state = ShownIn[op]
                             \/ op = "action_close" /\ "answer" \notin d.asked}
    \cup {"action_cancel", "set_to_draft"}
    \cup {field \in Fields : d.req.state \in EditableIn[field]}

Offered(d) ==
    {op \in DOMAIN ShownIn :
        d.req.state = ShownIn[op] /\ (op = "action_close" => "answer" \notin d.asked)}
    \cup {op \in {"action_cancel", "set_to_draft", "create_invoice_action"} :
            /\ op = "action_cancel" => d.req.state # "canceled"
            /\ op = "set_to_draft" => d.req.state # "draft"
            /\ op = "create_invoice_action" => Charges # {}}
    \cup {field \in Fields : d.req.state \in EditableIn[field]}

\* What PostgreSQL locks and versions one by one.
Rows == {"req", "lines", "asked"} \cup Invoice \cup Payment \cup Order

\* The methods under way; NoTx is none of them.
Transactions == [op : Ops, snap : Databases, spoiled : SUBSET Rows]

ASSUME NoTxAssumption == NoTx \notin Transactions

Init ==
    /\ \E t \in RequestTypes :
         db = [req |-> [type |-> t, state |-> "draft", data |-> RowParts \ Missing,
                        charged |-> {}, orders |-> 0],
               lines |-> {"goods"} \ Missing,
               asked |-> {},
               inv |-> [i \in Invoice |-> NoInvoice],
               pay |-> [p \in Payment |-> NoPayment],
               ord |-> [o \in Order |-> "none"]]
    /\ tx = [u \in User |-> NoTx]
    /\ forms = Offered(db)
    /\ edits = MaxEdits

\* Whoever opens the form now sees the buttons of the new database; a form
\* left open keeps showing the old ones.
Refresh == forms' = Offered(db') \cup (IF StaleForms THEN forms ELSE {})

-----------------------------------------------------------------------------
(* Transactions *)

\* The rows in which two databases differ.
Changed(a, b) ==
    {row \in {"req", "lines", "asked"} : a[row] # b[row]}
    \cup {i \in Invoice : a.inv[i] # b.inv[i]}
    \cup {p \in Payment : a.pay[p] # b.pay[p]}
    \cup {o \in Order : a.ord[o] # b.ord[o]}

\* When d is committed, its changes make the snapshots of the others old.
Spoiled(d) ==
    [u \in User |-> IF tx[u] = NoTx THEN NoTx
                    ELSE [tx[u] EXCEPT !.spoiled = @ \cup Changed(db, d)]]

\* d with the rows that n writes.
Merge(s, n, d) ==
    [req |-> IF n.req = s.req THEN d.req ELSE n.req,
     lines |-> IF n.lines = s.lines THEN d.lines ELSE n.lines,
     asked |-> IF n.asked = s.asked THEN d.asked ELSE n.asked,
     inv |-> [i \in Invoice |-> IF n.inv[i] = s.inv[i] THEN d.inv[i] ELSE n.inv[i]],
     pay |-> [p \in Payment |-> IF n.pay[p] = s.pay[p] THEN d.pay[p] ELSE n.pay[p]],
     ord |-> [o \in Order |-> IF n.ord[o] = s.ord[o] THEN d.ord[o] ELSE n.ord[o]]]

\* A user presses a button of a form.
Press(u, op) ==
    /\ tx[u] = NoTx
    /\ op \in forms
    /\ tx' = [tx EXCEPT ![u] = [op |-> op, snap |-> db, spoiled |-> {}]]
    /\ UNCHANGED <<db, forms, edits>>

\* The method op of u ends with one of the results computed from its snapshot.
Commit(u, op, Results(_)) ==
    /\ tx[u] # NoTx
    /\ tx[u].op = op
    /\ \E n \in Results(tx[u].snap) :
        /\ Changed(tx[u].snap, n) \cap tx[u].spoiled = {}
        /\ db' = Merge(tx[u].snap, n, db)
    /\ tx' = [Spoiled(db') EXCEPT ![u] = NoTx]
    /\ Refresh
    /\ UNCHANGED edits

\* A ValidationError, a conflict, a lost connection: nothing is written.
Abort(u) ==
    /\ tx[u] # NoTx
    /\ tx' = [tx EXCEPT ![u] = NoTx]
    /\ UNCHANGED <<db, forms, edits>>

-----------------------------------------------------------------------------
(* What the methods make of a snapshot: the set of possible results, empty  *)
(* when the method raises a ValidationError                                 *)

SetState(s, state) == [s EXCEPT !.req.state = state]

Existing(s) == {i \in Invoice : s.inv[i] # NoInvoice}

NewInvoice(s, kind) ==
    {[s EXCEPT !.inv[i] = [kind |-> kind, state |-> "draft"]] : i \in Invoice \ Existing(s)}

\* Mutant: invoices are created whatever the request already has.
BillAlways(s, types) == IF s.req.type \in types THEN NewInvoice(s, "main") ELSE {s}

\* The main invoice, unless the request has an out_invoice of any kind and in
\* any state.
Bill(s, types) ==
    IF Existing(s) = {} /\ s.req.type \in types THEN NewInvoice(s, "main") ELSE {s}

HasOrder(s) == \E o \in Order : s.ord[o] \notin {"none", "canceled"}

\* Mutant: nobody looks for an earlier warehousing invoice.
BillWarehouseAgain(s) ==
    IF BillsWarehousing /\ HasOrder(s) THEN {s} \cup NewInvoice(s, "warehouse") ELSE {s}

\* The warehousing invoice, if goods stayed in the yard for chargeable days
\* (an order brought them there) and it is the first.
BillWarehouse(s) ==
    IF /\ BillsWarehousing
       /\ HasOrder(s)
       /\ \A i \in Existing(s) : s.inv[i].kind # "warehouse"
    THEN {s} \cup NewInvoice(s, "warehouse") ELSE {s}

\* Extra charges asked for at a stage must have been invoiced.
ChargesHandled(s, stage) == stage \in Charges => stage \in s.req.charged

Send(s) ==
    IF s.req.type # "clearance" THEN {SetState(s, "transport")}
    ELSE IF "policy" \in s.req.data THEN {SetState(s, "customs_clearance")} ELSE {}

\* The company's default customs fees are added.
CustomsStatement(s) ==
    IF "translation" \in s.lines
    THEN {[SetState(s, "customs_statement") EXCEPT !.lines = s.lines \cup {"fees"}]} ELSE {}

\* Mutant: the agent's data is only missed when the statement is validated.
IsNotDataLate(s) ==
    /\ s.req.type = "clearance"
    /\ \/ "declaration" \notin s.req.data
       \/ ~({"goods", "fees"} \subseteq s.lines)
    /\ s.req.state \notin {"draft", "customs_clearance"}

\* The computed fields is_not_*_data: false in the first states.  (Fees are
\* asked of shipments that are not lcl.)
IsNotData(s) ==
    /\ s.req.type = "clearance"
    /\ \/ "agent" \notin s.req.data /\ s.req.state # "draft"
       \/ /\ "declaration" \notin s.req.data \/ ~({"goods", "fees"} \subseteq s.lines)
          /\ s.req.state \notin {"draft", "customs_clearance"}

Transport(s) ==
    IF /\ ChargesHandled(s, "customs_statement")
       /\ ~IsNotData(s)
       /\ \A p \in Payment : s.pay[p].order = NoOrder => s.pay[p].state # "draft"
    THEN {SetState(n, "transport") : n \in Bill(s, {"clearance"})}
    ELSE {}

Delivery(s) ==
    IF s.req.type # "other_service" /\ \A o \in Order : s.ord[o] = "none"
    THEN {} ELSE {SetState(s, "delivery")}

DeliveryDone(s) ==
    LET n == [SetState(s, "delivery_done") EXCEPT
                !.asked = IF HasRequirements THEN Asks ELSE s.asked]
    IN  IF ChargesHandled(s, "delivery")
        THEN UNION {BillWarehouse(b) : b \in Bill(n, Types \ {"clearance"})}
        ELSE {}

Close(s) == IF "attachment" \in s.asked THEN {} ELSE {SetState(s, "close")}

SetToDraft(s) == {SetState(s, "draft")}

\* Mutant: the payments of the orders are left to the orders' own form.
CancelNotRewards(s) ==
    {[SetState(s, "canceled") EXCEPT
        !.inv = [i \in Invoice |-> IF s.inv[i] = NoInvoice THEN NoInvoice
                                   ELSE [s.inv[i] EXCEPT !.state = "cancel"]],
        !.pay = [p \in Payment |-> IF s.pay[p] = NoPayment \/ s.pay[p].order # NoOrder
                                   THEN s.pay[p]
                                   ELSE [s.pay[p] EXCEPT !.state = "cancel"]],
        !.ord = [o \in Order |-> IF s.ord[o] = "none" THEN "none" ELSE "canceled"]]}

\* Invoices and payments are cancelled, then the orders, which cancel their
\* payments, the drivers' rewards among them.
Cancel(s) ==
    {[SetState(s, "canceled") EXCEPT
        !.inv = [i \in Invoice |-> IF s.inv[i] = NoInvoice THEN NoInvoice
                                   ELSE [s.inv[i] EXCEPT !.state = "cancel"]],
        !.pay = [p \in Payment |-> IF \/ s.pay[p] = NoPayment
                                      \/ s.pay[p].order \in {o \in Order : s.ord[o] = "none"}
                                   THEN s.pay[p]
                                   ELSE [s.pay[p] EXCEPT !.state = "cancel"]],
        !.ord = [o \in Order |-> IF s.ord[o] = "none" THEN "none" ELSE "canceled"]]}

\* Mutant: the wizard settles whatever stage the request is at.
ExtraChargesAnyState(s) ==
    {[n EXCEPT !.req.charged = @ \cup {n.req.state}] : n \in NewInvoice(s, "extra")}

\* The wizard's invoice; it settles the stage the request is at.
ExtraCharges(s) ==
    {[n EXCEPT !.req.charged = @ \cup ({n.req.state} \cap Charges)] : n \in NewInvoice(s, "extra")}

-----------------------------------------------------------------------------
(* The methods of the request *)

ActionSend(u)             == Commit(u, "action_send", Send)
ActionCustomsStatement(u) == Commit(u, "action_customs_statement", CustomsStatement)
ActionTransport(u)        == Commit(u, "action_transport", Transport)
ActionDelivery(u)         == Commit(u, "action_delivery", Delivery)
ActionDeliveryDone(u)     == Commit(u, "action_delivery_done", DeliveryDone)
ActionClose(u)            == Commit(u, "action_close", Close)
ActionCancel(u)           == Commit(u, "action_cancel", Cancel)
ActionSetToDraft(u)       == Commit(u, "set_to_draft", SetToDraft)
CreateInvoiceAction(u)    == Commit(u, "create_invoice_action", ExtraCharges)

-----------------------------------------------------------------------------
(* Other people's work: each a transaction that writes one row, and the row *)
(* of the request when an order comes or goes (its stored number of orders) *)

Edit(d) ==
    /\ edits > 0
    /\ edits' = edits - 1
    /\ db' = d
    /\ tx' = Spoiled(d)
    /\ Refresh

EditType(t) ==
    /\ Retype
    /\ "type" \in forms
    /\ Edit([db EXCEPT !.req.type = t])

Toggle(parts, part) == IF part \in parts THEN parts \ {part} ELSE parts \cup {part}

\* A part of the data is filled in, or cleared.
EditRow(part) == Edit([db EXCEPT !.req.data = Toggle(@, part)])

EditLines(part) ==
    /\ part \in forms
    /\ Edit([db EXCEPT !.lines = Toggle(@, part)])

\* A closing requirement is answered or attached, or no longer.
Answer(ask) ==
    /\ HasRequirements
    /\ "requirements" \in forms
    /\ Edit([db EXCEPT !.asked = Toggle(@, ask)])

\* Accountants confirm an invoice, cancel it, or set it back to draft.
EditInvoice(i, state) ==
    /\ db.inv[i] # NoInvoice
    /\ <<db.inv[i].state, state>> \in {<<"draft", "posted">>, <<"draft", "cancel">>,
                                       <<"posted", "draft">>, <<"cancel", "draft">>}
    /\ Edit([db EXCEPT !.inv[i].state = state])

DeleteInvoice(i) ==
    /\ Unlink
    /\ db.inv[i].state = "draft"
    /\ Edit([db EXCEPT !.inv[i] = NoInvoice])

\* Payments are entered from the request; drivers' rewards from its orders.
CreatePayment(p, o) ==
    /\ db.pay[p] = NoPayment
    /\ o \in Order => db.ord[o] \in {"draft", "done"}
    /\ Edit([db EXCEPT !.pay[p] = [order |-> o, state |-> "draft"]])

PostPayment(p) ==
    /\ db.pay[p].state = "draft"
    /\ Edit([db EXCEPT !.pay[p].state = "posted"])

\* Mutant: the number of orders is not stored in the row of the request.
RecountNot(d) == d

\* _compute_shipping_orders()
Recount(d) == [d EXCEPT !.req.orders = Cardinality({o \in Order : d.ord[o] # "none"})]

\* An order is made for the request, or a draft is moved to it ...
CreateOrder(o) ==
    /\ db.ord[o] = "none"
    /\ Edit(Recount([db EXCEPT !.ord[o] = "draft"]))

\* ... or from it to another; the payments stay with the request.
MoveOrder(o) ==
    /\ db.ord[o] = "draft"
    /\ Edit(Recount([db EXCEPT !.ord[o] = "none"]))

\* action_done(): the transport's price may differ from what was billed, ...
Difference(s) ==
    {s} \cup (IF \E i \in Existing(s) : s.inv[i].kind # "warehouse" /\ s.inv[i].state # "cancel"
             THEN NewInvoice(s, "order") ELSE {})

\* ... and the order it was made from may have had services.
Services(s, o) ==
    {s} \cup (IF \E p \in Order \ {o} : s.ord[p] # "none" THEN NewInvoice(s, "order") ELSE {})

DoneOrder(o) ==
    /\ db.ord[o] = "draft"
    /\ \E s \in UNION {Services(d, o) : d \in Difference(db)} :
          Edit([s EXCEPT !.ord[o] = "done"])

\* action_closed() and set_to_draft() of the order.
EditOrder(o, state) ==
    /\ db.ord[o] = "done"
    /\ Edit([db EXCEPT !.ord[o] = state])

\* action_cancel() of the order: with the orders made from it.
CancelOrder(o, made) ==
    /\ db.ord[o] \notin {"none", "canceled"}
    /\ \A p \in made : db.ord[p] # "none"
    /\ Edit([db EXCEPT
                !.ord = [p \in Order |-> IF p \in made \cup {o} THEN "canceled" ELSE db.ord[p]],
                !.pay = [p \in Payment |-> IF db.pay[p].order \in made \cup {o}
                                           THEN [db.pay[p] EXCEPT !.state = "cancel"]
                                           ELSE db.pay[p]]])

-----------------------------------------------------------------------------
Method(u) ==
    \/ ActionSend(u) \/ ActionCustomsStatement(u) \/ ActionTransport(u)
    \/ ActionDelivery(u) \/ ActionDeliveryDone(u) \/ ActionClose(u)
    \/ ActionCancel(u) \/ ActionSetToDraft(u) \/ CreateInvoiceAction(u)

Others ==
    \/ \E t \in RequestTypes : EditType(t)
    \/ \E part \in RowParts \cap Missing : EditRow(part)
    \/ \E part \in LineParts \cap (Missing \cup {"translation"}) : EditLines(part)
    \/ \E ask \in Asks : Answer(ask)
    \/ \E i \in Invoice : DeleteInvoice(i)
    \/ \E i \in Invoice, state \in {"draft", "posted", "cancel"} : EditInvoice(i, state)
    \/ \E p \in Payment, o \in Order \cup {NoOrder} : CreatePayment(p, o)
    \/ \E p \in Payment : PostPayment(p)
    \/ \E o \in Order : CreateOrder(o) \/ MoveOrder(o) \/ DoneOrder(o)
    \/ \E o \in Order, state \in {"closed", "draft"} : EditOrder(o, state)
    \/ \E o \in Order, made \in SUBSET Order : CancelOrder(o, made)

Next ==
    \/ \E u \in User, op \in Ops : Press(u, op)
    \/ \E u \in User : Method(u) \/ Abort(u)
    \/ Others

Spec == Init /\ [][Next]_vars

-----------------------------------------------------------------------------
(* Properties *)

TypeOK ==
    /\ db \in Databases
    /\ tx \in [User -> {NoTx} \cup Transactions]
    /\ forms \subseteq Ops \cup Fields
    /\ edits \in 0..MaxEdits

OfKind(kind) == {i \in Invoice : db.inv[i].kind = kind}

(* A request is billed by at most one main invoice, however many people    *)
(* validate it at once and however often it is cancelled and begun again.  *)
OneMainInvoice == Cardinality(OfKind("main")) <= 1

(* ... and by at most one warehousing invoice.                             *)
OneWarehouseInvoice == Cardinality(OfKind("warehouse")) <= 1

(* A request moves to delivery only when it has an order, even if the last *)
(* one is moved away meanwhile: the stored number of orders puts the move  *)
(* and the validation in conflict.                                         *)
DeliveryNeedsOrder ==
    [][ /\ db.req.state # "delivery"
        /\ db'.req.state = "delivery"
        /\ db'.req.type # "other_service"
        => \E o \in Order : db'.ord[o] # "none" ]_db

(* Cancelling a request leaves no order open, those created meanwhile      *)
(* included, and no invoice or payment that its method saw open, the       *)
(* rewards of its orders included, which its own search leaves out.  (It   *)
(* misses a payment created, or a cancelled invoice reopened, while it     *)
(* runs, and the rewards of orders that were moved to another request.)    *)
Cancels(u) == /\ tx[u] # NoTx /\ tx'[u] = NoTx /\ tx[u].op = "action_cancel"
              /\ db.req.state # "canceled" /\ db'.req.state = "canceled"

CancelLeavesNothingOpen ==
    [][ \A u \in User : Cancels(u) =>
          /\ \A o \in Order : db'.ord[o] \in {"none", "canceled"}
          /\ \A i \in Invoice : tx[u].snap.inv[i].state \in {"draft", "posted"}
                                 => db'.inv[i].state = "cancel"
          /\ \A p \in Payment :
                /\ tx[u].snap.pay[p].state \in {"draft", "posted"}
                /\ \A o \in Order : tx[u].snap.ord[o] = "none" => tx[u].snap.pay[p].order # o
                => db'.pay[p].state = "cancel" ]_vars

(* A clearance goes to transport only with its data filled in: the error   *)
(* message of action_transport says "You must filled all Clearance Request *)
(* Data".  (The parts kept in lines of the request are left out: they may  *)
(* be cleared while the method runs.)                                      *)
TransportNeedsData ==
    [][ /\ db.req.state # "transport"
        /\ db'.req.state = "transport"
        /\ db'.req.type = "clearance"
        => {"agent", "declaration"} \subseteq db'.req.data ]_db

(* A request that needs no clearance is billed when it is delivered: the   *)
(* comment in action_delivery_done says "Generate customer invoice".       *)
DeliveredIsBilled ==
    [][ /\ db.req.state # "delivery_done"
        /\ db'.req.state = "delivery_done"
        /\ db'.req.type # "clearance"
        => \E i \in Invoice : db'.inv[i].state \in {"draft", "posted"} ]_db

(* The workflow implements the life cycle its users are promised, as long  *)
(* as buttons are pressed on up-to-date forms.                             *)
Lifecycle == INSTANCE RequestLifecycle
    WITH stage <- db.req.state, bills <- Cardinality(OfKind("main"))

LifecycleSpec == Lifecycle!Spec
=============================================================================
