\* Two users on forms of any age, among other people; a payment and an order come and go.
CONSTANTS
    User = {u1, u2}
    NoTx = NoTx
    Invoice = {i1, i2}
    Payment = {p1}
    Order = {o1}
    NoOrder = NoOrder
    RequestTypes = {"transport"}
    Retype = FALSE
    Missing = {}
    Charges = {}
    HasRequirements = FALSE
    BillsWarehousing = FALSE
    StaleForms = TRUE
    Unlink = FALSE
    MaxEdits = 3
SPECIFICATION Spec
SYMMETRY Symmetry
INVARIANTS OneMainInvoice
PROPERTIES DeliveryNeedsOrder CancelLeavesNothingOpen
CHECK_DEADLOCK FALSE
