\* Two users on up-to-date forms; accountants may delete draft invoices; extra charges are asked for.
CONSTANTS
    User = {u1, u2}
    NoTx = NoTx
    Invoice = {i1, i2}
    Payment = {}
    Order = {o1}
    NoOrder = NoOrder
    RequestTypes = {"clearance", "transport"}
    Retype = TRUE
    Missing = {"agent"}
    Charges = {"delivery"}
    HasRequirements = TRUE
    BillsWarehousing = TRUE
    StaleForms = FALSE
    Unlink = TRUE
    MaxEdits = 2
SPECIFICATION Spec
SYMMETRY Symmetry
INVARIANTS TypeOK OneWarehouseInvoice
  
CHECK_DEADLOCK FALSE
