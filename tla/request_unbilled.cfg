\* A transport request is cancelled and begun again.
CONSTANTS
    User = {u1}
    NoTx = NoTx
    Invoice = {i1}
    Payment = {}
    Order = {o1}
    NoOrder = NoOrder
    RequestTypes = {"transport"}
    Retype = FALSE
    Missing = {}
    Charges = {}
    HasRequirements = FALSE
    BillsWarehousing = FALSE
    StaleForms = FALSE
    Unlink = FALSE
    MaxEdits = 2
SPECIFICATION Spec
PROPERTY DeliveredIsBilled
CHECK_DEADLOCK FALSE
