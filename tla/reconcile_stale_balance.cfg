\* Two lines of one partner; the second is validated while both have m1.
SPECIFICATION Spec
CONSTANTS
    m1 = m1  m2 = m2  p = p  q = q
    NumLines = 2
    Amount <- TwoAmounts
    MoveLine <- TwoItems
    Residual <- ItemResidual
    Kind <- ItemKind
    PartnerOf <- SamePartner
    Partner = {p}
    NoPartner = NoPartner
    StPartner <- AllNamed
    Filters <- NoSearch
    Matches <- NoMatches
    WriteOffs = FALSE
    ModelAmounts = {}
    MaxPresses = 1
    MaxHandlers = 6
    MaxTroubles = 0
INVARIANTS SentBalanced
CHECK_DEADLOCK FALSE
