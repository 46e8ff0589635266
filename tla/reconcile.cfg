\* One statement of two lines, a search, and two journal items of two partners
\* in two lists that both lines may take.
SPECIFICATION Spec
CONSTANTS
    m1 = m1  m2 = m2  p = p  q = q
    NumLines = 2
    Amount <- TwoAmounts
    MoveLine <- TwoItems
    Residual <- ItemResidual
    Kind <- ItemKind
    PartnerOf <- ItemPartner
    Partner = {p, q}
    NoPartner = NoPartner
    StPartner <- SecondNamed
    Filters <- OneSearch
    Matches <- SearchMatches
    WriteOffs = TRUE
    ModelAmounts = {1}
    MaxPresses = 1
    MaxHandlers = 5
    MaxTroubles = 1
INVARIANTS TypeOK    Progress ReconciledOnce
CHECK_DEADLOCK FALSE
