SPECIFICATION Spec
CONSTANTS
    c1 = c1
    c2 = c2
    Idle = Idle
    None = None
    Calls <- MCCalls
    Today <- MCToday
    Lookback = 3
    Limits <- MCLimits
    History <- MCHistory
    Offers <- MCOffers
    Ids <- MCIds
    Attempts = 2
    MaxEvents = 1
    KeyConfigured = TRUE
    LimiterGiven = FALSE
    Others <- MCOthers
INVARIANT
    LowStockIsAlerted
CHECK_DEADLOCK FALSE
