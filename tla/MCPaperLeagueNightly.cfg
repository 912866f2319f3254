\* Reruns, late data and crashes around the nightly of a strategy book.
SPECIFICATION Spec
CONSTANTS
    A = A
    B = B
    Tickers <- TwoNames
    LastDay = 3
    MaxOrders = 3
    InitialCash = 6
    Slip = 1
    BarChoices <- LiquidBar
    LateBars <- LateA2
    Dividends <- NoneOf
    Dropped <- NoneOf
    Quarantinable <- OneName
    Signals <- SignalsAB
    Tickets <- NoneOf
    Terms <- NoneOf
    PENDING_MAX_DAYS = 2
    DIVIDEND_LOOKBACK_DAYS = 2
    DELISTED_AFTER_SESSIONS = 2
    Backdated = FALSE
    SettleAhead = FALSE
INVARIANT NeverOverdrawn
INVARIANT ReplayExact
INVARIANT BooksClosed
INVARIANT NothingStale
INVARIANT OneOrderPerLeg
INVARIANT RerunReproduces
