\* Dividends that land late and delisted holdings.
SPECIFICATION Spec
CONSTANTS
    A = A
    B = B
    Tickers <- OneName
    LastDay = 4
    MaxOrders = 2
    InitialCash = 5
    Slip = 1
    BarChoices <- LiquidBar
    LateBars <- NoneOf
    Dividends <- DividendsOfA
    Dropped <- OneName
    Quarantinable <- NoneOf
    Signals <- SignalsA
    Tickets <- NoneOf
    Terms <- NoneOf
    PENDING_MAX_DAYS = 2
    DIVIDEND_LOOKBACK_DAYS = 2
    DELISTED_AFTER_SESSIONS = 2
    Backdated = FALSE
    SettleAhead = FALSE
INVARIANT ReplayExact
INVARIANT EntitlementExact
