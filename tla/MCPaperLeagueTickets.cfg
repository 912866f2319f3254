\* A discretionary book: tickets, cancellations, thin bars and settlements on the owner's terms.
SPECIFICATION Spec
CONSTANTS
    A = A
    B = B
    Tickers <- TwoNames
    LastDay = 3
    MaxOrders = 2
    InitialCash = 5
    Slip = 1
    BarChoices <- ThinBar
    LateBars <- NoneOf
    Dividends <- NoneOf
    Dropped <- NoneOf
    Quarantinable <- NoneOf
    Signals <- NoneOf
    Tickets <- TicketsA
    Terms <- MergerTerms
    PENDING_MAX_DAYS = 2
    DIVIDEND_LOOKBACK_DAYS = 2
    DELISTED_AFTER_SESSIONS = 2
    Backdated = FALSE
    SettleAhead = FALSE
INVARIANT ReplayExact
INVARIANT FillsHonest
