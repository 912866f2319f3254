\* A retirement that is asked for before the close.
SPECIFICATION Spec
CONSTANTS
    a1 = a1
    a2 = a2
    x = x
    Accounts = {a1}
    Tickers = {x}
    Supervised = {a1}
    Intents <- OneBuy
    Cap = 9
    LastDay = 3
    MaxOrders = 2
CHECK_DEADLOCK FALSE
INVARIANT RetirementExecutes
