SPECIFICATION Spec
CONSTANTS
    a1 = a1
    a2 = a2
    x = x
    Accounts = {a1, a2}
    Tickers = {x}
    Supervised = {a1}
    Intents <- Trades
    Cap = 2
    LastDay = 3
    MaxOrders = 3
CHECK_DEADLOCK FALSE
INVARIANTS LedgerReplays AggregateLiquidity
PROPERTY OnlyShrinks
