\* A lease of one order.
CONSTANTS
  k1 = k1
  k2 = k2
  w1 = w1
  w2 = w2
  p1 = p1
  Leases = {1, 2}
  Keys = {k1, k2}
  Workers = {w1, w2}
  Procs = {p1}
  ProcOf <- MCProcOf
  max_orders = 1
  capital_ceiling = 3
  Notionals = {1, 2}
  MaxControl = 2
  MaxEpochs = 2
SPECIFICATION Spec
INVARIANT PlannedOrdersCommit
SYMMETRY Interchangeable
\* A behaviour ends when the bounds on restarts and halts are used up.
CHECK_DEADLOCK FALSE
