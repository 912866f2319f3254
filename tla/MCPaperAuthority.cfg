\* Leases of three orders and three units of capital, of which the capital is
\* used up first; two threads, one restart, one halt.
CONSTANTS
  k1 = k1
  k2 = k2
  w1 = w1
  w2 = w2
  p1 = p1
  Leases = {1, 2}
  Keys = {k1, k2}
  Workers = {w1, w2}
  Procs = {p1}
  ProcOf <- MCProcOf
  max_orders = 3
  capital_ceiling = 3
  Notionals = {1, 2}
  MaxControl = 2
  MaxEpochs = 2
SPECIFICATION Spec
INVARIANTS WithinLease SpentUnderItsAnchor SpentKeysApart OneOpenEpoch
SYMMETRY Interchangeable
\* A behaviour ends when the bounds on restarts and halts are used up.
CHECK_DEADLOCK FALSE
