\* Orders of two units; one of two decisions passes.  MCBroker has the scenes.
CONSTANTS
  k1 = k1
  k2 = k2
  c1 = c1
  c2 = c2
  h1 = h1
  h2 = h2
  r1 = r1
  r2 = r2
  d1 = d1
  d2 = d2
  Keys = {k1, k2}
  Callers = {c1, c2}
  Halts = {h1, h2}
  Runs = {r1, r2}
  Decisions = {d1, d2}
  Passing = {d1}
  Qty = 2
SPECIFICATION MCSpec
INVARIANTS
  SentUnderItsDecision
  ResolutionTrue
  StopComplete
  RepeatOnlyAcknowledged
  StopEvidenceKept
  SafeAssessment
PROPERTY SubmitsOnce
