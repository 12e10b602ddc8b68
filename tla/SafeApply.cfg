SPECIFICATION Spec
CONSTANTS
  g1 = g1  g2 = g2  l1 = l1  l2 = l2
  Inbound = {i1, i2}
  Tag = {t1, t2}
  Listener = {l1, l2, l3}
  InvalidListener = {l3}
  Allocation <- MCAllocation
  Email = {e1, e2}
  Credential = {k1, k2}
  Unfit <- MCUnfit
  Global = {g1, g2}
  Policy <- TwoPolicies
  Request = {r1, r2}
  Offered <- Operation
  Serialised = TRUE
  CrashStages <- NoStages
SYMMETRY Symmetry
CONSTRAINT Bounded
INVARIANTS AppliedIsCurrent AppliedIsServed
PROPERTIES RollbackRestores DisablingTakesOneOut
