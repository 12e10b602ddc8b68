SPECIFICATION FairSpec
CONSTANTS
  g1 = g1  g2 = g2  l1 = l1  l2 = l2
  Inbound = {i1}
  Tag = {t1}
  Listener = {l1}
  InvalidListener = {}
  Allocation <- MCAllocation
  Email = {e1}
  Credential = {k1}
  Unfit <- MCUnfit
  Global = {g1}
  Policy <- HotPolicy
  Request = {r1, r2}
  Offered = {"deleteClient", "delete"}
  Serialised = FALSE
  CrashStages <- RuntimeStages
INVARIANT UnsettledIsExplained
PROPERTY EveryRevisionEnds
