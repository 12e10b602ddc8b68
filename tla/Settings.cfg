SPECIFICATION Spec
CONSTANTS
  d = d  tls = tls
  Section = {tls}
  SecretSection = {tls}
  Value = {d, e}
  Default = d
  Uncertified <- MCUncertified
  Request = {r1, r2}
  MaxVersion = 3
  None = None
SYMMETRY Symmetry
INVARIANT UnbackedIsExplained
PROPERTY HistoryIsComplete
