SPECIFICATION Spec
CONSTANTS
  Token = {t1, t2}
  Credential = {c1, c2}
  Request = {r1, r2, r3}
SYMMETRY Symmetry
INVARIANTS OnlyHolderIsHeard DeadlocksNeedExchange
PROPERTIES FollowsLifecycle
