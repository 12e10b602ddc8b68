SPECIFICATION Spec
CONSTANTS
  User = {u1}
  Request = {r1, r2}
  PortalCredential = {p1, p2}
  OwnerCredential = {o1}
  MaxTime = 2
  None = None
SYMMETRY Symmetry
CONSTRAINT Bounded
INVARIANTS TypeOK LinkMatches OffIsShownOff 
PROPERTIES ExtensionsAddUp OnlyExpiredDeleted
