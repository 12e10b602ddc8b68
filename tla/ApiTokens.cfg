SPECIFICATION Spec
CONSTANTS
  Admin = {o, a}
  Owner = o
  Right = {manage, other}
  Manage = manage
  Token = {k1, k2}
  Request = {r1, r2}
SYMMETRY Symmetry
INVARIANT NoEscalation
PROPERTY OverIsOver
