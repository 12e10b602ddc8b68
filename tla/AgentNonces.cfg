SPECIFICATION Spec
CONSTANTS
  Agent = {a1, a2}
  Message = {m1, m2}
  Connection = {c1, c2}
  Window = 1
  Retention = 3
  Patience = 1
  MaxNow = 7
SYMMETRY Symmetry
INVARIANT AcceptedOnce
