SPECIFICATION Spec
CONSTANTS
  Admin = {a1}
  Name = {n1, n2}
  Password = {w1, w2}
  Ip = {i1}
  Session = {s1, s2, s3}
  Request = {r1, r2}
  MaxSessions = 2
  Threshold = 1
  MaxFailures = 3
SYMMETRY Symmetry
CONSTRAINT Bounded
INVARIANTS TypeOK SessionLimit OldPasswordIsOut DisabledHoldsNone GuessesBounded
