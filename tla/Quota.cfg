SPECIFICATION Spec
CONSTANTS
  User = {u1, u2}
  MaxTraffic = 2
  None = None
  i1 = i1
  vless = vless
  Inbound = {i1}
  Protocol = {vless}
  ProtocolOf <- OneProtocol
  MaxUsers = 1
  Request = {r1, r2}
SYMMETRY Symmetry
INVARIANT WithinCredit
PROPERTY ImplementsLedger
