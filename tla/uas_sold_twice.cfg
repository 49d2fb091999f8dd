SPECIFICATION Spec
CONSTANTS
  f1 = f1
  k1 = k1
  s1 = s1
  a = a
  b = b
  g1 = g1
  g2 = g2
  sub = sub
  cert = cert
  rep = rep
  reg = reg
  buyA = buyA
  buyB = buyB
  Calls = {sub, cert, reg, buyA, buyB}
  Firmwares = {f1}
  CertIds = {k1}
  Serials = {s1}
  Operators = {a, b}
  Goals = {g1, g2}
  None = None
  MaxGone = 0
  MaxOpen = 2
  Request <- MCRequest
  LocalCert <- MCLocalCert
  RegulatorGoals <- MCRegulatorGoals
INVARIANT
  SoldOnce
CHECK_DEADLOCK FALSE
SYMMETRY MCSymmetry
