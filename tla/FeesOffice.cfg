SPECIFICATION Spec
CONSTANTS
  c1 = c1
  c2 = c2
  p1 = p1
  p2 = p2
  s1 = s1
  s2 = s2
  t1 = t1
  t2 = t2
  b11 = b11
  b12 = b12
  b21 = b21
  NoBill = NoBill
  NoPayment = NoPayment
  NoTerm = NoTerm
  NoStudent = NoStudent
  Clerks = {c1, c2}
  Payments = {p1, p2}
  Bills = {b11, b12, b21}
  Students = {s1, s2}
  StudentOf <- MCStudentOf
  TermOf <- MCTermOf
  NumLines = 2
  OneTime = {1}
  Net <- MCNet
  Collectible = {b11}
  Rule <- MCRule
  Claims <- MCClaims
INVARIANTS
  TypeOK
  CreditedOnce
  NumbersGapless
  LinesNotOverpaid
  LateFeeWithinRule
  OneTimeBilledOnce
  StatementAgrees
PROPERTIES
  PapersStand
SYMMETRY Symmetry
