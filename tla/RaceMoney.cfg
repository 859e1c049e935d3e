SPECIFICATION Spec
CONSTANTS
  Clerks = {c1, c2}
  Members = {m1}
  Titles = {t1}
  k1 = k1
  k2 = k2
  t1 = t1
  b1 = b1
  b2 = b2
  Copies = {k1, k2}
  Registered = {k1}
  Branches = {b1, b2}
  TitleOf <- MCTitleOf
  BranchOf <- MCBranchOf
  HomeBranch <- MCHomeBranch
  Scope <- MCScope
  Policy <- MCPolicy
  Inactive = {}
  FineFree = {}
  InVisit = {}
  Prices = {2}
  IssueIds = {1}
  ResvIds = {1}
  FineIds = {1, 2}
  LostIds = {1, 2}
  MaxDay = 2
  Routes = {"issue", "return", "reportLost", "reportMissing", "payLost", "writeOffLost", "replaceInKind", "foundLost", "turnedUp", "markRefunded", "pay", "waive"}
  MCMaxBooks = 1
  MCMaxFine = 3
  MCOutstanding = NULL
  MCAway = {}
  NULL = NULL
INVARIANTS
  PaymentTakenOnce
PROPERTIES
  DeskLossSettledOnce
SYMMETRY ClerkSymmetry
