SPECIFICATION Spec
CONSTANTS
  Clerks = {c1}
  Members = {m1}
  Titles = {t1}
  k1 = k1
  k2 = k2
  t1 = t1
  b1 = b1
  b2 = b2
  Copies = {k1, k2}
  Registered = {k1}
  Branches = {b1, b2}
  TitleOf <- MCTitleOf
  BranchOf <- MCBranchOf
  HomeBranch <- MCHomeBranch
  Scope <- MCScope
  Policy <- MCPolicy
  Inactive = {}
  FineFree = {}
  InVisit = {}
  Prices = {2}
  IssueIds = {1, 2}
  ResvIds = {1}
  FineIds = {1, 2, 3}
  LostIds = {1, 2}
  MaxDay = 3
  Routes = {"issue", "return", "waive", "pay", "reportLost", "selfReportLost", "confirmLost", "rejectLost", "payLost", "writeOffLost", "replaceInKind", "foundLost", "turnedUp", "markRefunded"}
  MCMaxBooks = 1
  MCMaxFine = 3
  MCOutstanding = NULL
  MCAway = {}
  NULL = NULL
INVARIANTS
  LostCopyRetired
  LateChargedOnce
  NoMoneyForRejectedLoss
  LateChargeFrozen
  PaidOrWaivedNotBoth
PROPERTIES
  TurnedUpDecidedOnce
