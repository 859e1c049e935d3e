SPECIFICATION Spec
CONSTANTS
  Clerks = {c1}
  Members = {m1, m2}
  Titles = {t1}
  k1 = k1
  k2 = k2
  t1 = t1
  b1 = b1
  b2 = b2
  Copies = {k1, k2}
  Registered = {k1, k2}
  Branches = {b1, b2}
  TitleOf <- MCTitleOf
  BranchOf <- MCBranchOf
  HomeBranch <- MCHomeBranch
  Scope <- MCScope
  Policy <- MCPolicy
  Inactive = {}
  FineFree = {}
  InVisit = {m1, m2}
  Prices = {2}
  IssueIds = {1, 2}
  ResvIds = {1, 2}
  FineIds = {1, 2}
  LostIds = {1}
  MaxDay = 2
  Routes = {"issue", "return", "renew", "void", "reserve", "cancel"}
  MCMaxBooks = 2
  MCMaxFine = 3
  MCOutstanding = NULL
  MCAway = {}
  NULL = NULL
INVARIANTS
  ShelfConsistent
  MarkHasEvidence
SYMMETRY DeskSymmetry
