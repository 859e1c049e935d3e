SPECIFICATION Safety
CONSTANTS
  d1 = d1
  d2 = d2
  r1 = r1
  r2 = r2
  x1 = x1
  x2 = x2
  x3 = x3
  Nobody = Nobody
  Drains = {d1, d2}
  Rows = {r1}
  Deliveries = {x1, x2}
  RowOf <- MCRowOf
  MaxAttempts = 2
  MaxRetries = 1
  Concurrency = 1
  BatchCap = 2
  MaxFaults = 2
INVARIANTS
  OneDrainPerDelivery
  RepeatsAreExcused
PROPERTIES
  PromiseKept
SYMMETRY Symmetry
