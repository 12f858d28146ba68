SPECIFICATION Spec
CONSTANTS
  u1 = u1
  User = {u1}
  Client = {c1, c2}
  MaxOrders = 2
  OwnerOf <- MCOneUser
  Amount = {1, 2}
  GrantKey = {k1}
  MaxDeposit = 4
  ReadCommitted = FALSE
SYMMETRY Symmetry
INVARIANTS TypeOK ReservedBacksOpenOrders CreditsAreConserved
PROPERTY KeepsPromise
CHECK_DEADLOCK FALSE
