CONSTANTS
  Users = {u1, u2}
  Requests = {r1, r2, r3}
  Amounts = {1, 2}
  FREE_TIER_CREDITS = 2
SPECIFICATION Spec
INVARIANTS
  TypeOK
  CreditsNeverNegative
  CreditsWithinGrants
  BalanceIsLedger
PROPERTIES
  ImplementsLedger
CHECK_DEADLOCK FALSE
