CONSTANTS
  Users = {u1}
  Requests = {r1, r2, r3}
  Amounts = {1}
  FREE_TIER_CREDITS = 2
SPECIFICATION Spec
INVARIANT NoOverspend
CHECK_DEADLOCK FALSE
