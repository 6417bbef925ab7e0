SPECIFICATION FairSpec
CONSTANTS
  Users = {u1}
  PaymentIds = {p1}
  Charges = {c1, c2}
  Hooks = {h1, h2}
  Pollers = {w1, w2}
  p1 = p1
  u1 = u1
  PayerOf <- MCPayerOf
  CreditsOf <- MCCreditsOf
  KeyOf <- MCKeyOf
  PreferenceOf <- Retried
  FREE_TIER_CREDITS = 1
  MAX_ATTEMPTS = 5
  BATCH_SIZE = 2
  MaxEvents = 2
  MaxFaults = 1
CHECK_DEADLOCK FALSE
INVARIANT NoCreditWithoutCharge
PROPERTIES PaidNotificationCredits ImplementsPaidCredits
