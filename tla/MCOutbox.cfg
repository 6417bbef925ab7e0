SPECIFICATION FairOutboxSpec
CONSTANTS
  Users = {u1, u2}
  PaymentIds = {p1, p2, p3}
  Pollers = {w1, w2}
  p1 = p1
  p2 = p2
  p3 = p3
  u1 = u1
  u2 = u2
  PayerOf <- MCPayerOf
  CreditsOf <- MCCreditsOf
  FREE_TIER_CREDITS = 1
  MAX_ATTEMPTS = 5
  BATCH_SIZE = 2
  MaxEvents = 2
  MaxFaults = 2
CHECK_DEADLOCK FALSE
INVARIANTS ProcessorTypeOK NeverDeadLettered ProcessedIsCredited BalanceWithinEarned
PROPERTIES ProcessedIsFinal EveryEventSettles
