SPECIFICATION PaymentsSpec
CONSTANTS
  Users = {u1}
  PaymentIds = {p1}
  Charges = {c1}
  Hooks = {h1, h2}
  p1 = p1
  p2 = p2
  u1 = u1
  c1 = c1
  c2 = c2
  c3 = c3
  PayerOf <- MCPayerOf
  CreditsOf <- MCCreditsOf
  KeyOf <- MCKeyOf
  PreferenceOf <- MCPreferenceOf
  MAX_ATTEMPTS = 5
  MaxFaults = 1
CHECK_DEADLOCK FALSE
INVARIANT ApprovedIsPublished
