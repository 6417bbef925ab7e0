SPECIFICATION PlatformSpec
CONSTANTS
  Registrations = {g1, g2}
  Clicks = {k1, k2}
  MaxCalls = 3
  MaxSeconds = 2
  Uploads = {i1, i2}
  Removals = {d1, d2}
  o1 = o1
  Owners = {o1, o2}
  OwnerOf <- MCOwnerOf
  StorageKeyOf <- MCStorageKeyOf
  Images = {m1}
  UrlKinds = {"s3", "allowed", "other"}
  MaxRetries = 3
  TimeoutDelays = 3
  Requests = {q1, q2}
  InitialCredits = 1
  MaxFaults = 2
CHECK_DEADLOCK FALSE
INVARIANT PaymentIsRequired
