\* One Shopify order, paid on delivery: two goroutines, one request that changes
\* an order here, one change in Shopify, one failure, one retry.
SPECIFICATION Spec
CONSTANTS
  n1 = n1
  n2 = n2
  Remotes = {r1}
  Names = {n1, n2}
  Name <- NameN1
  Items = {1, 2}
  States = {"fulfilled", "cancelled"}
  Gateways = {"cod"}
  LocalStatuses = {"HOLD", "CANCELLED"}
  Slots = {s1, s2}
  MaxRetries = 1
  DuplicatesNamed = TRUE
  MaxRequests = 1
  MaxChanges = 1
  MaxFaults = 1
  Nil = Nil
INVARIANTS CancellationsHold
PROPERTIES SyncNeverWritesBack 
