\* An order is imported and then edited here; nothing fails and nothing changes
\* in Shopify.
SPECIFICATION Spec
CONSTANTS
  n1 = n1
  n2 = n2
  Remotes = {r1}
  Names = {n1, n2}
  Name <- NameN1
  Items = {1, 2}
  States = {"fulfilled", "cancelled"}
  Gateways = {"cod"}
  LocalStatuses = {"HOLD", "CANCELLED"}
  Slots = {s1, s2}
  MaxRetries = 1
  DuplicatesNamed = TRUE
  MaxRequests = 1
  MaxChanges = 0
  MaxFaults = 0
  Nil = Nil
PROPERTIES EditsReachShopify
