\* Two shops whose orders have the same name, imported by two goroutines, and a
\* driver whose duplicate-key message is not recognised; two contacts, addresses
\* and customers and a document, imported and administered by two tasks; an order
\* of two lines whose requests are sent twice and whose events are handled twice,
\* four identifiers of orders in pages of two, and two shops asked by two goroutines.
SPECIFICATION ImportSpec
SYMMETRY ImportSymmetry
CONSTANTS
  n1 = n1
  n2 = n2
  Remotes = {r1, r2}
  Names = {n1, n2}
  Name <- NameN1
  Items = {1}
  States = {"fulfilled", "cancelled"}
  Gateways = {"cod", "card"}
  LocalStatuses = {"HOLD", "CANCELLED"}
  Slots = {s1, s2}
  MaxRetries = 1
  DuplicatesNamed = FALSE
  MaxRequests = 1
  MaxChanges = 0
  MaxFaults = 1
  Nil = Nil
  t1 = t1
  t2 = t2
  p1 = p1
  p2 = p2
  k1 = k1
  k2 = k2
  e1 = e1
  e2 = e2
  Contacts = {p1, p2}
  Emails = {e1, e2}
  Documents = {d1}
  Customers = {k1, k2}
  ContactTasks = {t1, t2}
  NoDocument = NoDocument
  NoContact = NoContact
  AdminSkus = {v1, v2}
  MaxQuantity = 2
  AdminRetries = 1
  BusRetries = 1
  MaxEditEvents = 1
  ShopIds = {1, 2, 3, 4}
  ListLimit = 2
  Threshold = 2
  Shops = {s1, s2}
  Callers = {g1, g2}
  Interval = 2
  LastTick = 6
INVARIANTS LinksAgree 
