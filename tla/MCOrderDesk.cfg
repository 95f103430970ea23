\* Dispatch: one request after the other, no faults, every sequence of operations
\* over two marks, two batches, a remote, a manual and an unregistered carrier.
\* Beside it: orders of up to two standing and nine nested pieces, two requests
\* for the same quotation, two orders to collect for, two requests that change
\* the order analytics follows, two requests on an order of the shop or of
\* WooCommerce, three lines looked up by two goroutines, three customers, two
\* requests for parcels, three marks, five rows to search, four products.
SPECIFICATION DeskSpec
CONSTANTS
  Marks = {1, 2}
  Batches = {b1, b2}
  Orders = {o1}
  Quotes = {q1}
  Carriers = {tcc, manual, acme}
  Registered = {tcc, manual}
  Manual = {manual}
  Slots = {s1}
  Ops = {"CreateBatch", "DraftMark", "QuoteMark", "DirectMark", "Close", "RemoveDraftMark", "UpdateDraftMark", "Void", "Generate"}
  Faults = FALSE
  ChangedRows = FALSE
  MaxAccept = 2
  Nil = Nil
  Volumes = {1, 2}
  MaxStanding = 2
  MaxNested = 9
  QuoteTasks = {t1, t2}
  QuoteRows = {r1, r2, r3}
  Parcels = {parcel}
  CodOrders = {c1, c2}
  Debts = {0, 2}
  FreightCosts = {1, 3}
  Surcharge = 50
  PaymentForms = {"1", "2"}
  QuoteTtl = 1
  LastInstant = 2
  FactTasks = {f1, f2}
  Seeders = {e1}
  Skus = {k1}
  MaxStamp = 2
  MaxStatus = 2
  FactTries = 2
  DocMarks = {1}
  Readers = {d1, d2}
  Closers = {x1, x2}
  CacheTtl = 1
  LastSecond = 2
  MaxEdits = 2
  Walkers = {w1, w2}
  Rows = {1, 2}
  PageSize = 1
  LastStamp = 2
  Clerks = {h1, h2}
  WebOrders = {o1}
  WooOrders = {o2}
  MaxRemark = 3
  OrderLines = 3
  Crew = {g1, g2}
  Profiles <- MCProfiles
  Segments <- MCSegments
  LostTypes = {"rfm_score", "rfm_range", "tag_affinity", "category_affinity", "variation_affinity", "mail_open_rate"}
  PageLimit = 1
  Trackers = {u1, u2}
  TrackedMarks = {1, 2, 3}
  Happenings <- MCHappenings
  HistoryTtl = 1
  CallTime = 1
  LastMoment = 3
  ChunkSize = 1
  Entries <- MCEntries
  Searches <- MCSearches
  Spotlights <- MCSpotlights
  MaxInt = 15
  DefaultSize = 2
  MaxSize = 3
  AskedMost = 3
  SpotMost = 2
  Shelves <- MCShelves
  Offers <- MCOffers
  Wishes <- MCWishes
  KnownTags = {1, 2, 3}
  Correlated <- MCCorrelated
  KnownSections = {11, 12, 13}
  Below <- MCBelow
  WithChildren = {11}
  FetchFactor = 3
  WideFactor = 10
  MaxTouches = 1
INVARIANTS
  
  PackedSafely
  QuoteSafety
  
  
  
  RecordSafety
PROPERTIES
  MarkLifecycle
\* The server may be idle with every identifier used.
CHECK_DEADLOCK FALSE
