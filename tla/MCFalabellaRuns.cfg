\* One worker, one cron tick and one request by hand, a product with one variant,
\* two signing profiles, two feeds; two synchronisations with three run records;
\* one crash each.
SPECIFICATION Spec
CONSTANTS
  SyncJobs = {j1}
  Ticks = {c1}
  Requests = {q1}
  BaseSku = base
  VariantSkus = {v1}
  MaxTries = 2
  PollAttempts = 2
  PendingLimit = 1
  MaxFeeds = 2
  MaxSyncCrashes = 1
  Syncs = {g1, g2}
  MaxRuns = 3
  MaxRunCrashes = 1
INVARIANTS FeedSafety 
PROPERTIES FeedsResolve RunsEnd
\* Feeds and run records stop at their bounds.
CHECK_DEADLOCK FALSE
