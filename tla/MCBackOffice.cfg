\* Three tasks on one asset; three folders and two requests; two coupons with one
\* code, two orders, two requests; two marks of one order and one retry; one shop,
\* one delivery of each kind, two requests; one contact, one channel besides
\* "all", four stamps; one product with two
\* tags, two requests; two categories, two requests; two replicas of the server
\* with three starts; one product with two variants and images, two signing profiles
\* and one failing answer; one crash each of the others.
SPECIFICATION Spec
SYMMETRY BackOfficeSymmetry
CONSTANTS
  t1 = t1
  t2 = t2
  Assets = {a1}
  AssetTasks = {t1, t2, t3}
  Nobody = Nobody
  MaxAssetCrashes = 1
  Folders = {f1, f2, f3}
  Filed = {a1}
  FolderTasks = {t1, t2}
  Root = Root
  Coupons = {c1, c2}
  Codes = {k1}
  Purchases = {p1, p2}
  Redeemers = {e1}
  Limits = {1}
  CouponTasks = {t1, t2}
  NoLimit = NoLimit
  NoEmail = NoEmail
  NoUsage = NoUsage
  ShopOrders = {o1}
  o1 = o1
  m1 = m1
  m2 = m2
  GoodsOf <- MCGoods
  HandlerRetries = 1
  MaxFulfilments = 3
  MaxOrderEdits = 1
  MaxHandlerCrashes = 1
  NoMark = NoMark
  Shops = {s1}
  s1 = s1
  OrderHooks = {d1}
  UninstallHooks = {u1}
  d1 = d1
  u1 = u1
  HookShop <- MCHookShop
  HookTasks = {t1, t2}
  QueueLimit = 1
  MaxTokens = 2
  MaxRestarts = 1
  NoHook = NoHook
  Members = {y1}
  Channels = {"email"}
  StampTasks = {t1, t2}
  MaxTime = 4
  NoMember = NoMember
  Products = {q1}
  Tags = {1, 2}
  CatalogTasks = {t1, t2}
  NoProduct = NoProduct
  Categories = {g1, g2}
  ShopTasks = {t1, t2}
  Top = Top
  NoCategory = NoCategory
  Empty = Empty
  Replicas = {"old", "new"}
  Latest <- MCLatest
  MaxVersion = 2
  MaxStarts = 3
  MaxOperations = 1
  Operator = "operator"
  Parent = "base0"
  VariantSkus = {"v1", "v2"}
  ImageIds = {1, 2}
  Listables <- MCSheets
  MaxProfiles = 2
  MaxAnswers = 1
INVARIANTS AssetSafety FolderSafety CouponSafety FulfilmentSafety WebhookSafety StampSafety ProductsSafety ServerSafety
\* Every component stops at its bounds.
CHECK_DEADLOCK FALSE
