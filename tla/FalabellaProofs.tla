---------------------------- MODULE FalabellaProofs ----------------------------
(***************************************************************************)
(* The Falabella feeds and the run records of the synchronisations are     *)
(* safe, for any number of workers, ticks, feeds, runs and crashes.        *)
(*                                                                         *)
(* Feeds: FeedInv adds to FeedSafety what each worker relies on at each    *)
(* stage of an item (the feed it waits for is the product feed of its SKU; *)
(* once it sends images the product is in) and what each resolver holds    *)
(* (a status it has read is still so, because a finished feed never        *)
(* changes).  Steps of Seller Center are shown to keep all of that at once *)
(* (FeedsGrow, GrowthKeeps), so a worker's step has to account for the     *)
(* worker alone.                                                           *)
(*                                                                         *)
(* Runs: RunsInv follows each goroutine through its statements: what its   *)
(* local outcome says is what became of the work of its run, and no other  *)
(* goroutine writes that run.                                              *)
(***************************************************************************)
EXTENDS FalabellaSync, SyncRuns, FiniteSetTheorems, SequenceTheorems, TLAPS

------------------------------------------------------------------------------
(* Feeds: the inductive invariant *)


\* Seller Center finished a product feed of the SKU without failed records.
ProductIn(sku) ==
    \E g \in DOMAIN feeds :
        feeds[g].step = "product" /\ feeds[g].sku = sku /\ feeds[g].state = "ok"

\* What a worker relies on at each stage of an item.
JobHolds(j) ==
    /\ job[j].at \notin {"idle", "next"} => job[j].todo # <<>>
    /\ job[j].at \in {"recordProduct", "recordImage"} /\ job[j].feed # NoFeed =>
         job[j].feed \in DOMAIN feeds
    /\ job[j].at \in {"recordProduct", "wait"} /\ job[j].feed # NoFeed =>
         /\ job[j].feed \in DOMAIN feeds
         /\ feeds[job[j].feed].step = "product" /\ feeds[job[j].feed].sku = Sku(j)
    /\ job[j].at = "wait" => job[j].feed # NoFeed
    /\ job[j].at = "image" => ProductIn(Sku(j))

\* A resolver asks about feeds that exist, and what it has read is so.
CheckHolds(r) ==
    \A f \in FeedIds :
        /\ check[r][f] # "no" => f \in DOMAIN feeds
        /\ check[r][f] = "finished" => feeds[f].state = "ok"
        /\ check[r][f] = "failed" => feeds[f].state = "bad"

FeedInv ==
    /\ FeedSafety
    /\ \A i \in DOMAIN recorded : recorded[i] \in DOMAIN feeds
    /\ \A j \in SyncJobs : JobHolds(j)
    /\ \A r \in Resolvers : CheckHolds(r)

------------------------------------------------------------------------------
(* Feeds *)

LEMMA FeedInvTypes ==
    ASSUME FeedInv
    PROVE  /\ feeds \in Seq(Feed) /\ Len(feeds) \in 0..MaxFeeds
           /\ DOMAIN feeds = 1..Len(feeds) /\ DOMAIN feeds \subseteq FeedIds
           /\ \A f \in DOMAIN feeds : feeds[f] \in Feed
           /\ entries \in [FeedIds -> EntryStates] /\ recorded \in Seq(FeedIds)
           /\ job \in [SyncJobs -> Job]
           /\ check \in [Resolvers -> [FeedIds -> CheckStates]]
           /\ syncCrashes \in 0..MaxSyncCrashes
<1>1. FalabellaTypes /\ MaxFeeds \in Nat
  BY FalabellaAssumption DEF FeedInv, FeedSafety
<1>2. feeds \in Seq(Feed) /\ Len(feeds) <= MaxFeeds
  BY <1>1 DEF FalabellaTypes
<1>3. /\ Len(feeds) \in 0..MaxFeeds /\ DOMAIN feeds = 1..Len(feeds)
      /\ DOMAIN feeds \subseteq FeedIds
      /\ \A f \in DOMAIN feeds : feeds[f] \in Feed
  BY <1>1, <1>2 DEF FeedIds
<1> QED BY <1>1, <1>2, <1>3 DEF FalabellaTypes

\* Feeds are only added, and one that is finished stays as it is.
FeedsGrow ==
    /\ DOMAIN feeds \subseteq DOMAIN feeds'
    /\ \A f \in DOMAIN feeds :
         /\ feeds'[f].step = feeds[f].step /\ feeds'[f].sku = feeds[f].sku
         /\ feeds[f].state # "queued" => feeds'[f].state = feeds[f].state

LEMMA GrowthKeeps ==
    ASSUME FeedInv, FeedsGrow
    PROVE  /\ \A i \in DOMAIN recorded : recorded[i] \in DOMAIN feeds'
           /\ \A sku : ProductIn(sku) => ProductIn(sku)'
           /\ \A j \in SyncJobs : job'[j] = job[j] => JobHolds(j)'
           /\ check' = check => \A r \in Resolvers : CheckHolds(r)'
           /\ entries' = entries => ResolvedAgrees'
<1>1. \A i \in DOMAIN recorded : recorded[i] \in DOMAIN feeds'
  BY DEF FeedInv, FeedsGrow
<1>2. \A sku : ProductIn(sku) => ProductIn(sku)'
  BY DEF FeedsGrow, ProductIn
<1>3. ASSUME NEW j \in SyncJobs, job'[j] = job[j] PROVE JobHolds(j)'
  <2>1. JobHolds(j)
    BY DEF FeedInv
  <2>1a. PICK sku : sku = Sku(j)
    OBVIOUS
  <2>2. /\ Head(job'[j].todo) = sku
        /\ job[j].at = "image" =>
             \E g \in DOMAIN feeds' :
               feeds'[g].step = "product" /\ feeds'[g].sku = sku /\ feeds'[g].state = "ok"
    BY <1>2, <1>3, <2>1, <2>1a DEF ProductIn, JobHolds, Sku
  <2>3. job'[j].at = "image" => ProductIn(Sku(j))'
    BY <1>3, <2>2 DEF ProductIn, Sku
  <2>4. job[j].at \in {"recordProduct", "wait"} /\ job[j].feed # NoFeed =>
          /\ job[j].feed \in DOMAIN feeds'
          /\ feeds'[job[j].feed].step = "product" /\ feeds'[job[j].feed].sku = sku
    BY <2>1, <2>1a DEF JobHolds, FeedsGrow
  <2>5. job[j].at \in {"recordProduct", "recordImage"} /\ job[j].feed # NoFeed =>
          job[j].feed \in DOMAIN feeds'
    BY <2>1 DEF JobHolds, FeedsGrow
  <2> QED BY <1>3, <2>1, <2>2, <2>3, <2>4, <2>5 DEF JobHolds, Sku
<1>4. check' = check => \A r \in Resolvers : CheckHolds(r)'
  BY DEF FeedInv, CheckHolds, FeedsGrow
<1>5. entries' = entries => ResolvedAgrees'
  BY DEF FeedInv, FeedSafety, ResolvedAgrees, FeedsGrow
<1> QED BY <1>1, <1>2, <1>3, <1>4, <1>5

LEMMA NoGrowth ==
    ASSUME FeedInv, feeds' = feeds PROVE FeedsGrow /\ ImagesFollowProduct'
BY DEF FeedsGrow, FeedInv, FeedSafety, ImagesFollowProduct, IsSuccess

LEMMA FinishFeedKeeps ==
    ASSUME FeedInv, NEW f \in FeedIds, FinishFeed(f)
    PROVE  FeedInv'
<1>1. PICK s \in {"ok", "bad"} : feeds' = [feeds EXCEPT ![f].state = s]
  BY DEF FinishFeed
<1>2. PICK x : x = [feeds[f] EXCEPT !.state = s]
  OBVIOUS
<1>3. /\ f \in DOMAIN feeds /\ feeds[f] \in Feed /\ feeds[f].state = "queued"
      /\ entries' = entries /\ recorded' = recorded /\ job' = job /\ check' = check
      /\ syncCrashes' = syncCrashes
  BY FeedInvTypes DEF FinishFeed, IsFinished
<1>4. x \in Feed /\ x.step = feeds[f].step /\ x.sku = feeds[f].sku /\ x.state = s
  BY <1>2, <1>3 DEF Feed, FeedStates
<1>5. feeds' = [feeds EXCEPT ![f] = x]
  BY <1>1, <1>2
<1>6. /\ feeds' \in Seq(Feed) /\ Len(feeds') = Len(feeds) /\ DOMAIN feeds' = DOMAIN feeds
      /\ feeds'[f] = x /\ \A g \in DOMAIN feeds : g # f => feeds'[g] = feeds[g]
  BY <1>3, <1>4, <1>5, FeedInvTypes
<1>7. FeedsGrow
  BY <1>3, <1>4, <1>6 DEF FeedsGrow
<1>8. FalabellaTypes'
  <2>1. Len(feeds') <= MaxFeeds
    BY <1>6 DEF FeedInv, FeedSafety, FalabellaTypes
  <2> QED BY <1>3, <1>6, <2>1, FeedInvTypes DEF FalabellaTypes
<1>9. ImagesFollowProduct'
  <2> SUFFICES ASSUME NEW i \in DOMAIN feeds, feeds'[i].step = "image"
               PROVE  \E g \in DOMAIN feeds :
                        /\ g < i /\ feeds'[g].step = "product"
                        /\ feeds'[g].sku = feeds'[i].sku /\ feeds'[g].state = "ok"
    BY <1>6 DEF ImagesFollowProduct, IsSuccess
  <2>1. PICK g \in DOMAIN feeds :
          /\ g < i /\ feeds[g].step = "product"
          /\ feeds[g].sku = feeds[i].sku /\ feeds[g].state = "ok"
    BY <1>7 DEF FeedInv, FeedSafety, ImagesFollowProduct, IsSuccess, FeedsGrow
  <2> QED BY <1>7, <2>1 DEF FeedsGrow
<1> QED
  BY <1>3, <1>7, <1>8, <1>9, GrowthKeeps DEF FeedInv, FeedSafety

\* A feed more, of images only once the product is in.
LEMMA OpenFeedGrows ==
    ASSUME FeedInv, NEW sku \in Skus, NEW step \in {"product", "image"},
           Len(feeds) < MaxFeeds, OpenFeed(sku, step),
           step = "image" => ProductIn(sku)
    PROVE  /\ feeds' \in Seq(Feed) /\ Len(feeds') <= MaxFeeds
           /\ FeedsGrow /\ ImagesFollowProduct'
           /\ Len(feeds) + 1 \in FeedIds /\ Len(feeds) + 1 \in DOMAIN feeds'
           /\ feeds'[Len(feeds) + 1].step = step /\ feeds'[Len(feeds) + 1].sku = sku
<1>1. PICK x, n : x = [sku |-> sku, step |-> step, state |-> "queued"] /\ n = Len(feeds) + 1
  OBVIOUS
<1>2. x \in Feed /\ x.sku = sku /\ x.step = step
  BY <1>1 DEF Feed, FeedStates
<1>3. /\ feeds' = Append(feeds, x) /\ Len(feeds) \in Nat /\ MaxFeeds \in Nat
      /\ feeds \in Seq(Feed) /\ DOMAIN feeds = 1..Len(feeds)
  BY <1>1, FeedInvTypes, FalabellaAssumption DEF OpenFeed
<1>4. /\ feeds' \in Seq(Feed) /\ Len(feeds') = n /\ DOMAIN feeds' = 1..n
      /\ n \in 1..MaxFeeds
      /\ feeds'[n] = x /\ \A g \in DOMAIN feeds : feeds'[g] = feeds[g] /\ g < n
  BY <1>1, <1>2, <1>3
<1>5. FeedsGrow
  BY <1>1, <1>3, <1>4 DEF FeedsGrow
<1>6. ImagesFollowProduct'
  <2> SUFFICES ASSUME NEW i \in DOMAIN feeds', feeds'[i].step = "image"
               PROVE  \E g \in DOMAIN feeds' :
                        /\ g < i /\ feeds'[g].step = "product"
                        /\ feeds'[g].sku = feeds'[i].sku /\ feeds'[g].state = "ok"
    BY DEF ImagesFollowProduct, IsSuccess
  <2>1. CASE i \in DOMAIN feeds
    <3>1. PICK g \in DOMAIN feeds :
            /\ g < i /\ feeds[g].step = "product"
            /\ feeds[g].sku = feeds[i].sku /\ feeds[g].state = "ok"
      BY <1>4, <2>1 DEF FeedInv, FeedSafety, ImagesFollowProduct, IsSuccess
    <3> QED BY <1>4, <1>5, <2>1, <3>1 DEF FeedsGrow
  <2>2. CASE i \notin DOMAIN feeds
    <3>1. i = n
      BY <1>1, <1>3, <1>4, <2>2
    <3>2. PICK g \in DOMAIN feeds :
            feeds[g].step = "product" /\ feeds[g].sku = sku /\ feeds[g].state = "ok"
      BY <1>2, <1>4, <3>1 DEF ProductIn
    <3> QED BY <1>2, <1>4, <1>5, <3>1, <3>2 DEF FeedsGrow
  <2> QED BY <2>1, <2>2
<1> QED BY <1>1, <1>2, <1>4, <1>5, <1>6 DEF FeedIds

------------------------------------------------------------------------------
(* Workers *)

\* One worker moves; feeds may have been added, the tables stay.
JobStep(j, s) ==
    /\ job' = [job EXCEPT ![j] = s]
    /\ s \in Job
    /\ entries' = entries /\ recorded' = recorded /\ check' = check
    /\ syncCrashes' = syncCrashes

LEMMA JobStepKeeps ==
    ASSUME FeedInv, NEW j \in SyncJobs, NEW s, JobStep(j, s),
           feeds' \in Seq(Feed), Len(feeds') <= MaxFeeds, FeedsGrow, ImagesFollowProduct',
           JobHolds(j)'
    PROVE  FeedInv'
<1>1. /\ job' \in [SyncJobs -> Job]
      /\ \A k \in SyncJobs : k # j => job'[k] = job[k]
  BY FeedInvTypes DEF JobStep
<1>2. FalabellaTypes'
  BY <1>1, FeedInvTypes DEF JobStep, FalabellaTypes
<1>3. \A k \in SyncJobs : JobHolds(k)'
  BY <1>1, GrowthKeeps
<1> QED BY <1>2, <1>3, GrowthKeeps DEF FeedInv, FeedSafety, JobStep

LEMMA JobIs ==
    ASSUME FeedInv, NEW j \in SyncJobs
    PROVE  /\ job[j] \in Job /\ job[j].todo \in Seq(Skus) /\ JobHolds(j)
           /\ job[j].todo # <<>> => Sku(j) \in Skus /\ Tail(job[j].todo) \in Seq(Skus)
<1>1. job[j] \in Job /\ job[j].todo \in Seq(Skus)
  BY FeedInvTypes DEF Job
<1> QED BY <1>1 DEF FeedInv, Sku

LEMMA EndItemIs ==
    ASSUME FeedInv, NEW j \in SyncJobs, job[j].todo # <<>>, EndItem(j)
    PROVE  /\ \E s \in Job : job' = [job EXCEPT ![j] = s]
           /\ JobHolds(j)'
<1>1. PICK s : s = [job[j] EXCEPT !.at = "next", !.todo = Tail(@), !.feed = NoFeed,
                                  !.tries = 0, !.polls = 0]
  OBVIOUS
<1>2. /\ NoFeed \in FeedIds \cup {NoFeed} /\ 0 \in 0..MaxTries /\ 0 \in 0..PollAttempts
      /\ "next" \in JobStages
  BY FalabellaAssumption DEF JobStages
<1>3. s \in Job /\ s.at = "next"
  BY <1>1, <1>2, JobIs DEF Job
<1>4. job' = [job EXCEPT ![j] = s]
  BY <1>1 DEF EndItem
<1>5. job'[j] = s
  BY <1>4, FeedInvTypes
<1> QED BY <1>3, <1>4, <1>5 DEF JobHolds

LEMMA EndsItem ==
    ASSUME FeedInv, NEW j \in SyncJobs, job[j].todo # <<>>, EndItem(j),
           feeds' \in Seq(Feed), Len(feeds') <= MaxFeeds, FeedsGrow, ImagesFollowProduct',
           entries' = entries, recorded' = recorded, check' = check,
           syncCrashes' = syncCrashes
    PROVE  FeedInv'
<1>1. PICK s : s \in Job /\ job' = [job EXCEPT ![j] = s] /\ JobHolds(j)'
  BY EndItemIs
<1> QED BY <1>1, JobStepKeeps DEF JobStep

\* The quiet steps: nothing but the worker moves.
LEMMA QuietJobStep ==
    ASSUME FeedInv, NEW j \in SyncJobs, NEW s, JobStep(j, s), feeds' = feeds, JobHolds(j)'
    PROVE  FeedInv'
<1>1. feeds' \in Seq(Feed) /\ Len(feeds') <= MaxFeeds
  BY DEF FeedInv, FeedSafety, FalabellaTypes
<1> QED BY <1>1, NoGrowth, JobStepKeeps

LEMMA QuietEnd ==
    ASSUME FeedInv, NEW j \in SyncJobs, job[j].todo # <<>>, EndItem(j), feeds' = feeds,
           entries' = entries, recorded' = recorded, check' = check,
           syncCrashes' = syncCrashes
    PROVE  FeedInv'
<1>1. feeds' \in Seq(Feed) /\ Len(feeds') <= MaxFeeds
  BY DEF FeedInv, FeedSafety, FalabellaTypes
<1> QED BY <1>1, NoGrowth, EndsItem

LEMMA StartSyncKeeps ==
    ASSUME FeedInv, NEW j \in SyncJobs, StartSync(j)
    PROVE  FeedInv'
<1>1. PICK list \in Worklists :
        job' = [job EXCEPT ![j].at = "next", ![j].todo = list, ![j].seen = {}]
  BY DEF StartSync
<1>2. list \in Seq(Skus)
  <2>1. CASE list = <<BaseSku>>
    BY <2>1 DEF Skus
  <2>2. CASE list \in [1..1 -> VariantSkus]
    <3>1. list \in [1..1 -> Skus]
      BY <2>2 DEF Skus
    <3>2. [1..1 -> Skus] \in {[1..n -> Skus] : n \in Nat}
      OBVIOUS
    <3> QED BY <3>1, <3>2, SeqDef, Zenon
  <2>3. CASE list \in [1..2 -> VariantSkus]
    <3>1. list \in [1..2 -> Skus]
      BY <2>3 DEF Skus
    <3>2. [1..2 -> Skus] \in {[1..n -> Skus] : n \in Nat}
      OBVIOUS
    <3> QED BY <3>1, <3>2, SeqDef, Zenon
  <2> QED BY <2>1, <2>2, <2>3 DEF Worklists
<1>3. PICK s : s = [job[j] EXCEPT !.at = "next", !.todo = list, !.seen = {}]
  OBVIOUS
<1>4. s \in Job /\ s.at = "next"
  BY <1>2, <1>3, JobIs DEF Job, JobStages
<1>5. job' = [job EXCEPT ![j] = s]
  BY <1>1, <1>3
<1>6. job'[j] = s
  BY <1>5, FeedInvTypes
<1>7. JobHolds(j)'
  BY <1>4, <1>6 DEF JobHolds
<1> QED BY <1>4, <1>5, <1>7, QuietJobStep DEF StartSync, JobStep

LEMMA IdleJobIs == IdleJob \in Job /\ IdleJob.at = "idle"
<1>1. <<>> \in Seq(Skus) /\ 0 \in 0..MaxTries /\ 0 \in 0..PollAttempts
  BY FalabellaAssumption
<1> QED BY <1>1 DEF IdleJob, Job, JobStages

LEMMA EndSyncKeeps ==
    ASSUME FeedInv, NEW j \in SyncJobs, EndSync(j)
    PROVE  FeedInv'
<1>1. job' = [job EXCEPT ![j] = IdleJob]
  BY DEF EndSync
<1>2. job'[j] = IdleJob
  BY <1>1, FeedInvTypes
<1>3. JobHolds(j)'
  BY <1>2, IdleJobIs DEF JobHolds
<1> QED BY <1>1, <1>3, IdleJobIs, QuietJobStep DEF EndSync, JobStep

LEMMA NextItemKeeps ==
    ASSUME FeedInv, NEW j \in SyncJobs, NextItem(j)
    PROVE  FeedInv'
<1>1. CASE EndItem(j)
  BY <1>1, QuietEnd DEF NextItem
<1>2. CASE job' = [job EXCEPT ![j].at = "lookup", ![j].seen = @ \cup {Sku(j)}]
  <2>1. PICK s : s = [job[j] EXCEPT !.at = "lookup", !.seen = @ \cup {Sku(j)}]
    OBVIOUS
  <2>2. job[j].todo # <<>>
    BY DEF NextItem
  <2>3. s \in Job /\ s.at = "lookup" /\ s.todo = job[j].todo
    BY <2>1, <2>2, JobIs DEF Job, JobStages
  <2>4. job' = [job EXCEPT ![j] = s]
    BY <1>2, <2>1
  <2>5. job'[j] = s
    BY <2>4, FeedInvTypes
  <2>6. JobHolds(j)'
    BY <2>2, <2>3, <2>5 DEF JobHolds
  <2> QED BY <2>3, <2>4, <2>6, QuietJobStep DEF NextItem, JobStep
<1> QED BY <1>1, <1>2 DEF NextItem

LEMMA LookupKeeps ==
    ASSUME FeedInv, NEW j \in SyncJobs, ShouldUpdateProduct(j)
    PROVE  FeedInv'
<1>0. job[j].todo # <<>>
  BY JobIs DEF ShouldUpdateProduct, JobHolds
<1>1. CASE EndItem(j)
  BY <1>0, <1>1, QuietEnd DEF ShouldUpdateProduct
<1>2. CASE job' = [job EXCEPT ![j].at = "product"]
  <2>1. PICK s : s = [job[j] EXCEPT !.at = "product"]
    OBVIOUS
  <2>3. s \in Job /\ s.at = "product" /\ s.todo = job[j].todo
    BY <2>1, JobIs DEF Job, JobStages
  <2>4. job' = [job EXCEPT ![j] = s]
    BY <1>2, <2>1
  <2>5. job'[j] = s
    BY <2>4, FeedInvTypes
  <2>6. JobHolds(j)'
    BY <1>0, <2>3, <2>5 DEF JobHolds
  <2> QED BY <2>3, <2>4, <2>6, QuietJobStep DEF ShouldUpdateProduct, JobStep
<1> QED BY <1>1, <1>2 DEF ShouldUpdateProduct

LEMMA TriesAllowedBound == TriesAllowed \in Nat /\ TriesAllowed <= MaxTries
<1>1. IsFiniteSet(XmlAndNoFormat)
  <2>1. IsFiniteSet(1..12)
    BY FS_Interval, 1 \in Int, 12 \in Int
  <2>2. XmlAndNoFormat \subseteq 1..12
    BY DEF XmlAndNoFormat
  <2> QED BY <2>1, <2>2, FS_Subset
<1>2. Cardinality(XmlAndNoFormat) \in Nat
  BY <1>1, FS_CardinalityType
<1> QED BY <1>2, FalabellaAssumption DEF TriesAllowed

\* A POST, whatever becomes of it.
LEMMA PostKeeps ==
    ASSUME FeedInv, NEW j \in SyncJobs, NEW step \in {"product", "image"},
           NEW next \in {"recordProduct", "recordImage"},
           job[j].at = step, step = "product" <=> next = "recordProduct",
           Post(j, step, next),
           entries' = entries, recorded' = recorded, check' = check,
           syncCrashes' = syncCrashes
    PROVE  FeedInv'
<1>1. PICK o \in Outcomes :
        /\ OpensFeed(o) => Len(feeds) < MaxFeeds
        /\ IF OpensFeed(o) THEN OpenFeed(Sku(j), step) ELSE UNCHANGED feeds
        /\ CASE TryNextProfile(o) /\ job[j].tries + 1 < TriesAllowed ->
                  job' = [job EXCEPT ![j].tries = @ + 1]
             [] TryNextProfile(o) /\ job[j].tries + 1 >= TriesAllowed -> EndItem(j)
             [] o = "rejected" -> EndItem(j)
             [] o = "opaque" ->
                  job' = [job EXCEPT ![j].at = next, ![j].feed = NoFeed, ![j].tries = 0]
             [] o = "accepted" ->
                  job' = [job EXCEPT ![j].at = next, ![j].feed = Len(feeds) + 1,
                                     ![j].tries = 0]
  BY DEF Post
<1>2. PICK sku, n : sku = Sku(j) /\ n = Len(feeds) + 1
  OBVIOUS
<1>3. /\ job[j].todo # <<>> /\ sku \in Skus /\ job[j] \in Job
      /\ step = "image" => ProductIn(sku)
  BY <1>2, JobIs DEF JobHolds
<1>4. /\ feeds' \in Seq(Feed) /\ Len(feeds') <= MaxFeeds
      /\ FeedsGrow /\ ImagesFollowProduct'
      /\ OpensFeed(o) => /\ n \in FeedIds /\ n \in DOMAIN feeds'
                         /\ feeds'[n].step = step /\ feeds'[n].sku = sku
  <2>1. CASE OpensFeed(o)
    BY <1>1, <1>2, <1>3, <2>1, OpenFeedGrows
  <2>2. CASE ~OpensFeed(o)
    <3>1. feeds' = feeds
      BY <1>1, <2>2
    <3> QED BY <2>2, <3>1, NoGrowth DEF FeedInv, FeedSafety, FalabellaTypes
  <2> QED BY <2>1, <2>2
<1>5. job[j].tries \in Nat /\ TriesAllowed \in Nat /\ TriesAllowed <= MaxTries /\ MaxTries \in Nat
  BY <1>3, TriesAllowedBound, FalabellaAssumption DEF Job
<1>6. CASE EndItem(j)
  BY <1>3, <1>4, <1>6, EndsItem
<1>7. CASE job' = [job EXCEPT ![j].tries = @ + 1] /\ job[j].tries + 1 < TriesAllowed
  <2>1. PICK s : s = [job[j] EXCEPT !.tries = @ + 1]
    OBVIOUS
  <2>2. job[j].tries + 1 \in 0..MaxTries
    BY <1>5, <1>7
  <2>3. s \in Job /\ s.at = step /\ s.todo = job[j].todo /\ s.feed = job[j].feed
    BY <1>3, <2>1, <2>2 DEF Job
  <2>4. job' = [job EXCEPT ![j] = s]
    BY <1>7, <2>1
  <2>5. job'[j] = s
    BY <2>4, FeedInvTypes
  <2>6. step = "image" => ProductIn(sku)'
    BY <1>3, <1>4, GrowthKeeps
  <2>7. Head(job'[j].todo) = sku
    BY <1>2, <2>3, <2>5 DEF Sku
  <2>8. JobHolds(j)'
    BY <1>3, <2>3, <2>5, <2>6, <2>7 DEF JobHolds, Sku, ProductIn
  <2> QED BY <1>4, <2>3, <2>4, <2>8, JobStepKeeps DEF JobStep
<1>8. ASSUME NEW g \in FeedIds \cup {NoFeed}, g = NoFeed \/ (g = n /\ OpensFeed(o)),
             job' = [job EXCEPT ![j].at = next, ![j].feed = g, ![j].tries = 0]
      PROVE  FeedInv'
  <2>1. PICK s : s = [job[j] EXCEPT !.at = next, !.feed = g, !.tries = 0]
    OBVIOUS
  <2>2. 0 \in 0..MaxTries /\ next \in JobStages
    BY <1>5 DEF JobStages
  <2>3. s \in Job /\ s.at = next /\ s.todo = job[j].todo /\ s.feed = g
    BY <1>3, <2>1, <2>2 DEF Job
  <2>4. job' = [job EXCEPT ![j] = s]
    BY <1>8, <2>1
  <2>5. job'[j] = s
    BY <2>4, FeedInvTypes
  <2>7. Head(job'[j].todo) = sku
    BY <1>2, <2>3, <2>5 DEF Sku
  <2>8. JobHolds(j)'
    BY <1>3, <1>4, <1>8, <2>3, <2>5, <2>7 DEF JobHolds, Sku
  <2> QED BY <1>4, <2>3, <2>4, <2>8, JobStepKeeps DEF JobStep
<1>9. CASE o = "lost" \/ o = "refused"
  <2>1. TryNextProfile(o)
    BY <1>9 DEF TryNextProfile
  <2>2. job[j].tries + 1 < TriesAllowed \/ job[j].tries + 1 >= TriesAllowed
    BY <1>5
  <2> QED BY <1>1, <1>6, <1>7, <1>9, <2>1, <2>2
<1>10. CASE o = "rejected"
  <2>1. ~TryNextProfile(o)
    BY <1>10 DEF TryNextProfile
  <2> QED BY <1>1, <1>6, <1>10, <2>1
<1>11. CASE o = "opaque"
  <2>1. ~TryNextProfile(o)
    BY <1>11 DEF TryNextProfile
  <2> QED BY <1>1, <1>8, <1>11, <2>1
<1>12. CASE o = "accepted"
  <2>1. ~TryNextProfile(o) /\ OpensFeed(o)
    BY <1>12 DEF TryNextProfile, OpensFeed
  <2> QED BY <1>1, <1>2, <1>4, <1>8, <1>12, <2>1
<1> QED BY <1>9, <1>10, <1>11, <1>12 DEF Outcomes

LEMMA PostProductKeeps ==
    ASSUME FeedInv, NEW j \in SyncJobs, PostProduct(j)
    PROVE  FeedInv'
BY PostKeeps DEF PostProduct

LEMMA PostImagesKeeps ==
    ASSUME FeedInv, NEW j \in SyncJobs, PostImages(j)
    PROVE  FeedInv'
BY PostKeeps DEF PostImages

LEMMA PollFeedKeeps ==
    ASSUME FeedInv, NEW j \in SyncJobs, PollFeed(j)
    PROVE  FeedInv'
<1>1. /\ job[j].at = "wait" /\ job[j].todo # <<>> /\ job[j].feed \in DOMAIN feeds
      /\ feeds[job[j].feed].step = "product" /\ feeds[job[j].feed].sku = Sku(j)
      /\ job[j] \in Job /\ job[j].feed # NoFeed
      /\ UNCHANGED <<feeds, entries, recorded, check, syncCrashes>>
  BY JobIs DEF PollFeed, JobHolds
<1>2. CASE EndItem(j)
  BY <1>1, <1>2, QuietEnd
<1>3. CASE IsSuccess(job[j].feed) /\ job' = [job EXCEPT ![j].at = "image"]
  <2>1. PICK s : s = [job[j] EXCEPT !.at = "image"]
    OBVIOUS
  <2>2. s \in Job /\ s.at = "image" /\ s.todo = job[j].todo
    BY <1>1, <2>1 DEF Job, JobStages
  <2>3. job' = [job EXCEPT ![j] = s]
    BY <1>3, <2>1
  <2>4. job'[j] = s
    BY <2>3, FeedInvTypes
  <2>5. PICK sku : sku = Sku(j)
    OBVIOUS
  <2>6. Head(job'[j].todo) = sku /\ feeds' = feeds /\ ProductIn(sku)
    BY <1>1, <1>3, <2>2, <2>4, <2>5 DEF Sku, ProductIn, IsSuccess
  <2>7. ProductIn(Sku(j))'
    BY <2>6 DEF Sku, ProductIn
  <2>8. JobHolds(j)'
    BY <1>1, <2>2, <2>4, <2>7 DEF JobHolds
  <2> QED BY <1>1, <2>2, <2>3, <2>8, QuietJobStep DEF JobStep
<1>4. CASE job' = [job EXCEPT ![j].polls = @ + 1] /\ job[j].polls + 1 < PollAttempts
  <2>1. PICK s : s = [job[j] EXCEPT !.polls = @ + 1]
    OBVIOUS
  <2>2. job[j].polls + 1 \in 0..PollAttempts
    BY <1>1, <1>4, FalabellaAssumption DEF Job
  <2>3. s \in Job /\ s.at = "wait" /\ s.todo = job[j].todo /\ s.feed = job[j].feed
    BY <1>1, <2>1, <2>2 DEF Job
  <2>4. job' = [job EXCEPT ![j] = s]
    BY <1>4, <2>1
  <2>5. job'[j] = s
    BY <2>4, FeedInvTypes
  <2>6. JobHolds(j)'
    BY <1>1, <2>3, <2>5 DEF JobHolds, Sku
  <2> QED BY <1>1, <2>3, <2>4, <2>6, QuietJobStep DEF JobStep
<1> QED BY <1>1, <1>2, <1>3, <1>4 DEF PollFeed

------------------------------------------------------------------------------
(* Rows *)

\* A feed that exists is recorded as pending, or no row is written.
Records(f) ==
    \/ f \in DOMAIN feeds /\ Create(f)
    \/ UNCHANGED <<entries, recorded>>

LEMMA RecordsKeep ==
    ASSUME FeedInv, NEW f, Records(f), UNCHANGED <<feeds, check, syncCrashes>>,
           job' \in [SyncJobs -> Job], \A j \in SyncJobs : JobHolds(j)'
    PROVE  FeedInv'
<1>1. /\ entries' \in [FeedIds -> EntryStates] /\ recorded' \in Seq(FeedIds)
      /\ \A i \in DOMAIN recorded' : recorded'[i] \in DOMAIN feeds
      /\ ResolvedAgrees'
  <2>1. CASE f \in DOMAIN feeds /\ Create(f)
    <3>1. f \in FeedIds /\ "pending" \in EntryStates
      BY <2>1, FeedInvTypes DEF EntryStates
    <3>2. /\ entries' = [entries EXCEPT ![f] = "pending"] /\ recorded' = Append(recorded, f)
          /\ entries' \in [FeedIds -> EntryStates] /\ recorded' \in Seq(FeedIds)
          /\ entries'[f] = "pending"
          /\ \A g \in FeedIds : g # f => entries'[g] = entries[g]
      BY <2>1, <3>1, FeedInvTypes DEF Create
    <3>3. \A i \in DOMAIN recorded' : recorded'[i] = f \/ \E k \in DOMAIN recorded : recorded'[i] = recorded[k]
      BY <3>1, <3>2, FeedInvTypes
    <3>4. \A i \in DOMAIN recorded' : recorded'[i] \in DOMAIN feeds
      BY <2>1, <3>3 DEF FeedInv
    <3>5. ResolvedAgrees'
      BY <2>1, <3>2 DEF FeedInv, FeedSafety, ResolvedAgrees
    <3> QED BY <3>2, <3>4, <3>5
  <2>2. CASE UNCHANGED <<entries, recorded>>
    BY <2>2, FeedInvTypes DEF FeedInv, FeedSafety, ResolvedAgrees
  <2> QED BY <2>1, <2>2 DEF Records
<1>2. FalabellaTypes'
  BY <1>1, FeedInvTypes DEF FeedInv, FeedSafety, FalabellaTypes
<1>3. \A r \in Resolvers : CheckHolds(r)'
  BY NoGrowth, GrowthKeeps
<1> QED BY <1>1, <1>2, <1>3, NoGrowth DEF FeedInv, FeedSafety

\* A worker moves while feeds stay as they are: the other workers keep what
\* they rely on.
LEMMA OthersKeep ==
    ASSUME FeedInv, NEW j \in SyncJobs, NEW s \in Job, job' = [job EXCEPT ![j] = s],
           feeds' = feeds, JobHolds(j)'
    PROVE  job' \in [SyncJobs -> Job] /\ \A k \in SyncJobs : JobHolds(k)'
<1>1. /\ job' \in [SyncJobs -> Job]
      /\ \A k \in SyncJobs : k # j => job'[k] = job[k]
  BY FeedInvTypes
<1> QED BY <1>1, NoGrowth, GrowthKeeps

LEMMA EndingKeeps ==
    ASSUME FeedInv, NEW j \in SyncJobs, job[j].todo # <<>>, EndItem(j), feeds' = feeds
    PROVE  job' \in [SyncJobs -> Job] /\ \A k \in SyncJobs : JobHolds(k)'
BY EndItemIs, OthersKeep

LEMMA RecordProductKeeps ==
    ASSUME FeedInv, NEW j \in SyncJobs, RecordProduct(j)
    PROVE  FeedInv'
<1>1. PICK f : f = job[j].feed
  OBVIOUS
<1>2. /\ job[j].todo # <<>>
      /\ f # NoFeed => f \in DOMAIN feeds
      /\ job[j].at = "recordProduct" /\ job[j] \in Job
      /\ UNCHANGED <<feeds, check, syncCrashes>>
      /\ f # NoFeed => feeds[f].step = "product" /\ feeds[f].sku = Sku(j)
  BY <1>1, JobIs DEF RecordProduct, JobHolds
<1>3. Records(f)
  BY <1>1, <1>2 DEF RecordProduct, Records, Create
<1>4. job' \in [SyncJobs -> Job] /\ \A k \in SyncJobs : JobHolds(k)'
  <2>1. CASE EndItem(j)
    BY <1>2, <2>1, EndingKeeps
  <2>2. CASE f # NoFeed /\ job' = [job EXCEPT ![j].at = "wait"]
    <3>1. PICK s : s = [job[j] EXCEPT !.at = "wait"]
      OBVIOUS
    <3>2. s \in Job /\ s.at = "wait" /\ s.todo = job[j].todo /\ s.feed = f
      BY <1>1, <1>2, <3>1 DEF Job, JobStages
    <3>3. job' = [job EXCEPT ![j] = s]
      BY <2>2, <3>1
    <3>4. job'[j] = s
      BY <3>3, FeedInvTypes
    <3>5. JobHolds(j)'
      BY <1>2, <2>2, <3>2, <3>4 DEF JobHolds, Sku
    <3> QED BY <1>2, <3>2, <3>3, <3>5, OthersKeep
  <2> QED BY <1>1, <2>1, <2>2 DEF RecordProduct
<1> QED BY <1>2, <1>3, <1>4, RecordsKeep

LEMMA RecordImagesKeeps ==
    ASSUME FeedInv, NEW j \in SyncJobs, RecordImages(j)
    PROVE  FeedInv'
<1>1. PICK f : f = job[j].feed
  OBVIOUS
<1>2. /\ job[j].todo # <<>>
      /\ f # NoFeed => f \in DOMAIN feeds
      /\ UNCHANGED <<feeds, check, syncCrashes>> /\ EndItem(j)
  BY <1>1, JobIs DEF RecordImages, JobHolds
<1>3. Records(f)
  BY <1>1, <1>2 DEF RecordImages, Records, Create
<1>4. job' \in [SyncJobs -> Job] /\ \A k \in SyncJobs : JobHolds(k)'
  BY <1>2, EndingKeeps
<1> QED BY <1>2, <1>3, <1>4, RecordsKeep

------------------------------------------------------------------------------
(* Resolvers *)

\* A resolver moves and the rest stays.
LEMMA CheckStepKeeps ==
    ASSUME FeedInv, NEW r \in Resolvers, NEW c \in [FeedIds -> CheckStates],
           check' = [check EXCEPT ![r] = c],
           UNCHANGED <<feeds, recorded, job, syncCrashes>>,
           entries' \in [FeedIds -> EntryStates], ResolvedAgrees',
           \A f \in FeedIds :
              /\ c[f] # "no" => f \in DOMAIN feeds
              /\ c[f] = "finished" => feeds[f].state = "ok"
              /\ c[f] = "failed" => feeds[f].state = "bad"
    PROVE  FeedInv'
<1>1. /\ check' \in [Resolvers -> [FeedIds -> CheckStates]] /\ check'[r] = c
      /\ \A q \in Resolvers : q # r => check'[q] = check[q]
  BY FeedInvTypes
<1>2. \A q \in Resolvers : CheckHolds(q)'
  BY <1>1 DEF FeedInv, CheckHolds
<1>3. FalabellaTypes'
  BY <1>1, FeedInvTypes DEF FeedInv, FeedSafety, FalabellaTypes
<1> QED BY <1>2, <1>3, NoGrowth, GrowthKeeps DEF FeedInv, FeedSafety

\* The same, for one feed.
LEMMA CheckOneKeeps ==
    ASSUME FeedInv, NEW r \in Resolvers, NEW f \in FeedIds, NEW v \in CheckStates,
           check' = [check EXCEPT ![r][f] = v],
           UNCHANGED <<feeds, recorded, job, syncCrashes>>,
           entries' \in [FeedIds -> EntryStates], ResolvedAgrees',
           v # "no" => f \in DOMAIN feeds,
           v = "finished" => feeds[f].state = "ok",
           v = "failed" => feeds[f].state = "bad"
    PROVE  FeedInv'
<1>1. PICK c : c = [check[r] EXCEPT ![f] = v]
  OBVIOUS
<1>2. check' = [check EXCEPT ![r] = c]
  BY <1>1
<1>3. check[r] \in [FeedIds -> CheckStates]
  BY FeedInvTypes
<1>4. /\ c \in [FeedIds -> CheckStates] /\ c[f] = v
      /\ \A g \in FeedIds : g # f => c[g] = check[r][g]
  BY <1>1, <1>3
<1>5. \A g \in FeedIds :
        /\ check[r][g] # "no" => g \in DOMAIN feeds
        /\ check[r][g] = "finished" => feeds[g].state = "ok"
        /\ check[r][g] = "failed" => feeds[g].state = "bad"
  BY DEF FeedInv, CheckHolds
<1>6. \A g \in FeedIds :
        /\ c[g] # "no" => g \in DOMAIN feeds
        /\ c[g] = "finished" => feeds[g].state = "ok"
        /\ c[g] = "failed" => feeds[g].state = "bad"
  BY <1>4, <1>5
<1> QED BY <1>2, <1>4, <1>6, CheckStepKeeps

LEMMA TickKeeps ==
    ASSUME FeedInv, NEW r \in Resolvers, Tick(r)
    PROVE  FeedInv'
<1>1. PICK c : c = [f \in FeedIds |-> IF f \in ListPending THEN "asked" ELSE "no"]
  OBVIOUS
<1>2. c \in [FeedIds -> CheckStates]
  BY <1>1 DEF CheckStates
<1>3. ListPending \subseteq DOMAIN feeds
  BY DEF ListPending, FeedInv
<1>4. UNCHANGED <<feeds, entries, recorded, job, syncCrashes>> /\ check' = [check EXCEPT ![r] = c]
  BY <1>1 DEF Tick
<1>5. ResolvedAgrees' /\ entries' \in [FeedIds -> EntryStates]
  BY <1>4, FeedInvTypes, NoGrowth, GrowthKeeps
<1>6. \A f \in FeedIds : c[f] \in {"no", "asked"} /\ (c[f] # "no" => f \in DOMAIN feeds)
  BY <1>1, <1>3
<1> QED BY <1>2, <1>4, <1>5, <1>6, CheckStepKeeps

LEMMA ResolveByHandKeeps ==
    ASSUME FeedInv, NEW r \in Resolvers, NEW f \in FeedIds, ResolveByHand(r, f)
    PROVE  FeedInv'
<1>1. "asked" \in CheckStates
  BY DEF CheckStates
<1>2. ResolvedAgrees' /\ entries' \in [FeedIds -> EntryStates]
  BY FeedInvTypes, NoGrowth, GrowthKeeps DEF ResolveByHand
<1> QED BY <1>1, <1>2, CheckOneKeeps DEF ResolveByHand

LEMMA ReadStatusKeeps ==
    ASSUME FeedInv, NEW r \in Resolvers, NEW f \in FeedIds, ReadStatus(r, f)
    PROVE  FeedInv'
<1>1. CheckHolds(r)
  BY DEF FeedInv
<1>2. f \in DOMAIN feeds /\ feeds[f] \in Feed
  BY <1>1, FeedInvTypes DEF ReadStatus, CheckHolds
<1>3. ResolvedAgrees' /\ entries' \in [FeedIds -> EntryStates]
  BY FeedInvTypes, NoGrowth, GrowthKeeps DEF ReadStatus
<1>4. PICK v : v = IF IsSuccess(f) THEN "finished" ELSE "failed"
  OBVIOUS
<1>5. /\ v \in CheckStates /\ check' = [check EXCEPT ![r][f] = v]
      /\ UNCHANGED <<feeds, recorded, job, syncCrashes>>
  BY <1>4 DEF CheckStates, ReadStatus
<1>6. /\ v = "finished" => feeds[f].state = "ok"
      /\ v = "failed" => feeds[f].state = "bad"
  BY <1>2, <1>4 DEF IsSuccess, IsFinished, Feed, FeedStates, ReadStatus
<1> QED BY <1>2, <1>3, <1>5, <1>6, CheckOneKeeps

LEMMA LeaveForLaterKeeps ==
    ASSUME FeedInv, NEW r \in Resolvers, NEW f \in FeedIds, LeaveForLater(r, f)
    PROVE  FeedInv'
<1>1. "no" \in CheckStates
  BY DEF CheckStates
<1>2. ResolvedAgrees' /\ entries' \in [FeedIds -> EntryStates]
  BY FeedInvTypes, NoGrowth, GrowthKeeps DEF LeaveForLater
<1> QED BY <1>1, <1>2, CheckOneKeeps DEF LeaveForLater

LEMMA WriteStatusKeeps ==
    ASSUME FeedInv, NEW r \in Resolvers, NEW f \in FeedIds, WriteStatus(r, f)
    PROVE  FeedInv'
<1>1. PICK v : v = check[r][f]
  OBVIOUS
<1>2. CheckHolds(r)
  BY DEF FeedInv
<1>3. /\ v \in {"finished", "failed"} /\ f \in DOMAIN feeds
      /\ v = "finished" => feeds[f].state = "ok"
      /\ v = "failed" => feeds[f].state = "bad"
      /\ UNCHANGED <<feeds, recorded, job, syncCrashes>>
      /\ check' = [check EXCEPT ![r][f] = "no"]
      /\ entries' = IF entries[f] = "none" THEN entries ELSE [entries EXCEPT ![f] = v]
  BY <1>1, <1>2 DEF WriteStatus, UpdateStatus, CheckHolds
<1>4. ResolvedAgrees
  BY DEF FeedInv, FeedSafety
<1>5. entries' \in [FeedIds -> EntryStates] /\ ResolvedAgrees'
  <2>1. CASE entries[f] = "none"
    BY <1>3, <2>1, FeedInvTypes, NoGrowth, GrowthKeeps
  <2>2. CASE entries[f] # "none"
    <3>1. v \in EntryStates
      BY <1>3 DEF EntryStates
    <3>2. /\ entries' \in [FeedIds -> EntryStates] /\ entries'[f] = v
          /\ \A g \in FeedIds : g # f => entries'[g] = entries[g]
      BY <1>3, <2>2, <3>1, FeedInvTypes
    <3> QED BY <1>3, <1>4, <3>2 DEF ResolvedAgrees
  <2> QED BY <2>1, <2>2
<1>6. "no" \in CheckStates
  BY DEF CheckStates
<1> QED BY <1>3, <1>5, <1>6, CheckOneKeeps

LEMMA CrashSyncKeeps ==
    ASSUME FeedInv, CrashSync
    PROVE  FeedInv'
<1>1. /\ job' = [j \in SyncJobs |-> IdleJob]
      /\ check' = [r \in Resolvers |-> [f \in FeedIds |-> "no"]]
      /\ syncCrashes' \in 0..MaxSyncCrashes
      /\ UNCHANGED <<feeds, entries, recorded>>
  BY FeedInvTypes, FalabellaAssumption DEF CrashSync
<1>2. FalabellaTypes'
  BY <1>1, IdleJobIs, FeedInvTypes DEF FeedInv, FeedSafety, FalabellaTypes, CheckStates
<1>3. \A j \in SyncJobs : JobHolds(j)'
  BY <1>1, IdleJobIs DEF JobHolds
<1>4. \A r \in Resolvers : CheckHolds(r)'
  BY <1>1 DEF CheckHolds
<1> QED BY <1>1, <1>2, <1>3, <1>4, NoGrowth, GrowthKeeps DEF FeedInv, FeedSafety

------------------------------------------------------------------------------

\* At the start there is no feed, no row, and nobody holds anything.
THEOREM FeedsInitially == FalabellaInit => FeedInv
<1> SUFFICES ASSUME FalabellaInit PROVE FeedInv
  OBVIOUS
<1>1. /\ feeds = <<>> /\ recorded = <<>> /\ entries = [f \in FeedIds |-> "none"]
      /\ job = [j \in SyncJobs |-> IdleJob]
      /\ check = [r \in Resolvers |-> [f \in FeedIds |-> "no"]]
      /\ syncCrashes = 0
  BY DEF FalabellaInit
<1>2. FalabellaTypes
  BY <1>1, IdleJobIs, FalabellaAssumption DEF FalabellaTypes, EntryStates, CheckStates
<1>3. ImagesFollowProduct /\ ResolvedAgrees
  BY <1>1 DEF ImagesFollowProduct, ResolvedAgrees
<1>4. \A j \in SyncJobs : JobHolds(j)
  BY <1>1, IdleJobIs DEF JobHolds
<1>5. \A r \in Resolvers : CheckHolds(r)
  BY <1>1 DEF CheckHolds
<1> QED BY <1>1, <1>2, <1>3, <1>4, <1>5 DEF FeedInv, FeedSafety

\* Every call, every statement, every step of Seller Center and every crash
\* keeps the invariant.
THEOREM FeedsStepKeeps == FeedInv /\ [FalabellaNext]_falabellaVars => FeedInv'
<1> SUFFICES ASSUME FeedInv, [FalabellaNext]_falabellaVars PROVE FeedInv'
  OBVIOUS
<1>1. CASE UNCHANGED falabellaVars
  <2>1. UNCHANGED <<feeds, entries, recorded, job, check, syncCrashes>>
    BY <1>1 DEF falabellaVars
  <2>2. FalabellaTypes'
    BY <2>1 DEF FeedInv, FeedSafety, FalabellaTypes
  <2>3. \A j \in SyncJobs : JobHolds(j)'
    BY <2>1, NoGrowth, GrowthKeeps
  <2> QED BY <2>1, <2>2, <2>3, NoGrowth, GrowthKeeps DEF FeedInv, FeedSafety
<1>2. ASSUME NEW j \in SyncJobs,
             \/ StartSync(j) \/ EndSync(j) \/ NextItem(j) \/ ShouldUpdateProduct(j)
             \/ PostProduct(j) \/ RecordProduct(j) \/ PollFeed(j)
             \/ PostImages(j) \/ RecordImages(j)
      PROVE  FeedInv'
  BY <1>2, StartSyncKeeps, EndSyncKeeps, NextItemKeeps, LookupKeeps, PostProductKeeps,
     RecordProductKeeps, PollFeedKeeps, PostImagesKeeps, RecordImagesKeeps
<1>3. ASSUME NEW r \in Resolvers,
             \/ Tick(r)
             \/ \E f \in FeedIds :
                  \/ ResolveByHand(r, f) \/ ReadStatus(r, f)
                  \/ LeaveForLater(r, f) \/ WriteStatus(r, f)
      PROVE  FeedInv'
  BY <1>3, TickKeeps, ResolveByHandKeeps, ReadStatusKeeps, LeaveForLaterKeeps,
     WriteStatusKeeps
<1>4. ASSUME NEW f \in FeedIds, FinishFeed(f) PROVE FeedInv'
  BY <1>4, FinishFeedKeeps
<1>5. CASE CrashSync
  BY <1>5, CrashSyncKeeps
<1> QED BY <1>1, <1>2, <1>3, <1>4, <1>5 DEF FalabellaNext

\* Images go out only for a product Seller Center has taken, and a resolved
\* row says what Seller Center says, for any number of workers, ticks, feeds
\* and crashes.
THEOREM FeedsAreSafe == FalabellaSpec => []FeedSafety
<1>1. FeedInv => FeedSafety
  BY DEF FeedInv
<1> QED BY <1>1, FeedsInitially, FeedsStepKeeps, PTL DEF FalabellaSpec

------------------------------------------------------------------------------
(* Runs: the inductive invariant *)

\* What a goroutine knows about its run at each stage.
KnowsItsRun(w) ==
    /\ sync[w].at = "idle" => sync[w].run = NoRun
    /\ sync[w].at \in {"errors", "finish", "recount"} => sync[w].run # NoRun
    /\ sync[w].run # NoRun =>
         /\ sync[w].run \in DOMAIN runs
         /\ sync[w].at = "work" => runs[sync[w].run].work = "unknown"
         /\ sync[w].at = "errors" =>
              runs[sync[w].run].work = "bad" /\ sync[w].outcome = "bad"
         /\ sync[w].at = "finish" =>
              /\ sync[w].outcome \in {"ok", "bad"}
              /\ runs[sync[w].run].work = sync[w].outcome
              /\ sync[w].outcome = "bad" /\ runs[sync[w].run].status = "running" =>
                   runs[sync[w].run].errors = 1

RunsInv == RunLedger /\ \A w \in Syncs : KnowsItsRun(w)

------------------------------------------------------------------------------

\* The crucial part of the truth, of one record.
Truthful(x) ==
    /\ x.status = "completed" => x.work = "ok" /\ x.errors = 0
    /\ x.status = "failed" => x.work = "bad" /\ x.errors = 1
    /\ x.errors = 1 => x.work = "bad"
    /\ x.errorCount <= x.errors

\* Rewriting one record by a truthful one keeps the table typed and truthful.
LEMMA RewriteRun ==
    ASSUME RunTypes, RunsTellTheTruth,
           NEW r \in DOMAIN runs, NEW x \in Run, Truthful(x),
           runs' = [runs EXCEPT ![r] = x]
    PROVE  /\ runs' \in Seq(Run) /\ Len(runs') = Len(runs)
           /\ DOMAIN runs' = DOMAIN runs
           /\ runs'[r] = x
           /\ \A q \in DOMAIN runs : q # r => runs'[q] = runs[q]
           /\ RunsTellTheTruth'
<1>1. runs \in Seq(Run) /\ DOMAIN runs = 1..Len(runs)
  BY DEF RunTypes
<1>2. /\ runs' \in Seq(Run) /\ Len(runs') = Len(runs)
      /\ DOMAIN runs' = DOMAIN runs
      /\ runs'[r] = x
      /\ \A q \in DOMAIN runs : q # r => runs'[q] = runs[q]
  BY <1>1
<1>3. \A q \in DOMAIN runs' : Truthful(runs'[q])
  BY <1>2 DEF RunsTellTheTruth, Truthful
<1> QED
  BY <1>2, <1>3 DEF RunsTellTheTruth, Truthful

\* The goroutine that rewrites its own run leaves what the others know.
LEMMA OthersUndisturbed ==
    ASSUME RunsInv, NEW w \in Syncs, NEW s \in SyncState, NEW x \in Run,
           sync' = [sync EXCEPT ![w] = s],
           sync[w].run # NoRun,
           s.run = NoRun \/ s.run = sync[w].run,
           Truthful(x),
           runs' = [runs EXCEPT ![sync[w].run] = x],
           KnowsItsRun(w)', runCrashes' = runCrashes
    PROVE  RunsInv'
<1> DEFINE r == sync[w].run
<1>1. r \in DOMAIN runs
  BY DEF RunsInv, KnowsItsRun
<1>2. /\ runs' \in Seq(Run) /\ Len(runs') = Len(runs)
      /\ DOMAIN runs' = DOMAIN runs
      /\ \A q \in DOMAIN runs : q # r => runs'[q] = runs[q]
      /\ RunsTellTheTruth'
  BY <1>1, RewriteRun DEF RunsInv, RunLedger
<1>3. sync' \in [Syncs -> SyncState] /\ sync'[w] = s
      /\ \A v \in Syncs : v # w => sync'[v] = sync[v]
  BY DEF RunsInv, RunLedger, RunTypes
<1>4. RunTypes'
  BY <1>2, <1>3 DEF RunsInv, RunLedger, RunTypes
<1>5. OneWriter'
  BY <1>3 DEF RunsInv, RunLedger, OneWriter
<1>6. ASSUME NEW v \in Syncs, v # w PROVE KnowsItsRun(v)'
  <2>1. sync[v].run # NoRun => sync[v].run # r
    BY <1>6 DEF RunsInv, RunLedger, OneWriter
  <2> QED BY <2>1, <1>2, <1>3, <1>6 DEF RunsInv, KnowsItsRun
<1> QED
  BY <1>2, <1>4, <1>5, <1>6 DEF RunsInv, RunLedger

\* A goroutine that ends, or goes on, without touching the table.
LEMMA TableUntouched ==
    ASSUME RunsInv, NEW w \in Syncs, NEW s \in SyncState,
           sync' = [sync EXCEPT ![w] = s],
           s.run = NoRun \/ s.run = sync[w].run,
           runs' = runs, KnowsItsRun(w)', runCrashes' = runCrashes
    PROVE  RunsInv'
<1>1. sync' \in [Syncs -> SyncState] /\ sync'[w] = s
      /\ \A v \in Syncs : v # w => sync'[v] = sync[v]
  BY DEF RunsInv, RunLedger, RunTypes
<1>2. RunLedger'
  BY <1>1 DEF RunsInv, RunLedger, RunTypes, RunsTellTheTruth, OneWriter
<1>3. ASSUME NEW v \in Syncs, v # w PROVE KnowsItsRun(v)'
  BY <1>1, <1>3 DEF RunsInv, KnowsItsRun
<1> QED BY <1>2, <1>3 DEF RunsInv

LEMMA EndedKnows ==
    ASSUME RunsInv, NEW w \in Syncs, EndRun(w)
    PROVE  /\ IdleSync \in SyncState /\ IdleSync.run = NoRun
           /\ sync' = [sync EXCEPT ![w] = IdleSync]
           /\ KnowsItsRun(w)'
<1>1. IdleSync \in SyncState /\ IdleSync.run = NoRun /\ IdleSync.at = "idle"
  BY DEF IdleSync, SyncState, SyncStages
<1>2. sync'[w] = IdleSync
  BY DEF RunsInv, RunLedger, RunTypes, EndRun
<1> QED
  BY <1>1, <1>2 DEF EndRun, KnowsItsRun

LEMMA EndQuietly ==
    ASSUME RunsInv, NEW w \in Syncs, EndRun(w), runs' = runs, runCrashes' = runCrashes
    PROVE  RunsInv'
BY EndedKnows, TableUntouched

\* A run that is created belongs to nobody else.
LEMMA StartKeeps ==
    ASSUME RunsInv, NEW w \in Syncs, StartRun(w)
    PROVE  RunsInv'
<1> DEFINE n == Len(runs) + 1
<1>0. /\ runs \in Seq(Run) /\ Len(runs) \in Nat /\ MaxRuns \in Nat
      /\ DOMAIN runs = 1..Len(runs) /\ sync \in [Syncs -> SyncState]
      /\ sync[w].run = NoRun
  BY RunsAssumption DEF RunsInv, RunLedger, RunTypes, KnowsItsRun, StartRun
<1>1. CASE Len(runs) < MaxRuns /\ CreateRun
           /\ sync' = [sync EXCEPT ![w].at = "work", ![w].run = Len(runs) + 1]
  <2>1. PICK x : /\ x \in Run /\ Truthful(x) /\ x.work = "unknown"
                 /\ runs' = Append(runs, x)
    BY <1>1 DEF CreateRun, Run, RunStatuses, Truthful
  <2>2. /\ runs' \in Seq(Run) /\ Len(runs') = n /\ DOMAIN runs' = 1..n
        /\ runs'[n] = x /\ \A q \in DOMAIN runs : runs'[q] = runs[q]
    BY <1>0, <2>1
  <2>3. /\ sync' \in [Syncs -> SyncState] /\ sync'[w].run = n /\ sync'[w].at = "work"
        /\ \A v \in Syncs : v # w => sync'[v] = sync[v]
    <3>1. n \in RunIds
      BY <1>0, <1>1 DEF RunIds
    <3>2. PICK s : s = [sync[w] EXCEPT !.at = "work", !.run = n]
      OBVIOUS
    <3>3. sync[w] \in SyncState
      BY <1>0
    <3> HIDE DEF n
    <3>4. s \in SyncState /\ s.run = n /\ s.at = "work"
      BY <3>1, <3>2, <3>3 DEF SyncState, SyncStages
    <3>5. sync' = [sync EXCEPT ![w] = s]
      BY <1>1, <3>2 DEF n
    <3> QED BY <1>0, <3>4, <3>5
  <2>4. n # NoRun /\ \A v \in Syncs : sync[v].run # n
    BY <1>0 DEF RunsInv, KnowsItsRun, NoRun
  <2>5. RunTypes'
    BY <1>0, <1>1, <2>2, <2>3 DEF RunsInv, RunLedger, RunTypes, StartRun
  <2>6. RunsTellTheTruth'
    <3>1. \A q \in DOMAIN runs' : Truthful(runs'[q])
      BY <1>0, <2>1, <2>2 DEF RunsInv, RunLedger, RunsTellTheTruth, Truthful
    <3> QED BY <3>1 DEF RunsTellTheTruth, Truthful
  <2>7. OneWriter'
    BY <2>3, <2>4 DEF RunsInv, RunLedger, OneWriter
  <2>8. ASSUME NEW v \in Syncs PROVE KnowsItsRun(v)'
    <3>1. CASE v = w
      BY <3>1, <1>0, <2>1, <2>2, <2>3, <2>4 DEF KnowsItsRun
    <3>2. CASE v # w
      <4>1. sync'[v] = sync[v] BY <3>2, <2>3
      <4>2. sync[v].run # NoRun => sync[v].run \in DOMAIN runs /\ sync[v].run \in DOMAIN runs'
                                   /\ runs'[sync[v].run] = runs[sync[v].run]
        BY <1>0, <2>2 DEF RunsInv, KnowsItsRun
      <4> QED BY <4>1, <4>2 DEF RunsInv, KnowsItsRun
    <3> QED BY <3>1, <3>2
  <2> QED BY <2>5, <2>6, <2>7, <2>8 DEF RunsInv, RunLedger
<1>2. CASE sync' = [sync EXCEPT ![w].at = "work"] /\ runs' = runs
  <2>0. PICK s : s = [sync[w] EXCEPT !.at = "work"]
    OBVIOUS
  <2>1. s \in SyncState /\ sync' = [sync EXCEPT ![w] = s]
                 /\ s.run = NoRun /\ s.at = "work"
    BY <1>0, <1>2, <2>0 DEF SyncState, SyncStages
  <2>2. sync'[w] = s
    BY <1>0, <2>1
  <2>3. KnowsItsRun(w)'
    BY <2>1, <2>2 DEF KnowsItsRun
  <2> QED BY <1>2, <2>1, <2>3, TableUntouched DEF StartRun
<1> QED BY <1>1, <1>2 DEF StartRun

LEMMA WorkKeeps ==
    ASSUME RunsInv, NEW w \in Syncs, Work(w)
    PROVE  RunsInv'
<1>1. CASE sync[w].run = NoRun
  BY <1>1, EndQuietly DEF Work
<1>2. CASE sync[w].run # NoRun
  <2> DEFINE r == sync[w].run
  <2>1. PICK o \in {"ok", "bad"} :
           /\ sync' = [sync EXCEPT ![w].outcome = o,
                                   ![w].at = IF o = "ok" THEN "finish" ELSE "errors"]
           /\ runs' = [runs EXCEPT ![r].work = o]
    BY <1>2 DEF Work
  <2>2. /\ runs \in Seq(Run) /\ r \in DOMAIN runs /\ runs[r] \in Run
        /\ sync \in [Syncs -> SyncState] /\ Truthful(runs[r])
        /\ runs[r].work = "unknown"
    BY <1>2 DEF RunsInv, RunLedger, RunTypes, KnowsItsRun, Work, RunsTellTheTruth, Truthful
  <2>3. PICK x : x = [runs[r] EXCEPT !.work = o]
    OBVIOUS
  <2>4. /\ x \in Run /\ x.work = o /\ x.status = runs[r].status
        /\ x.errors = runs[r].errors /\ x.errorCount = runs[r].errorCount
    BY <2>2, <2>3 DEF Run
  <2>5. Truthful(x) /\ runs' = [runs EXCEPT ![r] = x]
    BY <2>1, <2>2, <2>3, <2>4 DEF Truthful, Run
  <2>6. PICK s : s = [sync[w] EXCEPT !.outcome = o,
                                     !.at = IF o = "ok" THEN "finish" ELSE "errors"]
    OBVIOUS
  <2>7. /\ s \in SyncState /\ s.run = r /\ s.outcome = o
        /\ s.at = (IF o = "ok" THEN "finish" ELSE "errors")
        /\ sync' = [sync EXCEPT ![w] = s]
    BY <2>1, <2>2, <2>6 DEF SyncState, SyncStages
  <2>8. sync'[w] = s /\ runs'[r] = x /\ DOMAIN runs' = DOMAIN runs
    BY <2>2, <2>5, <2>7
  <2>9. KnowsItsRun(w)'
    BY <1>2, <2>1, <2>2, <2>4, <2>7, <2>8 DEF KnowsItsRun
  <2> QED
    BY <1>2, <2>4, <2>5, <2>7, <2>9, OthersUndisturbed DEF Work
<1> QED BY <1>1, <1>2

LEMMA InsertErrorsKeeps ==
    ASSUME RunsInv, NEW w \in Syncs, InsertErrors(w)
    PROVE  RunsInv'
<1>1. CASE EndRun(w) /\ UNCHANGED runs
  BY <1>1, EndQuietly DEF InsertErrors
<1>2. CASE AddRunErrors(sync[w].run) /\ sync' = [sync EXCEPT ![w].at = "finish"]
  <2> DEFINE r == sync[w].run
  <2>1. /\ runs \in Seq(Run) /\ r # NoRun /\ r \in DOMAIN runs /\ runs[r] \in Run
        /\ sync \in [Syncs -> SyncState] /\ Truthful(runs[r])
        /\ runs[r].work = "bad"
    BY DEF RunsInv, RunLedger, RunTypes, KnowsItsRun, InsertErrors, RunsTellTheTruth, Truthful
  <2>2. PICK x : x = [runs[r] EXCEPT !.errors = 1]
    OBVIOUS
  <2>3. /\ x \in Run /\ x.work = "bad" /\ x.status = runs[r].status
        /\ x.errors = 1 /\ x.errorCount = runs[r].errorCount
        /\ x.errorCount \in {0, 1}
    BY <2>1, <2>2 DEF Run
  <2>4. Truthful(x) /\ runs' = [runs EXCEPT ![r] = x]
    BY <1>2, <2>1, <2>2, <2>3 DEF Truthful, AddRunErrors
  <2>5. PICK s : s = [sync[w] EXCEPT !.at = "finish"]
    OBVIOUS
  <2>6. s \in SyncState /\ s.run = r /\ s.at = "finish" /\ s.outcome = sync[w].outcome
        /\ sync' = [sync EXCEPT ![w] = s]
    BY <1>2, <2>1, <2>5 DEF SyncState, SyncStages
  <2>7. sync'[w] = s /\ runs'[r] = x /\ DOMAIN runs' = DOMAIN runs
    BY <2>1, <2>4, <2>6
  <2>8. sync[w].outcome = "bad"
    BY <2>1 DEF RunsInv, KnowsItsRun, InsertErrors
  <2>9. KnowsItsRun(w)'
    BY <2>1, <2>3, <2>6, <2>7, <2>8 DEF KnowsItsRun
  <2> QED
    BY <2>1, <2>3, <2>4, <2>6, <2>9, OthersUndisturbed DEF InsertErrors
<1> QED BY <1>1, <1>2 DEF InsertErrors

LEMMA FinishKeeps ==
    ASSUME RunsInv, NEW w \in Syncs, FinishRun(w)
    PROVE  RunsInv'
<1>1. CASE EndRun(w) /\ UNCHANGED runs
  BY <1>1, EndQuietly DEF FinishRun
<1>2. CASE CompleteRun(sync[w].run, CompleteInput(w))
           /\ sync' = [sync EXCEPT ![w].at = "recount"]
  <2> DEFINE r == sync[w].run
  <2>1. /\ runs \in Seq(Run) /\ r # NoRun /\ r \in DOMAIN runs /\ runs[r] \in Run
        /\ sync \in [Syncs -> SyncState] /\ Truthful(runs[r])
        /\ runs[r].work = sync[w].outcome /\ sync[w].outcome \in {"ok", "bad"}
    BY DEF RunsInv, RunLedger, RunTypes, KnowsItsRun, FinishRun, RunsTellTheTruth, Truthful
  <2>2. sync[w].outcome = "bad" => runs[r].errors = 1
    BY <1>2 DEF RunsInv, KnowsItsRun, FinishRun, CompleteRun
  <2>3. PICK x : x = [runs[r] EXCEPT !.status = CompleteInput(w)]
    OBVIOUS
  <2>4. CompleteInput(w) = (IF sync[w].outcome = "ok" THEN "completed" ELSE "failed")
    BY DEF CompleteInput
  <2>5. /\ x \in Run /\ x.work = runs[r].work /\ x.status = CompleteInput(w)
        /\ x.errors = runs[r].errors /\ x.errorCount = runs[r].errorCount
    BY <2>1, <2>3, <2>4 DEF Run, RunStatuses
  <2>6. runs[r].errors \in {0, 1}
    BY <2>1 DEF Run
  <2>7. Truthful(x)
    BY <2>1, <2>2, <2>4, <2>5, <2>6 DEF Truthful
  <2>8. runs' = [runs EXCEPT ![r] = x]
    BY <1>2, <2>1, <2>3 DEF CompleteRun
  <2>9. PICK s : s = [sync[w] EXCEPT !.at = "recount"]
    OBVIOUS
  <2>10. s \in SyncState /\ s.run = r /\ s.at = "recount"
         /\ sync' = [sync EXCEPT ![w] = s]
    BY <1>2, <2>1, <2>9 DEF SyncState, SyncStages
  <2>11. sync'[w] = s /\ DOMAIN runs' = DOMAIN runs
    BY <2>1, <2>8, <2>10
  <2>12. KnowsItsRun(w)'
    BY <2>1, <2>10, <2>11 DEF KnowsItsRun
  <2> QED
    BY <2>1, <2>5, <2>7, <2>8, <2>10, <2>12, OthersUndisturbed DEF FinishRun
<1> QED BY <1>1, <1>2 DEF FinishRun

LEMMA RecountKeeps ==
    ASSUME RunsInv, NEW w \in Syncs, Recount(w)
    PROVE  RunsInv'
<1>1. CASE UNCHANGED runs
  BY <1>1, EndQuietly DEF Recount
<1>2. CASE RecalculateErrorCount(sync[w].run)
  <2> DEFINE r == sync[w].run
             n == IF runs[r].status = "deleted" THEN 0 ELSE runs[r].errors
  <2>1. /\ runs \in Seq(Run) /\ r # NoRun /\ r \in DOMAIN runs /\ runs[r] \in Run
        /\ Truthful(runs[r])
    BY DEF RunsInv, RunLedger, RunTypes, KnowsItsRun, Recount, RunsTellTheTruth, Truthful
  <2>2. n \in {0, 1} /\ n <= runs[r].errors
    BY <2>1 DEF Run
  <2>3. PICK x : x = [runs[r] EXCEPT !.errorCount = n]
    OBVIOUS
  <2>4. runs' = [runs EXCEPT ![r] = x]
    BY <1>2, <2>1, <2>3 DEF RecalculateErrorCount
  <2> HIDE DEF n
  <2>5. /\ x \in Run /\ x.work = runs[r].work /\ x.status = runs[r].status
        /\ x.errors = runs[r].errors /\ x.errorCount = n
    BY <2>1, <2>2, <2>3 DEF Run
  <2>6. Truthful(x)
    BY <2>1, <2>2, <2>5 DEF Truthful
  <2> QED
    BY <2>1, <2>4, <2>5, <2>6, EndedKnows, OthersUndisturbed DEF Recount
<1> QED BY <1>1, <1>2 DEF Recount

\* Retention takes records whole: a deleted one says nothing.
LEMMA CleanupKeeps ==
    ASSUME RunsInv, NEW cut \in RunIds, CleanupBefore(cut)
    PROVE  RunsInv'
<1>1. /\ runs \in Seq(Run) /\ Len(runs) \in Nat /\ DOMAIN runs = 1..Len(runs)
      /\ sync' = sync /\ runCrashes' = runCrashes
  <2>1. runs \in Seq(Run)
    BY DEF RunsInv, RunLedger, RunTypes
  <2>2. sync' = sync /\ runCrashes' = runCrashes
    BY DEF CleanupBefore
  <2> QED BY <2>1, <2>2
<1>2. \A r \in DOMAIN runs :
        /\ runs'[r] \in Run /\ runs'[r].work = runs[r].work
        /\ \/ runs'[r] = runs[r]
           \/ runs'[r].status = "deleted" /\ runs'[r].errors = 0 /\ runs'[r].errorCount = 0
  <2> SUFFICES ASSUME NEW r \in DOMAIN runs
               PROVE  /\ runs'[r] \in Run /\ runs'[r].work = runs[r].work
                      /\ \/ runs'[r] = runs[r]
                         \/ /\ runs'[r].status = "deleted" /\ runs'[r].errors = 0
                            /\ runs'[r].errorCount = 0
    OBVIOUS
  <2>1. runs[r] \in Run
    BY <1>1
  <2>2. runs'[r] = IF r <= cut
                   THEN [runs[r] EXCEPT !.status = "deleted", !.errors = 0, !.errorCount = 0]
                   ELSE runs[r]
    BY DEF CleanupBefore
  <2> QED BY <2>1, <2>2 DEF Run, RunStatuses
<1>3. runs' \in Seq(Run) /\ Len(runs') = Len(runs) /\ DOMAIN runs' = DOMAIN runs
  <2>1. DOMAIN runs' = 1..Len(runs)
    BY <1>1 DEF CleanupBefore
  <2>2. runs' \in [1..Len(runs) -> Run]
    <3>1. runs' = [r \in 1..Len(runs) |-> runs'[r]]
      BY <1>1 DEF CleanupBefore
    <3> QED BY <1>1, <1>2, <3>1
  <2> QED BY <1>1, <2>1, <2>2
<1>4. RunTypes' /\ OneWriter'
  BY <1>1, <1>3 DEF RunsInv, RunLedger, RunTypes, OneWriter
<1>5. RunsTellTheTruth'
  BY <1>2, <1>3 DEF RunsInv, RunLedger, RunsTellTheTruth
<1>6. ASSUME NEW v \in Syncs PROVE KnowsItsRun(v)'
  BY <1>1, <1>2, <1>3 DEF RunsInv, KnowsItsRun
<1> QED BY <1>4, <1>5, <1>6 DEF RunsInv, RunLedger

LEMMA CrashKeeps ==
    ASSUME RunsInv, CrashRuns
    PROVE  RunsInv'
<1>1. IdleSync \in SyncState /\ IdleSync.run = NoRun /\ IdleSync.at = "idle"
  BY DEF IdleSync, SyncState, SyncStages
<1>2. sync' \in [Syncs -> SyncState] /\ \A v \in Syncs : sync'[v] = IdleSync
  BY <1>1 DEF CrashRuns
<1>3. RunTypes'
  BY <1>2, RunsAssumption DEF CrashRuns, RunsInv, RunLedger, RunTypes
<1>4. RunsTellTheTruth' /\ OneWriter'
  BY <1>1, <1>2 DEF CrashRuns, RunsInv, RunLedger, RunsTellTheTruth, OneWriter
<1> QED
  BY <1>1, <1>2, <1>3, <1>4 DEF RunsInv, RunLedger, KnowsItsRun

------------------------------------------------------------------------------

\* At the start there is no run and every goroutine is idle.
THEOREM RunsInitially == RunsInit => RunsInv
<1> SUFFICES ASSUME RunsInit PROVE RunsInv
  OBVIOUS
<1>1. IdleSync \in SyncState /\ IdleSync.run = NoRun /\ IdleSync.at = "idle"
  BY DEF IdleSync, SyncState, SyncStages
<1>2. \A v \in Syncs : sync[v] = IdleSync
  BY DEF RunsInit
<1>3. RunTypes
  BY <1>1, RunsAssumption DEF RunsInit, RunTypes
<1> QED
  BY <1>1, <1>2, <1>3 DEF RunsInit, RunsInv, RunLedger, RunsTellTheTruth, OneWriter, KnowsItsRun

\* Every statement, and every crash between two of them, keeps the invariant.
THEOREM RunsStep == RunsInv /\ [RunsNext]_runVars => RunsInv'
<1> SUFFICES ASSUME RunsInv, [RunsNext]_runVars PROVE RunsInv'
  OBVIOUS
<1>1. ASSUME NEW w \in Syncs, StartRun(w) PROVE RunsInv'
  BY <1>1, StartKeeps
<1>2. ASSUME NEW w \in Syncs, Work(w) PROVE RunsInv'
  BY <1>2, WorkKeeps
<1>3. ASSUME NEW w \in Syncs, InsertErrors(w) PROVE RunsInv'
  BY <1>3, InsertErrorsKeeps
<1>4. ASSUME NEW w \in Syncs, FinishRun(w) PROVE RunsInv'
  BY <1>4, FinishKeeps
<1>5. ASSUME NEW w \in Syncs, Recount(w) PROVE RunsInv'
  BY <1>5, RecountKeeps
<1>6. ASSUME NEW cut \in RunIds, CleanupBefore(cut) PROVE RunsInv'
  BY <1>6, CleanupKeeps
<1>7. CASE CrashRuns
  BY <1>7, CrashKeeps
<1>8. CASE UNCHANGED runVars
  BY <1>8 DEF runVars, RunsInv, RunLedger, RunTypes, RunsTellTheTruth, OneWriter, KnowsItsRun
<1> QED
  BY <1>1, <1>2, <1>3, <1>4, <1>5, <1>6, <1>7, <1>8 DEF RunsNext

\* A record never says more than what happened, and has one writer, whatever
\* statements fail, whenever retention deletes it and whenever the process
\* dies (syncrecord/application/service.go).
THEOREM RunsAreLedger == RunsSpec => []RunLedger
<1>1. RunsInv => RunLedger
  BY DEF RunsInv
<1> QED BY RunsInitially, RunsStep, <1>1, PTL DEF RunsSpec
==============================================================================
