---------------------------- MODULE FalabellaSync ----------------------------
(***************************************************************************)
(* The Falabella integration: products are pushed to Seller Center, which  *)
(* answers with a feed it works off later; the feeds are recorded, images  *)
(* follow once the product feed has succeeded, and a cron job asks what    *)
(* became of the feeds still pending.                                      *)
(*                                                                         *)
(* A job is one worker of SyncProducts on one product: it goes through the *)
(* SKUs of its worklist (the base SKU, or one per variant).  Every call to *)
(* Seller Center and every statement on the database is a step of its own, *)
(* so that jobs, cron ticks, resolutions asked for by hand, Seller         *)
(* Center's own work and crashes interleave.                               *)
(***************************************************************************)
EXTENDS Integers, Sequences, FiniteSets

CONSTANTS
    SyncJobs,      \* workers that may be syncing at the same time
    Ticks,         \* cron ticks that may overlap
    Requests,      \* requests to resolve one feed
    BaseSku,       \* the SKU of the product itself
    VariantSkus,   \* the SKUs of its variants
    MaxTries,      \* bound on the signing profiles tried per call
    PollAttempts,  \* FeedResolutionAttempts
    PendingLimit,  \* SyncStatusBatchSize
    MaxFeeds,      \* bound on the feeds Seller Center opens
    MaxSyncCrashes \* bound on the crashes of the process

FeedIds == 1..MaxFeeds
NoFeed == 0
Skus == {BaseSku} \cup VariantSkus
Resolvers == Ticks \cup Requests

ASSUME FalabellaAssumption ==
    /\ MaxTries \in Nat \ {0}
    /\ PollAttempts \in Nat \ {0}
    /\ PendingLimit \in Nat \ {0}
    /\ MaxFeeds \in Nat
    /\ MaxSyncCrashes \in Nat

VARIABLES
    feeds,        \* Seller Center: the feeds it opened, by id
    entries,      \* falabella_sync_status: the status recorded per feed
    recorded,     \* the same rows in the order of synced_at
    job,          \* the workers
    check,        \* what each resolver holds per feed
    syncCrashes   \* crashes so far

falabellaVars == <<feeds, entries, recorded, job, check, syncCrashes>>

------------------------------------------------------------------------------
(* Seller Center *)

FeedStates == {"queued", "ok", "bad"}
Feed == [sku : Skus, step : {"product", "image"}, state : FeedStates]

IsFinished(f) == feeds[f].state # "queued"
IsSuccess(f) == feeds[f].state = "ok"

OpenFeed(sku, step) ==
    feeds' = Append(feeds, [sku |-> sku, step |-> step, state |-> "queued"])

\* Seller Center works a feed off.
FinishFeed(f) ==
    /\ f \in DOMAIN feeds
    /\ ~IsFinished(f)
    /\ \E s \in {"ok", "bad"} : feeds' = [feeds EXCEPT ![f].state = s]
    /\ UNCHANGED <<entries, recorded, job, check, syncCrashes>>

------------------------------------------------------------------------------
(* The client *)

\* The formats of the twelve signing profiles.
DefaultSigningProfiles ==
    [i \in 1..12 |-> IF i <= 4 THEN "JSON" ELSE IF i <= 8 THEN "XML" ELSE ""]

\* Calls try the XML profiles, then those that name no format.
XmlAndNoFormat == {i \in 1..12 : DefaultSigningProfiles[i] \in {"XML", ""}}

TriesAllowed ==
    IF MaxTries < Cardinality(XmlAndNoFormat) THEN MaxTries ELSE Cardinality(XmlAndNoFormat)

\* How one signed POST can end: accepted with a feed id; accepted with an
\* answer nobody can parse; taken, but the answer is lost or a 5xx; refused in
\* a way another profile may cure; refused for good.
Outcomes == {"accepted", "opaque", "lost", "refused", "rejected"}
OpensFeed(o) == o \in {"accepted", "opaque", "lost"}
TryNextProfile(o) == o \in {"lost", "refused"}

------------------------------------------------------------------------------
(* The store *)

EntryStates == {"none", "pending", "finished", "failed"}
Pending(f) == entries[f] = "pending"

Create(f) ==
    /\ entries' = [entries EXCEPT ![f] = "pending"]
    /\ recorded' = Append(recorded, f)

\* Mutant: rows of every status are listed.
ListAnyStatus ==
    LET n == IF Len(recorded) < PendingLimit THEN Len(recorded) ELSE PendingLimit
    IN  {recorded[i] : i \in 1..n}

\* The oldest pending rows.
ListPending ==
    LET before(i) == {k \in 1..(i - 1) : Pending(recorded[k])}
    IN  {recorded[i] : i \in {k \in DOMAIN recorded :
           Pending(recorded[k]) /\ Cardinality(before(k)) < PendingLimit}}

\* A row that does not exist is not created.
UpdateStatus(f, status) ==
    entries' = IF entries[f] = "none" THEN entries
               ELSE [entries EXCEPT ![f] = status]

------------------------------------------------------------------------------
(* Jobs *)

Worklists == {<<BaseSku>>} \cup [1..1 -> VariantSkus] \cup [1..2 -> VariantSkus]

JobStages ==
    {"idle", "next", "lookup", "product", "recordProduct", "wait",
     "image", "recordImage"}
Job == [at : JobStages, todo : Seq(Skus), seen : SUBSET Skus,
        feed : FeedIds \cup {NoFeed}, tries : 0..MaxTries, polls : 0..PollAttempts]

IdleJob == [at |-> "idle", todo |-> <<>>, seen |-> {},
            feed |-> NoFeed, tries |-> 0, polls |-> 0]

Sku(j) == Head(job[j].todo)

\* The item is over; the worker turns to the next SKU of its list.
EndItem(j) ==
    job' = [job EXCEPT ![j].at = "next", ![j].todo = Tail(@), ![j].feed = NoFeed,
                       ![j].tries = 0, ![j].polls = 0]

\* A worker takes a product that maps; one without a Falabella datasheet is
\* skipped, one without SKU, name or description fails, and neither changes
\* anything.
StartSync(j) ==
    /\ job[j].at = "idle"
    /\ \E list \in Worklists :
         job' = [job EXCEPT ![j].at = "next", ![j].todo = list, ![j].seen = {}]
    /\ UNCHANGED <<feeds, entries, recorded, check, syncCrashes>>

EndSync(j) ==
    /\ job[j].at = "next"
    /\ job[j].todo = <<>>
    /\ job' = [job EXCEPT ![j] = IdleJob]
    /\ UNCHANGED <<feeds, entries, recorded, check, syncCrashes>>

\* A SKU met before in this product is skipped as a duplicate.
NextItem(j) ==
    /\ job[j].at = "next"
    /\ job[j].todo # <<>>
    /\ IF Sku(j) \in job[j].seen
       THEN EndItem(j)
       ELSE job' = [job EXCEPT ![j].at = "lookup", ![j].seen = @ \cup {Sku(j)}]
    /\ UNCHANGED <<feeds, entries, recorded, check, syncCrashes>>

\* ProductCreate or ProductUpdate, decided by asking Seller Center for the SKU
\* (or its parent) before the POST; a failed lookup, or a create without price
\* or stock, ends the item.
ShouldUpdateProduct(j) ==
    /\ job[j].at = "lookup"
    /\ \/ job' = [job EXCEPT ![j].at = "product"]
       \/ EndItem(j)
    /\ UNCHANGED <<feeds, entries, recorded, check, syncCrashes>>

\* One POST.  An answer that is lost is tried again with the next profile,
\* although Seller Center may have opened a feed already.
Post(j, step, next) ==
    \E o \in Outcomes :
        /\ OpensFeed(o) => Len(feeds) < MaxFeeds
        /\ IF OpensFeed(o) THEN OpenFeed(Sku(j), step) ELSE UNCHANGED feeds
        /\ CASE TryNextProfile(o) /\ job[j].tries + 1 < TriesAllowed ->
                  job' = [job EXCEPT ![j].tries = @ + 1]
             [] TryNextProfile(o) /\ job[j].tries + 1 >= TriesAllowed -> EndItem(j)
             [] o = "rejected" -> EndItem(j)
             [] o = "opaque" ->
                  job' = [job EXCEPT ![j].at = next, ![j].feed = NoFeed, ![j].tries = 0]
             [] o = "accepted" ->
                  job' = [job EXCEPT ![j].at = next, ![j].feed = Len(feeds) + 1,
                                     ![j].tries = 0]

PostProduct(j) ==
    /\ job[j].at = "product"
    /\ Post(j, "product", "recordProduct")
    /\ UNCHANGED <<entries, recorded, check, syncCrashes>>

\* Warnings about required fields end the item before anything is recorded;
\* otherwise the feed is recorded, and a failure to do so is only logged.  A
\* product without images is done, one without feed id fails.
RecordProduct(j) ==
    /\ job[j].at = "recordProduct"
    /\ \/ /\ EndItem(j)
          /\ UNCHANGED <<entries, recorded>>
       \/ /\ job[j].feed # NoFeed
          /\ \/ Create(job[j].feed)
             \/ UNCHANGED <<entries, recorded>>
          /\ EndItem(j) \/ job' = [job EXCEPT ![j].at = "wait"]
    /\ UNCHANGED <<feeds, check, syncCrashes>>

\* Mutant: images follow as soon as the product feed is finished.
PollAnyFinish(j) ==
    /\ job[j].at = "wait"
    /\ \/ /\ IsFinished(job[j].feed)
          /\ job' = [job EXCEPT ![j].at = "image"]
       \/ IF job[j].polls + 1 < PollAttempts
          THEN job' = [job EXCEPT ![j].polls = @ + 1]
          ELSE EndItem(j)
    /\ UNCHANGED <<feeds, entries, recorded, check, syncCrashes>>

\* Images wait for the product feed: a poll that finds it unfinished, or
\* fails, is repeated up to PollAttempts times.
PollFeed(j) ==
    /\ job[j].at = "wait"
    /\ \/ /\ IsFinished(job[j].feed)
          /\ IF IsSuccess(job[j].feed)
             THEN job' = [job EXCEPT ![j].at = "image"]
             ELSE EndItem(j)
       \/ IF job[j].polls + 1 < PollAttempts
          THEN job' = [job EXCEPT ![j].polls = @ + 1]
          ELSE EndItem(j)
    /\ UNCHANGED <<feeds, entries, recorded, check, syncCrashes>>

PostImages(j) ==
    /\ job[j].at = "image"
    /\ Post(j, "image", "recordImage")
    /\ UNCHANGED <<entries, recorded, check, syncCrashes>>

RecordImages(j) ==
    /\ job[j].at = "recordImage"
    /\ \/ job[j].feed # NoFeed /\ Create(job[j].feed)
       \/ UNCHANGED <<entries, recorded>>
    /\ EndItem(j)
    /\ UNCHANGED <<feeds, check, syncCrashes>>

------------------------------------------------------------------------------
(* Resolution of pending feeds *)

CheckStates == {"no", "asked", "finished", "failed"}

\* A cron tick lists the pending rows; its workers take them one by one.
Tick(r) ==
    /\ \A f \in FeedIds : check[r][f] = "no"
    /\ ListPending # {}
    /\ check' = [check EXCEPT ![r] =
                   [f \in FeedIds |-> IF f \in ListPending THEN "asked" ELSE "no"]]
    /\ UNCHANGED <<feeds, entries, recorded, job, syncCrashes>>

\* Somebody asks for one feed, whether or not it has been recorded.
ResolveByHand(r, f) ==
    /\ \A g \in FeedIds : check[r][g] = "no"
    /\ f \in DOMAIN feeds
    /\ check' = [check EXCEPT ![r][f] = "asked"]
    /\ UNCHANGED <<feeds, entries, recorded, job, syncCrashes>>

ReadStatus(r, f) ==
    /\ check[r][f] = "asked"
    /\ IsFinished(f)
    /\ check' = [check EXCEPT ![r][f] = IF IsSuccess(f) THEN "finished" ELSE "failed"]
    /\ UNCHANGED <<feeds, entries, recorded, job, syncCrashes>>

\* The feed is not finished, or the call fails: the row is left for a later tick.
LeaveForLater(r, f) ==
    /\ check[r][f] = "asked"
    /\ check' = [check EXCEPT ![r][f] = "no"]
    /\ UNCHANGED <<feeds, entries, recorded, job, syncCrashes>>

WriteStatus(r, f) ==
    /\ check[r][f] \in {"finished", "failed"}
    /\ UpdateStatus(f, check[r][f])
    /\ check' = [check EXCEPT ![r][f] = "no"]
    /\ UNCHANGED <<feeds, recorded, job, syncCrashes>>

\* The process dies: jobs and ticks are gone, rows and feeds stay.
CrashSync ==
    /\ syncCrashes < MaxSyncCrashes
    /\ syncCrashes' = syncCrashes + 1
    /\ job' = [j \in SyncJobs |-> IdleJob]
    /\ check' = [r \in Resolvers |-> [f \in FeedIds |-> "no"]]
    /\ UNCHANGED <<feeds, entries, recorded>>

------------------------------------------------------------------------------

FalabellaInit ==
    /\ feeds = <<>>
    /\ entries = [f \in FeedIds |-> "none"]
    /\ recorded = <<>>
    /\ job = [j \in SyncJobs |-> IdleJob]
    /\ check = [r \in Resolvers |-> [f \in FeedIds |-> "no"]]
    /\ syncCrashes = 0

FalabellaNext ==
    \/ \E j \in SyncJobs :
         \/ StartSync(j) \/ EndSync(j) \/ NextItem(j)
         \/ ShouldUpdateProduct(j)
         \/ PostProduct(j) \/ RecordProduct(j) \/ PollFeed(j)
         \/ PostImages(j) \/ RecordImages(j)
    \/ \E r \in Resolvers :
         \/ r \in Ticks /\ Tick(r)
         \/ \E f \in FeedIds :
              \/ r \in Requests /\ ResolveByHand(r, f)
              \/ ReadStatus(r, f) \/ LeaveForLater(r, f) \/ WriteStatus(r, f)
    \/ \E f \in FeedIds : FinishFeed(f)
    \/ CrashSync

FalabellaSpec == FalabellaInit /\ [][FalabellaNext]_falabellaVars

------------------------------------------------------------------------------
(* Properties *)

FalabellaTypes ==
    /\ feeds \in Seq(Feed) /\ Len(feeds) <= MaxFeeds
    /\ entries \in [FeedIds -> EntryStates]
    /\ recorded \in Seq(FeedIds)
    /\ job \in [SyncJobs -> Job]
    /\ check \in [Resolvers -> [FeedIds -> CheckStates]]
    /\ syncCrashes \in 0..MaxSyncCrashes

\* Images are sent only for a SKU whose product feed Seller Center finished
\* without failed records before the image feed was opened, whatever was
\* posted twice, polled in vain or interrupted on the way (feed_wait.go).
ImagesFollowProduct ==
    \A f \in DOMAIN feeds :
        feeds[f].step = "image" =>
            \E g \in DOMAIN feeds :
                /\ g < f
                /\ feeds[g].step = "product"
                /\ feeds[g].sku = feeds[f].sku
                /\ IsSuccess(g)

\* A resolved row says what Seller Center says, although the status was read
\* in one step and written in another, by ticks that overlap
\* (resolve_pending.go).
ResolvedAgrees ==
    \A f \in FeedIds :
        /\ entries[f] # "none" => f \in DOMAIN feeds
        /\ entries[f] = "finished" => feeds[f].state = "ok"
        /\ entries[f] = "failed" => feeds[f].state = "bad"

FeedSafety == FalabellaTypes /\ ImagesFollowProduct /\ ResolvedAgrees

\* Every recorded feed is resolved in the end: a crash loses the tick, not the
\* row, and the rows in front do not block the others for ever
\* (resolve_pending.go, module_lifecycle.go).
FeedsResolve ==
    \A f \in FeedIds : Pending(f) ~> entries[f] \in {"finished", "failed"}
==============================================================================
