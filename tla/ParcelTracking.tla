---------------------------- MODULE ParcelTracking ----------------------------
(* Where the parcels are. A request for one parcel asks its carrier; a request *)
(* for a list reads the marks, page by page when it must look at all of them, *)
(* and looks every one up, in a cache of half a minute first. The carrier only *)
(* adds to what has happened to a parcel; answers take time, and requests     *)
(* overlap.                                                                   *)
EXTENDS Integers, Sequences, FiniteSets, SequencesExt

CONSTANTS
    Trackers,       \* requests
    TrackedMarks,   \* marks with a tracking number, in the order they were made
    Happenings,     \* what the carrier reports: [novelty, code]
    HistoryTtl,     \* how long a history is kept
    CallTime,       \* how long the carrier's answer can take, until it is kept
    LastMoment,     \* bound: moments
    ChunkSize       \* marks to a page of the query

ASSUME TrackingAssumption ==
    /\ TrackedMarks \subseteq Nat /\ IsFiniteSet(TrackedMarks)
    /\ Happenings \subseteq [novelty : BOOLEAN, code : STRING]
    /\ HistoryTtl \in Nat /\ CallTime \in Nat /\ LastMoment \in Nat /\ ChunkSize \in Nat \ {0}

VARIABLES
    tracked,        \* marks: carrier, and status of the row
    since,          \* the moment the carrier first reported each happening
    moment,         \* now
    histories,      \* trackingHistoryCache: what was reported, and until when it is kept
    tracker,        \* the requests
    reported        \* the gravest status a request for the parcel has been told

trackingVars == <<tracked, since, moment, histories, tracker, reported>>

Never == LastMoment + 1
NoHistory == [told |-> {}, until |-> -1]

\* A row as it was read, and the status it is to show.
NoShow == "?"
ReadRow(x) == [id |-> x, voided |-> tracked[x].row = "voided", shows |-> NoShow, failed |-> FALSE]

\* What a list asks for that goes by no status.
Every == ""

NoTracker == [phase |-> "idle", want |-> Every, page |-> 1, began |-> 0, chunk |-> 1, total |-> 0,
              rows |-> <<>>, at |-> 0, called |-> 0, told |-> {}, floor |-> 0,
              steady |-> TRUE, found |-> <<>>]

TrackInit ==
    /\ tracked \in [TrackedMarks -> [carrier : {"tcc", "manual", "other"}, row : {"generated", "voided", "unmade"}]]
    /\ since = [x \in TrackedMarks |-> [h \in Happenings |-> Never]]
    /\ moment = 0
    /\ histories = [x \in TrackedMarks |-> NoHistory]
    /\ tracker = [t \in Trackers |-> NoTracker]
    /\ reported = [x \in TrackedMarks |-> 0]

-----------------------------------------------------------------------------
\* A code of the carrier's; one that is not known goes by its description.
MapTrackingStatus(code) ==
    CASE code = "3000" -> "COMPLETED"
      [] code \in {"4000", "devol"} -> "RETURN"
      [] code \in {"4200", "noved"} -> "INCIDENCE"
      [] code = "4300" -> "VOIDED"
      [] code = "500" -> "ORIGIN"
      [] OTHER -> "PROCESSING"

\* A novelty is an incidence unless it is something graver, or is over.
MapTrackingNoveltyStatus(code) ==
    IF MapTrackingStatus(code) \in {"PROCESSING", "ORIGIN"} THEN "INCIDENCE"
    ELSE MapTrackingStatus(code)

StatusOf(h) == IF h.novelty THEN MapTrackingNoveltyStatus(h.code) ELSE MapTrackingStatus(h.code)

Gravity(status) ==
    CASE status = "RETURN" -> 600 [] status = "VOIDED" -> 550 [] status = "COMPLETED" -> 500
      [] status = "INCIDENCE" -> 450 [] status = "PROCESSING" -> 400 [] status = "ORIGIN" -> 300

\* Mutant of GlobalStatus: a novelty goes before whatever else happened.
NoveltyFirst(told) ==
    LET novelties == {h \in told : h.novelty}
        all == {"PROCESSING"} \cup {StatusOf(h) : h \in IF novelties = {} THEN told ELSE novelties}
    IN  CHOOSE s \in all : \A r \in all : Gravity(s) >= Gravity(r)

\* The gravest of what happened, and no less than being processed.
GlobalStatus(told) ==
    LET all == {"PROCESSING"} \cup {StatusOf(h) : h \in told}
    IN  CHOOSE s \in all : \A r \in all : Gravity(s) >= Gravity(r)

\* What the carrier reports at this moment.
Told(x) == {h \in Happenings : since[x][h] <= moment}

FallbackStatus(row) == IF row.voided THEN "VOIDED" ELSE "PROCESSING"

-----------------------------------------------------------------------------
\* The carrier, the marks and the clock.
Happen(x, h) ==
    /\ tracked[x].carrier = "tcc" /\ tracked[x].row # "unmade" /\ since[x][h] = Never
    /\ since' = [since EXCEPT ![x][h] = moment]
    /\ UNCHANGED <<tracked, moment, histories, tracker, reported>>

\* A mark is made, voided or taken off while lists are being read.
Unsettle ==
    tracker' = [t \in Trackers |->
        [tracker[t] EXCEPT !.steady = tracker[t].phase = "idle"]]

ChangeMark(x, row) ==
    /\ \/ tracked[x].row = "unmade" /\ row = "generated"
       \/ tracked[x].row = "generated" /\ row \in {"voided", "removed"}
    /\ tracked' = [tracked EXCEPT ![x].row = row]
    /\ Unsettle
    /\ UNCHANGED <<since, moment, histories, reported>>

\* A call to the carrier is given up in time.
PassMoment ==
    /\ moment < LastMoment
    /\ \A t \in Trackers : tracker[t].phase \in {"call", "keep"} => moment - tracker[t].called < CallTime
    /\ moment' = moment + 1
    /\ UNCHANGED <<tracked, since, histories, tracker, reported>>

-----------------------------------------------------------------------------
\* Get: the carrier is asked, whatever is in the cache, and the cache stays as it is.
GetTracking(t, x) ==
    /\ tracker[t].phase = "idle" /\ tracked[x].row # "unmade"
    /\ tracker' = [tracker EXCEPT ![t] =
         IF tracked[x].carrier = "tcc"
         THEN [NoTracker EXCEPT !.phase = "ask", !.at = x, !.began = moment, !.floor = reported[x]]
         ELSE [NoTracker EXCEPT !.phase = "told", !.at = x]]
    /\ UNCHANGED <<tracked, since, moment, histories, reported>>

AnswerGet(t) ==
    LET x == tracker[t].at
    IN  /\ tracker[t].phase = "ask"
        /\ tracker' = [tracker EXCEPT ![t].phase = "told", ![t].told = Told(x)]
        /\ UNCHANGED <<tracked, since, moment, histories, reported>>

\* The answer arrives and the event is published.
FinishGet(t) ==
    LET x == tracker[t].at
        grave == Gravity(GlobalStatus(tracker[t].told))
    IN  /\ tracker[t].phase = "told"
        /\ reported' = [reported EXCEPT ![x] =
             IF tracked[x].carrier = "tcc" /\ grave > @ THEN grave ELSE @]
        /\ tracker' = [tracker EXCEPT ![t] = NoTracker]
        /\ UNCHANGED <<tracked, since, moment, histories>>

FailGet(t) ==
    /\ tracker[t].phase = "ask"
    /\ tracker' = [tracker EXCEPT ![t] = NoTracker]
    /\ UNCHANGED <<tracked, since, moment, histories, reported>>

-----------------------------------------------------------------------------
\* The marks a list is made of, the newest first.
Listed(want) ==
    {x \in TrackedMarks : /\ tracked[x].row \in {"generated", "voided"}
                          /\ want = "MANUAL" => tracked[x].carrier = "manual"}

Newest(marks) == CHOOSE s \in SetToSeqs(marks) : \A i, j \in DOMAIN s : i < j => s[i] > s[j]

Slice(s, page, size) ==
    SubSeq(s, (page - 1) * size + 1, IF page * size < Len(s) THEN page * size ELSE Len(s))

\* Every carrier, or those done by hand, a page at a time; by status, all.
BeginList(t, want, page) ==
    /\ tracker[t].phase = "idle"
    /\ tracker' = [tracker EXCEPT ![t] =
         [NoTracker EXCEPT !.phase = "count", !.want = want, !.page = page, !.began = moment,
                           !.chunk = IF want \in {Every, "MANUAL"} THEN page ELSE 1]]
    /\ UNCHANGED <<tracked, since, moment, histories, reported>>

CountMarks(t) ==
    /\ tracker[t].phase = "count"
    /\ tracker' = [tracker EXCEPT ![t].phase = "read", ![t].total = Cardinality(Listed(tracker[t].want))]
    /\ UNCHANGED <<tracked, since, moment, histories, reported>>

\* Mutant of ReadMarks: only the first chunk is read.
ReadMarksOnce(t) ==
    LET r == tracker[t]
        ids == Slice(Newest(Listed(r.want)), r.chunk, ChunkSize)
    IN  /\ r.phase = "read"
        /\ tracker' = [tracker EXCEPT ![t].phase = "build",
                                      ![t].rows = [i \in DOMAIN ids |-> ReadRow(ids[i])]]
        /\ UNCHANGED <<tracked, since, moment, histories, reported>>

\* A list by status goes on until it has as many rows as there are, or gets none.
ReadMarks(t) ==
    LET r == tracker[t]
        ids == Slice(Newest(Listed(r.want)), r.chunk, ChunkSize)
        rows == r.rows \o [i \in DOMAIN ids |-> ReadRow(ids[i])]
        more == r.want \notin {Every, "MANUAL"} /\ Len(rows) < r.total /\ ids # <<>>
    IN  /\ r.phase = "read"
        /\ tracker' = [tracker EXCEPT ![t] =
             [r EXCEPT !.rows = rows, !.phase = IF more THEN "count" ELSE "build",
                       !.chunk = IF more THEN @ + 1 ELSE @]]
        /\ UNCHANGED <<tracked, since, moment, histories, reported>>

\* Rows are looked up side by side; no two of a list share anything but the
\* clock, so that one is looked up after the other here, in any order.
Shows(r, i, status, failed) ==
    [r EXCEPT !.rows[i].shows = status, !.rows[i].failed = failed, !.phase = "build", !.at = 0,
              !.told = {}]

ShowByHand(t, i) ==
    LET r == tracker[t]
    IN  /\ r.phase = "build" /\ r.rows[i].shows = NoShow
        /\ tracked[r.rows[i].id].carrier # "tcc"
        /\ tracker' = [tracker EXCEPT ![t] =
             Shows(r, i, IF tracked[r.rows[i].id].carrier = "manual" THEN "MANUAL"
                         ELSE FallbackStatus(r.rows[i]), FALSE)]
        /\ UNCHANGED <<tracked, since, moment, histories, reported>>

StillKept(x) == histories[x] # NoHistory /\ moment <= histories[x].until

\* getCachedTrackingHistory; what is over is deleted under a lock of its own,
\* which may be after another request has kept something newer.
LookUpHistory(t, i) ==
    LET r == tracker[t]
        x == r.rows[i].id
    IN  /\ r.phase = "build" /\ r.rows[i].shows = NoShow /\ tracked[x].carrier = "tcc"
        /\ tracker' = [tracker EXCEPT ![t] =
             IF StillKept(x) THEN Shows(r, i, GlobalStatus(histories[x].told), FALSE)
             ELSE [r EXCEPT !.at = i, !.phase = IF histories[x] = NoHistory THEN "call" ELSE "drop",
                            !.called = moment]]
        /\ UNCHANGED <<tracked, since, moment, histories, reported>>

DropHistory(t) ==
    LET r == tracker[t]
    IN  /\ r.phase = "drop"
        /\ histories' = [histories EXCEPT ![r.rows[r.at].id] = NoHistory]
        /\ tracker' = [tracker EXCEPT ![t].phase = "call", ![t].called = moment]
        /\ UNCHANGED <<tracked, since, moment, reported>>

AskCarrier(t) ==
    LET r == tracker[t]
    IN  /\ r.phase = "call"
        /\ tracker' = [tracker EXCEPT ![t].phase = "keep", ![t].told = Told(r.rows[r.at].id)]
        /\ UNCHANGED <<tracked, since, moment, histories, reported>>

\* No answer, a refusal or nothing of use: the row's own status has to do.
FailCall(t) ==
    LET r == tracker[t]
    IN  /\ r.phase = "call"
        /\ tracker' = [tracker EXCEPT ![t] = Shows(r, r.at, FallbackStatus(r.rows[r.at]), TRUE)]
        /\ UNCHANGED <<tracked, since, moment, histories, reported>>

KeepHistory(t) ==
    LET r == tracker[t]
    IN  /\ r.phase = "keep"
        /\ histories' = [histories EXCEPT ![r.rows[r.at].id] = [told |-> r.told, until |-> moment + HistoryTtl]]
        /\ tracker' = [tracker EXCEPT ![t] = Shows(r, r.at, GlobalStatus(r.told), FALSE)]
        /\ UNCHANGED <<tracked, since, moment, reported>>

\* All rows are there: those of the status that was asked for, a page of them.
Built(r) == r.phase = "build" /\ \A i \in DOMAIN r.rows : r.rows[i].shows # NoShow

KeptAt(r) ==
    CHOOSE s \in SetToSeqs({i \in DOMAIN r.rows : r.rows[i].shows = r.want}) :
        \A i, j \in DOMAIN s : i < j => s[i] < s[j]

FinishList(t) ==
    LET r == tracker[t]
        at == Slice(KeptAt(r), r.page, ChunkSize)
    IN  /\ Built(r)
        /\ tracker' = [tracker EXCEPT ![t].phase = "done", ![t].found =
             IF r.want \in {Every, "MANUAL"} THEN r.rows ELSE [i \in DOMAIN at |-> r.rows[at[i]]]]
        /\ UNCHANGED <<tracked, since, moment, histories, reported>>

LeaveList(t) ==
    /\ tracker[t].phase = "done"
    /\ tracker' = [tracker EXCEPT ![t] = NoTracker]
    /\ UNCHANGED <<tracked, since, moment, histories, reported>>

ListSteps(t, wants, pages) ==
    \/ \E want \in wants, page \in pages : BeginList(t, want, page)
    \/ CountMarks(t) \/ ReadMarks(t)
    \/ \E i \in DOMAIN tracker[t].rows : ShowByHand(t, i) \/ LookUpHistory(t, i)
    \/ DropHistory(t) \/ AskCarrier(t) \/ FailCall(t) \/ KeepHistory(t)
    \/ FinishList(t) \/ LeaveList(t)

\* A parcel is asked for while things happen to it, ...
AskNext ==
    \/ \E x \in TrackedMarks, h \in Happenings : Happen(x, h)
    \/ \E t \in Trackers : \E x \in TrackedMarks : GetTracking(t, x)
    \/ \E t \in Trackers : AnswerGet(t) \/ FinishGet(t) \/ FailGet(t)

\* ... lists look it up while time passes, ...
LookNext ==
    \/ \E x \in TrackedMarks : \E h \in {g \in Happenings : ~g.novelty} : Happen(x, h)
    \/ PassMoment
    \/ \E t \in Trackers : ListSteps(t, {Every}, {1})

\* ... and a list is read while the marks change. Parcels that no carrier
\* is asked about are not cached, so that requests for them have nothing to share.
WalkNext ==
    \/ \E x \in TrackedMarks, row \in {"generated", "voided", "removed"} : ChangeMark(x, row)
    \/ \E t \in Trackers :
        /\ \A u \in Trackers \ {t} : tracker[u].phase = "idle"
        /\ ListSteps(t, {Every, "MANUAL", "PROCESSING"}, 1..2)

-----------------------------------------------------------------------------
\* What could have been reported of a parcel at some time between two moments.
ToldBetween(x, from, to) ==
    {told \in SUBSET {h \in Happenings : since[x][h] <= to} :
        {h \in Happenings : since[x][h] < from} \subseteq told}

\* A list never shows a parcel where it was longer ago than the cache keeps it and
\* the carrier takes to answer, however requests for it overtake each other
\* (lookupTrackingHistory, getCachedTrackingHistory, putCachedTrackingHistory).
NotTooOld ==
    \A t \in Trackers : \A i \in DOMAIN tracker[t].found :
        LET row == tracker[t].found[i]
        IN  (tracked[row.id].carrier = "tcc" /\ ~row.failed) =>
                \E told \in ToldBetween(row.id, tracker[t].began - HistoryTtl - CallTime, moment) :
                    row.shows = GlobalStatus(told)

\* Who asks for one parcel again is never told less: as the carrier only adds, a
\* delivery is not taken back by the scan that comes after it, nor a return by a
\* delivery (resolveGlobalTrackingStatus).
NeverMilder ==
    \A t \in Trackers :
        (tracker[t].phase = "told" /\ tracked[tracker[t].at].carrier = "tcc") =>
            Gravity(GlobalStatus(tracker[t].told)) >= tracker[t].floor

\* When no mark is made, voided or taken off meanwhile, a list by status has gone
\* through every mark once, and its page is that page of those it goes by
\* (collectAllCandidateMarks, List).
WholeLists ==
    \A t \in Trackers :
        LET r == tracker[t]
            all == Newest(Listed(r.want))
        IN  (r.phase = "done" /\ r.steady) =>
                /\ [i \in DOMAIN r.rows |-> r.rows[i].id] =
                       IF r.want \in {Every, "MANUAL"} THEN Slice(all, r.page, ChunkSize) ELSE all
                /\ \A i \in DOMAIN r.found : r.want \in {Every, r.found[i].shows}

TrackingSafety == NotTooOld /\ NeverMilder /\ WholeLists

-----------------------------------------------------------------------------
(* What makes tracking safe.                                                   *)

ShownStatus ==
    {"MANUAL", "PROCESSING", "ORIGIN", "INCIDENCE", "COMPLETED", "RETURN", "VOIDED"}

\* All of this at once, any page of any list.
TrackNext ==
    \/ \E x \in TrackedMarks, h \in Happenings : Happen(x, h)
    \/ PassMoment
    \/ \E x \in TrackedMarks, row \in {"generated", "voided", "removed"} : ChangeMark(x, row)
    \/ \E t \in Trackers :
        \/ \E x \in TrackedMarks : GetTracking(t, x)
        \/ AnswerGet(t) \/ FinishGet(t) \/ FailGet(t)
        \/ ListSteps(t, {Every} \cup ShownStatus, Nat \ {0})

TrackSpec == TrackInit /\ [][TrackNext]_trackingVars

TrackedRow ==
    [id : TrackedMarks, voided : BOOLEAN, shows : ShownStatus \cup {NoShow}, failed : BOOLEAN]

TrackerType ==
    [phase : {"idle", "ask", "told", "count", "read", "build", "drop", "call", "keep", "done"},
     want : {Every} \cup ShownStatus, page : Nat \ {0}, began : Nat, chunk : Nat \ {0}, total : Nat,
     rows : Seq(TrackedRow), at : Nat, called : Nat, told : SUBSET Happenings, floor : Nat,
     steady : BOOLEAN, found : Seq(TrackedRow)]

TrackTypes ==
    /\ tracked \in [TrackedMarks -> [carrier : {"tcc", "manual", "other"},
                                    row : {"generated", "voided", "unmade", "removed"}]]
    /\ since \in [TrackedMarks -> [Happenings -> Nat]]
    /\ moment \in 0..LastMoment
    /\ histories \in [TrackedMarks -> [told : SUBSET Happenings, until : Int]]
    /\ tracker \in [Trackers -> TrackerType]
    /\ reported \in [TrackedMarks -> Nat]

\* Nothing is known ahead of its time.
KnownSince == \A x \in TrackedMarks, h \in Happenings : since[x][h] \in 0..moment \cup {Never}

\* What is kept was reported shortly before it was kept ...
KeptFresh ==
    \A x \in TrackedMarks : histories[x] # NoHistory =>
        /\ histories[x].until <= moment + HistoryTtl
        /\ histories[x].told \in ToldBetween(x, histories[x].until - HistoryTtl - CallTime, moment)

\* ... and what has been told of a parcel is no graver than what happened.
ToldAtMost ==
    \A x \in TrackedMarks :
        tracked[x].carrier = "tcc" => reported[x] <= Gravity(GlobalStatus(Told(x)))

\* What a list that began then may show of a mark.
ShownFresh(row, from) ==
    (row.shows # NoShow /\ tracked[row.id].carrier = "tcc" /\ ~row.failed) =>
        \E told \in ToldBetween(row.id, from, moment) : row.shows = GlobalStatus(told)

ListFresh(r) ==
    /\ r.began <= moment
    /\ \A i \in DOMAIN r.rows : ShownFresh(r.rows[i], r.began - HistoryTtl - CallTime)
    /\ \A i \in DOMAIN r.found :
          r.found[i].shows # NoShow /\ ShownFresh(r.found[i], r.began - HistoryTtl - CallTime)

\* The answer a list waits for is about one of its rows, and not long under way.
CallFresh(r) ==
    /\ r.phase \in {"drop", "call", "keep"} =>
          r.at \in DOMAIN r.rows /\ tracked[r.rows[r.at].id].carrier = "tcc"
    /\ r.phase \in {"call", "keep"} => r.called \in r.began..moment /\ moment <= r.called + CallTime
    /\ r.phase = "keep" => r.told \in ToldBetween(r.rows[r.at].id, r.called, moment)

\* Who asks for one parcel is told no less than anybody before.
NotTakenBack(r) ==
    r.phase \in {"ask", "told"} =>
        /\ r.at \in TrackedMarks
        /\ tracked[r.at].carrier = "tcc" =>
              IF r.phase = "ask" THEN r.floor <= Gravity(GlobalStatus(Told(r.at)))
              ELSE r.told \subseteq Told(r.at) /\ r.floor <= Gravity(GlobalStatus(r.told))

\* How many rows come before a page.
Passed(page) == (page - 1) * ChunkSize

\* As long as no mark changes, the rows are those of the pages that were read.
ListingKept(r) ==
    LET all == Newest(Listed(r.want))
        single == r.want \in {Every, "MANUAL"}
    IN  /\ r.phase \in {"count", "read"} =>
              IF single THEN r.rows = <<>> /\ r.chunk = r.page
              ELSE /\ Len(r.rows) = Passed(r.chunk) /\ Len(r.rows) <= Len(all)
                   /\ \A i \in DOMAIN r.rows : r.rows[i].id = all[i]
        /\ r.phase = "read" => r.total = Len(all)
        /\ r.phase \in {"build", "drop", "call", "keep", "done"} =>
              [i \in DOMAIN r.rows |-> r.rows[i].id] =
                  IF single THEN Slice(all, r.page, ChunkSize) ELSE all

\* A list of those done by hand has no others, and what is found is what was wanted.
ShownAsWanted(r) ==
    /\ r.want = "MANUAL" =>
          \A i \in DOMAIN r.rows : /\ tracked[r.rows[i].id].carrier = "manual"
                                   /\ r.rows[i].shows \in {NoShow, "MANUAL"}
    /\ \A i \in DOMAIN r.found : r.want \in {Every, r.found[i].shows}

TrackerFits(r) ==
    /\ ListFresh(r) /\ CallFresh(r) /\ NotTakenBack(r) /\ ShownAsWanted(r)
    /\ r.steady /\ r.phase # "idle" => ListingKept(r)

TrackInv ==
    /\ TrackTypes /\ KnownSince /\ KeptFresh /\ ToldAtMost
    /\ \A t \in Trackers : TrackerFits(tracker[t])
===============================================================================
