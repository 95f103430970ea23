---------------------------- MODULE ReportExports -----------------------------
(* Lists that are read page by page, and the CSV reports of contacts and orders *)
(* (module/exports) that are made of all their pages. Each page takes two       *)
(* statements, one that counts the rows and one that fetches the page; the      *)
(* table goes on changing between them. A report is put into the object store   *)
(* under its type, second and content hash, and then entered in the registry.   *)
EXTENDS Naturals, Sequences, FiniteSets, SequencesExt

CONSTANTS
    Walkers,    \* readers that turn all pages of the list
    Rows,       \* rows of the listed table, numbered as their identifiers sort
    PageSize,   \* rows of a page
    LastStamp   \* bound: the clock

ASSUME ReportAssumption ==
    Rows \subseteq Nat /\ PageSize \in Nat \ {0} /\ LastStamp \in Nat

VARIABLES
    listing,    \* the list that is followed
    stamps,     \* created_at of every row; 0 before it is written
    gone,       \* rows that were deleted
    now,        \* the clock
    walk,       \* what each reader has seen
    objects,    \* the object store
    registry    \* export_reports

reportVars == <<listing, stamps, gone, now, walk, objects, registry>>

\* How a list is arranged: newest rows first or last, identifiers break ties or
\* nothing does, and the report that is made of it.
Arranged(newest, unique, report) == [newest |-> newest, unique |-> unique, report |-> report]

\* Mutant of ContactList: the newest contacts come first, as in the other lists.
ContactsNewestFirst == Arranged(TRUE, FALSE, "contacts")

ContactList == Arranged(FALSE, FALSE, "contacts")
OrderList == Arranged(TRUE, FALSE, "orders")
AssetList == Arranged(TRUE, FALSE, "none")
FolderList == Arranged(TRUE, FALSE, "none")
MarkList == Arranged(TRUE, FALSE, "none")
BatchList == Arranged(TRUE, FALSE, "none")
SyncRunList == Arranged(TRUE, FALSE, "none")
ProductList == Arranged(TRUE, FALSE, "none")
CategoryList == Arranged(FALSE, TRUE, "none")
CouponList == Arranged(TRUE, TRUE, "none")
ReportList == Arranged(TRUE, TRUE, "none")

Lists == {ContactList, OrderList, AssetList, FolderList, MarkList, BatchList,
          SyncRunList, ProductList, CategoryList, CouponList, ReportList}

Present == {r \in Rows \ gone : stamps[r] > 0}

\* Row a may be fetched before row b.
Before(a, b) ==
    LET earlier == \/ stamps[a] < stamps[b]
                   \/ listing.unique /\ stamps[a] = stamps[b] /\ a < b
        later == \/ stamps[a] > stamps[b]
                 \/ listing.unique /\ stamps[a] = stamps[b] /\ a > b
        tied == ~listing.unique /\ stamps[a] = stamps[b]
    IN  tied \/ IF listing.newest THEN later ELSE earlier

\* The arrangements the database may answer a query from.
Arrangements ==
    {s \in SetToSeqs(Present) : \A i, j \in 1..Len(s) : i < j => Before(s[i], s[j])}

PageOf(s, page) ==
    SubSeq(s, (page - 1) * PageSize + 1,
              IF page * PageSize < Len(s) THEN page * PageSize ELSE Len(s))

Pages(total) == (total + PageSize - 1) \div PageSize

\* A reader that has not begun: program point, page, rows counted and seen, rows
\* that were there when it began, whether the table only grew at its new end
\* since, and whether it did not change at all.
Closed == [at |-> "idle", page |-> 1, total |-> 0, seen |-> <<>>,
           start |-> {}, grew |-> FALSE, shook |-> FALSE, stamp |-> 0]

Done == [Closed EXCEPT !.at = "done"]

\* Some readers do not come.
ReportInit ==
    /\ listing \in Lists
    /\ stamps = [r \in Rows |-> 0]
    /\ gone = {}
    /\ now = 1
    /\ walk \in [Walkers -> {Closed, Done}]
    /\ objects = {} /\ registry = {}

-----------------------------------------------------------------------------
(* The table. *)

\* Readers under way notice an arrival or something worse.
Noticed(field) ==
    walk' = [w \in Walkers |->
               IF walk[w].at \in {"count", "fetch", "walked"} THEN [walk[w] EXCEPT ![field] = TRUE]
                                                    ELSE walk[w]]

\* A row is written with the time of day.
ArriveLast(r) ==
    /\ stamps[r] = 0
    /\ stamps' = [stamps EXCEPT ![r] = now]
    /\ Noticed("grew")
    /\ UNCHANGED <<listing, gone, now, objects, registry>>

\* Contacts and orders that are imported keep the time the shop gave them.
ArriveBackdated(r, t) ==
    /\ listing.report # "none" /\ stamps[r] = 0 /\ t < now
    /\ stamps' = [stamps EXCEPT ![r] = t]
    /\ Noticed("shook")
    /\ UNCHANGED <<listing, gone, now, objects, registry>>

\* A row is deleted, or its deletion is marked.
Vanish(r) ==
    /\ r \in Present
    /\ gone' = gone \cup {r}
    /\ Noticed("shook")
    /\ UNCHANGED <<listing, stamps, now, objects, registry>>

ReportTick ==
    /\ now < LastStamp /\ now' = now + 1
    /\ UNCHANGED <<listing, stamps, gone, walk, objects, registry>>

-----------------------------------------------------------------------------
(* A reader. *)

Advance(w, changed) ==
    /\ walk' = [walk EXCEPT ![w] = changed]
    /\ UNCHANGED <<listing, stamps, gone, now, objects, registry>>

Open(w) ==
    /\ walk[w].at = "idle"
    /\ Advance(w, [walk[w] EXCEPT !.at = "count", !.start = Present])

CountRows(w) ==
    /\ walk[w].at = "count"
    /\ Advance(w, [walk[w] EXCEPT !.at = "fetch", !.total = Cardinality(Present)])

\* The walk ends with the last page, as the count has it, or with an empty one.
FetchPage(w) ==
    /\ walk[w].at = "fetch"
    /\ \E s \in Arrangements :
         LET rows == PageOf(s, walk[w].page)
             last == walk[w].page >= Pages(walk[w].total) \/ rows = <<>>
         IN  Advance(w, [walk[w] EXCEPT !.seen = @ \o rows,
                           !.page = IF last THEN @ ELSE @ + 1,
                           !.at = IF last THEN "walked" ELSE "count"])

\* Mutant of StorageKey: the content is not part of it.
StampKey(w) == <<listing.report, walk[w].stamp>>

StorageKey(w) == <<listing.report, walk[w].stamp, walk[w].seen>>

\* persistReport takes the time,
Stamp(w) ==
    /\ walk[w].at = "walked" /\ listing.report # "none"
    /\ Advance(w, [Closed EXCEPT !.at = "upload", !.seen = walk[w].seen, !.stamp = now])

\* uploads the report, replacing an object of that key, or ends when the store
\* is not available or refuses,
Upload(w, stored) ==
    /\ walk[w].at = "upload"
    /\ objects' = IF stored
                  THEN {o \in objects : o.key # StorageKey(w)}
                         \cup {[key |-> StorageKey(w), content |-> walk[w].seen]}
                  ELSE objects
    /\ walk' = [walk EXCEPT ![w] = IF stored THEN [@ EXCEPT !.at = "register"] ELSE Done]
    /\ UNCHANGED <<listing, stamps, gone, now, registry>>

\* and enters it. An object whose row is not written stays without one.
Register(w, written) ==
    /\ walk[w].at = "register"
    /\ registry' = IF written
                   THEN registry \cup {[key |-> StorageKey(w), hash |-> walk[w].seen,
                                        rowCount |-> Len(walk[w].seen)]}
                   ELSE registry
    /\ walk' = [walk EXCEPT ![w] = Done]
    /\ UNCHANGED <<listing, stamps, gone, now, objects>>

ReportNext ==
    \/ \E r \in Rows : ArriveLast(r) \/ Vanish(r) \/ \E t \in 1..LastStamp : ArriveBackdated(r, t)
    \/ \E w \in Walkers : Open(w) \/ CountRows(w) \/ FetchPage(w) \/ Stamp(w)
    \/ \E w \in Walkers, ok \in BOOLEAN : Upload(w, ok) \/ Register(w, ok)
    \/ ReportTick

-----------------------------------------------------------------------------
\* What a registry row names is in the store, and is what its hash says, although
\* two reports of one type are made in the same second (persistReport).
RegistryBacked ==
    \A row \in registry : \E o \in objects : o.key = row.key /\ o.content = row.hash

Once(seen, rows) ==
    \A r \in rows : Cardinality({i \in 1..Len(seen) : seen[i] = r}) = 1

\* No two rows are tied in the order of the list.
ToldApart == listing.unique \/ \A a, b \in Present : stamps[a] = stamps[b] => a = b

\* A walk through a list whose rows are told apart by its order sees each row it
\* began with once, when the table does not change under it; a walk through the
\* contacts does so while new ones arrive (ListContacts asks for the oldest
\* first), and sees no row twice.
WalksAreComplete ==
    \A w \in Walkers :
        LET seen == walk[w].seen
            start == walk[w].start
        IN  walk[w].at = "walked" /\ ToldApart /\ ~walk[w].shook =>
                /\ ~walk[w].grew => Once(seen, start) /\ Len(seen) = Cardinality(start)
                /\ listing = ContactList => Once(seen, start) /\ IsInjective(seen)

ReportSafety == RegistryBacked /\ WalksAreComplete

-----------------------------------------------------------------------------
(* What makes the reports safe: a reader has the first rows of the list, which *)
(* is the same list, or one that became longer, whenever it is asked for.      *)

ReportSpec == ReportInit /\ [][ReportNext]_reportVars

WalkType ==
    [at : {"idle", "count", "fetch", "walked", "upload", "register", "done"}, page : Nat \ {0},
     total : Nat, seen : Seq(Rows), start : SUBSET Rows, grew : BOOLEAN, shook : BOOLEAN, stamp : Nat]

ReportTypes ==
    /\ listing \in Lists
    /\ now \in Nat /\ stamps \in [Rows -> 0..now]
    /\ IsFiniteSet({r \in Rows : stamps[r] > 0})
    /\ walk \in [Walkers -> WalkType]

\* The rows that come before row r.
Ahead(r) == {p \in Present : p # r /\ Before(p, r)}

\* The readers whose walk shows what WalksAreComplete says.
Follows(r) ==
    /\ r.at \in {"count", "fetch", "walked"} /\ ~r.shook
    /\ listing = ContactList \/ ~r.grew

\* What they began with is there still, and what came since comes after it.
StartKept(r) ==
    /\ r.start \subseteq Present
    /\ ~r.grew => r.start = Present
    /\ \A n \in Present \ r.start : \A a \in r.start : ~Before(n, a)

\* Row by row what they saw is what is there, and every page but the last was full.
SeenInOrder(r) ==
    /\ \A i \in DOMAIN r.seen : r.seen[i] \in Present /\ Cardinality(Ahead(r.seen[i])) = i - 1
    /\ r.at \in {"count", "fetch"} => Len(r.seen) = (r.page - 1) * PageSize
    /\ r.at = "fetch" => r.total >= Cardinality(r.start) /\ r.total <= Cardinality(Present)
    /\ r.at = "walked" => Len(r.seen) >= Cardinality(r.start)

\* A key ends with the content of the object that has it.
KeysNameContent ==
    /\ \A o \in objects : o.key[3] = o.content
    /\ \A row \in registry : row.key[3] = row.hash
    /\ \A w \in Walkers : walk[w].at = "register" =>
          \E o \in objects : o.key = StorageKey(w) /\ o.content = walk[w].seen

ReadersFollow ==
    ToldApart => \A w \in Walkers : Follows(walk[w]) => StartKept(walk[w]) /\ SeenInOrder(walk[w])

ReportInv ==
    /\ ReportTypes
    /\ \A w \in Walkers : walk[w].at = "idle" => walk[w] = Closed
    /\ ReadersFollow
    /\ RegistryBacked /\ KeysNameContent
===============================================================================
