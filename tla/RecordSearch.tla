----------------------------- MODULE RecordSearch ------------------------------
(* Searching. One engine serves seven resources, each of which says what of it  *)
(* is text, what can be filtered by and what sorted by. A search counts and then *)
(* fetches a page, in two statements between which rows come and go; the         *)
(* spotlight asks every resource at the same time and ranks what comes back      *)
(* before its deadline. How a text compares to the term that is looked for is    *)
(* kept, the text is not: "exact", "prefix", "contains", "none", or "empty".      *)
EXTENDS Integers, Sequences, FiniteSets, SequencesExt

CONSTANTS
    Entries,        \* rows: [type, text, col]
    Searches,       \* requests: [type, term, filters, sort, page, size]
    Spotlights,     \* requests to the spotlight: [types, limit]
    MaxInt,         \* bound: the largest int (2^63 - 1)
    DefaultSize, MaxSize,       \* 20 and 100 rows to a page
    AskedMost, SpotMost         \* limits of the spotlight: 50 and 10

VARIABLES
    entry,          \* what there is: "absent", "live" or "deleted"
    search,         \* a search on its way
    spot            \* a spotlight on its way

searchVars == <<entry, search, spot>>

-----------------------------------------------------------------------------
\* The resources: what the engine may do with their columns, and the fields the
\* spotlight goes by. Where equality is not offered, comparisons are.
Offered(equal, choice, compared) ==
    [f \in equal \cup choice \cup compared |->
        IF f \in compared THEN {"gte", "lte", "gt", "lt", "between"}
        ELSE IF f \in choice THEN {"eq", "in"} ELSE {"eq"}]

Up(field) == <<[field |-> field, dir |-> "ASC"]>>
Down(field) == <<[field |-> field, dir |-> "DESC"]>>

ContactResource ==
    [text |-> {"first_name", "last_name", "legal_name", "email", "document_number", "phone"},
     filters |-> Offered({"document_type", "city_code"}, {}, {"created_at", "updated_at"}),
     sorts |-> {"first_name", "last_name", "email", "document_number", "created_at", "updated_at"},
     usual |-> Down("created_at"),
     primary |-> <<"first_name", "last_name", "email">>,
     secondary |-> <<"document_number", "phone">>]

OrderResource ==
    [text |-> {"identifier", "payment_method"},
     filters |-> Offered({"realm", "contact_id", "payment_method"}, {}, {"created_at", "updated_at"}),
     sorts |-> {"identifier", "created_at", "updated_at"},
     usual |-> Down("created_at"),
     primary |-> <<"identifier">>, secondary |-> <<"payment_method", "realm">>]

ProductResource ==
    [text |-> {"sku"},
     filters |-> Offered({"sku"}, {}, {"price", "created_at"}),
     sorts |-> {"sku", "price", "created_at", "updated_at"},
     usual |-> Down("created_at"), primary |-> <<"sku">>, secondary |-> <<>>]

CategoryResource ==
    [text |-> {"name", "slug", "description"},
     filters |-> Offered({"parent_id", "slug"}, {}, {"created_at"}),
     sorts |-> {"name", "slug", "created_at"},
     usual |-> Up("name"), primary |-> <<"name">>, secondary |-> <<"slug", "description">>]

VariationResource ==
    [text |-> {"name", "value"},
     filters |-> Offered({}, {"definition"}, {"created_at"}),
     sorts |-> {"name", "definition", "created_at"},
     usual |-> Up("name"), primary |-> <<"name">>, secondary |-> <<"value">>]

TagResource ==
    [text |-> {"name"},
     filters |-> Offered({}, {}, {"created_at"}),
     sorts |-> {"name", "created_at"},
     usual |-> Up("name"), primary |-> <<"name">>, secondary |-> <<>>]

MarkResource ==
    [text |-> {"tracking_number", "order_id", "observations"},
     filters |-> Offered({"carrier_id", "dispatch_batch_id", "shipment_mode"}, {"status"},
                         {"created_at", "declared_value"}),
     sorts |-> {"tracking_number", "created_at", "declared_value", "status"},
     usual |-> Down("created_at"),
     primary |-> <<"tracking_number">>, secondary |-> <<"order_id">>]

Types == {"contact", "order", "product", "category", "variation", "tag", "shipping_mark"}

Resource(type) ==
    CASE type = "contact" -> ContactResource [] type = "order" -> OrderResource
      [] type = "product" -> ProductResource [] type = "category" -> CategoryResource
      [] type = "variation" -> VariationResource [] type = "tag" -> TagResource
      [] type = "shipping_mark" -> MarkResource

-----------------------------------------------------------------------------
\* The request. What is not a number is 0, what is too large is the largest.
Atoi(number) == IF number > MaxInt THEN MaxInt ELSE number

\* Filters are looked for by name: these fields, with these operators or none.
KnownFields ==
    {"document_type", "city_code", "status", "realm", "contact_id", "carrier_id", "channel",
     "segment_id", "parent_id", "definition", "dispatch_batch_id", "shipment_mode",
     "payment_method", "sku", "slug", "parent_segment_id", "tags", "created_at", "updated_at",
     "occurred_at", "price", "declared_value"}

ParseFilters(filters) ==
    {f \in filters : f.field \in KnownFields /\ f.op \in {"eq", "gte", "lte", "gt", "lt"}}

ParseQuery(request) ==
    [request EXCEPT !.filters = ParseFilters(@), !.page = Atoi(@), !.size = Atoi(@)]

NormalPage(page) == IF page <= 0 THEN 1 ELSE page

NormalSize(size) ==
    IF size <= 0 THEN DefaultSize ELSE IF size > MaxSize THEN MaxSize ELSE size

\* An int wraps around, and an OFFSET that is not positive is not written.
Wrapped(n) == LET m == n % (2 * (MaxInt + 1)) IN IF m > MaxInt THEN m - 2 * (MaxInt + 1) ELSE m

\* Mutant of Offset: pages are counted from 0.
OffsetByPage(page, size) == page * size

Offset(page, size) ==
    LET rows == Wrapped((page - 1) * size)
    IN  IF rows > 0 THEN rows ELSE 0

TotalPages(total, size) == (total + size - 1) \div size

-----------------------------------------------------------------------------
\* The query: WHERE and ORDER BY.
Matching(grade) == grade \in {"exact", "prefix", "contains"}

TextSearch(row, term) ==
    term => \E f \in Resource(row.type).text : Matching(row.text[f])

Compare(value, op, bound) ==
    CASE op = "eq" -> value = bound
      [] op = "gt" -> value > bound [] op = "lt" -> value < bound
      [] op = "gte" -> value >= bound [] op = "lte" -> value <= bound

\* Mutant of OperatorAllowed: whatever is asked goes into the statement.
AnyOperator(type, f) == TRUE

OperatorAllowed(type, f) ==
    LET allowed == Resource(type).filters
    IN  f.field \in DOMAIN allowed /\ f.op \in allowed[f.field]

Applied(q) == {f \in q.filters : OperatorAllowed(q.type, f)}

\* The statement names columns that the table has, or the database refuses it.
Columns(type) == DOMAIN Resource(type).filters \cup Resource(type).sorts

WellFormed(q) == {f.field : f \in Applied(q)} \subseteq Columns(q.type)

\* Marks have no column for deletion: what was deleted of them is not there.
Selected(q) ==
    {r \in DOMAIN Entries : /\ Entries[r].type = q.type /\ entry[r] = "live"
                            /\ TextSearch(Entries[r], q.term)
                            /\ \A f \in Applied(q) : Compare(Entries[r].col[f.field], f.op, f.value)}

\* The places of a sort that is offered, in their order, or the resource's own sort.
ResolveSort(q) ==
    LET valid == {i \in DOMAIN q.sort : q.sort[i].field \in Resource(q.type).sorts}
    IN  IF valid = {} THEN Resource(q.type).usual ELSE [i \in valid |-> q.sort[i]]

SortsBefore(q, r, s) ==
    LET by == ResolveSort(q)
        tells(i) == Entries[r].col[by[i].field] # Entries[s].col[by[i].field]
    IN  \E i \in DOMAIN by :
            /\ \A j \in DOMAIN by : j < i => ~tells(j)
            /\ IF by[i].dir = "ASC" THEN Entries[r].col[by[i].field] < Entries[s].col[by[i].field]
               ELSE Entries[r].col[by[i].field] > Entries[s].col[by[i].field]

\* Rows that the order does not tell apart come in any order.
Orderings(q, rows) ==
    {o \in SetToSeqs(rows) : \A i, j \in DOMAIN o : i < j => ~SortsBefore(q, o[j], o[i])}

SearchPage(o, offset, limit) ==
    SubSeq(o, offset + 1, IF offset + limit < Len(o) THEN offset + limit ELSE Len(o))

\* Every row has the columns of its resource, and a grade for every text.
ASSUME SearchAssumption ==
    /\ IsFiniteSet(DOMAIN Entries)
    /\ \A r \in DOMAIN Entries : LET row == Entries[r] IN
          /\ row.type \in Types
          /\ Resource(row.type).text \subseteq DOMAIN row.text
          /\ \A c \in Columns(row.type) : row.col[c] \in Int
    /\ \A request \in Searches : request \in
         [type : Types, term : BOOLEAN, filters : SUBSET [field : STRING, op : STRING, value : Int],
          sort : Seq([field : STRING, dir : STRING]), page : Int, size : Int]
    /\ \A request \in Spotlights : request \in [types : SUBSET STRING, limit : Int]
    /\ MaxInt \in Nat /\ MaxSize \in Nat /\ DefaultSize \in 1..MaxSize
    /\ AskedMost \in Nat \ {0} /\ SpotMost \in 1..MaxSize

-----------------------------------------------------------------------------
\* Search: a count, and the rows.
NoSearch == [phase |-> "idle", total |-> 0, data |-> <<>>, steady |-> TRUE]

BeginSearch ==
    /\ search.phase = "idle"
    /\ \E request \in Searches : search' = [phase |-> "count", q |-> ParseQuery(request),
                                            total |-> 0, data |-> <<>>, steady |-> TRUE]
    /\ UNCHANGED <<entry, spot>>

CountMatches ==
    /\ search.phase = "count"
    /\ search' = IF WellFormed(search.q)
                 THEN [search EXCEPT !.phase = "find", !.total = Cardinality(Selected(search.q))]
                 ELSE [search EXCEPT !.phase = "failed"]
    /\ UNCHANGED <<entry, spot>>

FindRows ==
    LET q == search.q
        size == NormalSize(q.size)
    IN  /\ search.phase = "find"
        /\ \E o \in Orderings(q, Selected(q)) :
             search' = [search EXCEPT !.phase = "found",
                                      !.data = SearchPage(o, Offset(NormalPage(q.page), size), size)]
        /\ UNCHANGED <<entry, spot>>

-----------------------------------------------------------------------------
\* The spotlight. Scores are in tenths.
\* Mutant of FieldScore: a match is a match.
FieldScoreFlat(grade) == IF Matching(grade) THEN 10 ELSE 0

FieldScore(grade) ==
    CASE grade = "exact" -> 10 [] grade = "prefix" -> 7 [] grade = "contains" -> 4 [] OTHER -> 0

BoostPrimary == 3
BoostOther == 1

\* An empty value scores nothing, one that does not match its boost.
Score(row) ==
    LET of(fields, boost) == {IF row.text[f] = "empty" THEN 0 ELSE FieldScore(row.text[f]) + boost :
                                f \in ToSet(fields)}
        all == {0} \cup of(Resource(row.type).primary, BoostPrimary)
                   \cup of(Resource(row.type).secondary, BoostOther)
    IN  CHOOSE s \in all : \A z \in all : z <= s

SpotLimit(limit) ==
    LET asked == IF limit <= 0 THEN SpotMost ELSE IF limit > AskedMost THEN AskedMost ELSE limit
    IN  IF asked > SpotMost THEN SpotMost ELSE asked

NoSpot == [phase |-> "idle", limit |-> 0, waits |-> {}, hits |-> {},
           counts |-> [type \in {} |-> 0], results |-> <<>>, steady |-> TRUE]

\* No types, or none in the list: all of them.
BeginSpotlight ==
    /\ spot.phase = "idle"
    /\ \E request \in Spotlights :
         spot' = [NoSpot EXCEPT !.phase = "ask", !.limit = SpotLimit(request.limit),
                                !.waits = IF request.types = {} THEN Types
                                          ELSE request.types \cap Types]
    /\ UNCHANGED <<entry, search>>

\* Each resource answers with the first of its own order, whatever they score ...
SpotQuery(type, limit) ==
    [type |-> type, term |-> TRUE, filters |-> {}, sort |-> <<>>, page |-> 1, size |-> limit]

AnswerSpotlight(type) ==
    LET q == SpotQuery(type, spot.limit)
    IN  /\ spot.phase = "ask" /\ type \in spot.waits
        /\ \E o \in Orderings(q, Selected(q)) :
             LET hits == ToSet(SearchPage(o, 0, NormalSize(spot.limit)))
             IN  spot' = [spot EXCEPT !.waits = @ \ {type}, !.hits = @ \cup hits,
                                      !.counts = [t \in DOMAIN @ \cup {type} |->
                                                IF t = type THEN Cardinality(hits) ELSE @[t]]]
        /\ UNCHANGED <<entry, search>>

\* ... or does not, in time, and is not heard of.
MissSpotlight(type) ==
    /\ spot.phase = "ask" /\ type \in spot.waits
    /\ spot' = [spot EXCEPT !.waits = @ \ {type}]
    /\ UNCHANGED <<entry, search>>

RankSpotlight ==
    /\ spot.phase = "ask" /\ spot.waits = {}
    /\ \E o \in SetToSeqs(spot.hits) :
         /\ \A i, j \in DOMAIN o : i < j => Score(Entries[o[i]]) >= Score(Entries[o[j]])
         /\ spot' = [spot EXCEPT !.phase = "ranked", !.results = o, !.hits = {}]
    /\ UNCHANGED <<entry, search>>

-----------------------------------------------------------------------------
SearchInit ==
    /\ entry \in [DOMAIN Entries -> {"absent", "live", "deleted"}]
    /\ search = NoSearch
    /\ spot = NoSpot

\* A row is made, or goes; one of them while a request is on its way (bound).
\* Requests share nothing but the rows, so that there is one.
ChangeEntry(r) ==
    /\ entry[r] \in {"absent", "live"} /\ search.steady /\ spot.steady
    /\ search.phase # "idle" \/ spot.phase # "idle"
    /\ entry' = [entry EXCEPT ![r] = IF @ = "absent" THEN "live"
                                     ELSE IF Entries[r].type = "shipping_mark" THEN "absent"
                                     ELSE "deleted"]
    /\ search' = [search EXCEPT !.steady = search.phase = "idle"]
    /\ spot' = [spot EXCEPT !.steady = spot.phase = "idle"]

FindNext ==
    \/ \E r \in DOMAIN Entries : ChangeEntry(r)
    \/ BeginSearch \/ CountMatches \/ FindRows

SpotNext ==
    \/ \E r \in DOMAIN Entries : ChangeEntry(r)
    \/ BeginSpotlight \/ RankSpotlight
    \/ \E type \in Types : AnswerSpotlight(type) \/ MissSpotlight(type)

-----------------------------------------------------------------------------
\* A search shows rows that are there, of its resource, with the term in them, and
\* in the range that it was given where the resource offers that; and whatever is
\* in the request, the database can run it (BuildGORMQuery, isOperatorAllowed).
FindsWhatWasAsked ==
    /\ search.phase # "failed"
    /\ (search.phase = "found" /\ search.steady) =>
         \A i \in DOMAIN search.data :
            LET row == Entries[search.data[i]]
            IN  /\ entry[search.data[i]] = "live" /\ row.type = search.q.type
                /\ search.q.term => \E f \in DOMAIN row.text : Matching(row.text[f])
                /\ \A f \in search.q.filters :
                     (f.field = "created_at" /\ f.op # "eq") => Compare(row.col[f.field], f.op, f.value)

\* Turning the pages shows every row once, in order: where rows do not tie, a row on
\* page p is preceded by what fits on the pages before it and on its own, the pages
\* up to totalPages have rows, and those after it have none. Beyond what an int
\* holds the first page is shown again (applies to offsets that fit).
PagesAreWhole ==
    LET q == search.q
        page == NormalPage(q.page)
        size == NormalSize(q.size)
        all == Selected(q)
        ties == \E r, s \in all : r # s /\ ~SortsBefore(q, r, s) /\ ~SortsBefore(q, s, r)
    IN  (search.phase = "found" /\ search.steady) =>
          /\ (page - 1) * size <= MaxInt =>
               /\ ~ties => \A i \in DOMAIN search.data :
                    Cardinality({s \in all : SortsBefore(q, s, search.data[i])}) = (page - 1) * size + i - 1
               /\ (search.data # <<>>) <=> (page <= TotalPages(search.total, size))
               /\ page < TotalPages(search.total, size) => Len(search.data) = size
          /\ Cardinality(ToSet(search.data)) = Len(search.data)

\* The best of a row's fields against the term.
BestGrade(row) ==
    LET grades == {row.text[f] : f \in ToSet(Resource(row.type).primary \o Resource(row.type).secondary)}
    IN  IF "exact" \in grades THEN 3
        ELSE IF "prefix" \in grades THEN 2 ELSE IF "contains" \in grades THEN 1 ELSE 0

\* The spotlight lists a hit that is what was looked for before one that only starts
\* with it, and that before one that only contains it, whatever field and resource
\* they are of; it has found all there is of a resource that answered, unless there
\* is more than the limit (SpotlightService.Search, ScoreResults).
SpotlightRanks ==
    spot.phase = "ranked" =>
        /\ \A i, j \in DOMAIN spot.results : i < j =>
              BestGrade(Entries[spot.results[i]]) >= BestGrade(Entries[spot.results[j]])
        /\ \A type \in DOMAIN spot.counts :
              LET shown == {i \in DOMAIN spot.results : Entries[spot.results[i]].type = type}
                  all == Cardinality(Selected(SpotQuery(type, 1)))
              IN  /\ Cardinality(shown) = spot.counts[type]
                  /\ spot.steady => spot.counts[type] = IF all < spot.limit THEN all ELSE spot.limit

SearchSafety == FindsWhatWasAsked /\ PagesAreWhole /\ SpotlightRanks

-----------------------------------------------------------------------------
(* What makes searching safe.                                                   *)

SearchNext == FindNext \/ SpotNext

SearchSpec == SearchInit /\ [][SearchNext]_searchVars

AskedQuery ==
    [type : Types, term : BOOLEAN,
     filters : SUBSET [field : STRING, op : {"eq", "gte", "lte", "gt", "lt"}, value : Int],
     sort : Seq([field : STRING, dir : STRING]), page : Int, size : Int]

SpotType(answered) ==
    [phase : {"idle", "ask", "ranked"}, limit : Nat, waits : SUBSET Types,
     hits : SUBSET DOMAIN Entries, counts : [answered -> Nat],
     results : Seq(DOMAIN Entries), steady : BOOLEAN]

\* No search fails.
SearchTypes ==
    /\ entry \in [DOMAIN Entries -> {"absent", "live", "deleted"}]
    /\ search = NoSearch \/ search \in
         [phase : {"count", "find", "found"}, q : AskedQuery, total : Nat,
          data : Seq(DOMAIN Entries), steady : BOOLEAN]
    /\ \E answered \in SUBSET Types : spot \in SpotType(answered)

\* What was counted is what there is, as long as no row comes or goes.
CountedAll ==
    (search.phase = "find" /\ search.steady) => search.total = Cardinality(Selected(search.q))

HitsOf(hits, type) == {r \in hits : Entries[r].type = type}

\* Each resource that has answered has given all it has, up to the limit.
AnsweredAll ==
    spot.phase = "ask" =>
        /\ spot.limit \in 1..SpotMost /\ spot.waits \cap DOMAIN spot.counts = {}
        /\ \A r \in spot.hits : Entries[r].type \in DOMAIN spot.counts
        /\ \A type \in DOMAIN spot.counts :
              LET all == Cardinality(Selected(SpotQuery(type, 1)))
              IN  /\ Cardinality(HitsOf(spot.hits, type)) = spot.counts[type]
                  /\ spot.steady => spot.counts[type] = IF all < spot.limit THEN all ELSE spot.limit

SearchInv == SearchTypes /\ CountedAll /\ AnsweredAll /\ SearchSafety
===============================================================================
