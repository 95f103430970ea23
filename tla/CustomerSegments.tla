---------------------------- MODULE CustomerSegments ----------------------------
(* The customers a segment finds in ClickHouse. A stored filter, a list of      *)
(* clauses or a row of fields, is turned into a WHERE with a "?" for every      *)
(* value, and the values into one list the driver puts in the place of the      *)
(* "?"s, first to first. A count and the pages are requests of their own, each   *)
(* of which looks up the top spenders again before it runs its query.           *)
(* Values are numbers, whatever they stand for: a status, a city, a day.        *)
EXTENDS Integers, Sequences, FiniteSets, SequencesExt, FiniteSetsExt

CONSTANTS
    Profiles,       \* what analytics can know of the customers
    Segments,       \* the filters
    LostTypes,      \* clause types that read a table no migration leaves in place
    PageLimit       \* customers to a page

VARIABLES
    profile,        \* contacts_snapshot, membership_events, orders_fact, by customer
    segment,        \* the filter the requests are for
    ask,            \* the request: its page (0: the count), its step, the top spenders
    found           \* the answers so far

segmentVars == <<profile, segment, ask, found>>

Email == 1
OptOut == 1
OptIn == 2

\* topSpenderIDs = nil.
NoSpenders == {0}

NothingFound == [count |-> 0, rows |-> <<>>, over |-> FALSE, failed |-> FALSE]

SegmentInit ==
    /\ profile \in Profiles
    /\ segment \in Segments
    /\ ask = [page |-> 0, step |-> "spenders", limit |-> 0, top |-> NoSpenders]
    /\ found = NothingFound

-----------------------------------------------------------------------------
\* A condition: what it asks, what each of its "?" is, and the values for them.
Condition(asks, holes, args) ==
    <<[asks |-> asks, holes |-> holes, args |-> args, negated |-> FALSE]>>

Dropped == <<>>

Holes(hole, n) == [i \in 1..n |-> hole]

WithoutTwins(s) == FoldLeft(LAMBDA kept, v : IF Contains(kept, v) THEN kept ELSE Append(kept, v), <<>>, s)

\* The statuses an order must be in, and must not be in, to count at all. Clauses
\* on them are collected wherever they stand; the fields know only the first.
Statuses(filter, exclude) ==
    LET asked == SelectSeq(filter.clauses, LAMBDA c : c.type = "order_status" /\ c.exclude = exclude)
    IN  WithoutTwins(FlattenSeq([i \in DOMAIN asked |-> asked[i].given]))

Scope(filter) ==
    IF filter.form = "clauses"
    THEN [in |-> Statuses(filter, FALSE), out |-> Statuses(filter, TRUE)]
    ELSE [in |-> filter.statuses, out |-> <<>>]

ScopeHoles(scope) == Holes("in", Len(scope.in)) \o Holes("out", Len(scope.out))
ScopeArgs(scope) == scope.in \o scope.out

\* What was given for a clause, and for its twin among the fields: <<>> when it
\* cannot be read as what the clause wants. A clause left without is dropped.
CityCondition(given) ==
    IF given = <<>> THEN Dropped
    ELSE Condition("city", Holes("first", Len(given)), given)

\* Mutant of SpendCondition: the value goes before those of the statuses.
SpendConditionValueFirst(given, scope) ==
    IF given = <<>> THEN Dropped
    ELSE Condition("spend", ScopeHoles(scope) \o <<"first">>, given \o ScopeArgs(scope))

SpendCondition(given, scope) ==
    IF given = <<>> THEN Dropped
    ELSE Condition("spend", ScopeHoles(scope) \o <<"first">>, ScopeArgs(scope) \o given)

ConsentCondition(given) ==
    IF given = <<>> THEN Dropped
    ELSE Condition("consent", <<"first">>, <<IF given[1] = 1 THEN OptIn ELSE OptOut>>)

SkuCondition(given, scope) ==
    IF given = <<>> THEN Dropped
    ELSE Condition("sku", Holes("first", Len(given)) \o ScopeHoles(scope), given \o ScopeArgs(scope))

RecencyCondition(type, given, scope) ==
    IF given = <<>> \/ given[1] <= 0 THEN Dropped
    ELSE Condition(type, <<"first">> \o ScopeHoles(scope), given \o ScopeArgs(scope))

CategoryCondition(given, scope) ==
    IF given = <<>> THEN Dropped
    ELSE Condition("category", <<"first", "second">> \o ScopeHoles(scope),
                   given \o given \o ScopeArgs(scope))

TopCondition(top) ==
    IF top = NoSpenders THEN Dropped
    ELSE Condition("top", Holes("first", Cardinality(top)), SetToSeq(top))

\* Both count unless they are told not to.
BuyingCondition(type, given, scope) ==
    IF given = <<0>> THEN Dropped
    ELSE Condition(type, ScopeHoles(scope), ScopeArgs(scope))

OptInCondition(given) ==
    IF given = <<>> THEN Dropped
    ELSE Condition("opt_in", <<"first", "second">>,
                   IF Len(given) = 1 THEN <<given[1], OptIn>> ELSE given)

MetadataCondition(given) ==
    IF given = <<>> THEN Dropped
    ELSE Condition("metadata", IF Len(given) = 1 THEN <<"first">> ELSE <<"first", "second">>, given)

CountCondition(given, scope) ==
    IF given = <<>> \/ given[1] <= 0 THEN Dropped
    ELSE Condition("count", ScopeHoles(scope) \o <<"first">>, ScopeArgs(scope) \o given)

\* One "?" for every bound that is given; so do the two below. What the clause
\* asks of its table is left out: the query fails for want of it.
ScoreCondition(type, given) ==
    IF given = <<>> THEN Dropped ELSE Condition(type, Holes("first", Len(given)), given)

AffinityCondition(type, given) == ScoreCondition(type, given)

OpenRateCondition(given) == ScoreCondition("mail_open_rate", given)

\* The condition of one clause; of a type that is not known there is none.
ClauseCondition(c, scope, top) ==
    CASE c.type = "city" -> CityCondition(c.given)
      [] c.type = "min_total_spend" -> SpendCondition(c.given, scope)
      [] c.type = "email_opt_in" -> ConsentCondition(c.given)
      [] c.type = "purchased_sku" -> SkuCondition(c.given, scope)
      [] c.type \in {"order_recency", "no_order_recency"} -> RecencyCondition(c.type, c.given, scope)
      [] c.type = "category" -> CategoryCondition(c.given, scope)
      [] c.type = "top_spenders" -> TopCondition(top)
      [] c.type \in {"first_purchase_only", "subscribed_no_buy"} -> BuyingCondition(c.type, c.given, scope)
      [] c.type = "opt_in_status" -> OptInCondition(c.given)
      [] c.type = "metadata" -> MetadataCondition(c.given)
      [] c.type \in {"rfm_score", "rfm_range"} -> ScoreCondition(c.type, c.given)
      [] c.type = "min_order_count" -> CountCondition(c.given, scope)
      [] c.type \in {"tag_affinity", "category_affinity", "variation_affinity"} -> AffinityCondition(c.type, c.given)
      [] c.type = "mail_open_rate" -> OpenRateCondition(c.given)
      [] OTHER -> Dropped

Negate(exclude, condition) ==
    [i \in DOMAIN condition |-> [condition[i] EXCEPT !.negated = exclude]]

ClausesWhere(filter, top) ==
    FlattenSeq([i \in DOMAIN filter.clauses |->
        Negate(filter.clauses[i].exclude, ClauseCondition(filter.clauses[i], Scope(filter), top))])

\* The fields come in an order of their own and are never left out on purpose;
\* the spenders are looked at whenever they were looked up.
FieldOrder ==
    <<"city", "email_opt_in", "opt_in_status", "min_total_spend", "purchased_sku", "category",
      "order_recency", "no_order_recency", "first_purchase_only", "subscribed_no_buy",
      "top_spenders", "metadata", "rfm_score", "rfm_range", "tag_affinity",
      "category_affinity", "variation_affinity", "min_order_count", "mail_open_rate">>

FieldCondition(filter, type, top) ==
    IF type = "top_spenders" THEN TopCondition(top)
    ELSE LET set == SelectSeq(filter.clauses, LAMBDA c : c.type = type)
         IN  IF set = <<>> THEN Dropped ELSE ClauseCondition(set[1], Scope(filter), top)

FieldsWhere(filter, top) ==
    FlattenSeq([i \in DOMAIN FieldOrder |-> FieldCondition(filter, FieldOrder[i], top)])

\* A list of contacts the segment is searched in comes first in either form.
ContactScope(filter) ==
    IF filter.contacts = <<>> THEN Dropped
    ELSE Condition("top", Holes("first", Len(filter.contacts)), filter.contacts)

Where(filter, top) ==
    ContactScope(filter)
      \o IF filter.form = "clauses" THEN ClausesWhere(filter, top) ELSE FieldsWhere(filter, top)

-----------------------------------------------------------------------------
\* The driver: the k-th "?" of the query gets the k-th value. Of condition i, the
\* values that end up in its holes of one name.
Bound(where, i) ==
    LET before == Len(FlattenSeq([j \in 1..(i - 1) |-> where[j].holes]))
        args == FlattenSeq([j \in DOMAIN where |-> where[j].args])
    IN  [hole \in {"first", "second", "in", "out"} |->
           {args[before + k] : k \in {n \in DOMAIN where[i].holes : where[i].holes[n] = hole}}]

\* The orders of a customer that count.
InScope(p, b) ==
    {o \in p.orders : (b["in"] = {} \/ o.status \in b["in"]) /\ o.status \notin b["out"]}

Total(orders) == MapThenSumSet(LAMBDA o : o.total, orders)

\* The latest action in a channel: neither when there is none.
Agreed(p, channel, action) == channel \in DOMAIN p.consent /\ p.consent[channel] = action

Spent(p, b) == \E v \in b["first"] : InScope(p, b) # {} /\ Total(InScope(p, b)) >= v

Consented(p, b) == \E v \in b["first"] : Agreed(p, Email, v)

OptedIn(p, b) == \E ch \in b["first"], v \in b["second"] : Agreed(p, ch, v)

Bought(p, b) == \E o \in InScope(p, b) : o.sku \in b["first"]

BoughtKind(p, b) == \E o \in InScope(p, b) : o.sku \in b["first"] \/ o.name \in b["second"]

Recent(p, b) == \E o \in InScope(p, b), days \in b["first"] : o.age <= days

BoughtOnce(p, b) == Cardinality(InScope(p, b)) = 1

OnlySubscribed(p, b) == Agreed(p, Email, OptIn) /\ InScope(p, b) = {}

Noted(p, b) ==
    \E key \in b["first"] :
        /\ key \in DOMAIN p.notes
        /\ IF b["second"] = {} THEN p.notes[key] # 0 ELSE p.notes[key] \in b["second"]

OrderedOften(p, b) == \E n \in b["first"] : Cardinality(InScope(p, b)) >= n

\* What a condition says of a customer, given the values in its holes.
Says(asks, b, customer) ==
    LET p == profile[customer]
    IN  CASE asks = "city" -> p.city \in b["first"]
          [] asks = "spend" -> Spent(p, b)
          [] asks = "consent" -> Consented(p, b)
          [] asks = "opt_in" -> OptedIn(p, b)
          [] asks = "sku" -> Bought(p, b)
          [] asks = "category" -> BoughtKind(p, b)
          [] asks = "order_recency" -> Recent(p, b)
          [] asks = "no_order_recency" -> ~Recent(p, b)
          [] asks = "top" -> customer \in b["first"]
          [] asks = "first_purchase_only" -> BoughtOnce(p, b)
          [] asks = "subscribed_no_buy" -> OnlySubscribed(p, b)
          [] asks = "metadata" -> Noted(p, b)
          [] asks = "count" -> OrderedOften(p, b)

Answer(where) ==
    {x \in DOMAIN profile : \A i \in DOMAIN where :
        Says(where[i].asks, Bound(where, i), x) = ~where[i].negated}

-----------------------------------------------------------------------------
\* resolveTopSpenderIDs: first how many have ordered at all, under the scope,
Ordered(filter) ==
    LET b == [in |-> ToSet(Scope(filter).in), out |-> ToSet(Scope(filter).out)]
    IN  [x \in {c \in DOMAIN profile : InScope(profile[c], b) # {}} |-> Total(InScope(profile[x], b))]

SpenderLimit(filter, n) ==
    IF filter.limit > 0 THEN filter.limit
    ELSE LET computed == (n * filter.percent + 99) \div 100
         IN  IF filter.percent = 0 THEN 0 ELSE IF computed < 1 THEN 1 ELSE computed

\* then the first so many of them; who spent the same comes in no order.
TopSets(spent, limit) ==
    {top \in SUBSET DOMAIN spent :
        /\ Cardinality(top) = IF limit < Cardinality(DOMAIN spent) THEN limit ELSE Cardinality(DOMAIN spent)
        /\ \A x \in top, y \in DOMAIN spent \ top : spent[x] >= spent[y]}

WantsSpenders(filter) == filter.limit > 0 \/ filter.percent > 0

CountSpenders ==
    /\ ask.step = "spenders"
    /\ LET n == Cardinality(DOMAIN Ordered(segment))
       IN  ask' = IF ~WantsSpenders(segment) THEN [ask EXCEPT !.step = "query"]
                  ELSE IF n = 0 THEN [ask EXCEPT !.step = "query", !.top = {}]
                  ELSE [ask EXCEPT !.step = "pick", !.limit = SpenderLimit(segment, n)]
    /\ UNCHANGED <<profile, segment, found>>

PickSpenders ==
    /\ ask.step = "pick"
    /\ \E top \in TopSets(Ordered(segment), ask.limit) :
           ask' = [ask EXCEPT !.step = "query", !.top = top]
    /\ UNCHANGED <<profile, segment, found>>

\* No spenders: nobody at all, whether the clause keeps them or leaves them out.
Impossible(top) == top = {}

\* A clause whose table is gone fails the query.
Fails(where) == \E i \in DOMAIN where : where[i].asks \in LostTypes

NextAsk(page) == [page |-> page, step |-> "spenders", limit |-> 0, top |-> NoSpenders]

RunCount ==
    /\ ask.step = "query" /\ ask.page = 0
    /\ IF ~Impossible(ask.top) /\ Fails(Where(segment, ask.top))
       THEN /\ found' = [found EXCEPT !.over = TRUE, !.failed = TRUE]
            /\ ask' = [ask EXCEPT !.step = "done"]
       ELSE /\ found' = [found EXCEPT !.count =
                  IF Impossible(ask.top) THEN 0 ELSE Cardinality(Answer(Where(segment, ask.top)))]
            /\ ask' = NextAsk(1)
    /\ UNCHANGED <<profile, segment>>

\* Mutant of Page: pages are counted from 0.
PageFromZero(contacts, page) ==
    LET sorted == SetToSortSeq(contacts, <)
        last == IF (page + 1) * PageLimit < Len(sorted) THEN (page + 1) * PageLimit ELSE Len(sorted)
    IN  SubSeq(sorted, page * PageLimit + 1, last)

\* The contacts in the order of their ids, from LIMIT and OFFSET; who turns the
\* pages stops at one that is not full.
Page(contacts, page) ==
    LET sorted == SetToSortSeq(contacts, <)
        last == IF page * PageLimit < Len(sorted) THEN page * PageLimit ELSE Len(sorted)
    IN  SubSeq(sorted, (page - 1) * PageLimit + 1, last)

RunPage ==
    /\ ask.step = "query" /\ ask.page > 0
    /\ LET rows == IF Impossible(ask.top) THEN <<>>
                   ELSE Page(Answer(Where(segment, ask.top)), ask.page)
       IN  /\ found' = [found EXCEPT !.rows = @ \o rows, !.over = Len(rows) < PageLimit]
           /\ ask' = IF Len(rows) < PageLimit THEN [ask EXCEPT !.step = "done"]
                     ELSE NextAsk(ask.page + 1)
    /\ UNCHANGED <<profile, segment>>

SegmentNext == CountSpenders \/ PickSpenders \/ RunCount \/ RunPage

-----------------------------------------------------------------------------
\* A filter read for what it says, without holes. Whoever is left out by a clause
\* is whoever the clause would have kept; a clause nothing usable was given for
\* says nothing.
Meaning(c, filter, top) ==
    LET given == c.given
        first == CASE c.type = "top_spenders" -> top
                   [] c.type = "email_opt_in" -> {IF given[1] = 1 THEN OptIn ELSE OptOut}
                   [] c.type \in {"opt_in_status", "metadata", "category"} -> {given[1]}
                   [] OTHER -> ToSet(given)
        second == CASE c.type = "opt_in_status" -> {IF Len(given) = 2 THEN given[2] ELSE OptIn}
                    [] c.type = "metadata" -> IF Len(given) = 2 THEN {given[2]} ELSE {}
                    [] c.type = "category" -> {given[1]}
                    [] OTHER -> {}
        of(exclude) == UNION {ToSet(d.given) : d \in
                          {e \in ToSet(filter.clauses) : e.type = "order_status" /\ e.exclude = exclude}}
    IN  [first |-> first, second |-> second,
         in |-> IF filter.form = "clauses" THEN of(FALSE) ELSE ToSet(filter.statuses),
         out |-> IF filter.form = "clauses" THEN of(TRUE) ELSE {}]

Usable(c) ==
    CASE c.type \in {"order_status", "unknown"} -> FALSE
      [] c.type \in {"order_recency", "no_order_recency", "min_order_count"} -> c.given # <<>> /\ c.given[1] > 0
      [] c.type \in {"first_purchase_only", "subscribed_no_buy"} -> c.given # <<0>>
      [] OTHER -> c.given # <<>>

Asks(type) ==
    CASE type = "min_total_spend" -> "spend" [] type = "email_opt_in" -> "consent"
      [] type = "opt_in_status" -> "opt_in" [] type = "purchased_sku" -> "sku"
      [] type = "min_order_count" -> "count" [] type = "top_spenders" -> "top"
      [] OTHER -> type

Wanted(filter, top) ==
    {x \in DOMAIN profile :
        /\ filter.contacts # <<>> => x \in ToSet(filter.contacts)
        /\ \A i \in DOMAIN filter.clauses :
             LET c == filter.clauses[i]
             IN  IF c.type = "top_spenders"
                 THEN top # NoSpenders => (x \in top) = ~c.exclude
                 ELSE Usable(c) => Says(Asks(c.type), Meaning(c, filter, top), x) = ~c.exclude}

\* The sets of top spenders the filter leaves a choice of.
SpenderChoices ==
    LET spent == Ordered(segment)
    IN  IF ~WantsSpenders(segment) THEN {NoSpenders}
        ELSE IF spent = <<>> THEN {{}}
        ELSE TopSets(spent, SpenderLimit(segment, Cardinality(DOMAIN spent)))

\* A segment is who the filter says, counted and paged through once each: no value
\* strays into the "?" of another clause, whatever clauses come before it, with
\* and without statuses, and no request finds others than the one before. Only who
\* spent as much as the last of the top spenders may come and go from page to page
\* (ResolveContacts, CountContacts, buildSegmentWhere).
SegmentSafety ==
    (found.over /\ ~found.failed /\ Cardinality(SpenderChoices) = 1) =>
        \E top \in SpenderChoices :
            LET members == IF top = {} THEN {} ELSE Wanted(segment, top)
            IN  /\ found.count = Cardinality(members)
                /\ found.rows = SetToSortSeq(members, <)
===============================================================================
