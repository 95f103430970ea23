----------------------------- MODULE MCOrderDesk ------------------------------
(* What the staff does with an order: it is packed and quoted, its money is    *)
(* settled with the courier, its mark goes through a batch, the batch is put    *)
(* on paper, the parcel is tracked, analytics follows the changes and finds     *)
(* customers, products are recommended, reports list the orders, everything is searched, and the orders   *)
(* themselves are edited and commented. The parts share no table they both      *)
(* change, so that interleaving them would add nothing but states: one of them, *)
(* the focus, is picked at the start and runs.                                 *)
EXTENDS ShippingDispatch, ShippingQuotes, ShippingDocuments, AnalyticsFacts,
        ReportExports, OrderRecords, CustomerSegments, ParcelTracking, RecordSearch,
        Recommendations

-----------------------------------------------------------------------------
\* Customers, with orders in and out of the statuses that count, two of whom have
\* spent the same, and filters of two or three conditions that carry values.
MCOrder(id, status, total, age, sku) ==
    [id |-> id, status |-> status, total |-> total, age |-> age, sku |-> sku, name |-> sku + 1]

MCProfile(city, email, note, orders) ==
    [city |-> city, consent |-> <<email, 3 - email>>, notes |-> <<note>>, orders |-> orders]

MCNobody == <<MCProfile(1, 2, 1, {}), MCProfile(2, 1, 0, {}), MCProfile(1, 2, 2, {})>>

MCProfiles ==
    {<<MCProfile(1, 2, 1, {MCOrder(1, 1, 3, 1, 1)}),
       MCProfile(2, 1, 0, {MCOrder(1, 2, 1, 9, 2), MCOrder(2, 1, 1, 1, 1)}),
       MCProfile(1, 2, 2, {})>>,
     <<MCProfile(2, 2, 2, {MCOrder(1, 2, 2, 9, 1)}),
       MCProfile(1, 2, 0, {MCOrder(1, 1, 2, 1, 2)}),
       MCProfile(2, 1, 1, {MCOrder(1, 1, 2, 9, 2), MCOrder(2, 1, 9, 9, 2)})>>,
     MCNobody}

MCClause(type, given) == [type |-> type, exclude |-> FALSE, given |-> given]

MCExcluded(c) == [c EXCEPT !.exclude = TRUE]

MCKnownClauses ==
    {MCClause("city", <<1>>), MCClause("city", <<>>), MCClause("min_total_spend", <<2>>),
     MCClause("email_opt_in", <<1>>), MCClause("email_opt_in", <<0>>),
     MCClause("purchased_sku", <<1, 3>>), MCClause("order_recency", <<5>>),
     MCClause("no_order_recency", <<5>>), MCClause("order_recency", <<0>>),
     MCClause("category", <<2>>), MCClause("top_spenders", <<1>>),
     MCClause("first_purchase_only", <<>>), MCClause("first_purchase_only", <<0>>),
     MCClause("subscribed_no_buy", <<1>>), MCClause("opt_in_status", <<2>>),
     MCClause("opt_in_status", <<2, 1>>), MCClause("metadata", <<1>>),
     MCClause("metadata", <<1, 2>>), MCClause("min_order_count", <<2>>),
     MCClause("rfm_range", <<2, 4>>)}

MCClauses == MCKnownClauses \cup {MCClause("unknown", <<>>)}

MCBehind == {MCClause("min_total_spend", <<2>>), MCClause("purchased_sku", <<2>>)}

MCAhead ==
    {<<>>, <<MCClause("order_status", <<1, 2>>)>>, <<MCExcluded(MCClause("order_status", <<2>>))>>,
     <<MCClause("order_status", <<1>>), MCExcluded(MCClause("order_status", <<2, 2>>))>>}

MCFilter(form, clauses, statuses, limit, percent, contacts) ==
    [form |-> form, clauses |-> clauses, statuses |-> statuses, limit |-> limit,
     percent |-> percent, contacts |-> contacts]

MCSpenders(c) ==
    IF c.type = "top_spenders" THEN {<<1, 0>>, <<2, 0>>, <<0, 40>>} ELSE {<<0, 0>>}

MCCities ==
    MCFilter("fields", <<MCClause("city", <<1>>), MCClause("min_total_spend", <<2>>)>>, <<>>, 0, 0, <<>>)

MCSegments ==
    UNION {{MCFilter("clauses", ahead \o <<c, b>>, <<2>>, n[1], n[2], <<>>) : n \in MCSpenders(c)} :
             ahead \in MCAhead, c \in MCClauses \cup {MCExcluded(c) : c \in MCClauses},
             b \in MCBehind \cup {MCClause("order_status", <<1>>)}}
    \cup {MCFilter("fields", <<c, b>>, statuses, limit, 0, contacts) :
             limit \in {0, 2}, statuses \in {<<>>, <<1>>}, contacts \in {<<>>, <<1, 3>>},
             c \in {k \in MCKnownClauses : k.type \notin {"min_total_spend", "purchased_sku"}},
             b \in MCBehind}

-----------------------------------------------------------------------------
\* Products, some without a price in the realm, some with links of a variation only;
\* customers with and without a taste, and queries that ask for each thing there is.
MCRow(tags, sections, price, variations, links, pictures) ==
    [tags |-> tags, sections |-> sections, price |-> price, variations |-> variations,
     skus |-> <<>>, links |-> links, pictures |-> pictures]

MCLamp == MCRow({1, 2}, {12}, 3, <<1, 2>>, {1, 2}, <<2, 1>>)
MCVase == [MCRow({1, 3}, {11}, 5, <<2>>, {3}, <<>>) EXCEPT !.skus = <<3>>]
MCSofa == MCRow({2, 3}, {13}, 0, <<1>>, {}, <<0>>)
MCRug == MCRow({1}, {}, 1, <<>>, {}, <<1>>)

MCShelves ==
    {<<MCLamp, MCVase, MCSofa, MCRug>>, <<MCRug, MCLamp, MCLamp, <<>>>>, <<MCVase, MCRug, MCVase, MCLamp>>}

MCOffers == {MCVase, MCSofa}

MCWish ==
    [buyer |-> "customer", owns |-> {}, taste |-> <<>>, skipBought |-> FALSE, byTaste |-> FALSE,
     tags |-> {1}, all |-> FALSE, pinned |-> <<>>, without |-> <<>>, sections |-> {}, notSections |-> {},
     wanted |-> {}, unwanted |-> {}, low |-> 0, high |-> 0, fits |-> <<>>, prefers |-> <<>>, places |-> 1]

MCTaste == (2 :> 3) @@ (3 :> 1)

MCWishes ==
    {MCWish, [MCWish EXCEPT !.tags = {}], [MCWish EXCEPT !.tags = {9}],
     [MCWish EXCEPT !.tags = {1, 9}, !.all = TRUE], [MCWish EXCEPT !.tags = {1, 9}, !.places = 2],
     [MCWish EXCEPT !.tags = {1, 2}, !.all = TRUE, !.places = 0],
     [MCWish EXCEPT !.places = 2, !.byTaste = TRUE, !.taste = MCTaste, !.tags = {1, 2}],
     [MCWish EXCEPT !.places = 11, !.byTaste = TRUE, !.taste = (2 :> 1) @@ (3 :> 1)],
     [MCWish EXCEPT !.byTaste = TRUE, !.taste = (1 :> 1)],
     [MCWish EXCEPT !.places = 2, !.skipBought = TRUE, !.owns = {1, 2}, !.pinned = <<<<2, 0>>, <<3, 1>>>>],
     [MCWish EXCEPT !.buyer = "nobody", !.skipBought = TRUE, !.owns = {1}, !.byTaste = TRUE, !.taste = MCTaste],
     [MCWish EXCEPT !.pinned = <<<<1, 2>>, <<1, 1>>, <<4, 0>>>>, !.without = <<<<1, 1>>, <<4, 0>>>>, !.tags = {}],
     [MCWish EXCEPT !.pinned = <<<<3, 2>>>>, !.places = 3, !.without = <<<<1, 1>>, <<2, 2>>, <<4, 0>>>>, !.prefers = <<2, 1>>],
     [MCWish EXCEPT !.low = 4, !.high = 2, !.places = 2, !.prefers = <<2>>],
     [MCWish EXCEPT !.high = 2, !.without = <<<<2, 1>>, <<2, 2>>>>],
     [MCWish EXCEPT !.sections = {11}, !.places = 3, !.tags = {1, 2, 3}],
     [MCWish EXCEPT !.sections = {12, 14}, !.notSections = {13}, !.places = 3],
     [MCWish EXCEPT !.notSections = {11}, !.places = 3, !.tags = {1, 2, 3}],
     [MCWish EXCEPT !.wanted = {2, 9}, !.unwanted = {9}, !.places = 2],
     [MCWish EXCEPT !.wanted = {9}], [MCWish EXCEPT !.without = <<<<1, 1>>>>, !.places = 4], [MCWish EXCEPT !.unwanted = {3}, !.fits = <<2, 1>>, !.places = 2]}
MCCorrelated == {<<2, 3>>, <<3, 2>>, <<1, 9>>}

MCBelow == {<<12, 11>>, <<13, 12>>, <<11, 13>>}

-----------------------------------------------------------------------------
\* A delivery, and a scan that comes late.
MCHappenings == {[novelty |-> FALSE, code |-> "3000"], [novelty |-> TRUE, code |-> "2000"]}

MCOneParcel ==
    [x \in TrackedMarks |-> [carrier |-> "tcc", row |-> IF x = 1 THEN "generated" ELSE "unmade"]]

\* Rows that match the term in a field that counts more, one that counts less and
\* one that does not count; the order by the day they were made ties them.
MCEntry(type, grades, made, rank) ==
    LET r == Resource(type)
    IN  [type |-> type,
         text |-> grades @@ [f \in r.text \cup ToSet(r.primary \o r.secondary) |-> "none"],
         col |-> [f \in Columns(type) |-> IF f = "created_at" THEN made ELSE rank]]

MCEntries ==
    <<MCEntry("contact", "first_name" :> "contains", 2, 1),
      MCEntry("contact", "phone" :> "prefix", 1, 1),
      MCEntry("contact", "legal_name" :> "exact", 1, 2),
      MCEntry("shipping_mark", "order_id" :> "exact", 1, 1),
      MCEntry("category", "name" :> "prefix", 1, 2)>>

MCWhere(field, op, value) == [field |-> field, op |-> op, value |-> value]

MCSearches ==
    {[type |-> "contact", term |-> term, filters |-> filters, sort |-> sort, page |-> p[1], size |-> p[2]] :
        term \in BOOLEAN,
        filters \in {{}, {MCWhere("created_at", "gt", 1), MCWhere("city_code", "eq", 1)},
                     {MCWhere("status", "eq", 1), MCWhere("created_at", "eq", 7)}},
        sort \in {<<>>, Up("first_name") \o Down("created_at"), Up("price")},
        p \in {<<0, 1>>, <<2, 1>>, <<1, 9>>, <<2, 0>>, <<16, 0>>}}
    \cup [type : {"shipping_mark", "category"}, term : {TRUE},
          filters : {{MCWhere("status", "eq", 1), MCWhere("slug", "eq", 2), MCWhere("status", "in", 2)}},
          sort : {<<>>}, page : {1}, size : {2}]

MCSpotlights ==
    {[types |-> {"contact", "shipping_mark"}, limit |-> 0],
     [types |-> {"contact", "category", "coupon"}, limit |-> 1],
     [types |-> {}, limit |-> 9]}

-----------------------------------------------------------------------------
VARIABLE focus

deskVars == <<vars, packVars, quoteVars, docVars, factVars, reportVars, recordVars,
              segmentVars, trackingVars, searchVars, adviceVars, focus>>

Still1 == UNCHANGED <<segmentVars, trackingVars, searchVars, adviceVars, focus>>
Still2 == UNCHANGED <<vars, packVars, quoteVars, docVars, factVars, reportVars, recordVars, focus>>

\* Two readers turn the pages of the orders, one those of another list.
\* Quotations do not look at the orders' debts nor at the payment form. One parcel
\* is looked up at the carrier; lists are walked that have none of its parcels.
DeskInit ==
    /\ focus \in {"dispatch", "packing", "quotes", "money", "papers", "facts", "reports",
                  "records", "crew", "segments", "ask", "look", "walk", "find", "spot", "advice"}
    /\ Init /\ PackInit
    /\ QuoteInit
    /\ focus # "money" => /\ \A o \in CodOrders : debt[o] = 0
                          /\ paymentForm = "1"
    /\ DocInit
    /\ focus # "papers" => paper = "manifest"
    /\ FactInit /\ ReportInit
    /\ IF focus = "reports" THEN listing # OrderList => \E w \in Walkers : walk[w] = Done
       ELSE listing = OrderList /\ \A w \in Walkers : walk[w] = Done
    /\ RecordInit
    /\ focus # "records" => /\ \A o \in Sheets : Exists(o)
                            /\ remarks[1].order \in WebOrders
    /\ focus # "segments" => /\ segment = MCCities
                             /\ profile = MCNobody
    /\ SegmentInit
    /\ focus # "advice" => /\ shelf = <<MCRug, MCLamp, MCLamp, <<>>>>
                           /\ wish = MCWish
    /\ AdviceInit
    /\ focus # "walk" => tracked = MCOneParcel
    /\ TrackInit
    /\ focus = "walk" => /\ \A x \in TrackedMarks : tracked[x].carrier # "tcc"
                         /\ tracked[1].carrier = "manual"
    /\ focus \notin {"find", "spot"} => entry = [r \in DOMAIN Entries |-> "live"]
    /\ SearchInit
    /\ \A r \in DOMAIN Entries : entry[r] # "deleted"
    /\ focus = "spot" => \A r \in 3..Len(Entries) : entry[r] = "live"

\* A rotulus is not touched by the closing of its batch, which can only rewrite the
\* row as an edit can: one request at a time closes it then, and after the first
\* second, in which two may overlap.
ClosingsOverlapAtFirst ==
    (paper = "rotulus" \/ second' > 0) => \E c \in Closers : \A d \in Closers \ {c} : closer'[d] = NotClosing

\* Beside a seeding that is under way one request at a time changes the order.
SeedingBesideOne ==
    (\A e \in Seeders : seeds'[e].phase = "idle") \/ \E f \in FactTasks : changes'[f] = NoChange

DeskNext ==
    \/ focus = "dispatch" /\ Next /\ UNCHANGED <<packVars, quoteVars, docVars, factVars, reportVars, recordVars>> /\ Still1
    \/ focus = "packing" /\ PackNext /\ UNCHANGED <<vars, quoteVars, docVars, factVars, reportVars, recordVars>> /\ Still1
    \/ focus = "quotes" /\ QuoteNext /\ UNCHANGED <<vars, packVars, docVars, factVars, reportVars, recordVars>> /\ Still1
    \/ focus = "money" /\ CodNext /\ UNCHANGED <<vars, packVars, docVars, factVars, reportVars, recordVars>> /\ Still1
    \/ focus = "papers" /\ DocNext /\ ClosingsOverlapAtFirst /\ UNCHANGED <<vars, packVars, quoteVars, factVars, reportVars, recordVars>> /\ Still1
    \/ focus = "facts" /\ FactNext /\ SeedingBesideOne /\ UNCHANGED <<vars, packVars, quoteVars, docVars, reportVars, recordVars>> /\ Still1
    \/ focus = "reports" /\ ReportNext /\ UNCHANGED <<vars, packVars, quoteVars, docVars, factVars, recordVars>> /\ Still1
    \/ focus = "records" /\ RecordNext /\ UNCHANGED <<vars, packVars, quoteVars, docVars, factVars, reportVars>> /\ Still1
    \/ focus = "crew" /\ CrewNext /\ UNCHANGED <<vars, packVars, quoteVars, docVars, factVars, reportVars>> /\ Still1
    \/ focus = "segments" /\ SegmentNext /\ UNCHANGED <<trackingVars, searchVars, adviceVars>> /\ Still2
    \/ focus = "ask" /\ AskNext /\ UNCHANGED <<segmentVars, searchVars, adviceVars>> /\ Still2
    \/ focus = "look" /\ LookNext /\ UNCHANGED <<segmentVars, searchVars, adviceVars>> /\ Still2
    \/ focus = "walk" /\ WalkNext /\ UNCHANGED <<segmentVars, searchVars, adviceVars>> /\ Still2
    \/ focus = "find" /\ FindNext /\ UNCHANGED <<segmentVars, trackingVars, adviceVars>> /\ Still2
    \/ focus = "advice" /\ AdviceNext /\ UNCHANGED <<segmentVars, trackingVars, searchVars>> /\ Still2
    \/ focus = "spot" /\ SpotNext /\ UNCHANGED <<segmentVars, trackingVars, adviceVars>> /\ Still2

DeskSpec == DeskInit /\ [][DeskNext]_deskVars

-----------------------------------------------------------------------------
\* Customers are counted and found as the orders and consents say, and are advised as
\* was asked: analytics follows the changes (AnalyticsSafety), segments read them
\* right (SegmentSafety), products are recommended that fit (RecommendationsFit).
CustomerSafety == AnalyticsSafety /\ SegmentSafety /\ RecommendationsFit

\* What is listed is what there is: in reports, in the list of parcels and in searches.
ListsSafety == ReportSafety /\ TrackingSafety /\ SearchSafety
===============================================================================
