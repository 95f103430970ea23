--------------------------- MODULE Recommendations ----------------------------
(* Products recommended to a customer. One request reads what the customer has *)
(* bought, the pinned products, the customer's taste, the products that fit,   *)
(* and their rows, each on its own, while the staff edits the catalogue.       *)
(* The service is complete and has its tests, though no route leads to it yet. *)
(* Prices and scores are numbers, a link and a picture are named after the     *)
(* variation they are of.                                                      *)
EXTENDS Integers, Sequences, FiniteSets, SequencesExt, FiniteSetsExt

CONSTANTS
    Shelves,            \* catalogues: the rows of product 1, 2, ...
    Offers,             \* the rows an edit can leave
    Wishes,             \* queries, with the customer they are for
    KnownTags,          \* names in the tags table
    Correlated,         \* tag_correlations: <<source, target>>
    KnownSections,      \* categories that are there
    Below,              \* <<category, its parent>>
    WithChildren,       \* categories that include their descendants
    FetchFactor,        \* rows fetched for every free place,
    WideFactor,         \* and when a price is asked for
    MaxTouches          \* edits of the catalogue

VARIABLES
    shelf,              \* products, product_tags, category_products and the rest, by product
    wish,               \* the query
    advice,             \* the request
    touches

adviceVars == <<shelf, wish, advice, touches>>

\* No score was looked up (affinityScores = nil), or none was found.
NoTaste == <<>>

\* A product that is deleted.
Gone == <<>>

\* domain.RecommendationQuery.Normalize.
PlacesOf(limit) == IF limit <= 0 THEN 3 ELSE IF limit > 10 THEN 10 ELSE limit

Swapped(w) ==
    IF w.low # 0 /\ w.high # 0 /\ w.low > w.high
    THEN [w EXCEPT !.low = w.high, !.high = w.low]
    ELSE w

AdviceInit ==
    /\ shelf \in Shelves
    /\ wish \in {[Swapped(w) EXCEPT !.places = PlacesOf(w.places)] : w \in Wishes}
    /\ advice = [at |-> "bought", bought |-> {}, pinned |-> <<>>, taste |-> NoTaste,
                 towards |-> {}, ids |-> {}, shown |-> <<>>, taken |-> <<>>]
    /\ touches = 0

-----------------------------------------------------------------------------
\* A token is <<product, variation>>, with variation 0 for none.
FirstSeen(s) ==
    FoldLeft(LAMBDA kept, v : IF Contains(kept, v) THEN kept ELSE Append(kept, v), <<>>, s)

SelectedGoods(tokens) == FirstSeen([i \in DOMAIN tokens |-> tokens[i][1]])

WholeProducts(tokens) == {t[1] : t \in {u \in ToSet(tokens) : u[2] = 0}}

ScopedTo(tokens, p) ==
    LET scoped == SelectSeq(tokens, LAMBDA t : t[1] = p /\ t[2] # 0)
    IN  FirstSeen([i \in DOMAIN scoped |-> scoped[i][2]])

Subtract(variations, blocked) == SelectSeq(variations, LAMBDA v : ~Contains(blocked, v))

\* The category meant, and below one that includes its children all that hang
\* there. A category nobody knows stands for itself.
SectionsOf(ref) ==
    LET children(found) == {b[1] : b \in {e \in Below : e[2] \in found /\ e[1] \in KnownSections}}
        down[n \in 0..Cardinality(KnownSections)] ==
            IF n = 0 THEN {ref} ELSE down[n - 1] \cup children(down[n - 1])
    IN  IF ref \in KnownSections \cap WithChildren THEN down[Cardinality(KnownSections)] ELSE {ref}

Sections(refs) == UNION {SectionsOf(r) : r \in refs}

Goods == DOMAIN shelf

Alive(p) == shelf[p] # Gone

-----------------------------------------------------------------------------
GiveUp == advice' = [advice EXCEPT !.at = "failed"]

\* Neither a tag nor a pinned product: nothing to go by. Of a customer nobody
\* names nothing is known to be bought.
LookUpBought ==
    /\ advice.at = "bought"
    /\ \/ wish.tags = {} /\ wish.pinned = <<>> /\ GiveUp
       \/ /\ wish.tags # {} \/ wish.pinned # <<>>
          /\ IF wish.skipBought /\ wish.buyer # "nobody"
             THEN \/ GiveUp
                  \/ advice' = [advice EXCEPT !.at = "pinned", !.bought = wish.owns]
             ELSE advice' = [advice EXCEPT !.at = "pinned"]
    /\ UNCHANGED <<shelf, wish, touches>>

CatalogueEntry(p) == [id |-> p, row |-> shelf[p]]

FreePlaces == wish.places - Len(advice.pinned)

\* What is pinned comes whatever it is tagged, unless it is gone or bought.
LoadPinned ==
    /\ advice.at = "pinned"
    /\ \/ wish.pinned # <<>> /\ GiveUp
       \/ LET ids == SelectSeq(SelectedGoods(wish.pinned),
                               LAMBDA p : Alive(p) /\ p \notin advice.bought)
          IN  advice' = [advice EXCEPT
                  !.pinned = [i \in DOMAIN ids |-> CatalogueEntry(ids[i])],
                  !.at = IF Len(ids) < wish.places /\ wish.tags # {} THEN "taste" ELSE "answer"]
    /\ UNCHANGED <<shelf, wish, touches>>

\* The scores of the customer's tags, and the tags they lead to.
LookUpTaste ==
    /\ advice.at = "taste"
    /\ IF wish.byTaste /\ wish.buyer # "nobody"
       THEN \/ GiveUp
            \/ advice' = [advice EXCEPT !.at = "search", !.taste = wish.taste,
                   !.towards = {c[2] : c \in {d \in Correlated : d[1] \in DOMAIN wish.taste}}]
       ELSE advice' = [advice EXCEPT !.at = "search"]
    /\ UNCHANGED <<shelf, wish, touches>>

-----------------------------------------------------------------------------
HasBaseTags(row) ==
    IF wish.all THEN wish.tags \subseteq KnownTags /\ wish.tags \subseteq row.tags
    ELSE wish.tags \cap KnownTags \cap row.tags # {}

FollowsTaste(row) ==
    advice.towards \cap KnownTags # {} => advice.towards \cap KnownTags \cap row.tags # {}

InSections(row) ==
    /\ wish.sections # {} => Sections(wish.sections) \cap row.sections # {}
    /\ Sections(wish.notSections) \cap row.sections = {}

CarriesWanted(row) == wish.wanted # {} => wish.wanted \cap KnownTags \cap row.tags # {}

CarriesUnwanted(row) == wish.unwanted \cap KnownTags \cap row.tags # {}

ComesInVariation(row) == wish.fits # <<>> => ToSet(wish.fits) \cap ToSet(row.variations) # {}

\* A filter that is empty asks nothing; nor does one on tags to lead to that are
\* all gone, while tags to include that are gone leave nobody.
FitsFilters(row) ==
    /\ HasBaseTags(row)
    /\ FollowsTaste(row)
    /\ InSections(row)
    /\ CarriesWanted(row)
    /\ ~CarriesUnwanted(row)
    /\ ComesInVariation(row)

\* Bought, left out as a whole, or pinned already.
Excluded ==
    advice.bought \cup WholeProducts(wish.without) \cup {e.id : e \in ToSet(advice.pinned)}

FittingGoods == {p \in Goods \ Excluded : Alive(p) /\ FitsFilters(shelf[p])}

\* As many as a LIMIT lets through, whichever they are.
UpTo(n, S) == {T \in SUBSET S : Cardinality(T) = IF n < Cardinality(S) THEN n ELSE Cardinality(S)}

Priced == wish.low # 0 \/ wish.high # 0

FetchLimit == FreePlaces * (IF Priced THEN WideFactor ELSE FetchFactor)

ResolveProductIDs ==
    /\ advice.at = "search"
    /\ \/ GiveUp
       \/ \E ids \in UpTo(5 * FetchLimit, FittingGoods) :
              advice' = [advice EXCEPT !.at = "load", !.ids = ids]
    /\ UNCHANGED <<shelf, wish, touches>>

InRange(row) ==
    Priced => /\ row.price # 0
              /\ wish.low # 0 => row.price >= wish.low
              /\ wish.high # 0 => row.price <= wish.high

AffinityScore(row) == MapThenSumSet(LAMBDA t : advice.taste[t], row.tags \cap DOMAIN advice.taste)

\* Mutant of Ranked: the shuffle does not stop at the end of a bucket.
RankedByNobody(rows) == SetToSeqs(rows)

\* By score, whatever order the rows came in; the shuffle only moves equals.
Ranked(rows) ==
    {s \in SetToSeqs(rows) :
        \A i \in 1..(Len(s) - 1) : AffinityScore(s[i].row) >= AffinityScore(s[i + 1].row)}

\* The rows that are still there, the first of them, by score, within the prices,
\* as many as there are places.
LoadCandidates ==
    /\ advice.at = "load"
    /\ \/ GiveUp
       \/ \E fetched \in UpTo(FetchLimit, {p \in advice.ids : Alive(p)}) :
          \E order \in Ranked({r \in {CatalogueEntry(p) : p \in fetched} : InRange(r.row)}) :
              advice' = [advice EXCEPT !.at = "answer",
                  !.taken = SubSeq(order, 1, Min({FreePlaces, Len(order)}))]
    /\ UNCHANGED <<shelf, wish, touches>>

-----------------------------------------------------------------------------
\* The variations a link or a picture should be of. Those of the token a product
\* is pinned by come before those preferred of all.
Preferred(p) ==
    LET scoped == ScopedTo(wish.pinned, p)
    IN  Subtract(IF scoped # <<>> THEN scoped ELSE wish.prefers, ScopedTo(wish.without, p))

LinkCandidates(p, row) ==
    LET own(s) == SelectSeq(s, LAMBDA v : Contains(row.variations, v))
    IN  Subtract(FirstSeen(own(Preferred(p)) \o own(wish.fits) \o row.variations \o row.skus),
                 ScopedTo(wish.without, p))

\* The link of the first candidate that has one, else the first there is of any
\* variation, else that of the product (0).
LinkOf(p, row) ==
    LET linked == SelectSeq(LinkCandidates(p, row), LAMBDA v : v \in row.links)
    IN  IF linked # <<>> THEN linked[1] ELSE IF row.links # {} THEN Min(row.links) ELSE 0

PictureCandidates(p, row) ==
    IF Preferred(p) = <<>> /\ ScopedTo(wish.without, p) # <<>>
    THEN Subtract(row.variations, ScopedTo(wish.without, p))
    ELSE Preferred(p)

\* The first picture the realm shows of a candidate, else the first it shows.
PictureOf(p, row) ==
    LET fitting == SelectSeq(row.pictures, LAMBDA v : Contains(PictureCandidates(p, row), v))
    IN  IF fitting # <<>> THEN fitting[1] ELSE IF row.pictures # <<>> THEN row.pictures[1] ELSE 0

\* A product without a price in the realm is passed over, though it took a place.
ShowAdvice ==
    /\ advice.at = "answer"
    /\ LET sold == SelectSeq(advice.pinned \o advice.taken, LAMBDA e : e.row.price # 0)
       IN  advice' = [advice EXCEPT !.at = "done",
               !.shown = [i \in DOMAIN sold |->
                   [id |-> sold[i].id, price |-> sold[i].row.price,
                    link |-> LinkOf(sold[i].id, sold[i].row),
                    picture |-> PictureOf(sold[i].id, sold[i].row)]]]
    /\ UNCHANGED <<shelf, wish, touches>>

\* A product is edited or deleted in the meantime.
Touch ==
    /\ touches < MaxTouches
    /\ touches' = touches + 1
    /\ advice.at \notin {"done", "failed"}
    /\ \E p \in Goods, row \in Offers \cup {Gone} :
           Alive(p) /\ shelf[p] # row /\ shelf' = [shelf EXCEPT ![p] = row]
    /\ UNCHANGED <<wish, advice>>

AdviceNext ==
    \/ LookUpBought \/ LoadPinned \/ LookUpTaste
    \/ ResolveProductIDs \/ LoadCandidates \/ ShowAdvice \/ Touch
-----------------------------------------------------------------------------
NoTwice(s) == \A i, j \in DOMAIN s : s[i].id = s[j].id => i = j

\* All there is to choose from, and what was left when the places were filled.
PassedOver == {p \in FittingGoods : InRange(shelf[p])} \ {e.id : e \in ToSet(advice.taken)}

\* Whatever is edited while the request reads: no product is recommended twice,
\* none the customer has bought, none that was left out, and what fills the free
\* places keeps to the prices and is in the order of the scores, shuffled or not.
AdviceIsClean ==
    /\ NoTwice(advice.pinned \o advice.taken)
    /\ \A e \in ToSet(advice.pinned \o advice.taken) : e.id \notin advice.bought
    /\ Len(advice.taken) <= wish.places
    /\ advice.taken # <<>> => Len(advice.pinned \o advice.taken) <= wish.places
    /\ \A e \in ToSet(advice.taken) :
         /\ e.id \notin WholeProducts(wish.without) \cup ToSet(SelectedGoods(wish.pinned))
         /\ InRange(e.row)
    /\ \A i, j \in DOMAIN advice.taken :
         i < j => AffinityScore(advice.taken[i].row) >= AffinityScore(advice.taken[j].row)

\* When nothing is edited and the fetch reaches all that fits: a product that fits
\* is passed over only if the places are filled, by products of no lower score.
NoneIsPassedOver ==
    (/\ touches = 0 /\ wish.tags # {} /\ FreePlaces > 0
     /\ Cardinality(FittingGoods) <= FetchLimit) =>
        \A p \in PassedOver :
            /\ Len(advice.taken) = FreePlaces
            /\ \A e \in ToSet(advice.taken) : AffinityScore(e.row) >= AffinityScore(shelf[p])

\* A link of a variation that was left out is given only for want of another one,
\* and a pinned variation that has a link gets it.
LinksAsAsked ==
    \A e \in ToSet(advice.shown) :
        LET row == (CHOOSE x \in ToSet(advice.pinned \o advice.taken) : x.id = e.id).row
            scoped == ToSet(ScopedTo(wish.pinned, e.id)) \cap ToSet(row.variations)
            blocked == ToSet(ScopedTo(wish.without, e.id))
        IN  /\ e.link \in blocked => (ToSet(row.variations) \cap row.links) \subseteq blocked
            /\ (scoped \cap row.links) \ blocked # {} => e.link \in scoped \ blocked

\* What is recommended is what was asked for (Recommend, GetProductsByBaseTags).
RecommendationsFit ==
    advice.at = "done" => AdviceIsClean /\ NoneIsPassedOver /\ LinksAsAsked
===============================================================================
