---------------------------- MODULE FalabellaListing ----------------------------
(* What of a product is listed in Falabella's Seller Center: the attributes of  *)
(* its datasheet, which may be written under several names and for one variant  *)
(* only, its variants and its images are mapped to one request per SKU, sent as *)
(* a create or an update under one signing profile after the other.             *)
(*                                                                              *)
(* The value of an attribute stands for where it was written, so that a listing *)
(* tells which of several entries won. Feeds, which Seller Center works off     *)
(* later, are the business of FalabellaSync: here a request that is taken is    *)
(* carried out.                                                                 *)
EXTENDS Naturals, FiniteSets, Sequences

CONSTANTS
    Parent,        \* SKU of the product
    VariantSkus,   \* SKUs of its variants
    ImageIds,      \* images of the gallery, in their order
    Listables,     \* products that are synchronised
    MaxProfiles,   \* signing profiles that are tried
    MaxAnswers     \* bound: failing answers

ASSUME FalabellaListingAssumption ==
    /\ Parent \notin VariantSkus
    /\ \A s \in Listables :
         /\ DOMAIN s = {"attributes", "variants", "images"}
         /\ \A a \in s.attributes : DOMAIN a = {"scope", "key"}
         /\ s.variants \in Seq({s.variants[i] : i \in DOMAIN s.variants})
         /\ DOMAIN s.images = ImageIds
         /\ \A k \in ImageIds : s.images[k].position \in Nat
    /\ ImageIds \subseteq Nat /\ IsFiniteSet(ImageIds)
    /\ {MaxProfiles, MaxAnswers} \subseteq Nat

VARIABLES
    sheet,    \* the product: attributes, variants, images
    center,   \* Seller Center: the listings by SKU
    list,     \* the synchronisation of the product
    failures  \* failing answers so far

listingVars == <<sheet, center, list, failures>>

None == "none"
NoPrice == [scope |-> None, key |-> None]

\* A product: attributes, each with the scope and the key it is written under;
\* variants in their order, where a SKU may be given twice and have no color; images,
\* each for some colors or for all.
Sheet(attributes, variants, images) ==
    [attributes |-> attributes, variants |-> variants, images |-> images]

NoList == [at |-> "idle", item |-> 0, base |-> <<>>, request |-> <<>>,
           update |-> FALSE, profile |-> 1, seen |-> {}, results |-> <<>>]

ListingInit ==
    /\ sheet \in Listables
    /\ \E skus \in {{}} \cup {{s} : s \in VariantSkus \cup {Parent}} :
         center = [s \in skus |-> [request |-> <<>>, images |-> <<>>]]
    /\ list = NoList
    /\ failures = 0

-----------------------------------------------------------------------------
(* The mapper.                                                                  *)

\* The name Falabella knows an attribute by.
CanonicalKey(key) ==
    CASE key \in {"Color", "color"} -> "Color"
      [] key \in {"ColorBasico", "colorbase"} -> "ColorBasico"
      [] key \in {"Talla", "size"} -> "Talla"
      [] key \in {"Stock", "quantity"} -> "Stock"
      [] key \in {"PriceFalabella", "price"} -> "PriceFalabella"
      [] OTHER -> key

Scoped(scope, name) ==
    {a \in sheet.attributes : a.scope = scope /\ CanonicalKey(a.key) = name}

NamesOf(scope) == {CanonicalKey(a.key) : a \in {b \in sheet.attributes : b.scope = scope}}

\* An alias gives way to the canonical name; of two aliases the map's order decides.
BaseWinners(name) ==
    LET exact == {a \in Scoped("base", name) : a.key = name}
    IN  IF exact # {} THEN exact ELSE Scoped("base", name)

Bases ==
    {b \in [NamesOf("base") -> sheet.attributes] : \A n \in NamesOf("base") : b[n] \in BaseWinners(n)}

KnownSkus == {sheet.variants[i].sku : i \in DOMAIN sheet.variants}

\* What is written for a scope that is no variant is kept under the name it has.
Kept(known) == {a \in sheet.attributes : a.scope \notin known \cup {"base"}}

\* f, and g where f has nothing.
Filled(f, g) == [n \in DOMAIN f \cup DOMAIN g |-> IF n \in DOMAIN f THEN f[n] ELSE g[n]]

\* The variation of a variant is its color, and its basic color if the sheet has none.
Varied(base, variant) ==
    IF variant.color = None THEN base
    ELSE LET color == [scope |-> "variation", key |-> variant.color]
         IN  Filled([n \in {"Color"} |-> color], Filled(base, [n \in {"ColorBasico"} |-> color]))

\* Mutant of VariantAttributes: every variant's attributes are applied.
AnyVariantAttributes(base, variant) ==
    LET names == UNION {NamesOf(s) : s \in KnownSkus}
    IN  {Filled(own, Varied(base, variant)) :
           own \in {o \in [names -> sheet.attributes] :
                      \A n \in names : \E s \in KnownSkus : o[n] \in Scoped(s, n)}}

\* Attributes that are written for the variant go first.
VariantAttributes(base, variant) ==
    {Filled(own, Varied(base, variant)) :
       own \in {o \in [NamesOf(variant.sku) -> sheet.attributes] :
                  \A n \in NamesOf(variant.sku) : o[n] \in Scoped(variant.sku, n)}}

\* The price of the product goes before that of the variant.
PriceOf(base, attributes) ==
    IF "PriceFalabella" \in DOMAIN base THEN base["PriceFalabella"]
    ELSE IF "PriceFalabella" \in DOMAIN attributes THEN attributes["PriceFalabella"]
    ELSE NoPrice

\* Color and basic color stand in for each other.
Colored(attributes) ==
    LET color == {"Color", "ColorBasico"} \cap DOMAIN attributes
    IN  IF Cardinality(color) # 1 THEN attributes
        ELSE Filled(attributes, [n \in {"Color", "ColorBasico"} |-> attributes[CHOOSE c \in color : TRUE]])

RequestOf(sku, base, attributes, known) ==
    [sku |-> sku, price |-> PriceOf(base, attributes),
     attributes |-> Colored(attributes), kept |-> Kept(known)]

\* A create needs a price and a stock, an update one value of the business unit.
IsPayload(request, update) ==
    IF update THEN request.price # NoPrice \/ "Stock" \in DOMAIN request.attributes
              ELSE request.price # NoPrice /\ "Stock" \in DOMAIN request.attributes

-----------------------------------------------------------------------------
(* Images.                                                                      *)

\* Mutant of Fits: one of the image's colors will do.
FitsByOne(image, colors) == image.colors = {} \/ image.colors \cap colors # {}

Fits(image, colors) == image.colors \subseteq colors

\* Images of a color go before those for all, then by position, then as given.
Before(i, j, colors) ==
    LET bucket(k) == IF colors # {} /\ sheet.images[k].colors = {} THEN 1 ELSE 0
        at(k) == sheet.images[k].position
    IN  \/ bucket(i) < bucket(j)
        \/ bucket(i) = bucket(j) /\ at(i) < at(j)
        \/ bucket(i) = bucket(j) /\ at(i) = at(j) /\ i < j

ImagesFor(colors) ==
    LET fitting == {i \in ImageIds : Fits(sheet.images[i], colors)}
        place(i) == 1 + Cardinality({j \in fitting : Before(j, i, colors)})
    IN  [p \in 1..Cardinality(fitting) |-> CHOOSE i \in fitting : place(i) = p]

ColorsOf(variant) == {variant.color} \ {None}

-----------------------------------------------------------------------------
(* The client.                                                                  *)

Answer == [status : {200, 400, 500}, body : {"fine", "empty", "error", "signature"}]

\* An answer is good, worth a try under the next profile, or final.
Verdict(answer) ==
    IF answer.status = 200 /\ answer.body = "fine" THEN "good"
    ELSE IF \/ answer.body = "signature"
            \/ answer.status = 500
            \/ answer.status = 200 /\ answer.body = "empty"
         THEN "next"
         ELSE "final"

\* Seller Center carries a request out when it says so, and may have done so when
\* it fails over its answer.
Done(answer) == Verdict(answer) = "good" \/ (answer.status = 500 /\ answer.body # "signature")

Size == IF sheet.variants = <<>> THEN 1 ELSE Len(sheet.variants)

\* The result of a SKU is put down, and the next one taken.
Ended(result) ==
    IF list.item < Size
    THEN [list EXCEPT !.at = "item", !.item = @ + 1, !.request = <<>>, !.update = FALSE,
                      !.profile = 1, !.results = Append(@, result)]
    ELSE [list EXCEPT !.at = "over", !.results = Append(@, result)]

\* executeAction: an answer of no use is followed by a try under the next profile.
\* done is the state when the request is carried out, and next the one after it.
Call(done, next) ==
    \/ \E answer \in Answer :
         /\ Verdict(answer) # "good" => failures < MaxAnswers
         /\ failures' = IF Verdict(answer) = "good" THEN failures ELSE failures + 1
         /\ center' \in IF Verdict(answer) = "good" THEN {done}
                        ELSE IF Done(answer) THEN {center, done} ELSE {center}
         /\ list' = CASE Verdict(answer) = "good" -> [next EXCEPT !.profile = 1]
                      [] Verdict(answer) = "next" /\ list.profile < MaxProfiles ->
                           [list EXCEPT !.profile = @ + 1]
                      [] OTHER -> Ended("failed")
    \/ /\ failures < MaxAnswers /\ failures' = failures + 1
       /\ center' \in {center, done}
       /\ list' = IF list.profile < MaxProfiles THEN [list EXCEPT !.profile = @ + 1]
                                                ELSE Ended("failed")

-----------------------------------------------------------------------------
(* The synchronisation of a product: syncOne.                                   *)

\* A datasheet without a name or another required field fails, a product without
\* a datasheet for Falabella is skipped.
StartListing ==
    /\ list.at = "idle"
    /\ \/ \E base \in Bases : list' = [NoList EXCEPT !.at = "item", !.item = 1, !.base = base]
       \/ \E result \in {"failed", "skipped"} :
            list' = [NoList EXCEPT !.at = "over", !.results = <<result>>]
    /\ UNCHANGED <<sheet, center, failures>>

\* A SKU that was taken already is skipped.
TakeVariant ==
    /\ list.at = "item" /\ sheet.variants # <<>>
    /\ LET variant == sheet.variants[list.item]
       IN  IF variant.sku \in list.seen THEN list' = Ended("skipped")
           ELSE \E attributes \in VariantAttributes(list.base, variant) :
                  list' = [list EXCEPT !.at = "ask", !.seen = @ \cup {variant.sku},
                                       !.request = RequestOf(variant.sku, list.base, attributes, KnownSkus)]
    /\ UNCHANGED <<sheet, center, failures>>

TakeProduct ==
    /\ list.at = "item" /\ sheet.variants = <<>>
    /\ list' = [list EXCEPT !.at = "ask",
                            !.request = RequestOf(Parent, list.base, list.base, {})]
    /\ UNCHANGED <<sheet, center, failures>>

\* shouldUpdateProduct: the SKU is asked for, then the product's own.
AskSku ==
    /\ list.at = "ask"
    /\ Call(center,
            IF list.request.sku \in DOMAIN center
            THEN [list EXCEPT !.at = "build", !.update = TRUE]
            ELSE [list EXCEPT !.at = IF list.request.sku = Parent THEN "build" ELSE "askParent"])
    /\ UNCHANGED sheet

AskParent ==
    /\ list.at = "askParent"
    /\ Call(center, [list EXCEPT !.at = "build", !.update = Parent \in DOMAIN center])
    /\ UNCHANGED sheet

\* Mutant of Build: what a create needs is not looked at.
BuildAnything ==
    /\ list.at = "build"
    /\ list' = [list EXCEPT !.at = "post"]
    /\ UNCHANGED <<sheet, center, failures>>

Build ==
    /\ list.at = "build"
    /\ list' = IF IsPayload(list.request, list.update) THEN [list EXCEPT !.at = "post"]
                                                       ELSE Ended("failed")
    /\ UNCHANGED <<sheet, center, failures>>

ImagesOf(sku) == IF sku \in DOMAIN center THEN center[sku].images ELSE <<>>

PostListing ==
    /\ list.at = "post"
    /\ LET sku == list.request.sku
       IN  Call(Filled([s \in {sku} |-> [request |-> list.request, images |-> ImagesOf(sku)]], center),
                [list EXCEPT !.at = "images"])
    /\ UNCHANGED sheet

\* Warnings of a missing required field end the SKU, though it may be listed.
WarnListing ==
    /\ list.at = "images" /\ list.profile = 1
    /\ list' = Ended("failed")
    /\ UNCHANGED <<sheet, center, failures>>

ImagesOfItem ==
    ImagesFor(IF sheet.variants = <<>> THEN {} ELSE ColorsOf(sheet.variants[list.item]))

PostListingImages ==
    /\ list.at = "images"
    /\ IF ImagesOfItem = <<>>
       THEN list' = Ended("synced") /\ UNCHANGED <<center, failures>>
       ELSE Call([center EXCEPT ![list.request.sku].images = ImagesOfItem], Ended("synced"))
    /\ UNCHANGED sheet

ListingNext ==
    \/ StartListing \/ TakeVariant \/ TakeProduct \/ AskSku \/ AskParent
    \/ Build \/ PostListing \/ WarnListing \/ PostListingImages

-----------------------------------------------------------------------------
Posted(sku) == sku \in DOMAIN center /\ center[sku].request # <<>>

\* Where an attribute of a variant may come from: what is written for it, then its
\* variation, then what is written for the product.
Sources(variant, name) ==
    IF Scoped(variant.sku, name) # {} THEN Scoped(variant.sku, name)
    ELSE IF variant.color # None /\ name = "Color"
         THEN {[scope |-> "variation", key |-> variant.color]}
         ELSE Scoped("base", name)

\* No attribute, image or name of one variant is listed with another, whichever
\* aliases are used and in whatever order the maps are walked through
\* (mapVariantProduct, applyVariantScopedAttributes): the color and the size of a
\* variant come from where they should.
VariantsKeepApart ==
    \A i \in DOMAIN sheet.variants :
      LET variant == sheet.variants[i]
          first == \A j \in 1..(i - 1) : sheet.variants[j].sku # variant.sku
      IN  first /\ Posted(variant.sku) =>
            LET request == center[variant.sku].request
            IN  /\ \A n \in DOMAIN request.attributes :
                     request.attributes[n].scope \in {"base", "variation", variant.sku}
                /\ \A a \in request.kept : a.scope \notin KnownSkus
                /\ \A n \in {"Color", "Talla"} :
                     Sources(variant, n) # {} =>
                       n \in DOMAIN request.attributes /\ request.attributes[n] \in Sources(variant, n)

\* What this code created in Seller Center has a price and a stock, however often
\* the create was tried (resolveBusinessUnitPayload).
CreatedComplete ==
    list.at \in {"post", "images"} /\ ~list.update /\ Posted(list.request.sku) =>
      /\ center[list.request.sku].request.price # NoPrice
      /\ "Stock" \in DOMAIN center[list.request.sku].request.attributes

\* The images of a variant are those for all and those whose colors it has, each
\* once, its own before those for all (resolveImageURLs).
ImagesFit ==
    \A i \in DOMAIN sheet.variants :
      LET variant == sheet.variants[i]
          first == \A j \in 1..(i - 1) : sheet.variants[j].sku # variant.sku
      IN  first /\ Posted(variant.sku) =>
            LET images == center[variant.sku].images
            IN  /\ \A p \in DOMAIN images :
                     sheet.images[images[p]].colors \in {{}, {variant.color}}
                /\ \A p, q \in DOMAIN images : p < q =>
                     /\ images[p] # images[q]
                     /\ sheet.images[images[p]].colors = {} => sheet.images[images[q]].colors = {}

\* At the end every variant has one result, and one that is reported as synced is
\* listed as this run mapped it, with all of its images (syncOne).
ResultsTell ==
    list.at = "over" /\ list.item > 0 =>
      /\ Len(list.results) = Size
      /\ \A i \in DOMAIN sheet.variants :
           list.results[i] = "synced" =>
             LET variant == sheet.variants[i]
             IN  /\ Posted(variant.sku)
                 /\ {k \in ImageIds : Fits(sheet.images[k], ColorsOf(variant))} # {} =>
                      center[variant.sku].images = ImagesFor(ColorsOf(variant))

ListingSafety == VariantsKeepApart /\ CreatedComplete /\ ImagesFit /\ ResultsTell
===============================================================================
