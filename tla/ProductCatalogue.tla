--------------------------- MODULE ProductCatalogue ---------------------------
(***************************************************************************)
(* Products, their tags and the tags' correlations.  A product is loaded,  *)
(* its tags are registered one statement at a time, and the whole product  *)
(* is written back in a transaction that resolves its tags' names; tags    *)
(* are deleted meanwhile.  Each statement of EnsureAll is a step, and so   *)
(* are the two halves of the transaction, whose reads take no lock.        *)
(***************************************************************************)
EXTENDS Integers, FiniteSets

CONSTANTS
    Products,      \* product ids
    Tags,          \* tag names, in their order
    CatalogTasks,  \* requests under way
    NoProduct      \* no product

ASSUME CatalogAssumption == Tags \subseteq Nat /\ NoProduct \notin Products

VARIABLES
    product,      \* products, with product_tags; "sheets" is the rest of the aggregate
    tag,          \* tags
    correlation,  \* tag_correlations
    catalogTask,  \* the requests
    superseded,   \* requests whose product was written since they loaded it
    clobbered,    \* products that lost a part of theirs to an update that was
                  \* not about it and that nobody superseded
    dangling      \* tags deleted between a product's lookup and its rows

catalogVars == <<product, tag, correlation, catalogTask, superseded, clobbered, dangling>>

------------------------------------------------------------------------------

Sheets == {"plain", "edited"}
Product == [state : {"unused", "live", "deleted"}, tags : SUBSET Tags, sheets : Sheets]
NewProduct == [state |-> "unused", tags |-> {}, sheets |-> "plain"]

LiveProduct(p) == product[p].state = "live"
LiveTags == {g \in Tags : tag[g] = "live"}

CatalogStages == {"idle", "ensure", "createTag", "restoreTag", "resolve", "commit"}
CatalogTask == [at : CatalogStages, on : Products \cup {NoProduct},
                about : {"all", "tags", "sheets"}, tags : SUBSET Tags, sheets : Sheets,
                todo : SUBSET Tags]
NoCatalogTask == [at |-> "idle", on |-> NoProduct, about |-> "all", tags |-> {},
                  sheets |-> "plain", todo |-> {}]

CatalogGoto(t, stage) == catalogTask' = [catalogTask EXCEPT ![t].at = stage]
CatalogDone(t) == catalogTask' = [catalogTask EXCEPT ![t] = NoCatalogTask]

\* A write of p supersedes the other requests that have loaded it.
Supersedes(t, p) == (superseded \cup {u \in CatalogTasks : catalogTask[u].on = p}) \ {t}

RowsUnchanged == UNCHANGED <<product, tag, correlation, clobbered, dangling>>

------------------------------------------------------------------------------
(* Products *)

\* Create: everything is given.
CreateProduct(t, p) ==
    /\ catalogTask[t].at = "idle"
    /\ product[p].state = "unused"
    /\ \A u \in CatalogTasks : catalogTask[u].on # p
    /\ \E g \in SUBSET Tags, s \in Sheets :
         catalogTask' = [catalogTask EXCEPT ![t] =
             [at |-> "ensure", on |-> p, about |-> "all", tags |-> g, sheets |-> s, todo |-> g]]
    /\ RowsUnchanged
    /\ UNCHANGED superseded

\* Update: the product is loaded, with those of its tags that are not deleted;
\* a part that is not given keeps the value loaded.
UpdateProduct(t, p) ==
    LET loaded == product[p].tags \cap LiveTags
    IN  /\ catalogTask[t].at = "idle"
        /\ LiveProduct(p)
        /\ \/ \E g \in SUBSET Tags :
                catalogTask' = [catalogTask EXCEPT ![t] =
                    [at |-> "ensure", on |-> p, about |-> "tags", tags |-> g,
                     sheets |-> product[p].sheets, todo |-> g]]
           \/ \E s \in Sheets :
                catalogTask' = [catalogTask EXCEPT ![t] =
                    [at |-> "ensure", on |-> p, about |-> "sheets", tags |-> loaded,
                     sheets |-> s, todo |-> loaded]]
        /\ RowsUnchanged
        /\ UNCHANGED superseded

\* A row that dangles is seen again when its tag is restored.
Carrying(g) ==
    {u \in CatalogTasks :
       \E p \in Products : catalogTask[u].on = p /\ g \in product[p].tags}

\* EnsureAll looks for the next tag; SoftDelete may come before what it does
\* about it, and another EnsureAll too.
EnsureTag(t) ==
    /\ catalogTask[t].at = "ensure"
    /\ \/ \E g \in catalogTask[t].todo :
            /\ \A h \in catalogTask[t].todo : g <= h
            /\ catalogTask' = [catalogTask EXCEPT
                   ![t].at = CASE tag[g] = "unused" -> "createTag"
                               [] tag[g] = "deleted" -> "restoreTag"
                               [] OTHER -> "ensure",
                   ![t].todo = IF tag[g] = "live" THEN @ \ {g} ELSE @]
       \/ catalogTask[t].todo = {} /\ CatalogGoto(t, "resolve")
    /\ RowsUnchanged
    /\ UNCHANGED superseded

\* A tag that somebody else created meanwhile violates the unique index, and
\* the request fails.
RegisterTag(t) ==
    /\ catalogTask[t].at \in {"createTag", "restoreTag"}
    /\ \E g \in catalogTask[t].todo :
         /\ \A h \in catalogTask[t].todo : g <= h
         /\ IF catalogTask[t].at = "createTag" /\ tag[g] # "unused"
            THEN /\ CatalogDone(t)
                 /\ superseded' = superseded \ {t}
                 /\ UNCHANGED <<tag, dangling>>
            ELSE /\ catalogTask' = [catalogTask EXCEPT ![t].at = "ensure", ![t].todo = @ \ {g}]
                 /\ tag' = [tag EXCEPT ![g] = "live"]
                 /\ dangling' = dangling \ {g}
                 /\ superseded' = superseded \cup Carrying(g)
    /\ UNCHANGED <<product, correlation, clobbered>>

\* The transaction writes the product's row, which it locks, and looks up the
\* tags: one that was deleted since EnsureAll fails it.
ResolveTags(t) ==
    LET p == catalogTask[t].on
    IN  /\ catalogTask[t].at = "resolve"
        /\ \A u \in CatalogTasks : ~(catalogTask[u].at = "commit" /\ catalogTask[u].on = p)
        /\ IF /\ product[p].state = (IF catalogTask[t].about = "all" THEN "unused" ELSE "live")
              /\ catalogTask[t].tags \subseteq LiveTags
           THEN CatalogGoto(t, "commit") /\ UNCHANGED superseded
           ELSE CatalogDone(t) /\ superseded' = superseded \ {t}
        /\ RowsUnchanged

\* Its rows are inserted, those of the product's old relations being deleted.
CommitProduct(t) ==
    LET p == catalogTask[t].on
        task == catalogTask[t]
        others == IF task.about = "tags" THEN product[p].sheets = task.sheets
                                         ELSE product[p].tags \cap LiveTags \subseteq task.tags
    IN  /\ task.at = "commit"
        /\ product' = [product EXCEPT ![p] =
                         [state |-> "live", tags |-> task.tags, sheets |-> task.sheets]]
        /\ dangling' = dangling \cup (task.tags \ LiveTags)
        /\ clobbered' = clobbered \cup
                          (IF task.about # "all" /\ t \notin superseded /\ ~others THEN {p} ELSE {})
        /\ superseded' = Supersedes(t, p)
        /\ CatalogDone(t)
        /\ UNCHANGED <<tag, correlation>>

\* Delete clears the product's relations, its product_tags excepted.
DeleteProduct(p) ==
    /\ LiveProduct(p)
    /\ \A u \in CatalogTasks : ~(catalogTask[u].at = "commit" /\ catalogTask[u].on = p)
    /\ product' = [product EXCEPT ![p].state = "deleted", ![p].sheets = "plain"]
    /\ superseded' = superseded \cup {u \in CatalogTasks : catalogTask[u].on = p}
    /\ UNCHANGED <<tag, correlation, catalogTask, clobbered, dangling>>

\* A statement fails, or the process dies: what was not committed is gone.
AbandonCatalog(t) ==
    /\ catalogTask[t].at # "idle"
    /\ CatalogDone(t)
    /\ superseded' = superseded \ {t}
    /\ RowsUnchanged

------------------------------------------------------------------------------
(* Tags *)

\* Mutant: the rows of the products that carry the tag are left alone.
UntaggedKept(g) == product

\* The cascade of SoftDelete.
Untagged(g) == [p \in Products |-> [product[p] EXCEPT !.tags = @ \ {g}]]

\* SoftDelete marks the tag and deletes its product_tags in one transaction;
\* a product whose transaction has looked the tag up and not yet inserted its
\* rows inserts them afterwards.
SoftDeleteTag(g) ==
    /\ tag[g] = "live"
    /\ tag' = [tag EXCEPT ![g] = "deleted"]
    /\ product' = Untagged(g)
    /\ dangling' = dangling \ {g}
    /\ superseded' = superseded \cup {u \in CatalogTasks : catalogTask[u].on # NoProduct}
    /\ UNCHANGED <<correlation, catalogTask, clobbered>>

\* A pair is stored with the smaller name first, once; deleting a tag leaves
\* its correlations.
CreateCorrelation(g, h) ==
    LET pair == IF g > h THEN <<h, g>> ELSE <<g, h>>
    IN  /\ g # h
        /\ pair \notin correlation
        /\ correlation' = correlation \cup {pair}
        /\ UNCHANGED <<product, tag, catalogTask, superseded, clobbered, dangling>>

DeleteCorrelation(pair) ==
    /\ correlation' = correlation \ {pair}
    /\ UNCHANGED <<product, tag, catalogTask, superseded, clobbered, dangling>>

------------------------------------------------------------------------------

CatalogInit ==
    /\ product = [p \in Products |-> NewProduct]
    /\ tag = [g \in Tags |-> "unused"]
    /\ correlation = {}
    /\ catalogTask = [t \in CatalogTasks |-> NoCatalogTask]
    /\ superseded = {}
    /\ clobbered = {}
    /\ dangling = {}

CatalogNext ==
    \/ \E t \in CatalogTasks :
         \/ \E p \in Products : CreateProduct(t, p) \/ UpdateProduct(t, p)
         \/ EnsureTag(t) \/ RegisterTag(t) \/ ResolveTags(t) \/ CommitProduct(t)
         \/ AbandonCatalog(t)
    \/ \E p \in Products : DeleteProduct(p)
    \/ \E g \in Tags : SoftDeleteTag(g)
    \/ \E g, h \in Tags : CreateCorrelation(g, h)
    \/ \E pair \in correlation : DeleteCorrelation(pair)

CatalogSpec == CatalogInit /\ [][CatalogNext]_catalogVars

------------------------------------------------------------------------------
(* Properties *)

CatalogTypes ==
    /\ product \in [Products -> Product]
    /\ tag \in [Tags -> {"unused", "live", "deleted"}]
    /\ correlation \subseteq Tags \X Tags
    /\ catalogTask \in [CatalogTasks -> CatalogTask]
    /\ superseded \subseteq CatalogTasks
    /\ clobbered \subseteq Products
    /\ dangling \subseteq Tags

\* A product carries no tag that is deleted, unless the tag was deleted
\* between the lookup of its id and the insert of the row, which nothing
\* excludes (repository_tags.go replaceProductTags, tag/repository.go SoftDelete).
TagsAreLive ==
    \A p \in Products : product[p].tags \subseteq LiveTags \cup dangling

\* An update that is about tags leaves the rest of the product alone and one
\* that is about the rest leaves the tags, although the whole product is
\* written back, unless another write came between (service.go, Update).
UpdatesKeepTheRest == clobbered = {}

\* Two tags are correlated once, in whichever order they are named.
CorrelatedOnce ==
    \A pair \in correlation : <<pair[2], pair[1]>> \notin correlation

CatalogSafety == CatalogTypes /\ TagsAreLive /\ UpdatesKeepTheRest /\ CorrelatedOnce
==============================================================================
