------------------------------ MODULE ShopifyAdmin ------------------------------
(* The client of Shopify's Admin API (module/shopify/adapter/shopify): requests *)
(* that are paced per shop and sent again when the answer does not come, the    *)
(* edit of an order in a session that is committed at its end, and the walk     *)
(* through all orders or customers of a shop behind a circuit breaker.          *)
EXTENDS Naturals, FiniteSets, Sequences

CONSTANTS
    AdminSkus,      \* variants of one product
    MaxQuantity,    \* bound: the quantity of a line
    AdminRetries,   \* how often a request is sent again (maxRetries)
    BusRetries,     \* how often the bus hands a failed event over again
    MaxEditEvents,  \* bound: events of the order
    ShopIds,        \* identifiers of orders of the shop, ascending numbers
    ListLimit,      \* rows of a page (pageSize)
    Threshold,      \* failures in a row that open the breaker
    Shops,          \* shops that are asked
    Callers,        \* goroutines that ask
    Interval,       \* instants between two requests to a shop
    LastTick        \* bound: the last instant

ASSUME ShopifyAdminAssumption ==
    /\ {MaxQuantity, AdminRetries, BusRetries, MaxEditEvents, Interval, LastTick} \subseteq Nat
    /\ ShopIds \subseteq Nat \ {0} /\ IsFiniteSet(ShopIds)
    /\ ListLimit \in Nat \ {0} /\ Threshold \in Nat \ {0}

VARIABLES
    admin,          \* Shopify: the order's lines and the session that edits them
    variantLink,    \* the variant linked to the product, or "none"
    editEvents,     \* events of the order that are not handled yet
    editor,         \* the handler of the events
    edited,         \* how the handling of the last event ended
    ids,            \* orders the shop has
    tour,           \* the walk through them
    lookup,         \* the import of a single order
    breaker,        \* the circuit breaker of both
    pace            \* the pacing of requests

editVars == <<admin, variantLink, editEvents, editor, edited>>
tourVars == <<ids, tour, lookup, breaker>>
adminVars == <<editVars, tourVars, pace>>

Lines == UNION {[S -> 1..MaxQuantity] : S \in SUBSET AdminSkus}

Item == [sku : AdminSkus, quantity : 1..MaxQuantity]

\* One or two lines; a variant may be on both.
Payloads == [1..1 -> Item] \cup [1..2 -> Item]

NoEditor == [at |-> "idle", items |-> <<>>, next |-> 0, existing |-> <<>>,
             changed |-> FALSE, tries |-> 0, round |-> 0]

NoTour == [at |-> "idle", since |-> 0, rows |-> <<>>, more |-> TRUE,
           succeeded |-> 0, failed |-> 0, begun |-> {}, seen |-> {}]

AdminInit ==
    /\ \E lines \in Lines :
         admin = [lines |-> lines, draft |-> <<>>, open |-> FALSE, from |-> lines, items |-> <<>>]
    /\ variantLink = "none"
    /\ editEvents = <<>>
    /\ editor = NoEditor
    /\ edited = [handled |-> <<>>, parked |-> FALSE]
    /\ ids \in SUBSET ShopIds
    /\ tour = NoTour
    /\ lookup = "idle"
    /\ breaker = [state |-> "closed", failures |-> 0, current |-> {}]
    /\ pace = [now |-> Interval, lock |-> {}, last |-> [s \in Shops |-> 0],
               asks |-> [c \in Callers |-> "none"], grants |-> [s \in Shops |-> <<>>]]

-----------------------------------------------------------------------------
(* The edit of an order: ApplyOrderUpdate, request by request.                  *)

AnnounceLines(items) ==
    /\ editor.at = "idle" /\ Len(editEvents) < MaxEditEvents
    /\ editEvents' = Append(editEvents, items)
    /\ UNCHANGED <<admin, variantLink, editor, edited, tourVars, pace>>

\* An import of an order links the product to the variant that is on it; the row
\* is found by the product and so is written over.
LinkVariant(sku) ==
    /\ editor.at = "idle" /\ variantLink # sku
    /\ variantLink' = sku
    /\ UNCHANGED <<admin, editEvents, editor, edited, tourVars, pace>>

TakeEdit ==
    /\ editor.at = "idle" /\ editEvents # <<>>
    /\ editor' = [NoEditor EXCEPT !.at = "begin", !.items = Head(editEvents)]
    /\ editEvents' = Tail(editEvents)
    /\ admin' = [admin EXCEPT !.from = <<>>, !.items = <<>>]
    /\ edited' = [handled |-> <<>>, parked |-> FALSE]
    /\ UNCHANGED <<variantLink, tourVars, pace>>

\* An error ends the edit: the session is left as it is. The bus hands the event
\* over again from the start, and parks it in the end.
EditFails ==
    IF editor.round < BusRetries
    THEN /\ editor' = [NoEditor EXCEPT !.at = "begin", !.items = editor.items, !.round = editor.round + 1]
         /\ UNCHANGED edited
    ELSE /\ editor' = NoEditor
         /\ edited' = [edited EXCEPT !.parked = TRUE]

SendAgain ==
    IF editor.tries < AdminRetries
    THEN editor' = [editor EXCEPT !.tries = @ + 1] /\ UNCHANGED edited
    ELSE EditFails

\* doJSON: Shopify accepts or refuses. When it does not get the request, has no
\* time for it (429), fails (5xx), or its answer is lost, the request is sent again;
\* an answer that cannot be read is an error at once.
Ask(accepts, after, next) ==
    /\ \/ /\ accepts /\ admin' = after /\ editor' = [next EXCEPT !.tries = 0]
          /\ edited' = IF next = NoEditor THEN [edited EXCEPT !.handled = editor.items] ELSE edited
       \/ accepts /\ admin' = after /\ (SendAgain \/ EditFails)
       \/ UNCHANGED admin /\ SendAgain
       \/ ~accepts /\ UNCHANGED admin /\ EditFails
    /\ UNCHANGED <<variantLink, editEvents, tourVars, pace>>

BeginEdit ==
    /\ editor.at = "begin"
    /\ Ask(TRUE, [admin EXCEPT !.draft = admin.lines, !.open = TRUE],
               [editor EXCEPT !.at = "item", !.next = 1, !.existing = admin.lines])

EditItem == editor.items[editor.next]

OnOrder == EditItem.sku \in DOMAIN editor.existing

\* Mutant of Changed: an edited quantity does not count as a change.
ChangedByAdding == [editor EXCEPT !.changed = @ \/ ~OnOrder]

Changed == [editor EXCEPT !.changed = TRUE]

\* A line that is as it should be, or whose variant is not known, is passed over.
PassItem ==
    /\ editor.at = "item" /\ editor.next <= Len(editor.items)
    /\ IF OnOrder THEN editor.existing[EditItem.sku] = EditItem.quantity
                  ELSE variantLink = "none"
    /\ editor' = [editor EXCEPT !.next = @ + 1]
    /\ UNCHANGED <<admin, variantLink, editEvents, edited, tourVars, pace>>

SetQuantity ==
    /\ editor.at = "item" /\ editor.next <= Len(editor.items)
    /\ OnOrder /\ editor.existing[EditItem.sku] # EditItem.quantity
    /\ Ask(admin.open, [admin EXCEPT !.draft[EditItem.sku] = EditItem.quantity],
               [Changed EXCEPT !.next = @ + 1])

\* Shopify does not put a variant on an order twice (allowDuplicates is not given).
AddVariant ==
    /\ editor.at = "item" /\ editor.next <= Len(editor.items)
    /\ ~OnOrder /\ variantLink # "none"
    /\ Ask(admin.open /\ variantLink \notin DOMAIN admin.draft,
               [admin EXCEPT !.draft = [s \in DOMAIN @ \cup {variantLink} |->
                                          IF s = variantLink THEN EditItem.quantity ELSE @[s]]],
               [Changed EXCEPT !.next = @ + 1])

\* The session is committed when something was changed in it.
LastItem ==
    /\ editor.at = "item" /\ editor.next > Len(editor.items)
    /\ IF editor.changed
       THEN editor' = [editor EXCEPT !.at = "commit"] /\ UNCHANGED edited
       ELSE editor' = NoEditor /\ edited' = [edited EXCEPT !.handled = editor.items]
    /\ UNCHANGED <<admin, variantLink, editEvents, tourVars, pace>>

CommitEdit ==
    /\ editor.at = "commit"
    /\ Ask(admin.open,
               [lines |-> admin.draft, draft |-> <<>>, open |-> FALSE,
                from |-> admin.lines, items |-> editor.items],
               NoEditor)

-----------------------------------------------------------------------------
(* The walk through all rows of a shop: SyncOrders, SyncContacts.               *)

\* The breaker lets a call through when it is closed, or half open and no other
\* call is on trial; it forgets the calls that began in an earlier state.
Admits == breaker.state = "closed" \/ (breaker.state = "half" /\ breaker.current = {})

Enters(user) == breaker' = [breaker EXCEPT !.current = @ \cup {user}]

Leaves(user, ok) ==
    breaker' =
      IF user \notin breaker.current THEN breaker
      ELSE IF ok THEN [breaker EXCEPT !.failures = 0,
                                      !.state = "closed",
                                      !.current = IF breaker.state = "half" THEN {} ELSE @ \ {user}]
      ELSE IF breaker.state = "half" \/ breaker.failures + 1 >= Threshold
           THEN [state |-> "open", failures |-> 0, current |-> {}]
           ELSE [breaker EXCEPT !.failures = @ + 1, !.current = @ \ {user}]

\* The time the breaker stays open is over; the time is that its counts begin anew.
BreakerTimesOut ==
    /\ breaker' = CASE breaker.state = "open" -> [breaker EXCEPT !.state = "half"]
                    [] breaker.state = "closed" -> [breaker EXCEPT !.failures = 0, !.current = {}]
                    [] OTHER -> breaker
    /\ UNCHANGED <<editVars, ids, tour, lookup, pace>>

\* Orders are placed, and deleted.
PlaceOrder(id) ==
    /\ id \notin ids /\ \A other \in ids \cup tour.begun : other < id
    /\ ids' = ids \cup {id}
    /\ UNCHANGED <<editVars, tour, lookup, breaker, pace>>

DeleteOrder(id) ==
    /\ ids' = ids \ {id} /\ ids' # ids
    /\ tour' = [tour EXCEPT !.begun = @ \ {id}]
    /\ UNCHANGED <<editVars, lookup, breaker, pace>>

BeginTour ==
    /\ tour.at = "idle"
    /\ tour' = [NoTour EXCEPT !.at = "list", !.begun = ids]
    /\ UNCHANGED <<editVars, ids, lookup, breaker, pace>>

\* The breaker refuses, or the context is over: the run is recorded as failed.
StopTour ==
    /\ tour.at = "list"
    /\ tour' = [tour EXCEPT !.at = "failed"]
    /\ UNCHANGED <<editVars, ids, lookup, breaker, pace>>

AskPage ==
    /\ tour.at = "list" /\ Admits /\ Enters("tour")
    /\ tour' = [tour EXCEPT !.at = "asked"]
    /\ UNCHANGED <<editVars, ids, lookup, pace>>

\* The rows after the last one seen, in the order of their identifiers.
PageAfter(since) ==
    LET after == {id \in ids : id > since}
    IN  {id \in after : Cardinality({other \in after : other < id}) < ListLimit}

Ascending(S) ==
    CHOOSE f \in [1..Cardinality(S) -> S] : \A i, j \in DOMAIN f : i < j => f[i] < f[j]

\* Mutant of HasMore: a full page is taken for the last one.
MoreThanFull(rows) == Len(rows) > ListLimit

HasMore(rows) == Len(rows) = ListLimit

ListPage ==
    /\ tour.at = "asked" /\ Leaves("tour", TRUE)
    /\ LET rows == Ascending(PageAfter(tour.since))
       IN  tour' = [tour EXCEPT !.at = "rows", !.rows = rows, !.more = HasMore(rows),
                                !.since = IF rows = <<>> THEN @ ELSE rows[Len(rows)]]
    /\ UNCHANGED <<editVars, ids, lookup, pace>>

\* All the attempts failed: the walk ends with the run recorded as failed.
PageFails ==
    /\ tour.at = "asked" /\ Leaves("tour", FALSE)
    /\ tour' = [tour EXCEPT !.at = "failed"]
    /\ UNCHANGED <<editVars, ids, lookup, pace>>

\* A row is imported, or the error is counted and the next row is taken.
TakeRow(ok) ==
    /\ tour.at = "rows" /\ tour.rows # <<>>
    /\ tour' = [tour EXCEPT !.rows = Tail(@), !.seen = @ \cup {Head(tour.rows)},
                            !.succeeded = IF ok THEN @ + 1 ELSE @,
                            !.failed = IF ok THEN @ ELSE @ + 1]
    /\ UNCHANGED <<editVars, ids, lookup, breaker, pace>>

TurnPage ==
    /\ tour.at = "rows" /\ tour.rows = <<>>
    /\ tour' = [tour EXCEPT !.at = IF tour.more THEN "list" ELSE "completed"]
    /\ UNCHANGED <<editVars, ids, lookup, breaker, pace>>

\* A delivery has one order imported, SyncOrderByID, behind the same breaker. An
\* order that is not found is a failure to the breaker.
AskOrder ==
    /\ lookup = "idle"
    /\ IF Admits THEN Enters("lookup") /\ lookup' = "asked"
                 ELSE UNCHANGED breaker /\ lookup' = "refused"
    /\ UNCHANGED <<editVars, ids, tour, pace>>

GetOrder(found) ==
    /\ lookup = "asked" /\ Leaves("lookup", found)
    /\ lookup' = "idle"
    /\ UNCHANGED <<editVars, ids, tour, pace>>

LookAgain ==
    /\ lookup = "refused" /\ lookup' = "idle"
    /\ UNCHANGED <<editVars, ids, tour, breaker, pace>>

-----------------------------------------------------------------------------
(* The pacing: waitForAdminRateLimit, one mutex for all shops.                  *)

Paced(changed) == pace' = changed /\ UNCHANGED <<editVars, tourVars>>

AskShop(c, s) ==
    /\ pace.asks[c] = "none"
    /\ Paced([pace EXCEPT !.asks[c] = s])

LockPace(c) ==
    /\ pace.asks[c] # "none" /\ pace.lock = {}
    /\ Paced([pace EXCEPT !.lock = {c}])

\* Mutant of Due: a shop that was asked a moment ago may be asked.
DueAnyTime(s) == TRUE

\* Enough time has gone by since the last request to the shop.
Due(s) == pace.now >= pace.last[s] + Interval

\* The holder of the mutex has waited: the instant is stored, and the request sent.
Grant(c) ==
    LET s == pace.asks[c]
    IN  /\ c \in pace.lock /\ Due(s)
        /\ Paced([pace EXCEPT !.lock = {}, !.last[s] = pace.now, !.asks[c] = "none",
                              !.grants[s] = Append(@, pace.now)])

\* The context is over while the holder waits.
GiveUp(c) ==
    /\ c \in pace.lock
    /\ Paced([pace EXCEPT !.lock = {}, !.asks[c] = "none"])

Tick ==
    /\ pace.now < LastTick
    /\ Paced([pace EXCEPT !.now = @ + 1])

-----------------------------------------------------------------------------
EditNext ==
    \/ \E items \in Payloads : AnnounceLines(items)
    \/ \E sku \in AdminSkus : LinkVariant(sku)
    \/ TakeEdit \/ BeginEdit \/ PassItem \/ SetQuantity \/ AddVariant \/ LastItem \/ CommitEdit

TourNext ==
    \/ \E id \in ShopIds : PlaceOrder(id) \/ DeleteOrder(id)
    \/ BeginTour \/ StopTour \/ AskPage \/ ListPage \/ PageFails \/ TurnPage
    \/ \E ok \in BOOLEAN : TakeRow(ok) \/ GetOrder(ok)
    \/ AskOrder \/ LookAgain \/ BreakerTimesOut

PaceNext ==
    \/ \E c \in Callers : LockPace(c) \/ Grant(c) \/ GiveUp(c)
    \/ \E c \in Callers, s \in Shops : AskShop(c, s)
    \/ Tick

-----------------------------------------------------------------------------
Once(items, sku) == Cardinality({i \in DOMAIN items : items[i].sku = sku}) = 1

QuantityOf(items, sku) == items[CHOOSE i \in DOMAIN items : items[i].sku = sku].quantity

\* An order is edited as a whole or not at all, though any request may fail, be
\* answered too late or be sent twice (ApplyOrderUpdate): every line it had has the
\* quantity of the event, or stays when the event does not name it.
EditedAsAWhole ==
    admin.items # <<>> =>
      \A sku \in DOMAIN admin.from :
        /\ sku \in DOMAIN admin.lines
        /\ Once(admin.items, sku) => admin.lines[sku] = QuantityOf(admin.items, sku)
        /\ (\A i \in DOMAIN admin.items : admin.items[i].sku # sku)
             => admin.lines[sku] = admin.from[sku]

\* When the last event was handled, and none parked, the lines the order has are
\* those of that event: handling it again after a lost answer finds nothing to do.
EditsSettle ==
    editor.at = "idle" /\ ~edited.parked =>
      \A sku \in DOMAIN admin.lines :
        Once(edited.handled, sku) => admin.lines[sku] = QuantityOf(edited.handled, sku)

\* A walk that is recorded as completed has seen every order that was there all
\* the while, each once, though orders are placed and deleted between its pages
\* (the cursor of ListOrders and ListCustomers), and its counts add up.
ToursAreComplete ==
    tour.at = "completed" =>
      /\ tour.begun \subseteq tour.seen
      /\ tour.succeeded + tour.failed = Cardinality(tour.seen)

\* Two requests to a shop are an interval apart, whoever asks, and a goroutine that
\* gives up does not keep the others from asking (rateMu).
RequestsArePaced ==
    /\ \A s \in Shops : \A i \in 2..Len(pace.grants[s]) :
         pace.grants[s][i] >= pace.grants[s][i - 1] + Interval
    /\ \A c \in pace.lock : pace.asks[c] # "none"

AdminSafety == EditedAsAWhole /\ EditsSettle /\ ToursAreComplete /\ RequestsArePaced
===============================================================================
