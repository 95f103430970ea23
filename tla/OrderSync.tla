------------------------------ MODULE OrderSync ------------------------------
(* Orders and their copies in Shopify (module/orders, module/shopify): the     *)
(* order service with its status log, the import of Shopify orders by webhook  *)
(* workers, cron and requests, the link table, and the consumer of order       *)
(* events that writes local changes back to Shopify.                           *)
(*                                                                             *)
(* A slot is one goroutine.  A transaction, a read and a call of Shopify are   *)
(* one step each.  Publishing an order event runs the only consumer of its     *)
(* topic before it returns (see EventBus), one message per topic at a time.    *)
(*                                                                             *)
(* An order's items stand for all that Update may change.  Of the status log   *)
(* the model keeps what the code reads back, the entry with the latest time,   *)
(* and of the times which of two entries is the earlier.                       *)
(* The unique index on (realm, identifier) makes that pair a name for an order. *)
EXTENDS Naturals, FiniteSets

CONSTANTS
  Remotes,         \* Shopify orders: a shop domain and an id
  Names,           \* order identifiers
  Name,            \* Shopify order -> its name, the identifier it is imported as
  Items,           \* what an order may contain
  States,          \* states of Shopify orders in this instance
  Gateways,        \* how orders of this instance are paid
  LocalStatuses,   \* statuses people and shipping set in this instance
  Slots,           \* goroutines that may run at the same time
  MaxRetries,      \* MESSAGING_MAX_RETRIES
  DuplicatesNamed, \* whether the driver's duplicate-key message is recognised
  MaxRequests,     \* bound: requests that change orders here
  MaxChanges,      \* bound: changes made in Shopify
  MaxFaults,       \* bound: failing calls, statements and deaths of a process
  Nil              \* no order, no link

AllStates == {"pending", "paid", "held", "fulfilled", "cancelled"}

Status == {"CANCELLED", "CREATED", "PENDING", "HOLD", "COMPLETED"}

ASSUME SyncAssumption ==
  /\ States \subseteq AllStates
  /\ Gateways \subseteq {"card", "cod"}
  /\ LocalStatuses \subseteq Status
  /\ Name \in [Remotes -> Names]
  /\ MaxRetries \in Nat
  /\ MaxRequests \in Nat /\ MaxChanges \in Nat /\ MaxFaults \in Nat
  /\ DuplicatesNamed \in BOOLEAN

VARIABLES
  shop,     \* Shopify order -> [items, state, gateway]
  orders,   \* <<realm, identifier>> -> [items, last], Nil when there is none
  links,    \* shopify_sync_links, kind order: row -> [remote, key], or Nil
  slot,     \* what each goroutine is doing
  before,   \* pairs of slots with a status entry each, the earlier one first
  late,     \* slots whose status entry is older than its order's latest
  missed,   \* history: orders with an event that did not reach Shopify
  requests, changes, faults

vars == <<shop, orders, links, slot, before, late, missed, requests, changes, faults>>

-----------------------------------------------------------------------------
(* Data. *)

Remote == [items : Items,
           state : AllStates,
           gateway : Gateways]

\* The local status of a Shopify order.
Mapped(o) == CASE o.state = "cancelled" -> "CANCELLED"
               [] o.state = "fulfilled" -> "COMPLETED"
               [] o.state = "held"      -> "HOLD"
               [] o.state = "paid"      -> "CREATED"
               [] o.state = "pending"   -> IF o.gateway = "cod" THEN "CREATED"
                                                                ELSE "PENDING"

Keys == {"shopify", "other"} \X Names

ImportKey(r) == <<"shopify", Name[r]>>
OtherKey(r) == <<"other", Name[r]>>

\* Statuses the import sets have its author, all others are local.
Entry == [status : Status, author : {"shopify_sync", "local"}]

\* What a read of an order returns, and what its events carry.
Order == [items : Items, last : Entry]

Working == {"Pay", "Find", "Create", "Load", "Write", "Compare", "Append",
            "Read", "Handle", "Link", "Save"}

\* Rows of the link table.  Its unique keys allow one row per Shopify order.
Rows == 1 .. Cardinality(Remotes)

Slot == [op : {"Idle", "Sync", "Edit", "Status", "Comment"},
         at : {"Idle"} \cup Working,
         remote : Remotes \cup {Nil},
         key : Keys \cup {Nil},
         items : Items \cup {Nil},
         status : Status \cup {Nil},
         view : Order \cup {Nil},
         row : Rows \cup {Nil},
         topic : {"updated", "status", Nil},
         tries : 0 .. MaxRetries]

Idle == [op |-> "Idle", at |-> "Idle", remote |-> Nil, key |-> Nil,
         items |-> Nil, status |-> Nil, view |-> Nil,
         row |-> Nil, topic |-> Nil, tries |-> 0]

ASSUME NilAssumption ==
  Nil \notin Order \cup Keys \cup Items \cup Remotes \cup Status
          \cup (1 .. Cardinality(Remotes)) \cup {"updated", "status"}
          \cup [remote : Remotes, key : Keys]

-----------------------------------------------------------------------------
(* Lookups. *)

Linked == {i \in Rows : links[i] # Nil}

LinkedTo(k) == {links[i].remote : i \in {j \in Linked : links[j].key = k}}

\* The order a Shopify order is linked to.
LinkOf(r) == IF \E i \in Linked : links[i].remote = r
             THEN links[CHOOSE i \in Linked : links[i].remote = r].key
             ELSE Nil

\* Mutant of Existing: the list query forgets the identifier.
ExistingAny(r) ==
  IF LinkOf(r) # Nil THEN LinkOf(r)
  ELSE IF \E k \in Keys : orders[k] # Nil
       THEN CHOOSE k \in Keys : orders[k] # Nil
       ELSE Nil

\* By link, then by realm and identifier, then by identifier in any realm.
Existing(r) ==
  IF LinkOf(r) # Nil THEN LinkOf(r)
  ELSE IF orders[ImportKey(r)] # Nil THEN ImportKey(r)
  ELSE IF orders[OtherKey(r)] # Nil THEN OtherKey(r)
  ELSE Nil

\* Rows of the link table that hold one of two identifiers.
Matching(r, k) == {i \in Linked : links[i].remote = r \/ links[i].key = k}

-----------------------------------------------------------------------------
(* Control. *)

Init ==
  /\ shop \in [Remotes -> {o \in Remote : o.state = "pending"}]
  /\ orders = [k \in Keys |-> Nil]
  /\ links = [i \in Rows |-> Nil]
  /\ slot = [s \in Slots |-> Idle]
  /\ before = {}
  /\ late = {}
  /\ missed = {}
  /\ requests = 0
  /\ changes = 0
  /\ faults = 0

At(s, point) == slot[s].at = point
Goto(s, point) == slot' = [slot EXCEPT ![s].at = point]
End(s) == slot' = [slot EXCEPT ![s] = Idle]

\* time.Now() for a status entry that is not written yet.
Stamp(s) == before' = before \cup {<<t, s>> : t \in {u \in Slots : At(u, "Append")}}

Unstamped(s) == {p \in before : s \notin {p[1], p[2]}}

Fault == faults < MaxFaults /\ faults' = faults + 1

\* A statement or call fails, its context expires, or the process dies.  A
\* local change whose event is still on its way does not reach Shopify.
Fail(s) ==
  /\ slot[s].at \in Working
  /\ Fault
  /\ missed' = IF slot[s].op # "Sync" /\ slot[s].topic # Nil
               THEN missed \cup {slot[s].key} ELSE missed
  /\ before' = Unstamped(s)
  /\ late' = late \ {s}
  /\ End(s)
  /\ UNCHANGED <<shop, orders, links, requests, changes>>

-----------------------------------------------------------------------------
(* The import of one Shopify order. *)

\* GetOrder, or the order's turn in a page of ListOrders.
StartSync(s, r) ==
  /\ At(s, "Idle")
  /\ slot' = [slot EXCEPT ![s] =
       [Idle EXCEPT !.op = "Sync", !.remote = r, !.items = shop[r].items,
                    !.status = Mapped(shop[r]),
                    !.at = IF shop[r].state = "pending" /\ shop[r].gateway = "cod"
                           THEN "Pay" ELSE "Find"]]
  /\ UNCHANGED <<shop, orders, links, before, late, missed, requests, changes, faults>>

\* Cash on delivery counts as paid, in Shopify too.
MarkPaid(s) ==
  /\ At(s, "Pay")
  /\ shop[slot[s].remote].state = "pending"
  /\ shop' = [shop EXCEPT ![slot[s].remote].state = "paid"]
  /\ Goto(s, "Find")
  /\ UNCHANGED <<orders, links, before, late, missed, requests, changes, faults>>

\* Shopify refuses, which the import only logs.
MarkPaidRefused(s) ==
  /\ At(s, "Pay")
  /\ \/ shop[slot[s].remote].state # "pending" /\ UNCHANGED faults
     \/ Fault
  /\ Goto(s, "Find")
  /\ UNCHANGED <<shop, orders, links, before, late, missed, requests, changes>>

\* findExisting.  Its queries are one step: orders are never deleted, and the
\* last query decides when the earlier ones find nothing.
Find(s) ==
  /\ At(s, "Find")
  /\ LET k == Existing(slot[s].remote) IN
       IF k = Nil THEN Goto(s, "Create")
       ELSE slot' = [slot EXCEPT ![s].at = "Load", ![s].key = k]
  /\ UNCHANGED <<shop, orders, links, before, late, missed, requests, changes, faults>>

\* Nobody subscribes to orders.v1.created.
Create(s) ==
  LET k == ImportKey(slot[s].remote) IN
  /\ At(s, "Create")
  /\ orders[k] = Nil
  /\ orders' = [orders EXCEPT ![k] =
       [items |-> slot[s].items,
        last |-> [status |-> slot[s].status, author |-> "shopify_sync"]]]
  /\ slot' = [slot EXCEPT ![s].at = "Link", ![s].key = k]
  /\ UNCHANGED <<shop, links, before, late, missed, requests, changes, faults>>

\* Another import was faster.
CreateTaken(s) ==
  /\ At(s, "Create")
  /\ orders[ImportKey(slot[s].remote)] # Nil
  /\ IF DuplicatesNamed THEN Goto(s, "Find") ELSE End(s)
  /\ UNCHANGED <<shop, orders, links, before, late, missed, requests, changes, faults>>

\* The status is compared with the order as Update returned it.
Compare(s) ==
  /\ At(s, "Compare")
  /\ IF slot[s].view.last.status = slot[s].status
     THEN /\ slot' = [slot EXCEPT ![s].at = "Link", ![s].view = Nil]
          /\ UNCHANGED before
     ELSE /\ slot' = [slot EXCEPT ![s].at = "Append", ![s].view = Nil]
          /\ Stamp(s)
  /\ UNCHANGED <<shop, orders, links, late, missed, requests, changes, faults>>

\* UpsertLink takes a row with either identifier, or none.
Link(s) ==
  LET rows == Matching(slot[s].remote, slot[s].key) IN
  /\ At(s, "Link")
  /\ \E i \in IF rows = {} THEN {Nil} ELSE rows :
       slot' = [slot EXCEPT ![s].at = "Save", ![s].row = i]
  /\ UNCHANGED <<shop, orders, links, before, late, missed, requests, changes, faults>>

\* It writes both identifiers to the row, or to a new one.
Save(s) ==
  LET r == slot[s].remote
      k == slot[s].key
      i == slot[s].row
  IN /\ At(s, "Save")
     /\ Matching(r, k) \subseteq {i}
     /\ \E j \in IF i = Nil THEN Rows \ Linked ELSE {i} :
          links' = [links EXCEPT ![j] = [remote |-> r, key |-> k]]
     /\ End(s)
     /\ UNCHANGED <<shop, orders, before, late, missed, requests, changes, faults>>

\* Another row has one of them, which a unique key does not allow.
SaveTaken(s) ==
  /\ At(s, "Save")
  /\ ~(Matching(slot[s].remote, slot[s].key) \subseteq {slot[s].row})
  /\ End(s)
  /\ UNCHANGED <<shop, orders, links, before, late, missed, requests, changes, faults>>

-----------------------------------------------------------------------------
(* The order service. *)

Request == requests < MaxRequests /\ requests' = requests + 1

\* An order of another realm, from WooCommerce or from a person.
CreateOther(s, k) ==
  /\ At(s, "Idle")
  /\ Request
  /\ k[1] = "other" /\ orders[k] = Nil
  /\ \E i \in Items :
       orders' = [orders EXCEPT ![k] =
         [items |-> i,
          last |-> [status |-> "CREATED", author |-> "local"]]]
  /\ UNCHANGED <<shop, links, slot, before, late, missed, changes, faults>>

StartEdit(s, k) ==
  /\ At(s, "Idle")
  /\ Request
  /\ orders[k] # Nil
  /\ \E i \in Items :
       slot' = [slot EXCEPT ![s] = [Idle EXCEPT !.op = "Edit", !.at = "Load",
                                      !.key = k, !.items = i]]
  /\ UNCHANGED <<shop, orders, links, before, late, missed, changes, faults>>

\* UpdateStatus stamps the entry before it takes the row lock.  The voiding of a
\* shipping mark is one of its callers.
StartStatus(s, k) ==
  /\ At(s, "Idle")
  /\ Request
  /\ orders[k] # Nil
  /\ \E st \in LocalStatuses :
       slot' = [slot EXCEPT ![s] = [Idle EXCEPT !.op = "Status", !.at = "Append",
                                      !.key = k, !.status = st]]
  /\ Stamp(s)
  /\ UNCHANGED <<shop, orders, links, late, missed, changes, faults>>

\* Comments are kept elsewhere, but their events carry the whole order.
StartComment(s, k) ==
  /\ At(s, "Idle")
  /\ Request
  /\ orders[k] # Nil
  /\ slot' = [slot EXCEPT ![s] = [Idle EXCEPT !.op = "Comment", !.at = "Read",
                                    !.key = k, !.topic = "updated"]]
  /\ UNCHANGED <<shop, orders, links, before, late, missed, changes, faults>>

\* Mutant of AfterUnchanged: an import without new items is done.
AfterUnchangedLink(s) == IF slot[s].op = "Sync" THEN "Link" ELSE "Idle"

AfterUnchanged(s) == IF slot[s].op = "Sync" THEN "Compare" ELSE "Idle"

\* Update reads the order; nothing new, nothing written.
Load(s) ==
  /\ At(s, "Load")
  /\ IF orders[slot[s].key].items # slot[s].items
     THEN Goto(s, "Write")
     ELSE IF AfterUnchanged(s) = "Idle" THEN End(s)
     ELSE slot' = [slot EXCEPT ![s].at = AfterUnchanged(s),
                               ![s].view = orders[slot[s].key]]
  /\ UNCHANGED <<shop, orders, links, before, late, missed, requests, changes, faults>>

Write(s) ==
  /\ At(s, "Write")
  /\ orders' = [orders EXCEPT ![slot[s].key].items = slot[s].items]
  /\ slot' = [slot EXCEPT ![s].at = "Read", ![s].topic = "updated",
                          ![s].items = Nil]
  /\ UNCHANGED <<shop, links, before, late, missed, requests, changes, faults>>

AuthorOf(op) == IF op = "Sync" THEN "shopify_sync" ELSE "local"

\* An entry that is older than the latest leaves the current status alone, and
\* makes those late that were stamped before it and are not written yet.
AppendStatus(s) ==
  /\ At(s, "Append")
  /\ IF s \in late
     THEN /\ UNCHANGED orders
          /\ late' = late \ {s}
     ELSE /\ orders' = [orders EXCEPT ![slot[s].key].last =
                 [status |-> slot[s].status, author |-> AuthorOf(slot[s].op)]]
          /\ late' = late \cup {t \in Slots : <<t, s>> \in before
                                              /\ slot[t].key = slot[s].key}
  /\ before' = Unstamped(s)
  /\ slot' = [slot EXCEPT ![s].at = "Read", ![s].topic = "status",
                          ![s].status = Nil]
  /\ UNCHANGED <<shop, links, missed, requests, changes, faults>>

\* The repository reads the order back, outside its transaction.
Read(s) ==
  /\ At(s, "Read")
  /\ slot' = [slot EXCEPT ![s].at = "Handle",
                          ![s].view = orders[slot[s].key]]
  /\ UNCHANGED <<shop, orders, links, before, late, missed, requests, changes, faults>>

-----------------------------------------------------------------------------
(* The consumer of order events. *)

\* A message that is retried holds the mutex of its topic.
Turn(s) ==
  /\ At(s, "Handle")
  /\ \A t \in Slots \ {s} : slot[t].tries > 0 => slot[t].topic # slot[s].topic

\* The handler is done, and so is the Publish that waited for it.
Return(s) ==
  IF slot[s].op # "Sync" THEN End(s)
  ELSE slot' = [slot EXCEPT ![s].at = IF slot[s].topic = "updated"
                                      THEN "Compare" ELSE "Link",
                            ![s].view = IF slot[s].topic = "updated"
                                        THEN @ ELSE Nil,
                            ![s].topic = Nil, ![s].tries = 0]

\* Mutant of Skips: only the author of the latest status tells the source.
SkipsByAuthor(s) ==
  \/ slot[s].key[1] # "shopify"
  \/ slot[s].view.last.author = "shopify_sync"

\* Mutant of Skips: a closed order needs no attention.
SkipsClosed(s) ==
  \/ slot[s].key[1] # "shopify"
  \/ slot[s].op = "Sync"
  \/ slot[s].view.last.status \in {"COMPLETED", "CANCELLED"}

\* Echo prevention: the change, or the order's latest status, is an import's.
Skips(s) ==
  \/ slot[s].key[1] # "shopify"
  \/ slot[s].op = "Sync"
  \/ slot[s].view.last.author = "shopify_sync"

HandleSkip(s) ==
  /\ Turn(s)
  /\ Skips(s)
  /\ Return(s)
  /\ UNCHANGED <<shop, orders, links, before, late, missed, requests, changes, faults>>

HandleUnlinked(s) ==
  /\ Turn(s)
  /\ ~Skips(s)
  /\ LinkedTo(slot[s].key) = {}
  /\ missed' = missed \cup {slot[s].key}
  /\ Return(s)
  /\ UNCHANGED <<shop, orders, links, before, late, requests, changes, faults>>

\* What the event makes of the Shopify order.
Pushed(o, view) == IF view.last.status = "CANCELLED"
                   THEN [o EXCEPT !.state = "cancelled"]
                   ELSE [o EXCEPT !.items = view.items]

\* Shopify neither cancels a fulfilled order nor touches a cancelled one.
Refused(o, view) == \/ o.state = "cancelled"
                    \/ o.state = "fulfilled" /\ view.last.status = "CANCELLED"

\* CancelOrder, or ApplyOrderUpdate: an order edit that sets the quantities.
\* The link is read and Shopify called in one step, and so is all of an edit,
\* which takes effect when it is committed.
Push(s) ==
  /\ Turn(s)
  /\ ~Skips(s)
  /\ \E r \in LinkedTo(slot[s].key) :
       /\ ~Refused(shop[r], slot[s].view)
       /\ shop' = [shop EXCEPT ![r] = Pushed(@, slot[s].view)]
  /\ Return(s)
  /\ UNCHANGED <<orders, links, before, late, missed, requests, changes, faults>>

\* The handler fails; the bus retries it and then parks the message.
PushFails(s) ==
  /\ Turn(s)
  /\ ~Skips(s)
  /\ \/ /\ \E r \in LinkedTo(slot[s].key) : Refused(shop[r], slot[s].view)
        /\ UNCHANGED faults
     \/ Fault
  /\ IF slot[s].tries < MaxRetries
     THEN /\ slot' = [slot EXCEPT ![s].tries = @ + 1]
          /\ UNCHANGED missed
     ELSE /\ missed' = missed \cup {slot[s].key}
          /\ Return(s)
  /\ UNCHANGED <<shop, orders, links, before, late, requests, changes>>

-----------------------------------------------------------------------------
(* Shopify. *)

\* Customers and the shop change an order that is not cancelled.
ShopChange(r) ==
  /\ changes < MaxChanges
  /\ changes' = changes + 1
  /\ shop[r].state # "cancelled"
  /\ \E o \in Remote :
       /\ o.gateway = shop[r].gateway
       /\ o.state \in States
       /\ o.state = "pending" => shop[r].state = "pending"
       /\ o # shop[r]
       /\ shop' = [shop EXCEPT ![r] = o]
  /\ UNCHANGED <<orders, links, slot, before, late, missed, requests, faults>>

Import(s) == MarkPaid(s) \/ MarkPaidRefused(s) \/ Find(s) \/ Create(s)
             \/ CreateTaken(s) \/ Compare(s) \/ Link(s) \/ Save(s) \/ SaveTaken(s)
Change(s) == Load(s) \/ Write(s) \/ AppendStatus(s) \/ Read(s)
Handle(s) == HandleSkip(s) \/ HandleUnlinked(s) \/ Push(s) \/ PushFails(s)
Work(s) == Import(s) \/ Change(s) \/ Handle(s)

Start(s, k) == CreateOther(s, k) \/ StartEdit(s, k) \/ StartStatus(s, k)
               \/ StartComment(s, k)

Next == \/ \E s \in Slots : Work(s) \/ Fail(s)
        \/ \E s \in Slots, r \in Remotes : StartSync(s, r)
        \/ \E s \in Slots, k \in Keys : Start(s, k)
        \/ \E r \in Remotes : ShopChange(r)

\* A goroutine that can run does.  The cron job comes back to every Shopify
\* order, and needs no goroutine of another to do so.
Fairness == /\ \A s \in Slots : WF_vars(Work(s))
            /\ \A r \in Remotes : SF_vars(\E s \in Slots : StartSync(s, r))

Spec == Init /\ [][Next]_vars /\ Fairness

-----------------------------------------------------------------------------
(* Properties. *)

TypeOK ==
  /\ shop \in [Remotes -> Remote]
  /\ orders \in [Keys -> Order \cup {Nil}]
  /\ links \in [Rows -> [remote : Remotes, key : Keys] \cup {Nil}]
  /\ slot \in [Slots -> Slot]
  /\ before \subseteq Slots \X Slots
  /\ late \subseteq Slots
  /\ missed \subseteq Keys
  /\ requests \in Nat /\ changes \in Nat /\ faults \in Nat

\* Imports that race, adopt an order of another realm, fail between creating
\* an order and linking it, or are repeated never link a Shopify order to an
\* order of another name, nor an order to two Shopify orders.
LinksAgree ==
  \A i \in Linked :
    /\ orders[links[i].key] # Nil
    /\ links[i].key[2] = Name[links[i].remote]
    /\ Matching(links[i].remote, links[i].key) = {i}

\* An order a person has cancelled, with no later status, is cancelled in
\* Shopify too, or about to be, unless a failure was reported or the order was
\* not yet linked: no import or other change that overlaps the cancellation
\* may swallow its event.
CancellationsHold ==
  \A k \in Keys :
    /\ k[1] = "shopify" /\ orders[k] # Nil
    /\ orders[k].last.status = "CANCELLED" /\ orders[k].last.author = "local"
    => \/ \E r \in Remotes : Name[r] = k[2] /\ shop[r].state = "cancelled"
       \/ k \in missed
       \/ \E s \in Slots : /\ slot[s].key = k /\ slot[s].op # "Sync"
                           /\ slot[s].at \in {"Read", "Handle"}

\* What comes from Shopify is not written back to it, whatever an import races
\* with (TestHandleOrderEventSkipsShopifySyncSource).  Marking cash on delivery
\* as paid is meant.
SyncNeverWritesBack ==
  [][\A s \in Slots : slot[s].op = "Sync" /\ ~At(s, "Pay") /\ slot'[s] # slot[s]
                        => shop' = shop]_vars

\* Once nobody changes an order any more and calls stop failing, the imports
\* bring every local order to what Shopify says, however many stale copies were
\* on their way (the cron job repairs what webhooks and races leave behind).
Converges ==
  <>[](\A r \in Remotes :
         LET k == Existing(r) IN
         /\ k # Nil
         /\ orders[k].items = shop[r].items
         /\ orders[k].last.status = Mapped(shop[r]))

\* "Mannaiah operational changes are written back only for order edits, ..."
\* (module/shopify/README.md): an edit whose event was handled without a
\* failure is in the Shopify order.
EditsReachShopify ==
  [][\A s \in Slots, r \in Remotes :
       /\ slot[s].op = "Edit" /\ At(s, "Handle") /\ slot'[s] = Idle
       /\ LinkOf(r) = slot[s].key /\ slot[s].key[1] = "shopify"
       /\ slot[s].view.last.status # "CANCELLED"
       /\ shop[r].state # "cancelled" /\ faults' = faults
       => shop'[r].items = slot[s].view.items]_vars

-----------------------------------------------------------------------------
(* The inductive invariant. *)

CancelledHere(last) == last.status = "CANCELLED" /\ last.author = "local"

\* The event of slot s, sent or not, cancels the Shopify order of k.
WillCancel(s, k) ==
  /\ slot[s].key = k /\ slot[s].op # "Sync"
  /\ \/ At(s, "Read")
     \/ At(s, "Handle") /\ CancelledHere(slot[s].view.last)

CancelsOnTheirWay ==
  \A k \in Keys :
    k[1] = "shopify" /\ orders[k] # Nil /\ CancelledHere(orders[k].last)
    => \/ \E r \in Remotes : Name[r] = k[2] /\ shop[r].state = "cancelled"
       \/ k \in missed
       \/ \E s \in Slots : WillCancel(s, k)

\* A goroutine past the search works on an order that exists, an import on one of
\* the right name.
Placed(s) ==
  slot[s].at \notin {"Idle", "Pay", "Find", "Create"} =>
    /\ slot[s].key \in Keys
    /\ orders[slot[s].key] # Nil
    /\ slot[s].op = "Sync" => slot[s].key[2] = Name[slot[s].remote]

\* What a goroutine carries at each point.
Carries(s) ==
  /\ slot[s].op = "Sync" => slot[s].remote \in Remotes
  /\ slot[s].at \in {"Pay", "Find", "Create", "Compare", "Link", "Save"}
     => slot[s].op = "Sync"
  /\ slot[s].at \in {"Pay", "Find", "Create", "Load", "Write"}
     => slot[s].items \in Items
  /\ \/ At(s, "Append")
     \/ /\ slot[s].op = "Sync"
        /\ \/ slot[s].at \in {"Pay", "Find", "Create", "Load", "Write", "Compare"}
           \/ slot[s].at \in {"Read", "Handle"} /\ slot[s].topic = "updated"
     => slot[s].status \in Status
  /\ slot[s].at \in {"Read", "Handle"} => slot[s].topic \in {"updated", "status"}
  /\ slot[s].at \in {"Compare", "Handle"} => slot[s].view \in Order

\* Why the safety properties hold: types, links, the cancellations that are
\* still to reach Shopify, and what every goroutine knows.
SyncInv == /\ TypeOK
           /\ LinksAgree
           /\ CancelsOnTheirWay
           /\ \A s \in Slots : Placed(s) /\ Carries(s)
===============================================================================
