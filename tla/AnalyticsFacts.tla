---------------------------- MODULE AnalyticsFacts ----------------------------
(* The copy of the orders that analytics keeps in ClickHouse. A request changes *)
(* an order, reads it again and publishes what it read; the handler of the     *)
(* topic inserts a row for the order and then a row for every line. Rows are   *)
(* never changed: a query with FINAL sees, of the rows with one key, the one   *)
(* with the greatest updated_at, and of several with that, the one inserted    *)
(* last. A handler that fails starts over; when its tries are spent the event  *)
(* is parked. An operator can seed the copy at any time: the order's row, its   *)
(* lines and its statuses are read as they are by then, and inserted like that. *)
EXTENDS Integers

CONSTANTS
    FactTasks,      \* requests that change an order
    Seeders,        \* requests that seed the copy
    Skus,           \* what a line can be of
    MaxStamp,       \* bound: updates of the order
    MaxStatus,      \* bound: entries of its status history
    FactTries       \* tries of a handler before its event is parked

ASSUME AnalyticsFactsAssumption ==
    MaxStamp \in Nat \ {0} /\ MaxStatus \in Nat \ {0} /\ FactTries \in Nat \ {0}

VARIABLES
    order,          \* the order: updated_at, the latest status, the lines
    changes,        \* the requests, with the order as each has read it
    topics,         \* the request whose event each topic is delivering
    orderRow,       \* orders_fact FINAL
    itemRows,       \* order_items_fact FINAL
    parked,         \* an event was parked
    seeds,          \* the seeding requests, with the order as each has read it
    seeded          \* history: the latest update a completed seeding has copied

seedVars == <<seeds, seeded>>
factVars == <<order, changes, topics, orderRow, itemRows, parked, seedVars>>

\* A line is the update that wrote it; 0 when the order has no such line.
NoLines == [s \in Skus |-> 0]
NoOrder == [stamp |-> 0, status |-> 0, items |-> NoLines]

NoChange == [phase |-> "idle", topic |-> "created", tries |-> 0, read |-> NoOrder]

Topics == {"created", "updated", "status.updated"}

Nobody == "nobody"

\* ReplacingMergeTree(updated_at): the row a query sees after the insertion.
Replacing(row, old) == IF row.stamp >= old.stamp THEN row ELSE old

FactInit ==
    /\ order = NoOrder
    /\ changes = [t \in FactTasks |-> NoChange]
    /\ topics = [x \in Topics |-> Nobody]
    /\ orderRow = NoOrder
    /\ itemRows = [s \in Skus |-> [stamp |-> 0, line |-> 0]]
    /\ parked = FALSE
    /\ seeds = [s \in Seeders |-> [phase |-> "idle", read |-> NoOrder]]
    /\ seeded = 0

Changed(t, topic) ==
    changes' = [changes EXCEPT ![t] = [NoChange EXCEPT !.phase = "changed", !.topic = topic]]

\* Create, and Update, which alone sets updated_at, write all of the lines.
WriteOrder(t, lines) ==
    /\ changes[t].phase = "idle" /\ order.stamp < MaxStamp
    /\ order' = [stamp |-> order.stamp + 1,
                 status |-> IF order.stamp = 0 THEN 1 ELSE order.status,
                 items |-> [s \in Skus |-> IF s \in lines THEN order.stamp + 1 ELSE 0]]
    /\ Changed(t, IF order.stamp = 0 THEN "created" ELSE "updated")
    /\ UNCHANGED <<topics, orderRow, itemRows, parked, seedVars>>

\* AppendStatus leaves the order's own row as it is.
AppendStatus(t) ==
    /\ changes[t].phase = "idle" /\ order.stamp > 0 /\ order.status < MaxStatus
    /\ order' = [order EXCEPT !.status = @ + 1]
    /\ Changed(t, "status.updated")
    /\ UNCHANGED <<topics, orderRow, itemRows, parked, seedVars>>

\* A comment is appended, changed or deleted: nothing analytics keeps.
Comment(t) ==
    /\ changes[t].phase = "idle" /\ order.stamp > 0
    /\ Changed(t, "updated")
    /\ UNCHANGED <<order, topics, orderRow, itemRows, parked, seedVars>>

\* GetByID reads the order's row,
ReadOrder(t) ==
    /\ changes[t].phase = "changed"
    /\ changes' = [changes EXCEPT ![t].phase = "row", ![t].read.stamp = order.stamp]
    /\ UNCHANGED <<order, topics, orderRow, itemRows, parked, seedVars>>

\* then the lines, then the history, each as they are by then.
ReadLines(t) ==
    /\ changes[t].phase = "row"
    /\ changes' = [changes EXCEPT ![t].phase = "lines", ![t].read.items = order.items]
    /\ UNCHANGED <<order, topics, orderRow, itemRows, parked, seedVars>>

ReadHistory(t) ==
    /\ changes[t].phase = "lines"
    /\ changes' = [changes EXCEPT ![t].phase = "publish", ![t].read.status = order.status]
    /\ UNCHANGED <<order, topics, orderRow, itemRows, parked, seedVars>>

\* A topic has one subscriber here, which takes one event after the other.
Deliver(t) ==
    /\ changes[t].phase = "publish" /\ topics[changes[t].topic] = Nobody
    /\ topics' = [topics EXCEPT ![changes[t].topic] = t]
    /\ changes' = [changes EXCEPT ![t].phase = "orders"]
    /\ UNCHANGED <<order, orderRow, itemRows, parked, seedVars>>

UpsertOrders(t) ==
    /\ changes[t].phase = "orders"
    /\ orderRow' = Replacing(changes[t].read, orderRow)
    /\ changes' = [changes EXCEPT ![t].phase = "items"]
    /\ UNCHANGED <<order, topics, itemRows, parked, seedVars>>

\* Only the lines the order has are inserted.
WithLines(read) == [s \in Skus |->
    IF read.items[s] = 0 THEN itemRows[s]
    ELSE Replacing([stamp |-> read.stamp, line |-> read.items[s]], itemRows[s])]

\* The publisher goes on.
UpsertOrderItems(t) ==
    LET read == changes[t].read
    IN  /\ changes[t].phase = "items"
        /\ itemRows' = WithLines(read)
        /\ topics' = [topics EXCEPT ![changes[t].topic] = Nobody]
        /\ changes' = [changes EXCEPT ![t] = NoChange]
        /\ UNCHANGED <<order, orderRow, parked, seedVars>>

\* Mutant of FailIngest: a failure is logged and the event acknowledged.
AcknowledgeFailure(t) ==
    /\ changes[t].phase \in {"orders", "items"}
    /\ changes' = [changes EXCEPT ![t] = NoChange]
    /\ topics' = [topics EXCEPT ![changes[t].topic] = Nobody]
    /\ UNCHANGED <<order, orderRow, itemRows, parked, seedVars>>

\* Either insertion fails, or its answer is lost, which is the same to come: the
\* handler starts over or, for good, its event is parked.
FailIngest(t) ==
    /\ changes[t].phase \in {"orders", "items"}
    /\ IF changes[t].tries + 1 < FactTries
       THEN /\ changes' = [changes EXCEPT ![t].phase = "orders", ![t].tries = @ + 1]
            /\ UNCHANGED <<topics, parked>>
       ELSE /\ changes' = [changes EXCEPT ![t] = NoChange]
            /\ topics' = [topics EXCEPT ![changes[t].topic] = Nobody]
            /\ parked' = TRUE
    /\ UNCHANGED <<order, orderRow, itemRows, seedVars>>

\* A batch of seedOrders: the rows of the orders there are,
SeedOrders(s) ==
    /\ seeds[s].phase = "idle" /\ order.stamp > 0
    /\ seeds' = [seeds EXCEPT ![s].phase = "lines", ![s].read.stamp = order.stamp]
    /\ UNCHANGED <<order, changes, topics, orderRow, itemRows, parked, seeded>>

\* the lines of these orders, then the latest status of each,
SeedLines(s) ==
    /\ seeds[s].phase = "lines"
    /\ seeds' = [seeds EXCEPT ![s].phase = "status", ![s].read.items = order.items]
    /\ UNCHANGED <<order, changes, topics, orderRow, itemRows, parked, seeded>>

SeedStatuses(s) ==
    /\ seeds[s].phase = "status"
    /\ seeds' = [seeds EXCEPT ![s].phase = "orders", ![s].read.status = order.status]
    /\ UNCHANGED <<order, changes, topics, orderRow, itemRows, parked, seeded>>

\* and the two insertions the payloads are built for.
InsertOrders(s) ==
    /\ seeds[s].phase = "orders"
    /\ orderRow' = Replacing(seeds[s].read, orderRow)
    /\ seeds' = [seeds EXCEPT ![s].phase = "items"]
    /\ UNCHANGED <<order, changes, topics, itemRows, parked, seeded>>

InsertOrderItems(s) ==
    LET read == seeds[s].read
    IN  /\ seeds[s].phase = "items"
        /\ itemRows' = WithLines(read)
        /\ seeds' = [seeds EXCEPT ![s] = [phase |-> "idle", read |-> NoOrder]]
        /\ seeded' = IF read.stamp > seeded THEN read.stamp ELSE seeded
        /\ UNCHANGED <<order, changes, topics, orderRow, parked>>

\* Whatever step of a seeding fails, it ends there: what it has inserted stays.
SeedFails(s) ==
    /\ seeds[s].phase # "idle"
    /\ seeds' = [seeds EXCEPT ![s] = [phase |-> "idle", read |-> NoOrder]]
    /\ UNCHANGED <<order, changes, topics, orderRow, itemRows, parked, seeded>>

Seed(s) ==
    \/ SeedOrders(s) \/ SeedLines(s) \/ SeedStatuses(s)
    \/ InsertOrders(s) \/ InsertOrderItems(s) \/ SeedFails(s)

FactNext ==
    \/ \E s \in Seeders : Seed(s)
    \/ \E t \in FactTasks, lines \in SUBSET Skus : WriteOrder(t, lines)
    \/ \E t \in FactTasks : AppendStatus(t) \/ Comment(t)
    \/ \E t \in FactTasks : ReadOrder(t) \/ ReadLines(t) \/ ReadHistory(t) \/ Deliver(t)
    \/ \E t \in FactTasks : UpsertOrders(t) \/ UpsertOrderItems(t) \/ FailIngest(t)

FactSpec == FactInit /\ [][FactNext]_factVars

-----------------------------------------------------------------------------
\* No request is under way.
AtRest == \A t \in FactTasks : changes[t].phase = "idle"

\* The copy is of the latest update, and so is every line the order has. It need
\* not have the latest status, which has no version of its own, nor lose a line the
\* order lost.
CopyIsCurrent ==
    /\ orderRow.stamp = order.stamp
    /\ orderRow.status \in IF order.stamp = 0 THEN {0} ELSE 1..order.status
    /\ \A s \in Skus : order.items[s] # 0 =>
          itemRows[s] = [stamp |-> order.stamp, line |-> order.items[s]]

\* However the events of an order overtake each other, tear or are retried, and
\* whatever a seeding mixes in between, once all events are delivered the copy is
\* current (handleOrderEvent, IngestOrders); and a seeding that has completed since
\* the latest update makes up for every event that was parked (seedOrders).
AnalyticsSafety ==
    ((AtRest /\ ~parked) \/ seeded = order.stamp) => CopyIsCurrent

-----------------------------------------------------------------------------
\* Why AnalyticsSafety holds. What was read first is the stamp, so that lines read
\* with the stamp of the latest update are that update's; somebody is always on the
\* way with the latest update until the copy has it or its event is parked.
Sheet == [stamp : Nat, status : Nat, items : [Skus -> Nat]]
Change == [phase : {"idle", "changed", "row", "lines", "publish", "orders", "items"},
           topic : Topics, tries : Nat, read : Sheet]
Seeding == [phase : {"idle", "lines", "status", "orders", "items"}, read : Sheet]

FactTypes ==
    /\ order \in Sheet /\ orderRow \in Sheet
    /\ itemRows \in [Skus -> [stamp : Nat, line : Nat]]
    /\ changes \in [FactTasks -> Change]
    /\ seeds \in [Seeders -> Seeding]
    /\ parked \in BOOLEAN /\ seeded \in 0..order.stamp
    /\ order.stamp > 0 => order.status > 0

HasStamp(read)  == read.stamp \in 1..order.stamp
HasLines(read)  == read.stamp = order.stamp => read.items = order.items
HasStatus(read) == read.status \in 1..order.status
Whole(read)     == HasStamp(read) /\ HasLines(read) /\ HasStatus(read)

ChangeInv(c) ==
    /\ c.phase # "idle" => order.stamp > 0
    /\ c.phase \in {"row", "lines"} => HasStamp(c.read)
    /\ c.phase = "lines" => HasLines(c.read)
    /\ c.phase \in {"publish", "orders", "items"} => Whole(c.read)
    /\ c.phase = "items" => orderRow.stamp >= c.read.stamp

SeedingInv(e) ==
    /\ e.phase \in {"lines", "status"} => HasStamp(e.read)
    /\ e.phase = "status" => HasLines(e.read)
    /\ e.phase \in {"orders", "items"} => Whole(e.read)
    /\ e.phase = "items" => orderRow.stamp >= e.read.stamp

RowsFit ==
    /\ orderRow.stamp <= order.stamp
    /\ orderRow.status \in IF orderRow.stamp = 0 THEN {0} ELSE 1..order.status
    /\ \A s \in Skus : itemRows[s].stamp <= order.stamp
    /\ \A s \in Skus : itemRows[s].stamp = order.stamp => itemRows[s].line = order.items[s]

\* The request publishes, or will read, the latest update.
Brings(c) == c.phase = "changed" \/ (c.phase # "idle" /\ c.read.stamp = order.stamp)

FactInv ==
    /\ FactTypes /\ RowsFit
    /\ \A t \in FactTasks : ChangeInv(changes[t])
    /\ \A s \in Seeders : SeedingInv(seeds[s])
    /\ parked \/ CopyIsCurrent \/ \E t \in FactTasks : Brings(changes[t])
    /\ seeded = order.stamp => CopyIsCurrent
===============================================================================
