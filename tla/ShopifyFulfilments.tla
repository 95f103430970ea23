-------------------------- MODULE ShopifyFulfilments --------------------------
(***************************************************************************)
(* Shipping marks as Shopify fulfilments.  Two handlers of the bus, one    *)
(* for generated and one for voided marks, each work off one event at a    *)
(* time and are given it again when they fail, until the retries are used  *)
(* up and the event is parked.  Both read the link of the mark first;      *)
(* what they do at Shopify and what they then write about it are separate  *)
(* steps.                                                                  *)
(***************************************************************************)
EXTENDS Integers, Sequences, FiniteSets

CONSTANTS
    ShopOrders,        \* orders at Shopify
    GoodsOf,           \* mark -> the order it ships
    HandlerRetries,    \* retries of the bus
    MaxFulfilments,    \* bound on the fulfilments created
    MaxOrderEdits,     \* bound on the items added to orders
    MaxHandlerCrashes, \* bound on the crashes of the process
    NoMark             \* no mark

ShipMarks == DOMAIN GoodsOf

ASSUME FulfilmentAssumption ==
    /\ GoodsOf \in [ShipMarks -> ShopOrders]
    /\ HandlerRetries \in Nat /\ MaxFulfilments \in Nat
    /\ MaxOrderEdits \in Nat /\ MaxHandlerCrashes \in Nat
    /\ NoMark \notin ShipMarks

VARIABLES
    openOrders,     \* Shopify: orders with a fulfilment order that is not closed
    fulfilments,    \* Shopify: the fulfilments, in the order of their ids
    orderLinks,     \* orders that have a link
    fulfilmentLink, \* mark -> its link
    events,         \* topic -> mark -> how far the event has come
    handler,        \* topic -> its handler
    orderEdits, handlerCrashes,
    broken,         \* marks with a step that took effect and was reported failed,
                    \* or was not recorded
    crossed         \* marks voided before the generated event was settled

fulfilmentVars == <<openOrders, fulfilments, orderLinks, fulfilmentLink, events,
                    handler, orderEdits, handlerCrashes, broken, crossed>>

EventTopics == {"generated", "voided"}
FulfilmentIds == 1..MaxFulfilments
Fulfilment == [mark : ShipMarks, status : {"SUCCESS", "CANCELLED"}]
InForce(f) == fulfilments[f].status = "SUCCESS"
FulfilmentLink == [id : 0..MaxFulfilments, status : {"none", "CREATED", "CANCELLED"}]
NoFulfilmentLink == [id |-> 0, status |-> "none"]

EventStates == {"none", "sent", "settled", "parked", "lost"}
HandlerStages == {"idle", "link", "order", "list", "create", "store",
                  "find", "cancel", "status"}
Handler == [at : HandlerStages, mark : ShipMarks \cup {NoMark},
            tries : 0..HandlerRetries, made : 0..MaxFulfilments]
IdleHandler == [at |-> "idle", mark |-> NoMark, tries |-> 0, made |-> 0]

Entry(topic) == IF topic = "generated" THEN "link" ELSE "find"
MarkAt(topic) == handler[topic].mark

------------------------------------------------------------------------------
(* The bus *)

\* A mark is announced when it exists at the carrier; it may be voided, and
\* that announced, while the first event is still under way.
Announce(topic, m) ==
    /\ events[topic][m] = "none"
    /\ events' = [events EXCEPT ![topic][m] = "sent"]
    /\ UNCHANGED <<openOrders, fulfilments, orderLinks, fulfilmentLink, handler,
                   orderEdits, handlerCrashes, broken, crossed>>

TakeEvent(topic, m) ==
    /\ handler[topic].at = "idle"
    /\ events[topic][m] = "sent"
    /\ handler' = [handler EXCEPT ![topic] =
                     [at |-> Entry(topic), mark |-> m, tries |-> 0, made |-> 0]]
    /\ UNCHANGED <<openOrders, fulfilments, orderLinks, fulfilmentLink, events,
                   orderEdits, handlerCrashes, broken, crossed>>

GoTo(topic, stage) == handler' = [handler EXCEPT ![topic].at = stage]

Settle(topic) ==
    /\ handler' = [handler EXCEPT ![topic] = IdleHandler]
    /\ events' = [events EXCEPT ![topic][MarkAt(topic)] = "settled"]

\* The handler returns an error: it is called again, or the event is parked.
FailHandler(topic) ==
    \/ /\ handler[topic].tries < HandlerRetries
       /\ handler' = [handler EXCEPT ![topic].at = Entry(topic),
                                     ![topic].tries = @ + 1, ![topic].made = 0]
       /\ UNCHANGED events
    \/ /\ handler' = [handler EXCEPT ![topic] = IdleHandler]
       /\ events' = [events EXCEPT ![topic][MarkAt(topic)] = "parked"]

\* The events under way are gone with the process.
CrashHandlers ==
    /\ handlerCrashes < MaxHandlerCrashes
    /\ handlerCrashes' = handlerCrashes + 1
    /\ handler' = [t \in EventTopics |-> IdleHandler]
    /\ events' = [t \in EventTopics |-> [m \in ShipMarks |->
                    IF events[t][m] = "sent" THEN "lost" ELSE events[t][m]]]
    /\ broken' = broken \cup {m \in ShipMarks :
                    \E t \in EventTopics : handler[t].at \in {"store", "status"} /\ MarkAt(t) = m}
    /\ UNCHANGED <<openOrders, fulfilments, orderLinks, fulfilmentLink, orderEdits, crossed>>

------------------------------------------------------------------------------
(* HandleMarkGenerated *)

HasLink(m) == fulfilmentLink[m].id # 0

\* Mutant: whatever has been done for the mark, it is fulfilled.
FulfilAgain(m) == FALSE

\* A link of the mark: it has been fulfilled.
Existing(m) == HasLink(m)

ReadFulfilmentLink ==
    LET m == MarkAt("generated")
    IN  /\ handler["generated"].at = "link"
        /\ \/ Existing(m) /\ Settle("generated")
           \/ ~Existing(m) /\ GoTo("generated", "order") /\ UNCHANGED events
           \/ FailHandler("generated")
        /\ UNCHANGED <<openOrders, fulfilments, orderLinks, fulfilmentLink,
                       orderEdits, handlerCrashes, broken, crossed>>

\* An order without link is not one of Shopify's, or not linked yet: the event
\* is acknowledged.
ReadOrderLink ==
    LET linked == GoodsOf[MarkAt("generated")] \in orderLinks
    IN  /\ handler["generated"].at = "order"
        /\ \/ ~linked /\ Settle("generated")
           \/ linked /\ GoTo("generated", "list") /\ UNCHANGED events
           \/ FailHandler("generated")
        /\ UNCHANGED <<openOrders, fulfilments, orderLinks, fulfilmentLink,
                       orderEdits, handlerCrashes, broken, crossed>>

\* No fulfilment order is open: not fulfillable.
ListFulfilmentOrders ==
    /\ handler["generated"].at = "list"
    /\ \/ /\ GoodsOf[MarkAt("generated")] \in openOrders
          /\ GoTo("generated", "create") /\ UNCHANGED events
       \/ FailHandler("generated")
    /\ UNCHANGED <<openOrders, fulfilments, orderLinks, fulfilmentLink,
                   orderEdits, handlerCrashes, broken, crossed>>

\* fulfillmentCreate: done and answered, done and the answer lost, or refused.
FulfillOrder ==
    LET m == MarkAt("generated")
    IN  /\ handler["generated"].at = "create"
        /\ \/ /\ GoodsOf[m] \in openOrders
              /\ Len(fulfilments) < MaxFulfilments
              /\ fulfilments' = Append(fulfilments, [mark |-> m, status |-> "SUCCESS"])
              /\ openOrders' = openOrders \ {GoodsOf[m]}
              /\ \/ /\ handler' = [handler EXCEPT !["generated"].at = "store",
                                                  !["generated"].made = Len(fulfilments) + 1]
                    /\ UNCHANGED <<events, broken>>
                 \/ FailHandler("generated") /\ broken' = broken \cup {m}
           \/ FailHandler("generated") /\ UNCHANGED <<openOrders, fulfilments, broken>>
        /\ UNCHANGED <<orderLinks, fulfilmentLink, orderEdits, handlerCrashes, crossed>>

\* The link is written, or not, and either may be what the handler is told.
StoreLink ==
    LET m == MarkAt("generated")
        made == [id |-> handler["generated"].made, status |-> "CREATED"]
    IN  /\ handler["generated"].at = "store"
        /\ \/ /\ fulfilmentLink' = [fulfilmentLink EXCEPT ![m] = made]
              /\ Settle("generated") \/ FailHandler("generated")
              /\ UNCHANGED broken
           \/ /\ FailHandler("generated")
              /\ broken' = broken \cup {m}
              /\ UNCHANGED fulfilmentLink
        /\ UNCHANGED <<openOrders, fulfilments, orderLinks, orderEdits,
                       handlerCrashes, crossed>>

------------------------------------------------------------------------------
(* HandleMarkVoided *)

\* Without a link there is nothing to cancel.
FindLink ==
    LET m == MarkAt("voided")
    IN  /\ handler["voided"].at = "find"
        /\ \/ ~HasLink(m) /\ Settle("voided")
           \/ HasLink(m) /\ GoTo("voided", "cancel") /\ UNCHANGED events
           \/ FailHandler("voided")
        /\ crossed' = crossed \cup
                        (IF events["generated"][m] \in {"none", "sent"} THEN {m} ELSE {})
        /\ UNCHANGED <<openOrders, fulfilments, orderLinks, fulfilmentLink,
                       orderEdits, handlerCrashes, broken>>

\* Shopify refuses to cancel a fulfilment twice; a cancelled one leaves the
\* order to be fulfilled again.
CancelFulfillment ==
    LET m == MarkAt("voided")
        f == fulfilmentLink[m].id
    IN  /\ handler["voided"].at = "cancel"
        /\ \/ /\ InForce(f)
              /\ fulfilments' = [fulfilments EXCEPT ![f].status = "CANCELLED"]
              /\ openOrders' = openOrders \cup {GoodsOf[m]}
              /\ \/ GoTo("voided", "status") /\ UNCHANGED events
                 \/ FailHandler("voided")
           \/ FailHandler("voided") /\ UNCHANGED <<openOrders, fulfilments>>
        /\ UNCHANGED <<orderLinks, fulfilmentLink, orderEdits, handlerCrashes, broken, crossed>>

\* UpdateLastKnownStatus; the statement may fail.
UpdateLastKnownStatus ==
    /\ handler["voided"].at = "status"
    /\ \/ /\ fulfilmentLink' = [fulfilmentLink EXCEPT ![MarkAt("voided")].status = "CANCELLED"]
          /\ Settle("voided")
       \/ FailHandler("voided") /\ UNCHANGED fulfilmentLink
    /\ UNCHANGED <<openOrders, fulfilments, orderLinks, orderEdits,
                   handlerCrashes, broken, crossed>>

------------------------------------------------------------------------------
(* Around *)

\* The import links the order.
LinkOrder(o) ==
    /\ o \notin orderLinks
    /\ orderLinks' = orderLinks \cup {o}
    /\ UNCHANGED <<openOrders, fulfilments, fulfilmentLink, events, handler,
                   orderEdits, handlerCrashes, broken, crossed>>

\* An item is added to the order: Shopify opens a fulfilment order for it.
AddItem(o) ==
    /\ orderEdits < MaxOrderEdits
    /\ o \notin openOrders
    /\ openOrders' = openOrders \cup {o}
    /\ orderEdits' = orderEdits + 1
    /\ UNCHANGED <<fulfilments, orderLinks, fulfilmentLink, events, handler,
                   handlerCrashes, broken, crossed>>

FulfilmentInit ==
    /\ openOrders = ShopOrders
    /\ fulfilments = <<>>
    /\ orderLinks = {}
    /\ fulfilmentLink = [m \in ShipMarks |-> NoFulfilmentLink]
    /\ events = [t \in EventTopics |-> [m \in ShipMarks |-> "none"]]
    /\ handler = [t \in EventTopics |-> IdleHandler]
    /\ orderEdits = 0
    /\ handlerCrashes = 0
    /\ broken = {}
    /\ crossed = {}

FulfilmentNext ==
    \/ \E m \in ShipMarks, topic \in EventTopics : Announce(topic, m) \/ TakeEvent(topic, m)
    \/ ReadFulfilmentLink \/ ReadOrderLink \/ ListFulfilmentOrders
    \/ FulfillOrder \/ StoreLink
    \/ FindLink \/ CancelFulfillment \/ UpdateLastKnownStatus
    \/ \E o \in ShopOrders : LinkOrder(o) \/ AddItem(o)
    \/ CrashHandlers

FulfilmentSpec == FulfilmentInit /\ [][FulfilmentNext]_fulfilmentVars

------------------------------------------------------------------------------
(* Properties *)

FulfilmentTypes ==
    /\ openOrders \subseteq ShopOrders
    /\ fulfilments \in Seq(Fulfilment) /\ Len(fulfilments) <= MaxFulfilments
    /\ orderLinks \subseteq ShopOrders
    /\ fulfilmentLink \in [ShipMarks -> FulfilmentLink]
    /\ events \in [EventTopics -> [ShipMarks -> EventStates]]
    /\ handler \in [EventTopics -> Handler]
    /\ orderEdits \in 0..MaxOrderEdits
    /\ handlerCrashes \in 0..MaxHandlerCrashes
    /\ broken \subseteq ShipMarks
    /\ crossed \subseteq ShipMarks

FulfilmentsOf(m) == {f \in DOMAIN fulfilments : fulfilments[f].mark = m}

\* A link leads to a fulfilment of its mark, and one marked cancelled is
\* cancelled at Shopify (shipping/service/service.go).
LinkTellsTruth ==
    \A m \in ShipMarks : HasLink(m) =>
        /\ fulfilmentLink[m].id \in FulfilmentsOf(m)
        /\ fulfilmentLink[m].status = "CANCELLED" => ~InForce(fulfilmentLink[m].id)

\* However often the event is delivered, and whatever becomes of the order, a
\* mark is fulfilled once, except when Shopify's answer or the link was lost
\* (HandleMarkGenerated, service.go:66).
FulfilledOnce ==
    \A m \in ShipMarks \ broken : Cardinality(FulfilmentsOf(m)) <= 1

\* Once the voided event is settled no fulfilment of the mark is in force,
\* except when it overtook the generated event, whose handler then finds
\* nothing of it, or when the link was lost (HandleMarkVoided, service.go:113).
VoidedIsCancelled ==
    \A m \in ShipMarks \ (broken \cup crossed) :
        events["voided"][m] = "settled" => \A f \in FulfilmentsOf(m) : ~InForce(f)

FulfilmentSafety == FulfilmentTypes /\ LinkTellsTruth /\ FulfilledOnce /\ VoidedIsCancelled
==============================================================================
