----------------------------- MODULE ShopifyProofs -----------------------------
(***************************************************************************)
(* What holds of fulfilments and of installations and webhooks, for any    *)
(* marks, orders, shops, deliveries, retries and crashes. The components   *)
(* share no state; each has its own section.                               *)
(***************************************************************************)
EXTENDS ShopifyFulfilments, ShopifyWebhooks, FiniteSetTheorems, TLAPS

------------------------------------------------------------------------------
(* Fulfilments: a mark is fulfilled once and its link tells the truth. The  *)
(* invariant accounts for every fulfilment of a mark whose steps were all   *)
(* recorded: it is the one of its link, or the one the handler is about to  *)
(* link.                                                                    *)

Done == {"settled", "parked", "lost"}

\* The handler of generated marks works for a mark without link from the moment
\* it found none, and at the end for one it has fulfilled.
GeneratedHolds ==
    LET h == handler["generated"]
    IN  /\ h.at \in {"idle", "link", "order", "list", "create", "store"}
        /\ h.at # "idle" => h.mark \in ShipMarks /\ events["generated"][h.mark] = "sent"
        /\ h.at \in {"order", "list", "create", "store"} => ~HasLink(h.mark)
        /\ h.at = "store" => h.made \in FulfilmentsOf(h.mark)

\* The handler of voided marks works for a mark with a link from the moment it
\* found one, and no generated event is to come unless the two crossed.
VoidedHolds ==
    LET h == handler["voided"]
    IN  /\ h.at \in {"idle", "find", "cancel", "status"}
        /\ h.at # "idle" => h.mark \in ShipMarks
        /\ h.at \in {"cancel", "status"} =>
             HasLink(h.mark) /\ (h.mark \notin crossed => events["generated"][h.mark] \in Done)
        /\ h.at = "status" => ~InForce(fulfilmentLink[h.mark].id)

\* The handler is about to link f to m.
AboutToLink(f, m) ==
    /\ handler["generated"].at = "store"
    /\ handler["generated"].mark = m
    /\ handler["generated"].made = f

Accounted ==
    \A m \in ShipMarks \ broken : \A f \in FulfilmentsOf(m) :
        \/ HasLink(m) /\ f = fulfilmentLink[m].id
        \/ AboutToLink(f, m)

VoidedForGood ==
    \A m \in ShipMarks \ (broken \cup crossed) :
        events["voided"][m] = "settled" =>
            /\ events["generated"][m] \in Done
            /\ \A f \in FulfilmentsOf(m) : ~InForce(f)

FulfilmentInv ==
    /\ FulfilmentTypes /\ LinkTellsTruth
    /\ GeneratedHolds /\ VoidedHolds /\ Accounted /\ VoidedForGood

------------------------------------------------------------------------------
(* How the handler of a topic ends, or starts over *)

LEMMA InvTypes ==
    ASSUME FulfilmentInv
    PROVE  /\ openOrders \subseteq ShopOrders
           /\ fulfilments \in Seq(Fulfilment) /\ Len(fulfilments) \in 0..MaxFulfilments
           /\ DOMAIN fulfilments = 1..Len(fulfilments)
           /\ \A f \in DOMAIN fulfilments : fulfilments[f] \in Fulfilment
           /\ orderLinks \subseteq ShopOrders
           /\ fulfilmentLink \in [ShipMarks -> FulfilmentLink]
           /\ events \in [EventTopics -> [ShipMarks -> EventStates]]
           /\ handler \in [EventTopics -> Handler]
           /\ handler["generated"] \in Handler /\ handler["voided"] \in Handler
           /\ orderEdits \in 0..MaxOrderEdits /\ handlerCrashes \in 0..MaxHandlerCrashes
           /\ broken \subseteq ShipMarks /\ crossed \subseteq ShipMarks
<1>1. FulfilmentTypes /\ MaxFulfilments \in Nat
  BY FulfilmentAssumption DEF FulfilmentInv
<1>2. fulfilments \in Seq(Fulfilment) /\ Len(fulfilments) <= MaxFulfilments
  BY <1>1 DEF FulfilmentTypes
<1>3. /\ Len(fulfilments) \in 0..MaxFulfilments
      /\ DOMAIN fulfilments = 1..Len(fulfilments)
      /\ \A f \in DOMAIN fulfilments : fulfilments[f] \in Fulfilment
  BY <1>1, <1>2
<1> QED BY <1>1, <1>2, <1>3 DEF FulfilmentTypes, EventTopics

LEMMA IdleHandlerIs ==
    /\ IdleHandler \in Handler /\ IdleHandler.at = "idle"
    /\ Entry("generated") = "link" /\ Entry("voided") = "find"
    /\ "generated" \in EventTopics /\ "voided" \in EventTopics
    /\ \A x \in EventTopics : x = "generated" \/ x = "voided"
BY FulfilmentAssumption DEF IdleHandler, Handler, HandlerStages, Entry, EventTopics

\* Its event is settled or parked, or is given to it again.
Ended(topic) ==
    /\ handler' \in [EventTopics -> Handler]
    /\ events' \in [EventTopics -> [ShipMarks -> EventStates]]
    /\ \A x \in EventTopics : x # topic => handler'[x] = handler[x] /\ events'[x] = events[x]
    /\ \A m \in ShipMarks : m # MarkAt(topic) => events'[topic][m] = events[topic][m]
    /\ \/ /\ handler'[topic].at = "idle"
          /\ events'[topic][MarkAt(topic)] \in {"settled", "parked"}
       \/ /\ handler'[topic].at = Entry(topic) /\ handler'[topic].mark = MarkAt(topic)
          /\ events'[topic][MarkAt(topic)] = events[topic][MarkAt(topic)]

LEMMA EventMarked ==
    ASSUME FulfilmentInv, NEW topic \in EventTopics, MarkAt(topic) \in ShipMarks,
           NEW e \in EventStates,
           events' = [events EXCEPT ![topic][MarkAt(topic)] = e]
    PROVE  /\ events' \in [EventTopics -> [ShipMarks -> EventStates]]
           /\ \A x \in EventTopics : x # topic => events'[x] = events[x]
           /\ \A m \in ShipMarks : m # MarkAt(topic) => events'[topic][m] = events[topic][m]
           /\ events'[topic][MarkAt(topic)] = e
BY InvTypes

LEMMA SettleEnds ==
    ASSUME FulfilmentInv, NEW topic \in EventTopics, MarkAt(topic) \in ShipMarks,
           Settle(topic)
    PROVE  Ended(topic) /\ events'[topic][MarkAt(topic)] = "settled"
<1>1. "settled" \in EventStates
  BY DEF EventStates
<1>2. /\ handler' \in [EventTopics -> Handler] /\ handler'[topic] = IdleHandler
      /\ \A x \in EventTopics : x # topic => handler'[x] = handler[x]
  BY InvTypes, IdleHandlerIs DEF Settle
<1> QED BY <1>1, <1>2, EventMarked, IdleHandlerIs DEF Settle, Ended

LEMMA FailEnds ==
    ASSUME FulfilmentInv, NEW topic \in EventTopics, MarkAt(topic) \in ShipMarks,
           FailHandler(topic)
    PROVE  /\ Ended(topic)
           /\ events'[topic][MarkAt(topic)] \in {"parked", events[topic][MarkAt(topic)]}
<1>1. CASE /\ handler' = [handler EXCEPT ![topic] = IdleHandler]
           /\ events' = [events EXCEPT ![topic][MarkAt(topic)] = "parked"]
  <2>1. "parked" \in EventStates
    BY DEF EventStates
  <2>2. /\ handler' \in [EventTopics -> Handler] /\ handler'[topic] = IdleHandler
        /\ \A x \in EventTopics : x # topic => handler'[x] = handler[x]
    BY <1>1, InvTypes, IdleHandlerIs
  <2> QED BY <1>1, <2>1, <2>2, EventMarked, IdleHandlerIs DEF Ended
<1>2. CASE /\ handler[topic].tries < HandlerRetries
           /\ handler' = [handler EXCEPT ![topic].at = Entry(topic),
                                         ![topic].tries = @ + 1, ![topic].made = 0]
           /\ UNCHANGED events
  <2>1. handler[topic] \in Handler /\ HandlerRetries \in Nat /\ MaxFulfilments \in Nat
    BY InvTypes, FulfilmentAssumption
  <2>2. PICK h : h = [handler[topic] EXCEPT !.at = Entry(topic), !.tries = @ + 1, !.made = 0]
    OBVIOUS
  <2>3. Entry(topic) \in HandlerStages /\ handler[topic].tries + 1 \in 0..HandlerRetries
        /\ 0 \in 0..MaxFulfilments
    BY <1>2, <2>1, IdleHandlerIs DEF HandlerStages, Handler
  <2>4. h \in Handler /\ h.at = Entry(topic) /\ h.mark = MarkAt(topic)
    BY <2>1, <2>2, <2>3 DEF Handler, MarkAt
  <2>5. handler' = [handler EXCEPT ![topic] = h]
    BY <1>2, <2>2
  <2>6. /\ handler' \in [EventTopics -> Handler] /\ handler'[topic] = h
        /\ \A x \in EventTopics : x # topic => handler'[x] = handler[x]
    BY <2>4, <2>5, InvTypes
  <2> QED BY <1>2, <2>4, <2>6, InvTypes DEF Ended
<1> QED BY <1>1, <1>2 DEF FailHandler

\* The handler goes on with its mark.
GoneTo(topic, stage) ==
    /\ handler' \in [EventTopics -> Handler]
    /\ handler'[topic].at = stage /\ handler'[topic].mark = MarkAt(topic)
    /\ \A x \in EventTopics : x # topic => handler'[x] = handler[x]

LEMMA GoToGoes ==
    ASSUME FulfilmentInv, NEW topic \in EventTopics, NEW stage \in HandlerStages,
           GoTo(topic, stage)
    PROVE  GoneTo(topic, stage)
<1>1. PICK h : h = [handler[topic] EXCEPT !.at = stage]
  OBVIOUS
<1>2. h \in Handler /\ h.at = stage /\ h.mark = MarkAt(topic)
  BY <1>1, InvTypes DEF Handler, MarkAt
<1>3. handler' = [handler EXCEPT ![topic] = h]
  BY <1>1 DEF GoTo
<1> QED BY <1>2, <1>3, InvTypes DEF GoneTo

\* The counters and the orders of Shopify stay within their types.
Around ==
    /\ openOrders' \subseteq ShopOrders /\ orderLinks' \subseteq ShopOrders
    /\ orderEdits' \in 0..MaxOrderEdits /\ handlerCrashes' \in 0..MaxHandlerCrashes
    /\ broken' \subseteq ShipMarks /\ crossed' \subseteq ShipMarks
    /\ broken \subseteq broken' /\ crossed \subseteq crossed'

LEMMA AroundKept ==
    ASSUME FulfilmentInv,
           openOrders' = openOrders, orderLinks' = orderLinks, orderEdits' = orderEdits,
           handlerCrashes' = handlerCrashes, broken' = broken, crossed' = crossed
    PROVE  Around
BY InvTypes DEF Around

\* Nothing at Shopify and no link changes.
Untouched == fulfilments' = fulfilments /\ fulfilmentLink' = fulfilmentLink

LEMMA UntouchedTypes ==
    ASSUME FulfilmentInv, Untouched, Around,
           handler' \in [EventTopics -> Handler],
           events' \in [EventTopics -> [ShipMarks -> EventStates]]
    PROVE  /\ FulfilmentTypes' /\ LinkTellsTruth'
           /\ \A m \in ShipMarks : FulfilmentsOf(m)' = FulfilmentsOf(m)
           /\ \A m \in ShipMarks : HasLink(m)' = HasLink(m)
<1>1. FulfilmentTypes'
  BY DEF FulfilmentInv, FulfilmentTypes, Untouched, Around
<1>2. \A m \in ShipMarks : FulfilmentsOf(m)' = FulfilmentsOf(m) /\ HasLink(m)' = HasLink(m)
  BY DEF Untouched, FulfilmentsOf, HasLink
<1>3. LinkTellsTruth'
  BY <1>2 DEF FulfilmentInv, LinkTellsTruth, Untouched, InForce
<1> QED BY <1>1, <1>2, <1>3

------------------------------------------------------------------------------
(* The handler of generated marks *)

\* It ends, and a fulfilment it has not linked belongs to a broken mark.
LEMMA GeneratedEnds ==
    ASSUME FulfilmentInv, Untouched, Around, Ended("generated"),
           handler["generated"].at # "idle",
           handler["generated"].at = "store" => MarkAt("generated") \in broken',
           crossed' = crossed
    PROVE  FulfilmentInv'
<1> DEFINE m0 == MarkAt("generated")
<1>1. /\ FulfilmentTypes' /\ LinkTellsTruth'
      /\ \A m \in ShipMarks : FulfilmentsOf(m)' = FulfilmentsOf(m) /\ HasLink(m)' = HasLink(m)
  BY UntouchedTypes DEF Ended
<1>2. /\ m0 \in ShipMarks /\ events["generated"][m0] = "sent"
      /\ handler'["voided"] = handler["voided"] /\ events'["voided"] = events["voided"]
  BY IdleHandlerIs DEF FulfilmentInv, GeneratedHolds, Ended, MarkAt
<1>3. \A m \in ShipMarks : events["generated"][m] \in Done => events'["generated"][m] \in Done
  BY <1>2 DEF Ended, Done
<1>4. GeneratedHolds'
  <2>1. \/ handler'["generated"].at = "idle"
        \/ /\ handler'["generated"].at = "link" /\ handler'["generated"].mark = m0
           /\ events'["generated"][m0] = "sent"
    BY <1>2, IdleHandlerIs DEF Ended
  <2> QED BY <1>2, <2>1 DEF GeneratedHolds
<1>5. VoidedHolds'
  BY <1>1, <1>2, <1>3 DEF FulfilmentInv, VoidedHolds, InForce, Untouched
<1>6. Accounted'
  <2>1. \A m \in ShipMarks \ broken' : \A f \in FulfilmentsOf(m) : ~AboutToLink(f, m)
    BY DEF AboutToLink, MarkAt
  <2>2. ASSUME NEW m \in ShipMarks \ broken', NEW f \in FulfilmentsOf(m)
        PROVE  HasLink(m) /\ f = fulfilmentLink[m].id
    BY <2>1, <2>2 DEF FulfilmentInv, Accounted, Around
  <2> QED BY <1>1, <2>2 DEF Accounted, Untouched
<1>7. VoidedForGood'
  BY <1>1, <1>2, <1>3 DEF FulfilmentInv, VoidedForGood, Around, InForce, Untouched
<1> QED BY <1>1, <1>4, <1>5, <1>6, <1>7 DEF FulfilmentInv

\* It goes on to find, or having found, that its mark has no link.
LEMMA GeneratedGoes ==
    ASSUME FulfilmentInv, Untouched, Around, NEW stage \in {"order", "list", "create"},
           GoneTo("generated", stage), events' = events, crossed' = crossed,
           handler["generated"].at \in {"link", "order", "list"},
           ~HasLink(MarkAt("generated"))
    PROVE  FulfilmentInv'
<1>1. /\ FulfilmentTypes' /\ LinkTellsTruth'
      /\ \A m \in ShipMarks : FulfilmentsOf(m)' = FulfilmentsOf(m) /\ HasLink(m)' = HasLink(m)
  BY UntouchedTypes, InvTypes DEF GoneTo
<1>2. MarkAt("generated") \in ShipMarks /\ handler'["voided"] = handler["voided"]
  BY IdleHandlerIs DEF FulfilmentInv, GeneratedHolds, GoneTo, MarkAt
<1>3. GeneratedHolds'
  BY <1>1, <1>2 DEF FulfilmentInv, GeneratedHolds, GoneTo, MarkAt
<1>4. VoidedHolds'
  BY <1>1, <1>2 DEF FulfilmentInv, VoidedHolds, InForce, Untouched
<1>5. Accounted'
  <2>1. \A m \in ShipMarks : \A f \in FulfilmentsOf(m) : ~AboutToLink(f, m)
    BY DEF AboutToLink
  <2> QED BY <1>1, <2>1 DEF FulfilmentInv, Accounted, Untouched, Around
<1>6. VoidedForGood'
  BY <1>1 DEF FulfilmentInv, VoidedForGood, Around, InForce, Untouched
<1> QED BY <1>1, <1>3, <1>4, <1>5, <1>6 DEF FulfilmentInv

LEMMA GeneratedMark ==
    ASSUME FulfilmentInv, handler["generated"].at # "idle"
    PROVE  MarkAt("generated") \in ShipMarks
BY DEF FulfilmentInv, GeneratedHolds, MarkAt

LEMMA VoidedMark ==
    ASSUME FulfilmentInv, handler["voided"].at # "idle"
    PROVE  MarkAt("voided") \in ShipMarks
BY DEF FulfilmentInv, VoidedHolds, MarkAt

LEMMA ReadsKeep ==
    ASSUME FulfilmentInv, ReadFulfilmentLink \/ ReadOrderLink \/ ListFulfilmentOrders
    PROVE  FulfilmentInv'
<1>1. /\ Untouched /\ crossed' = crossed
      /\ handler["generated"].at \in {"link", "order", "list"}
  BY DEF ReadFulfilmentLink, ReadOrderLink, ListFulfilmentOrders, Untouched
<1>2. Around
  BY AroundKept DEF ReadFulfilmentLink, ReadOrderLink, ListFulfilmentOrders
<1>3. MarkAt("generated") \in ShipMarks /\ "generated" \in EventTopics
  BY <1>1, GeneratedMark, IdleHandlerIs
<1>4. CASE Settle("generated") \/ FailHandler("generated")
  <2>1. Ended("generated")
    BY <1>3, <1>4, SettleEnds, FailEnds
  <2> QED BY <1>1, <1>2, <2>1, GeneratedEnds
<1>5. ASSUME NEW stage \in {"order", "list", "create"},
             GoTo("generated", stage), UNCHANGED events, ~HasLink(MarkAt("generated"))
      PROVE  FulfilmentInv'
  <2>1. GoneTo("generated", stage)
    BY <1>3, <1>5, GoToGoes DEF HandlerStages
  <2> QED BY <1>1, <1>2, <1>5, <2>1, GeneratedGoes
<1>6. handler["generated"].at \in {"order", "list"} => ~HasLink(MarkAt("generated"))
  BY DEF FulfilmentInv, GeneratedHolds, MarkAt
<1> QED
  BY <1>4, <1>5, <1>6 DEF ReadFulfilmentLink, ReadOrderLink, ListFulfilmentOrders, Existing

\* Shopify has one fulfilment more, of a mark that had none that counts.
LEMMA Appended ==
    ASSUME FulfilmentInv, NEW m \in ShipMarks, Len(fulfilments) < MaxFulfilments,
           fulfilments' = Append(fulfilments, [mark |-> m, status |-> "SUCCESS"])
    PROVE  /\ fulfilments' \in Seq(Fulfilment) /\ Len(fulfilments') <= MaxFulfilments
           /\ Len(fulfilments) + 1 \in 1..MaxFulfilments
           /\ DOMAIN fulfilments' = DOMAIN fulfilments \cup {Len(fulfilments) + 1}
           /\ Len(fulfilments) + 1 \notin DOMAIN fulfilments
           /\ fulfilments'[Len(fulfilments) + 1].mark = m
           /\ \A f \in DOMAIN fulfilments : fulfilments'[f] = fulfilments[f]
<1>1. PICK x : x = [mark |-> m, status |-> "SUCCESS"]
  OBVIOUS
<1>2. x \in Fulfilment /\ x.mark = m
  BY <1>1 DEF Fulfilment
<1>3. MaxFulfilments \in Nat /\ Len(fulfilments) \in Nat
  BY FulfilmentAssumption, InvTypes
<1> QED BY <1>1, <1>2, <1>3, InvTypes

LEMMA FulfillKeeps ==
    ASSUME FulfilmentInv, FulfillOrder
    PROVE  FulfilmentInv'
<1>0. PICK m0, n : m0 = MarkAt("generated") /\ n = Len(fulfilments) + 1
  OBVIOUS
<1>1. /\ handler["generated"].at = "create" /\ m0 \in ShipMarks /\ ~HasLink(m0)
      /\ handler["generated"].mark = m0
      /\ events["generated"][m0] = "sent"
      /\ fulfilmentLink' = fulfilmentLink /\ crossed' = crossed /\ orderLinks' = orderLinks
      /\ orderEdits' = orderEdits /\ handlerCrashes' = handlerCrashes
  BY <1>0, GeneratedMark DEF FulfillOrder, FulfilmentInv, GeneratedHolds, MarkAt
<1>2. CASE FailHandler("generated") /\ UNCHANGED <<openOrders, fulfilments, broken>>
  <2>1. Ended("generated")
    BY <1>0, <1>1, <1>2, FailEnds, IdleHandlerIs
  <2> QED
    BY <1>0, <1>1, <1>2, <2>1, AroundKept, GeneratedEnds DEF Untouched
<1>3. CASE /\ GoodsOf[m0] \in openOrders
           /\ Len(fulfilments) < MaxFulfilments
           /\ fulfilments' = Append(fulfilments, [mark |-> m0, status |-> "SUCCESS"])
           /\ openOrders' = openOrders \ {GoodsOf[m0]}
           /\ \/ /\ handler' = [handler EXCEPT !["generated"].at = "store",
                                               !["generated"].made = n]
                 /\ UNCHANGED <<events, broken>>
              \/ FailHandler("generated") /\ broken' = broken \cup {m0}
  <2>1. /\ fulfilments' \in Seq(Fulfilment) /\ Len(fulfilments') <= MaxFulfilments
        /\ n \in 1..MaxFulfilments
        /\ DOMAIN fulfilments' = DOMAIN fulfilments \cup {n} /\ n \notin DOMAIN fulfilments
        /\ fulfilments'[n].mark = m0
        /\ \A f \in DOMAIN fulfilments : fulfilments'[f] = fulfilments[f]
    BY <1>0, <1>1, <1>3, Appended
  <2>2. /\ \A m \in ShipMarks : m # m0 => FulfilmentsOf(m)' = FulfilmentsOf(m)
        /\ FulfilmentsOf(m0)' = FulfilmentsOf(m0) \cup {n}
        /\ \A m \in ShipMarks : HasLink(m)' = HasLink(m)
        /\ \A f \in DOMAIN fulfilments : InForce(f)' = InForce(f)
    BY <1>1, <2>1 DEF FulfilmentsOf, HasLink, InForce
  <2>3. LinkTellsTruth'
    <3>1. \A m \in ShipMarks : FulfilmentsOf(m) \subseteq DOMAIN fulfilments
      BY DEF FulfilmentsOf
    <3>2. \A m \in ShipMarks : HasLink(m) =>
            /\ fulfilmentLink[m].id \in FulfilmentsOf(m)'
            /\ fulfilmentLink[m].status = "CANCELLED" => ~InForce(fulfilmentLink[m].id)'
      <4> SUFFICES ASSUME NEW m \in ShipMarks, HasLink(m)
                   PROVE  /\ fulfilmentLink[m].id \in FulfilmentsOf(m)'
                          /\ fulfilmentLink[m].status = "CANCELLED" =>
                               fulfilments'[fulfilmentLink[m].id].status # "SUCCESS"
        BY <1>1 DEF InForce
      <4>1. fulfilmentLink[m].id \in FulfilmentsOf(m)
            /\ (fulfilmentLink[m].status = "CANCELLED" =>
                  fulfilments[fulfilmentLink[m].id].status # "SUCCESS")
        BY DEF FulfilmentInv, LinkTellsTruth, InForce
      <4> QED BY <2>1, <2>2, <3>1, <4>1
    <3> QED BY <1>1, <2>2, <3>2 DEF LinkTellsTruth, InForce
  <2>4. /\ openOrders' \subseteq ShopOrders /\ broken' \subseteq ShipMarks
        /\ broken \subseteq broken'
    BY <1>1, <1>3, InvTypes
  <2>5. /\ handler' \in [EventTopics -> Handler]
        /\ events' \in [EventTopics -> [ShipMarks -> EventStates]]
        /\ handler'["voided"] = handler["voided"] /\ events'["voided"] = events["voided"]
        /\ \A m \in ShipMarks : events["generated"][m] \in Done => events'["generated"][m] \in Done
        /\ \/ /\ handler'["generated"].at = "store" /\ handler'["generated"].mark = m0
              /\ handler'["generated"].made = n /\ events' = events /\ broken' = broken
           \/ /\ handler'["generated"].at = "idle" /\ m0 \in broken'
           \/ /\ handler'["generated"].at = "link" /\ handler'["generated"].mark = m0
              /\ events'["generated"][m0] = "sent" /\ m0 \in broken'
    <3>1. CASE FailHandler("generated") /\ broken' = broken \cup {m0}
      <4>1. Ended("generated")
        BY <1>0, <1>1, <3>1, FailEnds, IdleHandlerIs
      <4> QED BY <1>0, <1>1, <3>1, <4>1, IdleHandlerIs DEF Ended, Done
    <3>2. CASE /\ handler' = [handler EXCEPT !["generated"].at = "store",
                                             !["generated"].made = n]
               /\ UNCHANGED <<events, broken>>
      <4>1. PICK h : h = [handler["generated"] EXCEPT !.at = "store", !.made = n]
        OBVIOUS
      <4>2. n \in 0..MaxFulfilments /\ handler["generated"] \in Handler /\ "store" \in HandlerStages
        BY <2>1, FulfilmentAssumption, InvTypes DEF HandlerStages
      <4>3. h \in Handler /\ h.at = "store" /\ h.mark = m0 /\ h.made = n
        BY <1>1, <4>1, <4>2 DEF Handler
      <4>4. handler' = [handler EXCEPT !["generated"] = h]
        BY <3>2, <4>1
      <4>5. /\ handler' \in [EventTopics -> Handler] /\ handler'["generated"] = h
            /\ handler'["voided"] = handler["voided"]
        BY <4>3, <4>4, InvTypes, IdleHandlerIs
      <4> QED BY <3>2, <4>3, <4>5, InvTypes
    <3> QED BY <1>3, <3>1, <3>2
  <2>6. FulfilmentTypes'
    BY <1>0, <1>1, <2>1, <2>4, <2>5, InvTypes DEF FulfilmentTypes
  <2>7. GeneratedHolds'
    BY <1>1, <2>2, <2>5 DEF GeneratedHolds
  <2>8. VoidedHolds'
    <3>1. handler["voided"].at = "status" =>
            /\ fulfilmentLink[handler["voided"].mark].id \in DOMAIN fulfilments
            /\ ~InForce(fulfilmentLink[handler["voided"].mark].id)
      BY DEF FulfilmentInv, VoidedHolds, LinkTellsTruth, FulfilmentsOf
    <3>2. handler["voided"].at = "status" =>
            fulfilments'[fulfilmentLink[handler["voided"].mark].id].status # "SUCCESS"
      BY <2>1, <3>1 DEF InForce
    <3> QED BY <1>1, <2>2, <2>5, <3>2 DEF FulfilmentInv, VoidedHolds, InForce
  <2>9. Accounted'
    <3>1. \A m \in ShipMarks : \A f \in FulfilmentsOf(m) : ~AboutToLink(f, m)
      BY <1>1 DEF AboutToLink
    <3>2. \A m \in ShipMarks \ broken : \A f \in FulfilmentsOf(m) :
            HasLink(m) /\ f = fulfilmentLink[m].id
      BY <3>1 DEF FulfilmentInv, Accounted
    <3>3. m0 \notin broken => FulfilmentsOf(m0) = {}
      BY <1>1, <3>2
    <3>4. m0 \notin broken' => AboutToLink(n, m0)'
      <4> SUFFICES ASSUME m0 \notin broken'
                   PROVE  /\ handler'["generated"].at = "store"
                          /\ handler'["generated"].mark = m0
                          /\ handler'["generated"].made = n
        BY <2>5 DEF AboutToLink
      <4> QED BY <2>5
    <3> QED BY <1>1, <2>2, <2>4, <2>5, <3>2, <3>3 DEF Accounted, AboutToLink
  <2>10. VoidedForGood'
    <3>1. \A m \in ShipMarks : FulfilmentsOf(m) \subseteq DOMAIN fulfilments
      BY DEF FulfilmentsOf
    <3> SUFFICES ASSUME NEW m \in ShipMarks \ (broken' \cup crossed'),
                        events'["voided"][m] = "settled"
                 PROVE  /\ events'["generated"][m] \in Done
                        /\ \A f \in FulfilmentsOf(m)' : fulfilments'[f].status # "SUCCESS"
      BY DEF VoidedForGood, InForce
    <3>2. /\ events["generated"][m] \in Done
          /\ \A f \in FulfilmentsOf(m) : fulfilments[f].status # "SUCCESS"
      BY <1>1, <2>4, <2>5 DEF FulfilmentInv, VoidedForGood, InForce
    <3>3. m # m0
      BY <1>1, <3>2 DEF Done
    <3> QED BY <2>1, <2>2, <2>5, <3>1, <3>2, <3>3
  <2> QED BY <2>3, <2>6, <2>7, <2>8, <2>9, <2>10 DEF FulfilmentInv
<1> QED BY <1>0, <1>2, <1>3 DEF FulfillOrder

\* A link is written about m, of a fulfilment of m.
Linked(m, link) ==
    /\ fulfilmentLink' = [fulfilmentLink EXCEPT ![m] = link]
    /\ link \in FulfilmentLink /\ link.id # 0

LEMMA LinkedTypes ==
    ASSUME FulfilmentInv, NEW m \in ShipMarks, NEW link \in FulfilmentLink,
           Linked(m, link), Around, fulfilments' = fulfilments,
           link.id \in FulfilmentsOf(m),
           link.status = "CANCELLED" => ~InForce(link.id),
           handler' \in [EventTopics -> Handler],
           events' \in [EventTopics -> [ShipMarks -> EventStates]]
    PROVE  /\ FulfilmentTypes' /\ LinkTellsTruth'
           /\ fulfilmentLink'[m] = link
           /\ \A k \in ShipMarks : k # m => fulfilmentLink'[k] = fulfilmentLink[k]
           /\ \A k \in ShipMarks : FulfilmentsOf(k)' = FulfilmentsOf(k)
           /\ \A f : InForce(f)' = InForce(f)
<1>1. /\ fulfilmentLink' \in [ShipMarks -> FulfilmentLink]
      /\ fulfilmentLink'[m] = link
      /\ \A k \in ShipMarks : k # m => fulfilmentLink'[k] = fulfilmentLink[k]
  BY InvTypes DEF Linked
<1>2. FulfilmentTypes'
  BY <1>1 DEF FulfilmentInv, FulfilmentTypes, Around
<1>3. /\ \A k \in ShipMarks : FulfilmentsOf(k)' = FulfilmentsOf(k)
      /\ \A f : InForce(f)' = InForce(f)
  BY DEF FulfilmentsOf, InForce
<1>4. LinkTellsTruth'
  <2> SUFFICES ASSUME NEW k \in ShipMarks, fulfilmentLink'[k].id # 0
               PROVE  /\ fulfilmentLink'[k].id \in FulfilmentsOf(k)'
                      /\ fulfilmentLink'[k].status = "CANCELLED" =>
                           fulfilments[fulfilmentLink'[k].id].status # "SUCCESS"
    BY DEF LinkTellsTruth, HasLink, InForce
  <2>1. CASE k = m
    BY <1>1, <1>3, <2>1 DEF InForce
  <2>2. CASE k # m
    BY <1>1, <1>3, <2>2 DEF FulfilmentInv, LinkTellsTruth, HasLink, InForce
  <2> QED BY <2>1, <2>2
<1> QED BY <1>1, <1>2, <1>3, <1>4

LEMMA StoreKeeps ==
    ASSUME FulfilmentInv, StoreLink
    PROVE  FulfilmentInv'
<1>1. PICK m0, link : /\ m0 = MarkAt("generated")
                      /\ link = [id |-> handler["generated"].made, status |-> "CREATED"]
  OBVIOUS
<1>2. /\ handler["generated"].at = "store" /\ m0 \in ShipMarks /\ ~HasLink(m0)
      /\ handler["generated"].mark = m0 /\ handler["generated"].made \in FulfilmentsOf(m0)
      /\ events["generated"][m0] = "sent"
      /\ fulfilments' = fulfilments /\ crossed' = crossed
  BY <1>1, GeneratedMark DEF StoreLink, FulfilmentInv, GeneratedHolds, MarkAt
<1>3. CASE FailHandler("generated") /\ broken' = broken \cup {m0} /\ UNCHANGED fulfilmentLink
  <2>1. Ended("generated")
    BY <1>1, <1>2, <1>3, FailEnds, IdleHandlerIs
  <2>2. Around
    BY <1>2, <1>3, InvTypes DEF Around, StoreLink
  <2> QED BY <1>1, <1>2, <1>3, <2>1, <2>2, GeneratedEnds DEF Untouched
<1>4. CASE /\ fulfilmentLink' = [fulfilmentLink EXCEPT ![m0] = link]
           /\ Settle("generated") \/ FailHandler("generated")
           /\ UNCHANGED broken
  <2>1. Ended("generated")
    BY <1>1, <1>2, <1>4, SettleEnds, FailEnds, IdleHandlerIs
  <2>2. Around
    BY <1>2, <1>4, InvTypes DEF Around, StoreLink
  <2>3. /\ link \in FulfilmentLink /\ link.id = handler["generated"].made
        /\ link.id # 0 /\ link.status = "CREATED"
    <3>1. handler["generated"].made \in 1..Len(fulfilments)
      BY <1>2, InvTypes DEF FulfilmentsOf
    <3>2. handler["generated"].made \in 0..MaxFulfilments /\ handler["generated"].made # 0
      <4>1. Len(fulfilments) \in 0..MaxFulfilments /\ MaxFulfilments \in Nat
        BY InvTypes, FulfilmentAssumption
      <4> QED BY <3>1, <4>1
    <3> QED BY <1>1, <3>2 DEF FulfilmentLink
  <2>4. /\ FulfilmentTypes' /\ LinkTellsTruth'
        /\ fulfilmentLink'[m0] = link
        /\ \A k \in ShipMarks : k # m0 => fulfilmentLink'[k] = fulfilmentLink[k]
        /\ \A k \in ShipMarks : FulfilmentsOf(k)' = FulfilmentsOf(k)
        /\ \A f : InForce(f)' = InForce(f)
    BY <1>2, <1>4, <2>1, <2>2, <2>3, LinkedTypes DEF Linked, Ended
  <2>5. /\ handler'["voided"] = handler["voided"] /\ events'["voided"] = events["voided"]
        /\ \A m \in ShipMarks : events["generated"][m] \in Done => events'["generated"][m] \in Done
        /\ \/ handler'["generated"].at = "idle"
           \/ /\ handler'["generated"].at = "link" /\ handler'["generated"].mark = m0
              /\ events'["generated"][m0] = "sent"
    BY <1>1, <1>2, <2>1, IdleHandlerIs DEF Ended, Done
  <2>6. GeneratedHolds'
    BY <1>2, <2>5 DEF GeneratedHolds
  <2>7. VoidedHolds'
    <3>1. handler["voided"].at \in {"cancel", "status"} => handler["voided"].mark # m0
      BY <1>2 DEF FulfilmentInv, VoidedHolds
    <3>2. /\ handler["voided"].at \in {"idle", "find", "cancel", "status"}
          /\ handler["voided"].at # "idle" => handler["voided"].mark \in ShipMarks
      BY DEF FulfilmentInv, VoidedHolds
    <3>3. handler["voided"].at \in {"cancel", "status"} =>
            fulfilmentLink'[handler["voided"].mark] = fulfilmentLink[handler["voided"].mark]
      BY <2>4, <3>1, <3>2
    <3> QED BY <1>2, <2>4, <2>5, <3>2, <3>3
            DEF FulfilmentInv, VoidedHolds, HasLink, InForce
  <2>8. Accounted'
    <3> SUFFICES ASSUME NEW m \in ShipMarks \ broken, NEW f \in FulfilmentsOf(m)
                 PROVE  fulfilmentLink'[m].id # 0 /\ f = fulfilmentLink'[m].id
      BY <1>4, <2>4 DEF Accounted, HasLink
    <3>1. CASE m = m0
      BY <1>2, <2>3, <2>4, <3>1 DEF FulfilmentInv, Accounted, AboutToLink
    <3>2. CASE m # m0
      BY <1>2, <2>4, <3>2 DEF FulfilmentInv, Accounted, AboutToLink, HasLink
    <3> QED BY <3>1, <3>2
  <2>9. VoidedForGood'
    BY <1>2, <1>4, <2>4, <2>5 DEF FulfilmentInv, VoidedForGood
  <2> QED BY <2>4, <2>6, <2>7, <2>8, <2>9 DEF FulfilmentInv
<1> QED BY <1>1, <1>3, <1>4 DEF StoreLink

------------------------------------------------------------------------------
(* The handler of voided marks *)

\* What is known of the handler of generated marks does not depend on it.
LEMMA GeneratedUndisturbed ==
    ASSUME FulfilmentInv,
           handler'["generated"] = handler["generated"],
           events'["generated"] = events["generated"],
           \A m \in ShipMarks : FulfilmentsOf(m)' = FulfilmentsOf(m),
           \A m \in ShipMarks : fulfilmentLink'[m].id = fulfilmentLink[m].id,
           broken \subseteq broken'
    PROVE  GeneratedHolds' /\ Accounted'
<1>1. GeneratedHolds'
  BY DEF FulfilmentInv, GeneratedHolds, HasLink
<1>2. Accounted'
  BY DEF FulfilmentInv, Accounted, HasLink, AboutToLink
<1> QED BY <1>1, <1>2

\* It ends without a change at Shopify: if its event is settled, the mark has no
\* fulfilment in force and none is to come.
LEMMA VoidedEnds ==
    ASSUME FulfilmentInv, Untouched, Around, Ended("voided"),
           handler["voided"].at # "idle", broken' = broken,
           events'["voided"][MarkAt("voided")] = "settled" /\
             MarkAt("voided") \notin broken \cup crossed' =>
               /\ events["generated"][MarkAt("voided")] \in Done
               /\ \A f \in FulfilmentsOf(MarkAt("voided")) : ~InForce(f)
    PROVE  FulfilmentInv'
<1>0. PICK m0 \in ShipMarks : m0 = MarkAt("voided")
  BY VoidedMark
<1>1. /\ FulfilmentTypes' /\ LinkTellsTruth'
      /\ \A m \in ShipMarks : FulfilmentsOf(m)' = FulfilmentsOf(m) /\ HasLink(m)' = HasLink(m)
  BY UntouchedTypes DEF Ended
<1>2. /\ handler'["generated"] = handler["generated"] /\ events'["generated"] = events["generated"]
  BY IdleHandlerIs DEF Ended
<1>3. GeneratedHolds' /\ Accounted'
  BY <1>1, <1>2, GeneratedUndisturbed DEF Untouched, Around
<1>4. VoidedHolds'
  BY <1>0, IdleHandlerIs DEF Ended, VoidedHolds
<1>5. VoidedForGood'
  <2> SUFFICES ASSUME NEW m \in ShipMarks \ (broken' \cup crossed'),
                      events'["voided"][m] = "settled"
               PROVE  /\ events["generated"][m] \in Done
                      /\ \A f \in FulfilmentsOf(m) : ~InForce(f)
    BY <1>1, <1>2 DEF VoidedForGood, InForce, Untouched
  <2>1. CASE m = m0
    BY <1>0, <2>1
  <2>2. CASE m # m0
    BY <1>0, <2>2 DEF Ended, FulfilmentInv, VoidedForGood, Around
  <2> QED BY <2>1, <2>2
<1> QED BY <1>1, <1>3, <1>4, <1>5 DEF FulfilmentInv

LEMMA FindKeeps ==
    ASSUME FulfilmentInv, FindLink
    PROVE  FulfilmentInv'
<1>1. PICK m0 \in ShipMarks : m0 = MarkAt("voided")
  BY VoidedMark DEF FindLink
<1>2. /\ Untouched /\ broken' = broken /\ handler["voided"].at = "find"
      /\ handler["voided"].mark = m0
      /\ crossed' = crossed \cup
                      (IF events["generated"][m0] \in {"none", "sent"} THEN {m0} ELSE {})
  BY <1>1 DEF FindLink, Untouched, MarkAt
<1>3. Around
  BY <1>2, InvTypes DEF Around, FindLink
<1>4. m0 \notin crossed' => events["generated"][m0] \in Done
  BY <1>1, <1>2, InvTypes, IdleHandlerIs DEF Done, EventStates
<1>5. CASE FailHandler("voided")
  <2>1. Ended("voided") /\ events'["voided"][m0] \in {"parked", events["voided"][m0]}
    BY <1>1, <1>5, FailEnds, IdleHandlerIs
  <2>2. events'["voided"][m0] = "settled" /\ m0 \notin broken \cup crossed' =>
          /\ events["generated"][m0] \in Done
          /\ \A f \in FulfilmentsOf(m0) : ~InForce(f)
    BY <1>3, <2>1 DEF FulfilmentInv, VoidedForGood, Around
  <2> QED BY <1>1, <1>2, <1>3, <2>1, <2>2, VoidedEnds
<1>6. CASE ~HasLink(m0) /\ Settle("voided")
  <2>1. Ended("voided")
    BY <1>1, <1>6, SettleEnds, IdleHandlerIs
  <2>2. m0 \notin broken \cup crossed' =>
          events["generated"][m0] \in Done /\ FulfilmentsOf(m0) = {}
    <3>1. events["generated"][m0] \in Done => \A f : ~AboutToLink(f, m0)
      BY DEF FulfilmentInv, GeneratedHolds, AboutToLink, Done
    <3> QED BY <1>4, <1>6, <3>1 DEF FulfilmentInv, Accounted
  <2> QED BY <1>1, <1>2, <1>3, <2>1, <2>2, VoidedEnds
<1>7. CASE HasLink(m0) /\ GoTo("voided", "cancel") /\ UNCHANGED events
  <2>1. GoneTo("voided", "cancel")
    BY <1>7, GoToGoes, IdleHandlerIs DEF HandlerStages
  <2>2. /\ FulfilmentTypes' /\ LinkTellsTruth'
        /\ \A m \in ShipMarks : FulfilmentsOf(m)' = FulfilmentsOf(m) /\ HasLink(m)' = HasLink(m)
    BY <1>2, <1>3, <1>7, <2>1, UntouchedTypes, InvTypes DEF GoneTo
  <2>3. handler'["generated"] = handler["generated"]
    BY <2>1, IdleHandlerIs DEF GoneTo
  <2>4. GeneratedHolds' /\ Accounted'
    BY <1>2, <1>7, <2>2, <2>3, GeneratedUndisturbed DEF Untouched
  <2>5. VoidedHolds'
    BY <1>1, <1>4, <1>7, <2>1, <2>2 DEF GoneTo, VoidedHolds
  <2>6. VoidedForGood'
    BY <1>2, <1>3, <1>7, <2>2 DEF FulfilmentInv, VoidedForGood, Around, InForce, Untouched
  <2> QED BY <2>2, <2>4, <2>5, <2>6 DEF FulfilmentInv
<1> QED BY <1>1, <1>5, <1>6, <1>7 DEF FindLink

LEMMA CancelKeeps ==
    ASSUME FulfilmentInv, CancelFulfillment
    PROVE  FulfilmentInv'
<1>1. PICK m0, f0 : m0 \in ShipMarks /\ m0 = MarkAt("voided") /\ f0 = fulfilmentLink[m0].id
  BY VoidedMark DEF CancelFulfillment
<1>2. /\ handler["voided"].at = "cancel" /\ handler["voided"].mark = m0
      /\ f0 \in FulfilmentsOf(m0) /\ f0 \in DOMAIN fulfilments
      /\ m0 \notin crossed => events["generated"][m0] \in Done
      /\ fulfilmentLink' = fulfilmentLink /\ broken' = broken /\ crossed' = crossed
  BY <1>1 DEF CancelFulfillment, FulfilmentInv, VoidedHolds, LinkTellsTruth, FulfilmentsOf, MarkAt
<1>3. CASE FailHandler("voided") /\ UNCHANGED <<openOrders, fulfilments>>
  <2>1. Ended("voided") /\ events'["voided"][m0] \in {"parked", events["voided"][m0]}
    BY <1>1, <1>3, FailEnds, IdleHandlerIs
  <2>2. Around
    BY <1>3, AroundKept DEF CancelFulfillment
  <2>3. events'["voided"][m0] = "settled" /\ m0 \notin broken \cup crossed' =>
          /\ events["generated"][m0] \in Done
          /\ \A f \in FulfilmentsOf(m0) : ~InForce(f)
    BY <1>1, <1>2, <2>1 DEF FulfilmentInv, VoidedForGood
  <2> QED BY <1>1, <1>2, <1>3, <2>1, <2>2, <2>3, VoidedEnds DEF Untouched
<1>4. CASE /\ fulfilments' = [fulfilments EXCEPT ![f0].status = "CANCELLED"]
           /\ openOrders' = openOrders \cup {GoodsOf[m0]}
           /\ \/ GoTo("voided", "status") /\ UNCHANGED events
              \/ FailHandler("voided")
  <2>1. PICK x : x = [fulfilments[f0] EXCEPT !.status = "CANCELLED"]
    OBVIOUS
  <2>2. x \in Fulfilment /\ x.mark = fulfilments[f0].mark /\ x.status = "CANCELLED"
    BY <1>2, <2>1, InvTypes DEF Fulfilment
  <2>3. fulfilments' = [fulfilments EXCEPT ![f0] = x]
    BY <1>4, <2>1
  <2>4. /\ fulfilments' \in Seq(Fulfilment) /\ Len(fulfilments') = Len(fulfilments)
        /\ DOMAIN fulfilments' = DOMAIN fulfilments
        /\ \A f \in DOMAIN fulfilments : fulfilments'[f].mark = fulfilments[f].mark
        /\ fulfilments'[f0].status = "CANCELLED"
        /\ \A f \in DOMAIN fulfilments : f # f0 => fulfilments'[f].status = fulfilments[f].status
    BY <1>2, <2>2, <2>3, InvTypes
  <2>5. /\ \A m \in ShipMarks : FulfilmentsOf(m)' = FulfilmentsOf(m)
        /\ \A f \in DOMAIN fulfilments : ~InForce(f) => ~InForce(f)'
        /\ ~InForce(f0)'
    BY <1>2, <2>4 DEF FulfilmentsOf, InForce
  <2>6. LinkTellsTruth'
    <3> SUFFICES ASSUME NEW m \in ShipMarks, HasLink(m)
                 PROVE  /\ fulfilmentLink[m].id \in FulfilmentsOf(m)
                        /\ fulfilmentLink[m].status = "CANCELLED" =>
                             fulfilments'[fulfilmentLink[m].id].status # "SUCCESS"
      BY <1>2, <2>5 DEF LinkTellsTruth, HasLink, InForce
    <3>1. fulfilmentLink[m].id \in FulfilmentsOf(m) /\ fulfilmentLink[m].id \in DOMAIN fulfilments
          /\ (fulfilmentLink[m].status = "CANCELLED" =>
                fulfilments[fulfilmentLink[m].id].status # "SUCCESS")
      BY DEF FulfilmentInv, LinkTellsTruth, FulfilmentsOf, InForce
    <3> QED BY <2>4, <3>1
  <2>7. /\ handler' \in [EventTopics -> Handler]
        /\ events' \in [EventTopics -> [ShipMarks -> EventStates]]
        /\ handler'["generated"] = handler["generated"]
        /\ events'["generated"] = events["generated"]
        /\ \A m \in ShipMarks : events'["voided"][m] = "settled" => events["voided"][m] = "settled"
        /\ \/ handler'["voided"].at = "status" /\ handler'["voided"].mark = m0
           \/ handler'["voided"].at = "find" /\ handler'["voided"].mark = m0
           \/ handler'["voided"].at = "idle"
    <3>1. CASE GoTo("voided", "status") /\ UNCHANGED events
      <4>1. GoneTo("voided", "status")
        BY <3>1, GoToGoes, IdleHandlerIs DEF HandlerStages
      <4> QED BY <1>1, <3>1, <4>1, InvTypes, IdleHandlerIs DEF GoneTo
    <3>2. CASE FailHandler("voided")
      <4>1. Ended("voided") /\ events'["voided"][m0] \in {"parked", events["voided"][m0]}
        BY <1>1, <3>2, FailEnds, IdleHandlerIs
      <4>2. \A m \in ShipMarks : events'["voided"][m] = "settled" => events["voided"][m] = "settled"
        <5> TAKE m \in ShipMarks
        <5>1. CASE m = m0 BY <4>1, <5>1
        <5>2. CASE m # m0 BY <1>1, <4>1, <5>2 DEF Ended
        <5> QED BY <5>1, <5>2
      <4> QED BY <1>1, <4>1, <4>2, IdleHandlerIs DEF Ended
    <3> QED BY <1>4, <3>1, <3>2
  <2>8. FulfilmentTypes'
    <3>1. openOrders' \subseteq ShopOrders
      BY <1>1, <1>4, InvTypes, FulfilmentAssumption
    <3>2. Len(fulfilments') <= MaxFulfilments
      BY <2>4 DEF FulfilmentInv, FulfilmentTypes
    <3> QED BY <1>2, <2>4, <2>7, <3>1, <3>2, InvTypes DEF FulfilmentTypes, CancelFulfillment
  <2>9. GeneratedHolds' /\ Accounted'
    BY <1>2, <2>5, <2>7, GeneratedUndisturbed
  <2>10. VoidedHolds'
    BY <1>1, <1>2, <2>5, <2>7 DEF VoidedHolds, FulfilmentInv, HasLink, InForce
  <2>11. VoidedForGood'
    <3> SUFFICES ASSUME NEW m \in ShipMarks \ (broken \cup crossed),
                        events'["voided"][m] = "settled"
                 PROVE  /\ events["generated"][m] \in Done
                        /\ \A f \in FulfilmentsOf(m) : fulfilments'[f].status # "SUCCESS"
      BY <1>2, <2>5, <2>7 DEF VoidedForGood, InForce
    <3>1. FulfilmentsOf(m) \subseteq DOMAIN fulfilments
      BY DEF FulfilmentsOf
    <3>2. events["generated"][m] \in Done
          /\ \A f \in FulfilmentsOf(m) : fulfilments[f].status # "SUCCESS"
      BY <2>7 DEF FulfilmentInv, VoidedForGood, InForce
    <3> QED BY <2>4, <3>1, <3>2
  <2> QED BY <2>6, <2>8, <2>9, <2>10, <2>11 DEF FulfilmentInv
<1> QED BY <1>1, <1>3, <1>4 DEF CancelFulfillment

LEMMA StatusKeeps ==
    ASSUME FulfilmentInv, UpdateLastKnownStatus
    PROVE  FulfilmentInv'
<1>1. PICK m0 \in ShipMarks : m0 = MarkAt("voided")
  BY VoidedMark DEF UpdateLastKnownStatus
<1>2. /\ handler["voided"].at = "status" /\ handler["voided"].mark = m0
      /\ HasLink(m0) /\ ~InForce(fulfilmentLink[m0].id)
      /\ fulfilmentLink[m0].id \in FulfilmentsOf(m0)
      /\ m0 \notin crossed => events["generated"][m0] \in Done
      /\ fulfilments' = fulfilments /\ broken' = broken /\ crossed' = crossed
  BY <1>1 DEF UpdateLastKnownStatus, FulfilmentInv, VoidedHolds, LinkTellsTruth, MarkAt
<1>3. Around
  BY AroundKept DEF UpdateLastKnownStatus
<1>4. CASE FailHandler("voided") /\ UNCHANGED fulfilmentLink
  <2>1. Ended("voided") /\ events'["voided"][m0] \in {"parked", events["voided"][m0]}
    BY <1>1, <1>4, FailEnds, IdleHandlerIs
  <2>2. events'["voided"][m0] = "settled" /\ m0 \notin broken \cup crossed' =>
          /\ events["generated"][m0] \in Done
          /\ \A f \in FulfilmentsOf(m0) : ~InForce(f)
    BY <1>2, <2>1 DEF FulfilmentInv, VoidedForGood
  <2> QED BY <1>1, <1>2, <1>3, <1>4, <2>1, <2>2, VoidedEnds DEF Untouched
<1>5. CASE /\ fulfilmentLink' = [fulfilmentLink EXCEPT ![m0].status = "CANCELLED"]
           /\ Settle("voided")
  <2>1. Ended("voided")
    BY <1>1, <1>5, SettleEnds, IdleHandlerIs
  <2>2. PICK link : link = [fulfilmentLink[m0] EXCEPT !.status = "CANCELLED"]
    OBVIOUS
  <2>3. /\ link \in FulfilmentLink /\ link.id = fulfilmentLink[m0].id /\ link.id # 0
        /\ Linked(m0, link)
    BY <1>2, <1>5, <2>2, InvTypes DEF FulfilmentLink, HasLink, Linked
  <2>4. /\ FulfilmentTypes' /\ LinkTellsTruth'
        /\ fulfilmentLink'[m0] = link
        /\ \A k \in ShipMarks : k # m0 => fulfilmentLink'[k] = fulfilmentLink[k]
        /\ \A k \in ShipMarks : FulfilmentsOf(k)' = FulfilmentsOf(k)
        /\ \A f : InForce(f)' = InForce(f)
    BY <1>2, <1>3, <2>1, <2>3, LinkedTypes DEF Ended
  <2>5. /\ handler'["generated"] = handler["generated"] /\ events'["generated"] = events["generated"]
        /\ handler'["voided"].at = "idle" \/
             (handler'["voided"].at = "find" /\ handler'["voided"].mark = m0)
    BY <1>1, <2>1, IdleHandlerIs DEF Ended
  <2>6. GeneratedHolds' /\ Accounted'
    BY <1>2, <2>3, <2>4, <2>5, GeneratedUndisturbed
  <2>7. VoidedHolds'
    BY <2>5 DEF VoidedHolds
  <2>8. m0 \notin broken \cup crossed =>
          /\ events["generated"][m0] \in Done
          /\ \A f \in FulfilmentsOf(m0) : ~InForce(f)
    <3>1. events["generated"][m0] \in Done => \A f : ~AboutToLink(f, m0)
      BY DEF FulfilmentInv, GeneratedHolds, AboutToLink, Done
    <3> QED BY <1>2, <3>1 DEF FulfilmentInv, Accounted
  <2>9. VoidedForGood'
    <3> SUFFICES ASSUME NEW m \in ShipMarks \ (broken \cup crossed),
                        events'["voided"][m] = "settled"
                 PROVE  /\ events["generated"][m] \in Done
                        /\ \A f \in FulfilmentsOf(m) : ~InForce(f)
      BY <1>2, <2>4, <2>5 DEF VoidedForGood
    <3>1. CASE m = m0
      BY <2>8, <3>1
    <3>2. CASE m # m0
      BY <1>1, <2>1, <3>2 DEF Ended, FulfilmentInv, VoidedForGood
    <3> QED BY <3>1, <3>2
  <2> QED BY <2>4, <2>6, <2>7, <2>9 DEF FulfilmentInv
<1> QED BY <1>1, <1>4, <1>5 DEF UpdateLastKnownStatus

------------------------------------------------------------------------------
(* The bus, and what happens around it *)

\* Neither handler moves; events are only sent.
LEMMA HandlersRest ==
    ASSUME FulfilmentInv, Untouched, Around, handler' = handler,
           broken' = broken, crossed' = crossed,
           events' \in [EventTopics -> [ShipMarks -> EventStates]],
           \A x \in EventTopics, m \in ShipMarks :
             events'[x][m] = events[x][m] \/ (events[x][m] = "none" /\ events'[x][m] = "sent")
    PROVE  FulfilmentInv'
<1>1. /\ FulfilmentTypes' /\ LinkTellsTruth'
      /\ \A m \in ShipMarks : FulfilmentsOf(m)' = FulfilmentsOf(m) /\ HasLink(m)' = HasLink(m)
  BY UntouchedTypes, InvTypes
<1>2. \A m \in ShipMarks :
        /\ events["generated"][m] \in Done => events'["generated"][m] \in Done
        /\ events["generated"][m] = "sent" => events'["generated"][m] = "sent"
        /\ events'["voided"][m] = "settled" => events["voided"][m] = "settled"
  BY IdleHandlerIs DEF Done
<1>3. GeneratedHolds'
  BY <1>1, <1>2 DEF FulfilmentInv, GeneratedHolds
<1>4. VoidedHolds'
  BY <1>1, <1>2 DEF FulfilmentInv, VoidedHolds, InForce, Untouched
<1>5. Accounted'
  BY <1>1 DEF FulfilmentInv, Accounted, AboutToLink, Untouched
<1>6. VoidedForGood'
  BY <1>1, <1>2 DEF FulfilmentInv, VoidedForGood, InForce, Untouched
<1> QED BY <1>1, <1>3, <1>4, <1>5, <1>6 DEF FulfilmentInv

LEMMA AnnounceKeeps ==
    ASSUME FulfilmentInv, NEW topic \in EventTopics, NEW m \in ShipMarks, Announce(topic, m)
    PROVE  FulfilmentInv'
<1>1. /\ Untouched /\ handler' = handler /\ broken' = broken /\ crossed' = crossed
  BY DEF Announce, Untouched
<1>2. Around
  BY AroundKept DEF Announce
<1>3. /\ events' \in [EventTopics -> [ShipMarks -> EventStates]]
      /\ \A x \in EventTopics, k \in ShipMarks :
           events'[x][k] = events[x][k] \/ (events[x][k] = "none" /\ events'[x][k] = "sent")
  <2>1. "sent" \in EventStates
    BY DEF EventStates
  <2> QED BY <2>1, InvTypes DEF Announce
<1> QED BY <1>1, <1>2, <1>3, HandlersRest

LEMMA AroundKeeps ==
    ASSUME FulfilmentInv, NEW o \in ShopOrders, LinkOrder(o) \/ AddItem(o)
    PROVE  FulfilmentInv'
<1>1. /\ Untouched /\ handler' = handler /\ broken' = broken /\ crossed' = crossed
      /\ events' = events
  BY DEF LinkOrder, AddItem, Untouched
<1>2. Around
  BY InvTypes, FulfilmentAssumption DEF LinkOrder, AddItem, Around
<1> QED BY <1>1, <1>2, InvTypes, HandlersRest

LEMMA TakeKeeps ==
    ASSUME FulfilmentInv, NEW topic \in EventTopics, NEW m0 \in ShipMarks, TakeEvent(topic, m0)
    PROVE  FulfilmentInv'
<1>1. PICK h : h = [at |-> Entry(topic), mark |-> m0, tries |-> 0, made |-> 0]
  OBVIOUS
<1>2. h \in Handler /\ h.at = Entry(topic) /\ h.mark = m0
  BY <1>1, IdleHandlerIs, FulfilmentAssumption DEF Handler, HandlerStages
<1>3. handler' = [handler EXCEPT ![topic] = h]
  BY <1>1 DEF TakeEvent
<1>4. /\ handler' \in [EventTopics -> Handler] /\ handler'[topic] = h
      /\ \A x \in EventTopics : x # topic => handler'[x] = handler[x]
  BY <1>2, <1>3, InvTypes
<1>5. /\ Untouched /\ broken' = broken /\ crossed' = crossed /\ events' = events
      /\ handler[topic].at = "idle" /\ events[topic][m0] = "sent"
  BY DEF TakeEvent, Untouched
<1>6. Around
  BY AroundKept DEF TakeEvent
<1>7. /\ FulfilmentTypes' /\ LinkTellsTruth'
      /\ \A m \in ShipMarks : FulfilmentsOf(m)' = FulfilmentsOf(m) /\ HasLink(m)' = HasLink(m)
  BY <1>4, <1>5, <1>6, UntouchedTypes, InvTypes
<1>8. GeneratedHolds'
  <2>1. CASE topic = "generated"
    BY <1>2, <1>4, <1>5, <2>1, IdleHandlerIs DEF GeneratedHolds
  <2>2. CASE topic # "generated"
    BY <1>4, <1>5, <1>7, <2>2, IdleHandlerIs DEF FulfilmentInv, GeneratedHolds
  <2> QED BY <2>1, <2>2
<1>9. VoidedHolds'
  <2>1. CASE topic = "voided"
    BY <1>2, <1>4, <2>1, IdleHandlerIs DEF VoidedHolds
  <2>2. CASE topic # "voided"
    BY <1>4, <1>5, <1>7, <2>2, IdleHandlerIs DEF FulfilmentInv, VoidedHolds, InForce, Untouched
  <2> QED BY <2>1, <2>2
<1>10. Accounted'
  <2>1. \A f, m : AboutToLink(f, m) => handler'["generated"] = handler["generated"]
    BY <1>4, <1>5, IdleHandlerIs DEF AboutToLink
  <2>2. ASSUME NEW m \in ShipMarks \ broken, NEW f \in FulfilmentsOf(m)
        PROVE  \/ HasLink(m) /\ f = fulfilmentLink[m].id
               \/ /\ handler'["generated"].at = "store" /\ handler'["generated"].mark = m
                  /\ handler'["generated"].made = f
    BY <2>1 DEF FulfilmentInv, Accounted, AboutToLink
  <2> QED BY <1>5, <1>7, <2>2 DEF Accounted, AboutToLink, Untouched
<1>11. VoidedForGood'
  BY <1>5, <1>7 DEF FulfilmentInv, VoidedForGood, InForce, Untouched
<1> QED BY <1>7, <1>8, <1>9, <1>10, <1>11 DEF FulfilmentInv

LEMMA CrashKeeps ==
    ASSUME FulfilmentInv, CrashHandlers
    PROVE  FulfilmentInv'
<1>1. /\ Untouched /\ crossed' = crossed
      /\ handler' \in [EventTopics -> Handler]
      /\ handler'["generated"].at = "idle" /\ handler'["voided"].at = "idle"
  BY IdleHandlerIs DEF CrashHandlers, Untouched
<1>2. /\ events' \in [EventTopics -> [ShipMarks -> EventStates]]
      /\ \A x \in EventTopics, m \in ShipMarks :
           events'[x][m] = IF events[x][m] = "sent" THEN "lost" ELSE events[x][m]
  <2>1. "lost" \in EventStates
    BY DEF EventStates
  <2> QED BY <2>1, InvTypes DEF CrashHandlers
<1>3. broken' = broken \cup {m \in ShipMarks :
         \E x \in EventTopics : handler[x].at \in {"store", "status"} /\ MarkAt(x) = m}
  BY DEF CrashHandlers
<1>4. Around
  BY <1>1, <1>3, InvTypes, FulfilmentAssumption DEF CrashHandlers, Around
<1>5. /\ FulfilmentTypes' /\ LinkTellsTruth'
      /\ \A m \in ShipMarks : FulfilmentsOf(m)' = FulfilmentsOf(m) /\ HasLink(m)' = HasLink(m)
  BY <1>1, <1>2, <1>4, UntouchedTypes
<1>6. \A m \in ShipMarks :
        /\ events["generated"][m] \in Done => events'["generated"][m] \in Done
        /\ events'["voided"][m] = "settled" => events["voided"][m] = "settled"
  BY <1>2, IdleHandlerIs DEF Done
<1>7. GeneratedHolds' /\ VoidedHolds'
  BY <1>1 DEF GeneratedHolds, VoidedHolds
<1>8. Accounted'
  <2>1. \A m \in ShipMarks \ broken' : \A f : ~AboutToLink(f, m)
    BY <1>3, IdleHandlerIs DEF AboutToLink, MarkAt
  <2> QED BY <1>1, <1>4, <1>5, <2>1 DEF FulfilmentInv, Accounted, Untouched, Around
<1>9. VoidedForGood'
  BY <1>1, <1>4, <1>5, <1>6 DEF FulfilmentInv, VoidedForGood, InForce, Untouched, Around
<1> QED BY <1>5, <1>7, <1>8, <1>9 DEF FulfilmentInv

------------------------------------------------------------------------------

\* At the start there is no fulfilment, no link and no event.
THEOREM FulfilmentInitially == FulfilmentInit => FulfilmentInv
<1> SUFFICES ASSUME FulfilmentInit PROVE FulfilmentInv
  OBVIOUS
<1>1. /\ fulfilments = <<>> /\ DOMAIN fulfilments = {} /\ Len(fulfilments) = 0
      /\ \A m \in ShipMarks : fulfilmentLink[m] = NoFulfilmentLink
      /\ \A x \in EventTopics : handler[x] = IdleHandler
      /\ \A x \in EventTopics, m \in ShipMarks : events[x][m] = "none"
  BY DEF FulfilmentInit
<1>2. NoFulfilmentLink \in FulfilmentLink /\ NoFulfilmentLink.id = 0 /\ "none" \in EventStates
  BY FulfilmentAssumption DEF NoFulfilmentLink, FulfilmentLink, EventStates
<1>3. FulfilmentTypes
  BY <1>1, <1>2, IdleHandlerIs, FulfilmentAssumption DEF FulfilmentInit, FulfilmentTypes
<1>4. LinkTellsTruth /\ Accounted
  BY <1>1, <1>2 DEF LinkTellsTruth, Accounted, HasLink, FulfilmentsOf
<1>5. GeneratedHolds /\ VoidedHolds
  BY <1>1, IdleHandlerIs DEF GeneratedHolds, VoidedHolds
<1>6. VoidedForGood
  BY <1>1, IdleHandlerIs DEF VoidedForGood
<1> QED BY <1>3, <1>4, <1>5, <1>6 DEF FulfilmentInv

\* Every step of the handlers, of the bus and of Shopify keeps the invariant.
THEOREM FulfilmentStepKeeps == FulfilmentInv /\ [FulfilmentNext]_fulfilmentVars => FulfilmentInv'
<1> SUFFICES ASSUME FulfilmentInv, [FulfilmentNext]_fulfilmentVars PROVE FulfilmentInv'
  OBVIOUS
<1>1. CASE \E m \in ShipMarks, topic \in EventTopics : Announce(topic, m) \/ TakeEvent(topic, m)
  BY <1>1, AnnounceKeeps, TakeKeeps
<1>2. CASE ReadFulfilmentLink \/ ReadOrderLink \/ ListFulfilmentOrders
  BY <1>2, ReadsKeep
<1>3. CASE FulfillOrder
  BY <1>3, FulfillKeeps
<1>4. CASE StoreLink
  BY <1>4, StoreKeeps
<1>5. CASE FindLink
  BY <1>5, FindKeeps
<1>6. CASE CancelFulfillment
  BY <1>6, CancelKeeps
<1>7. CASE UpdateLastKnownStatus
  BY <1>7, StatusKeeps
<1>8. CASE \E o \in ShopOrders : LinkOrder(o) \/ AddItem(o)
  BY <1>8, AroundKeeps
<1>9. CASE CrashHandlers
  BY <1>9, CrashKeeps
<1>10. CASE UNCHANGED fulfilmentVars
  <2>1. /\ Untouched /\ handler' = handler /\ broken' = broken /\ crossed' = crossed
        /\ events' = events
    BY <1>10 DEF fulfilmentVars, Untouched
  <2>2. Around
    BY <1>10, AroundKept DEF fulfilmentVars
  <2> QED BY <2>1, <2>2, InvTypes, HandlersRest
<1> QED
  BY <1>1, <1>2, <1>3, <1>4, <1>5, <1>6, <1>7, <1>8, <1>9, <1>10 DEF FulfilmentNext

\* What is accounted for is one fulfilment at the most.
THEOREM AccountedIsOne == FulfilmentInv => FulfilmentSafety
<1> SUFFICES ASSUME FulfilmentInv PROVE FulfilmentSafety
  OBVIOUS
<1>1. FulfilledOnce
  <2> SUFFICES ASSUME NEW m \in ShipMarks \ broken PROVE Cardinality(FulfilmentsOf(m)) <= 1
    BY DEF FulfilledOnce
  <2>1. PICK f : FulfilmentsOf(m) \subseteq {f}
    <3>1. HasLink(m) => \A f : ~AboutToLink(f, m)
      BY DEF FulfilmentInv, GeneratedHolds, AboutToLink
    <3>2. CASE HasLink(m)
      BY <3>1, <3>2 DEF FulfilmentInv, Accounted
    <3>3. CASE ~HasLink(m)
      BY <3>3 DEF FulfilmentInv, Accounted, AboutToLink
    <3> QED BY <3>2, <3>3
  <2>2. FulfilmentsOf(m) = {} \/ FulfilmentsOf(m) = {f}
    BY <2>1
  <2>3. Cardinality({}) = 0 /\ Cardinality({f}) = 1
    BY FS_EmptySet, FS_Singleton
  <2> QED BY <2>2, <2>3
<1>2. VoidedIsCancelled
  BY DEF FulfilmentInv, VoidedForGood, VoidedIsCancelled
<1> QED BY <1>1, <1>2 DEF FulfilmentInv, FulfilmentSafety

\* A mark is fulfilled once, its link tells the truth and a voided mark is
\* cancelled, however often the events are given again and wherever the process
\* dies, except where an answer was lost or the events crossed
\* (shopify/application/shipping/service/service.go).
THEOREM FulfilmentsAreSafe == FulfilmentSpec => []FulfilmentSafety
BY FulfilmentInitially, FulfilmentStepKeeps, AccountedIsOne, PTL DEF FulfilmentSpec

------------------------------------------------------------------------------
(* Webhooks: the invariant follows the token of a shop from the             *)
(* installation through the cache to the worker, and a removal notice to    *)
(* the row it clears.                                                       *)

------------------------------------------------------------------------------
(* Requests. *)

LEMMA ActiveType ==
  ASSUME installs \in [Shops -> Install]
  PROVE  Active \in [Shops -> Tokens]
  BY WebhookAssumption DEF Active, Install, NoToken, Tokens

LEMMA IdleType == IdleHookTask \in HookTask
<1>1. [s \in Shops |-> NoToken] \in [Shops -> Tokens]
  BY WebhookAssumption DEF NoToken, Tokens
<1> QED BY <1>1, WebhookAssumption DEF IdleHookTask, HookTask, HookStages, NoToken, Tokens

LEMMA IdleFields ==
  /\ IdleHookTask.at = "idle" /\ IdleHookTask.shop = NoHook
  /\ IdleHookTask.hook = NoHook /\ IdleHookTask.token = NoToken
  BY DEF IdleHookTask

LEMMA AdvanceMoves ==
  ASSUME WebhookTypes, NEW t \in HookTasks, NEW stage \in HookStages, Advance(t, stage)
  PROVE  /\ hookTask' \in [HookTasks -> HookTask]
         /\ hookTask'[t].at = stage
         /\ hookTask'[t].shop = hookTask[t].shop /\ hookTask'[t].hook = hookTask[t].hook
         /\ hookTask'[t].token = hookTask[t].token /\ hookTask'[t].list = hookTask[t].list
         /\ \A u \in HookTasks \ {t} : hookTask'[u] = hookTask[u]
<1>1. PICK k : k = [hookTask[t] EXCEPT !.at = stage]
  OBVIOUS
<1>2. hookTask[t] \in HookTask
  BY DEF WebhookTypes
<1>3. /\ k \in HookTask /\ k.at = stage
      /\ k.shop = hookTask[t].shop /\ k.hook = hookTask[t].hook
      /\ k.token = hookTask[t].token /\ k.list = hookTask[t].list
  BY <1>1, <1>2 DEF HookTask
<1>4. hookTask' = [hookTask EXCEPT ![t] = k]
  BY <1>1 DEF Advance
<1>5. hookTask'[t] = k /\ \A u \in HookTasks \ {t} : hookTask'[u] = hookTask[u]
  BY <1>4 DEF WebhookTypes
<1>6. hookTask' \in [HookTasks -> HookTask]
  BY <1>3, <1>4 DEF WebhookTypes
<1> QED BY <1>3, <1>5, <1>6

LEMMA FinishClears ==
  ASSUME WebhookTypes, NEW t \in HookTasks, Finish(t)
  PROVE  /\ hookTask' \in [HookTasks -> HookTask]
         /\ hookTask'[t] = IdleHookTask
         /\ \A u \in HookTasks \ {t} : hookTask'[u] = hookTask[u]
  BY IdleType DEF WebhookTypes, Finish

\* A request that starts or is given all its fields.
LEMMA TaskReplaced ==
  ASSUME WebhookTypes, NEW t \in HookTasks, NEW k \in HookTask,
         hookTask' = [hookTask EXCEPT ![t] = k]
  PROVE  /\ hookTask' \in [HookTasks -> HookTask]
         /\ hookTask'[t] = k
         /\ \A u \in HookTasks \ {t} : hookTask'[u] = hookTask[u]
  BY DEF WebhookTypes

------------------------------------------------------------------------------
(* What a step of one request leaves to the others. *)

OthersStay(t) == \A u \in HookTasks \ {t} : hookTask'[u] = hookTask[u]

LEMMA CarriesStay ==
  ASSUME WebhookInv, NEW t \in HookTasks, OthersStay(t),
         deliveries \subseteq deliveries',
         \A h \in OrderHooks : h \in queued' \/ worked'[h] # 0 =>
           \/ h \in queued \/ worked[h] # 0
           \/ hookTask[t].at = "enqueue" /\ hookTask[t].hook = h,
         \A h \in OrderHooks : worked[h] \in Nat
  PROVE  \A u \in HookTasks \ {t} : Carries(u)'
<1> SUFFICES ASSUME NEW u \in HookTasks \ {t} PROVE Carries(u)'
  OBVIOUS
<1>1. Carries(u) /\ hookTask'[u] = hookTask[u]
  BY DEF WebhookInv, OthersStay
<1>2. CASE hookTask[u].at = "enqueue"
  <2>1. /\ hookTask[u].hook \in OrderHooks /\ hookTask[u].hook \notin queued
        /\ worked[hookTask[u].hook] = 0
    BY <1>1, <1>2 DEF Carries
  <2>2. ~(hookTask[t].at = "enqueue" /\ hookTask[t].hook = hookTask[u].hook)
    BY <1>2 DEF WebhookInv, OneTaker
  <2>3. hookTask[u].hook \notin queued' /\ worked'[hookTask[u].hook] = 0
    BY <2>1, <2>2
  <2> QED BY <1>1, <1>2, <2>3 DEF Carries
<1>3. CASE hookTask[u].at # "enqueue"
  BY <1>1, <1>3 DEF Carries
<1> QED BY <1>2, <1>3

\* No request comes to take a delivery over.
LEMMA TakersStay ==
  ASSUME WebhookInv, NEW t \in HookTasks, OthersStay(t),
         hookTask'[t].at = "enqueue" =>
           hookTask[t].at = "enqueue" /\ hookTask'[t].hook = hookTask[t].hook
  PROVE  OneTaker'
  BY DEF WebhookInv, OneTaker, OthersStay

\* Rows and cache stay, and who was on its way to the cache goes on.
LEMMA CacheStays ==
  ASSUME WebhookInv, NEW t \in HookTasks, OthersStay(t),
         UNCHANGED <<installs, cache>>, overtaken \subseteq overtaken',
         stale' = stale \/ stale' = TRUE,
         hookTask'[t].at = "set" /\ t \notin overtaken' => hookTask'[t].list = Active,
         Catching(t) => Catching(t)' \/ stale' = TRUE
  PROVE  CacheFollows'
<1>1. Active' = Active
  BY DEF Active
<1>2. \A u \in HookTasks : hookTask'[u].at = "set" /\ u \notin overtaken' => hookTask'[u].list = Active'
  BY <1>1 DEF WebhookInv, CacheFollows, OthersStay
<1>3. ASSUME stale' = FALSE, cache' # Active' PROVE \E u \in HookTasks : Catching(u)'
  <2>1. PICK u \in HookTasks : Catching(u)
    BY <1>1, <1>3 DEF WebhookInv, CacheFollows
  <2> QED BY <1>3, <2>1 DEF Catching, OthersStay
<1>4. stale' = TRUE \/ stale' = FALSE
  BY DEF WebhookInv, WebhookTypes
<1> QED BY <1>2, <1>3, <1>4 DEF CacheFollows

\* A row is written: who listed the rows before is overtaken, and the writer goes
\* on to the cache or says that it is behind.
LEMMA RowWritten ==
  ASSUME WebhookInv, NEW t \in HookTasks, OthersStay(t),
         overtaken' = overtaken \cup Listed(t),
         hookTask'[t].at # "set",
         Catching(t)' \/ stale' = TRUE
  PROVE  CacheFollows'
<1>1. \A u \in HookTasks : hookTask'[u].at # "set" \/ u \in overtaken'
  BY DEF Listed, OthersStay
<1> QED BY <1>1 DEF CacheFollows

\* Deliveries, jobs and refusals stay.
LEMMA MemoryStays ==
  ASSUME WebhookInv, NEW t \in HookTasks, OthersStay(t),
         UNCHANGED <<hook, deliveries, worked, queued, dropped>>,
         refused \subseteq refused',
         hookTask[t].at = "enqueue" => hookTask[t].hook \in refused'
  PROVE  \A h \in Hooks : Remembered(h)'
<1> SUFFICES ASSUME NEW h \in Hooks PROVE Remembered(h)'
  OBVIOUS
<1>1. Remembered(h)
  BY DEF WebhookInv
<1>2. ASSUME h \in deliveries', h \in OrderHooks \ refused' PROVE Taken(h)'
  <2>1. Taken(h)
    BY <1>1, <1>2 DEF Remembered
  <2> QED BY <1>2, <2>1 DEF Taken, OthersStay
<1> QED BY <1>1, <1>2 DEF Remembered

\* A notice on its way stays on its way, or is refused.
HooksGoOn(t) ==
  /\ refused \subseteq refused'
  /\ \A h \in UninstallHooks : hook[h] = "sent" /\ h \notin deliveries =>
       \/ hook'[h] = "sent" /\ h \notin deliveries'
       \/ hookTask'[t].at = "mark" /\ hookTask'[t].hook = h
  /\ hookTask[t].at = "mark" =>
       \/ hookTask'[t].at = "mark" /\ hookTask'[t].hook = hookTask[t].hook
       \/ hookTask[t].hook \in refused'

LEMMA NoticedStays ==
  ASSUME NEW t \in HookTasks, OthersStay(t), HooksGoOn(t), NEW s \in Shops, Noticed(s)
  PROVE  Noticed(s)'
<1>1. PICK h \in UninstallHooks :
        /\ HookShop[h] = s
        /\ \/ hook[h] = "sent" /\ h \notin deliveries
           \/ h \in refused
           \/ \E u \in HookTasks : hookTask[u].at = "mark" /\ hookTask[u].hook = h
  BY DEF Noticed
<1>2. CASE hook[h] = "sent" /\ h \notin deliveries
  BY <1>1, <1>2 DEF Noticed, HooksGoOn
<1>3. CASE h \in refused
  BY <1>1, <1>3 DEF Noticed, HooksGoOn
<1>4. ASSUME NEW u \in HookTasks, hookTask[u].at = "mark", hookTask[u].hook = h
      PROVE  Noticed(s)'
  BY <1>1, <1>4 DEF Noticed, OthersStay, HooksGoOn
<1> QED BY <1>1, <1>2, <1>3, <1>4

\* The rows stay, and Shopify gives no token up.
LEMMA RemovalStays ==
  ASSUME WebhookInv, NEW t \in HookTasks, OthersStay(t), HooksGoOn(t),
         UNCHANGED installs, estranged \subseteq estranged',
         \A s \in Shops : granted'[s] = granted[s] \/ granted[s] = NoToken
  PROVE  RemovalNoticed'
  BY NoticedStays DEF WebhookInv, RemovalNoticed

------------------------------------------------------------------------------
(* The actions. *)

LEMMA ExchangeKeeps ==
  ASSUME WebhookInv, NEW t \in HookTasks, NEW s \in Shops, ExchangeAuthorizationCode(t, s)
  PROVE  WebhookInv'
<1>1. WebhookTypes /\ hookTask[t].at = "idle" /\ Carries(t)
  BY DEF WebhookInv, ExchangeAuthorizationCode, AtStage
<1>2. PICK token :
        /\ token = IF granted[s] = NoToken THEN issued + 1 ELSE granted[s]
        /\ token <= MaxTokens
        /\ granted' = [granted EXCEPT ![s] = token]
        /\ issued' = IF granted[s] = NoToken THEN token ELSE issued
        /\ hookTask' = [hookTask EXCEPT ![t] =
             [IdleHookTask EXCEPT !.at = "upsert", !.shop = s, !.token = token]]
  BY Zenon DEF ExchangeAuthorizationCode
<1>3. UNCHANGED <<registered, hook, installs, cache, deliveries, jobsSide, overtaken,
                  stale, refused, estranged>>
  BY DEF ExchangeAuthorizationCode
<1>4. token \in Tokens /\ token # NoToken
  BY <1>1, <1>2, WebhookAssumption DEF WebhookTypes, Tokens, NoToken
<1>5. PICK k \in HookTask :
        /\ k.at = "upsert" /\ k.shop = s /\ k.token = token /\ k.hook = NoHook
        /\ hookTask' = [hookTask EXCEPT ![t] = k]
  <2>1. PICK k : k = [IdleHookTask EXCEPT !.at = "upsert", !.shop = s, !.token = token]
    OBVIOUS
  <2>2. /\ k \in HookTask
        /\ k.at = "upsert" /\ k.shop = s /\ k.token = token /\ k.hook = NoHook
    BY <2>1, <1>4, IdleType DEF IdleHookTask, HookTask, HookStages
  <2> QED BY <1>2, <2>1, <2>2
<1>6. hookTask' \in [HookTasks -> HookTask] /\ hookTask'[t] = k /\ OthersStay(t)
  BY <1>1, <1>5, TaskReplaced DEF OthersStay
<1>7. granted' \in [Shops -> Tokens] /\ issued' \in Tokens
  BY <1>1, <1>2, <1>4 DEF WebhookTypes
<1>8. WebhookTypes' /\ IsFiniteSet(queued)'
  BY <1>1, <1>3, <1>6, <1>7 DEF WebhookInv, WebhookTypes, jobsSide
<1>9. \A u \in HookTasks : Carries(u)'
  <2>1. Carries(t)'
    BY <1>4, <1>5, <1>6 DEF Carries
  <2>2. \A u \in HookTasks \ {t} : Carries(u)'
    BY <1>1, <1>3, <1>6, CarriesStay DEF jobsSide, WebhookTypes, Hooks
  <2> QED BY <2>1, <2>2
<1>10. OneTaker' /\ CacheFollows'
  BY <1>1, <1>3, <1>5, <1>6, TakersStay, CacheStays DEF Catching
<1>11. \A h \in Hooks : Remembered(h)'
  BY <1>1, <1>3, <1>6, MemoryStays DEF jobsSide
<1>12. RemovalNoticed'
  <2>1. HooksGoOn(t)
    BY <1>1, <1>3 DEF HooksGoOn
  <2>2. \A r \in Shops : granted'[r] = granted[r] \/ granted[r] = NoToken
    BY <1>1, <1>2 DEF WebhookTypes
  <2> QED BY <1>3, <1>6, <2>1, <2>2, RemovalStays
<1> QED BY <1>8, <1>9, <1>10, <1>11, <1>12 DEF WebhookInv

LEMMA UpsertKeeps ==
  ASSUME WebhookInv, NEW t \in HookTasks, UpsertInstallation(t)
  PROVE  WebhookInv'
<1>1. /\ WebhookTypes /\ hookTask[t].at = "upsert" /\ Carries(t)
      /\ hookTask[t] \in HookTask
  BY DEF WebhookInv, UpsertInstallation, AtStage, WebhookTypes
<1>2. PICK s \in Shops, token \in Tokens :
        s = hookTask[t].shop /\ token = hookTask[t].token /\ token # NoToken
  BY <1>1 DEF Carries, HookTask
<1>3. UNCHANGED <<granted, issued, registered, hook, cache, deliveries, queued, worked,
                  phase, restarts, dropped, refused>>
  BY DEF UpsertInstallation, shopifySide, jobsSide
<1>4. /\ hookTask' \in [HookTasks -> HookTask] /\ OthersStay(t)
      /\ \/ /\ hookTask'[t].at = "list" /\ hookTask'[t].shop = s
            /\ hookTask'[t].hook = NoHook /\ hookTask'[t].token = token
         \/ hookTask'[t] = IdleHookTask
  <2>1. CASE Advance(t, "list")
    BY <1>1, <1>2, <2>1, AdvanceMoves DEF HookStages, OthersStay, Carries
  <2>2. CASE Finish(t)
    BY <1>1, <2>2, FinishClears DEF OthersStay
  <2> QED BY <2>1, <2>2 DEF UpsertInstallation
<1>5. \/ /\ installs' = [installs EXCEPT ![s] = [token |-> token, active |-> "yes"]]
         /\ overtaken' = overtaken \cup Listed(t)
         /\ estranged' = estranged \cup (IF token = granted[s] THEN {} ELSE {s})
         /\ \/ Advance(t, "list") /\ UNCHANGED stale
            \/ Finish(t) /\ stale' = TRUE
      \/ Finish(t) /\ UNCHANGED <<installs, overtaken, estranged, stale>>
  BY <1>2 DEF UpsertInstallation
<1>6. /\ installs' \in [Shops -> Install] /\ overtaken' \subseteq HookTasks
      /\ estranged' \subseteq Shops /\ stale' \in BOOLEAN
  <2>1. [token |-> token, active |-> "yes"] \in Install
    BY DEF Install
  <2>2. installs' \in [Shops -> Install]
    BY <1>1, <1>5, <2>1 DEF WebhookTypes
  <2>3. overtaken' \subseteq HookTasks /\ estranged' \subseteq Shops
    BY <1>1, <1>5 DEF WebhookTypes, Listed
  <2>4. stale' \in BOOLEAN
    BY <1>1, <1>5 DEF WebhookTypes
  <2> QED BY <2>2, <2>3, <2>4
<1>7. WebhookTypes' /\ IsFiniteSet(queued)'
  BY <1>1, <1>3, <1>4, <1>6 DEF WebhookInv, WebhookTypes
<1>8. \A u \in HookTasks : Carries(u)'
  <2>1. Carries(t)'
    BY <1>4, IdleFields DEF Carries
  <2>2. \A u \in HookTasks \ {t} : Carries(u)'
    BY <1>1, <1>3, <1>4, CarriesStay DEF WebhookTypes, Hooks
  <2> QED BY <2>1, <2>2
<1>9. OneTaker'
  BY <1>4, TakersStay, IdleFields
<1>10. CacheFollows'
  <2>1. CASE UNCHANGED <<installs, overtaken, estranged, stale>>
    BY <1>1, <1>3, <1>4, <2>1, CacheStays, IdleFields DEF Catching
  <2>2. CASE /\ overtaken' = overtaken \cup Listed(t)
             /\ \/ Advance(t, "list") /\ UNCHANGED stale
                \/ Finish(t) /\ stale' = TRUE
    <3>1. hookTask'[t].at # "set"
      BY <1>4, IdleFields
    <3>2. Catching(t)' \/ stale' = TRUE
      <4>1. CASE Advance(t, "list")
        BY <1>1, <1>2, <4>1, AdvanceMoves, WebhookAssumption DEF Catching, HookStages
      <4> QED BY <2>2, <4>1
    <3> QED BY <1>4, <2>2, <3>1, <3>2, RowWritten
  <2> QED BY <1>5, <2>1, <2>2
<1>11. \A h \in Hooks : Remembered(h)'
  BY <1>1, <1>3, <1>4, MemoryStays
<1>12. RemovalNoticed'
  <2>1. HooksGoOn(t)
    BY <1>1, <1>3 DEF HooksGoOn
  <2>2. CASE UNCHANGED <<installs, overtaken, estranged, stale>>
    BY <1>3, <1>4, <2>1, <2>2, RemovalStays
  <2>3. CASE /\ installs' = [installs EXCEPT ![s] = [token |-> token, active |-> "yes"]]
             /\ estranged' = estranged \cup (IF token = granted[s] THEN {} ELSE {s})
    <3>1. ASSUME NEW r \in Shops, Noticed(r) PROVE Noticed(r)'
      BY <1>4, <2>1, <3>1, NoticedStays
    <3>2. installs'[s].token = token /\ \A r \in Shops \ {s} : installs'[r] = installs[r]
      BY <1>1, <2>3 DEF WebhookTypes
    <3> QED BY <1>2, <1>3, <2>3, <3>1, <3>2 DEF WebhookInv, RemovalNoticed
  <2> QED BY <1>5, <2>2, <2>3
<1> QED BY <1>7, <1>8, <1>9, <1>10, <1>11, <1>12 DEF WebhookInv

\* Steps that write no row, take nothing over and acknowledge nothing.
LEMMA QuietKeeps ==
  ASSUME WebhookInv, NEW t \in HookTasks, OthersStay(t), WebhookTypes', Carries(t)',
         UNCHANGED <<granted, hook, installs, cache, deliveries, queued, worked, dropped,
                     estranged>>,
         overtaken \subseteq overtaken', refused \subseteq refused',
         stale' = stale \/ stale' = TRUE,
         hookTask[t].at \notin {"enqueue", "mark"}, hookTask'[t].at # "enqueue",
         hookTask'[t].at = "set" /\ t \notin overtaken' => hookTask'[t].list = Active,
         Catching(t) => Catching(t)' \/ stale' = TRUE
  PROVE  WebhookInv'
<1>1. \A u \in HookTasks : Carries(u)'
  BY CarriesStay DEF WebhookInv, WebhookTypes, Hooks
<1>2. OneTaker' /\ CacheFollows' /\ \A h \in Hooks : Remembered(h)'
  BY TakersStay, CacheStays, MemoryStays
<1>3. RemovalNoticed'
  BY RemovalStays DEF HooksGoOn
<1>4. IsFiniteSet(queued)'
  BY DEF WebhookInv
<1> QED BY <1>1, <1>2, <1>3, <1>4 DEF WebhookInv

LEMMA RegisterKeeps ==
  ASSUME WebhookInv, NEW t \in HookTasks, RegisterWebhooks(t)
  PROVE  WebhookInv'
<1>1. WebhookTypes /\ hookTask[t].at = "register" /\ Carries(t)
  BY DEF WebhookInv, RegisterWebhooks, AtStage
<1>2. UNCHANGED <<granted, issued, hook, installs, cache, deliveries, jobsSide,
                  overtaken, stale, refused, estranged>>
  BY DEF RegisterWebhooks
<1>3. hookTask' \in [HookTasks -> HookTask] /\ hookTask'[t] = IdleHookTask /\ OthersStay(t)
  BY <1>1, FinishClears DEF RegisterWebhooks, OthersStay
<1>4. registered' \subseteq Shops
  <2>1. hookTask[t].shop \in Shops
    BY <1>1 DEF Carries
  <2> QED BY <1>1, <2>1 DEF RegisterWebhooks, WebhookTypes
<1>5. WebhookTypes'
  BY <1>1, <1>2, <1>3, <1>4 DEF WebhookTypes, jobsSide
<1>6. Carries(t)'
  BY <1>3, IdleFields DEF Carries
<1> QED BY <1>1, <1>2, <1>3, <1>5, <1>6, QuietKeeps, IdleFields DEF Catching, jobsSide

LEMMA ResolveKeeps ==
  ASSUME WebhookInv, NEW t \in HookTasks, ResolveInstallation(t)
  PROVE  WebhookInv'
<1>1. WebhookTypes /\ hookTask[t].at = "idle" /\ Carries(t)
  BY DEF WebhookInv, ResolveInstallation, AtStage
<1>2. UNCHANGED <<shopifySide, installs, cache, deliveries, jobsSide, overtaken, stale,
                  refused, estranged>>
  BY DEF ResolveInstallation
<1>3. /\ hookTask' \in [HookTasks -> HookTask] /\ OthersStay(t)
      /\ hookTask'[t].at = "list" /\ hookTask'[t].hook = hookTask[t].hook
      /\ hookTask'[t].token = hookTask[t].token
  BY <1>1, AdvanceMoves DEF ResolveInstallation, OthersStay, HookStages
<1>4. hookTask[t].hook = NoHook /\ hookTask[t].token = NoToken
  BY <1>1, IdleFields DEF Carries
<1>5. WebhookTypes'
  BY <1>1, <1>2, <1>3 DEF WebhookTypes, jobsSide, shopifySide
<1>6. Carries(t)'
  BY <1>3, <1>4 DEF Carries
<1> QED BY <1>1, <1>2, <1>3, <1>5, <1>6, QuietKeeps DEF Catching, jobsSide, shopifySide

LEMMA ListKeeps ==
  ASSUME WebhookInv, NEW t \in HookTasks, ListActive(t)
  PROVE  WebhookInv'
<1>1. WebhookTypes /\ hookTask[t].at = "list" /\ Carries(t) /\ hookTask[t] \in HookTask
  BY DEF WebhookInv, ListActive, AtStage, WebhookTypes
<1>2. UNCHANGED <<shopifySide, installs, cache, deliveries, jobsSide, overtaken,
                  estranged>>
  BY DEF ListActive
<1>3. CASE /\ hookTask' = [hookTask EXCEPT ![t].at = "set", ![t].list = Active]
           /\ UNCHANGED <<stale, refused>>
  <2>1. PICK k : k = [hookTask[t] EXCEPT !.at = "set", !.list = Active]
    OBVIOUS
  <2>2. /\ k \in HookTask /\ k.at = "set" /\ k.list = Active
        /\ k.shop = hookTask[t].shop /\ k.hook = hookTask[t].hook
        /\ k.token = hookTask[t].token
    BY <1>1, <2>1, ActiveType DEF HookTask, HookStages, WebhookTypes
  <2>3. hookTask' = [hookTask EXCEPT ![t] = k]
    BY <1>3, <2>1
  <2>4. hookTask' \in [HookTasks -> HookTask] /\ hookTask'[t] = k /\ OthersStay(t)
    BY <1>1, <2>2, <2>3, TaskReplaced DEF OthersStay
  <2>5. WebhookTypes'
    BY <1>1, <1>2, <1>3, <2>4 DEF WebhookTypes, jobsSide, shopifySide
  <2>6. Carries(t)'
    BY <1>1, <1>2, <2>2, <2>4 DEF Carries
  <2> QED BY <1>1, <1>2, <1>3, <2>2, <2>4, <2>5, <2>6, QuietKeeps
          DEF Catching, jobsSide, shopifySide
<1>4. CASE Refuse(t) /\ stale' = (stale \/ hookTask[t].shop # NoHook)
  <2>1. /\ hookTask' \in [HookTasks -> HookTask] /\ hookTask'[t] = IdleHookTask
        /\ OthersStay(t)
    BY <1>1, <1>4, FinishClears DEF Refuse, OthersStay
  <2>2. refused \subseteq refused' /\ refused' \subseteq Hooks
    BY <1>1, <1>4 DEF Refuse, IsHook, WebhookTypes, Carries, Hooks
  <2>3. stale' \in BOOLEAN /\ (stale' = stale \/ stale' = TRUE)
        /\ (hookTask[t].shop # NoHook => stale' = TRUE)
    BY <1>1, <1>4 DEF WebhookTypes
  <2>4. WebhookTypes'
    BY <1>1, <1>2, <2>1, <2>2, <2>3 DEF WebhookTypes, jobsSide, shopifySide
  <2>5. Carries(t)'
    BY <2>1, IdleFields DEF Carries
  <2> QED BY <1>1, <1>2, <2>1, <2>2, <2>3, <2>4, <2>5, QuietKeeps, IdleFields
          DEF Catching, jobsSide, shopifySide
<1> QED BY <1>3, <1>4 DEF ListActive

\* The request that replaces the cache brings it up to date, or was overtaken.
LEMMA SetKeeps ==
  ASSUME WebhookInv, NEW t \in HookTasks, SetActive(t)
  PROVE  WebhookInv'
<1>1. WebhookTypes /\ hookTask[t].at = "set" /\ Carries(t) /\ hookTask[t] \in HookTask
  BY DEF WebhookInv, SetActive, AtStage, WebhookTypes
<1>2. UNCHANGED <<granted, issued, registered, installs, deliveries, jobsSide, refused,
                  estranged>>
  BY DEF SetActive
<1>3. /\ cache' = hookTask[t].list /\ stale' = (t \in overtaken)
      /\ overtaken' = overtaken \ {t}
  BY DEF SetActive
<1>4. /\ hookTask' \in [HookTasks -> HookTask] /\ OthersStay(t)
      /\ \/ /\ hookTask[t].token # NoToken
            /\ hookTask'[t].at = "register" /\ hookTask'[t].hook = hookTask[t].hook
            /\ hookTask'[t].token = hookTask[t].token /\ hookTask'[t].shop = hookTask[t].shop
         \/ hookTask'[t] = IdleHookTask
  <2>1. CASE IsCallback(t) /\ Advance(t, "register")
    BY <1>1, <2>1, AdvanceMoves DEF HookStages, OthersStay, IsCallback
  <2>2. CASE Finish(t)
    BY <1>1, <2>2, FinishClears DEF OthersStay
  <2> QED BY <2>1, <2>2 DEF SetActive
<1>5. hook' \in [Hooks -> {"none", "sent", "acked"}]
      /\ \A h \in Hooks : hook'[h] = hook[h] \/ (h \in UninstallHooks \cap deliveries /\ hook'[h] = "acked")
  <2>1. CASE IsHook(t) /\ Acknowledge(t)
    <3>1. hookTask[t].hook \in UninstallHooks \cap deliveries
      BY <1>1, <2>1 DEF Carries, IsHook
    <3> QED BY <1>1, <2>1, <3>1 DEF Acknowledge, WebhookTypes, Hooks
  <2>2. CASE UNCHANGED hook
    BY <1>1, <2>2 DEF WebhookTypes
  <2> QED BY <2>1, <2>2 DEF SetActive
<1>6. WebhookTypes' /\ IsFiniteSet(queued)'
  <2>1. cache' \in [Shops -> Tokens]
    BY <1>1, <1>3 DEF HookTask
  <2>2. overtaken' \subseteq HookTasks /\ stale' \in BOOLEAN
    BY <1>1, <1>3 DEF WebhookTypes
  <2> QED BY <1>1, <1>2, <1>4, <1>5, <2>1, <2>2 DEF WebhookInv, WebhookTypes, jobsSide
<1>7. \A u \in HookTasks : Carries(u)'
  <2>1. Carries(t)'
    BY <1>1, <1>2, <1>4, IdleFields DEF Carries
  <2>2. \A u \in HookTasks \ {t} : Carries(u)'
    BY <1>1, <1>2, <1>4, CarriesStay DEF jobsSide, WebhookTypes, Hooks
  <2> QED BY <2>1, <2>2
<1>8. OneTaker'
  BY <1>4, TakersStay, IdleFields
<1>9. CacheFollows'
  <2>1. Active' = Active
    BY <1>2 DEF Active
  <2>2. \A u \in HookTasks : hookTask'[u].at = "set" /\ u \notin overtaken' => hookTask'[u].list = Active
    BY <1>3, <1>4, IdleFields DEF WebhookInv, CacheFollows, OthersStay
  <2>3. ~stale' => cache' = Active
    BY <1>1, <1>3 DEF WebhookInv, CacheFollows
  <2> QED BY <2>1, <2>2, <2>3 DEF CacheFollows
<1>10. \A h \in Hooks : Remembered(h)'
  <2> SUFFICES ASSUME NEW h \in Hooks PROVE Remembered(h)'
    OBVIOUS
  <2>1. Remembered(h)
    BY DEF WebhookInv
  <2>2. Taken(h) => Taken(h)'
    BY <1>1, <1>2, <1>4 DEF Taken, OthersStay, jobsSide
  <2> QED BY <1>2, <1>5, <2>1, <2>2 DEF Remembered, jobsSide
<1>11. RemovalNoticed'
  <2>1. HooksGoOn(t)
    BY <1>1, <1>2, <1>5 DEF HooksGoOn, Hooks
  <2> QED BY <1>2, <1>4, <2>1, RemovalStays
<1> QED BY <1>6, <1>7, <1>8, <1>9, <1>10, <1>11 DEF WebhookInv


LEMMA CreateKeeps ==
  ASSUME WebhookInv, NEW t \in HookTasks, NEW h \in Hooks, CreateDeliveryIfAbsent(t, h)
  PROVE  WebhookInv'
<1>1. /\ WebhookTypes /\ hookTask[t].at = "idle" /\ Carries(t) /\ hook[h] = "sent"
      /\ Remembered(h)
  BY DEF WebhookInv, CreateDeliveryIfAbsent, AtStage
<1>2. UNCHANGED <<granted, issued, registered, installs, cache, jobsSide,
                  overtaken, stale, refused, estranged>>
  BY DEF CreateDeliveryIfAbsent
<1>3. CASE /\ h \notin deliveries /\ deliveries' = deliveries \cup {h}
           /\ hookTask' = [hookTask EXCEPT ![t] =
                [IdleHookTask EXCEPT !.at = IF h \in UninstallHooks THEN "mark" ELSE "enqueue",
                                     !.hook = h, !.shop = HookShop[h]]]
           /\ UNCHANGED hook
  <2>1. PICK k : k = [IdleHookTask EXCEPT
                        !.at = IF h \in UninstallHooks THEN "mark" ELSE "enqueue",
                        !.hook = h, !.shop = HookShop[h]]
    OBVIOUS
  <2>2. /\ k \in HookTask /\ k.hook = h /\ k.shop = HookShop[h] /\ k.token = NoToken
        /\ k.at = IF h \in UninstallHooks THEN "mark" ELSE "enqueue"
    <3>1. HookShop[h] \in Shops
      BY WebhookAssumption
    <3> QED BY <2>1, <3>1, IdleType DEF IdleHookTask, HookTask, HookStages, NoToken
  <2>3. hookTask' \in [HookTasks -> HookTask] /\ hookTask'[t] = k /\ OthersStay(t)
    BY <1>1, <1>3, <2>1, <2>2, TaskReplaced DEF OthersStay
  <2>4. WebhookTypes' /\ IsFiniteSet(queued)'
    BY <1>1, <1>2, <1>3, <2>3 DEF WebhookInv, WebhookTypes, jobsSide
  <2>5. h \notin queued /\ worked[h] = 0
    BY <1>1, <1>3 DEF Remembered
  <2>6. \A u \in HookTasks : Carries(u)'
    <3>1. Carries(t)'
      <4>1. /\ k.at # "idle" /\ k.at \notin {"upsert", "register", "list", "set"}
            /\ k.at = "enqueue" => h \in OrderHooks
            /\ k.at = "mark" => h \in UninstallHooks
        BY <2>2 DEF Hooks
      <4>2. h \in deliveries' /\ h \notin queued' /\ worked'[h] = 0
        BY <1>2, <1>3, <2>5 DEF jobsSide
      <4> QED BY <2>2, <2>3, <4>1, <4>2 DEF Carries
    <3>2. \A u \in HookTasks \ {t} : Carries(u)'
      BY <1>1, <1>2, <1>3, <2>3, CarriesStay DEF jobsSide, WebhookTypes, Hooks
    <3> QED BY <3>1, <3>2
  <2>7. OneTaker'
    <3>1. \A u \in HookTasks : hookTask[u].at = "enqueue" => hookTask[u].hook # h
      BY <1>3, WebhookAssumption DEF WebhookInv, Carries, Hooks
    <3> QED BY <2>2, <2>3, <3>1 DEF OneTaker, OthersStay, WebhookInv
  <2>8. CacheFollows'
    BY <1>1, <1>2, <2>2, <2>3, CacheStays DEF Catching
  <2>9. \A g \in Hooks : Remembered(g)'
    <3> SUFFICES ASSUME NEW g \in Hooks PROVE Remembered(g)'
      OBVIOUS
    <3>1. Remembered(g)
      BY DEF WebhookInv
    <3>2. Taken(g) => Taken(g)'
      BY <1>1, <1>2, <2>3 DEF Taken, OthersStay, jobsSide
    <3>3. CASE g = h
      <4>1. h \in OrderHooks => Taken(h)'
        BY <2>2, <2>3, WebhookAssumption DEF Taken
      <4> QED BY <1>1, <1>2, <1>3, <3>1, <3>3, <4>1 DEF Remembered, jobsSide
    <3>4. CASE g # h
      BY <1>2, <1>3, <3>1, <3>2, <3>4 DEF Remembered, jobsSide
    <3> QED BY <3>3, <3>4
  <2>10. RemovalNoticed'
    <3>1. HooksGoOn(t)
      BY <1>1, <1>2, <1>3, <2>2, <2>3 DEF HooksGoOn
    <3> QED BY <1>2, <2>3, <3>1, RemovalStays
  <2> QED BY <2>4, <2>6, <2>7, <2>8, <2>9, <2>10 DEF WebhookInv
<1>4. CASE /\ h \in deliveries /\ hook' = [hook EXCEPT ![h] = "acked"]
           /\ UNCHANGED <<deliveries, hookTask>>
  <2>1. OthersStay(t)
    BY <1>4 DEF OthersStay
  <2>2. hook' \in [Hooks -> {"none", "sent", "acked"}] /\ hook'[h] = "acked"
        /\ \A g \in Hooks \ {h} : hook'[g] = hook[g]
    BY <1>1, <1>4 DEF WebhookTypes
  <2>3. WebhookTypes' /\ IsFiniteSet(queued)'
    BY <1>1, <1>2, <1>4, <2>2 DEF WebhookInv, WebhookTypes, jobsSide
  <2>4. \A u \in HookTasks : Carries(u)'
    BY <1>2, <1>4 DEF WebhookInv, Carries, jobsSide
  <2>5. OneTaker' /\ CacheFollows'
    BY <1>2, <1>4 DEF WebhookInv, OneTaker, CacheFollows, Catching, Active
  <2>6. \A g \in Hooks : Remembered(g)'
    BY <1>2, <1>4, <2>2 DEF WebhookInv, Remembered, Taken, jobsSide
  <2>7. RemovalNoticed'
    <3>1. HooksGoOn(t)
      BY <1>1, <1>2, <1>4, <2>2 DEF HooksGoOn, Hooks
    <3> QED BY <1>2, <2>1, <3>1, RemovalStays
  <2> QED BY <2>3, <2>4, <2>5, <2>6, <2>7 DEF WebhookInv
<1> QED BY <1>3, <1>4 DEF CreateDeliveryIfAbsent, IsNewDelivery

LEMMA MarkKeeps ==
  ASSUME WebhookInv, NEW t \in HookTasks, MarkUninstalled(t)
  PROVE  WebhookInv'
<1>1. /\ WebhookTypes /\ hookTask[t].at = "mark" /\ Carries(t)
      /\ hookTask[t] \in HookTask
  BY DEF WebhookInv, MarkUninstalled, AtStage, WebhookTypes
<1>2. PICK h \in UninstallHooks, s \in Shops :
        h = hookTask[t].hook /\ s = hookTask[t].shop /\ s = HookShop[h]
  BY <1>1, WebhookAssumption DEF Carries, Hooks
<1>3. UNCHANGED <<granted, issued, registered, hook, cache, deliveries, queued, worked,
                  phase, restarts, dropped, stale>>
  BY DEF MarkUninstalled, shopifySide, jobsSide
<1>4. CASE /\ installs' = [installs EXCEPT ![s].active = "no"]
           /\ overtaken' = overtaken \cup Listed(t)
           /\ estranged' = estranged \cup (IF granted[s] = NoToken THEN {} ELSE {s})
           /\ Advance(t, "list")
           /\ UNCHANGED refused
  <2>1. /\ hookTask' \in [HookTasks -> HookTask] /\ OthersStay(t)
        /\ hookTask'[t].at = "list" /\ hookTask'[t].shop = s /\ hookTask'[t].hook = h
        /\ hookTask'[t].token = hookTask[t].token
    BY <1>1, <1>2, <1>4, AdvanceMoves DEF HookStages, OthersStay
  <2>2. /\ installs' \in [Shops -> Install] /\ installs'[s].active = "no"
        /\ \A r \in Shops \ {s} : installs'[r] = installs[r]
    BY <1>1, <1>4 DEF WebhookTypes, Install
  <2>3. overtaken' \subseteq HookTasks /\ estranged' \subseteq Shops
    BY <1>1, <1>4 DEF WebhookTypes, Listed
  <2>4. WebhookTypes' /\ IsFiniteSet(queued)'
    BY <1>1, <1>3, <1>4, <2>1, <2>2, <2>3 DEF WebhookInv, WebhookTypes
  <2>5. \A u \in HookTasks : Carries(u)'
    <3>1. Carries(t)'
      BY <1>1, <1>2, <1>3, <2>1 DEF Carries
    <3>2. \A u \in HookTasks \ {t} : Carries(u)'
      BY <1>1, <1>3, <2>1, CarriesStay DEF WebhookTypes, Hooks
    <3> QED BY <3>1, <3>2
  <2>6. OneTaker'
    BY <2>1, TakersStay
  <2>7. CacheFollows'
    <3>1. Catching(t)'
      BY <2>1, WebhookAssumption DEF Catching
    <3> QED BY <1>4, <2>1, <3>1, RowWritten
  <2>8. \A g \in Hooks : Remembered(g)'
    BY <1>1, <1>3, <1>4, <2>1, MemoryStays
  <2>9. RemovalNoticed'
    <3>1. ASSUME NEW r \in Shops \ {s}, Noticed(r) PROVE Noticed(r)'
      <4>1. PICK g \in UninstallHooks :
              /\ HookShop[g] = r
              /\ \/ hook[g] = "sent" /\ g \notin deliveries
                 \/ g \in refused
                 \/ \E u \in HookTasks : hookTask[u].at = "mark" /\ hookTask[u].hook = g
        BY <3>1 DEF Noticed
      <4>2. g # h
        BY <1>2, <4>1
      <4>3. ASSUME NEW u \in HookTasks, hookTask[u].at = "mark", hookTask[u].hook = g
            PROVE  Noticed(r)'
        <5>1. hookTask'[u] = hookTask[u]
          BY <1>2, <2>1, <4>2, <4>3 DEF OthersStay
        <5> QED BY <4>1, <4>3, <5>1 DEF Noticed
      <4> QED BY <1>3, <1>4, <4>1, <4>3 DEF Noticed
    <3> QED BY <1>3, <1>4, <2>2, <3>1 DEF WebhookInv, RemovalNoticed
  <2> QED BY <2>4, <2>5, <2>6, <2>7, <2>8, <2>9 DEF WebhookInv
<1>5. CASE Refuse(t) /\ UNCHANGED <<installs, overtaken, estranged>>
  <2>1. /\ hookTask' \in [HookTasks -> HookTask] /\ hookTask'[t] = IdleHookTask
        /\ OthersStay(t)
    BY <1>1, <1>5, FinishClears DEF Refuse, OthersStay
  <2>2. refused' = refused \cup {h}
    BY <1>2, <1>5, WebhookAssumption DEF Refuse, IsHook, Hooks
  <2>3. WebhookTypes' /\ IsFiniteSet(queued)'
    BY <1>1, <1>2, <1>3, <1>5, <2>1, <2>2 DEF WebhookInv, WebhookTypes, Hooks
  <2>4. \A u \in HookTasks : Carries(u)'
    <3>1. Carries(t)'
      BY <2>1, IdleFields DEF Carries
    <3>2. \A u \in HookTasks \ {t} : Carries(u)'
      BY <1>1, <1>3, <2>1, CarriesStay DEF WebhookTypes, Hooks
    <3> QED BY <3>1, <3>2
  <2>5. OneTaker' /\ CacheFollows' /\ \A g \in Hooks : Remembered(g)'
    BY <1>1, <1>3, <1>5, <2>1, <2>2, TakersStay, CacheStays, MemoryStays, IdleFields
       DEF Catching
  <2>6. RemovalNoticed'
    <3>1. HooksGoOn(t)
      BY <1>2, <1>3, <2>2 DEF HooksGoOn
    <3> QED BY <1>3, <1>5, <2>1, <3>1, RemovalStays
  <2> QED BY <2>3, <2>4, <2>5, <2>6 DEF WebhookInv
<1> QED BY <1>2, <1>4, <1>5 DEF MarkUninstalled

LEMMA EnqueueKeeps ==
  ASSUME WebhookInv, NEW t \in HookTasks, Enqueue(t)
  PROVE  WebhookInv'
<1>1. /\ WebhookTypes /\ hookTask[t].at = "enqueue" /\ Carries(t)
  BY DEF WebhookInv, Enqueue, AtStage
<1>2. PICK h \in OrderHooks :
        /\ h = hookTask[t].hook /\ h \in deliveries
        /\ h \notin queued /\ worked[h] = 0 /\ h # NoHook
  BY <1>1, WebhookAssumption DEF Carries, Hooks
<1>3. UNCHANGED <<granted, issued, registered, installs, cache, deliveries, worked,
                  phase, restarts, dropped, overtaken, stale, estranged>>
  BY DEF Enqueue
<1>4. /\ hookTask' \in [HookTasks -> HookTask] /\ hookTask'[t] = IdleHookTask
      /\ OthersStay(t)
  BY <1>1, FinishClears DEF Enqueue, Refuse, OthersStay
<1>5. CASE /\ Cardinality(queued) < QueueLimit
           /\ queued' = queued \cup {h}
           /\ Acknowledge(t) /\ UNCHANGED refused
  <2>1. hook' \in [Hooks -> {"none", "sent", "acked"}] /\ hook'[h] = "acked"
        /\ \A g \in Hooks \ {h} : hook'[g] = hook[g]
    BY <1>1, <1>2, <1>5 DEF Acknowledge, WebhookTypes, Hooks
  <2>2. IsFiniteSet(queued') /\ Cardinality(queued') <= QueueLimit
    <3>1. IsFiniteSet(queued) /\ Cardinality(queued) \in Nat
      BY FS_CardinalityType DEF WebhookInv
    <3>2. IsFiniteSet(queued') /\ Cardinality(queued') = Cardinality(queued) + 1
      BY <1>2, <1>5, <3>1, FS_AddElement
    <3> QED BY <1>5, <3>1, <3>2, WebhookAssumption
  <2>3. WebhookTypes'
    BY <1>1, <1>2, <1>3, <1>4, <1>5, <2>1, <2>2 DEF WebhookTypes
  <2>4. \A u \in HookTasks : Carries(u)'
    <3>1. Carries(t)'
      BY <1>4, IdleFields DEF Carries
    <3>2. \A u \in HookTasks \ {t} : Carries(u)'
      BY <1>1, <1>2, <1>3, <1>4, <1>5, CarriesStay DEF WebhookTypes, Hooks
    <3> QED BY <3>1, <3>2
  <2>5. OneTaker' /\ CacheFollows'
    BY <1>1, <1>3, <1>4, TakersStay, CacheStays, IdleFields DEF Catching
  <2>6. \A g \in Hooks : Remembered(g)'
    <3> SUFFICES ASSUME NEW g \in Hooks PROVE Remembered(g)'
      OBVIOUS
    <3>1. Remembered(g)
      BY DEF WebhookInv
    <3>2. Taken(g) => Taken(g)'
      <4>1. CASE g = h
        BY <1>5, <4>1 DEF Taken
      <4>2. CASE g # h
        BY <1>1, <1>2, <1>3, <1>4, <1>5, <4>2 DEF Taken, OthersStay
      <4> QED BY <4>1, <4>2
    <3> QED BY <1>2, <1>3, <1>5, <2>1, <3>1, <3>2 DEF Remembered
  <2>7. RemovalNoticed'
    <3>1. HooksGoOn(t)
      BY <1>1, <1>2, <1>3, <1>5, <2>1, WebhookAssumption DEF HooksGoOn, Hooks
    <3> QED BY <1>3, <1>4, <3>1, RemovalStays
  <2> QED BY <2>2, <2>3, <2>4, <2>5, <2>6, <2>7 DEF WebhookInv
<1>6. CASE Refuse(t) /\ UNCHANGED <<queued, hook>>
  <2>1. refused' = refused \cup {h}
    BY <1>2, <1>6 DEF Refuse, IsHook
  <2>2. WebhookTypes' /\ IsFiniteSet(queued)'
    BY <1>1, <1>2, <1>3, <1>4, <1>6, <2>1 DEF WebhookInv, WebhookTypes, Hooks
  <2>3. \A u \in HookTasks : Carries(u)'
    <3>1. Carries(t)'
      BY <1>4, IdleFields DEF Carries
    <3>2. \A u \in HookTasks \ {t} : Carries(u)'
      BY <1>1, <1>3, <1>4, <1>6, CarriesStay DEF WebhookTypes, Hooks
    <3> QED BY <3>1, <3>2
  <2>4. OneTaker' /\ CacheFollows' /\ \A g \in Hooks : Remembered(g)'
    BY <1>1, <1>2, <1>3, <1>4, <1>6, <2>1, TakersStay, CacheStays, MemoryStays, IdleFields
       DEF Catching
  <2>5. RemovalNoticed'
    <3>1. HooksGoOn(t)
      BY <1>1, <1>3, <1>6, <2>1 DEF HooksGoOn
    <3> QED BY <1>3, <1>4, <3>1, RemovalStays
  <2> QED BY <2>2, <2>3, <2>4, <2>5 DEF WebhookInv
<1> QED BY <1>2, <1>5, <1>6 DEF Enqueue


LEMMA UninstallKeeps ==
  ASSUME WebhookInv, NEW s \in Shops, Uninstall(s)
  PROVE  WebhookInv'
<1>1. WebhookTypes
  BY DEF WebhookInv
<1>2. /\ UNCHANGED <<issued, installs, cache, deliveries, jobsSide, hookTask, overtaken,
                     stale, refused>>
      /\ granted' = [granted EXCEPT ![s] = NoToken]
      /\ registered' = registered \ {s}
  BY DEF Uninstall
<1>3. \/ /\ estranged' = estranged
         /\ \E h \in UninstallHooks :
              /\ HookShop[h] = s /\ hook[h] = "none"
              /\ hook' = [hook EXCEPT ![h] = "sent"]
      \/ estranged' = estranged \cup {s} /\ hook' = hook
  BY DEF Uninstall
<1>4. /\ hook' \in [Hooks -> {"none", "sent", "acked"}]
      /\ \A g \in Hooks : hook'[g] = hook[g] \/ (hook[g] = "none" /\ hook'[g] = "sent")
  BY <1>1, <1>3 DEF WebhookTypes, Hooks
<1>5. WebhookTypes' /\ IsFiniteSet(queued)'
  <2>1. granted' \in [Shops -> Tokens] /\ registered' \subseteq Shops
    BY <1>1, <1>2, WebhookAssumption DEF WebhookTypes, NoToken, Tokens
  <2>2. estranged' \subseteq Shops
    BY <1>1, <1>3 DEF WebhookTypes
  <2> QED BY <1>1, <1>2, <1>4, <2>1, <2>2 DEF WebhookInv, WebhookTypes, jobsSide
<1>6. /\ \A t \in HookTasks : Carries(t)'
      /\ OneTaker' /\ CacheFollows'
  BY <1>2 DEF WebhookInv, Carries, OneTaker, CacheFollows, Catching, Active, jobsSide
<1>7. \A g \in Hooks : Remembered(g)'
  BY <1>2, <1>4 DEF WebhookInv, Remembered, Taken, jobsSide
<1>8. RemovalNoticed'
  <2>1. ASSUME NEW r \in Shops, Noticed(r) PROVE Noticed(r)'
    BY <1>2, <1>4, <2>1 DEF Noticed, Hooks
  <2>2. Noticed(s)' \/ s \in estranged'
    <3>1. ASSUME NEW h \in UninstallHooks, HookShop[h] = s, hook[h] = "none",
                 hook' = [hook EXCEPT ![h] = "sent"]
          PROVE  Noticed(s)'
      <4>1. h \notin deliveries /\ hook'[h] = "sent"
        BY <1>1, <3>1 DEF WebhookInv, Remembered, Hooks, WebhookTypes
      <4> QED BY <1>2, <3>1, <4>1 DEF Noticed
    <3> QED BY <1>3, <3>1
  <2>3. \A r \in Shops \ {s} : granted'[r] = granted[r]
    BY <1>1, <1>2 DEF WebhookTypes
  <2>4. estranged \subseteq estranged'
    BY <1>3
  <2> QED BY <1>2, <2>1, <2>2, <2>3, <2>4 DEF WebhookInv, RemovalNoticed
<1> QED BY <1>5, <1>6, <1>7, <1>8 DEF WebhookInv

LEMMA OrderChangesKeeps ==
  ASSUME WebhookInv, NEW h \in OrderHooks, OrderChanges(h)
  PROVE  WebhookInv'
<1>1. WebhookTypes
  BY DEF WebhookInv
<1>2. UNCHANGED <<granted, issued, registered, installs, cache, deliveries, jobsSide,
                  hookTask, overtaken, stale, refused, estranged>>
  BY DEF OrderChanges
<1>3. /\ hook' \in [Hooks -> {"none", "sent", "acked"}]
      /\ \A g \in Hooks : hook'[g] = hook[g] \/ (hook[g] = "none" /\ hook'[g] = "sent")
  BY <1>1 DEF OrderChanges, WebhookTypes, Hooks
<1>4. WebhookTypes' /\ IsFiniteSet(queued)'
  BY <1>1, <1>2, <1>3 DEF WebhookInv, WebhookTypes, jobsSide
<1>5. /\ \A t \in HookTasks : Carries(t)'
      /\ OneTaker' /\ CacheFollows'
  BY <1>2 DEF WebhookInv, Carries, OneTaker, CacheFollows, Catching, Active, jobsSide
<1>6. \A g \in Hooks : Remembered(g)'
  BY <1>2, <1>3 DEF WebhookInv, Remembered, Taken, jobsSide
<1>7. RemovalNoticed'
  <2>1. ASSUME NEW r \in Shops, Noticed(r) PROVE Noticed(r)'
    BY <1>2, <1>3, <2>1 DEF Noticed, Hooks
  <2> QED BY <1>2, <2>1 DEF WebhookInv, RemovalNoticed
<1> QED BY <1>4, <1>5, <1>6, <1>7 DEF WebhookInv

\* A job leaves the queue once, worked or dropped.
LEMMA WorkKeeps ==
  ASSUME WebhookInv, NEW h \in OrderHooks, WorkJob(h)
  PROVE  WebhookInv'
<1>1. WebhookTypes /\ h \in queued /\ worked[h] = 0 /\ h \in deliveries
  BY DEF WebhookInv, WorkJob, Remembered, Hooks
<1>2. /\ UNCHANGED <<shopifySide, installs, cache, deliveries, phase, hookTask, restarts,
                     overtaken, stale, refused, estranged>>
      /\ queued' = queued \ {h}
  BY DEF WorkJob
<1>3. \/ worked' = [worked EXCEPT ![h] = @ + 1] /\ dropped' = dropped
      \/ worked' = worked /\ dropped' = dropped \cup {h}
  BY DEF WorkJob
<1>4. /\ worked' \in [Hooks -> Nat] /\ dropped \subseteq dropped' /\ dropped' \subseteq Hooks
      /\ worked'[h] \in {0, 1} /\ (worked'[h] = 0 => h \in dropped')
      /\ \A g \in Hooks \ {h} : worked'[g] = worked[g]
  BY <1>1, <1>3 DEF WebhookTypes, Hooks
<1>5. IsFiniteSet(queued') /\ Cardinality(queued') <= QueueLimit
  <2>1. IsFiniteSet(queued) /\ Cardinality(queued) \in Nat
    BY FS_CardinalityType DEF WebhookInv
  <2>2. IsFiniteSet(queued') /\ Cardinality(queued') = Cardinality(queued) - 1
    BY <1>1, <1>2, <2>1, FS_RemoveElement
  <2> QED BY <1>1, <2>1, <2>2, WebhookAssumption DEF WebhookTypes
<1>6. WebhookTypes'
  BY <1>1, <1>2, <1>4, <1>5 DEF WebhookTypes, shopifySide
<1>7. \A t \in HookTasks : hookTask[t].at = "enqueue" => hookTask[t].hook # h
  BY <1>1 DEF WebhookInv, Carries
<1>8. \A t \in HookTasks : Carries(t)'
  <2> SUFFICES ASSUME NEW t \in HookTasks PROVE Carries(t)'
    OBVIOUS
  <2>1. Carries(t)
    BY DEF WebhookInv
  <2>2. hookTask[t].at = "enqueue" =>
          hookTask[t].hook \notin queued' /\ worked'[hookTask[t].hook] = 0
    BY <1>2, <1>4, <1>7, <2>1 DEF Carries, Hooks
  <2> QED BY <1>2, <2>1, <2>2 DEF Carries
<1>9. OneTaker' /\ CacheFollows'
  BY <1>2 DEF WebhookInv, OneTaker, CacheFollows, Catching, Active
<1>10. \A g \in Hooks : Remembered(g)'
  <2> SUFFICES ASSUME NEW g \in Hooks PROVE Remembered(g)'
    OBVIOUS
  <2>1. Remembered(g)
    BY DEF WebhookInv
  <2>2. CASE g = h
    <3>1. Taken(h)'
      BY <1>4 DEF Taken
    <3>2. worked'[h] <= 1 /\ h \notin queued' /\ h \in deliveries'
      BY <1>1, <1>2, <1>4
    <3> QED BY <1>2, <2>1, <2>2, <3>1, <3>2 DEF Remembered, shopifySide
  <2>3. CASE g # h
    <3>1. Taken(g) => Taken(g)'
      BY <1>2, <1>4, <2>3 DEF Taken
    <3> QED BY <1>2, <1>4, <2>1, <2>3, <3>1 DEF Remembered, shopifySide
  <2> QED BY <2>2, <2>3
<1>11. RemovalNoticed'
  BY <1>2 DEF WebhookInv, RemovalNoticed, Noticed, shopifySide
<1> QED BY <1>5, <1>6, <1>8, <1>9, <1>10, <1>11 DEF WebhookInv

\* Steps that leave all but the phase of the process alone.
LEMMA PhaseKeeps ==
  ASSUME WebhookInv, phase' \in {"up", "closed"},
         UNCHANGED <<shopifySide, installs, cache, deliveries, queued, worked, hookTask,
                     restarts, dropped, overtaken, stale, refused, estranged>>
  PROVE  WebhookInv'
<1>1. WebhookTypes' /\ IsFiniteSet(queued)'
  BY DEF WebhookInv, WebhookTypes, shopifySide
<1>2. /\ \A t \in HookTasks : Carries(t)'
      /\ OneTaker' /\ CacheFollows'
  BY DEF WebhookInv, Carries, OneTaker, CacheFollows, Catching, Active
<1>3. \A g \in Hooks : Remembered(g)'
  BY DEF WebhookInv, Remembered, Taken, shopifySide
<1>4. RemovalNoticed'
  BY DEF WebhookInv, RemovalNoticed, Noticed, shopifySide
<1> QED BY <1>1, <1>2, <1>3, <1>4 DEF WebhookInv

\* The process starts again with empty hands and a fresh cache.
LEMMA RestartKeeps ==
  ASSUME WebhookInv, Restart
  PROVE  WebhookInv'
<1>1. WebhookTypes
  BY DEF WebhookInv
<1>2. /\ UNCHANGED <<shopifySide, installs, deliveries, worked, estranged>>
      /\ restarts < MaxRestarts /\ restarts' = restarts + 1 /\ phase' = "up"
      /\ hookTask' = [t \in HookTasks |-> IdleHookTask]
      /\ dropped' = dropped \cup queued /\ queued' = {}
      /\ cache' = Active /\ stale' = FALSE /\ overtaken' = {}
  BY DEF Restart
<1>3. refused' = refused \cup {hookTask[t].hook : t \in
         {u \in HookTasks : hookTask[u].at \in {"mark", "list", "set", "enqueue"} /\ IsHook(u)}}
  BY DEF Restart
<1>4. /\ refused \subseteq refused' /\ refused' \subseteq Hooks
      /\ \A t \in HookTasks : hookTask[t].at \in {"mark", "enqueue"} => hookTask[t].hook \in refused'
  <2>1. \A t \in HookTasks : IsHook(t) => hookTask[t].hook \in Hooks
    BY <1>1 DEF WebhookTypes, HookTask, IsHook
  <2>2. \A t \in HookTasks : hookTask[t].at \in {"mark", "enqueue"} => IsHook(t)
    BY WebhookAssumption DEF WebhookInv, Carries, IsHook, Hooks
  <2> QED BY <1>1, <1>3, <2>1, <2>2 DEF WebhookTypes
<1>5. /\ hookTask' \in [HookTasks -> HookTask]
      /\ \A t \in HookTasks : hookTask'[t] = IdleHookTask
  BY <1>2, IdleType
<1>6. IsFiniteSet(queued') /\ Cardinality(queued') <= QueueLimit
  BY <1>2, FS_EmptySet, WebhookAssumption
<1>7. cache' \in [Shops -> Tokens]
  BY <1>1, <1>2, ActiveType DEF WebhookTypes
<1>8. WebhookTypes'
  <2>1. restarts' \in 0..MaxRestarts
    BY <1>1, <1>2, WebhookAssumption DEF WebhookTypes
  <2>2. /\ queued' \subseteq OrderHooks /\ dropped' \subseteq Hooks
        /\ overtaken' \subseteq HookTasks /\ stale' \in BOOLEAN
        /\ phase' \in {"up", "closed"}
    BY <1>1, <1>2 DEF WebhookTypes, Hooks
  <2> QED BY <1>1, <1>2, <1>4, <1>5, <1>6, <1>7, <2>1, <2>2 DEF WebhookTypes, shopifySide
<1>9. \A t \in HookTasks : Carries(t)'
  BY <1>5, IdleFields DEF Carries
<1>10. OneTaker' /\ CacheFollows'
  <2>1. Active' = Active
    BY <1>2 DEF Active
  <2> QED BY <1>2, <1>5, <2>1, IdleFields DEF OneTaker, CacheFollows
<1>11. \A g \in Hooks : Remembered(g)'
  <2> SUFFICES ASSUME NEW g \in Hooks PROVE Remembered(g)'
    OBVIOUS
  <2>1. Remembered(g)
    BY DEF WebhookInv
  <2>2. g \in OrderHooks \ refused' /\ Taken(g) => Taken(g)'
    BY <1>2, <1>4 DEF Taken
  <2> QED BY <1>2, <1>4, <2>1, <2>2 DEF Remembered, shopifySide
<1>12. RemovalNoticed'
  <2>1. ASSUME NEW r \in Shops, Noticed(r) PROVE Noticed(r)'
    BY <1>2, <1>4, <2>1 DEF Noticed, shopifySide
  <2> QED BY <1>2, <2>1 DEF WebhookInv, RemovalNoticed, shopifySide
<1> QED BY <1>6, <1>8, <1>9, <1>10, <1>11, <1>12 DEF WebhookInv

------------------------------------------------------------------------------
(* The theorems. *)

LEMMA WebhookInitHolds == WebhookInit => WebhookInv
<1> SUFFICES ASSUME WebhookInit PROVE WebhookInv
  OBVIOUS
<1>1. /\ hookTask \in [HookTasks -> HookTask]
      /\ \A t \in HookTasks : hookTask[t] = IdleHookTask
  BY IdleType DEF WebhookInit
<1>2. IsFiniteSet(queued) /\ Cardinality(queued) <= QueueLimit
  BY FS_EmptySet, WebhookAssumption DEF WebhookInit
<1>3. /\ installs \in [Shops -> Install]
      /\ \A s \in Shops : installs[s].active = "no"
  BY WebhookAssumption DEF WebhookInit, Install, Tokens, NoToken
<1>4. granted \in [Shops -> Tokens] /\ cache \in [Shops -> Tokens] /\ issued \in Tokens
  BY WebhookAssumption DEF WebhookInit, Tokens, NoToken
<1>5. WebhookTypes
  <2>1. /\ hook \in [Hooks -> {"none", "sent", "acked"}] /\ worked \in [Hooks -> Nat]
        /\ phase \in {"up", "closed"} /\ restarts \in 0..MaxRestarts
    BY WebhookAssumption DEF WebhookInit
  <2>2. /\ registered \subseteq Shops /\ deliveries \subseteq Hooks /\ queued \subseteq OrderHooks
        /\ overtaken \subseteq HookTasks /\ stale \in BOOLEAN /\ refused \subseteq Hooks
        /\ dropped \subseteq Hooks /\ estranged \subseteq Shops
    BY DEF WebhookInit
  <2> QED BY <1>1, <1>2, <1>3, <1>4, <2>1, <2>2 DEF WebhookTypes
<1>6. \A t \in HookTasks : Carries(t)
  BY <1>1, IdleFields DEF Carries
<1>7. OneTaker
  BY <1>1, IdleFields DEF OneTaker
<1>8. CacheFollows
  <2>1. Active = [s \in Shops |-> NoToken]
    BY <1>3 DEF Active
  <2> QED BY <1>1, <2>1, IdleFields DEF CacheFollows, WebhookInit
<1>9. \A h \in Hooks : Remembered(h)
  BY DEF Remembered, WebhookInit
<1>10. RemovalNoticed
  BY <1>3 DEF RemovalNoticed
<1> QED BY <1>2, <1>5, <1>6, <1>7, <1>8, <1>9, <1>10 DEF WebhookInv

LEMMA WebhookStep == WebhookInv /\ [WebhookNext]_webhookVars => WebhookInv'
<1> SUFFICES ASSUME WebhookInv, [WebhookNext]_webhookVars PROVE WebhookInv'
  OBVIOUS
<1>1. ASSUME NEW t \in HookTasks,
             \/ UpsertInstallation(t) \/ RegisterWebhooks(t)
             \/ ResolveInstallation(t) \/ ListActive(t) \/ SetActive(t)
             \/ MarkUninstalled(t) \/ Enqueue(t)
      PROVE  WebhookInv'
  BY <1>1, UpsertKeeps, RegisterKeeps, ResolveKeeps, ListKeeps, SetKeeps, MarkKeeps,
     EnqueueKeeps
<1>2. ASSUME NEW t \in HookTasks, NEW s \in Shops, ExchangeAuthorizationCode(t, s)
      PROVE  WebhookInv'
  BY <1>2, ExchangeKeeps
<1>3. ASSUME NEW t \in HookTasks, NEW h \in Hooks, CreateDeliveryIfAbsent(t, h)
      PROVE  WebhookInv'
  BY <1>3, CreateKeeps
<1>4. ASSUME NEW s \in Shops, Uninstall(s) PROVE WebhookInv'
  BY <1>4, UninstallKeeps
<1>5. ASSUME NEW h \in OrderHooks, OrderChanges(h) \/ WorkJob(h) PROVE WebhookInv'
  BY <1>5, OrderChangesKeeps, WorkKeeps
<1>6. CASE ShutDown
  BY <1>6, PhaseKeeps DEF ShutDown
<1>7. CASE Restart
  BY <1>7, RestartKeeps
<1>8. CASE UNCHANGED webhookVars
  BY <1>8, PhaseKeeps DEF webhookVars, shopifySide, WebhookInv, WebhookTypes
<1> QED BY <1>1, <1>2, <1>3, <1>4, <1>5, <1>6, <1>7, <1>8 DEF WebhookNext

THEOREM WebhookInvariant == WebhookSpec => []WebhookInv
  BY WebhookInitHolds, WebhookStep, PTL DEF WebhookSpec

\* For any number of shops, deliveries, overlapping requests and restarts: between
\* requests the cache holds the active installations unless a refresh failed or
\* was overtaken; a delivery leads to one job at most; an acknowledged delivery
\* has been taken over unless its first try was refused; and a shop that removed
\* the app is not active with its old token once the notices are worked off.
THEOREM WebhooksSafe == WebhookSpec => []WebhookSafety
<1>1. WebhookInv => WebhookSafety
  <2> SUFFICES ASSUME WebhookInv PROVE WebhookSafety
    OBVIOUS
  <2>1. WebhookTypes /\ CacheAgrees
    BY DEF WebhookInv, CacheAgrees, CacheFollows, Catching, Quiet
  <2>2. JobsOnce
    <3> SUFFICES ASSUME NEW h \in OrderHooks
                 PROVE  worked[h] + (IF h \in queued THEN 1 ELSE 0) <= 1
      BY DEF JobsOnce
    <3> QED BY DEF WebhookInv, WebhookTypes, Remembered, Hooks
  <2>3. AckedIsTaken
    BY DEF WebhookInv, AckedIsTaken, Remembered, Taken, Hooks
  <2>4. RemovedIsInactive
    BY DEF WebhookInv, RemovedIsInactive, RemovalNoticed, Noticed
  <2> QED BY <2>1, <2>2, <2>3, <2>4 DEF WebhookSafety
<1> QED BY <1>1, WebhookInvariant, PTL
==============================================================================
