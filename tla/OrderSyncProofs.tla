--------------------------- MODULE OrderSyncProofs ---------------------------
(* Proofs about OrderSync, for any number of Shopify orders, names, contents   *)
(* and goroutines, any retries and failures, and either driver; and about what *)
(* else is imported of a shop and the client it goes through (ContactBook,     *)
(* ShopifyAdmin, composed in MCShopifyImports), for any number of contacts,    *)
(* customers, requests, variants, rows, shops and callers.                     *)
EXTENDS MCShopifyImports, FiniteSetTheorems, SequenceTheorems, TLAPS

-----------------------------------------------------------------------------
(* Lookups. *)

\* A link leads to an order of the right name.
LEMMA LinkOfKey ==
  ASSUME TypeOK, LinksAgree, NEW r \in Remotes, LinkOf(r) # Nil
  PROVE  /\ LinkOf(r) \in Keys
         /\ orders[LinkOf(r)] # Nil
         /\ LinkOf(r)[2] = Name[r]
<1>1. PICK i \in Linked : links[i].remote = r /\ LinkOf(r) = links[i].key
  BY DEF LinkOf
<1>2. links[i] \in [remote : Remotes, key : Keys]
  BY <1>1 DEF TypeOK, Linked
<1> QED BY <1>1, <1>2 DEF LinksAgree

LEMMA NamedKeys ==
  ASSUME NEW r \in Remotes
  PROVE  /\ ImportKey(r) \in Keys /\ ImportKey(r)[2] = Name[r]
         /\ OtherKey(r) \in Keys /\ OtherKey(r)[2] = Name[r]
  BY SyncAssumption DEF ImportKey, OtherKey, Keys

\* What the search finds exists and has the right name.
LEMMA ExistingKey ==
  ASSUME TypeOK, LinksAgree, NEW r \in Remotes, Existing(r) # Nil
  PROVE  /\ Existing(r) \in Keys
         /\ orders[Existing(r)] # Nil
         /\ Existing(r)[2] = Name[r]
  BY LinkOfKey, NamedKeys DEF Existing

\* The Shopify order an event is sent to has the order's name.
LEMMA LinkedName ==
  ASSUME TypeOK, LinksAgree, NEW k \in Keys, NEW r \in LinkedTo(k)
  PROVE  r \in Remotes /\ Name[r] = k[2]
<1>1. PICK i \in Linked : links[i].key = k /\ links[i].remote = r
  BY DEF LinkedTo
<1>2. links[i] \in [remote : Remotes, key : Keys]
  BY <1>1 DEF TypeOK, Linked
<1> QED BY <1>1, <1>2 DEF LinksAgree

-----------------------------------------------------------------------------
(* What a step of one goroutine leaves to show. *)

\* Orders do not disappear: the other goroutines go on as before.
LEMMA OthersKeep ==
  ASSUME SyncInv, NEW s \in Slots,
         \A t \in Slots \ {s} : slot'[t] = slot[t],
         \A k \in Keys : orders[k] # Nil => orders'[k] # Nil,
         Placed(s)', Carries(s)'
  PROVE  \A t \in Slots : Placed(t)' /\ Carries(t)'
<1> SUFFICES ASSUME NEW t \in Slots, t # s
             PROVE  Placed(t)' /\ Carries(t)'
  OBVIOUS
<1>1. slot'[t] = slot[t] /\ Placed(t) /\ Carries(t)
  BY DEF SyncInv
<1>2. Placed(t)'
  BY <1>1 DEF Placed
<1>3. Carries(t)'
  BY <1>1 DEF Carries, At
<1> QED BY <1>2, <1>3

\* Rows of the link table still agree when orders only gain.
LEMMA LinksKeep ==
  ASSUME SyncInv, UNCHANGED links,
         \A k \in Keys : orders[k] # Nil => orders'[k] # Nil
  PROVE  LinksAgree'
<1>1. \A i \in Linked : links[i].key \in Keys
  BY DEF SyncInv, TypeOK, Linked
<1> QED BY <1>1 DEF SyncInv, LinksAgree, Linked, Matching

\* What a goroutine must not undo about a cancellation.
LEMMA CancelsKeep ==
  ASSUME SyncInv, NEW s \in Slots,
         \A t \in Slots \ {s} : slot'[t] = slot[t],
         \A r \in Remotes : shop[r].state = "cancelled" => shop'[r].state = "cancelled",
         missed \subseteq missed',
         \A k \in Keys :
           k[1] = "shopify" /\ orders'[k] # Nil /\ CancelledHere(orders'[k].last)
           => \/ orders[k] # Nil /\ CancelledHere(orders[k].last)
              \/ WillCancel(s, k)',
         \A k \in Keys :
           k[1] = "shopify" /\ orders'[k] # Nil /\ CancelledHere(orders'[k].last)
           /\ WillCancel(s, k)
           => \/ WillCancel(s, k)'
              \/ k \in missed'
              \/ \E r \in Remotes : Name[r] = k[2] /\ shop'[r].state = "cancelled"
  PROVE  CancelsOnTheirWay'
<1> SUFFICES ASSUME NEW k \in Keys, k[1] = "shopify", orders'[k] # Nil,
                    CancelledHere(orders'[k].last)
             PROVE  \/ \E r \in Remotes : Name[r] = k[2] /\ shop'[r].state = "cancelled"
                    \/ k \in missed'
                    \/ \E t \in Slots : WillCancel(t, k)'
  BY DEF CancelsOnTheirWay
<1>1. CASE WillCancel(s, k)'
  BY <1>1
<1>2. CASE orders[k] # Nil /\ CancelledHere(orders[k].last)
  <2>1. \/ \E r \in Remotes : Name[r] = k[2] /\ shop[r].state = "cancelled"
        \/ k \in missed
        \/ \E t \in Slots : WillCancel(t, k)
    BY <1>2 DEF SyncInv, CancelsOnTheirWay
  <2>2. ASSUME NEW t \in Slots, t # s, WillCancel(t, k)
        PROVE  WillCancel(t, k)'
    BY <2>2 DEF WillCancel, At
  <2> QED BY <2>1, <2>2
<1> QED BY <1>1, <1>2

\* A goroutine at neither end of an event has no cancellation to answer for.
LEMMA NotSending ==
  ASSUME NEW s \in Slots, NEW k \in Keys, slot[s].at \notin {"Read", "Handle"}
  PROVE  ~WillCancel(s, k)
  BY DEF WillCancel, At

\* A step that changes nothing but its own goroutine and the time stamps.
LEMMA QuietStep ==
  ASSUME SyncInv, NEW s \in Slots,
         UNCHANGED <<shop, orders, links, missed, requests, changes>>,
         faults' \in Nat,
         before' \subseteq Slots \X Slots, late' \subseteq Slots,
         slot' \in [Slots -> Slot],
         \A t \in Slots \ {s} : slot'[t] = slot[t],
         Placed(s)', Carries(s)',
         \A k \in Keys :
           k[1] = "shopify" /\ orders[k] # Nil /\ CancelledHere(orders[k].last)
           /\ WillCancel(s, k) => WillCancel(s, k)'
  PROVE  SyncInv'
<1>1. TypeOK'
  BY DEF SyncInv, TypeOK
<1>2. LinksAgree'
  BY LinksKeep
<1>3. CancelsOnTheirWay'
  BY CancelsKeep
<1>4. \A t \in Slots : Placed(t)' /\ Carries(t)'
  BY OthersKeep
<1> QED BY <1>1, <1>2, <1>3, <1>4 DEF SyncInv

LEMMA IdleFits ==
  ASSUME NEW s \in Slots, slot'[s] = Idle
  PROVE  Placed(s)' /\ Carries(s)' /\ \A k \in Keys : ~WillCancel(s, k)'
  BY DEF Idle, Placed, Carries, At, WillCancel

LEMMA IdleTyped == Idle \in Slot
  BY SyncAssumption DEF Idle, Slot

LEMMA EndClears ==
  ASSUME SyncInv, NEW s \in Slots, End(s)
  PROVE  /\ slot' \in [Slots -> Slot]
         /\ slot'[s] = Idle
         /\ \A t \in Slots \ {s} : slot'[t] = slot[t]
  BY IdleTyped DEF SyncInv, TypeOK, End

LEMMA GotoMoves ==
  ASSUME SyncInv, NEW s \in Slots, NEW p \in Working, Goto(s, p)
  PROVE  /\ slot' \in [Slots -> Slot]
         /\ slot'[s] = [slot[s] EXCEPT !.at = p]
         /\ \A t \in Slots \ {s} : slot'[t] = slot[t]
<1>1. slot[s] \in Slot /\ slot \in [Slots -> Slot]
  BY DEF SyncInv, TypeOK
<1>2. [slot[s] EXCEPT !.at = p] \in Slot
  BY <1>1 DEF Slot
<1> QED BY <1>1, <1>2 DEF Goto

-----------------------------------------------------------------------------
(* The import. *)

LEMMA StartSyncStep ==
  ASSUME SyncInv, NEW s \in Slots, NEW r \in Remotes, StartSync(s, r)
  PROVE  SyncInv'
<1>1. shop[r] \in Remote /\ slot \in [Slots -> Slot]
  BY DEF SyncInv, TypeOK
<1>2. PICK p \in {"Pay", "Find"} :
        slot' = [slot EXCEPT ![s] =
          [Idle EXCEPT !.op = "Sync", !.remote = r, !.items = shop[r].items,
                       !.status = Mapped(shop[r]), !.at = p]]
  BY DEF StartSync
<1> DEFINE new == [Idle EXCEPT !.op = "Sync", !.remote = r, !.items = shop[r].items,
                               !.status = Mapped(shop[r]), !.at = p]
<1>3. shop[r].items \in Items /\ Mapped(shop[r]) \in Status
  BY <1>1 DEF Remote, Mapped, Status, AllStates
<1>4. new \in Slot
  BY <1>3, IdleTyped DEF Slot, Working
<1>5. /\ new.at = p /\ new.op = "Sync" /\ new.remote = r
      /\ new.items = shop[r].items /\ new.status = Mapped(shop[r])
  BY DEF Idle
<1> HIDE DEF new
<1>6. /\ slot' \in [Slots -> Slot] /\ slot'[s] = new
      /\ \A t \in Slots \ {s} : slot'[t] = slot[t]
  BY <1>1, <1>2, <1>4 DEF new
<1>7. Placed(s)' /\ Carries(s)'
  BY <1>3, <1>5, <1>6 DEF Placed, Carries, At
<1>8. \A k \in Keys : ~WillCancel(s, k)
  BY NotSending DEF StartSync, At
<1>9. /\ UNCHANGED <<shop, orders, links, missed, requests, changes>>
      /\ faults' \in Nat /\ before' \subseteq Slots \X Slots /\ late' \subseteq Slots
  BY DEF StartSync, SyncInv, TypeOK
<1> QED BY <1>6, <1>7, <1>8, <1>9, QuietStep

LEMMA MarkPaidStep ==
  ASSUME SyncInv, NEW s \in Slots, MarkPaid(s)
  PROVE  SyncInv'
<1> DEFINE r == slot[s].remote
<1>1. /\ slot[s].at = "Pay" /\ Goto(s, "Find") /\ shop[r].state = "pending"
      /\ shop' = [shop EXCEPT ![r].state = "paid"]
      /\ UNCHANGED <<orders, links, before, late, missed, requests, changes, faults>>
  BY DEF MarkPaid, At
<1>2. r \in Remotes /\ TypeOK /\ Placed(s) /\ Carries(s)
  BY <1>1 DEF SyncInv, Carries
<1>3. /\ slot' \in [Slots -> Slot] /\ slot'[s] = [slot[s] EXCEPT !.at = "Find"]
      /\ \A t \in Slots \ {s} : slot'[t] = slot[t]
  BY <1>1, GotoMoves DEF Working
<1>4. /\ slot'[s].at = "Find" /\ slot'[s].op = slot[s].op
      /\ slot'[s].remote = slot[s].remote /\ slot'[s].items = slot[s].items
      /\ slot'[s].status = slot[s].status
  BY <1>2, <1>3 DEF TypeOK, Slot
<1>5. Placed(s)' /\ Carries(s)'
  BY <1>1, <1>2, <1>4 DEF Placed, Carries, At
<1>6. shop' \in [Remotes -> Remote]
  BY <1>1, <1>2 DEF TypeOK, Remote, AllStates
<1>7. \A q \in Remotes : shop[q].state = "cancelled" => shop'[q].state = "cancelled"
  BY <1>1, <1>2 DEF TypeOK, Remote
<1>8. \A k \in Keys : ~WillCancel(s, k)
  BY <1>1, NotSending
<1>9. TypeOK'
  BY <1>1, <1>2, <1>3, <1>6 DEF TypeOK
<1>10. LinksAgree'
  BY <1>1, LinksKeep
<1>11. CancelsOnTheirWay'
  BY <1>1, <1>3, <1>7, <1>8, CancelsKeep
<1>12. \A t \in Slots : Placed(t)' /\ Carries(t)'
  BY <1>1, <1>3, <1>5, OthersKeep
<1> QED BY <1>9, <1>10, <1>11, <1>12 DEF SyncInv

\* Steps of an import between its search and its end, that only move on.
LEMMA MovesOn ==
  ASSUME SyncInv, NEW s \in Slots, NEW p \in {"Find", "Create"},
         slot[s].at \in {"Pay", "Find", "Create"}, Goto(s, p),
         UNCHANGED <<shop, orders, links, before, late, missed, requests, changes>>,
         faults' \in Nat
  PROVE  SyncInv'
<1>1. TypeOK /\ Placed(s) /\ Carries(s)
  BY DEF SyncInv
<1>2. /\ slot' \in [Slots -> Slot] /\ slot'[s] = [slot[s] EXCEPT !.at = p]
      /\ \A t \in Slots \ {s} : slot'[t] = slot[t]
  BY GotoMoves DEF Working
<1>3. /\ slot'[s].at = p /\ slot'[s].op = slot[s].op
      /\ slot'[s].remote = slot[s].remote /\ slot'[s].items = slot[s].items
      /\ slot'[s].status = slot[s].status
  BY <1>1, <1>2 DEF TypeOK, Slot
<1>4. Placed(s)' /\ Carries(s)'
  BY <1>1, <1>3 DEF Placed, Carries, At
<1>5. \A k \in Keys : ~WillCancel(s, k)
  BY NotSending
<1>6. before' \subseteq Slots \X Slots /\ late' \subseteq Slots
  BY <1>1 DEF TypeOK
<1> QED BY <1>2, <1>4, <1>5, <1>6, QuietStep

\* A goroutine that ends without an event on its way.
LEMMA Ends ==
  ASSUME SyncInv, NEW s \in Slots, End(s),
         UNCHANGED <<shop, orders, links, missed, requests, changes>>,
         faults' \in Nat,
         before' \subseteq Slots \X Slots, late' \subseteq Slots,
         \A k \in Keys : ~(k[1] = "shopify" /\ orders[k] # Nil
                           /\ CancelledHere(orders[k].last) /\ WillCancel(s, k))
  PROVE  SyncInv'
<1>1. /\ slot' \in [Slots -> Slot] /\ slot'[s] = Idle
      /\ \A t \in Slots \ {s} : slot'[t] = slot[t]
  BY EndClears
<1>2. Placed(s)' /\ Carries(s)'
  BY <1>1, IdleFits
<1> QED BY <1>1, <1>2, QuietStep

LEMMA MarkPaidRefusedStep ==
  ASSUME SyncInv, NEW s \in Slots, MarkPaidRefused(s)
  PROVE  SyncInv'
<1>1. /\ slot[s].at = "Pay" /\ Goto(s, "Find")
      /\ UNCHANGED <<shop, orders, links, before, late, missed, requests, changes>>
  BY DEF MarkPaidRefused, At
<1>2. faults' \in Nat
  BY DEF MarkPaidRefused, Fault, SyncInv, TypeOK
<1> QED BY <1>1, <1>2, MovesOn

LEMMA FindStep ==
  ASSUME SyncInv, NEW s \in Slots, Find(s)
  PROVE  SyncInv'
<1> DEFINE k == Existing(slot[s].remote)
<1>1. /\ slot[s].at = "Find"
      /\ UNCHANGED <<shop, orders, links, before, late, missed, requests, changes, faults>>
  BY DEF Find, At
<1>2. TypeOK /\ LinksAgree /\ Carries(s) /\ slot[s] \in Slot /\ slot \in [Slots -> Slot]
  BY DEF SyncInv, TypeOK
<1>3. slot[s].op = "Sync" /\ slot[s].remote \in Remotes
  BY <1>1, <1>2 DEF Carries
<1>4. CASE k = Nil
  <2>1. Goto(s, "Create")
    BY <1>4 DEF Find
  <2> QED BY <1>1, <1>2, <2>1, MovesOn DEF TypeOK
<1>5. CASE k # Nil
  <2> DEFINE new == [slot[s] EXCEPT !.at = "Load", !.key = k]
  <2>1. k \in Keys /\ orders[k] # Nil /\ k[2] = Name[slot[s].remote]
    BY <1>2, <1>3, <1>5, ExistingKey
  <2>2. slot' = [slot EXCEPT ![s] = new]
    BY <1>5 DEF Find
  <2> HIDE DEF k
  <2>3. /\ new \in Slot
        /\ new.at = "Load" /\ new.key = k /\ new.op = slot[s].op
        /\ new.remote = slot[s].remote /\ new.items = slot[s].items
        /\ new.status = slot[s].status
    BY <1>2, <2>1 DEF Slot, Working
  <2> HIDE DEF new
  <2>4. /\ slot' \in [Slots -> Slot] /\ slot'[s] = new
        /\ \A t \in Slots \ {s} : slot'[t] = slot[t]
    BY <1>2, <2>2, <2>3
  <2>5. Placed(s)' /\ Carries(s)'
    BY <1>1, <1>2, <1>3, <2>1, <2>3, <2>4 DEF Placed, Carries, At
  <2>6. \A j \in Keys : ~WillCancel(s, j)
    BY <1>1, NotSending
  <2>7. faults' \in Nat /\ before' \subseteq Slots \X Slots /\ late' \subseteq Slots
    BY <1>1, <1>2 DEF TypeOK
  <2> QED BY <1>1, <2>4, <2>5, <2>6, <2>7, QuietStep
<1> QED BY <1>4, <1>5

\* The new order is the import's, so nobody has cancelled it here.
LEMMA CreateStep ==
  ASSUME SyncInv, NEW s \in Slots, Create(s)
  PROVE  SyncInv'
<1> DEFINE k == ImportKey(slot[s].remote)
           o == [items |-> slot[s].items,
                 last |-> [status |-> slot[s].status, author |-> "shopify_sync"]]
           new == [slot[s] EXCEPT !.at = "Link", !.key = k]
<1>1. /\ slot[s].at = "Create" /\ orders[k] = Nil
      /\ orders' = [orders EXCEPT ![k] = o] /\ slot' = [slot EXCEPT ![s] = new]
      /\ UNCHANGED <<shop, links, before, late, missed, requests, changes, faults>>
  BY DEF Create, At
<1>2. TypeOK /\ Carries(s) /\ slot[s] \in Slot /\ slot \in [Slots -> Slot]
  BY DEF SyncInv, TypeOK
<1>3. /\ slot[s].op = "Sync" /\ slot[s].remote \in Remotes
      /\ slot[s].items \in Items /\ slot[s].status \in Status
  BY <1>1, <1>2 DEF Carries
<1>4. k \in Keys /\ k[2] = Name[slot[s].remote]
  BY <1>3, NamedKeys
<1>5. o \in Order /\ o # Nil /\ ~CancelledHere(o.last)
  BY <1>3, NilAssumption DEF Order, Entry, CancelledHere
<1> HIDE DEF k, o
<1>6. /\ new \in Slot /\ new.at = "Link" /\ new.key = k /\ new.op = slot[s].op
      /\ new.remote = slot[s].remote
  BY <1>2, <1>4 DEF Slot, Working
<1> HIDE DEF new
<1>7. /\ slot' \in [Slots -> Slot] /\ slot'[s] = new
      /\ \A t \in Slots \ {s} : slot'[t] = slot[t]
  BY <1>1, <1>2, <1>6
<1>8. /\ orders' \in [Keys -> Order \cup {Nil}] /\ orders'[k] = o
      /\ \A j \in Keys \ {k} : orders'[j] = orders[j]
  BY <1>1, <1>2, <1>4, <1>5 DEF TypeOK
<1>9. TypeOK'
  BY <1>1, <1>2, <1>7, <1>8 DEF TypeOK
<1>10. \A j \in Keys : orders[j] # Nil => orders'[j] # Nil
  BY <1>5, <1>8
<1>11. LinksAgree'
  BY <1>1, <1>10, LinksKeep
<1>12. Placed(s)' /\ Carries(s)'
  BY <1>3, <1>4, <1>5, <1>6, <1>7, <1>8 DEF Placed, Carries, At
<1>13. \A j \in Keys : orders'[j] # Nil /\ CancelledHere(orders'[j].last)
                      => orders[j] # Nil /\ CancelledHere(orders[j].last)
  BY <1>5, <1>8
<1>14. \A j \in Keys : ~WillCancel(s, j)
  BY <1>1, NotSending
<1>15. CancelsOnTheirWay'
  BY <1>1, <1>7, <1>13, <1>14, CancelsKeep
<1>16. \A t \in Slots : Placed(t)' /\ Carries(t)'
  BY <1>7, <1>10, <1>12, OthersKeep
<1> QED BY <1>9, <1>11, <1>15, <1>16 DEF SyncInv

LEMMA CreateTakenStep ==
  ASSUME SyncInv, NEW s \in Slots, CreateTaken(s)
  PROVE  SyncInv'
<1>1. /\ slot[s].at = "Create"
      /\ UNCHANGED <<shop, orders, links, before, late, missed, requests, changes, faults>>
      /\ Goto(s, "Find") \/ End(s)
  BY DEF CreateTaken, At
<1>2. faults' \in Nat /\ before' \subseteq Slots \X Slots /\ late' \subseteq Slots
  BY <1>1 DEF SyncInv, TypeOK
<1>3. \A k \in Keys : ~WillCancel(s, k)
  BY <1>1, NotSending
<1>4. CASE Goto(s, "Find")
  BY <1>1, <1>2, <1>4, MovesOn
<1>5. CASE End(s)
  BY <1>1, <1>2, <1>3, <1>5, Ends
<1> QED BY <1>1, <1>4, <1>5

LEMMA CompareStep ==
  ASSUME SyncInv, NEW s \in Slots, Compare(s)
  PROVE  SyncInv'
<1>1. PICK p \in {"Link", "Append"} :
        slot' = [slot EXCEPT ![s] = [slot[s] EXCEPT !.at = p, !.view = Nil]]
  BY DEF Compare
<1> DEFINE new == [slot[s] EXCEPT !.at = p, !.view = Nil]
<1>2. /\ slot[s].at = "Compare"
      /\ UNCHANGED <<shop, orders, links, late, missed, requests, changes, faults>>
      /\ UNCHANGED before \/ Stamp(s)
  BY DEF Compare, At
<1>3. /\ TypeOK /\ Carries(s) /\ Placed(s)
      /\ slot[s] \in Slot /\ slot \in [Slots -> Slot]
  BY DEF SyncInv, TypeOK
<1>4. /\ new \in Slot /\ new.at = p /\ new.op = slot[s].op /\ new.key = slot[s].key
      /\ new.remote = slot[s].remote /\ new.status = slot[s].status
  BY <1>3, ZenonT(60) DEF Slot, Working
<1> HIDE DEF new
<1>5. /\ slot' \in [Slots -> Slot] /\ slot'[s] = new
      /\ \A t \in Slots \ {s} : slot'[t] = slot[t]
  BY <1>1, <1>3, <1>4 DEF new
<1>6. Placed(s)' /\ Carries(s)'
  BY <1>2, <1>3, <1>4, <1>5 DEF Placed, Carries, At
<1>7. \A k \in Keys : ~WillCancel(s, k)
  BY <1>2, NotSending
<1>8. faults' \in Nat /\ before' \subseteq Slots \X Slots /\ late' \subseteq Slots
  BY <1>2, <1>3 DEF TypeOK, Stamp
<1> QED BY <1>2, <1>5, <1>6, <1>7, <1>8, QuietStep

LEMMA LinkStep ==
  ASSUME SyncInv, NEW s \in Slots, Link(s)
  PROVE  SyncInv'
<1>1. PICK i \in Rows \cup {Nil} :
        slot' = [slot EXCEPT ![s] = [slot[s] EXCEPT !.at = "Save", !.row = i]]
  BY ZenonT(60) DEF Link, Matching, Linked
<1> DEFINE new == [slot[s] EXCEPT !.at = "Save", !.row = i]
<1>2. /\ slot[s].at = "Link"
      /\ UNCHANGED <<shop, orders, links, before, late, missed, requests, changes, faults>>
  BY DEF Link, At
<1>3. /\ TypeOK /\ Carries(s) /\ Placed(s)
      /\ slot[s] \in Slot /\ slot \in [Slots -> Slot]
  BY DEF SyncInv, TypeOK
<1>4. /\ new \in Slot /\ new.at = "Save" /\ new.op = slot[s].op
      /\ new.key = slot[s].key /\ new.remote = slot[s].remote
  BY <1>3, ZenonT(60) DEF Slot, Working
<1> HIDE DEF new
<1>5. /\ slot' \in [Slots -> Slot] /\ slot'[s] = new
      /\ \A t \in Slots \ {s} : slot'[t] = slot[t]
  BY <1>1, <1>3, <1>4 DEF new
<1>6. Placed(s)' /\ Carries(s)'
  BY <1>2, <1>3, <1>4, <1>5 DEF Placed, Carries, At
<1>7. \A k \in Keys : ~WillCancel(s, k)
  BY <1>2, NotSending
<1>8. faults' \in Nat /\ before' \subseteq Slots \X Slots /\ late' \subseteq Slots
  BY <1>2, <1>3 DEF TypeOK
<1> QED BY <1>2, <1>5, <1>6, <1>7, <1>8, QuietStep

\* The unique keys of the table keep the rows apart.
LEMMA SaveStep ==
  ASSUME SyncInv, NEW s \in Slots, Save(s)
  PROVE  SyncInv'
<1> DEFINE r == slot[s].remote
           k == slot[s].key
           new == [remote |-> r, key |-> k]
<1>1. PICK j \in Rows : /\ j \in IF slot[s].row = Nil THEN Rows \ Linked
                                                    ELSE {slot[s].row}
                        /\ links' = [links EXCEPT ![j] = new]
  BY DEF Save, SyncInv, TypeOK, Slot
<1>2. /\ slot[s].at = "Save" /\ End(s) /\ Matching(r, k) \subseteq {slot[s].row}
      /\ UNCHANGED <<shop, orders, before, late, missed, requests, changes, faults>>
  BY DEF Save, At
<1>3. TypeOK /\ LinksAgree /\ Carries(s) /\ Placed(s)
  BY DEF SyncInv
<1>4. /\ r \in Remotes /\ k \in Keys /\ orders[k] # Nil /\ k[2] = Name[r]
  BY <1>2, <1>3 DEF Carries, Placed
<1>5. new.remote = r /\ new.key = k /\ new \in [remote : Remotes, key : Keys]
  BY <1>4
<1>6. new # Nil /\ Nil \notin Rows
  BY <1>5, NilAssumption DEF Rows
<1>7. Matching(r, k) \subseteq {j}
  BY <1>1, <1>2, <1>6 DEF Matching, Linked
<1> HIDE DEF new, r, k
<1>8. /\ links' \in [Rows -> [remote : Remotes, key : Keys] \cup {Nil}]
      /\ links'[j] = new /\ \A i \in Rows \ {j} : links'[i] = links[i]
  BY <1>1, <1>3, <1>5 DEF TypeOK
<1>9. ASSUME NEW i \in Linked'
      PROVE  /\ orders'[links'[i].key] # Nil
             /\ links'[i].key[2] = Name[links'[i].remote]
             /\ \A x \in Linked' : links'[x].remote = links'[i].remote
                                    \/ links'[x].key = links'[i].key => x = i
  <2>1. \A x \in Rows \ {j} : x \in Linked' => /\ x \in Linked
                                               /\ links[x].remote # r
                                               /\ links[x].key # k
    BY <1>7, <1>8 DEF Linked, Matching
  <2>2. CASE i = j
    BY <1>2, <1>4, <1>5, <1>8, <2>1, <2>2 DEF Linked
  <2>3. CASE i # j
    <3>1. i \in Linked /\ links'[i] = links[i] /\ i \in Rows
      BY <1>8, <2>1, <2>3 DEF Linked
    <3>2. /\ orders[links[i].key] # Nil /\ links[i].key[2] = Name[links[i].remote]
          /\ Matching(links[i].remote, links[i].key) = {i}
      BY <1>3, <3>1 DEF LinksAgree
    <3>3. \A x \in Linked' : links'[x].remote = links[i].remote
                             \/ links'[x].key = links[i].key => x = i
      <4> SUFFICES ASSUME NEW x \in Linked',
                          links'[x].remote = links[i].remote
                          \/ links'[x].key = links[i].key
                   PROVE  x = i
        OBVIOUS
      <4>1. x # j
        BY <1>5, <1>8, <2>1, <2>3, <3>1 DEF Linked
      <4>2. x \in Linked /\ links'[x] = links[x]
        BY <1>8, <2>1, <4>1 DEF Linked
      <4> QED BY <3>2, <4>2 DEF Matching
    <3> QED BY <1>2, <3>1, <3>2, <3>3
  <2> QED BY <2>2, <2>3
<1>10. LinksAgree'
  BY <1>9 DEF LinksAgree, Matching
<1>11. /\ slot' \in [Slots -> Slot] /\ slot'[s] = Idle
       /\ \A t \in Slots \ {s} : slot'[t] = slot[t]
  BY <1>2, EndClears
<1>12. TypeOK'
  BY <1>2, <1>3, <1>8, <1>11 DEF TypeOK
<1>13. \A q \in Keys : ~WillCancel(s, q)
  BY <1>2, NotSending
<1>14. CancelsOnTheirWay'
  BY <1>2, <1>11, <1>13, CancelsKeep
<1>15. \A t \in Slots : Placed(t)' /\ Carries(t)'
  BY <1>2, <1>11, IdleFits, OthersKeep
<1> QED BY <1>10, <1>12, <1>14, <1>15 DEF SyncInv

LEMMA SaveTakenStep ==
  ASSUME SyncInv, NEW s \in Slots, SaveTaken(s)
  PROVE  SyncInv'
<1>1. /\ slot[s].at = "Save" /\ End(s)
      /\ UNCHANGED <<shop, orders, links, before, late, missed, requests, changes, faults>>
  BY DEF SaveTaken, At
<1>2. faults' \in Nat /\ before' \subseteq Slots \X Slots /\ late' \subseteq Slots
  BY <1>1 DEF SyncInv, TypeOK
<1>3. \A k \in Keys : ~WillCancel(s, k)
  BY <1>1, NotSending
<1> QED BY <1>1, <1>2, <1>3, Ends

-----------------------------------------------------------------------------
(* The order service. *)

\* A request takes an idle goroutine: its record is the new one, and requests
\* are counted.
LEMMA Starts ==
  ASSUME SyncInv, NEW s \in Slots, At(s, "Idle"), Request,
         NEW new \in Slot, slot' = [slot EXCEPT ![s] = new],
         UNCHANGED <<shop, orders, links, late, missed, changes, faults>>,
         before' \subseteq Slots \X Slots,
         Placed(s)', Carries(s)'
  PROVE  SyncInv'
<1>1. /\ slot' \in [Slots -> Slot] /\ slot'[s] = new
      /\ \A t \in Slots \ {s} : slot'[t] = slot[t]
  BY DEF SyncInv, TypeOK
<1>2. TypeOK'
  BY <1>1 DEF SyncInv, TypeOK, Request
<1>3. LinksAgree'
  BY LinksKeep
<1>4. \A k \in Keys : ~WillCancel(s, k)
  BY NotSending DEF At
<1>5. CancelsOnTheirWay'
  BY <1>1, <1>4, CancelsKeep
<1>6. \A t \in Slots : Placed(t)' /\ Carries(t)'
  BY <1>1, OthersKeep
<1> QED BY <1>2, <1>3, <1>5, <1>6 DEF SyncInv

LEMMA CreateOtherStep ==
  ASSUME SyncInv, NEW s \in Slots, NEW k \in Keys, CreateOther(s, k)
  PROVE  SyncInv'
<1>1. PICK i \in Items :
        orders' = [orders EXCEPT ![k] =
          [items |-> i, last |-> [status |-> "CREATED", author |-> "local"]]]
  BY DEF CreateOther
<1> DEFINE o == [items |-> i, last |-> [status |-> "CREATED", author |-> "local"]]
<1>2. o \in Order /\ o # Nil /\ ~CancelledHere(o.last)
  BY NilAssumption DEF Order, Entry, Status, CancelledHere
<1> HIDE DEF o
<1>3. /\ TypeOK
      /\ UNCHANGED <<shop, links, slot, before, late, missed, changes, faults>>
      /\ requests' = requests + 1
  BY DEF SyncInv, CreateOther, Request
<1>4. /\ orders' \in [Keys -> Order \cup {Nil}] /\ orders'[k] = o
      /\ \A j \in Keys \ {k} : orders'[j] = orders[j]
  BY <1>1, <1>2, <1>3 DEF TypeOK, o
<1>5. TypeOK'
  BY <1>3, <1>4 DEF TypeOK
<1>6. \A j \in Keys : orders[j] # Nil => orders'[j] # Nil
  BY <1>2, <1>4
<1>7. LinksAgree'
  BY <1>3, <1>6, LinksKeep
<1>8. \A j \in Keys : orders'[j] # Nil /\ CancelledHere(orders'[j].last)
                      => orders[j] # Nil /\ CancelledHere(orders[j].last)
  BY <1>2, <1>4
<1>9. \A j \in Keys : WillCancel(s, j) => WillCancel(s, j)'
  BY <1>3 DEF WillCancel, At
<1>10. CancelsOnTheirWay'
  BY <1>3, <1>8, <1>9, CancelsKeep
<1>11. Placed(s)' /\ Carries(s)'
  BY <1>3, <1>6 DEF SyncInv, Placed, Carries, At
<1>12. \A t \in Slots : Placed(t)' /\ Carries(t)'
  BY <1>3, <1>6, <1>11, OthersKeep
<1> QED BY <1>5, <1>7, <1>10, <1>12 DEF SyncInv

LEMMA StartEditStep ==
  ASSUME SyncInv, NEW s \in Slots, NEW k \in Keys, StartEdit(s, k)
  PROVE  SyncInv'
<1>1. PICK i \in Items :
        slot' = [slot EXCEPT ![s] = [Idle EXCEPT !.op = "Edit", !.at = "Load",
                                       !.key = k, !.items = i]]
  BY DEF StartEdit
<1> DEFINE new == [Idle EXCEPT !.op = "Edit", !.at = "Load", !.key = k, !.items = i]
<1>2. /\ At(s, "Idle") /\ Request /\ orders[k] # Nil
      /\ UNCHANGED <<shop, orders, links, before, late, missed, changes, faults>>
      /\ before \subseteq Slots \X Slots /\ slot \in [Slots -> Slot]
  BY DEF StartEdit, SyncInv, TypeOK
<1>3. new \in Slot
  BY IdleTyped DEF Slot, Working
<1>4. new.op = "Edit" /\ new.at = "Load" /\ new.key = k /\ new.items = i
  BY DEF Idle
<1> HIDE DEF new
<1>5. slot' = [slot EXCEPT ![s] = new] /\ slot'[s] = new
  BY <1>1, <1>2 DEF new
<1>6. Placed(s)' /\ Carries(s)'
  BY <1>2, <1>4, <1>5 DEF Placed, Carries, At
<1> QED BY <1>2, <1>3, <1>5, <1>6, Starts

LEMMA StartStatusStep ==
  ASSUME SyncInv, NEW s \in Slots, NEW k \in Keys, StartStatus(s, k)
  PROVE  SyncInv'
<1>1. PICK st \in LocalStatuses :
        slot' = [slot EXCEPT ![s] = [Idle EXCEPT !.op = "Status", !.at = "Append",
                                       !.key = k, !.status = st]]
  BY DEF StartStatus
<1> DEFINE new == [Idle EXCEPT !.op = "Status", !.at = "Append", !.key = k,
                               !.status = st]
<1>2. /\ At(s, "Idle") /\ Request /\ orders[k] # Nil
      /\ UNCHANGED <<shop, orders, links, late, missed, changes, faults>>
      /\ slot \in [Slots -> Slot]
  BY DEF StartStatus, SyncInv, TypeOK
<1>3. before' \subseteq Slots \X Slots
  BY DEF StartStatus, Stamp, SyncInv, TypeOK
<1>4. st \in Status
  BY SyncAssumption
<1>5. new \in Slot
  BY <1>4, IdleTyped DEF Slot, Working
<1>6. new.op = "Status" /\ new.at = "Append" /\ new.key = k /\ new.status = st
  BY DEF Idle
<1> HIDE DEF new
<1>7. slot' = [slot EXCEPT ![s] = new] /\ slot'[s] = new
  BY <1>1, <1>2 DEF new
<1>8. Placed(s)' /\ Carries(s)'
  BY <1>2, <1>4, <1>6, <1>7 DEF Placed, Carries, At
<1> QED BY <1>2, <1>3, <1>5, <1>7, <1>8, Starts

LEMMA StartCommentStep ==
  ASSUME SyncInv, NEW s \in Slots, NEW k \in Keys, StartComment(s, k)
  PROVE  SyncInv'
<1> DEFINE new == [Idle EXCEPT !.op = "Comment", !.at = "Read", !.key = k,
                               !.topic = "updated"]
<1>1. slot' = [slot EXCEPT ![s] = new]
  BY DEF StartComment
<1>2. /\ At(s, "Idle") /\ Request /\ orders[k] # Nil
      /\ UNCHANGED <<shop, orders, links, before, late, missed, changes, faults>>
      /\ before \subseteq Slots \X Slots /\ slot \in [Slots -> Slot]
  BY DEF StartComment, SyncInv, TypeOK
<1>3. new \in Slot
  BY IdleTyped DEF Slot, Working
<1>4. new.op = "Comment" /\ new.at = "Read" /\ new.key = k /\ new.topic = "updated"
  BY DEF Idle
<1> HIDE DEF new
<1>5. slot'[s] = new
  BY <1>1, <1>2
<1>6. Placed(s)' /\ Carries(s)'
  BY <1>2, <1>4, <1>5 DEF Placed, Carries, At
<1> QED BY <1>1, <1>2, <1>3, <1>6, Starts

\* Reading an order to change it, and finding nothing to change.
LEMMA LoadStep ==
  ASSUME SyncInv, NEW s \in Slots, Load(s)
  PROVE  SyncInv'
<1>1. /\ slot[s].at = "Load"
      /\ UNCHANGED <<shop, orders, links, before, late, missed, requests, changes, faults>>
  BY DEF Load, At
<1>2. /\ TypeOK /\ Carries(s) /\ Placed(s)
      /\ slot[s] \in Slot /\ slot \in [Slots -> Slot]
  BY DEF SyncInv, TypeOK
<1>3. faults' \in Nat /\ before' \subseteq Slots \X Slots /\ late' \subseteq Slots
  BY <1>1, <1>2 DEF TypeOK
<1>4. \A k \in Keys : ~WillCancel(s, k)
  BY <1>1, NotSending
<1>5. slot[s].key \in Keys /\ orders[slot[s].key] \in Order
  BY <1>1, <1>2 DEF Placed, TypeOK
<1>6. \/ Goto(s, "Write")
      \/ End(s)
      \/ /\ slot[s].op = "Sync"
         /\ slot' = [slot EXCEPT ![s] = [slot[s] EXCEPT !.at = "Compare",
                                           !.view = orders[slot[s].key]]]
  BY DEF Load, AfterUnchanged
<1>7. CASE Goto(s, "Write")
  <2>1. /\ slot' \in [Slots -> Slot] /\ slot'[s] = [slot[s] EXCEPT !.at = "Write"]
        /\ \A t \in Slots \ {s} : slot'[t] = slot[t]
    BY <1>7, GotoMoves DEF Working
  <2>2. /\ slot'[s].at = "Write" /\ slot'[s].op = slot[s].op
        /\ slot'[s].remote = slot[s].remote /\ slot'[s].items = slot[s].items
        /\ slot'[s].status = slot[s].status /\ slot'[s].key = slot[s].key
    BY <1>2, <2>1 DEF Slot
  <2>3. Placed(s)' /\ Carries(s)'
    BY <1>1, <1>2, <2>2 DEF Placed, Carries, At
  <2> QED BY <1>1, <1>3, <1>4, <2>1, <2>3, QuietStep
<1>8. CASE End(s)
  BY <1>1, <1>3, <1>4, <1>8, Ends
<1>9. CASE /\ slot[s].op = "Sync"
           /\ slot' = [slot EXCEPT ![s] = [slot[s] EXCEPT !.at = "Compare",
                                             !.view = orders[slot[s].key]]]
  <2> DEFINE new == [slot[s] EXCEPT !.at = "Compare", !.view = orders[slot[s].key]]
  <2>1. /\ new \in Slot /\ new.at = "Compare" /\ new.op = slot[s].op
        /\ new.remote = slot[s].remote /\ new.key = slot[s].key
        /\ new.status = slot[s].status /\ new.view \in Order
    BY <1>2, <1>5 DEF Slot, Working
  <2> HIDE DEF new
  <2>2. /\ slot' \in [Slots -> Slot] /\ slot'[s] = new
        /\ \A t \in Slots \ {s} : slot'[t] = slot[t]
    BY <1>2, <1>9, <2>1 DEF new
  <2>3. Placed(s)' /\ Carries(s)'
    BY <1>1, <1>2, <1>9, <2>1, <2>2 DEF Placed, Carries, At
  <2> QED BY <1>1, <1>3, <1>4, <2>2, <2>3, QuietStep
<1> QED BY <1>6, <1>7, <1>8, <1>9

\* Replacing an order's contents leaves its status alone.
LEMMA WriteStep ==
  ASSUME SyncInv, NEW s \in Slots, Write(s)
  PROVE  SyncInv'
<1> DEFINE k == slot[s].key
           o == [orders[k] EXCEPT !.items = slot[s].items]
           new == [slot[s] EXCEPT !.at = "Read", !.topic = "updated", !.items = Nil]
<1>1. /\ slot[s].at = "Write"
      /\ orders' = [orders EXCEPT ![k] = o] /\ slot' = [slot EXCEPT ![s] = new]
      /\ UNCHANGED <<shop, links, before, late, missed, requests, changes, faults>>
  BY DEF Write, At
<1>2. /\ TypeOK /\ Carries(s) /\ Placed(s)
      /\ slot[s] \in Slot /\ slot \in [Slots -> Slot]
  BY DEF SyncInv, TypeOK
<1>3. k \in Keys /\ orders[k] # Nil /\ orders[k] \in Order /\ slot[s].items \in Items
  BY <1>1, <1>2 DEF Placed, Carries, TypeOK
<1>4. o \in Order /\ o # Nil /\ o.last = orders[k].last
  BY <1>3, NilAssumption DEF Order
<1>5. /\ new \in Slot /\ new.at = "Read" /\ new.op = slot[s].op
      /\ new.remote = slot[s].remote /\ new.key = k
      /\ new.status = slot[s].status /\ new.topic = "updated"
  BY <1>2 DEF Slot, Working
<1> HIDE DEF o, new
<1>6. /\ slot' \in [Slots -> Slot] /\ slot'[s] = new
      /\ \A t \in Slots \ {s} : slot'[t] = slot[t]
  BY <1>1, <1>2, <1>5
<1>7. /\ orders' \in [Keys -> Order \cup {Nil}] /\ orders'[k] = o
      /\ \A j \in Keys \ {k} : orders'[j] = orders[j]
  BY <1>1, <1>2, <1>3, <1>4 DEF TypeOK
<1>8. TypeOK'
  BY <1>1, <1>2, <1>6, <1>7 DEF TypeOK
<1>9. \A j \in Keys : orders[j] # Nil => orders'[j] # Nil
  BY <1>4, <1>7
<1>10. LinksAgree'
  BY <1>1, <1>9, LinksKeep
<1>11. Placed(s)' /\ Carries(s)'
  BY <1>1, <1>2, <1>3, <1>5, <1>6, <1>9 DEF Placed, Carries, At
<1>12. \A j \in Keys : orders'[j] # Nil /\ CancelledHere(orders'[j].last)
                       => orders[j] # Nil /\ CancelledHere(orders[j].last)
  BY <1>3, <1>4, <1>7
<1>13. \A j \in Keys : ~WillCancel(s, j)
  BY <1>1, NotSending
<1>14. CancelsOnTheirWay'
  BY <1>1, <1>6, <1>12, <1>13, CancelsKeep
<1>15. \A t \in Slots : Placed(t)' /\ Carries(t)'
  BY <1>6, <1>9, <1>11, OthersKeep
<1> QED BY <1>8, <1>10, <1>14, <1>15 DEF SyncInv

\* A new status: if it cancels the order, its author's event is on its way.
LEMMA AppendStep ==
  ASSUME SyncInv, NEW s \in Slots, AppendStatus(s)
  PROVE  SyncInv'
<1> DEFINE k == slot[s].key
           new == [slot[s] EXCEPT !.at = "Read", !.topic = "status", !.status = Nil]
           entry == [status |-> slot[s].status, author |-> AuthorOf(slot[s].op)]
           o == [orders[k] EXCEPT !.last = entry]
<1>1. /\ slot[s].at = "Append" /\ slot' = [slot EXCEPT ![s] = new]
      /\ UNCHANGED <<shop, links, missed, requests, changes, faults>>
      /\ orders' = orders \/ orders' = [orders EXCEPT ![k] = o]
  BY DEF AppendStatus, At
<1>2. /\ TypeOK /\ Carries(s) /\ Placed(s)
      /\ slot[s] \in Slot /\ slot \in [Slots -> Slot]
  BY DEF SyncInv, TypeOK
<1>3. before' \subseteq Slots \X Slots /\ late' \subseteq Slots
  BY <1>2 DEF AppendStatus, Unstamped, TypeOK
<1>4. k \in Keys /\ orders[k] # Nil /\ orders[k] \in Order /\ slot[s].status \in Status
  BY <1>1, <1>2 DEF Placed, Carries, TypeOK, At
<1>5. entry \in Entry /\ (slot[s].op = "Sync" => ~CancelledHere(entry))
  BY <1>4 DEF Entry, AuthorOf, CancelledHere
<1> HIDE DEF entry
<1>6. o \in Order /\ o # Nil /\ o.last = entry
  BY <1>4, <1>5, NilAssumption DEF Order
<1>7. /\ new \in Slot /\ new.at = "Read" /\ new.op = slot[s].op
      /\ new.remote = slot[s].remote /\ new.key = k /\ new.topic = "status"
  BY <1>2 DEF Slot, Working
<1> HIDE DEF o, new
<1>8. /\ slot' \in [Slots -> Slot] /\ slot'[s] = new
      /\ \A t \in Slots \ {s} : slot'[t] = slot[t]
  BY <1>1, <1>2, <1>7
<1>9. /\ orders' \in [Keys -> Order \cup {Nil}]
      /\ orders'[k] \in {orders[k], o}
      /\ \A j \in Keys \ {k} : orders'[j] = orders[j]
  BY <1>1, <1>2, <1>4, <1>6 DEF TypeOK
<1>10. TypeOK'
  BY <1>1, <1>2, <1>3, <1>8, <1>9 DEF TypeOK
<1>11. \A j \in Keys : orders[j] # Nil => orders'[j] # Nil
  BY <1>6, <1>9
<1>12. LinksAgree'
  BY <1>1, <1>11, LinksKeep
<1>13. Placed(s)' /\ Carries(s)'
  BY <1>1, <1>2, <1>4, <1>7, <1>8, <1>11 DEF Placed, Carries, At
<1>14. \A j \in Keys : j = k /\ slot[s].op # "Sync" => WillCancel(s, j)'
  BY <1>7, <1>8 DEF WillCancel, At
<1>15. \A j \in Keys : orders'[j] # Nil /\ CancelledHere(orders'[j].last)
                       => \/ orders[j] # Nil /\ CancelledHere(orders[j].last)
                          \/ WillCancel(s, j)'
  BY <1>4, <1>5, <1>6, <1>9, <1>14
<1>16. \A j \in Keys : ~WillCancel(s, j)
  BY <1>1, NotSending
<1>17. CancelsOnTheirWay'
  BY <1>1, <1>8, <1>15, <1>16, CancelsKeep
<1>18. \A t \in Slots : Placed(t)' /\ Carries(t)'
  BY <1>8, <1>11, <1>13, OthersKeep
<1> QED BY <1>10, <1>12, <1>17, <1>18 DEF SyncInv

\* What the event carries is read after the change it announces.
LEMMA ReadStep ==
  ASSUME SyncInv, NEW s \in Slots, Read(s)
  PROVE  SyncInv'
<1> DEFINE new == [slot[s] EXCEPT !.at = "Handle", !.view = orders[slot[s].key]]
<1>1. /\ slot[s].at = "Read" /\ slot' = [slot EXCEPT ![s] = new]
      /\ UNCHANGED <<shop, orders, links, before, late, missed, requests, changes, faults>>
  BY DEF Read, At
<1>2. /\ TypeOK /\ Carries(s) /\ Placed(s)
      /\ slot[s] \in Slot /\ slot \in [Slots -> Slot]
  BY DEF SyncInv, TypeOK
<1>3. slot[s].key \in Keys /\ orders[slot[s].key] \in Order
  BY <1>1, <1>2 DEF Placed, TypeOK
<1>4. /\ new \in Slot /\ new.at = "Handle" /\ new.op = slot[s].op
      /\ new.remote = slot[s].remote /\ new.key = slot[s].key
      /\ new.status = slot[s].status /\ new.topic = slot[s].topic
      /\ new.view = orders[slot[s].key]
  BY <1>2, <1>3 DEF Slot, Working
<1> HIDE DEF new
<1>5. /\ slot' \in [Slots -> Slot] /\ slot'[s] = new
      /\ \A t \in Slots \ {s} : slot'[t] = slot[t]
  BY <1>1, <1>2, <1>4
<1>6. Placed(s)' /\ Carries(s)'
  BY <1>1, <1>2, <1>3, <1>4, <1>5 DEF Placed, Carries, At
<1>7. \A k \in Keys : CancelledHere(orders[k].last) /\ WillCancel(s, k)
                      => WillCancel(s, k)'
  BY <1>1, <1>4, <1>5 DEF WillCancel, At
<1>8. faults' \in Nat /\ before' \subseteq Slots \X Slots /\ late' \subseteq Slots
  BY <1>1, <1>2 DEF TypeOK
<1> QED BY <1>1, <1>5, <1>6, <1>7, <1>8, QuietStep

-----------------------------------------------------------------------------
(* The consumer. *)

\* After its event is handled a goroutine ends, or the import goes on.
LEMMA ReturnMoves ==
  ASSUME SyncInv, NEW s \in Slots, slot[s].at = "Handle", Return(s)
  PROVE  /\ slot' \in [Slots -> Slot]
         /\ \A t \in Slots \ {s} : slot'[t] = slot[t]
         /\ slot[s].op # "Sync" => slot'[s] = Idle
         /\ slot[s].op = "Sync" =>
              /\ slot'[s].op = "Sync" /\ slot'[s].at \in {"Compare", "Link"}
              /\ slot'[s].key = slot[s].key /\ slot'[s].remote = slot[s].remote
              /\ slot'[s].at = "Compare" => slot'[s].status \in Status
                                            /\ slot'[s].view \in Order
<1>1. /\ TypeOK /\ Carries(s) /\ slot[s] \in Slot /\ slot \in [Slots -> Slot]
  BY DEF SyncInv, TypeOK
<1>2. CASE slot[s].op # "Sync"
  <2>1. End(s)
    BY <1>2 DEF Return
  <2> QED BY <1>2, <2>1, EndClears
<1>3. CASE slot[s].op = "Sync"
  <2>1. PICK p \in {"Compare", "Link"}, v \in Order \cup {Nil} :
          /\ slot' = [slot EXCEPT ![s] = [slot[s] EXCEPT !.at = p, !.view = v,
                                                         !.topic = Nil, !.tries = 0]]
          /\ p = "Compare" => slot[s].topic = "updated" /\ v = slot[s].view
    <3>1. slot[s].view \in Order
      BY <1>1 DEF Carries
    <3> QED BY <1>1, <1>3, <3>1, ZenonT(60) DEF Return
  <2> DEFINE new == [slot[s] EXCEPT !.at = p, !.view = v, !.topic = Nil, !.tries = 0]
  <2>2. /\ new \in Slot /\ new.at = p /\ new.view = v /\ new.op = slot[s].op
        /\ new.key = slot[s].key /\ new.remote = slot[s].remote
        /\ new.status = slot[s].status
    <3>1. 0 \in 0 .. MaxRetries /\ v \in Order \cup {Nil} /\ p \in Working
      BY SyncAssumption, <2>1 DEF Working
    <3> QED BY <1>1, <3>1, ZenonT(60) DEF Slot
  <2> HIDE DEF new
  <2>3. /\ slot' \in [Slots -> Slot] /\ slot'[s] = new
        /\ \A t \in Slots \ {s} : slot'[t] = slot[t]
    BY <1>1, <2>1, <2>2 DEF new
  <2>4. p = "Compare" => slot[s].status \in Status /\ v \in Order
    BY <1>1, <1>3, <2>1 DEF Carries
  <2> QED BY <1>3, <2>2, <2>3, <2>4
<1> QED BY <1>2, <1>3

\* It goes on within its rights.
LEMMA ReturnFits ==
  ASSUME SyncInv, NEW s \in Slots, slot[s].at = "Handle", Return(s), UNCHANGED orders
  PROVE  Placed(s)' /\ Carries(s)'
<1>1. CASE slot[s].op # "Sync"
  BY <1>1, ReturnMoves, IdleFits
<1>2. CASE slot[s].op = "Sync"
  <2>1. Placed(s) /\ Carries(s)
    BY DEF SyncInv
  <2>2. /\ slot'[s].op = "Sync" /\ slot'[s].at \in {"Compare", "Link"}
        /\ slot'[s].key = slot[s].key /\ slot'[s].remote = slot[s].remote
        /\ slot'[s].at = "Compare" => slot'[s].status \in Status
                                      /\ slot'[s].view \in Order
    BY <1>2, ReturnMoves
  <2>3. Placed(s)'
    BY <1>2, <2>1, <2>2 DEF Placed
  <2>4. Carries(s)'
    BY <1>2, <2>1, <2>2 DEF Carries, At
  <2> QED BY <2>3, <2>4
<1> QED BY <1>1, <1>2

\* Events are answered in three ways: Shopify has the cancellation, it is
\* reported, or the event was not one.
LEMMA Returns ==
  ASSUME SyncInv, NEW s \in Slots, slot[s].at = "Handle", Return(s),
         UNCHANGED <<orders, links, before, late, requests, changes>>,
         faults' \in Nat,
         shop' \in [Remotes -> Remote],
         \A r \in Remotes : shop[r].state = "cancelled" => shop'[r].state = "cancelled",
         missed \subseteq missed', missed' \subseteq Keys,
         \A k \in Keys :
           k[1] = "shopify" /\ WillCancel(s, k)
           => \/ k \in missed'
              \/ \E r \in Remotes : Name[r] = k[2] /\ shop'[r].state = "cancelled"
  PROVE  SyncInv'
<1>1. /\ slot' \in [Slots -> Slot]
      /\ \A t \in Slots \ {s} : slot'[t] = slot[t]
  BY ReturnMoves
<1>2. TypeOK'
  BY <1>1 DEF SyncInv, TypeOK
<1>3. LinksAgree'
  BY LinksKeep
<1>4. CancelsOnTheirWay'
  BY <1>1, CancelsKeep
<1>5. \A t \in Slots : Placed(t)' /\ Carries(t)'
  BY <1>1, ReturnFits, OthersKeep
<1> QED BY <1>2, <1>3, <1>4, <1>5 DEF SyncInv

\* The event of a cancellation is not skipped.
LEMMA CancelNotSkipped ==
  ASSUME NEW s \in Slots, NEW k \in Keys, k[1] = "shopify", At(s, "Handle"),
         WillCancel(s, k)
  PROVE  /\ ~Skips(s)
         /\ slot[s].key = k
         /\ CancelledHere(slot[s].view.last)
  BY DEF WillCancel, CancelledHere, Skips, At

LEMMA HandleSkipStep ==
  ASSUME SyncInv, NEW s \in Slots, HandleSkip(s)
  PROVE  SyncInv'
<1>1. /\ At(s, "Handle") /\ Skips(s) /\ Return(s)
      /\ UNCHANGED <<shop, orders, links, before, late, missed, requests, changes, faults>>
  BY DEF HandleSkip, Turn
<1>2. TypeOK
  BY DEF SyncInv
<1>3. slot[s].at = "Handle"
  BY <1>1 DEF At
<1>4. /\ faults' \in Nat /\ shop' \in [Remotes -> Remote] /\ missed' \subseteq Keys
  BY <1>1, <1>2 DEF TypeOK
<1>5. \A k \in Keys : k[1] = "shopify" => ~WillCancel(s, k)
  BY <1>1, CancelNotSkipped
<1> QED BY <1>1, <1>3, <1>4, <1>5, Returns

LEMMA HandleUnlinkedStep ==
  ASSUME SyncInv, NEW s \in Slots, HandleUnlinked(s)
  PROVE  SyncInv'
<1>1. /\ slot[s].at = "Handle" /\ Return(s) /\ missed' = missed \cup {slot[s].key}
      /\ UNCHANGED <<shop, orders, links, before, late, requests, changes, faults>>
  BY DEF HandleUnlinked, Turn, At
<1>2. TypeOK /\ slot[s].key \in Keys
  BY <1>1 DEF SyncInv, Placed
<1>3. faults' \in Nat /\ shop' \in [Remotes -> Remote] /\ missed' \subseteq Keys
  BY <1>1, <1>2 DEF TypeOK
<1>4. \A k \in Keys : WillCancel(s, k) => k \in missed'
  BY <1>1 DEF WillCancel
<1> QED BY <1>1, <1>3, <1>4, Returns

LEMMA PushStep ==
  ASSUME SyncInv, NEW s \in Slots, Push(s)
  PROVE  SyncInv'
<1> DEFINE k == slot[s].key
           view == slot[s].view
<1>1. PICK r \in LinkedTo(k) : /\ ~Refused(shop[r], view)
                               /\ shop' = [shop EXCEPT ![r] = Pushed(shop[r], view)]
  BY DEF Push
<1>2. /\ At(s, "Handle") /\ slot[s].at = "Handle" /\ Return(s)
      /\ UNCHANGED <<orders, links, before, late, missed, requests, changes, faults>>
  BY DEF Push, Turn, At
<1>3. /\ TypeOK /\ LinksAgree /\ k \in Keys /\ view \in Order
  BY <1>2 DEF SyncInv, Placed, Carries
<1>4. r \in Remotes /\ Name[r] = k[2] /\ shop[r] \in Remote
  BY <1>1, <1>3, LinkedName DEF TypeOK
<1>5. Pushed(shop[r], view) \in Remote
  BY <1>3, <1>4 DEF Pushed, Remote, AllStates, Order
<1>6. /\ shop' \in [Remotes -> Remote] /\ shop'[r] = Pushed(shop[r], view)
      /\ \A q \in Remotes \ {r} : shop'[q] = shop[q]
  BY <1>1, <1>3, <1>4, <1>5 DEF TypeOK
<1>7. shop[r].state # "cancelled"
  BY <1>1 DEF Refused
<1>8. \A q \in Remotes : shop[q].state = "cancelled" => shop'[q].state = "cancelled"
  BY <1>6, <1>7
<1>9. CancelledHere(view.last) => shop'[r].state = "cancelled"
  BY <1>4, <1>6 DEF CancelledHere, Pushed, Remote
<1>10. \A j \in Keys : j[1] = "shopify" /\ WillCancel(s, j)
                       => Name[r] = j[2] /\ shop'[r].state = "cancelled"
  BY <1>2, <1>4, <1>9, CancelNotSkipped
<1>11. faults' \in Nat /\ missed' \subseteq Keys
  BY <1>2, <1>3 DEF TypeOK
<1> QED BY <1>2, <1>4, <1>6, <1>8, <1>10, <1>11, Returns

LEMMA PushFailsStep ==
  ASSUME SyncInv, NEW s \in Slots, PushFails(s)
  PROVE  SyncInv'
<1>1. /\ slot[s].at = "Handle"
      /\ UNCHANGED <<shop, orders, links, before, late, requests, changes>>
  BY DEF PushFails, Turn, At
<1>2. /\ TypeOK /\ Carries(s) /\ Placed(s) /\ slot[s].key \in Keys
      /\ slot[s] \in Slot /\ slot \in [Slots -> Slot]
  BY <1>1 DEF SyncInv, TypeOK, Placed
<1>3. faults' \in Nat
  BY <1>2 DEF PushFails, Fault, TypeOK
<1>4. CASE slot[s].tries < MaxRetries
  <2> DEFINE new == [slot[s] EXCEPT !.tries = @ + 1]
  <2>1. slot' = [slot EXCEPT ![s] = new] /\ UNCHANGED missed
    BY <1>4 DEF PushFails
  <2>2. slot[s].tries + 1 \in 0 .. MaxRetries
    BY <1>2, <1>4, SyncAssumption DEF Slot
  <2>3. /\ new \in Slot /\ new.at = "Handle" /\ new.op = slot[s].op
        /\ new.remote = slot[s].remote /\ new.key = slot[s].key
        /\ new.status = slot[s].status /\ new.topic = slot[s].topic
        /\ new.view = slot[s].view
    BY <1>1, <1>2, <2>2 DEF Slot
  <2> HIDE DEF new
  <2>4. /\ slot' \in [Slots -> Slot] /\ slot'[s] = new
        /\ \A t \in Slots \ {s} : slot'[t] = slot[t]
    BY <1>2, <2>1, <2>3
  <2>5. Placed(s)' /\ Carries(s)'
    BY <1>1, <1>2, <2>3, <2>4 DEF Placed, Carries, At
  <2>6. \A k \in Keys : WillCancel(s, k) => WillCancel(s, k)'
    BY <1>1, <2>3, <2>4 DEF WillCancel, At
  <2>7. before' \subseteq Slots \X Slots /\ late' \subseteq Slots
    BY <1>1, <1>2 DEF TypeOK
  <2> QED BY <1>1, <1>3, <2>1, <2>4, <2>5, <2>6, <2>7, QuietStep
<1>5. CASE ~(slot[s].tries < MaxRetries)
  <2>1. missed' = missed \cup {slot[s].key} /\ Return(s)
    BY <1>5 DEF PushFails
  <2>2. shop' \in [Remotes -> Remote] /\ missed' \subseteq Keys
    BY <1>1, <1>2, <2>1 DEF TypeOK
  <2>3. \A k \in Keys : WillCancel(s, k) => k \in missed'
    BY <2>1 DEF WillCancel
  <2> QED BY <1>1, <1>3, <2>1, <2>2, <2>3, Returns
<1> QED BY <1>4, <1>5

-----------------------------------------------------------------------------
(* Failures, and Shopify. *)

\* A goroutine that dies with a cancellation on its way is reported.
LEMMA FailStep ==
  ASSUME SyncInv, NEW s \in Slots, Fail(s)
  PROVE  SyncInv'
<1>1. /\ slot[s].at \in Working /\ End(s)
      /\ UNCHANGED <<shop, orders, links, requests, changes>>
      /\ missed' = IF slot[s].op # "Sync" /\ slot[s].topic # Nil
                   THEN missed \cup {slot[s].key} ELSE missed
  BY DEF Fail
<1>2. /\ TypeOK /\ Carries(s) /\ Placed(s) /\ slot[s] \in Slot
      /\ before' \subseteq Slots \X Slots /\ late' \subseteq Slots /\ faults' \in Nat
  BY DEF SyncInv, TypeOK, Fail, Unstamped, Fault
<1>3. slot[s].at \in {"Read", "Handle"} => slot[s].topic # Nil /\ slot[s].key \in Keys
  BY <1>2, NilAssumption DEF Carries, Placed
<1>4. /\ slot' \in [Slots -> Slot] /\ slot'[s] = Idle
      /\ \A t \in Slots \ {s} : slot'[t] = slot[t]
  BY <1>1, EndClears
<1>5. missed \subseteq missed' /\ missed' \subseteq Keys
  <2>1. CASE slot[s].at \in {"Read", "Handle"}
    BY <1>1, <1>2, <1>3, <2>1 DEF TypeOK
  <2>2. CASE slot[s].at \notin {"Read", "Handle"}
    <3>1. slot[s].at \notin {"Pay", "Find", "Create"} => slot[s].key \in Keys
      BY <1>1, <1>2 DEF Placed, Working
    <3>2. slot[s].op # "Sync" => slot[s].at \notin {"Pay", "Find", "Create"}
      BY <1>2 DEF Carries
    <3> QED BY <1>1, <1>2, <3>1, <3>2 DEF TypeOK
  <2> QED BY <2>1, <2>2
<1>6. \A k \in Keys : WillCancel(s, k) => k \in missed'
  BY <1>1, <1>3 DEF WillCancel, At
<1>7. TypeOK'
  BY <1>1, <1>2, <1>4, <1>5 DEF TypeOK
<1>8. LinksAgree'
  BY <1>1, LinksKeep
<1>9. CancelsOnTheirWay'
  BY <1>1, <1>4, <1>5, <1>6, CancelsKeep
<1>10. \A t \in Slots : Placed(t)' /\ Carries(t)'
  BY <1>1, <1>4, IdleFits, OthersKeep
<1> QED BY <1>7, <1>8, <1>9, <1>10 DEF SyncInv

\* What is cancelled in Shopify stays cancelled.
LEMMA ShopChangeStep ==
  ASSUME SyncInv, NEW r \in Remotes, ShopChange(r)
  PROVE  SyncInv'
<1>1. PICK o \in Remote : shop' = [shop EXCEPT ![r] = o]
  BY DEF ShopChange
<1>2. /\ TypeOK /\ shop[r].state # "cancelled" /\ changes' = changes + 1
      /\ UNCHANGED <<orders, links, slot, before, late, missed, requests, faults>>
  BY DEF SyncInv, ShopChange
<1>3. TypeOK'
  BY <1>1, <1>2 DEF TypeOK
<1>4. LinksAgree'
  BY <1>2, LinksKeep
<1>5. \A q \in Remotes : shop[q].state = "cancelled" => shop'[q].state = "cancelled"
  BY <1>1, <1>2 DEF TypeOK
<1>6. \A s \in Slots, k \in Keys : WillCancel(s, k) => WillCancel(s, k)'
  BY <1>2 DEF WillCancel, At
<1>7. CancelsOnTheirWay'
  BY <1>2, <1>5, <1>6 DEF SyncInv, CancelsOnTheirWay
<1>8. \A s \in Slots : Placed(s)' /\ Carries(s)'
  BY <1>2 DEF SyncInv, Placed, Carries, At
<1> QED BY <1>3, <1>4, <1>7, <1>8 DEF SyncInv

-----------------------------------------------------------------------------
(* The theorems. *)

LEMMA InitOK == Init => SyncInv
<1> SUFFICES ASSUME Init PROVE SyncInv
  OBVIOUS
<1>1. TypeOK
  <2>1. slot \in [Slots -> Slot]
    BY IdleTyped DEF Init
  <2>2. /\ shop \in [Remotes -> Remote]
        /\ orders \in [Keys -> Order \cup {Nil}]
        /\ links \in [Rows -> [remote : Remotes, key : Keys] \cup {Nil}]
    BY DEF Init
  <2> QED BY <2>1, <2>2 DEF Init, TypeOK
<1>2. LinksAgree
  BY DEF Init, LinksAgree, Linked
<1>3. CancelsOnTheirWay
  BY DEF Init, CancelsOnTheirWay
<1>4. \A s \in Slots : Placed(s) /\ Carries(s)
  BY DEF Init, Idle, Placed, Carries, At
<1> QED BY <1>1, <1>2, <1>3, <1>4 DEF SyncInv

LEMMA WorkStep ==
  ASSUME SyncInv, NEW s \in Slots, Work(s)
  PROVE  SyncInv'
<1>1. CASE Import(s)
  BY <1>1, MarkPaidStep, MarkPaidRefusedStep, FindStep, CreateStep, CreateTakenStep,
     CompareStep, LinkStep, SaveStep, SaveTakenStep DEF Import
<1>2. CASE Change(s)
  BY <1>2, LoadStep, WriteStep, AppendStep, ReadStep DEF Change
<1>3. CASE Handle(s)
  BY <1>3, HandleSkipStep, HandleUnlinkedStep, PushStep, PushFailsStep DEF Handle
<1> QED BY <1>1, <1>2, <1>3 DEF Work

LEMMA NextKeeps == SyncInv /\ [Next]_vars => SyncInv'
<1> SUFFICES ASSUME SyncInv, [Next]_vars PROVE SyncInv'
  OBVIOUS
<1>1. ASSUME NEW s \in Slots, Work(s) \/ Fail(s) PROVE SyncInv'
  BY <1>1, WorkStep, FailStep
<1>2. ASSUME NEW s \in Slots, NEW r \in Remotes, StartSync(s, r) PROVE SyncInv'
  BY <1>2, StartSyncStep
<1>3. ASSUME NEW s \in Slots, NEW k \in Keys, Start(s, k) PROVE SyncInv'
  BY <1>3, CreateOtherStep, StartEditStep, StartStatusStep, StartCommentStep DEF Start
<1>4. ASSUME NEW r \in Remotes, ShopChange(r) PROVE SyncInv'
  BY <1>4, ShopChangeStep
<1>5. CASE UNCHANGED vars
  <2>1. TypeOK' /\ LinksAgree'
    BY <1>5 DEF vars, SyncInv, TypeOK, LinksAgree, Linked, Matching
  <2>2. CancelsOnTheirWay'
    BY <1>5 DEF vars, SyncInv, CancelsOnTheirWay, WillCancel, At
  <2>3. \A s \in Slots : Placed(s)' /\ Carries(s)'
    BY <1>5 DEF vars, SyncInv, Placed, Carries, At
  <2> QED BY <2>1, <2>2, <2>3 DEF SyncInv
<1> QED BY <1>1, <1>2, <1>3, <1>4, <1>5 DEF Next

\* What goroutines carry, which links exist and which cancellations are on their
\* way fit together at all times (imports, requests and the consumer of
\* orders.v1.* interleaved).
THEOREM SyncInvariant == Spec => []SyncInv
BY InitOK, NextKeeps, PTL DEF Spec

\* Orders, links and goroutines keep their types.
THEOREM SyncTypes == Spec => []TypeOK
<1>1. SyncInv => TypeOK
  BY DEF SyncInv
<1> QED BY <1>1, SyncInvariant, PTL

\* UpsertLink and the search of findExisting never link a Shopify order to an
\* order of another name, nor two of either side to one of the other.
THEOREM LinksAlwaysAgree == Spec => []LinksAgree
<1>1. SyncInv => LinksAgree
  BY DEF SyncInv
<1> QED BY <1>1, SyncInvariant, PTL

\* A cancellation by UpdateStatus reaches Shopify or is reported, whatever
\* imports and other changes it overlaps with.
THEOREM NoCancellationLost == Spec => []CancellationsHold
<1>1. SyncInv => CancellationsHold
  BY DEF SyncInv, CancelsOnTheirWay, CancellationsHold, CancelledHere, WillCancel, At
<1> QED BY <1>1, SyncInvariant, PTL

\* Steps of other goroutines do not touch an import, and its own leave Shopify
\* alone once it has marked the order as paid (isShopifySyncSource).
THEOREM NoEcho == Spec => SyncNeverWritesBack
<1> DEFINE Quiet == \A s \in Slots :
                      slot[s].op = "Sync" /\ ~At(s, "Pay") /\ slot'[s] # slot[s]
                      => shop' = shop
<1>1. SyncInv /\ [Next]_vars => [Quiet]_vars
  <2> SUFFICES ASSUME SyncInv, Next, NEW s \in Slots, slot[s].op = "Sync",
                      ~At(s, "Pay"), slot'[s] # slot[s]
               PROVE  shop' = shop
    OBVIOUS
  <2>1. slot \in [Slots -> Slot]
    BY DEF SyncInv, TypeOK
  <2>2. ASSUME NEW t \in Slots, MarkPaid(t) PROVE shop' = shop
    BY <2>1, <2>2 DEF MarkPaid, Goto, At
  <2>3. ASSUME NEW t \in Slots, Push(t) PROVE shop' = shop
    <3>1. slot[t].op # "Sync"
      BY <2>3 DEF Push, Skips
    <3>2. slot'[s] = slot[s]
      BY <2>1, <2>3, <3>1 DEF Push, Return, End
    <3> QED BY <3>2
  <2>4. ASSUME NEW t \in Slots, Import(t), ~MarkPaid(t) PROVE shop' = shop
    BY <2>4 DEF Import, MarkPaidRefused, Find, Create, CreateTaken, Compare, Link,
                Save, SaveTaken
  <2>5. ASSUME NEW t \in Slots, Change(t) \/ Fail(t) PROVE shop' = shop
    BY <2>5 DEF Change, Load, Write, AppendStatus, Read, Fail
  <2>6. ASSUME NEW t \in Slots, HandleSkip(t) \/ HandleUnlinked(t) \/ PushFails(t)
        PROVE  shop' = shop
    BY <2>6 DEF HandleSkip, HandleUnlinked, PushFails
  <2>7. ASSUME NEW t \in Slots, NEW r \in Remotes, StartSync(t, r) PROVE shop' = shop
    BY <2>7 DEF StartSync
  <2>8. ASSUME NEW t \in Slots, NEW k \in Keys, Start(t, k) PROVE shop' = shop
    BY <2>8 DEF Start, CreateOther, StartEdit, StartStatus, StartComment
  <2>9. ASSUME NEW r \in Remotes, ShopChange(r) PROVE shop' = shop
    BY <2>9 DEF ShopChange
  <2>10. ASSUME NEW t \in Slots, Work(t) PROVE shop' = shop
    BY <2>2, <2>3, <2>4, <2>5, <2>6, <2>10 DEF Work, Handle
  <2> QED BY <2>5, <2>7, <2>8, <2>9, <2>10 DEF Next
<1>2. SyncNeverWritesBack <=> [][Quiet]_vars
  BY DEF SyncNeverWritesBack
<1> QED BY <1>1, <1>2, SyncInvariant, PTL DEF Spec

-----------------------------------------------------------------------------
(* Contacts: requests and imports overlap.                                     *)

\* What a request that has found its contact holds of it: the contact was
\* written, and an import that nobody outran carries all the metadata it has.
RequestsHold ==
  \A t \in ContactTasks :
    /\ contactTask[t].at \in {"findEmail", "findDocument", "link"} => Importing(t)
    /\ contactTask[t].at \in {"save", "link"} =>
         /\ contactTask[t].on \in Contacts
         /\ contact[contactTask[t].on].state # "unused"
    /\ (contactTask[t].at = "save" /\ Importing(t) /\ t \notin outrun) =>
         contact[contactTask[t].on].notes \subseteq contactTask[t].notes

ContactInv == ContactSafety /\ RequestsHold

LEMMA NoRequestTyped == NoRequest \in ContactTask
  BY DEF NoRequest, ContactTask, ContactStages, AnyDocument

\* Nothing but the task of t has changed, and t itself is as it must be.
LEMMA QuietTask ==
  ASSUME ContactInv, NEW t \in ContactTasks, NEW new \in ContactTask,
         contactTask' = [contactTask EXCEPT ![t] = new],
         outrun' = outrun \/ outrun' = outrun \ {t},
         UNCHANGED <<contact, droppedNotes>>,
         customerLink' = customerLink,
         new.at \in {"findEmail", "findDocument", "link"} => new.customer # NoContact,
         new.at \in {"save", "link"} =>
           new.on \in Contacts /\ contact[new.on].state # "unused",
         (new.at = "save" /\ new.customer # NoContact) => contact[new.on].notes \subseteq new.notes
  PROVE  ContactInv'
<1> USE DEF ContactInv, ContactSafety
<1>1. ContactTypes'
  BY DEF ContactTypes
<1>2. NotesOfTheLiving' /\ OneContactEach' /\ LinkedToOne' /\ ImportsKeepNotes'
  BY DEF NotesOfTheLiving, OneContactEach, LinkedToOne, ImportsKeepNotes, LiveContact
<1>3. contactTask'[t] = new /\ \A u \in ContactTasks \ {t} : contactTask'[u] = contactTask[u]
  BY DEF ContactTypes
<1>4. RequestsHold'
  BY <1>3 DEF RequestsHold, Importing
<1> QED BY <1>1, <1>2, <1>4

LEMMA ContactStart == ContactInit => ContactInv
<1> SUFFICES ASSUME ContactInit PROVE ContactInv
  OBVIOUS
<1>1. NewContact \in Contact
  BY DEF NewContact, Contact, AnyDocument, Notes
<1>2. ContactTypes
  BY <1>1, NoRequestTyped DEF ContactInit, ContactTypes
<1>3. \A c \in Contacts : contact[c].state = "unused" /\ contact[c].notes = {}
  BY DEF ContactInit, NewContact
<1>4. NotesOfTheLiving /\ OneContactEach
  BY <1>3 DEF NotesOfTheLiving, OneContactEach
<1>5. LinkedToOne /\ ImportsKeepNotes
  BY DEF ContactInit, LinkedToOne, ImportsKeepNotes
<1>6. \A t \in ContactTasks : contactTask[t].at = "idle"
  BY DEF ContactInit, NoRequest
<1>7. RequestsHold
  BY <1>6 DEF RequestsHold
<1> QED BY <1>2, <1>4, <1>5, <1>7 DEF ContactInv, ContactSafety

LEMMA GiveUpContactStep ==
  ASSUME ContactInv, NEW t \in ContactTasks, GiveUpContact(t)
  PROVE  ContactInv'
<1>1. NoRequest.at = "idle"
  BY DEF NoRequest
<1> QED
  BY <1>1, QuietTask, NoRequestTyped DEF GiveUpContact, ContactDone, NothingWritten

LEMMA RequestCreateStep ==
  ASSUME ContactInv, NEW t \in ContactTasks, RequestCreate(t)
  PROVE  ContactInv'
<1>1. PICK e \in Emails : \E d \in AnyDocument :
         contactTask' = [contactTask EXCEPT ![t] =
             [NoRequest EXCEPT !.at = "create", !.email = e, !.document = d, !.notes = {"own"}]]
  BY DEF RequestCreate
<1>2. PICK d \in AnyDocument :
         contactTask' = [contactTask EXCEPT ![t] =
             [NoRequest EXCEPT !.at = "create", !.email = e, !.document = d, !.notes = {"own"}]]
  BY <1>1
<1> DEFINE new == [NoRequest EXCEPT !.at = "create", !.email = e, !.document = d,
                                    !.notes = {"own"}]
<1>3. new \in ContactTask /\ new.at = "create"
  BY DEF NoRequest, ContactTask, ContactStages, Notes
<1>4. UNCHANGED <<contact, customerLink, droppedNotes, outrun>>
  BY DEF RequestCreate, NothingWritten
<1> HIDE DEF new
<1> QED BY <1>2, <1>3, <1>4, QuietTask DEF new

LEMMA RequestUpdateStep ==
  ASSUME ContactInv, NEW t \in ContactTasks, NEW c \in Contacts, RequestUpdate(t, c)
  PROVE  ContactInv'
<1>1. PICK e \in Emails : \E d \in AnyDocument : \E n \in {contact[c].notes, {"own"}} :
         contactTask' = [contactTask EXCEPT ![t] =
             [NoRequest EXCEPT !.at = "save", !.on = c, !.email = e, !.document = d, !.notes = n]]
  BY DEF RequestUpdate
<1>2. PICK d \in AnyDocument : \E n \in {contact[c].notes, {"own"}} :
         contactTask' = [contactTask EXCEPT ![t] =
             [NoRequest EXCEPT !.at = "save", !.on = c, !.email = e, !.document = d, !.notes = n]]
  BY <1>1
<1>3. PICK n \in {contact[c].notes, {"own"}} :
         contactTask' = [contactTask EXCEPT ![t] =
             [NoRequest EXCEPT !.at = "save", !.on = c, !.email = e, !.document = d, !.notes = n]]
  BY <1>2
<1> DEFINE new == [NoRequest EXCEPT !.at = "save", !.on = c, !.email = e, !.document = d,
                                    !.notes = n]
<1>4. n \subseteq Notes
  BY DEF ContactInv, ContactSafety, ContactTypes, Contact, Notes
<1>5. new \in ContactTask /\ new.at = "save" /\ new.on = c /\ new.customer = NoContact
  BY <1>4 DEF NoRequest, ContactTask, ContactStages
<1>6. UNCHANGED <<contact, customerLink, droppedNotes, outrun>> /\ contact[c].state # "unused"
  BY DEF RequestUpdate, NothingWritten, LiveContact
<1> HIDE DEF new
<1> QED BY <1>3, <1>5, <1>6, QuietTask DEF new

LEMMA ImportCustomerStep ==
  ASSUME ContactInv, NEW t \in ContactTasks, NEW k \in Customers, ImportCustomer(t, k)
  PROVE  ContactInv'
<1>1. PICK e \in Emails : \E d \in AnyDocument :
         contactTask' = [contactTask EXCEPT ![t] =
             [NoRequest EXCEPT !.at = "findEmail", !.customer = k, !.email = e,
                               !.document = d, !.notes = {"shop"}]]
  BY DEF ImportCustomer
<1>2. PICK d \in AnyDocument :
         contactTask' = [contactTask EXCEPT ![t] =
             [NoRequest EXCEPT !.at = "findEmail", !.customer = k, !.email = e,
                               !.document = d, !.notes = {"shop"}]]
  BY <1>1
<1> DEFINE new == [NoRequest EXCEPT !.at = "findEmail", !.customer = k, !.email = e,
                               !.document = d, !.notes = {"shop"}]
<1>3. new \in ContactTask /\ new.at = "findEmail" /\ new.customer = k
  BY DEF NoRequest, ContactTask, ContactStages, Notes
<1>4. UNCHANGED <<contact, customerLink, droppedNotes, outrun>>
  BY DEF ImportCustomer, NothingWritten
<1>5. k # NoContact
  BY ContactAssumption
<1> HIDE DEF new
<1> QED BY <1>2, <1>3, <1>4, <1>5, QuietTask DEF new

\* The search ends with a contact, whose metadata the import merges into its own.
LEMMA FoundStep ==
  ASSUME ContactInv, NEW t \in ContactTasks, NEW c \in Contacts, LiveContact(c), Found(t, c),
         UNCHANGED <<contact, customerLink, droppedNotes, outrun>>
  PROVE  ContactInv'
<1> DEFINE new == [contactTask[t] EXCEPT !.at = "save", !.on = c,
                     !.notes = MergedNotes(contact[c].notes, contactTask[t].notes)]
<1>1. contactTask' = [contactTask EXCEPT ![t] = new]
  BY DEF Found, ContactInv, ContactSafety, ContactTypes
<1>2. contactTask[t] \in ContactTask /\ contact[c].notes \subseteq Notes
  BY DEF ContactInv, ContactSafety, ContactTypes, Contact
<1>3. new \in ContactTask /\ new.at = "save" /\ new.on = c /\ contact[c].notes \subseteq new.notes
  BY <1>2 DEF ContactTask, ContactStages, MergedNotes
<1> HIDE DEF new
<1> QED BY <1>1, <1>3, QuietTask DEF LiveContact

\* A request goes on to a stage that takes nothing for granted.
LEMMA GotoStep ==
  ASSUME ContactInv, NEW t \in ContactTasks, Importing(t),
         NEW stage \in {"create", "findEmail", "findDocument"}, NEW x \in {"first", "again"},
         contactTask' = [contactTask EXCEPT ![t] = [@ EXCEPT !.at = stage, !.search = x]],
         UNCHANGED <<contact, customerLink, droppedNotes, outrun>>
  PROVE  ContactInv'
<1> DEFINE new == [contactTask[t] EXCEPT !.at = stage, !.search = x]
<1>1. contactTask' = [contactTask EXCEPT ![t] = new] /\ contactTask[t] \in ContactTask
  BY DEF ContactInv, ContactSafety, ContactTypes
<1>2. new \in ContactTask /\ new.at = stage /\ new.customer = contactTask[t].customer
  BY <1>1 DEF ContactTask, ContactStages
<1> HIDE DEF new
<1> QED BY <1>1, <1>2, QuietTask DEF Importing

LEMMA NotFoundStep ==
  ASSUME ContactInv, NEW t \in ContactTasks, Importing(t), NotFound(t),
         UNCHANGED <<contact, customerLink, droppedNotes, outrun>>
  PROVE  ContactInv'
<1>1. contactTask[t] \in ContactTask
  BY DEF ContactInv, ContactSafety, ContactTypes
<1>2. CASE ContactGoto(t, "create")
  <2>1. contactTask' = [contactTask EXCEPT ![t] =
                          [@ EXCEPT !.at = "create", !.search = contactTask[t].search]]
    BY <1>1, <1>2 DEF ContactGoto, ContactTask, ContactInv, ContactSafety, ContactTypes
  <2> QED BY <2>1, <1>1, GotoStep DEF ContactTask
<1>3. CASE ContactDone(t)
  <2>1. NoRequest.at = "idle"
    BY DEF NoRequest
  <2> QED BY <2>1, <1>3, QuietTask, NoRequestTyped DEF ContactDone
<1> QED BY <1>2, <1>3 DEF NotFound

LEMMA FindByEmailStep ==
  ASSUME ContactInv, NEW t \in ContactTasks, FindByEmail(t)
  PROVE  ContactInv'
<1>1. Importing(t) /\ UNCHANGED <<contact, customerLink, droppedNotes, outrun>>
  BY DEF ContactInv, RequestsHold, FindByEmail, NothingWritten
<1>2. contactTask[t] \in ContactTask
  BY DEF ContactInv, ContactSafety, ContactTypes
<1>3. CASE \E c \in ByEmail(contactTask[t].email) : Found(t, c)
  BY <1>1, <1>3, FoundStep DEF ByEmail
<1>4. CASE NotFound(t)
  BY <1>1, <1>4, NotFoundStep
<1>5. CASE ContactGoto(t, "findDocument")
  <2>1. contactTask' = [contactTask EXCEPT ![t] =
                          [@ EXCEPT !.at = "findDocument", !.search = contactTask[t].search]]
    BY <1>2, <1>5 DEF ContactGoto, ContactTask, ContactInv, ContactSafety, ContactTypes
  <2> QED BY <2>1, <1>1, <1>2, GotoStep DEF ContactTask
<1> QED BY <1>3, <1>4, <1>5 DEF FindByEmail

LEMMA FindByDocumentStep ==
  ASSUME ContactInv, NEW t \in ContactTasks, FindByDocument(t)
  PROVE  ContactInv'
<1>1. Importing(t) /\ UNCHANGED <<contact, customerLink, droppedNotes, outrun>>
  BY DEF ContactInv, RequestsHold, FindByDocument, NothingWritten
<1>2. CASE \E c \in ByDocument(contactTask[t].document) : Found(t, c)
  BY <1>1, <1>2, FoundStep DEF ByDocument
<1>3. CASE NotFound(t)
  BY <1>1, <1>3, NotFoundStep
<1> QED BY <1>2, <1>3 DEF FindByDocument

\* A request that has written its contact: an import goes on to link it, and all
\* others that have read it are outrun.
LEMMA WrittenStep ==
  ASSUME ContactInv, NEW t \in ContactTasks, NEW c \in Contacts, NEW row \in Contact,
         row.state = "live", ContactFits(c, row.email, row.document),
         contact' = [contact EXCEPT ![c] = row],
         Written(t, c), UNCHANGED <<customerLink, droppedNotes>>
  PROVE  ContactInv'
<1> USE DEF ContactInv, ContactSafety
<1>1. /\ contactTask \in [ContactTasks -> ContactTask]
      /\ contact \in [Contacts -> Contact]
  BY DEF ContactTypes
<1>2. contact'[c] = row /\ \A x \in Contacts \ {c} : contact'[x] = contact[x]
  BY <1>1
<1>3. PICK new \in ContactTask :
        /\ contactTask' = [contactTask EXCEPT ![t] = new]
        /\ \/ new.at = "link" /\ new.on = c /\ new.customer # NoContact
           \/ new.at = "idle"
  <2>1. CASE ContactDone(t)
    BY <2>1, NoRequestTyped DEF ContactDone, NoRequest
  <2>2. CASE Importing(t) /\ contactTask' = [contactTask EXCEPT ![t].at = "link", ![t].on = c]
    <3> DEFINE new == [contactTask[t] EXCEPT !.at = "link", !.on = c]
    <3>1. contactTask' = [contactTask EXCEPT ![t] = new]
      BY <1>1, <2>2
    <3>2. new \in ContactTask /\ new.at = "link" /\ new.on = c /\ new.customer # NoContact
      BY <1>1, <2>2 DEF ContactTask, ContactStages, Importing
    <3> HIDE DEF new
    <3> QED BY <3>1, <3>2
  <2> QED BY <2>1, <2>2 DEF Written
<1>4. outrun' = (outrun \cup {u \in ContactTasks : contactTask[u].on = c}) \ {t}
  BY DEF Written, Outruns
<1>5. ContactTypes'
  BY <1>1, <1>3, <1>4 DEF ContactTypes
<1>6. NotesOfTheLiving'
  BY <1>2 DEF NotesOfTheLiving, LiveContact
<1>7. OneContactEach'
  BY <1>2 DEF OneContactEach, ContactFits
<1>8. LinkedToOne'
  <2> SUFFICES ASSUME NEW k \in Customers, customerLink'[k] # NoContact
               PROVE  /\ contact'[customerLink'[k]].state # "unused"
                      /\ \A h \in Customers \ {k} : customerLink'[h] # customerLink'[k]
    BY DEF LinkedToOne
  <2>1. customerLink[k] \in Contacts /\ contact[customerLink[k]].state # "unused"
    BY DEF LinkedToOne, ContactTypes
  <2> QED BY <2>1, <1>2 DEF LinkedToOne
<1>9. ImportsKeepNotes'
  BY DEF ImportsKeepNotes
<1>10. contactTask'[t] = new /\ \A u \in ContactTasks \ {t} : contactTask'[u] = contactTask[u]
  BY <1>1, <1>3
<1>11. ASSUME NEW u \in ContactTasks, u # t
       PROVE  /\ contactTask'[u].at \in {"findEmail", "findDocument", "link"} => Importing(u)'
              /\ contactTask'[u].at \in {"save", "link"} =>
                   /\ contactTask'[u].on \in Contacts
                   /\ contact'[contactTask'[u].on].state # "unused"
              /\ (contactTask'[u].at = "save" /\ Importing(u)' /\ u \notin outrun') =>
                   contact'[contactTask'[u].on].notes \subseteq contactTask'[u].notes
  BY <1>2, <1>4, <1>10, <1>11 DEF RequestsHold, Importing
<1>12. RequestsHold'
  BY <1>2, <1>3, <1>10, <1>11 DEF RequestsHold, Importing
<1> QED BY <1>5, <1>6, <1>7, <1>8, <1>9, <1>12

LEMMA CreateContactStep ==
  ASSUME ContactInv, NEW t \in ContactTasks, CreateContact(t)
  PROVE  ContactInv'
<1>1. contactTask[t] \in ContactTask /\ contactTask \in [ContactTasks -> ContactTask]
  BY DEF ContactInv, ContactSafety, ContactTypes
<1>2. UNCHANGED <<customerLink, droppedNotes>>
  BY DEF CreateContact
<1>3. CASE \E c \in Contacts :
            /\ contact[c].state = "unused"
            /\ ContactFits(c, contactTask[t].email, contactTask[t].document)
            /\ contact' = [contact EXCEPT ![c] =
                             [state |-> "live", email |-> contactTask[t].email,
                              document |-> contactTask[t].document,
                              notes |-> contactTask[t].notes]]
            /\ Written(t, c)
  <2>1. PICK c \in Contacts :
            /\ ContactFits(c, contactTask[t].email, contactTask[t].document)
            /\ contact' = [contact EXCEPT ![c] =
                             [state |-> "live", email |-> contactTask[t].email,
                              document |-> contactTask[t].document,
                              notes |-> contactTask[t].notes]]
            /\ Written(t, c)
    BY <1>3
  <2> DEFINE row == [state |-> "live", email |-> contactTask[t].email,
                     document |-> contactTask[t].document, notes |-> contactTask[t].notes]
  <2>2. row \in Contact /\ row.state = "live" /\ ContactFits(c, row.email, row.document)
    BY <1>1, <2>1 DEF Contact, ContactTask
  <2>3. contact' = [contact EXCEPT ![c] = row]
    BY <2>1
  <2> HIDE DEF row
  <2> QED BY <1>2, <2>1, <2>2, <2>3, WrittenStep
<1>4. CASE /\ Importing(t)
           /\ contactTask' = [contactTask EXCEPT ![t].at = "findEmail", ![t].search = "again"]
           /\ UNCHANGED <<contact, outrun>>
  <2>1. contactTask' = [contactTask EXCEPT ![t] = [@ EXCEPT !.at = "findEmail", !.search = "again"]]
    BY <1>1, <1>4
  <2> QED BY <1>2, <1>4, <2>1, GotoStep
<1>5. CASE ContactDone(t) /\ UNCHANGED <<contact, outrun>>
  <2>1. NoRequest.at = "idle"
    BY DEF NoRequest
  <2> QED BY <2>1, <1>2, <1>5, QuietTask, NoRequestTyped DEF ContactDone
<1> QED BY <1>3, <1>4, <1>5 DEF CreateContact

LEMMA SaveContactStep ==
  ASSUME ContactInv, NEW t \in ContactTasks, SaveContact(t)
  PROVE  ContactInv'
<1> DEFINE c == contactTask[t].on
<1>1. /\ contactTask[t] \in ContactTask /\ contactTask \in [ContactTasks -> ContactTask]
      /\ contact \in [Contacts -> Contact]
  BY DEF ContactInv, ContactSafety, ContactTypes
<1>2. contactTask[t].at = "save" /\ UNCHANGED customerLink
  BY DEF SaveContact
<1>3. c \in Contacts
  BY <1>2 DEF ContactInv, RequestsHold
<1>4. CASE /\ LiveContact(c)
           /\ ContactFits(c, contactTask[t].email, contactTask[t].document)
           /\ contact' = [contact EXCEPT
                               ![c].email = contactTask[t].email,
                               ![c].document = contactTask[t].document,
                               ![c].notes = contactTask[t].notes]
           /\ Written(t, c)
           /\ droppedNotes' =
                   droppedNotes \cup
                   (IF Importing(t) /\ t \notin outrun
                       /\ ~(contact[c].notes \subseteq contactTask[t].notes)
                    THEN {c} ELSE {})
  <2> DEFINE row == [contact[c] EXCEPT !.email = contactTask[t].email,
                                       !.document = contactTask[t].document,
                                       !.notes = contactTask[t].notes]
  <2>1. contact' = [contact EXCEPT ![c] = row]
    BY <1>1, <1>3, <1>4
  <2>2. /\ row \in Contact /\ row.state = "live"
        /\ row.email = contactTask[t].email /\ row.document = contactTask[t].document
    BY <1>1, <1>3, <1>4 DEF Contact, ContactTask, LiveContact
  <2>3. droppedNotes' = droppedNotes
    BY <1>2, <1>4 DEF ContactInv, RequestsHold
  <2> HIDE DEF row
  <2> QED BY <1>2, <1>3, <1>4, <2>1, <2>2, <2>3, WrittenStep
<1>5. CASE ContactDone(t) /\ outrun' = outrun \ {t} /\ UNCHANGED <<contact, droppedNotes>>
  <2>1. NoRequest.at = "idle"
    BY DEF NoRequest
  <2> QED BY <2>1, <1>2, <1>5, QuietTask, NoRequestTyped DEF ContactDone
<1> QED BY <1>4, <1>5 DEF SaveContact

LEMMA LinkCustomerStep ==
  ASSUME ContactInv, NEW t \in ContactTasks, LinkCustomer(t)
  PROVE  ContactInv'
<1> DEFINE k == contactTask[t].customer
           c == contactTask[t].on
           holders == {h \in Customers : customerLink[h] = c}
<1>1. /\ contactTask[t] \in ContactTask
      /\ contact \in [Contacts -> Contact]
      /\ customerLink \in [Customers -> Contacts \cup {NoContact}]
  BY DEF ContactInv, ContactSafety, ContactTypes
<1>2. /\ contactTask[t].at = "link" /\ ContactDone(t) /\ outrun' = outrun \ {t}
      /\ UNCHANGED <<contact, droppedNotes>>
  BY DEF LinkCustomer
<1>3. c \in Contacts /\ contact[c].state # "unused" /\ k \in Customers
  BY <1>1, <1>2 DEF ContactInv, RequestsHold, Importing, ContactTask
<1>4. NoRequest.at = "idle"
  BY DEF NoRequest
<1>5. CASE UNCHANGED customerLink
  BY <1>2, <1>4, <1>5, QuietTask, NoRequestTyped DEF ContactDone
<1>6. CASE customerLink' = [h \in Customers |->
                                    IF h = k THEN c
                                    ELSE IF h \in holders THEN NoContact
                                    ELSE customerLink[h]]
  <2>1. ContactTypes'
    BY <1>1, <1>2, <1>3, <1>6, NoRequestTyped
       DEF ContactInv, ContactSafety, ContactTypes, ContactDone
  <2>2. NotesOfTheLiving' /\ OneContactEach' /\ ImportsKeepNotes'
    BY <1>2 DEF ContactInv, ContactSafety, NotesOfTheLiving, OneContactEach,
                ImportsKeepNotes, LiveContact
  <2>3. ASSUME NEW g \in Customers, customerLink'[g] # NoContact
        PROVE  /\ contact'[customerLink'[g]].state # "unused"
               /\ \A h \in Customers \ {g} : customerLink'[h] # customerLink'[g]
    <3>1. CASE g = k
      BY <1>2, <1>3, <1>6, <3>1, ContactAssumption
    <3>2. CASE g # k
      <4>1. customerLink'[g] = customerLink[g] /\ customerLink[g] # c
        BY <1>6, <2>3, <3>2
      <4>2. \A h \in Customers \ {g} : customerLink'[h] # customerLink'[g]
        BY <1>6, <2>3, <4>1 DEF ContactInv, ContactSafety, LinkedToOne
      <4> QED BY <1>2, <2>3, <4>1, <4>2 DEF ContactInv, ContactSafety, LinkedToOne
    <3> QED BY <3>1, <3>2
  <2>4. LinkedToOne'
    BY <2>3 DEF LinkedToOne
  <2>5. /\ contactTask'[t] = NoRequest
        /\ \A u \in ContactTasks \ {t} : contactTask'[u] = contactTask[u]
    BY <1>2 DEF ContactDone, ContactInv, ContactSafety, ContactTypes
  <2>6. RequestsHold'
    BY <1>2, <1>4, <2>5 DEF ContactInv, RequestsHold, Importing
  <2> QED BY <2>1, <2>2, <2>4, <2>6 DEF ContactInv, ContactSafety
<1> QED BY <1>5, <1>6 DEF LinkCustomer

LEMMA DeleteContactStep ==
  ASSUME ContactInv, NEW c \in Contacts, DeleteContact(c)
  PROVE  ContactInv'
<1> USE DEF ContactInv, ContactSafety
<1>1. contact \in [Contacts -> Contact] /\ contact[c].state = "live"
  BY DEF ContactTypes, DeleteContact, LiveContact
<1>2. /\ contact' = [contact EXCEPT ![c] = [@ EXCEPT !.state = "deleted", !.notes = {}]]
      /\ outrun' = outrun \cup {u \in ContactTasks : contactTask[u].on = c}
      /\ UNCHANGED <<customerLink, contactTask, droppedNotes>>
  BY <1>1 DEF DeleteContact
<1>3. /\ contact'[c] \in Contact
      /\ contact'[c].state = "deleted" /\ contact'[c].notes = {}
      /\ contact'[c].email = contact[c].email /\ contact'[c].document = contact[c].document
      /\ \A x \in Contacts \ {c} : contact'[x] = contact[x]
  BY <1>1, <1>2 DEF Contact, Notes
<1>4. ContactTypes'
  BY <1>1, <1>2, <1>3 DEF ContactTypes
<1>5. NotesOfTheLiving'
  BY <1>3 DEF NotesOfTheLiving, LiveContact
<1>6. \A x \in Contacts : /\ contact'[x].email = contact[x].email
                          /\ contact'[x].document = contact[x].document
                          /\ contact'[x].state # "unused" <=> contact[x].state # "unused"
  BY <1>1, <1>3
<1>7. OneContactEach'
  BY <1>6 DEF OneContactEach
<1>8. LinkedToOne' /\ ImportsKeepNotes'
  BY <1>2, <1>6 DEF LinkedToOne, ImportsKeepNotes, ContactTypes
<1>9. RequestsHold'
  BY <1>2, <1>3, <1>6 DEF RequestsHold, Importing
<1> QED BY <1>4, <1>5, <1>7, <1>8, <1>9

LEMMA ContactNextKeeps == ContactInv /\ [ContactNext]_contactVars => ContactInv'
<1> SUFFICES ASSUME ContactInv, [ContactNext]_contactVars PROVE ContactInv'
  OBVIOUS
<1>1. CASE UNCHANGED contactVars
  BY <1>1 DEF contactVars, ContactInv, ContactSafety, ContactTypes, NotesOfTheLiving, LiveContact,
              OneContactEach, LinkedToOne, ImportsKeepNotes, RequestsHold, Importing
<1>2. CASE \E c \in Contacts : DeleteContact(c)
  BY <1>2, DeleteContactStep
<1>3. ASSUME NEW t \in ContactTasks,
             \/ RequestCreate(t) \/ GiveUpContact(t)
             \/ \E c \in Contacts : RequestUpdate(t, c)
             \/ \E k \in Customers : ImportCustomer(t, k)
             \/ FindByEmail(t) \/ FindByDocument(t)
             \/ CreateContact(t) \/ SaveContact(t) \/ LinkCustomer(t)
      PROVE  ContactInv'
  BY <1>3, RequestCreateStep, GiveUpContactStep, RequestUpdateStep, ImportCustomerStep,
     FindByEmailStep, FindByDocumentStep, CreateContactStep, SaveContactStep, LinkCustomerStep
<1> QED BY <1>1, <1>2, <1>3 DEF ContactNext

\* Whatever requests and imports overlap: a person is one contact, a customer is
\* linked to one, and an import nobody outran drops no metadata (contacts,
\* shopify/application/contact).
THEOREM ContactInvariant == ContactSpec => []ContactInv
<1> QED BY ContactStart, ContactNextKeeps, PTL DEF ContactSpec

-----------------------------------------------------------------------------
(* Edits of an order: the session is committed as a whole.                     *)

\* The item of that index is the one that names the variant.
NamedAt(items, j, sku) == \A i \in DOMAIN items : items[i].sku = sku <=> i = j

EditedOrder == [lines : Lines, draft : Lines, open : BOOLEAN, from : Lines,
                items : Payloads \cup {<<>>}]
Editor == [at : {"idle", "begin", "item", "commit"}, items : Payloads \cup {<<>>},
           next : Nat, existing : Lines, changed : BOOLEAN, tries : Nat, round : Nat]

EditTypes ==
  /\ admin \in EditedOrder
  /\ variantLink \in AdminSkus \cup {"none"}
  /\ editEvents \in Seq(Payloads)
  /\ editor \in Editor
  /\ edited \in [handled : Payloads \cup {<<>>}, parked : BOOLEAN]

\* The draft has the lines of the order: those of the items that were gone
\* through have the quantity of the item, the item in hand may have been applied
\* already, and the others are untouched.  One variant may have been added.
DraftFits ==
  /\ editor.existing = admin.lines
  /\ DOMAIN admin.lines \subseteq DOMAIN admin.draft
  /\ DOMAIN admin.draft \subseteq DOMAIN admin.lines \cup ({variantLink} \ {"none"})
  /\ \A sku \in DOMAIN admin.lines :
       /\ (\A i \in DOMAIN editor.items : editor.items[i].sku # sku) =>
            admin.draft[sku] = admin.lines[sku]
       /\ \A j \in DOMAIN editor.items : NamedAt(editor.items, j, sku) =>
            /\ admin.draft[sku] \in {admin.lines[sku], editor.items[j].quantity}
            /\ j < editor.next => admin.draft[sku] = editor.items[j].quantity
  /\ \A i \in DOMAIN editor.items :
       (i < editor.next /\ editor.items[i].sku \notin DOMAIN admin.lines
          /\ variantLink # "none") =>
         /\ variantLink \in DOMAIN admin.draft \ DOMAIN admin.lines
         /\ admin.draft[variantLink] = editor.items[i].quantity

\* An edit that has changed nothing found every item as it should be.
NothingToChange ==
  \A i \in DOMAIN editor.items :
    (i < editor.next /\ editor.items[i].sku \in DOMAIN editor.existing) =>
      editor.existing[editor.items[i].sku] = editor.items[i].quantity

EditorHolds ==
  /\ editor.at # "idle" => editor.items \in Payloads
  /\ editor.at = "item" => admin.open /\ editor.next >= 1
  /\ editor.at = "commit" => \A i \in DOMAIN editor.items : i < editor.next
  /\ (editor.at \in {"item", "commit"} /\ admin.open) => DraftFits
  /\ (editor.at = "item" /\ ~editor.changed) => NothingToChange

EditInv == EditTypes /\ EditedAsAWhole /\ EditsSettle /\ EditorHolds

LEMMA EmptyLines == <<>> \in Lines
<1>1. <<>> \in [{} -> 1..MaxQuantity]
  OBVIOUS
<1> QED BY <1>1 DEF Lines

LEMMA LineType ==
  ASSUME NEW f \in Lines
  PROVE  /\ DOMAIN f \subseteq AdminSkus
         /\ f \in [DOMAIN f -> 1..MaxQuantity]
         /\ \A sku \in DOMAIN f : f[sku] \in 1..MaxQuantity
<1>1. PICK S \in SUBSET AdminSkus : f \in [S -> 1..MaxQuantity]
  BY DEF Lines
<1> QED BY <1>1

LEMMA LineSet ==
  ASSUME NEW f \in Lines, NEW sku, NEW n \in 1..MaxQuantity
  PROVE  [f EXCEPT ![sku] = n] \in Lines
<1>1. PICK S \in SUBSET AdminSkus : f \in [S -> 1..MaxQuantity]
  BY DEF Lines
<1>2. [f EXCEPT ![sku] = n] \in [S -> 1..MaxQuantity]
  BY <1>1
<1> QED BY <1>2 DEF Lines

LEMMA LineAdded ==
  ASSUME NEW f \in Lines, NEW sku \in AdminSkus, NEW n \in 1..MaxQuantity
  PROVE  [x \in DOMAIN f \cup {sku} |-> IF x = sku THEN n ELSE f[x]] \in Lines
<1>1. f \in [DOMAIN f -> 1..MaxQuantity] /\ DOMAIN f \cup {sku} \in SUBSET AdminSkus
  BY LineType
<1>2. [x \in DOMAIN f \cup {sku} |-> IF x = sku THEN n ELSE f[x]]
        \in [DOMAIN f \cup {sku} -> 1..MaxQuantity]
  BY <1>1
<1> QED BY <1>1, <1>2 DEF Lines

LEMMA PayloadType ==
  ASSUME NEW items \in Payloads
  PROVE  /\ DOMAIN items = 1..Len(items) /\ Len(items) \in {1, 2} /\ items # <<>>
         /\ \A i \in DOMAIN items : items[i] \in Item /\ i \in Nat
<1>1. PICK n \in {1, 2} : items \in [1..n -> Item]
  BY DEF Payloads
<1>2. items \in Seq(Item)
  BY <1>1, SeqDef
<1>3. DOMAIN items = 1..n /\ Len(items) = n
  BY <1>1, <1>2, LenProperties
<1>4. items # <<>>
  BY <1>2, <1>3, EmptySeq
<1> QED BY <1>1, <1>3, <1>4

LEMMA OnceNamed ==
  ASSUME NEW items \in Payloads \cup {<<>>}, NEW sku, Once(items, sku)
  PROVE  \E j \in DOMAIN items :
           NamedAt(items, j, sku) /\ QuantityOf(items, sku) = items[j].quantity
<1> DEFINE P == {i \in DOMAIN items : items[i].sku = sku}
<1>1. IsFiniteSet(DOMAIN items)
  <2>1. CASE items = <<>>
    <3>1. DOMAIN items = {}
      BY <2>1
    <3> QED BY <3>1, FS_EmptySet
  <2>2. CASE items \in Payloads
    BY <2>2, PayloadType, FS_Interval
  <2> QED BY <2>1, <2>2
<1>2. IsFiniteSet(P)
  BY <1>1, FS_Subset
<1>3. Cardinality(P) = 1
  BY DEF Once
<1>4. PICK j : P = {j}
  BY <1>2, <1>3, FS_Singleton
<1>5. j \in DOMAIN items /\ NamedAt(items, j, sku)
  BY <1>4 DEF NamedAt
<1>6. (CHOOSE i \in DOMAIN items : items[i].sku = sku) = j
  BY <1>4
<1> QED BY <1>5, <1>6 DEF QuantityOf

LEMMA NoEditorIdle ==
  /\ NoEditor.at = "idle" /\ NoEditor.items = <<>>
  /\ NoEditor \in Editor
  BY EmptyLines DEF NoEditor, Editor

LEMMA EditStart == AdminInit => EditInv
<1> SUFFICES ASSUME AdminInit PROVE EditInv
  OBVIOUS
<1>1. PICK f \in Lines :
        admin = [lines |-> f, draft |-> <<>>, open |-> FALSE, from |-> f, items |-> <<>>]
  BY DEF AdminInit
<1>2. /\ variantLink = "none" /\ editEvents = <<>> /\ editor = NoEditor
      /\ edited = [handled |-> <<>>, parked |-> FALSE]
  BY DEF AdminInit
<1>3. admin \in EditedOrder
  BY <1>1, EmptyLines DEF EditedOrder
<1>4. EditTypes
  BY <1>2, <1>3, NoEditorIdle DEF EditTypes
<1>5. EditedAsAWhole
  BY <1>1 DEF EditedAsAWhole
<1>6. EditsSettle
  <2>1. \A sku : ~Once(<<>>, sku)
    BY OnceNamed
  <2> QED BY <2>1, <1>2 DEF EditsSettle
<1>7. EditorHolds
  BY <1>2, NoEditorIdle DEF EditorHolds
<1> QED BY <1>4, <1>5, <1>6, <1>7 DEF EditInv

\* The session and the order stay, and so does what the draft has.
LEMMA DraftKept ==
  ASSUME DraftFits, UNCHANGED <<admin, variantLink>>,
         editor'.items = editor.items, editor'.existing = editor.existing,
         editor'.next = editor.next
  PROVE  DraftFits'
  BY DEF DraftFits, NamedAt

\* A request gets no answer, or a refusal: it is sent again, the event is handled
\* from the start, or parked.  What Shopify has done may have been done.
LEMMA UnansweredStep ==
  ASSUME EditInv, editor.at # "idle", SendAgain \/ EditFails,
         admin' \in EditedOrder, EditedAsAWhole',
         UNCHANGED <<variantLink, editEvents>>,
         editor.at = "item" => admin'.open,
         (/\ editor.at \in {"item", "commit"} /\ admin'.open
          /\ editor'.items = editor.items /\ editor'.existing = editor.existing
          /\ editor'.next = editor.next) => DraftFits'
  PROVE  EditInv'
<1>1. /\ editor \in Editor /\ editor.items \in Payloads
      /\ edited \in [handled : Payloads \cup {<<>>}, parked : BOOLEAN]
  BY DEF EditInv, EditTypes, EditorHolds
<1>2. CASE editor' = [editor EXCEPT !.tries = @ + 1] /\ UNCHANGED edited
  <2>1. editor.tries + 1 \in Nat
    BY <1>1 DEF Editor
  <2>2. editor' = [editor EXCEPT !.tries = editor.tries + 1]
    BY <1>2
  <2>3. PICK n \in Nat : editor' = [editor EXCEPT !.tries = n]
    BY <2>1, <2>2
  <2>4. /\ editor' \in Editor /\ editor'.at = editor.at /\ editor'.items = editor.items
        /\ editor'.next = editor.next /\ editor'.existing = editor.existing
        /\ editor'.changed = editor.changed
    BY <1>1, <2>3 DEF Editor
  <2>5. EditTypes'
    BY <1>2, <2>4 DEF EditInv, EditTypes
  <2>6. EditsSettle'
    BY <2>4 DEF EditsSettle
  <2>7. EditorHolds'
    BY <2>4 DEF EditInv, EditorHolds, NothingToChange
  <2> QED BY <2>5, <2>6, <2>7 DEF EditInv
<1>3. CASE EditFails
  <2>1. CASE /\ editor' = [NoEditor EXCEPT !.at = "begin", !.items = editor.items,
                                           !.round = editor.round + 1]
             /\ UNCHANGED edited
    <3>1. editor.round + 1 \in Nat
      BY <1>1 DEF Editor
    <3>2. PICK n \in Nat : editor' = [NoEditor EXCEPT !.at = "begin", !.items = editor.items,
                                                      !.round = n]
      BY <2>1, <3>1
    <3>3. editor' \in Editor /\ editor'.at = "begin" /\ editor'.items = editor.items
      BY <1>1, <3>2, NoEditorIdle DEF Editor
    <3>4. EditTypes'
      BY <2>1, <3>3 DEF EditInv, EditTypes
    <3>5. EditsSettle' /\ EditorHolds'
      BY <1>1, <3>3 DEF EditsSettle, EditorHolds
    <3> QED BY <3>4, <3>5 DEF EditInv
  <2>2. CASE editor' = NoEditor /\ edited' = [edited EXCEPT !.parked = TRUE]
    <3>1. edited' \in [handled : Payloads \cup {<<>>}, parked : BOOLEAN] /\ edited'.parked
      BY <1>1, <2>2
    <3>2. EditTypes'
      BY <2>2, <3>1, NoEditorIdle DEF EditInv, EditTypes
    <3>3. EditsSettle' /\ EditorHolds'
      BY <2>2, <3>1, NoEditorIdle DEF EditsSettle, EditorHolds
    <3> QED BY <3>2, <3>3 DEF EditInv
  <2> QED BY <1>3, <2>1, <2>2 DEF EditFails
<1> QED BY <1>2, <1>3 DEF SendAgain

\* The same when Shopify has done nothing.
LEMMA RefusedStep ==
  ASSUME EditInv, editor.at # "idle", SendAgain \/ EditFails,
         UNCHANGED <<admin, variantLink, editEvents>>
  PROVE  EditInv'
<1>1. admin' \in EditedOrder /\ EditedAsAWhole'
  BY DEF EditInv, EditTypes, EditedAsAWhole
<1>2. editor.at = "item" => admin'.open
  BY DEF EditInv, EditorHolds
<1>3. (/\ editor.at \in {"item", "commit"} /\ admin'.open
       /\ editor'.items = editor.items /\ editor'.existing = editor.existing
       /\ editor'.next = editor.next) => DraftFits'
  BY DraftKept DEF EditInv, EditorHolds
<1> QED BY <1>1, <1>2, <1>3, UnansweredStep

LEMMA BeginEditStep ==
  ASSUME EditInv, BeginEdit
  PROVE  EditInv'
<1> DEFINE after == [admin EXCEPT !.draft = admin.lines, !.open = TRUE]
           next == [editor EXCEPT !.at = "item", !.next = 1, !.existing = admin.lines]
<1>1. /\ editor.at = "begin" /\ editor \in Editor /\ admin \in EditedOrder
      /\ editor.items \in Payloads
      /\ edited \in [handled : Payloads \cup {<<>>}, parked : BOOLEAN]
  BY DEF BeginEdit, EditInv, EditTypes, EditorHolds
<1>2. Ask(TRUE, after, next)
  BY DEF BeginEdit
<1>3. UNCHANGED <<variantLink, editEvents>>
  BY <1>2 DEF Ask
<1>4. /\ after \in EditedOrder /\ after.lines = admin.lines /\ after.from = admin.from
      /\ after.items = admin.items /\ after.draft = admin.lines /\ after.open
  BY <1>1 DEF EditedOrder
<1>5. /\ [next EXCEPT !.tries = 0] \in Editor /\ [next EXCEPT !.tries = 0].at = "item"
      /\ [next EXCEPT !.tries = 0].next = 1
      /\ [next EXCEPT !.tries = 0].existing = admin.lines
      /\ [next EXCEPT !.tries = 0].items = editor.items
  BY <1>1 DEF Editor, EditedOrder
<1> HIDE DEF after, next
<1>6. admin' = after => EditedAsAWhole'
  BY <1>4 DEF EditInv, EditedAsAWhole
<1>7. CASE /\ admin' = after /\ editor' = [next EXCEPT !.tries = 0]
           /\ edited' = IF next = NoEditor THEN [edited EXCEPT !.handled = editor.items] ELSE edited
  <2>1. edited' \in [handled : Payloads \cup {<<>>}, parked : BOOLEAN]
    BY <1>1, <1>7
  <2>2. EditTypes'
    BY <1>3, <1>4, <1>5, <1>7, <2>1 DEF EditInv, EditTypes
  <2>3. \A i \in DOMAIN editor'.items : ~(i < editor'.next)
    BY <1>1, <1>5, <1>7, PayloadType
  <2>4. DraftFits'
    BY <1>4, <1>5, <1>7, <2>3 DEF DraftFits
  <2>5. NothingToChange'
    BY <2>3 DEF NothingToChange
  <2>6. EditsSettle' /\ EditorHolds'
    BY <1>1, <1>4, <1>5, <1>7, <2>4, <2>5 DEF EditsSettle, EditorHolds
  <2> QED BY <1>6, <1>7, <2>2, <2>6 DEF EditInv
<1>8. CASE admin' = after /\ (SendAgain \/ EditFails)
  BY <1>1, <1>3, <1>4, <1>6, <1>8, UnansweredStep
<1>9. CASE UNCHANGED admin /\ (SendAgain \/ EditFails)
  BY <1>1, <1>3, <1>9, RefusedStep
<1> QED BY <1>2, <1>7, <1>8, <1>9 DEF Ask

LEMMA ItemInHand ==
  ASSUME EditInv, editor.at = "item", editor.next <= Len(editor.items)
  PROVE  /\ editor.next \in DOMAIN editor.items /\ editor.next \in Nat
         /\ EditItem \in Item /\ EditItem.sku \in AdminSkus /\ EditItem.quantity \in 1..MaxQuantity
         /\ editor.items \in Payloads /\ editor \in Editor /\ admin \in EditedOrder
         /\ admin.open /\ DraftFits
         /\ edited \in [handled : Payloads \cup {<<>>}, parked : BOOLEAN]
<1>1. /\ editor.items \in Payloads /\ editor \in Editor /\ admin \in EditedOrder
      /\ admin.open /\ DraftFits /\ editor.next >= 1
      /\ edited \in [handled : Payloads \cup {<<>>}, parked : BOOLEAN]
  BY DEF EditInv, EditTypes, EditorHolds
<1>2. editor.next \in Nat
  BY <1>1 DEF Editor
<1>3. editor.next \in DOMAIN editor.items
  BY <1>1, <1>2, PayloadType
<1>4. EditItem \in Item
  BY <1>1, <1>3, PayloadType DEF EditItem
<1> QED BY <1>1, <1>2, <1>3, <1>4 DEF Item

LEMMA PassItemStep ==
  ASSUME EditInv, PassItem
  PROVE  EditInv'
<1>1. /\ editor.at = "item" /\ editor.next <= Len(editor.items)
      /\ UNCHANGED <<admin, variantLink, editEvents, edited>>
      /\ IF OnOrder THEN editor.existing[EditItem.sku] = EditItem.quantity
                    ELSE variantLink = "none"
  BY DEF PassItem
<1>2. /\ editor.next \in DOMAIN editor.items /\ editor.next \in Nat
      /\ editor.items \in Payloads /\ editor \in Editor /\ admin.open /\ DraftFits
  BY <1>1, ItemInHand
<1>3. /\ editor'.at = "item" /\ editor'.items = editor.items
      /\ editor'.existing = editor.existing /\ editor'.changed = editor.changed
      /\ editor'.next = editor.next + 1 /\ editor' \in Editor
  BY <1>1, <1>2 DEF PassItem, Editor
<1>4. EditTypes'
  BY <1>1, <1>3 DEF EditInv, EditTypes
<1>5. EditedAsAWhole'
  BY <1>1 DEF EditInv, EditedAsAWhole
<1>6. EditsSettle'
  BY <1>3 DEF EditsSettle
<1>7. \A i \in DOMAIN editor.items : i < editor'.next => i < editor.next \/ i = editor.next
  BY <1>2, <1>3, PayloadType
<1>8. NothingToChange => NothingToChange'
  BY <1>1, <1>3, <1>7 DEF NothingToChange, OnOrder, EditItem
<1>9. DraftFits'
  <2>1. ASSUME NEW sku \in DOMAIN admin.lines, NEW j \in DOMAIN editor.items,
               NamedAt(editor.items, j, sku)
        PROVE  /\ admin.draft[sku] \in {admin.lines[sku], editor.items[j].quantity}
               /\ j < editor'.next => admin.draft[sku] = editor.items[j].quantity
    <3>1. /\ admin.draft[sku] \in {admin.lines[sku], editor.items[j].quantity}
          /\ j < editor.next => admin.draft[sku] = editor.items[j].quantity
      BY <1>2, <2>1 DEF DraftFits
    <3>2. j = editor.next => admin.lines[sku] = editor.items[j].quantity
      BY <1>1, <1>2, <2>1 DEF NamedAt, OnOrder, EditItem, DraftFits
    <3> QED BY <1>7, <3>1, <3>2
  <2>2. ASSUME NEW i \in DOMAIN editor.items, i < editor'.next,
               editor.items[i].sku \notin DOMAIN admin.lines, variantLink # "none"
        PROVE  i < editor.next
    BY <1>1, <1>2, <1>7, <2>2 DEF DraftFits, OnOrder, EditItem
  <2> QED BY <1>1, <1>2, <1>3, <2>1, <2>2 DEF DraftFits, NamedAt
<1> QED BY <1>1, <1>2, <1>3, <1>4, <1>5, <1>6, <1>8, <1>9 DEF EditInv, EditorHolds

\* What an accepted request for the item in hand makes of the session, when the
\* editor hears of it and goes on to the next item, and when it does not.
LEMMA ItemAppliedStep ==
  ASSUME EditInv, editor.at = "item", editor.next <= Len(editor.items),
         NEW after \in EditedOrder,
         after.lines = admin.lines, after.from = admin.from, after.items = admin.items, after.open,
         ASSUME admin' = after, UNCHANGED variantLink,
                editor'.items = editor.items, editor'.existing = editor.existing,
                editor'.next \in {editor.next, editor.next + 1}
         PROVE  DraftFits',
         Ask(TRUE, after, [Changed EXCEPT !.next = @ + 1])
  PROVE  EditInv'
<1> DEFINE next == [Changed EXCEPT !.next = @ + 1]
<1>1. /\ editor \in Editor /\ editor.items \in Payloads /\ editor.next \in Nat
      /\ edited \in [handled : Payloads \cup {<<>>}, parked : BOOLEAN]
  BY ItemInHand
<1>2. UNCHANGED <<variantLink, editEvents>> /\ editor.at # "idle"
  BY DEF Ask
<1>3. admin' = after => EditedAsAWhole'
  BY DEF EditInv, EditedAsAWhole
<1>4. /\ [next EXCEPT !.tries = 0] \in Editor /\ [next EXCEPT !.tries = 0].at = "item"
      /\ [next EXCEPT !.tries = 0].next = editor.next + 1
      /\ [next EXCEPT !.tries = 0].existing = editor.existing
      /\ [next EXCEPT !.tries = 0].items = editor.items
      /\ [next EXCEPT !.tries = 0].changed
  <2>1. Changed \in Editor /\ Changed.next = editor.next
    BY <1>1 DEF Editor, Changed
  <2>2. PICK n \in Nat : n = editor.next + 1
    BY <1>1
  <2>3. next = [Changed EXCEPT !.next = n]
    BY <2>1, <2>2
  <2>4. next = [editor EXCEPT !.changed = TRUE, !.next = n]
    BY <1>1, <2>3 DEF Changed
  <2> QED BY <1>1, <2>2, <2>4 DEF Editor
<1>5. CASE /\ admin' = after /\ editor' = [next EXCEPT !.tries = 0]
           /\ edited' = IF next = NoEditor THEN [edited EXCEPT !.handled = editor.items] ELSE edited
  <2>1. edited' \in [handled : Payloads \cup {<<>>}, parked : BOOLEAN]
    BY <1>1, <1>5
  <2>2. EditTypes'
    BY <1>2, <1>4, <1>5, <2>1 DEF EditInv, EditTypes
  <2>3. DraftFits'
    BY <1>2, <1>4, <1>5
  <2>4. EditsSettle' /\ EditorHolds'
    BY <1>1, <1>4, <1>5, <2>3 DEF EditsSettle, EditorHolds
  <2> QED BY <1>3, <1>5, <2>2, <2>4 DEF EditInv
<1>6. CASE admin' = after /\ (SendAgain \/ EditFails)
  <2>1. editor'.items = editor.items /\ editor'.existing = editor.existing
          /\ editor'.next = editor.next => DraftFits'
    BY <1>2, <1>6
  <2> QED BY <1>2, <1>3, <1>6, <2>1, UnansweredStep
<1>7. CASE UNCHANGED admin /\ (SendAgain \/ EditFails)
  BY <1>2, <1>7, RefusedStep
<1> QED BY <1>5, <1>6, <1>7 DEF Ask

LEMMA SetQuantityStep ==
  ASSUME EditInv, SetQuantity
  PROVE  EditInv'
<1> DEFINE after == [admin EXCEPT !.draft[EditItem.sku] = EditItem.quantity]
           sku == EditItem.sku
<1>1. /\ editor.at = "item" /\ editor.next <= Len(editor.items) /\ OnOrder
      /\ Ask(admin.open, after, [Changed EXCEPT !.next = @ + 1])
  BY DEF SetQuantity
<1>2. /\ editor.next \in DOMAIN editor.items /\ editor.next \in Nat
      /\ EditItem \in Item /\ sku \in AdminSkus /\ EditItem.quantity \in 1..MaxQuantity
      /\ editor.items \in Payloads /\ editor \in Editor /\ admin \in EditedOrder
      /\ admin.open /\ DraftFits
  BY <1>1, ItemInHand
<1>3. admin.draft \in Lines /\ sku \in DOMAIN admin.lines /\ sku \in DOMAIN admin.draft
  BY <1>1, <1>2 DEF EditedOrder, OnOrder, DraftFits
<1>4. [admin.draft EXCEPT ![sku] = EditItem.quantity] \in Lines
  BY <1>2, <1>3, LineSet
<1>5. /\ after \in EditedOrder /\ after.lines = admin.lines /\ after.from = admin.from
      /\ after.items = admin.items /\ after.open
      /\ after.draft = [admin.draft EXCEPT ![sku] = EditItem.quantity]
  BY <1>2, <1>4 DEF EditedOrder
<1> HIDE DEF after
<1>6. ASSUME admin' = after, UNCHANGED variantLink,
             editor'.items = editor.items, editor'.existing = editor.existing,
             editor'.next \in {editor.next, editor.next + 1}
      PROVE  DraftFits'
  <2>1. /\ DOMAIN admin'.draft = DOMAIN admin.draft
        /\ admin'.draft[sku] = editor.items[editor.next].quantity
        /\ \A x \in DOMAIN admin.draft \ {sku} : admin'.draft[x] = admin.draft[x]
    BY <1>3, <1>5, <1>6 DEF EditItem
  <2>2. sku = editor.items[editor.next].sku
    BY DEF EditItem
  <2>3. \A i \in DOMAIN editor.items : i < editor'.next => i < editor.next \/ i = editor.next
    BY <1>2, <1>6, PayloadType
  <2>4. admin'.lines = admin.lines /\ DOMAIN admin.lines \subseteq DOMAIN admin.draft
    BY <1>2, <1>5, <1>6 DEF DraftFits
  <2>5. ASSUME NEW x \in DOMAIN admin.lines,
               \A i \in DOMAIN editor.items : editor.items[i].sku # x
        PROVE  admin'.draft[x] = admin.lines[x]
    BY <1>2, <2>1, <2>2, <2>4, <2>5 DEF DraftFits
  <2>6. ASSUME NEW x \in DOMAIN admin.lines, NEW j \in DOMAIN editor.items,
               NamedAt(editor.items, j, x)
        PROVE  /\ admin'.draft[x] \in {admin.lines[x], editor.items[j].quantity}
               /\ j < editor'.next => admin'.draft[x] = editor.items[j].quantity
    <3>1. CASE x = sku
      BY <1>2, <2>1, <2>2, <2>6, <3>1 DEF NamedAt
    <3>2. CASE x # sku
      <4>1. j # editor.next /\ admin'.draft[x] = admin.draft[x]
        BY <2>1, <2>2, <2>4, <2>6, <3>2 DEF NamedAt
      <4> QED BY <1>2, <2>3, <2>6, <4>1 DEF DraftFits
    <3> QED BY <3>1, <3>2
  <2>7. ASSUME NEW i \in DOMAIN editor.items, i < editor'.next,
               editor.items[i].sku \notin DOMAIN admin.lines, variantLink # "none"
        PROVE  /\ variantLink \in DOMAIN admin.draft \ DOMAIN admin.lines
               /\ admin'.draft[variantLink] = editor.items[i].quantity
    <3>1. i < editor.next
      BY <1>3, <2>2, <2>3, <2>7
    <3>2. /\ variantLink \in DOMAIN admin.draft \ DOMAIN admin.lines
          /\ admin.draft[variantLink] = editor.items[i].quantity
      BY <1>2, <2>7, <3>1 DEF DraftFits
    <3> QED BY <1>3, <2>1, <3>2
  <2>8. /\ editor.existing = admin.lines
        /\ DOMAIN admin.draft \subseteq DOMAIN admin.lines \cup ({variantLink} \ {"none"})
    BY <1>2 DEF DraftFits
  <2> QED BY <1>6, <2>1, <2>4, <2>5, <2>6, <2>7, <2>8 DEF DraftFits, NamedAt
<1>7. Ask(TRUE, after, [Changed EXCEPT !.next = @ + 1])
  BY <1>1, <1>2 DEF Ask
<1> QED BY <1>1, <1>5, <1>6, <1>7, ItemAppliedStep

LEMMA AddVariantStep ==
  ASSUME EditInv, AddVariant
  PROVE  EditInv'
<1> DEFINE wider == [x \in DOMAIN admin.draft \cup {variantLink} |->
                       IF x = variantLink THEN EditItem.quantity ELSE admin.draft[x]]
           after == [admin EXCEPT !.draft = wider]
           accepts == admin.open /\ variantLink \notin DOMAIN admin.draft
<1>1. /\ editor.at = "item" /\ editor.next <= Len(editor.items)
      /\ ~OnOrder /\ variantLink # "none"
      /\ Ask(accepts, after, [Changed EXCEPT !.next = @ + 1])
  BY DEF AddVariant
<1>2. /\ editor.next \in DOMAIN editor.items /\ editor.next \in Nat
      /\ EditItem.quantity \in 1..MaxQuantity
      /\ editor.items \in Payloads /\ admin \in EditedOrder /\ admin.open /\ DraftFits
  BY <1>1, ItemInHand
<1>3. admin.draft \in Lines /\ variantLink \in AdminSkus
  BY <1>1, <1>2 DEF EditInv, EditTypes, EditedOrder
<1>4. wider \in Lines
  BY <1>2, <1>3, LineAdded
<1> HIDE DEF wider
<1>5. /\ after \in EditedOrder /\ after.lines = admin.lines /\ after.from = admin.from
      /\ after.items = admin.items /\ after.open /\ after.draft = wider
  BY <1>2, <1>4 DEF EditedOrder
<1> HIDE DEF after
<1>6. CASE accepts
  <2>1. ASSUME admin' = after, UNCHANGED variantLink,
               editor'.items = editor.items, editor'.existing = editor.existing,
               editor'.next \in {editor.next, editor.next + 1}
        PROVE  DraftFits'
    <3>1. /\ DOMAIN admin'.draft = DOMAIN admin.draft \cup {variantLink}
          /\ admin'.draft[variantLink] = editor.items[editor.next].quantity
          /\ \A x \in DOMAIN admin.draft : admin'.draft[x] = admin.draft[x]
      BY <1>5, <1>6, <2>1 DEF EditItem, wider
    <3>2. \A i \in DOMAIN editor.items : i < editor'.next => i < editor.next \/ i = editor.next
      BY <1>2, <2>1, PayloadType
    <3>3. /\ admin'.lines = admin.lines /\ DOMAIN admin.lines \subseteq DOMAIN admin.draft
          /\ editor.existing = admin.lines
          /\ DOMAIN admin.draft \subseteq DOMAIN admin.lines \cup ({variantLink} \ {"none"})
      BY <1>2, <1>5, <2>1 DEF DraftFits
    <3>4. ASSUME NEW x \in DOMAIN admin.lines, NEW j \in DOMAIN editor.items,
                 NamedAt(editor.items, j, x)
          PROVE  /\ admin'.draft[x] \in {admin.lines[x], editor.items[j].quantity}
                 /\ j < editor'.next => admin'.draft[x] = editor.items[j].quantity
      <4>1. j # editor.next
        BY <1>1, <1>2, <3>3, <3>4 DEF NamedAt, OnOrder, EditItem
      <4>2. j < editor'.next => j < editor.next
        BY <3>2, <4>1
      <4>3. /\ admin.draft[x] \in {admin.lines[x], editor.items[j].quantity}
            /\ j < editor.next => admin.draft[x] = editor.items[j].quantity
        BY <1>2, <3>4 DEF DraftFits
      <4> QED BY <3>1, <3>3, <4>2, <4>3
    <3>5. ASSUME NEW i \in DOMAIN editor.items, i < editor'.next,
                 editor.items[i].sku \notin DOMAIN admin.lines
          PROVE  /\ variantLink \in DOMAIN admin'.draft \ DOMAIN admin.lines
                 /\ admin'.draft[variantLink] = editor.items[i].quantity
      <4>1. ~(i < editor.next)
        BY <1>1, <1>2, <1>6, <3>5 DEF DraftFits
      <4> QED BY <1>6, <3>1, <3>2, <3>3, <3>5, <4>1
    <3>6. \A x \in DOMAIN admin.lines :
            (\A i \in DOMAIN editor.items : editor.items[i].sku # x) =>
               admin'.draft[x] = admin.lines[x]
      BY <1>2, <3>1, <3>3 DEF DraftFits
    <3> QED BY <1>1, <2>1, <3>1, <3>3, <3>4, <3>5, <3>6 DEF DraftFits, NamedAt
  <2>2. Ask(TRUE, after, [Changed EXCEPT !.next = @ + 1])
    BY <1>1, <1>6 DEF Ask
  <2> QED BY <1>1, <1>5, <2>1, <2>2, ItemAppliedStep
<1>7. CASE ~accepts
  <2>1. UNCHANGED <<admin, variantLink, editEvents>> /\ (SendAgain \/ EditFails)
    BY <1>1, <1>7 DEF Ask
  <2> QED BY <1>1, <2>1, RefusedStep
<1> QED BY <1>6, <1>7

LEMMA LastItemStep ==
  ASSUME EditInv, LastItem
  PROVE  EditInv'
<1>1. /\ editor.at = "item" /\ editor.next > Len(editor.items)
      /\ UNCHANGED <<admin, variantLink, editEvents>>
      /\ IF editor.changed
         THEN editor' = [editor EXCEPT !.at = "commit"] /\ UNCHANGED edited
         ELSE editor' = NoEditor /\ edited' = [edited EXCEPT !.handled = editor.items]
  BY DEF LastItem
<1>2. /\ editor.items \in Payloads /\ editor \in Editor /\ DraftFits
      /\ edited \in [handled : Payloads \cup {<<>>}, parked : BOOLEAN]
  BY <1>1 DEF EditInv, EditTypes, EditorHolds
<1>3. \A i \in DOMAIN editor.items : i < editor.next
  <2>1. editor.next \in Nat
    BY <1>2 DEF Editor
  <2> QED BY <1>1, <1>2, <2>1, PayloadType
<1>4. EditedAsAWhole'
  BY <1>1 DEF EditInv, EditedAsAWhole
<1>5. CASE editor.changed
  <2>1. /\ editor' \in Editor /\ editor'.at = "commit" /\ editor'.items = editor.items
        /\ editor'.next = editor.next /\ editor'.existing = editor.existing
    BY <1>1, <1>2, <1>5 DEF Editor
  <2>2. EditTypes' /\ EditsSettle'
    BY <1>1, <1>5, <2>1 DEF EditInv, EditTypes, EditsSettle
  <2>3. DraftFits'
    BY <1>1, <1>2, <2>1, DraftKept
  <2>4. EditorHolds'
    BY <1>2, <1>3, <2>1, <2>3 DEF EditorHolds
  <2> QED BY <1>4, <2>2, <2>4 DEF EditInv
<1>6. CASE ~editor.changed
  <2>1. /\ editor' = NoEditor /\ edited'.handled = editor.items
        /\ edited' \in [handled : Payloads \cup {<<>>}, parked : BOOLEAN]
    BY <1>1, <1>2, <1>6
  <2>2. EditTypes' /\ EditorHolds'
    BY <1>1, <2>1, NoEditorIdle DEF EditInv, EditTypes, EditorHolds
  <2>3. NothingToChange /\ editor.existing = admin.lines
    BY <1>1, <1>2, <1>6 DEF EditInv, EditorHolds, DraftFits
  <2>4. ASSUME NEW sku \in DOMAIN admin.lines, Once(editor.items, sku)
        PROVE  admin.lines[sku] = QuantityOf(editor.items, sku)
    <3>1. PICK j \in DOMAIN editor.items :
            /\ NamedAt(editor.items, j, sku)
            /\ QuantityOf(editor.items, sku) = editor.items[j].quantity
      BY <1>2, <2>4, OnceNamed
    <3> QED BY <1>3, <2>3, <3>1 DEF NamedAt, NothingToChange
  <2>5. EditsSettle'
    BY <1>1, <2>1, <2>4 DEF EditsSettle
  <2> QED BY <1>4, <2>2, <2>5 DEF EditInv
<1> QED BY <1>5, <1>6

LEMMA CommitEditStep ==
  ASSUME EditInv, CommitEdit
  PROVE  EditInv'
<1> DEFINE after == [lines |-> admin.draft, draft |-> <<>>, open |-> FALSE,
                     from |-> admin.lines, items |-> editor.items]
<1>1. editor.at = "commit" /\ Ask(admin.open, after, NoEditor)
  BY DEF CommitEdit
<1>2. /\ editor.items \in Payloads /\ editor \in Editor /\ admin \in EditedOrder
      /\ edited \in [handled : Payloads \cup {<<>>}, parked : BOOLEAN]
      /\ admin.open => DraftFits
      /\ \A i \in DOMAIN editor.items : i < editor.next
  BY <1>1 DEF EditInv, EditTypes, EditorHolds
<1>3. UNCHANGED <<variantLink, editEvents>>
  BY <1>1 DEF Ask
<1>4. /\ after \in EditedOrder /\ after.lines = admin.draft /\ after.from = admin.lines
      /\ after.items = editor.items /\ ~after.open
  BY <1>2, EmptyLines DEF EditedOrder
<1> HIDE DEF after
<1>5. ASSUME admin.open, NEW sku \in DOMAIN admin.draft, Once(editor.items, sku)
      PROVE  admin.draft[sku] = QuantityOf(editor.items, sku)
  <2>1. PICK j \in DOMAIN editor.items :
          /\ NamedAt(editor.items, j, sku)
          /\ QuantityOf(editor.items, sku) = editor.items[j].quantity
    BY <1>2, <1>5, OnceNamed
  <2>2. CASE sku \in DOMAIN admin.lines
    BY <1>2, <1>5, <2>1, <2>2 DEF DraftFits
  <2>3. CASE sku \notin DOMAIN admin.lines
    <3>1. sku = variantLink /\ variantLink # "none" /\ editor.items[j].sku = sku
      BY <1>2, <1>5, <2>1, <2>3 DEF DraftFits, NamedAt
    <3> QED BY <1>2, <1>5, <2>1, <2>3, <3>1 DEF DraftFits
  <2> QED BY <2>2, <2>3
<1>6. ASSUME admin.open, admin' = after PROVE EditedAsAWhole'
  <2>1. ASSUME NEW sku \in DOMAIN admin.lines
        PROVE  /\ sku \in DOMAIN admin.draft
               /\ (\A i \in DOMAIN editor.items : editor.items[i].sku # sku)
                    => admin.draft[sku] = admin.lines[sku]
    BY <1>2, <1>6 DEF DraftFits
  <2> QED BY <1>4, <1>5, <1>6, <2>1 DEF EditedAsAWhole
<1>7. CASE /\ admin.open /\ admin' = after /\ editor' = [NoEditor EXCEPT !.tries = 0]
           /\ edited' = IF NoEditor = NoEditor THEN [edited EXCEPT !.handled = editor.items]
                                               ELSE edited
  <2>1. editor' \in Editor /\ editor'.at = "idle"
    BY <1>7, NoEditorIdle DEF Editor
  <2>2. /\ edited' \in [handled : Payloads \cup {<<>>}, parked : BOOLEAN]
        /\ edited'.handled = editor.items
    BY <1>2, <1>7
  <2>3. EditTypes' /\ EditorHolds'
    BY <1>3, <1>4, <1>7, <2>1, <2>2 DEF EditInv, EditTypes, EditorHolds
  <2>4. EditsSettle'
    BY <1>4, <1>5, <1>7, <2>2 DEF EditsSettle
  <2> QED BY <1>6, <1>7, <2>3, <2>4 DEF EditInv
<1>8. CASE admin.open /\ admin' = after /\ (SendAgain \/ EditFails)
  BY <1>1, <1>3, <1>4, <1>6, <1>8, UnansweredStep
<1>9. CASE UNCHANGED admin /\ (SendAgain \/ EditFails)
  BY <1>1, <1>3, <1>9, RefusedStep
<1> QED BY <1>1, <1>7, <1>8, <1>9 DEF Ask

LEMMA TakeEditStep ==
  ASSUME EditInv, TakeEdit
  PROVE  EditInv'
<1>1. /\ editEvents # <<>> /\ editEvents' = Tail(editEvents)
      /\ editor' = [NoEditor EXCEPT !.at = "begin", !.items = Head(editEvents)]
      /\ admin' = [admin EXCEPT !.from = <<>>, !.items = <<>>]
      /\ edited' = [handled |-> <<>>, parked |-> FALSE]
      /\ UNCHANGED variantLink
  BY DEF TakeEdit
<1>2. editEvents \in Seq(Payloads) /\ admin \in EditedOrder
  BY DEF EditInv, EditTypes
<1>3. Head(editEvents) \in Payloads /\ editEvents' \in Seq(Payloads)
  BY <1>1, <1>2, HeadTailProperties
<1>4. editor' \in Editor /\ editor'.at = "begin" /\ editor'.items \in Payloads
  BY <1>1, <1>3, NoEditorIdle DEF Editor
<1>5. admin' \in EditedOrder /\ admin'.items = <<>>
  BY <1>1, <1>2, EmptyLines DEF EditedOrder
<1>6. edited' \in [handled : Payloads \cup {<<>>}, parked : BOOLEAN]
  BY <1>1
<1>7. EditTypes'
  BY <1>1, <1>3, <1>4, <1>5, <1>6 DEF EditInv, EditTypes
<1>8. EditedAsAWhole' /\ EditsSettle' /\ EditorHolds'
  BY <1>4, <1>5 DEF EditedAsAWhole, EditsSettle, EditorHolds
<1> QED BY <1>7, <1>8 DEF EditInv

\* While nobody edits, events come and the product is linked anew.
LEMMA IdleEditStep ==
  ASSUME EditInv, editor.at = "idle", UNCHANGED <<admin, editor, edited>>,
         editEvents' \in Seq(Payloads), variantLink' \in AdminSkus \cup {"none"}
  PROVE  EditInv'
<1>1. EditTypes'
  BY DEF EditInv, EditTypes
<1>2. EditedAsAWhole' /\ EditsSettle' /\ EditorHolds'
  BY DEF EditInv, EditedAsAWhole, EditsSettle, EditorHolds
<1> QED BY <1>1, <1>2 DEF EditInv

LEMMA EditNextKeeps == EditInv /\ [EditNext]_editVars => EditInv'
<1> SUFFICES ASSUME EditInv, [EditNext]_editVars PROVE EditInv'
  OBVIOUS
<1>1. CASE UNCHANGED editVars
  BY <1>1 DEF editVars, EditInv, EditTypes, EditedAsAWhole, EditsSettle, EditorHolds, DraftFits,
              NothingToChange
<1>2. ASSUME NEW items \in Payloads, AnnounceLines(items) PROVE EditInv'
  <2>1. editEvents' \in Seq(Payloads)
    BY <1>2, AppendProperties DEF AnnounceLines, EditInv, EditTypes
  <2>2. variantLink' \in AdminSkus \cup {"none"}
    BY <1>2 DEF AnnounceLines, EditInv, EditTypes
  <2> QED BY <1>2, <2>1, <2>2, IdleEditStep DEF AnnounceLines
<1>3. ASSUME NEW sku \in AdminSkus, LinkVariant(sku) PROVE EditInv'
  <2>1. editEvents' \in Seq(Payloads)
    BY <1>3 DEF LinkVariant, EditInv, EditTypes
  <2> QED BY <1>3, <2>1, IdleEditStep DEF LinkVariant
<1> QED BY <1>1, <1>2, <1>3, TakeEditStep, BeginEditStep, PassItemStep, SetQuantityStep,
           AddVariantStep, LastItemStep, CommitEditStep DEF EditNext

-----------------------------------------------------------------------------
(* Sets of numbers: the rank of an element, the first of them, all in order.    *)

Rank(S, x) == Cardinality({y \in S : y < x})

LEMMA RankType ==
  ASSUME NEW S \in SUBSET Nat, IsFiniteSet(S), NEW x \in Nat
  PROVE  Rank(S, x) \in Nat /\ Rank(S, x) <= Cardinality(S)
<1>1. {y \in S : y < x} \in SUBSET S
  OBVIOUS
<1>2. IsFiniteSet({y \in S : y < x}) /\ Cardinality({y \in S : y < x}) <= Cardinality(S)
  BY <1>1, FS_Subset
<1> QED BY <1>2, FS_CardinalityType DEF Rank

LEMMA RankGrows ==
  ASSUME NEW S \in SUBSET Nat, IsFiniteSet(S), NEW x \in S, NEW z \in Nat, x < z
  PROVE  Rank(S, x) + 1 <= Rank(S, z)
<1> DEFINE X == {y \in S : y < x}
           Z == {y \in S : y < z}
<1>1. X \in SUBSET S /\ Z \in SUBSET S
  OBVIOUS
<1>2. IsFiniteSet(X) /\ IsFiniteSet(Z)
  BY <1>1, FS_Subset
<1>3. x \notin X
  OBVIOUS
<1>4. IsFiniteSet(X \cup {x}) /\ Cardinality(X \cup {x}) = Cardinality(X) + 1
  BY <1>2, <1>3, FS_AddElement
<1>5. X \cup {x} \in SUBSET Z
  <2>1. \A y \in X : y < z
    OBVIOUS
  <2> QED BY <2>1
<1>6. Cardinality(X \cup {x}) <= Cardinality(Z)
  BY <1>2, <1>5, FS_Subset
<1> QED BY <1>4, <1>6 DEF Rank

LEMMA RankBelow ==
  ASSUME NEW S \in SUBSET Nat, IsFiniteSet(S), NEW x \in S
  PROVE  Rank(S, x) + 1 <= Cardinality(S)
<1> DEFINE X == {y \in S : y < x}
<1>1. X \in SUBSET S /\ x \notin X /\ X \cup {x} \in SUBSET S
  OBVIOUS
<1>2. IsFiniteSet(X)
  BY <1>1, FS_Subset
<1>3. Cardinality(X \cup {x}) = Cardinality(X) + 1
  BY <1>1, <1>2, FS_AddElement
<1>4. Cardinality(X \cup {x}) <= Cardinality(S)
  BY <1>1, FS_Subset
<1> QED BY <1>3, <1>4 DEF Rank

\* The ranks of the elements are the numbers below the size of the set.
LEMMA RankBijection ==
  ASSUME NEW S \in SUBSET Nat, IsFiniteSet(S)
  PROVE  /\ \A x, y \in S : Rank(S, x) = Rank(S, y) => x = y
         /\ \A i \in 0..Cardinality(S) - 1 : \E x \in S : Rank(S, x) = i
<1> DEFINE n == Cardinality(S)
           T == 0..n - 1
           f == [x \in S |-> Rank(S, x)]
<1>1. n \in Nat
  BY FS_CardinalityType
<1>2. \A x \in S : Rank(S, x) \in T
  BY <1>1, RankType, RankBelow
<1>3. ASSUME NEW x \in S, NEW y \in S, Rank(S, x) = Rank(S, y) PROVE x = y
  <2>1. ~(x < y) /\ ~(y < x)
    BY <1>2, <1>3, RankGrows
  <2> QED BY <2>1
<1>4. f \in Injection(S, T)
  BY <1>2, <1>3 DEF Injection, IsInjective
<1>5. IsFiniteSet(T) /\ Cardinality(T) = n
  <2>1. 0 \in Int /\ n - 1 \in Int /\ (0 > n - 1 => n = 0)
    BY <1>1
  <2>2. IsFiniteSet(0..n - 1) /\ Cardinality(0..n - 1) = IF 0 > n - 1 THEN 0 ELSE n - 1 - 0 + 1
    BY <2>1, FS_Interval
  <2> QED BY <1>1, <2>1, <2>2
<1> HIDE DEF T
<1>6. f \in Surjection(S, T)
  BY <1>4, <1>5, FS_Injection
<1> QED BY <1>3, <1>6 DEF Surjection, T

\* A set of at least n numbers has n first ones.
LEMMA FirstOnes ==
  ASSUME NEW S \in SUBSET Nat, IsFiniteSet(S), NEW n \in Nat, n <= Cardinality(S)
  PROVE  Cardinality({x \in S : Rank(S, x) < n}) = n
<1> DEFINE P == {x \in S : Rank(S, x) < n}
           T == 0..n - 1
           f == [x \in P |-> Rank(S, x)]
<1>1. IsFiniteSet(T) /\ Cardinality(T) = n /\ Cardinality(S) \in Nat
  <2>1. 0 \in Int /\ n - 1 \in Int /\ (0 > n - 1 => n = 0)
    OBVIOUS
  <2>2. IsFiniteSet(0..n - 1) /\ Cardinality(0..n - 1) = IF 0 > n - 1 THEN 0 ELSE n - 1 - 0 + 1
    BY <2>1, FS_Interval
  <2> QED BY <2>1, <2>2, FS_CardinalityType
<1>2. \A x \in P : Rank(S, x) \in T
  BY RankType
<1>3. f \in Injection(P, T)
  BY <1>2, RankBijection DEF Injection, IsInjective
<1>4. ASSUME NEW i \in T PROVE \E x \in P : f[x] = i
  <2>1. i \in 0..Cardinality(S) - 1
    BY <1>1
  <2>2. PICK x \in S : Rank(S, x) = i
    BY <2>1, RankBijection
  <2> QED BY <2>2
<1>5. f \in Surjection(P, T)
  BY <1>2, <1>4 DEF Surjection
<1> HIDE DEF f, P, T
<1>6. Cardinality(P) = Cardinality(T)
  BY <1>1, <1>3, <1>5, FS_Injection
<1> QED BY <1>1, <1>6 DEF P

\* Ascending lists the set, each element once, in order.
LEMMA AscendingSorts ==
  ASSUME NEW S \in SUBSET Nat, IsFiniteSet(S)
  PROVE  /\ Ascending(S) \in [1..Cardinality(S) -> S]
         /\ \A i, j \in 1..Cardinality(S) : i < j => Ascending(S)[i] < Ascending(S)[j]
         /\ \A x \in S : \E i \in 1..Cardinality(S) : Ascending(S)[i] = x
<1> DEFINE n == Cardinality(S)
           Sorts(f) == \A i, j \in DOMAIN f : i < j => f[i] < f[j]
           g == [i \in 1..n |-> CHOOSE x \in S : Rank(S, x) = i - 1]
<1>1. n \in Nat
  BY FS_CardinalityType
<1>2. ASSUME NEW i \in 1..n PROVE g[i] \in S /\ Rank(S, g[i]) = i - 1
  <2>1. i - 1 \in 0..n - 1
    BY <1>1
  <2>2. \E x \in S : Rank(S, x) = i - 1
    BY <2>1, RankBijection
  <2> QED BY <2>2
<1>3. g \in [1..n -> S]
  <2>1. \A i \in 1..n : g[i] \in S
    BY <1>2
  <2> QED BY <2>1
<1>4. ASSUME NEW i \in 1..n, NEW j \in 1..n, i < j PROVE g[i] < g[j]
  <2>1. g[i] \in Nat /\ g[j] \in S /\ g[j] \in Nat
    BY <1>2
  <2>2. CASE g[j] < g[i]
    <3>1. Rank(S, g[j]) + 1 <= Rank(S, g[i])
      BY <2>1, <2>2, RankGrows
    <3> QED BY <1>1, <1>2, <1>4, <3>1
  <2>3. CASE g[j] = g[i]
    BY <1>1, <1>2, <1>4, <2>3
  <2> QED BY <2>1, <2>2, <2>3
<1>5. Sorts(g)
  <2>1. DOMAIN g = 1..n
    OBVIOUS
  <2> QED BY <1>4, <2>1
<1> HIDE DEF g, Sorts
<1>6. \E f \in [1..n -> S] : Sorts(f)
  BY <1>3, <1>5
<1>7. Ascending(S) \in [1..n -> S] /\ Sorts(Ascending(S))
  <2>1. Ascending(S) = CHOOSE f \in [1..n -> S] : Sorts(f)
    BY DEF Ascending, Sorts
  <2> HIDE DEF n
  <2> QED BY <1>6, <2>1
<1> DEFINE a == Ascending(S)
<1> HIDE DEF a
<1>8. a \in [1..n -> S] /\ \A i, j \in 1..n : i < j => a[i] < a[j]
  BY <1>7 DEF Sorts, a
<1>9. ASSUME NEW i \in 1..n, NEW j \in 1..n, a[i] = a[j] PROVE i = j
  <2>0. a[i] \in Nat
    BY <1>8
  <2>1. ~(i < j) /\ ~(j < i)
    BY <1>8, <1>9, <2>0
  <2> QED BY <1>1, <2>1
<1>10. a \in Injection(1..n, S)
  BY <1>8, <1>9 DEF Injection, IsInjective
<1>11. Cardinality(1..n) = n
  BY <1>1, FS_Interval
<1>12. a \in Surjection(1..n, S)
  BY <1>10, <1>11, FS_Injection
<1> QED BY <1>8, <1>12 DEF Surjection, a

-----------------------------------------------------------------------------
(* Walks through a shop's rows: none is left out.                              *)

Walk == [at : {"idle", "list", "asked", "rows", "failed", "completed"}, since : Nat,
         rows : Seq(ShopIds), more : BOOLEAN, succeeded : Nat, failed : Nat,
         begun : SUBSET ShopIds, seen : SUBSET ShopIds]

TourTypes == ids \subseteq ShopIds /\ tour \in Walk

\* The rows of the page come in order, after all that were seen and up to the
\* cursor.
RowsInOrder ==
  /\ \A x \in tour.seen : x <= tour.since
  /\ \A i \in DOMAIN tour.rows : tour.rows[i] <= tour.since
  /\ \A i \in DOMAIN tour.rows : \A x \in tour.seen : x < tour.rows[i]
  /\ \A i, j \in DOMAIN tour.rows : i < j => tour.rows[i] < tour.rows[j]

\* An order there was at the start was seen, is on the page, or comes after the
\* cursor, and then there is a next page.
NoneLeftOut ==
  \A id \in tour.begun :
    \/ id \in tour.seen
    \/ \E i \in DOMAIN tour.rows : tour.rows[i] = id
    \/ tour.more /\ id > tour.since

TourHolds ==
  /\ tour.begun \subseteq ids
  /\ tour.succeeded + tour.failed = Cardinality(tour.seen)
  /\ tour.at \in {"list", "asked"} => tour.rows = <<>> /\ tour.more
  /\ tour.at = "completed" => tour.rows = <<>> /\ ~tour.more
  /\ tour.at \notin {"idle", "failed"} => NoneLeftOut

TourInv == TourTypes /\ RowsInOrder /\ TourHolds

LEMMA TourInvComplete == TourInv => ToursAreComplete
  BY DEF TourInv, TourHolds, NoneLeftOut, ToursAreComplete

LEMMA NoTourFits ==
  /\ NoTour \in Walk /\ NoTour.at = "idle" /\ NoTour.since = 0 /\ NoTour.rows = <<>> /\ NoTour.more
  /\ NoTour.succeeded = 0 /\ NoTour.failed = 0 /\ NoTour.begun = {} /\ NoTour.seen = {}
<1>1. <<>> \in Seq(ShopIds)
  BY EmptySeq
<1> QED BY <1>1 DEF NoTour, Walk

\* A walk that has not taken a row yet.
LEMMA FreshTour ==
  ASSUME ids' \subseteq ShopIds, tour' \in Walk, tour'.rows = <<>>, tour'.seen = {},
         tour'.succeeded = 0, tour'.failed = 0, tour'.since = 0, tour'.more,
         tour'.at \in {"idle", "list"}, tour'.begun \subseteq ids'
  PROVE  TourInv'
<1>1. RowsInOrder'
  BY DEF RowsInOrder
<1>2. 0 + 0 = Cardinality({})
  BY FS_EmptySet
<1>3. \A id \in tour'.begun : id > 0
  BY ShopifyAdminAssumption DEF Walk
<1>4. NoneLeftOut'
  BY <1>3 DEF NoneLeftOut
<1> QED BY <1>1, <1>2, <1>4 DEF TourInv, TourTypes, TourHolds

LEMMA TourStart == AdminInit => TourInv
<1> SUFFICES ASSUME AdminInit PROVE TourInv
  OBVIOUS
<1>1. ids \subseteq ShopIds /\ tour = NoTour
  BY DEF AdminInit
<1>2. TourTypes /\ RowsInOrder
  BY <1>1, NoTourFits DEF TourTypes, RowsInOrder
<1>3. 0 + 0 = Cardinality({})
  BY FS_EmptySet
<1>4. TourHolds
  BY <1>1, <1>3, NoTourFits DEF TourHolds
<1> QED BY <1>2, <1>4 DEF TourInv

LEMMA PlaceOrderStep ==
  ASSUME TourInv, NEW id \in ShopIds, PlaceOrder(id)
  PROVE  TourInv'
  BY DEF TourInv, TourTypes, TourHolds, RowsInOrder, NoneLeftOut, PlaceOrder

LEMMA DeleteOrderStep ==
  ASSUME TourInv, NEW id \in ShopIds, DeleteOrder(id)
  PROVE  TourInv'
<1>1. tour \in Walk /\ ids' = ids \ {id} /\ tour' = [tour EXCEPT !.begun = tour.begun \ {id}]
  BY DEF DeleteOrder, TourInv, TourTypes
<1>2. /\ tour' \in Walk /\ tour'.at = tour.at /\ tour'.since = tour.since
      /\ tour'.rows = tour.rows /\ tour'.more = tour.more /\ tour'.seen = tour.seen
      /\ tour'.succeeded = tour.succeeded /\ tour'.failed = tour.failed
      /\ tour'.begun = tour.begun \ {id}
  BY <1>1 DEF Walk
<1>3. TourTypes' /\ RowsInOrder'
  BY <1>1, <1>2 DEF TourInv, TourTypes, RowsInOrder
<1>4. TourHolds'
  BY <1>1, <1>2 DEF TourInv, TourHolds, NoneLeftOut
<1> QED BY <1>3, <1>4 DEF TourInv

LEMMA BeginTourStep ==
  ASSUME TourInv, BeginTour
  PROVE  TourInv'
<1>1. ids \subseteq ShopIds /\ tour' = [NoTour EXCEPT !.at = "list", !.begun = ids] /\ ids' = ids
  BY DEF BeginTour, TourInv, TourTypes
<1>2. /\ tour' \in Walk /\ tour'.rows = <<>> /\ tour'.seen = {}
      /\ tour'.succeeded = 0 /\ tour'.failed = 0 /\ tour'.since = 0 /\ tour'.more
      /\ tour'.at = "list" /\ tour'.begun = ids
  BY <1>1, NoTourFits DEF Walk
<1> QED BY <1>1, <1>2, FreshTour

\* The walk goes on, or ends, as it is.
LEMMA TourGoesOn ==
  ASSUME TourInv, NEW stage \in {"list", "asked", "failed", "completed"},
         tour' = [tour EXCEPT !.at = stage], ids' = ids,
         stage # "failed" => NoneLeftOut,
         stage \in {"list", "asked"} => tour.rows = <<>> /\ tour.more,
         stage = "completed" => tour.rows = <<>> /\ ~tour.more
  PROVE  TourInv'
<1>1. /\ tour' \in Walk /\ tour'.at = stage /\ tour'.since = tour.since
      /\ tour'.rows = tour.rows /\ tour'.more = tour.more /\ tour'.seen = tour.seen
      /\ tour'.succeeded = tour.succeeded /\ tour'.failed = tour.failed
      /\ tour'.begun = tour.begun
  BY DEF TourInv, TourTypes, Walk
<1>2. TourTypes' /\ RowsInOrder'
  BY <1>1 DEF TourInv, TourTypes, RowsInOrder
<1>3. stage # "failed" => NoneLeftOut'
  BY <1>1 DEF NoneLeftOut
<1>4. TourHolds'
  BY <1>1, <1>3 DEF TourInv, TourHolds
<1> QED BY <1>2, <1>4 DEF TourInv

LEMMA TurnPageStep ==
  ASSUME TourInv, TurnPage
  PROVE  TourInv'
<1>1. tour.at = "rows" /\ tour.rows = <<>> /\ ids' = ids /\ NoneLeftOut
  BY DEF TurnPage, TourInv, TourHolds
<1>2. CASE tour.more
  <2>1. tour' = [tour EXCEPT !.at = "list"]
    BY <1>2 DEF TurnPage
  <2> QED BY <1>1, <1>2, <2>1, TourGoesOn
<1>3. CASE ~tour.more
  <2>1. tour' = [tour EXCEPT !.at = "completed"]
    BY <1>3 DEF TurnPage
  <2> QED BY <1>1, <1>3, <2>1, TourGoesOn
<1> QED BY <1>2, <1>3

\* A row is seen once: it is none of those before it.
LEMMA TakeRowStep ==
  ASSUME TourInv, NEW ok \in BOOLEAN, TakeRow(ok)
  PROVE  TourInv'
<1>1. /\ tour.at = "rows" /\ tour.rows # <<>> /\ ids' = ids /\ tour \in Walk
      /\ NoneLeftOut /\ ids \subseteq ShopIds
  BY DEF TakeRow, TourInv, TourTypes, TourHolds
<1>2. tour.rows \in Seq(ShopIds) /\ tour.succeeded \in Nat /\ tour.failed \in Nat
        /\ tour.seen \in SUBSET ShopIds /\ tour.since \in Nat
  BY <1>1 DEF Walk
<1>3. /\ Head(tour.rows) \in ShopIds /\ Tail(tour.rows) \in Seq(ShopIds)
      /\ Len(Tail(tour.rows)) = Len(tour.rows) - 1
      /\ \A i \in 1..Len(Tail(tour.rows)) : Tail(tour.rows)[i] = tour.rows[i + 1]
  BY <1>1, <1>2, HeadTailProperties
<1>4. /\ Len(tour.rows) \in Nat \ {0} /\ DOMAIN tour.rows = 1..Len(tour.rows)
      /\ DOMAIN Tail(tour.rows) = 1..Len(Tail(tour.rows)) /\ Head(tour.rows) = tour.rows[1]
  BY <1>1, <1>2, <1>3, EmptySeq, LenProperties
<1>5. PICK won \in Nat : won = (IF ok THEN tour.succeeded + 1 ELSE tour.succeeded)
  BY <1>2
<1>6. PICK lost \in Nat : lost = (IF ok THEN tour.failed ELSE tour.failed + 1)
  BY <1>2
<1>7. tour' = [tour EXCEPT !.rows = Tail(tour.rows), !.seen = tour.seen \cup {Head(tour.rows)},
                           !.succeeded = won, !.failed = lost]
  BY <1>5, <1>6 DEF TakeRow
<1>8. /\ tour' \in Walk /\ tour'.at = "rows" /\ tour'.since = tour.since /\ tour'.more = tour.more
      /\ tour'.rows = Tail(tour.rows) /\ tour'.seen = tour.seen \cup {tour.rows[1]}
      /\ tour'.succeeded = won /\ tour'.failed = lost /\ tour'.begun = tour.begun
  BY <1>1, <1>2, <1>3, <1>4, <1>7 DEF Walk
<1>9. \A i \in DOMAIN tour'.rows : /\ i \in Nat /\ i + 1 \in DOMAIN tour.rows
                                   /\ 1 < i + 1 /\ tour'.rows[i] = tour.rows[i + 1]
  BY <1>3, <1>4, <1>8
<1>10. 1 \in DOMAIN tour.rows
  BY <1>4
<1>11. RowsInOrder'
  <2>1. \A x \in tour'.seen : x <= tour'.since
    BY <1>8, <1>10 DEF TourInv, RowsInOrder
  <2>2. \A i \in DOMAIN tour'.rows : tour'.rows[i] <= tour'.since
    BY <1>8, <1>9 DEF TourInv, RowsInOrder
  <2>3. \A i \in DOMAIN tour'.rows : \A x \in tour'.seen : x < tour'.rows[i]
    BY <1>8, <1>9, <1>10 DEF TourInv, RowsInOrder
  <2>4. ASSUME NEW i \in DOMAIN tour'.rows, NEW j \in DOMAIN tour'.rows, i < j
        PROVE  tour'.rows[i] < tour'.rows[j]
    <3>1. i + 1 < j + 1
      BY <1>9, <2>4
    <3> QED BY <1>9, <3>1 DEF TourInv, RowsInOrder
  <2> QED BY <2>1, <2>2, <2>3, <2>4 DEF RowsInOrder
<1>12. won + lost = Cardinality(tour'.seen)
  <2>1. tour.rows[1] \notin tour.seen
    <3>1. \A x \in tour.seen : x < tour.rows[1]
      BY <1>10 DEF TourInv, RowsInOrder
    <3>2. tour.rows[1] \in Nat
      BY <1>3, <1>4, ShopifyAdminAssumption
    <3> QED BY <3>1, <3>2
  <2>2. IsFiniteSet(tour.seen)
    BY <1>2, ShopifyAdminAssumption, FS_Subset
  <2>3. Cardinality(tour'.seen) = Cardinality(tour.seen) + 1
    <3>1. PICK x : x = tour.rows[1]
      OBVIOUS
    <3>2. Cardinality(tour.seen \cup {x}) =
            IF x \in tour.seen THEN Cardinality(tour.seen) ELSE Cardinality(tour.seen) + 1
      BY <2>2, FS_AddElement
    <3> QED BY <1>8, <2>1, <3>1, <3>2
  <2>4. tour.succeeded + tour.failed = Cardinality(tour.seen)
    BY DEF TourInv, TourHolds
  <2>5. Cardinality(tour.seen) \in Nat
    BY <2>2, FS_CardinalityType
  <2> QED BY <1>2, <1>5, <1>6, <2>3, <2>4, <2>5
<1>13. NoneLeftOut'
  <2> SUFFICES ASSUME NEW id \in tour'.begun
               PROVE  \/ id \in tour'.seen
                      \/ \E i \in DOMAIN tour'.rows : tour'.rows[i] = id
                      \/ tour'.more /\ id > tour'.since
    BY DEF NoneLeftOut
  <2>1. \/ id \in tour.seen
        \/ \E i \in DOMAIN tour.rows : tour.rows[i] = id
        \/ tour.more /\ id > tour.since
    BY <1>1, <1>8 DEF NoneLeftOut
  <2>2. ASSUME NEW i \in DOMAIN tour.rows, tour.rows[i] = id, i # 1
        PROVE  \E j \in DOMAIN tour'.rows : tour'.rows[j] = id
    <3>1. i - 1 \in 1..Len(Tail(tour.rows)) /\ i - 1 + 1 = i
      BY <1>3, <1>4, <2>2
    <3>2. i - 1 \in DOMAIN tour'.rows /\ tour'.rows[i - 1] = tour.rows[i - 1 + 1]
      BY <1>3, <1>4, <1>8, <3>1
    <3>3. tour'.rows[i - 1] = id
      BY <2>2, <3>1, <3>2
    <3> QED BY <3>2, <3>3
  <2> QED BY <1>8, <2>1, <2>2
<1> QED BY <1>1, <1>8, <1>11, <1>12, <1>13 DEF TourInv, TourTypes, TourHolds

\* A page has the first rows after the cursor; one that is not full is the last.
LEMMA ListPageStep ==
  ASSUME TourInv, ListPage
  PROVE  TourInv'
<1> DEFINE after == {id \in ids : id > tour.since}
           page == PageAfter(tour.since)
           rows == Ascending(page)
           n == Cardinality(page)
<1>1. /\ tour.at = "asked" /\ ids' = ids /\ tour \in Walk /\ ids \subseteq ShopIds
      /\ tour.rows = <<>> /\ tour.more /\ NoneLeftOut /\ RowsInOrder
      /\ tour.since \in Nat /\ tour.seen \in SUBSET ShopIds /\ tour.begun \subseteq ids
  BY DEF ListPage, TourInv, TourTypes, TourHolds, Walk
<1>2. tour' = [tour EXCEPT !.at = "rows", !.rows = rows, !.more = HasMore(rows),
                           !.since = IF rows = <<>> THEN tour.since ELSE rows[Len(rows)]]
  BY DEF ListPage
<1>3. ShopIds \subseteq Nat /\ ShopIds \in SUBSET Nat /\ IsFiniteSet(ShopIds)
        /\ ListLimit \in Nat \ {0}
  BY ShopifyAdminAssumption
<1>4. /\ after \in SUBSET ShopIds /\ after \in SUBSET Nat
      /\ \A id \in after : id \in ids /\ id > tour.since
  BY <1>1, <1>3
<1>5. IsFiniteSet(after)
  BY <1>3, <1>4, FS_Subset
<1>6. page = {id \in after : Rank(after, id) < ListLimit}
  BY DEF PageAfter, Rank
<1> HIDE DEF after, page
<1>7. page \in SUBSET after /\ page \in SUBSET Nat /\ page \in SUBSET ShopIds
  BY <1>4, <1>6
<1>8. IsFiniteSet(page) /\ n \in Nat
  BY <1>5, <1>7, FS_Subset, FS_CardinalityType
<1>9. /\ rows \in [1..n -> page]
      /\ \A i, j \in 1..n : i < j => rows[i] < rows[j]
      /\ \A x \in page : \E i \in 1..n : rows[i] = x
  BY <1>7, <1>8, AscendingSorts
<1> HIDE DEF rows, n
<1>10. rows \in [1..n -> ShopIds]
  BY <1>7, <1>9
<1>11. rows \in Seq(ShopIds)
  BY <1>8, <1>10, SeqDef
<1>12. Len(rows) = n /\ DOMAIN rows = 1..n
  BY <1>8, <1>10, <1>11, LenProperties
<1>13. rows # <<>> => n \in DOMAIN rows /\ n > 0
  BY <1>8, <1>11, <1>12, EmptySeq
<1>14. rows = <<>> => n = 0
  BY <1>11, <1>12, EmptySeq
<1>15. \A i \in DOMAIN rows : /\ rows[i] \in page /\ rows[i] \in after /\ rows[i] \in Nat
                              /\ rows[i] > tour.since
  BY <1>4, <1>7, <1>9, <1>12
<1>16. PICK since \in Nat : since = IF rows = <<>> THEN tour.since ELSE rows[Len(rows)]
  BY <1>1, <1>12, <1>13, <1>15
<1>17. HasMore(rows) \in BOOLEAN
  BY DEF HasMore
<1>18. /\ tour' \in Walk /\ tour'.at = "rows" /\ tour'.since = since
       /\ tour'.rows = rows /\ tour'.more = HasMore(rows) /\ tour'.seen = tour.seen
       /\ tour'.succeeded = tour.succeeded /\ tour'.failed = tour.failed
       /\ tour'.begun = tour.begun
  BY <1>1, <1>2, <1>11, <1>16, <1>17 DEF Walk
<1>19. \A i \in DOMAIN rows : rows[i] <= since
  <2> SUFFICES ASSUME NEW i \in DOMAIN rows PROVE rows[i] <= since
    OBVIOUS
  <2>1. rows # <<>>
    BY <1>12, <1>14
  <2>2. since = rows[n] /\ n \in 1..n /\ i \in 1..n
    BY <1>12, <1>13, <1>16, <2>1
  <2>3. i < n \/ i = n
    BY <1>8, <2>2
  <2> QED BY <1>9, <1>12, <1>15, <2>2, <2>3
<1>20. tour.since <= since
  BY <1>1, <1>12, <1>13, <1>15, <1>16
<1>21. RowsInOrder'
  <2>1. \A x \in tour.seen : x \in Nat /\ x <= tour.since
    BY <1>1, <1>3 DEF RowsInOrder
  <2>2. \A x \in tour.seen : x <= since
    BY <1>1, <1>20, <2>1
  <2>3. \A i \in DOMAIN rows : \A x \in tour.seen : x < rows[i]
    BY <1>1, <1>15, <2>1
  <2> QED BY <1>9, <1>12, <1>18, <1>19, <2>2, <2>3 DEF RowsInOrder
<1>22. NoneLeftOut'
  <2> SUFFICES ASSUME NEW id \in tour.begun, id \notin tour.seen,
                      ~ \E i \in DOMAIN rows : rows[i] = id
               PROVE  HasMore(rows) /\ id > since
    BY <1>18 DEF NoneLeftOut
  <2>1. id > tour.since /\ id \in ids
    BY <1>1 DEF NoneLeftOut
  <2>2. id \in after /\ id \in Nat
    BY <1>4, <2>1 DEF after
  <2>3. id \notin page
    BY <1>9, <1>12
  <2>4. Rank(after, id) \in Nat /\ Rank(after, id) <= Cardinality(after)
          /\ Rank(after, id) >= ListLimit
    BY <1>3, <1>4, <1>5, <1>6, <2>2, <2>3, RankType
  <2>5. Cardinality(after) \in Nat
    BY <1>5, FS_CardinalityType
  <2>6. ListLimit \in Nat /\ ListLimit <= Cardinality(after)
    BY <1>3, <2>4, <2>5
  <2>7. n = ListLimit
    BY <1>4, <1>5, <1>6, <2>6, FirstOnes DEF n
  <2>8. rows # <<>> /\ since = rows[n] /\ n \in DOMAIN rows
    BY <1>3, <1>12, <1>13, <1>14, <1>16, <2>7
  <2>9. rows[n] \in after /\ Rank(after, rows[n]) < ListLimit /\ rows[n] \in Nat
    BY <1>6, <1>15, <2>8
  <2>10. Rank(after, rows[n]) \in Nat
    BY <1>4, <1>5, <2>9, RankType
  <2>11. rows[n] # id
    BY <2>8
  <2>12. ~(id < rows[n])
    <3>1. SUFFICES ASSUME id < rows[n] PROVE FALSE
      OBVIOUS
    <3>2. Rank(after, id) + 1 <= Rank(after, rows[n])
      BY <1>4, <1>5, <2>2, <2>9, <3>1, RankGrows
    <3> QED BY <1>3, <2>4, <2>9, <2>10, <3>2
  <2>13. id > since
    BY <2>2, <2>8, <2>9, <2>11, <2>12
  <2> QED BY <1>12, <2>7, <2>13 DEF HasMore
<1>23. TourHolds'
  BY <1>1, <1>18, <1>22 DEF TourInv, TourHolds
<1> QED BY <1>1, <1>18, <1>21, <1>23 DEF TourInv, TourTypes

LEMMA TourNextKeeps == TourInv /\ [TourNext]_tourVars => TourInv'
<1> SUFFICES ASSUME TourInv, [TourNext]_tourVars PROVE TourInv'
  OBVIOUS
<1>1. CASE UNCHANGED <<ids, tour>>
  BY <1>1 DEF TourInv, TourTypes, RowsInOrder, TourHolds, NoneLeftOut
<1>2. CASE StopTour
  BY <1>2, TourGoesOn DEF StopTour
<1>3. CASE AskPage
  <2>1. tour.at = "list" /\ NoneLeftOut /\ tour.rows = <<>> /\ tour.more
    BY <1>3 DEF AskPage, TourInv, TourHolds
  <2> QED BY <1>3, <2>1, TourGoesOn DEF AskPage
<1>4. CASE PageFails
  BY <1>4, TourGoesOn DEF PageFails
<1>5. CASE UNCHANGED tourVars
  BY <1>1, <1>5 DEF tourVars
<1>6. CASE AskOrder \/ LookAgain \/ BreakerTimesOut \/ \E ok \in BOOLEAN : GetOrder(ok)
  <2>1. UNCHANGED <<ids, tour>>
    BY <1>6 DEF AskOrder, LookAgain, BreakerTimesOut, GetOrder
  <2> QED BY <1>1, <2>1
<1>7. CASE \E id \in ShopIds : PlaceOrder(id) \/ DeleteOrder(id)
  BY <1>7, PlaceOrderStep, DeleteOrderStep
<1>8. CASE \E ok \in BOOLEAN : TakeRow(ok)
  BY <1>8, TakeRowStep
<1> QED BY <1>2, <1>3, <1>4, <1>5, <1>6, <1>7, <1>8, BeginTourStep, ListPageStep, TurnPageStep
        DEF TourNext

-----------------------------------------------------------------------------
(* Pacing: one mutex for all shops.                                            *)

Pacing == [now : Nat, lock : SUBSET Callers, last : [Shops -> Nat],
           asks : [Callers -> Shops \cup {"none"}], grants : [Shops -> Seq(Nat)]]

\* The instant stored for a shop is that of its last request.
LastGrant ==
  \A s \in Shops :
    pace.grants[s] # <<>> => pace.grants[s][Len(pace.grants[s])] = pace.last[s]

PaceInv == pace \in Pacing /\ LastGrant /\ RequestsArePaced

LEMMA PaceStart == AdminInit => PaceInv
<1> SUFFICES ASSUME AdminInit PROVE PaceInv
  OBVIOUS
<1>1. pace = [now |-> Interval, lock |-> {}, last |-> [s \in Shops |-> 0],
              asks |-> [c \in Callers |-> "none"], grants |-> [s \in Shops |-> <<>>]]
  BY DEF AdminInit
<1>2. <<>> \in Seq(Nat) /\ Len(<<>>) = 0
  BY EmptySeq
<1>3. pace \in Pacing
  BY <1>1, <1>2, ShopifyAdminAssumption DEF Pacing
<1>4. \A s \in Shops : pace.grants[s] = <<>>
  BY <1>1
<1>5. LastGrant
  BY <1>4 DEF LastGrant
<1>6. \A s \in Shops : \A i \in 2..Len(pace.grants[s]) : FALSE
  BY <1>2, <1>4
<1>7. pace.lock = {}
  BY <1>1
<1>8. RequestsArePaced
  BY <1>6, <1>7 DEF RequestsArePaced
<1> QED BY <1>3, <1>5, <1>8 DEF PaceInv

\* Nothing is granted.
LEMMA NoGrant ==
  ASSUME PaceInv, pace' \in Pacing, pace'.grants = pace.grants, pace'.last = pace.last,
         \A c \in pace'.lock : pace'.asks[c] # "none"
  PROVE  PaceInv'
  BY DEF PaceInv, LastGrant, RequestsArePaced

LEMMA GrantStep ==
  ASSUME PaceInv, NEW c \in Callers, Grant(c)
  PROVE  PaceInv'
<1> DEFINE s == pace.asks[c]
<1>1. /\ pace \in Pacing /\ c \in pace.lock /\ Due(s)
      /\ pace' = [pace EXCEPT !.lock = {}, !.last[s] = pace.now, !.asks[c] = "none",
                              !.grants[s] = Append(@, pace.now)]
  BY DEF Grant, Paced, PaceInv
<1>2. s \in Shops /\ s # "none"
  BY <1>1 DEF PaceInv, RequestsArePaced, Pacing
<1>3. /\ pace.now \in Nat /\ pace.last \in [Shops -> Nat] /\ pace.grants \in [Shops -> Seq(Nat)]
      /\ pace.asks \in [Callers -> Shops \cup {"none"}]
  BY <1>1 DEF Pacing
<1>4. PICK longer : longer = Append(pace.grants[s], pace.now)
  OBVIOUS
<1>5. /\ longer \in Seq(Nat) /\ Len(longer) = Len(pace.grants[s]) + 1
      /\ \A i \in 1..Len(pace.grants[s]) : longer[i] = pace.grants[s][i]
      /\ longer[Len(longer)] = pace.now
  BY <1>2, <1>3, <1>4, AppendProperties
<1>6. /\ pace' \in Pacing /\ pace'.lock = {}
      /\ pace'.last = [pace.last EXCEPT ![s] = pace.now]
      /\ pace'.grants = [pace.grants EXCEPT ![s] = longer]
  BY <1>1, <1>2, <1>3, <1>4, <1>5 DEF Pacing
<1>7. /\ pace'.grants[s] = longer /\ pace'.last[s] = pace.now
      /\ \A x \in Shops \ {s} : pace'.grants[x] = pace.grants[x] /\ pace'.last[x] = pace.last[x]
  BY <1>2, <1>3, <1>6
<1>8. LastGrant'
  BY <1>5, <1>7 DEF PaceInv, LastGrant
<1>9. pace.grants[s] \in Seq(Nat) /\ Len(pace.grants[s]) \in Nat
  BY <1>2, <1>3, LenProperties
<1>10. ASSUME NEW i \in 2..Len(longer) PROVE longer[i] >= longer[i - 1] + Interval
  <2>1. CASE i = Len(longer)
    <3>1. i - 1 = Len(pace.grants[s]) /\ i - 1 \in 1..Len(pace.grants[s])
      BY <1>5, <1>9, <2>1
    <3>2. pace.grants[s] # <<>>
      BY <1>9, <3>1, EmptySeq
    <3>3. longer[i - 1] = pace.last[s]
      BY <1>2, <1>5, <3>1, <3>2 DEF PaceInv, LastGrant
    <3> QED BY <1>1, <1>5, <2>1, <3>3 DEF Due
  <2>2. CASE i # Len(longer)
    <3>1. i \in 2..Len(pace.grants[s]) /\ i - 1 \in 1..Len(pace.grants[s])
            /\ i \in 1..Len(pace.grants[s])
      <4>1. PICK m \in Nat : m = Len(pace.grants[s])
        BY <1>9
      <4>2. i \in 2..(m + 1) /\ i # m + 1
        BY <1>5, <2>2, <4>1
      <4>3. i \in 2..m /\ i - 1 \in 1..m /\ i \in 1..m
        BY <4>2
      <4> QED BY <4>1, <4>3
    <3>2. pace.grants[s][i] >= pace.grants[s][i - 1] + Interval
      BY <1>2, <3>1 DEF PaceInv, RequestsArePaced
    <3> QED BY <1>5, <3>1, <3>2
  <2> QED BY <2>1, <2>2
<1>11. RequestsArePaced'
  BY <1>6, <1>7, <1>10 DEF PaceInv, RequestsArePaced
<1> QED BY <1>6, <1>8, <1>11 DEF PaceInv

LEMMA PaceNextKeeps == PaceInv /\ [PaceNext]_pace => PaceInv'
<1> SUFFICES ASSUME PaceInv, [PaceNext]_pace PROVE PaceInv'
  OBVIOUS
<1>1. pace \in Pacing /\ \A c \in pace.lock : pace.asks[c] # "none"
  BY DEF PaceInv, RequestsArePaced
<1>2. CASE UNCHANGED pace
  BY <1>2 DEF PaceInv, LastGrant, RequestsArePaced
<1>3. ASSUME NEW c \in Callers, NEW s \in Shops, AskShop(c, s) PROVE PaceInv'
  <2>1. pace.asks[c] = "none" /\ pace' = [pace EXCEPT !.asks[c] = s]
    BY <1>3 DEF AskShop, Paced
  <2>2. /\ pace' \in Pacing /\ pace'.grants = pace.grants /\ pace'.last = pace.last
        /\ pace'.lock = pace.lock /\ pace'.asks = [pace.asks EXCEPT ![c] = s]
    BY <1>1, <2>1 DEF Pacing
  <2>3. pace.asks \in [Callers -> Shops \cup {"none"}] /\ pace.lock \subseteq Callers
    BY <1>1 DEF Pacing
  <2>4. \A x \in pace'.lock : pace'.asks[x] # "none"
    BY <1>1, <2>1, <2>2, <2>3
  <2> QED BY <2>2, <2>4, NoGrant
<1>4. ASSUME NEW c \in Callers, LockPace(c) PROVE PaceInv'
  <2>1. pace.asks[c] # "none" /\ pace' = [pace EXCEPT !.lock = {c}]
    BY <1>4 DEF LockPace, Paced
  <2>2. /\ pace' \in Pacing /\ pace'.grants = pace.grants /\ pace'.last = pace.last
        /\ pace'.lock = {c} /\ pace'.asks = pace.asks
    BY <1>1, <2>1 DEF Pacing
  <2> QED BY <2>1, <2>2, NoGrant
<1>5. ASSUME NEW c \in Callers, GiveUp(c) PROVE PaceInv'
  <2>1. pace' = [pace EXCEPT !.lock = {}, !.asks[c] = "none"]
    BY <1>5 DEF GiveUp, Paced
  <2>2. /\ pace' \in Pacing /\ pace'.grants = pace.grants /\ pace'.last = pace.last
        /\ pace'.lock = {}
    BY <1>1, <2>1 DEF Pacing
  <2> QED BY <2>2, NoGrant
<1>6. CASE Tick
  <2>1. pace' = [pace EXCEPT !.now = pace.now + 1] /\ pace.now + 1 \in Nat
    BY <1>1, <1>6 DEF Tick, Paced, Pacing
  <2>2. /\ pace' \in Pacing /\ pace'.grants = pace.grants /\ pace'.last = pace.last
        /\ pace'.lock = pace.lock /\ pace'.asks = pace.asks
    BY <1>1, <2>1 DEF Pacing
  <2> QED BY <1>1, <2>2, NoGrant
<1> QED BY <1>2, <1>3, <1>4, <1>5, <1>6, GrantStep DEF PaceNext

-----------------------------------------------------------------------------
(* The imports of a shop and the client they go through, together.             *)

ImportInv == SyncInv /\ ContactInv /\ EditInv /\ TourInv /\ PaceInv

\* The client's three concerns share no state.
LEMMA EditNextLeaves == EditNext => UNCHANGED <<tourVars, pace>>
  BY DEF EditNext, AnnounceLines, LinkVariant, TakeEdit, BeginEdit, PassItem, SetQuantity,
         AddVariant, LastItem, CommitEdit, Ask

LEMMA TourNextLeaves == TourNext => UNCHANGED <<editVars, pace>>
  BY DEF TourNext, PlaceOrder, DeleteOrder, BeginTour, StopTour, AskPage, ListPage, PageFails,
         TurnPage, TakeRow, GetOrder, AskOrder, LookAgain, BreakerTimesOut

LEMMA PaceNextLeaves == PaceNext => UNCHANGED <<editVars, tourVars>>
  BY DEF PaceNext, LockPace, Grant, GiveUp, AskShop, Tick, Paced

LEMMA ImportStart == ImportInit => ImportInv
  BY InitOK, ContactStart, EditStart, TourStart, PaceStart DEF ImportInit, ImportInv

LEMMA ImportNextKeeps == ImportInv /\ [ImportNext]_importVars => ImportInv'
<1> SUFFICES ASSUME ImportInv, [ImportNext]_importVars PROVE ImportInv'
  OBVIOUS
<1>1. [Next]_vars /\ [ContactNext]_contactVars
  BY DEF ImportNext, importVars
<1>2. [EditNext]_editVars /\ [TourNext]_tourVars /\ [PaceNext]_pace
  <2>1. CASE UNCHANGED adminVars
    BY <2>1 DEF adminVars
  <2>2. CASE EditNext
    BY <2>2, EditNextLeaves
  <2>3. CASE TourNext
    BY <2>3, TourNextLeaves
  <2>4. CASE PaceNext
    BY <2>4, PaceNextLeaves
  <2> QED BY <2>1, <2>2, <2>3, <2>4 DEF ImportNext, importVars
<1> QED BY <1>1, <1>2, NextKeeps, ContactNextKeeps, EditNextKeeps, TourNextKeeps, PaceNextKeeps
        DEF ImportInv

\* Orders, contacts and the client's work each keep what their steps rely on,
\* also while they are composed (shopify/application, contacts).
THEOREM ImportInvariant == ImportSpec => []ImportInv
<1> QED BY ImportStart, ImportNextKeeps, PTL DEF ImportSpec

\* No import takes a contact for another's or drops its metadata, no edit is left
\* halfway in the order, no walk leaves a row out, no two requests come too soon
\* (shopify/application, shopify/adapter/shopify/client.go).
THEOREM ImportsAreSafe == ImportSpec => []ImportSafety
<1>1. ImportInv => ContactSafety
  BY DEF ImportInv, ContactInv
<1>2. ImportInv => AdminSafety
  BY TourInvComplete DEF ImportInv, EditInv, PaceInv, AdminSafety
<1>3. ImportInv => ImportSafety
  BY <1>1, <1>2 DEF ImportSafety
<1> QED BY <1>3, ImportInvariant, PTL
=============================================================================
