------------------------- MODULE EmailDeliveryProofs -------------------------
(* Proofs about EmailDelivery, for any number of events, deliveries, messages  *)
(* and goroutines, with or without faults.                                     *)
EXTENDS EmailDelivery, FiniteSetTheorems, TLAPS

-----------------------------------------------------------------------------
(* What the assignments of an action do to the slot and the row they touch. *)

LEMMA RowUpdate ==
  ASSUME TypeOK, NEW d \in Deliveries, rows[d] # Nil, NEW st \in DeliveryStatus,
         NEW m \in Messages \cup {Nil}, rows' = Updated(d, st, m)
  PROVE  /\ rows' \in [Deliveries -> Row \cup {Nil}]
         /\ rows'[d] # Nil
         /\ rows'[d].key = rows[d].key
         /\ rows'[d].status = st
         /\ rows'[d].message = IF m = Nil THEN rows[d].message ELSE m
         /\ \A e \in Deliveries \ {d} : rows'[e] = rows[e]
<1> DEFINE new == [key |-> rows[d].key, status |-> st,
                   message |-> IF m = Nil THEN rows[d].message ELSE m]
<1>1. rows[d] \in Row
  BY DEF TypeOK
<1>2. new \in Row /\ new # Nil
  BY <1>1, NilAssumption DEF Row
<1>3. rows' = [rows EXCEPT ![d] = new]
  BY DEF Updated
<1>4. /\ new.key = rows[d].key /\ new.status = st
      /\ new.message = IF m = Nil THEN rows[d].message ELSE m
  OBVIOUS
<1> HIDE DEF new
<1>5. rows'[d] = new /\ \A e \in Deliveries \ {d} : rows'[e] = rows[e]
  BY <1>3 DEF TypeOK
<1>6. rows' \in [Deliveries -> Row \cup {Nil}]
  BY <1>2, <1>3 DEF TypeOK
<1> QED BY <1>2, <1>4, <1>5, <1>6

Points == {"Idle", "Provider", "Store", "StoreFailure", "LogFailure", "Update",
           "Log", "OptOut", "Count"}

LEMMA GotoMoves ==
  ASSUME TypeOK, NEW s \in Slots, NEW p \in Points, Goto(s, p)
  PROVE  /\ req' \in [Slots -> Request]
         /\ req'[s].at = p
         /\ req'[s].op = req[s].op /\ req'[s].delivery = req[s].delivery
         /\ req'[s].message = req[s].message /\ req'[s].event = req[s].event
         /\ \A t \in Slots \ {s} : req'[t] = req[t]
  BY DEF TypeOK, Goto, Request, Points

LEMMA EndClears ==
  ASSUME TypeOK, NEW s \in Slots, End(s)
  PROVE  /\ req' \in [Slots -> Request]
         /\ req'[s] = Idle
         /\ \A t \in Slots \ {s} : req'[t] = req[t]
  BY DEF TypeOK, End, Idle, Request

-----------------------------------------------------------------------------
(* Rows. *)

\* Keys and presence of rows unchanged, mail unchanged: what relates mail to rows
\* survives.
LEMMA RowsStay ==
  ASSUME KeyUnique, MailHasRow, OneFirstMail, TypeOK, UNCHANGED mail,
         \A d \in Deliveries : (rows[d] = Nil) <=> (rows'[d] = Nil),
         \A d \in Deliveries : rows[d] # Nil => rows'[d].key = rows[d].key
  PROVE  KeyUnique' /\ MailHasRow' /\ OneFirstMail'
<1>1. KeyUnique'
  BY DEF KeyUnique
<1>2. \A m \in Messages : mail[m] # Nil => mail[m].delivery \in Deliveries
  BY DEF TypeOK, Mail
<1>3. MailHasRow'
  BY <1>2 DEF MailHasRow
<1>4. OneFirstMail'
  BY <1>2 DEF OneFirstMail, MailHasRow
<1> QED BY <1>1, <1>3, <1>4

\* A status written by a goroutine, with a message of this delivery or none.
LEMMA RowStep ==
  ASSUME MailInv, NEW d \in Deliveries, rows[d] # Nil, NEW st \in DeliveryStatus,
         NEW m \in Messages \cup {Nil}, rows' = Updated(d, st, m),
         m # Nil => mail[m] # Nil /\ mail[m].delivery = d,
         UNCHANGED mail
  PROVE  /\ KeyUnique' /\ MailHasRow' /\ OneFirstMail' /\ OwnMessage'
         /\ rows'[d] # Nil
         /\ \A e \in Deliveries \ {d} : rows'[e] = rows[e]
<1>1. /\ rows'[d] # Nil /\ rows'[d].key = rows[d].key
      /\ rows'[d].message = IF m = Nil THEN rows[d].message ELSE m
      /\ \A e \in Deliveries \ {d} : rows'[e] = rows[e]
  BY RowUpdate DEF MailInv
<1>2. KeyUnique' /\ MailHasRow' /\ OneFirstMail'
  <2>1. /\ \A e \in Deliveries : (rows[e] = Nil) <=> (rows'[e] = Nil)
        /\ \A e \in Deliveries : rows[e] # Nil => rows'[e].key = rows[e].key
    BY <1>1
  <2> QED BY <2>1, RowsStay DEF MailInv
<1>3. OwnMessage'
  BY <1>1 DEF MailInv, OwnMessage
<1> QED BY <1>1, <1>2, <1>3

-----------------------------------------------------------------------------
(* Goroutines. *)

\* A step of slot s about delivery d leaves the other goroutines their rights,
\* when no other Send is at work on d.
LEMMA OthersKeep ==
  ASSUME MailInv, NEW s \in Slots, NEW d \in Deliveries,
         \A t \in Slots \ {s} : req'[t] = req[t],
         \A t \in Slots \ {s} : req[t].op = "Send" => req[t].delivery # d,
         req'[s].delivery \in {d, Nil},
         \A e \in Deliveries \ {d} : rows'[e] = rows[e] /\ sleeping'[e] = sleeping[e],
         rows[d] # Nil => rows'[d] # Nil,
         \A m \in Messages : mail[m] # Nil => mail'[m] = mail[m],
         \A m \in Messages : mail[m] = Nil /\ mail'[m] # Nil => mail'[m].delivery = d,
         NEW t \in Slots \ {s}
  PROVE  Busy(t)' /\ Sole(t)'
<1>1. /\ Busy(t) /\ Sole(t) /\ req'[t] = req[t]
      /\ req[t].delivery \in Deliveries \cup {Nil} /\ req[t].message \in Messages \cup {Nil}
  BY DEF MailInv, TypeOK, Request
<1>2. Busy(t)'
  BY <1>1 DEF Busy, At
<1>3. Sole(t)'
  <2>1. CASE req[t].op = "Send"
    <3>1. /\ req[t].delivery \in Deliveries \ {d}
          /\ req[t].delivery # Nil
      BY <1>1, <2>1, EmailAssumption DEF Busy, At
    <3> QED BY <1>1, <2>1, <3>1 DEF Sole, At
  <2>2. CASE req[t].op # "Send"
    BY <1>1, <2>2 DEF Sole
  <2> QED BY <2>1, <2>2
<1> QED BY <1>2, <1>3

\* The goroutine of slot s works on a delivery that exists; no other Send does.
LEMMA Working ==
  ASSUME MailInv, NEW s \in Slots, ~At(s, "Idle")
  PROVE  /\ req[s].delivery \in Deliveries
         /\ rows[req[s].delivery] \in Row /\ rows[req[s].delivery] # Nil
         /\ \A t \in Slots \ {s} : req[t].op = "Send" => req[t].delivery # req[s].delivery
<1>1. Busy(s) /\ req[s] \in Request
  BY DEF MailInv, TypeOK
<1>2. req[s].delivery \in Deliveries /\ rows[req[s].delivery] # Nil
  BY <1>1 DEF Busy, Request
<1>3. rows[req[s].delivery] \in Row
  BY <1>2 DEF MailInv, TypeOK
<1>4. \A t \in Slots \ {s} : req[t].op = "Send" => req[t].delivery # req[s].delivery
  BY DEF MailInv, Sole
<1> QED BY <1>2, <1>3, <1>4

\* An idle goroutine has nothing to answer for.
LEMMA IdleFits ==
  ASSUME NEW s \in Slots, req'[s] = Idle
  PROVE  Busy(s)' /\ Sole(s)'
  BY EmailAssumption DEF Idle, Busy, Sole, At

-----------------------------------------------------------------------------
(* The retry budget. *)

LEMMA SlotSets ==
  ASSUME NEW d
  PROVE  /\ IsFiniteSet(Counting(d)) /\ Cardinality(Counting(d)) \in Nat
         /\ IsFiniteSet(Retrying(d)) /\ Cardinality(Retrying(d)) \in Nat
<1>1. Counting(d) \in SUBSET Slots /\ Retrying(d) \in SUBSET Slots
  BY DEF Counting, Retrying
<1>2. IsFiniteSet(Slots)
  BY EmailAssumption
<1>3. IsFiniteSet(Counting(d)) /\ IsFiniteSet(Retrying(d))
  BY <1>1, <1>2, FS_Subset
<1> QED BY <1>3, FS_CardinalityType

LEMMA SlotSetsPrime ==
  ASSUME NEW d
  PROVE  /\ IsFiniteSet(Counting(d)') /\ Cardinality(Counting(d)') \in Nat
         /\ IsFiniteSet(Retrying(d)') /\ Cardinality(Retrying(d)') \in Nat
<1>1. Counting(d)' \in SUBSET Slots /\ Retrying(d)' \in SUBSET Slots
  BY DEF Counting, Retrying
<1>2. IsFiniteSet(Slots)
  BY EmailAssumption
<1>3. IsFiniteSet(Counting(d)') /\ IsFiniteSet(Retrying(d)')
  BY <1>1, <1>2, FS_Subset
<1> QED BY <1>3, FS_CardinalityType

\* Nothing is launched or mailed, and no goroutine comes to count or retry.
LEMMA BudgetShrinks ==
  ASSUME TypeOK, TypeOK', NEW d \in Deliveries, Budget(d),
         launched'[d] = launched[d], RetriesOf(d)' = RetriesOf(d),
         failures[d] <= failures'[d], sleeping'[d] <= sleeping[d],
         rows[d] = Nil \/ rows'[d] # Nil,
         Counting(d)' \subseteq Counting(d), Retrying(d)' \subseteq Retrying(d)
  PROVE  Budget(d)'
<1>1. /\ failures[d] \in Nat /\ failures'[d] \in Nat
      /\ sleeping[d] \in Nat /\ sleeping'[d] \in Nat
      /\ launched[d] \in Nat /\ MaxRetries \in Nat
  BY EmailAssumption DEF TypeOK
<1>2. /\ Cardinality(Counting(d)') <= Cardinality(Counting(d))
      /\ Cardinality(Retrying(d)') <= Cardinality(Retrying(d))
  BY SlotSets, FS_Subset
<1>3. Cardinality(RetriesOf(d)) \in Nat
  BY FS_CardinalityType DEF Budget
<1>4. rows'[d] = Nil => sleeping'[d] = 0
  BY <1>1 DEF Budget
<1>5. /\ IsFiniteSet(RetriesOf(d)')
      /\ launched'[d] <= MaxRetries
  BY DEF Budget
<1>6. launched'[d] + Cardinality(Counting(d)') <= failures'[d]
  BY <1>1, <1>2, SlotSets, SlotSetsPrime DEF Budget
<1>7. Cardinality(RetriesOf(d)') + sleeping'[d] + Cardinality(Retrying(d)') <= launched'[d]
  BY <1>1, <1>2, <1>3, SlotSets, SlotSetsPrime DEF Budget
<1> QED BY <1>4, <1>5, <1>6, <1>7 DEF Budget

-----------------------------------------------------------------------------
(* Steps of a goroutine. *)

\* The tables' own invariants do not read a row or message that stays.
LEMMA TablesStay ==
  ASSUME MailInv, UNCHANGED <<rows, mail>>
  PROVE  KeyUnique' /\ MailHasRow' /\ OneFirstMail' /\ OwnMessage'
  BY DEF MailInv, KeyUnique, MailHasRow, OneFirstMail, OwnMessage

\* A goroutine at work on delivery d takes a step that launches nothing and mails
\* nothing, and does not arrive at counting or at the provider.
LEMMA QuietStep ==
  ASSUME MailInv, TypeOK', NEW s \in Slots, ~At(s, "Idle"),
         \A t \in Slots \ {s} : req'[t] = req[t],
         req'[s].delivery \in {req[s].delivery, Nil},
         req'[s].at \notin {"Count", "Provider"},
         Busy(s)', Sole(s)',
         KeyUnique', MailHasRow', OneFirstMail', OwnMessage',
         UNCHANGED <<mail, sleeping, launched>>,
         rows'[req[s].delivery] # Nil,
         \A e \in Deliveries \ {req[s].delivery} : rows'[e] = rows[e],
         \A e \in Deliveries : failures[e] <= failures'[e]
  PROVE  MailInv'
<1>1. \A t \in Slots \ {s} : Busy(t)' /\ Sole(t)'
  BY Working, OthersKeep
<1>2. ASSUME NEW e \in Deliveries PROVE Budget(e)'
  <2>1. Counting(e)' \subseteq Counting(e) /\ Retrying(e)' \subseteq Retrying(e)
    BY DEF Counting, Retrying, At
  <2>2. RetriesOf(e)' = RetriesOf(e)
    BY DEF RetriesOf
  <2>3. rows[e] = Nil \/ rows'[e] # Nil
    BY Working
  <2>4. sleeping'[e] <= sleeping[e]
    BY DEF MailInv, TypeOK
  <2> QED BY <2>1, <2>2, <2>3, <2>4, BudgetShrinks DEF MailInv
<1> QED BY <1>1, <1>2 DEF MailInv

LEMMA StoreKeeps ==
  ASSUME MailInv, NEW s \in Slots, Store(s)
  PROVE  MailInv'
<1>1. TypeOK /\ Busy(s) /\ req[s] \in Request
  BY DEF MailInv, TypeOK
<1>2. /\ ~At(s, "Idle")
      /\ req' \in [Slots -> Request] /\ req'[s] = Idle
      /\ \A t \in Slots \ {s} : req'[t] = req[t]
  BY <1>1, EndClears DEF Store, At
<1>3. /\ req[s].delivery \in Deliveries
      /\ rows[req[s].delivery] \in Row /\ rows[req[s].delivery] # Nil
  BY <1>2, Working
<1>4. CASE rows' = Updated(req[s].delivery, "submitted", req[s].message) /\ UNCHANGED faulted
  <2>1. rows' \in [Deliveries -> Row \cup {Nil}]
    BY <1>1, <1>3, <1>4, RowUpdate DEF DeliveryStatus, Request
  <2>2. TypeOK'
    BY <1>1, <1>2, <1>3, <1>4, <2>1 DEF TypeOK, Store, Ack, Row
  <2>3. /\ KeyUnique' /\ MailHasRow' /\ OneFirstMail' /\ OwnMessage'
        /\ rows'[req[s].delivery] # Nil
        /\ \A e \in Deliveries \ {req[s].delivery} : rows'[e] = rows[e]
    BY <1>1, <1>3, <1>4, RowStep DEF DeliveryStatus, Request, Busy, Store
  <2>4. \A e \in Deliveries : failures[e] <= failures'[e]
    BY <1>1 DEF TypeOK, Store
  <2> QED BY <1>2, <2>2, <2>3, <2>4, IdleFits, QuietStep DEF Store, Idle
<1>5. CASE Fault /\ UNCHANGED rows
  <2>1. TypeOK'
    BY <1>1, <1>2, <1>3, <1>5 DEF TypeOK, Store, Ack, Row, Fault
  <2>2. \A e \in Deliveries : failures[e] <= failures'[e]
    BY <1>1 DEF TypeOK, Store
  <2> QED BY <1>2, <1>3, <1>5, <2>1, <2>2, IdleFits, QuietStep, TablesStay DEF Store, Idle
<1> QED BY <1>4, <1>5 DEF Store

LEMMA StoreFailureKeeps ==
  ASSUME MailInv, NEW s \in Slots, StoreFailure(s)
  PROVE  MailInv'
<1>1. TypeOK /\ Busy(s) /\ Sole(s) /\ req[s] \in Request
  BY DEF MailInv, TypeOK
<1>2. /\ ~At(s, "Idle")
      /\ req' \in [Slots -> Request]
      /\ req'[s].at = "LogFailure"
      /\ req'[s].op = req[s].op /\ req'[s].delivery = req[s].delivery
      /\ req'[s].message = req[s].message /\ req'[s].event = req[s].event
      /\ \A t \in Slots \ {s} : req'[t] = req[t]
  BY <1>1, GotoMoves DEF StoreFailure, At, Points
<1>3. /\ req[s].delivery \in Deliveries
      /\ rows[req[s].delivery] \in Row /\ rows[req[s].delivery] # Nil
  BY <1>2, Working
<1>4. \A e \in Deliveries : failures[e] <= failures'[e]
  BY <1>1 DEF TypeOK, StoreFailure
<1>5. CASE rows' = Updated(req[s].delivery, "failed_retryable", Nil) /\ UNCHANGED faulted
  <2>1. /\ rows' \in [Deliveries -> Row \cup {Nil}]
        /\ rows'[req[s].delivery].message = rows[req[s].delivery].message
    BY <1>1, <1>3, <1>5, RowUpdate DEF DeliveryStatus
  <2>2. TypeOK'
    BY <1>1, <1>2, <1>5, <2>1 DEF TypeOK, StoreFailure
  <2>3. /\ KeyUnique' /\ MailHasRow' /\ OneFirstMail' /\ OwnMessage'
        /\ rows'[req[s].delivery] # Nil
        /\ \A e \in Deliveries \ {req[s].delivery} : rows'[e] = rows[e]
    BY <1>1, <1>3, <1>5, RowStep DEF DeliveryStatus, StoreFailure
  <2>4. Busy(s)' /\ Sole(s)'
    BY <1>1, <1>2, <2>1, <2>3 DEF Busy, Sole, At, StoreFailure
  <2> QED BY <1>2, <1>4, <2>2, <2>3, <2>4, QuietStep DEF StoreFailure
<1>6. CASE Fault /\ UNCHANGED rows
  <2>1. TypeOK'
    BY <1>1, <1>2, <1>6 DEF TypeOK, StoreFailure, Fault
  <2>2. Busy(s)' /\ Sole(s)'
    BY <1>1, <1>2, <1>3, <1>6 DEF Busy, Sole, At, StoreFailure
  <2> QED BY <1>2, <1>3, <1>4, <1>6, <2>1, <2>2, QuietStep, TablesStay DEF StoreFailure
<1> QED BY <1>5, <1>6 DEF StoreFailure

\* A goroutine returns, with the rows as they are and perhaps a failure logged.
LEMMA QuietEnd ==
  ASSUME MailInv, TypeOK', NEW s \in Slots, ~At(s, "Idle"), End(s),
         UNCHANGED <<rows, mail, sleeping, launched>>,
         \A e \in Deliveries : failures[e] <= failures'[e]
  PROVE  MailInv'
<1>1. /\ req'[s] = Idle
      /\ \A t \in Slots \ {s} : req'[t] = req[t]
  BY EndClears DEF MailInv
<1>2. rows[req[s].delivery] # Nil
  BY Working
<1> QED BY <1>1, <1>2, IdleFits, QuietStep, TablesStay DEF Idle

LEMMA LogFailureKeeps ==
  ASSUME MailInv, NEW s \in Slots, LogFailure(s)
  PROVE  MailInv'
<1>1. TypeOK /\ ~At(s, "Idle")
  BY DEF MailInv, LogFailure, At
<1>2. req[s].delivery \in Deliveries /\ req' \in [Slots -> Request]
  BY <1>1, Working, EndClears DEF LogFailure
<1>3. /\ failures' \in [Deliveries -> Nat]
      /\ \A e \in Deliveries : failures[e] <= failures'[e]
  BY <1>1, <1>2 DEF TypeOK, LogFailure
<1>4. TypeOK'
  BY <1>1, <1>2, <1>3 DEF TypeOK, LogFailure, Fault
<1> QED BY <1>1, <1>3, <1>4, QuietEnd DEF LogFailure

LEMMA OptOutKeeps ==
  ASSUME MailInv, NEW s \in Slots, OptOut(s)
  PROVE  MailInv'
<1>1. TypeOK /\ ~At(s, "Idle")
  BY DEF MailInv, OptOut, At
<1>2. rows[req[s].delivery] \in Row /\ req' \in [Slots -> Request]
  BY <1>1, Working, EndClears DEF OptOut
<1>3. \A e \in Deliveries : failures[e] <= failures'[e]
  BY <1>1 DEF TypeOK, OptOut
<1>4. optedOut' \subseteq Keys /\ faulted' \in BOOLEAN
  BY <1>1, <1>2 DEF TypeOK, OptOut, Fault, Row
<1>5. TypeOK'
  BY <1>1, <1>2, <1>4 DEF TypeOK, OptOut
<1> QED BY <1>1, <1>3, <1>5, QuietEnd DEF OptOut

LEMMA RefuseKeeps ==
  ASSUME MailInv, NEW s \in Slots, Refuse(s)
  PROVE  MailInv'
<1>1. TypeOK /\ Busy(s) /\ Sole(s) /\ req[s] \in Request
  BY DEF MailInv, TypeOK
<1>2. /\ ~At(s, "Idle")
      /\ req' \in [Slots -> Request]
      /\ req'[s].at = "StoreFailure"
      /\ req'[s].op = req[s].op /\ req'[s].delivery = req[s].delivery
      /\ req'[s].message = req[s].message /\ req'[s].event = req[s].event
      /\ \A t \in Slots \ {s} : req'[t] = req[t]
  BY <1>1, GotoMoves DEF Refuse, At, Points
<1>3. rows[req[s].delivery] # Nil
  BY <1>2, Working
<1>4. TypeOK' /\ \A e \in Deliveries : failures[e] <= failures'[e]
  BY <1>1, <1>2 DEF TypeOK, Refuse
<1>5. Busy(s)' /\ Sole(s)'
  BY <1>1, <1>2, <1>3 DEF Busy, Sole, At, Refuse
<1> QED BY <1>2, <1>3, <1>4, <1>5, QuietStep, TablesStay DEF Refuse

\* The status a notice sets is a status of the domain.
LEMMA StatusType ==
  ASSUME NEW event \in AllEvents
  PROVE  StatusOf(event) \in DeliveryStatus
  BY DEF StatusOf, DeliveryStatus, AllEvents

LEMMA UpdateKeeps ==
  ASSUME MailInv, NEW s \in Slots, Update(s)
  PROVE  MailInv'
<1>1. TypeOK /\ Busy(s) /\ req[s] \in Request
  BY DEF MailInv, TypeOK
<1>2. ~At(s, "Idle") /\ req[s].op = "Notice"
  BY <1>1 DEF Update, At, Busy
<1>3. /\ req[s].delivery \in Deliveries /\ req[s].event \in AllEvents
      /\ rows[req[s].delivery] # Nil
  BY <1>1, <1>2, Working, EmailAssumption DEF Busy, Request
<1>4. \A e \in Deliveries : failures[e] <= failures'[e]
  BY <1>1 DEF TypeOK, Update
<1>5. CASE /\ rows' = Updated(req[s].delivery, StatusOf(req[s].event), req[s].message)
           /\ Goto(s, "Log") /\ UNCHANGED faulted
  <2>1. rows' \in [Deliveries -> Row \cup {Nil}]
    BY <1>1, <1>3, <1>5, StatusType, RowUpdate DEF Request
  <2>2. /\ req' \in [Slots -> Request]
        /\ req'[s].at = "Log"
        /\ req'[s].op = req[s].op /\ req'[s].delivery = req[s].delivery
        /\ req'[s].message = req[s].message /\ req'[s].event = req[s].event
        /\ \A t \in Slots \ {s} : req'[t] = req[t]
    BY <1>1, <1>5, GotoMoves DEF Points
  <2>3. TypeOK'
    BY <1>1, <1>5, <2>1, <2>2 DEF TypeOK, Update
  <2>4. /\ KeyUnique' /\ MailHasRow' /\ OneFirstMail' /\ OwnMessage'
        /\ rows'[req[s].delivery] # Nil
        /\ \A e \in Deliveries \ {req[s].delivery} : rows'[e] = rows[e]
    BY <1>1, <1>3, <1>5, StatusType, RowStep DEF Request, Busy, Update
  <2>5. Busy(s)' /\ Sole(s)'
    BY <1>1, <1>2, <2>2, <2>4 DEF Busy, Sole, At, Update
  <2> QED BY <1>2, <1>4, <2>2, <2>3, <2>4, <2>5, QuietStep DEF Update
<1>6. CASE Fault /\ End(s) /\ UNCHANGED rows
  <2>1. TypeOK'
    BY <1>1, <1>6, EndClears DEF TypeOK, Update, Fault
  <2> QED BY <1>2, <1>4, <1>6, <2>1, QuietEnd DEF Update
<1> QED BY <1>5, <1>6 DEF Update

\* A notice's goroutine has logged its failure before it joins those that count.
LEMMA LogToCount ==
  ASSUME MailInv, TypeOK', NEW s \in Slots, At(s, "Log"), Goto(s, "Count"),
         failures' = [failures EXCEPT ![req[s].delivery] = @ + 1],
         UNCHANGED <<rows, mail, sleeping, launched>>
  PROVE  MailInv'
<1>1. TypeOK /\ Busy(s) /\ Sole(s) /\ ~At(s, "Idle")
  BY DEF MailInv, At
<1>2. /\ req'[s].at = "Count"
      /\ req'[s].op = req[s].op /\ req'[s].delivery = req[s].delivery
      /\ req'[s].message = req[s].message /\ req'[s].event = req[s].event
      /\ \A t \in Slots \ {s} : req'[t] = req[t]
  BY <1>1, GotoMoves DEF Points
<1>3. PICK d \in Deliveries : d = req[s].delivery /\ rows[d] # Nil
  BY <1>1, Working
<1>4. Busy(s)' /\ Sole(s)'
  BY <1>1, <1>2 DEF Busy, Sole, At
<1>5. \A t \in Slots \ {s} : Busy(t)' /\ Sole(t)'
  BY <1>1, <1>2, <1>3, Working, OthersKeep
<1>6. KeyUnique' /\ MailHasRow' /\ OneFirstMail' /\ OwnMessage'
  BY TablesStay
<1>7. /\ failures'[d] = failures[d] + 1 /\ failures[d] \in Nat /\ failures'[d] \in Nat
      /\ \A e \in Deliveries \ {d} : failures'[e] = failures[e] /\ failures[e] \in Nat
  BY <1>1, <1>3 DEF TypeOK
<1>8. ASSUME NEW e \in Deliveries \ {d} PROVE Budget(e)'
  <2>1. Counting(e)' \subseteq Counting(e) /\ Retrying(e)' \subseteq Retrying(e)
    BY <1>2, <1>3 DEF Counting, Retrying, At
  <2>2. RetriesOf(e)' = RetriesOf(e)
    BY DEF RetriesOf
  <2>3. sleeping'[e] <= sleeping[e] /\ failures[e] <= failures'[e]
    BY <1>1, <1>7 DEF TypeOK
  <2> QED BY <1>1, <2>1, <2>2, <2>3, BudgetShrinks DEF MailInv
<1>9. Budget(d)'
  <2>1. Counting(d)' = Counting(d) \cup {s} /\ s \notin Counting(d)
    BY <1>2, <1>3 DEF Counting, At
  <2>2. Cardinality(Counting(d)') = Cardinality(Counting(d)) + 1
    BY <2>1, SlotSets, FS_AddElement
  <2>3. Retrying(d)' = Retrying(d)
    BY <1>1, <1>2 DEF Retrying, At
  <2>4. RetriesOf(d)' = RetriesOf(d)
    BY DEF RetriesOf
  <2>5. Budget(d) /\ launched[d] \in Nat /\ Cardinality(Counting(d)) \in Nat
    BY <1>1, <1>3, SlotSets DEF MailInv, TypeOK
  <2>6. launched'[d] + Cardinality(Counting(d)') <= failures'[d]
    BY <1>7, <2>2, <2>5 DEF Budget
  <2> QED BY <2>3, <2>4, <2>5, <2>6 DEF Budget
<1>10. \A e \in Deliveries : Budget(e)'
  BY <1>8, <1>9
<1> QED BY <1>4, <1>5, <1>6, <1>10 DEF MailInv

LEMMA LogKeeps ==
  ASSUME MailInv, NEW s \in Slots, Log(s)
  PROVE  MailInv'
<1>1. TypeOK /\ Busy(s) /\ Sole(s) /\ ~At(s, "Idle")
  BY DEF MailInv, Log, At
<1>2. req[s].delivery \in Deliveries /\ rows[req[s].delivery] # Nil
  BY <1>1, Working
<1>3. CASE Fault /\ End(s) /\ UNCHANGED failures
  <2>1. TypeOK' /\ \A e \in Deliveries : failures[e] <= failures'[e]
    BY <1>1, <1>3, EndClears DEF TypeOK, Log, Fault
  <2> QED BY <1>1, <1>3, <2>1, QuietEnd DEF Log
<1>4. CASE /\ failures' = IF req[s].event = "transient"
                          THEN [failures EXCEPT ![req[s].delivery] = @ + 1]
                          ELSE failures
           /\ IF AfterLog(req[s].event) = "Idle" THEN End(s)
              ELSE Goto(s, AfterLog(req[s].event))
           /\ UNCHANGED faulted
  <2>1. /\ failures' \in [Deliveries -> Nat]
        /\ \A e \in Deliveries : failures[e] <= failures'[e]
    <3>1. CASE req[s].event = "transient"
      BY <1>1, <1>2, <1>4, <3>1 DEF TypeOK
    <3>2. CASE req[s].event # "transient"
      BY <1>1, <1>4, <3>2 DEF TypeOK
    <3> QED BY <3>1, <3>2
  <2>2. CASE AfterLog(req[s].event) = "Idle"
    <3>1. TypeOK'
      BY <1>1, <1>4, <2>1, <2>2, EndClears DEF TypeOK, Log
    <3> QED BY <1>1, <1>4, <2>1, <2>2, <3>1, QuietEnd DEF Log
  <2>3. CASE OptsOut(req[s].event)
    <3>1. Goto(s, "OptOut")
      BY <1>4, <2>3 DEF AfterLog, OptsOut
    <3>2. /\ req' \in [Slots -> Request]
          /\ req'[s].at = "OptOut"
          /\ req'[s].op = req[s].op /\ req'[s].delivery = req[s].delivery
          /\ req'[s].message = req[s].message /\ req'[s].event = req[s].event
          /\ \A t \in Slots \ {s} : req'[t] = req[t]
      BY <1>1, <3>1, GotoMoves DEF Points
    <3>3. TypeOK'
      BY <1>1, <1>4, <2>1, <3>2 DEF TypeOK, Log
    <3>4. Busy(s)' /\ Sole(s)'
      BY <1>1, <1>2, <3>2 DEF Busy, Sole, At, Log
    <3> QED BY <1>1, <1>2, <2>1, <3>2, <3>3, <3>4, QuietStep, TablesStay DEF Log
  <2>4. CASE req[s].event = "transient" /\ MaxRetries > 0
    <3>1. Goto(s, "Count")
      BY <1>4, <2>4 DEF AfterLog, OptsOut
    <3>2. req' \in [Slots -> Request]
      BY <1>1, <3>1, GotoMoves DEF Points
    <3>3. TypeOK'
      BY <1>1, <1>4, <2>1, <3>2 DEF TypeOK, Log
    <3> QED BY <1>4, <2>4, <3>1, <3>3, LogToCount DEF Log
  <2> QED BY <2>2, <2>3, <2>4 DEF AfterLog
<1> QED BY <1>3, <1>4 DEF Log

LEMMA CountKeeps ==
  ASSUME MailInv, NEW s \in Slots, Count(s)
  PROVE  MailInv'
<1>1. TypeOK /\ ~At(s, "Idle") /\ At(s, "Count")
  BY DEF MailInv, Count, At
<1>2. PICK d \in Deliveries : d = req[s].delivery /\ rows[d] # Nil
  BY <1>1, Working
<1>3. /\ req' \in [Slots -> Request] /\ req'[s] = Idle
      /\ \A t \in Slots \ {s} : req'[t] = req[t]
  BY <1>1, EndClears DEF Count
<1>4. CASE UNCHANGED <<sleeping, launched>>
  <2>1. \A e \in Deliveries : failures[e] <= failures'[e]
    BY <1>1 DEF TypeOK, Count
  <2>2. faulted' \in BOOLEAN
    BY <1>1 DEF TypeOK, Count, Fault
  <2>3. TypeOK'
    BY <1>1, <1>3, <1>4, <2>2 DEF TypeOK, Count
  <2> QED BY <1>1, <1>4, <2>1, <2>3, QuietEnd DEF Count
<1>5. CASE /\ failures[d] <= MaxRetries
           /\ sleeping' = [sleeping EXCEPT ![d] = @ + 1]
           /\ launched' = [launched EXCEPT ![d] = @ + 1]
           /\ UNCHANGED faulted
  <2>1. /\ sleeping' \in [Deliveries -> Nat] /\ launched' \in [Deliveries -> Nat]
        /\ sleeping'[d] = sleeping[d] + 1 /\ launched'[d] = launched[d] + 1
        /\ \A e \in Deliveries \ {d} : /\ sleeping'[e] = sleeping[e]
                                       /\ launched'[e] = launched[e]
    BY <1>1, <1>2, <1>5 DEF TypeOK
  <2>2. TypeOK'
    BY <1>1, <1>3, <1>5, <2>1 DEF TypeOK, Count
  <2>3. UNCHANGED <<rows, mail, failures>>
    BY DEF Count
  <2>4. \A t \in Slots \ {s} : Busy(t)' /\ Sole(t)'
    <3>1. req'[s].delivery \in {d, Nil}
      BY <1>3 DEF Idle
    <3> QED BY <1>1, <1>2, <1>3, <2>1, <2>3, <3>1, Working, OthersKeep
  <2>5. KeyUnique' /\ MailHasRow' /\ OneFirstMail' /\ OwnMessage'
    BY <2>3, TablesStay
  <2>6. ASSUME NEW e \in Deliveries \ {d} PROVE Budget(e)'
    <3>1. Counting(e)' \subseteq Counting(e) /\ Retrying(e)' \subseteq Retrying(e)
      BY <1>3 DEF Counting, Retrying, At, Idle
    <3>2. RetriesOf(e)' = RetriesOf(e)
      BY <2>3 DEF RetriesOf
    <3>3. sleeping'[e] <= sleeping[e] /\ failures[e] <= failures'[e]
      BY <1>1, <2>1, <2>3 DEF TypeOK
    <3> QED BY <1>1, <2>1, <2>2, <2>3, <3>1, <3>2, <3>3, BudgetShrinks DEF MailInv
  <2>7. Budget(d)'
    <3>1. Counting(d)' = Counting(d) \ {s} /\ s \in Counting(d)
      BY <1>1, <1>2, <1>3 DEF Counting, At, Idle
    <3>2. Cardinality(Counting(d)') = Cardinality(Counting(d)) - 1
      BY <3>1, SlotSets, FS_RemoveElement
    <3>3. Retrying(d)' = Retrying(d)
      BY <1>1, <1>3 DEF Retrying, At, Idle
    <3>4. RetriesOf(d)' = RetriesOf(d)
      BY <2>3 DEF RetriesOf
    <3>5. /\ Budget(d) /\ launched[d] \in Nat /\ sleeping[d] \in Nat /\ failures[d] \in Nat
          /\ Cardinality(Counting(d)) \in Nat /\ Cardinality(Retrying(d)) \in Nat
          /\ MaxRetries \in Nat
      BY <1>1, <1>2, SlotSets, EmailAssumption DEF MailInv, TypeOK
    <3>6. Cardinality(RetriesOf(d)) \in Nat
      BY <3>5, FS_CardinalityType DEF Budget
    <3>7. Cardinality(Counting(d)) >= 1
      BY <3>2, <3>5, SlotSetsPrime
    <3>8. launched'[d] + Cardinality(Counting(d)') <= failures'[d]
      BY <2>1, <2>3, <3>2, <3>5 DEF Budget
    <3>9. launched'[d] <= MaxRetries
      BY <1>5, <2>1, <3>5, <3>7 DEF Budget
    <3>10. Cardinality(RetriesOf(d)') + sleeping'[d] + Cardinality(Retrying(d)') <= launched'[d]
      BY <2>1, <3>3, <3>4, <3>5, <3>6 DEF Budget
    <3> QED BY <1>2, <2>3, <3>4, <3>5, <3>8, <3>9, <3>10 DEF Budget
  <2>8. \A e \in Deliveries : Budget(e)'
    BY <2>6, <2>7
  <2> QED BY <1>3, <2>2, <2>4, <2>5, <2>8, IdleFits DEF MailInv
<1> QED BY <1>2, <1>4, <1>5 DEF Count

-----------------------------------------------------------------------------
(* The provider. *)

LEMMA AcceptKeeps ==
  ASSUME MailInv, NEW s \in Slots, Accept(s)
  PROVE  MailInv'
<1>1. TypeOK /\ Busy(s) /\ Sole(s) /\ req[s] \in Request /\ At(s, "Provider")
  BY DEF MailInv, TypeOK, Accept
<1>2. ~At(s, "Idle") /\ req[s].op \in {"Send", "Retry"}
  BY <1>1 DEF At, Busy, Request
<1>3. PICK d \in Deliveries : d = req[s].delivery /\ rows[d] # Nil
  BY <1>2, Working
<1>4. PICK m \in Messages :
        /\ mail[m] = Nil
        /\ mail' = [mail EXCEPT ![m] = [delivery |-> d, op |-> req[s].op]]
        /\ \/ req' = [req EXCEPT ![s].at = "Store", ![s].message = m]
           \/ Goto(s, "Store")
           \/ Goto(s, "StoreFailure")
  BY <1>3 DEF Accept, Free
<1> DEFINE new == [delivery |-> d, op |-> req[s].op]
<1>5. /\ new \in Mail /\ new # Nil
      /\ new.delivery = d /\ new.op = req[s].op
  BY <1>2, <1>3, NilAssumption DEF Mail
<1>6. mail' = [mail EXCEPT ![m] = new]
  BY <1>4
<1> HIDE DEF new
<1>7. /\ mail' \in [Messages -> Mail \cup {Nil}]
      /\ mail'[m] = new
      /\ \A n \in Messages \ {m} : mail'[n] = mail[n]
  BY <1>1, <1>5, <1>6 DEF TypeOK
<1>8. /\ req' \in [Slots -> Request]
      /\ req'[s].at \in {"Store", "StoreFailure"}
      /\ req'[s].op = req[s].op /\ req'[s].delivery = req[s].delivery
      /\ req'[s].message \in {req[s].message, m} /\ req'[s].event = req[s].event
      /\ \A t \in Slots \ {s} : req'[t] = req[t]
  <2>1. CASE req' = [req EXCEPT ![s].at = "Store", ![s].message = m]
    BY <1>1, <2>1 DEF TypeOK, Request
  <2>2. CASE Goto(s, "Store") \/ Goto(s, "StoreFailure")
    BY <1>1, <2>2, GotoMoves DEF Points
  <2> QED BY <1>4, <2>1, <2>2
<1>9. UNCHANGED <<rows, sleeping, launched, failures>>
  BY DEF Accept
<1>10. TypeOK'
  BY <1>1, <1>7, <1>8 DEF TypeOK, Accept
<1>11. \A t \in Slots \ {s} : Busy(t)' /\ Sole(t)'
  <2>1. req'[s].delivery \in {d, Nil}
    BY <1>3, <1>8
  <2>2. /\ \A n \in Messages : mail[n] # Nil => mail'[n] = mail[n]
        /\ \A n \in Messages : mail[n] = Nil /\ mail'[n] # Nil => mail'[n].delivery = d
    BY <1>4, <1>5, <1>7
  <2> QED BY <1>2, <1>3, <1>8, <1>9, <2>1, <2>2, Working, OthersKeep
<1>12. Busy(s)' /\ Sole(s)'
  <2>1. Busy(s)'
    BY <1>1, <1>2, <1>3, <1>4, <1>5, <1>7, <1>8, <1>9 DEF Busy, At
  <2>2. Sole(s)'
    BY <1>1, <1>2, <1>3, <1>8, <1>9 DEF Sole, At
  <2> QED BY <2>1, <2>2
<1>13. KeyUnique' /\ MailHasRow' /\ OwnMessage'
  BY <1>3, <1>4, <1>5, <1>7, <1>9 DEF MailInv, KeyUnique, MailHasRow, OwnMessage
<1>14. OneFirstMail'
  <2>1. \A n \in Messages : mail[n] # Nil =>
          mail[n].delivery \in Deliveries /\ rows[mail[n].delivery] # Nil
    BY <1>1 DEF MailInv, MailHasRow, TypeOK, Mail
  <2>2. ASSUME req[s].op = "Send", NEW n \in Messages, mail[n] # Nil
        PROVE  rows[mail[n].delivery].key # rows[d].key
    BY <1>1, <1>3, <2>1, <2>2 DEF Sole, MailInv, KeyUnique
  <2>3. CASE req[s].op = "Send"
    BY <1>4, <1>5, <1>7, <1>9, <2>1, <2>2, <2>3 DEF MailInv, OneFirstMail
  <2>4. CASE req[s].op = "Retry"
    BY <1>4, <1>5, <1>7, <1>9, <2>1, <2>4 DEF MailInv, OneFirstMail
  <2> QED BY <1>2, <2>3, <2>4
<1>15. ASSUME NEW e \in Deliveries PROVE Budget(e)'
  <2>1. /\ Counting(e)' = Counting(e)
        /\ Retrying(e)' = IF e = d /\ req[s].op = "Retry" THEN Retrying(e) \ {s}
                          ELSE Retrying(e)
    BY <1>1, <1>3, <1>8 DEF Counting, Retrying, At
  <2>2. CASE e = d /\ req[s].op = "Retry"
    <3>1. RetriesOf(d)' = RetriesOf(d) \cup {m} /\ m \notin RetriesOf(d)
      <4>1. new = [delivery |-> d, op |-> "Retry"]
        BY <2>2 DEF new
      <4>2. m \notin RetriesOf(d)
        BY <1>4, <1>5, <4>1 DEF RetriesOf
      <4> QED BY <1>7, <4>1, <4>2 DEF RetriesOf
    <3>2. s \in Retrying(d)
      BY <1>1, <1>3, <2>2 DEF Retrying
    <3>3. /\ IsFiniteSet(RetriesOf(d)')
          /\ Cardinality(RetriesOf(d)') = Cardinality(RetriesOf(d)) + 1
          /\ Cardinality(RetriesOf(d)) \in Nat
      BY <1>3, <3>1, FS_AddElement, FS_CardinalityType DEF MailInv, Budget
    <3>4. Cardinality(Retrying(d)') = Cardinality(Retrying(d)) - 1
      BY <2>1, <2>2, <3>2, SlotSets, FS_RemoveElement
    <3>5. /\ Budget(d) /\ launched[d] \in Nat /\ sleeping[d] \in Nat
          /\ Cardinality(Retrying(d)) \in Nat
      BY <1>1, SlotSets DEF MailInv, TypeOK
    <3>6. Cardinality(RetriesOf(d)') + sleeping'[d] + Cardinality(Retrying(d)') <= launched'[d]
      BY <1>9, <3>3, <3>4, <3>5 DEF Budget
    <3> QED BY <1>9, <2>1, <2>2, <3>3, <3>5, <3>6 DEF Budget
  <2>3. CASE ~(e = d /\ req[s].op = "Retry")
    <3>1. RetriesOf(e)' = RetriesOf(e)
      <4>1. new # [delivery |-> e, op |-> "Retry"]
        BY <1>5, <2>3
      <4> QED BY <1>4, <1>7, <4>1, NilAssumption DEF RetriesOf, Mail
    <3>2. Budget(e)
      BY DEF MailInv
    <3> QED BY <1>9, <2>1, <2>3, <3>1, <3>2 DEF Budget
  <2> QED BY <2>2, <2>3
<1> QED BY <1>10, <1>11, <1>12, <1>13, <1>14, <1>15 DEF MailInv

-----------------------------------------------------------------------------
(* Requests that arrive. *)

LEMMA CreateDeliveryKeeps ==
  ASSUME MailInv, NEW s \in Slots, NEW k \in Keys, CreateDelivery(s, k)
  PROVE  MailInv'
<1>1. TypeOK /\ Busy(s) /\ At(s, "Idle") /\ ~Duplicate(k)
  BY DEF MailInv, CreateDelivery, Try
<1> DEFINE new == [key |-> k, status |-> "pending", message |-> Nil]
<1>2. new \in Row /\ new # Nil /\ new.key = k /\ new.status = "pending" /\ new.message = Nil
  BY NilAssumption DEF Row, DeliveryStatus
<1>3. PICK d \in Deliveries :
        /\ rows[d] = Nil
        /\ rows' = [rows EXCEPT ![d] = new]
        /\ req' = [req EXCEPT ![s] = [Idle EXCEPT !.op = "Send", !.at = "Provider",
                                                  !.delivery = d]]
  BY DEF CreateDelivery, Free
<1> HIDE DEF new
<1>4. /\ rows' \in [Deliveries -> Row \cup {Nil}] /\ rows'[d] = new
      /\ \A e \in Deliveries \ {d} : rows'[e] = rows[e]
  BY <1>1, <1>2, <1>3 DEF TypeOK
<1>5. /\ req' \in [Slots -> Request]
      /\ req'[s] = [op |-> "Send", at |-> "Provider", delivery |-> d,
                    message |-> Nil, event |-> Nil]
      /\ \A t \in Slots \ {s} : req'[t] = req[t]
  BY <1>1, <1>3 DEF TypeOK, Request, Idle
<1>6. UNCHANGED <<mail, sleeping, launched, failures>>
  BY DEF CreateDelivery
<1>7. TypeOK'
  BY <1>1, <1>4, <1>5, EmailAssumption DEF TypeOK, CreateDelivery, Try
<1>8. \A t \in Slots : req[t].delivery # d
  BY <1>3, EmailAssumption DEF MailInv, Busy, At
<1>9. \A t \in Slots \ {s} : Busy(t)' /\ Sole(t)'
  <2>1. req'[s].delivery \in {d, Nil}
    BY <1>5
  <2>2. \A n \in Messages : mail'[n] = mail[n]
    BY <1>6
  <2> QED BY <1>3, <1>4, <1>5, <1>6, <1>8, <2>1, <2>2, OthersKeep
<1>10. \A m \in Messages : mail[m] # Nil =>
         mail[m].delivery \in Deliveries /\ mail[m].delivery # d
  BY <1>1, <1>3 DEF MailInv, MailHasRow, TypeOK, Mail
<1>11. Busy(s)' /\ Sole(s)'
  <2>1. sleeping[d] = 0
    BY <1>3 DEF MailInv, Budget
  <2> QED BY <1>2, <1>4, <1>5, <1>6, <1>8, <1>10, <2>1, EmailAssumption DEF Busy, Sole, At
<1>12. KeyUnique'
  BY <1>1, <1>2, <1>4 DEF MailInv, KeyUnique, Duplicate
<1>13. MailHasRow' /\ OneFirstMail'
  BY <1>4, <1>6, <1>10 DEF MailInv, MailHasRow, OneFirstMail
<1>14. OwnMessage'
  BY <1>2, <1>4, <1>6 DEF MailInv, OwnMessage
<1>15. ASSUME NEW e \in Deliveries PROVE Budget(e)'
  <2>1. Counting(e)' \subseteq Counting(e) /\ Retrying(e)' \subseteq Retrying(e)
    BY <1>5 DEF Counting, Retrying, At
  <2>2. RetriesOf(e)' = RetriesOf(e)
    BY <1>6 DEF RetriesOf
  <2>3. sleeping'[e] <= sleeping[e] /\ failures[e] <= failures'[e]
    BY <1>1, <1>6 DEF TypeOK
  <2>4. rows[e] = Nil \/ rows'[e] # Nil
    BY <1>2, <1>4
  <2> QED BY <1>1, <1>6, <1>7, <2>1, <2>2, <2>3, <2>4, BudgetShrinks DEF MailInv
<1> QED BY <1>7, <1>9, <1>11, <1>12, <1>13, <1>14, <1>15 DEF MailInv

\* Steps that only count a call or record a verdict.
LEMMA VerdictKeeps ==
  ASSUME MailInv, TypeOK', UNCHANGED <<rows, failures, req, sleeping, mail, launched>>
  PROVE  MailInv'
<1>1. KeyUnique' /\ MailHasRow' /\ OneFirstMail' /\ OwnMessage'
  BY TablesStay
<1>2. \A s \in Slots : Busy(s)' /\ Sole(s)'
  BY DEF MailInv, Busy, Sole, At
<1>3. \A d \in Deliveries : Budget(d)'
  BY DEF MailInv, Budget, RetriesOf, Counting, Retrying, At
<1> QED BY <1>1, <1>2, <1>3 DEF MailInv

LEMMA SkipDuplicateKeeps ==
  ASSUME MailInv, NEW s \in Slots, NEW k \in Keys, SkipDuplicate(s, k)
  PROVE  MailInv'
<1>1. TypeOK'
  BY EmailAssumption DEF MailInv, TypeOK, SkipDuplicate, Try
<1> QED BY <1>1, VerdictKeeps DEF SkipDuplicate

LEMMA CreateFailsKeeps ==
  ASSUME MailInv, NEW s \in Slots, CreateFails(s)
  PROVE  MailInv'
<1>1. TypeOK'
  BY EmailAssumption DEF MailInv, TypeOK, CreateFails, Try, Fault
<1> QED BY <1>1, VerdictKeeps DEF CreateFails

LEMMA UnknownKeeps ==
  ASSUME MailInv, NEW s \in Slots, NEW m \in Messages, Unknown(s, m)
  PROVE  MailInv'
<1>1. TypeOK'
  BY EmailAssumption DEF MailInv, TypeOK, Unknown, Notify
<1> QED BY <1>1, VerdictKeeps DEF Unknown

LEMMA LookupKeeps ==
  ASSUME MailInv, NEW s \in Slots, NEW m \in Messages, NEW event \in Events,
         Lookup(s, m, event)
  PROVE  MailInv'
<1>1. TypeOK /\ At(s, "Idle") /\ mail[m] # Nil
  BY DEF MailInv, Lookup, Notify
<1>2. PICK d \in Deliveries :
        /\ rows[d] # Nil /\ rows[d].message = m
        /\ req' = [req EXCEPT ![s] = [op |-> "Notice", at |-> "Update",
                             delivery |-> d, message |-> m, event |-> event]]
  BY DEF Lookup
<1>3. /\ req' \in [Slots -> Request]
      /\ req'[s] = [op |-> "Notice", at |-> "Update", delivery |-> d,
                    message |-> m, event |-> event]
      /\ \A t \in Slots \ {s} : req'[t] = req[t]
  BY <1>1, <1>2 DEF TypeOK, Request
<1>4. UNCHANGED <<rows, mail, sleeping, launched, failures>>
  BY DEF Lookup
<1>5. TypeOK'
  BY <1>1, <1>3, EmailAssumption DEF TypeOK, Lookup, Notify
<1>6. \A t \in Slots : req[t].op = "Send" => req[t].delivery # d
  BY <1>2, EmailAssumption DEF MailInv, Sole
<1>7. \A t \in Slots \ {s} : Busy(t)' /\ Sole(t)'
  <2>1. req'[s].delivery \in {d, Nil}
    BY <1>3
  <2> QED BY <1>2, <1>3, <1>4, <1>6, <2>1, OthersKeep
<1>8. mail[m].delivery = d
  BY <1>1, <1>2, EmailAssumption DEF MailInv, OwnMessage
<1>9. Busy(s)' /\ Sole(s)'
  BY <1>1, <1>2, <1>3, <1>4, <1>8, EmailAssumption DEF Busy, Sole, At
<1>10. KeyUnique' /\ MailHasRow' /\ OneFirstMail' /\ OwnMessage'
  BY <1>4, TablesStay
<1>11. ASSUME NEW e \in Deliveries PROVE Budget(e)'
  <2>1. Counting(e)' \subseteq Counting(e) /\ Retrying(e)' \subseteq Retrying(e)
    BY <1>3 DEF Counting, Retrying, At
  <2>2. RetriesOf(e)' = RetriesOf(e)
    BY <1>4 DEF RetriesOf
  <2>3. sleeping'[e] <= sleeping[e] /\ failures[e] <= failures'[e]
    BY <1>1, <1>4 DEF TypeOK
  <2> QED BY <1>1, <1>4, <1>5, <2>1, <2>2, <2>3, BudgetShrinks DEF MailInv
<1> QED BY <1>5, <1>7, <1>9, <1>10, <1>11 DEF MailInv

LEMMA WakeKeeps ==
  ASSUME MailInv, NEW s \in Slots, NEW d \in Deliveries, Wake(s, d)
  PROVE  MailInv'
<1>1. TypeOK /\ Busy(s) /\ At(s, "Idle") /\ sleeping[d] \in Nat /\ sleeping[d] > 0
  BY DEF MailInv, Wake, TypeOK
<1>2. /\ req' \in [Slots -> Request]
      /\ req'[s] = [op |-> "Retry", at |-> "Provider", delivery |-> d,
                    message |-> Nil, event |-> Nil]
      /\ \A t \in Slots \ {s} : req'[t] = req[t]
  BY <1>1 DEF TypeOK, Wake, Request, Idle
<1>3. /\ sleeping' \in [Deliveries -> Nat] /\ sleeping'[d] = sleeping[d] - 1
      /\ \A e \in Deliveries \ {d} : sleeping'[e] = sleeping[e]
  BY <1>1 DEF TypeOK, Wake
<1>4. UNCHANGED <<rows, mail, launched, failures>>
  BY DEF Wake
<1>5. TypeOK'
  BY <1>1, <1>2, <1>3 DEF TypeOK, Wake
<1>6. rows[d] # Nil /\ \A t \in Slots : req[t].op = "Send" => req[t].delivery # d
  BY <1>1 DEF MailInv, Sole, Budget
<1>7. \A t \in Slots \ {s} : Busy(t)' /\ Sole(t)'
  <2>1. req'[s].delivery \in {d, Nil}
    BY <1>2
  <2> QED BY <1>2, <1>3, <1>4, <1>6, <2>1, OthersKeep
<1>8. Busy(s)' /\ Sole(s)'
  BY <1>2, <1>4, <1>6, EmailAssumption DEF Busy, Sole, At
<1>9. KeyUnique' /\ MailHasRow' /\ OneFirstMail' /\ OwnMessage'
  BY <1>4, TablesStay
<1>10. ASSUME NEW e \in Deliveries \ {d} PROVE Budget(e)'
  <2>1. Counting(e)' \subseteq Counting(e) /\ Retrying(e)' \subseteq Retrying(e)
    BY <1>2 DEF Counting, Retrying, At
  <2>2. RetriesOf(e)' = RetriesOf(e)
    BY <1>4 DEF RetriesOf
  <2>3. sleeping'[e] <= sleeping[e] /\ failures[e] <= failures'[e]
    BY <1>1, <1>3, <1>4 DEF TypeOK
  <2> QED BY <1>1, <1>4, <1>5, <2>1, <2>2, <2>3, BudgetShrinks DEF MailInv
<1>11. Budget(d)'
  <2>1. Counting(d)' = Counting(d)
    BY <1>1, <1>2 DEF Counting, At
  <2>2. Retrying(d)' = Retrying(d) \cup {s} /\ s \notin Retrying(d)
    BY <1>1, <1>2 DEF Retrying, At
  <2>3. Cardinality(Retrying(d)') = Cardinality(Retrying(d)) + 1
    BY <2>2, SlotSets, FS_AddElement
  <2>4. RetriesOf(d)' = RetriesOf(d)
    BY <1>4 DEF RetriesOf
  <2>5. /\ Budget(d) /\ launched[d] \in Nat
        /\ Cardinality(RetriesOf(d)) \in Nat /\ Cardinality(Retrying(d)) \in Nat
    BY <1>1, SlotSets, FS_CardinalityType DEF MailInv, TypeOK, Budget
  <2>6. Cardinality(RetriesOf(d)') + sleeping'[d] + Cardinality(Retrying(d)') <= launched'[d]
    BY <1>1, <1>3, <1>4, <2>3, <2>4, <2>5 DEF Budget
  <2> QED BY <1>4, <1>6, <2>1, <2>4, <2>5, <2>6 DEF Budget
<1> QED BY <1>5, <1>7, <1>8, <1>9, <1>10, <1>11 DEF MailInv

-----------------------------------------------------------------------------
(* The open pixel and the death of the process. *)

LEMMA TrackOpenKeeps ==
  ASSUME MailInv, NEW d \in Deliveries, TrackOpen(d)
  PROVE  MailInv'
<1>1. TypeOK /\ MailHasRow
  BY DEF MailInv
<1>2. PICK m \in Messages : mail[m] # Nil /\ mail[m].delivery = d
  BY DEF TrackOpen
<1>3. rows[d] # Nil
  BY <1>1, <1>2 DEF MailHasRow
<1>4. /\ rows' = Updated(d, "opened", Nil)
      /\ UNCHANGED <<failures, req, sleeping, mail, launched>>
  BY DEF TrackOpen
<1>5. /\ rows' \in [Deliveries -> Row \cup {Nil}]
      /\ rows'[d] # Nil /\ rows'[d].status = "opened"
      /\ rows'[d].message = rows[d].message
      /\ \A e \in Deliveries \ {d} : rows'[e] = rows[e]
  BY <1>1, <1>3, <1>4, RowUpdate DEF DeliveryStatus
<1>6. TypeOK'
  BY <1>1, <1>5 DEF TypeOK, TrackOpen
<1>7. KeyUnique' /\ MailHasRow' /\ OneFirstMail' /\ OwnMessage'
  BY <1>3, <1>4, RowStep DEF DeliveryStatus
<1>8. ASSUME NEW s \in Slots PROVE Busy(s)' /\ Sole(s)'
  <2>1. Busy(s) /\ Sole(s) /\ req[s].delivery \in Deliveries \cup {Nil}
    BY <1>1 DEF MailInv, TypeOK, Request
  <2>2. Busy(s)'
    BY <1>4, <1>5, <2>1, EmailAssumption DEF Busy, At
  <2>3. Sole(s)'
    BY <1>4, <1>5, <2>1, EmailAssumption DEF Busy, Sole, At
  <2> QED BY <2>2, <2>3
<1>9. ASSUME NEW e \in Deliveries PROVE Budget(e)'
  <2>1. /\ Counting(e)' = Counting(e) /\ Retrying(e)' = Retrying(e)
        /\ RetriesOf(e)' = RetriesOf(e)
    BY <1>4 DEF Counting, Retrying, RetriesOf, At
  <2>2. (rows[e] = Nil) <=> (rows'[e] = Nil)
    BY <1>3, <1>5
  <2> QED BY <1>4, <2>1, <2>2 DEF MailInv, Budget
<1> QED BY <1>6, <1>7, <1>8, <1>9 DEF MailInv

LEMMA CrashKeeps ==
  ASSUME MailInv, Crash
  PROVE  MailInv'
<1>1. TypeOK
  BY DEF MailInv
<1>2. /\ req' = [s \in Slots |-> Idle] /\ sleeping' = [d \in Deliveries |-> 0]
      /\ UNCHANGED <<rows, mail, launched, failures>> /\ faulted' \in BOOLEAN
  BY DEF Crash, Fault
<1>3. Idle \in Request
  BY DEF Idle, Request
<1>4. TypeOK'
  BY <1>1, <1>2, <1>3 DEF TypeOK, Crash
<1>5. \A s \in Slots : Busy(s)' /\ Sole(s)'
  BY <1>2, IdleFits
<1>6. KeyUnique' /\ MailHasRow' /\ OneFirstMail' /\ OwnMessage'
  BY <1>2, TablesStay
<1>7. ASSUME NEW e \in Deliveries PROVE Budget(e)'
  <2>1. Counting(e)' \subseteq Counting(e) /\ Retrying(e)' \subseteq Retrying(e)
    BY <1>2 DEF Counting, Retrying, At, Idle
  <2>2. RetriesOf(e)' = RetriesOf(e)
    BY <1>2 DEF RetriesOf
  <2>3. sleeping'[e] <= sleeping[e] /\ failures[e] <= failures'[e]
    BY <1>1, <1>2 DEF TypeOK
  <2> QED BY <1>1, <1>2, <1>4, <2>1, <2>2, <2>3, BudgetShrinks DEF MailInv
<1> QED BY <1>4, <1>5, <1>6, <1>7 DEF MailInv

-----------------------------------------------------------------------------
(* The theorems. *)

LEMMA MailInit == Init => MailInv
<1> SUFFICES ASSUME Init PROVE MailInv
  OBVIOUS
<1>1. TypeOK
  <2>1. Idle \in Request
    BY DEF Idle, Request
  <2>2. req \in [Slots -> Request]
    BY <2>1 DEF Init
  <2>3. /\ rows \in [Deliveries -> Row \cup {Nil}]
        /\ mail \in [Messages -> Mail \cup {Nil}]
    BY DEF Init
  <2>4. /\ failures \in [Deliveries -> Nat] /\ sleeping \in [Deliveries -> Nat]
        /\ launched \in [Deliveries -> Nat]
        /\ tries \in 0..MaxTries /\ notices \in 0..MaxNotices
    BY EmailAssumption DEF Init
  <2>5. optedOut \subseteq Keys /\ acked \subseteq Keys /\ faulted \in BOOLEAN
    BY DEF Init
  <2> QED BY <2>2, <2>3, <2>4, <2>5 DEF TypeOK
<1>2. KeyUnique /\ MailHasRow /\ OneFirstMail /\ OwnMessage
  BY DEF Init, KeyUnique, MailHasRow, OneFirstMail, OwnMessage
<1>3. \A s \in Slots : Busy(s) /\ Sole(s)
  BY EmailAssumption DEF Init, Busy, Sole, At, Idle
<1>4. ASSUME NEW d \in Deliveries PROVE Budget(d)
  <2>1. Counting(d) = {} /\ Retrying(d) = {}
    BY DEF Init, Counting, Retrying, At, Idle
  <2>2. RetriesOf(d) = {}
    BY NilAssumption DEF Init, RetriesOf, Mail
  <2> QED BY <2>1, <2>2, FS_EmptySet, EmailAssumption DEF Init, Budget
<1> QED BY <1>1, <1>2, <1>3, <1>4 DEF MailInv

LEMMA MailNext == MailInv /\ [Next]_vars => MailInv'
<1> SUFFICES ASSUME MailInv, [Next]_vars PROVE MailInv'
  OBVIOUS
<1>1. ASSUME NEW s \in Slots, Begin(s) PROVE MailInv'
  BY <1>1, CreateDeliveryKeeps, SkipDuplicateKeeps, CreateFailsKeeps, LookupKeeps,
     UnknownKeeps DEF Begin
<1>2. ASSUME NEW s \in Slots, Step(s) PROVE MailInv'
  BY <1>2, AcceptKeeps, RefuseKeeps, StoreKeeps, StoreFailureKeeps, LogFailureKeeps,
     UpdateKeeps, LogKeeps, OptOutKeeps, CountKeeps DEF Step
<1>3. ASSUME NEW d \in Deliveries, Retry(d) PROVE MailInv'
  BY <1>3, WakeKeeps DEF Retry
<1>4. ASSUME NEW d \in Deliveries, TrackOpen(d) PROVE MailInv'
  BY <1>4, TrackOpenKeeps
<1>5. CASE Crash
  BY <1>5, CrashKeeps
<1>6. CASE UNCHANGED vars
  <2>1. TypeOK'
    BY <1>6 DEF MailInv, TypeOK, vars
  <2> QED BY <1>6, <2>1, VerdictKeeps DEF vars
<1> QED BY <1>1, <1>2, <1>3, <1>4, <1>5, <1>6 DEF Next

\* The inductive invariant: mail, rows, the status history and the goroutines at
\* work agree, for any number of concurrent sends, notices and retries.
THEOREM MailInvariant == Spec => []MailInv
  BY MailInit, MailNext, PTL DEF Spec

\* Every reachable state is type correct.
THEOREM MailTypes == Spec => []TypeOK
<1>1. MailInv => TypeOK
  BY DEF MailInv
<1> QED BY <1>1, MailInvariant, PTL

\* Whatever is redelivered, repeated or interrupted, the provider accepts at most
\* one original mail per idempotency key.
THEOREM OneMailPerKey == Spec => []OneFirstMail
<1>1. MailInv => OneFirstMail
  BY DEF MailInv
<1> QED BY <1>1, MailInvariant, PTL

\* Concurrent copies of soft-bounce notices never retry a delivery more often than
\* EMAIL_WEBHOOK_SOFT_BOUNCE_MAX_RETRIES.
THEOREM RetriesBounded == Spec => []RetryBudget
<1>1. MailInv => RetryBudget
  <2> SUFFICES ASSUME MailInv, NEW d \in Deliveries
               PROVE  Cardinality(RetriesOf(d)) <= MaxRetries
    BY DEF RetryBudget
  <2>1. /\ Budget(d) /\ sleeping[d] \in Nat /\ launched[d] \in Nat /\ MaxRetries \in Nat
        /\ Cardinality(Retrying(d)) \in Nat
    BY SlotSets, EmailAssumption DEF MailInv, TypeOK
  <2>2. Cardinality(RetriesOf(d)) \in Nat
    BY <2>1, FS_CardinalityType DEF Budget
  <2> QED BY <2>1, <2>2 DEF Budget
<1> QED BY <1>1, MailInvariant, PTL

\* A delivery never carries the provider id of another delivery's mail, so that a
\* notice reaches the recipient it is about or nobody.
THEOREM NoticesReachTheirDelivery == Spec => []OwnMessage
<1>1. MailInv => OwnMessage
  BY DEF MailInv
<1> QED BY <1>1, MailInvariant, PTL

\* The write of "submitted" that ends Send never overwrites what a notice said.
THEOREM SubmittedNeverOverwrites == Spec => SubmittedFirst
<1>1. MailInv /\ [Next]_vars =>
        [\A s \in Slots : req[s].op = "Send" /\ At(s, "Store") /\ Store(s) =>
           rows[req[s].delivery].status \in {"pending", "opened"}]_vars
  BY DEF MailInv, Sole, At
<1> QED BY <1>1, MailInvariant, PTL DEF Spec, SubmittedFirst
-----------------------------------------------------------------------------
(* Bounces and opt-outs. *)

Due(d) == rows[d] # Nil /\ rows[d].status \in {"bounced", "complained"} /\ ~faulted

Settled(d) == rows[d].key \in optedOut \/ \E s \in Slots : OptingOut(s, d)

\* A step that adds no bounce, takes back no opt-out and moves no goroutine from
\* between its status and its opt-out keeps the opt-out on its way.
LEMMA OptOutStays ==
  ASSUME OptOutInv, MailInv',
         \A d \in Deliveries : Due(d)' => Due(d) /\ rows'[d].key = rows[d].key,
         optedOut \subseteq optedOut',
         \A s \in Slots, d \in Deliveries : OptingOut(s, d) => OptingOut(s, d)'
  PROVE  OptOutInv'
<1>1. ASSUME NEW d \in Deliveries, Due(d)' PROVE Settled(d)'
  <2>1. Due(d) /\ rows'[d].key = rows[d].key
    BY <1>1
  <2>2. Settled(d)
    BY <2>1 DEF OptOutInv, Due, Settled
  <2> QED BY <2>1, <2>2 DEF Settled
<1> QED BY <1>1 DEF OptOutInv, Due, Settled

\* The goroutine of slot s has nothing to opt out before and the others stay.
LEMMA OptingStays ==
  ASSUME TypeOK, NEW s \in Slots, ~At(s, "Log"), ~At(s, "OptOut"),
         \A t \in Slots \ {s} : req'[t] = req[t]
  PROVE  \A t \in Slots, d \in Deliveries : OptingOut(t, d) => OptingOut(t, d)'
  BY DEF OptingOut, Handling, At

\* A status other than a bounce or a complaint makes nothing due.
LEMMA MildStatus ==
  ASSUME TypeOK, NEW d \in Deliveries, rows[d] # Nil,
         NEW st \in DeliveryStatus \ {"bounced", "complained"},
         NEW m \in Messages \cup {Nil}, rows' = Updated(d, st, m) \/ rows' = rows,
         faulted' = faulted \/ faulted' = TRUE
  PROVE  \A e \in Deliveries : Due(e)' => Due(e) /\ rows'[e].key = rows[e].key
<1>1. CASE rows' = rows
  BY <1>1 DEF Due
<1>2. CASE rows' = Updated(d, st, m)
  <2>1. rows'[d].status = st /\ \A e \in Deliveries \ {d} : rows'[e] = rows[e]
    BY <1>2, RowUpdate
  <2> QED BY <2>1 DEF Due
<1> QED BY <1>1, <1>2

LEMMA UpdateOptsOut ==
  ASSUME OptOutInv, MailInv', NEW s \in Slots, Update(s)
  PROVE  OptOutInv'
<1> USE DEF OptOutInv
<1>1. MailInv /\ TypeOK /\ Busy(s) /\ req[s] \in Request /\ At(s, "Update")
  BY DEF MailInv, TypeOK, Update
<1> PICK d : d = req[s].delivery
  OBVIOUS
<1>2. /\ d \in Deliveries /\ rows[d] # Nil
      /\ req[s].event \in Events /\ req[s].message \in Messages
      /\ StatusOf(req[s].event) \in DeliveryStatus
  BY <1>1, Working, StatusType, EmailAssumption DEF Busy, Request, At
<1>3. CASE faulted' = TRUE
  BY <1>3
<1>4. CASE /\ rows' = Updated(req[s].delivery, StatusOf(req[s].event), req[s].message)
           /\ Goto(s, "Log") /\ UNCHANGED faulted
  <2>1. /\ rows'[d].key = rows[d].key /\ rows'[d].status = StatusOf(req[s].event)
        /\ \A e \in Deliveries \ {d} : rows'[e] = rows[e]
    BY <1>1, <1>2, <1>4, RowUpdate
  <2>2. /\ req'[s].at = "Log" /\ req'[s].delivery = d /\ req'[s].event = req[s].event
        /\ \A t \in Slots \ {s} : req'[t] = req[t]
    BY <1>1, <1>4, GotoMoves DEF Points
  <2>3. UNCHANGED <<optedOut, faulted>>
    BY <1>4 DEF Update
  <2>4. ASSUME NEW e \in Deliveries, Due(e)' PROVE Settled(e)'
    <3>1. CASE e = d
      <4>1. OptsOut(req[s].event)
        BY <2>1, <2>4, <3>1, <1>2, EmailAssumption
           DEF Due, StatusOf, OptsOut, AllEvents
      <4>2. OptingOut(s, d)'
        BY <4>1, <2>2 DEF OptingOut, Handling
      <4> QED BY <3>1, <4>2 DEF Settled
    <3>2. CASE e # d
      <4>1. rows'[e] = rows[e] /\ Due(e)
        BY <2>1, <2>3, <2>4, <3>2 DEF Due
      <4>2. Settled(e)
        BY <4>1 DEF Due, Settled
      <4>3. \A t \in Slots : OptingOut(t, e) => OptingOut(t, e)'
        BY <1>1, <2>2 DEF OptingOut, Handling, At
      <4> QED BY <4>1, <4>2, <4>3, <2>3 DEF Settled
    <3> QED BY <3>1, <3>2
  <2> QED BY <2>4 DEF Due, Settled
<1> QED BY <1>3, <1>4 DEF Update, Fault

\* A bounce that is logged goes on to the opt-out.
LEMMA LogOptsOut ==
  ASSUME OptOutInv, MailInv', NEW s \in Slots, Log(s)
  PROVE  OptOutInv'
<1> USE DEF OptOutInv
<1>1. MailInv /\ TypeOK /\ At(s, "Log")
  BY DEF MailInv, Log
<1>2. CASE faulted' = TRUE
  BY <1>2
<1>3. CASE UNCHANGED faulted /\ ~faulted
  <2> DEFINE next == AfterLog(req[s].event)
  <2>0. next \in {"OptOut", "Count", "Idle"} /\ (OptsOut(req[s].event) => next = "OptOut")
    <3>1. CASE OptsOut(req[s].event)
      BY <3>1 DEF AfterLog, OptsOut
    <3>2. CASE ~OptsOut(req[s].event)
      BY <3>2 DEF AfterLog, OptsOut
    <3> QED BY <3>1, <3>2
  <2> HIDE DEF next
  <2>1. /\ UNCHANGED <<rows, optedOut>>
        /\ IF next = "Idle" THEN End(s) ELSE Goto(s, next)
    BY <1>3 DEF Log, Fault, next
  <2>2. \A t \in Slots \ {s} : req'[t] = req[t]
    BY <1>1, <2>0, <2>1, EndClears, GotoMoves DEF Points
  <2>3. OptsOut(req[s].event) =>
          req'[s].at = "OptOut" /\ req'[s].delivery = req[s].delivery
          /\ req'[s].event = req[s].event
    BY <1>1, <2>0, <2>1, GotoMoves DEF Points
  <2>4. ASSUME NEW t \in Slots, NEW d \in Deliveries, OptingOut(t, d)
        PROVE  OptingOut(t, d)'
    BY <2>2, <2>3, <2>4 DEF OptingOut, Handling
  <2>5. \A d \in Deliveries : Due(d)' => Due(d) /\ rows'[d].key = rows[d].key
    BY <1>3, <2>1 DEF Due
  <2> QED BY <2>1, <2>4, <2>5, OptOutStays
<1> QED BY <1>2, <1>3 DEF Log, Fault, MailInv, TypeOK

\* The opt-out itself: the key of the goroutine's delivery is in.
LEMMA OptOutOptsOut ==
  ASSUME OptOutInv, MailInv', NEW s \in Slots, OptOut(s)
  PROVE  OptOutInv'
<1> USE DEF OptOutInv
<1>1. MailInv /\ TypeOK
  BY DEF MailInv
<1>2. CASE faulted' = TRUE
  BY <1>2
<1>3. CASE UNCHANGED faulted /\ ~faulted
  <2>1. /\ optedOut' = optedOut \cup {rows[req[s].delivery].key}
        /\ End(s) /\ UNCHANGED rows
    BY <1>3 DEF OptOut, Fault
  <2>2. \A t \in Slots \ {s} : req'[t] = req[t]
    BY <1>1, <2>1, EndClears
  <2>3. ASSUME NEW d \in Deliveries, Due(d)' PROVE Settled(d)'
    <3>1. Settled(d)
      BY <1>3, <2>1, <2>3 DEF Due, Settled
    <3>2. CASE OptingOut(s, d)
      BY <2>1, <3>2 DEF OptingOut, Handling, Settled
    <3>3. CASE ~OptingOut(s, d)
      <4>1. \A t \in Slots : OptingOut(t, d) => OptingOut(t, d)'
        BY <2>2, <3>3 DEF OptingOut, Handling
      <4> QED BY <3>1, <4>1, <2>1 DEF Settled
    <3> QED BY <3>2, <3>3
  <2> QED BY <2>3 DEF Due, Settled
<1> QED BY <1>2, <1>3 DEF OptOut, Fault, MailInv, TypeOK

\* Sends, failures, counts and refusals write no bounce and opt nobody in.
LEMMA SendOptsOut ==
  ASSUME OptOutInv, MailInv', NEW s \in Slots,
         \/ Accept(s) \/ Refuse(s) \/ Store(s) \/ StoreFailure(s)
         \/ LogFailure(s) \/ Count(s)
  PROVE  OptOutInv'
<1>1. MailInv /\ TypeOK /\ req[s] \in Request
  BY DEF OptOutInv, MailInv, TypeOK
<1>2. /\ ~At(s, "Log") /\ ~At(s, "OptOut") /\ ~At(s, "Idle")
      /\ optedOut' = optedOut
      /\ faulted' = faulted \/ faulted' = TRUE
  BY DEF Accept, Refuse, Store, StoreFailure, LogFailure, Count, At, Fault
<1>3. \A t \in Slots \ {s} : req'[t] = req[t]
  <2>1. CASE Accept(s)
    BY <1>1, <2>1 DEF Accept, Goto, TypeOK
  <2>2. CASE ~Accept(s)
    BY <1>1, <2>2 DEF Refuse, Store, StoreFailure, LogFailure, Count, Goto, End, TypeOK
  <2> QED BY <2>1, <2>2
<1>4. req[s].delivery \in Deliveries /\ rows[req[s].delivery] # Nil
  BY <1>1, <1>2, Working
<1>5. \A e \in Deliveries : Due(e)' => Due(e) /\ rows'[e].key = rows[e].key
  <2>1. CASE rows' = rows
    BY <1>2, <2>1 DEF Due
  <2>2. CASE rows' # rows
    <3>1. PICK st \in {"submitted", "failed_retryable"},
               m \in {Nil, req[s].message} :
            rows' = Updated(req[s].delivery, st, m)
      BY <2>2 DEF Accept, Refuse, Store, StoreFailure, LogFailure, Count
    <3>2. st \in DeliveryStatus \ {"bounced", "complained"} /\ m \in Messages \cup {Nil}
      BY <1>1 DEF DeliveryStatus, Request
    <3> QED BY <1>1, <1>2, <1>4, <3>1, <3>2, MildStatus
  <2> QED BY <2>1, <2>2
<1>6. \A t \in Slots, d \in Deliveries : OptingOut(t, d) => OptingOut(t, d)'
  BY <1>1, <1>2, <1>3, OptingStays
<1> QED BY <1>2, <1>5, <1>6, OptOutStays

\* A goroutine that starts finds no bounce and has none to opt out.
LEMMA BeginOptsOut ==
  ASSUME OptOutInv, MailInv', NEW s \in Slots,
         Begin(s) \/ \E d \in Deliveries : Wake(s, d)
  PROVE  OptOutInv'
<1>1. MailInv /\ TypeOK
  BY DEF OptOutInv, MailInv
<1> DEFINE Fresh == \E k \in Keys, d \in Deliveries :
                rows' = [rows EXCEPT ![d] =
                           [key |-> k, status |-> "pending", message |-> Nil]]
           Quiet == /\ ~At(s, "Log") /\ ~At(s, "OptOut")
                    /\ optedOut' = optedOut
                    /\ faulted' = faulted \/ faulted' = TRUE
                    /\ \A t \in Slots \ {s} : req'[t] = req[t]
                    /\ rows' = rows \/ Fresh
<1>2. ASSUME NEW k \in Keys, CreateDelivery(s, k) PROVE Quiet
  <2>1. PICK d \in Deliveries :
          /\ rows' = [rows EXCEPT ![d] =
                        [key |-> k, status |-> "pending", message |-> Nil]]
          /\ req' = [req EXCEPT ![s] = [Idle EXCEPT !.op = "Send",
                                          !.at = "Provider", !.delivery = d]]
    BY <1>2, Zenon DEF CreateDelivery
  <2>2. Fresh
    BY <2>1
  <2>3. \A t \in Slots \ {s} : req'[t] = req[t]
    BY <1>1, <2>1 DEF TypeOK, Idle
  <2> QED BY <1>2, <2>2, <2>3 DEF CreateDelivery, Try, At, Idle
<1>3. ASSUME NEW k \in Keys, SkipDuplicate(s, k) PROVE Quiet
  BY <1>3 DEF SkipDuplicate, Try, At
<1>4. ASSUME CreateFails(s) PROVE Quiet
  BY <1>4 DEF CreateFails, Try, At, Fault
<1>5. ASSUME NEW m \in Messages, Unknown(s, m) PROVE Quiet
  BY <1>5 DEF Unknown, Notify, At
<1>6. ASSUME NEW m \in Messages, NEW event \in Events, Lookup(s, m, event) PROVE Quiet
  <2>1. \A t \in Slots \ {s} : req'[t] = req[t]
    BY <1>1, <1>6 DEF Lookup, TypeOK
  <2> QED BY <1>6, <2>1 DEF Lookup, Notify, At
<1>7. ASSUME NEW d \in Deliveries, Wake(s, d) PROVE Quiet
  <2>1. req' = [req EXCEPT ![s] = [Idle EXCEPT !.op = "Retry", !.at = "Provider",
                                                !.delivery = d]]
    BY <1>7, Zenon DEF Wake
  <2>2. \A t \in Slots \ {s} : req'[t] = req[t]
    BY <1>1, <2>1 DEF TypeOK, Idle
  <2>3. At(s, "Idle") /\ UNCHANGED <<rows, optedOut, faulted>>
    BY <1>7, Zenon DEF Wake
  <2> QED BY <2>2, <2>3 DEF At
<1> HIDE DEF Quiet
<1>8. Quiet
  BY <1>2, <1>3, <1>4, <1>5, <1>6, <1>7 DEF Begin
<1>9. \A e \in Deliveries : Due(e)' => Due(e) /\ rows'[e].key = rows[e].key
  <2>1. CASE rows' = rows
    BY <1>8, <2>1 DEF Due, Quiet
  <2>2. CASE Fresh
    <3>1. PICK k \in Keys, d \in Deliveries :
            rows' = [rows EXCEPT ![d] =
                       [key |-> k, status |-> "pending", message |-> Nil]]
      BY <2>2
    <3>2. rows'[d].status = "pending" /\ \A e \in Deliveries \ {d} : rows'[e] = rows[e]
      BY <1>1, <3>1 DEF TypeOK
    <3> QED BY <1>8, <3>2 DEF Due, Quiet
  <2> QED BY <1>8, <2>1, <2>2 DEF Quiet
<1>10. \A t \in Slots, d \in Deliveries : OptingOut(t, d) => OptingOut(t, d)'
  BY <1>1, <1>8, OptingStays DEF Quiet
<1> QED BY <1>8, <1>9, <1>10, OptOutStays DEF Quiet

\* Who opens the mail of a bounced delivery takes the bounce off the row.
LEMMA TrackOpenOptsOut ==
  ASSUME OptOutInv, MailInv', NEW d \in Deliveries, TrackOpen(d)
  PROVE  OptOutInv'
<1>1. MailInv /\ TypeOK /\ rows[d] # Nil
  BY DEF OptOutInv, MailInv, MailHasRow, TrackOpen
<1>2. /\ "opened" \in DeliveryStatus \ {"bounced", "complained"}
      /\ rows' = Updated(d, "opened", Nil) /\ UNCHANGED <<req, optedOut, faulted>>
  BY DEF DeliveryStatus, TrackOpen
<1>3. \A e \in Deliveries : Due(e)' => Due(e) /\ rows'[e].key = rows[e].key
  BY <1>1, <1>2, MildStatus
<1>4. \A t \in Slots, e \in Deliveries : OptingOut(t, e) => OptingOut(t, e)'
  BY <1>2 DEF OptingOut, Handling
<1> QED BY <1>2, <1>3, <1>4, OptOutStays

LEMMA OptOutInit == Init => OptOutInv
<1>1. Init => \A d \in Deliveries : rows[d] = Nil
  BY DEF Init
<1> QED BY <1>1, MailInit DEF OptOutInv

LEMMA OptOutNext == OptOutInv /\ [Next]_vars => OptOutInv'
<1> SUFFICES ASSUME OptOutInv, [Next]_vars PROVE OptOutInv'
  OBVIOUS
<1>1. MailInv'
  BY MailNext DEF OptOutInv
<1>2. ASSUME NEW s \in Slots, Begin(s) PROVE OptOutInv'
  BY <1>1, <1>2, BeginOptsOut
<1>3. ASSUME NEW s \in Slots, Step(s) PROVE OptOutInv'
  BY <1>1, <1>3, SendOptsOut, UpdateOptsOut, LogOptsOut, OptOutOptsOut DEF Step
<1>4. ASSUME NEW d \in Deliveries, Retry(d) PROVE OptOutInv'
  BY <1>1, <1>4, BeginOptsOut DEF Retry
<1>5. ASSUME NEW d \in Deliveries, TrackOpen(d) PROVE OptOutInv'
  BY <1>1, <1>5, TrackOpenOptsOut
<1>6. CASE Crash
  BY <1>1, <1>6 DEF OptOutInv, Crash, Fault
<1>7. CASE UNCHANGED vars
  BY <1>1, <1>7 DEF OptOutInv, OptingOut, Handling, vars
<1> QED BY <1>2, <1>3, <1>4, <1>5, <1>6, <1>7 DEF Next

\* As long as no statement fails and no process dies, a recipient whose delivery
\* shows a bounce or a complaint is opted out once no webhook is at work on it,
\* in whatever order copies of notices, retries and opened mail arrive.
THEOREM BouncesOptOut == Spec => []BouncedOptedOut
<1>1. Spec => []OptOutInv
  BY OptOutInit, OptOutNext, PTL DEF Spec
<1>2. OptOutInv => BouncedOptedOut
  BY DEF OptOutInv, BouncedOptedOut, OptingOut
<1> QED BY <1>1, <1>2, PTL
===============================================================================
