------------------------ MODULE ShippingDispatchProofs ------------------------
(* Proofs about ShippingDispatch, for any number of marks, batches, carriers   *)
(* and concurrent requests, with or without faults; and about ParcelTracking,  *)
(* for any number of parcels, happenings and requests.                         *)
EXTENDS ShippingDispatch, ParcelTracking, SequenceTheorems, FiniteSetTheorems, WellFoundedInduction, TLAPS

\* What the handler of slot s may change in a step that leaves the tables alone:
\* itself.
Local(s) ==
  /\ UNCHANGED <<rows, batches, minted, history>>
  /\ \A t \in Slots \ {s} : req'[t] = req[t] /\ work'[t] = work[t]

\* A handler returning leaves its slot idle and empty.
LEMMA FinishClears ==
  ASSUME TypeOK, NEW s \in Slots, Finish(s)
  PROVE  /\ req' \in [Slots -> Request]
         /\ work' \in [Slots -> [Marks -> Row \cup {Nil}]]
         /\ req'[s] = Idle /\ work'[s] = NoWork
         /\ \A t \in Slots \ {s} : req'[t] = req[t] /\ work'[t] = work[t]
  BY DEF TypeOK, Finish, Idle, NoWork, Request, Points

\* A step of slot s that leaves the tables alone preserves the invariant when
\* what s holds afterwards fits the tables and touches no unpublished mark of
\* another slot.
LEMMA LocalStep ==
  ASSUME DispatchInv, NEW s \in Slots, Local(s),
         req' \in [Slots -> Request],
         work' \in [Slots -> [Marks -> Row \cup {Nil}]],
         HeldIds(s)', CopiesAgree(s)', ProgramPoint(s)',
         req'[s].pc \notin {"insertMark", "announce"},
         \A m \in Marks : /\ req'[s].op = "Close" /\ work'[s][m] # Nil
                          /\ work'[s][m].carrier \in Manual
                          => work'[s][m].ready,
         \A t \in Slots \ {s} : At(t, "insertMark") =>
           req'[s].mark # req[t].mark /\ work'[s][req[t].mark] = Nil
  PROVE  DispatchInv'
<1>1. TypeOK'
  BY DEF DispatchInv, TypeOK, Local, history
<1>2. TablesInv'
  BY DEF DispatchInv, TablesInv, KnownIds, CarrierAgreement, AcceptanceBacked,
         ClosedAnnouncedOnce, NoResurrection, InBatch, Local, history
<1>3. ManualDraftsComplete'
  BY DEF DispatchInv, ManualDraftsComplete, Local
<1>4. ASSUME NEW t \in Slots PROVE HandlerInv(t)'
  <2>1. CASE t = s
    BY <2>1 DEF HandlerInv, PrivateUntilInserted, OneAnnouncer, At
  <2>2. CASE t # s
    <3>1. HeldIds(t)' /\ CopiesAgree(t)' /\ ProgramPoint(t)'
      BY <2>2 DEF DispatchInv, HandlerInv, HeldIds, CopiesAgree, ProgramPoint,
                  At, Local, history
    <3>2. PrivateUntilInserted(t)'
      BY <2>2, SMTT(30) DEF DispatchInv, HandlerInv, PrivateUntilInserted, At, Local, history
    <3>3. OneAnnouncer(t)'
      BY <2>2 DEF DispatchInv, HandlerInv, OneAnnouncer, At, Local, history
    <3> QED BY <3>1, <3>2, <3>3 DEF HandlerInv
  <2> QED BY <2>1, <2>2
<1> QED BY <1>1, <1>2, <1>3, <1>4 DEF DispatchInv

-----------------------------------------------------------------------------
(* Steps that only move one handler. *)

LEMMA FinishStep ==
  ASSUME DispatchInv, NEW s \in Slots, Finish(s),
         UNCHANGED <<rows, batches, minted, history>>
  PROVE  DispatchInv'
<1>1. TypeOK
  BY DEF DispatchInv
<1>2. /\ req' \in [Slots -> Request]
      /\ work' \in [Slots -> [Marks -> Row \cup {Nil}]]
      /\ req'[s] = Idle /\ work'[s] = NoWork
      /\ Local(s)
  BY <1>1, FinishClears DEF Local
<1>3. /\ HeldIds(s)' /\ CopiesAgree(s)' /\ ProgramPoint(s)'
  BY <1>2, DispatchAssumption DEF HeldIds, CopiesAgree, ProgramPoint, At, Idle, NoWork
<1>4. \A t \in Slots \ {s} : At(t, "insertMark") =>
        req'[s].mark # req[t].mark /\ work'[s][req[t].mark] = Nil
  BY <1>1, <1>2, DispatchAssumption
     DEF DispatchInv, TypeOK, Request, HandlerInv, ProgramPoint, Idle, NoWork, At
<1>5. /\ req'[s].pc = "idle"
      /\ \A m \in Marks : work'[s][m] = Nil
  BY <1>2 DEF Idle, NoWork
<1> QED BY <1>2, <1>3, <1>4, <1>5, LocalStep

\* A request that arrives with no mark and no copy.
LEMMA PlainBegin ==
  ASSUME DispatchInv, NEW s \in Slots, NEW o \in Operations,
         NEW p \in {"insertBatch", "findActive", "loadBatch", "listMarks"},
         NEW b \in Batches \cup {Nil}, NEW ord \in Orders \cup {Nil},
         NEW q \in Quotes \cup {Nil}, NEW c \in Carriers \cup {Nil},
         Begin(s, o, p, b, ord, q, c, Nil),
         p = "insertBatch" => c # Nil,
         p # "insertBatch" => b # Nil /\ batches[b] # Nil,
         p \in {"findActive", "loadBatch"} => ord # Nil,
         p = "listMarks" <=> o = "Close",
         UNCHANGED <<rows, batches, work, minted, history>>
  PROVE  DispatchInv'
<1>1. TypeOK /\ HandlerInv(s)
  BY DEF DispatchInv
<1>2. /\ At(s, "idle")
      /\ req' \in [Slots -> Request]
      /\ req'[s] = [pc |-> p, op |-> o, batch |-> b, order |-> ord, quote |-> q,
                    carrier |-> c, mark |-> Nil, err |-> "none"]
      /\ Local(s)
  BY <1>1 DEF TypeOK, Begin, Request, Points, At, Local
<1>3. work'[s] = NoWork
  BY <1>1, <1>2 DEF HandlerInv, ProgramPoint
<1>4. HeldIds(s)' /\ CopiesAgree(s)' /\ ProgramPoint(s)'
  BY <1>2, <1>3, DispatchAssumption DEF HeldIds, CopiesAgree, ProgramPoint, At, NoWork, Local
<1>5. \A t \in Slots \ {s} : At(t, "insertMark") =>
        req'[s].mark # req[t].mark /\ work'[s][req[t].mark] = Nil
  BY <1>1, <1>2, <1>3, DispatchAssumption
     DEF DispatchInv, TypeOK, Request, HandlerInv, ProgramPoint, NoWork, At
<1>6. work' \in [Slots -> [Marks -> Row \cup {Nil}]]
  BY <1>1 DEF TypeOK
<1>7. \A m \in Marks : work'[s][m] = Nil
  BY <1>3 DEF NoWork
<1> QED BY <1>2, <1>4, <1>5, <1>6, <1>7, LocalStep

\* A request that arrives with a mark of the table, and a copy of it or none.
LEMMA MarkBegin ==
  ASSUME DispatchInv, NEW s \in Slots, NEW o \in Operations \ {"Close"},
         NEW p \in {"carrier", "delete", "loadDraft", "save"},
         NEW b \in Batches \cup {Nil}, NEW ord \in Orders \cup {Nil},
         NEW q \in Quotes \cup {Nil}, NEW m \in Marks,
         Begin(s, o, p, b, ord, q, Nil, m),
         rows[m] # Nil,
         p \in {"carrier", "loadDraft"} => b # Nil /\ batches[b] # Nil,
         UNCHANGED <<rows, batches, minted, history>>,
         NEW copy \in Row \cup {Nil},
         work' = [work EXCEPT ![s][m] = copy],
         p = "save" => copy # Nil,
         copy # Nil => copy = rows[m] \/ copy = [rows[m] EXCEPT !.status = "VOIDED"]
  PROVE  DispatchInv'
<1>1. TypeOK /\ TablesInv /\ HandlerInv(s) /\ rows[m] \in Row
  BY DEF DispatchInv, TypeOK
<1>2. /\ At(s, "idle")
      /\ req' \in [Slots -> Request]
      /\ req'[s] = [pc |-> p, op |-> o, batch |-> b, order |-> ord, quote |-> q,
                    carrier |-> Nil, mark |-> m, err |-> "none"]
      /\ \A t \in Slots \ {s} : req'[t] = req[t]
  BY <1>1 DEF TypeOK, Begin, Request, Points, At
<1>3. work[s] = NoWork
  BY <1>1, <1>2 DEF HandlerInv, ProgramPoint
<1>4. /\ work' \in [Slots -> [Marks -> Row \cup {Nil}]]
      /\ work'[s] = [n \in Marks |-> IF n = m THEN copy ELSE Nil]
      /\ Local(s)
  BY <1>1, <1>2, <1>3 DEF TypeOK, NoWork, Local
<1>5. HeldIds(s)'
  BY <1>1, <1>2, <1>4 DEF HeldIds, TablesInv, KnownIds
<1>6. CopiesAgree(s)'
  BY <1>1, <1>4 DEF CopiesAgree, TablesInv, CarrierAgreement, AcceptanceBacked,
                    InBatch, Row, history, TypeOK
<1>7. ProgramPoint(s)'
  BY <1>2, <1>4, DispatchAssumption DEF ProgramPoint, At
<1>8. \A t \in Slots \ {s} : At(t, "insertMark") =>
        req'[s].mark # req[t].mark /\ work'[s][req[t].mark] = Nil
  BY <1>1, <1>2, <1>4 DEF DispatchInv, TypeOK, Request, HandlerInv, ProgramPoint,
                          PrivateUntilInserted, At
<1>9. req'[s].pc \notin {"insertMark", "announce"} /\ req'[s].op # "Close"
  BY <1>2
<1> QED BY <1>2, <1>4, <1>5, <1>6, <1>7, <1>8, <1>9, LocalStep

LEMMA CreateBatchKeeps ==
  ASSUME DispatchInv, NEW s \in Slots, NEW c \in Carriers, CreateBatch(s, c)
  PROVE  DispatchInv'
  BY PlainBegin, DispatchAssumption DEF CreateBatch, Operations

LEMMA DraftMarkKeeps ==
  ASSUME DispatchInv, NEW s \in Slots, NEW b \in Batches, NEW o \in Orders,
         NEW q \in Quotes \cup {Nil}, DraftMark(s, b, o, q)
  PROVE  DispatchInv'
  BY PlainBegin, DispatchAssumption DEF DraftMark, Operations, IsOpen

LEMMA QuoteMarkKeeps ==
  ASSUME DispatchInv, NEW s \in Slots, NEW b \in Batches, NEW o \in Orders,
         NEW q \in Quotes, QuoteMark(s, b, o, q)
  PROVE  DispatchInv'
  BY PlainBegin, DispatchAssumption DEF QuoteMark, Operations

LEMMA CloseKeeps ==
  ASSUME DispatchInv, NEW s \in Slots, NEW b \in Batches, Close(s, b)
  PROVE  DispatchInv'
  BY PlainBegin, DispatchAssumption DEF Close, Operations, IsOpen

\* An idle slot holds no copies.
LEMMA IdleHoldsNothing ==
  ASSUME DispatchInv, NEW s \in Slots, At(s, "idle"), NEW m \in Marks
  PROVE  work = [work EXCEPT ![s][m] = Nil]
<1>1. work[s] = [n \in Marks |-> Nil] /\ work \in [Slots -> [Marks -> Row \cup {Nil}]]
  BY DEF DispatchInv, HandlerInv, ProgramPoint, NoWork, TypeOK
<1> QED BY <1>1

LEMMA DirectMarkKeeps ==
  ASSUME DispatchInv, NEW s \in Slots, NEW b \in Batches, NEW o \in Orders,
         NEW q \in Quotes, DirectMark(s, b, o, q)
  PROVE  DispatchInv'
<1>1. CASE /\ Begin(s, "DirectMark", "loadBatch", b, o, q, Nil, Nil)
           /\ UNCHANGED work
  BY <1>1, PlainBegin, DispatchAssumption DEF DirectMark, Operations
<1>2. CASE \E m \in Existing(b, o, q) :
             /\ rows[m].status = "QUOTED"
             /\ Begin(s, "DirectMark", "carrier", b, o, q, Nil, m)
             /\ work' = [work EXCEPT ![s][m] = rows[m]]
  <2>1. PICK m \in Marks :
          /\ rows[m] # Nil
          /\ Begin(s, "DirectMark", "carrier", b, o, q, Nil, m)
          /\ work' = [work EXCEPT ![s][m] = rows[m]]
    BY <1>2 DEF Existing, Candidates, InBatch
  <2>2. rows[m] \in Row
    BY <2>1 DEF DispatchInv, TypeOK
  <2>3. /\ UNCHANGED <<rows, batches, minted, history>>
        /\ b # Nil /\ batches[b] # Nil
        /\ "DirectMark" \in Operations \ {"Close"}
    BY DispatchAssumption DEF DirectMark, Operations
  <2> QED BY <2>1, <2>2, <2>3, MarkBegin
<1> QED BY <1>1, <1>2 DEF DirectMark

LEMMA RemoveDraftMarkKeeps ==
  ASSUME DispatchInv, NEW s \in Slots, NEW m \in Marks, RemoveDraftMark(s, m)
  PROVE  DispatchInv'
<1>1. /\ Begin(s, "RemoveDraftMark", "delete", Nil, Nil, Nil, Nil, m)
      /\ rows[m] # Nil
      /\ UNCHANGED <<rows, batches, minted, history>>
      /\ "RemoveDraftMark" \in Operations \ {"Close"}
  BY DEF RemoveDraftMark, Operations
<1>2. work' = [work EXCEPT ![s][m] = Nil]
  BY <1>1, IdleHoldsNothing DEF RemoveDraftMark, Begin, At
<1>3. Nil \in Row \cup {Nil}
  OBVIOUS
<1> QED BY <1>1, <1>2, <1>3, MarkBegin

LEMMA UpdateDraftMarkKeeps ==
  ASSUME DispatchInv, NEW s \in Slots, NEW b \in Batches, NEW m \in Marks,
         UpdateDraftMark(s, b, m)
  PROVE  DispatchInv'
<1>1. /\ Begin(s, "UpdateDraftMark", "loadDraft", b, Nil, Nil, Nil, m)
      /\ rows[m] # Nil
      /\ b # Nil /\ batches[b] # Nil
      /\ UNCHANGED <<rows, batches, minted, history>>
      /\ "UpdateDraftMark" \in Operations \ {"Close"}
  BY DispatchAssumption DEF UpdateDraftMark, Operations, IsOpen
<1>2. work' = [work EXCEPT ![s][m] = Nil]
  BY <1>1, IdleHoldsNothing DEF UpdateDraftMark, Begin, At
<1>3. Nil \in Row \cup {Nil}
  OBVIOUS
<1> QED BY <1>1, <1>2, <1>3, MarkBegin

LEMMA VoidKeeps ==
  ASSUME DispatchInv, NEW s \in Slots, NEW m \in Marks, Void(s, m)
  PROVE  DispatchInv'
<1> DEFINE copy == [rows[m] EXCEPT !.status = "VOIDED"]
<1>1. /\ Begin(s, "Void", "save", Nil, Nil, Nil, Nil, m)
      /\ rows[m] # Nil
      /\ UNCHANGED <<rows, batches, minted, history>>
      /\ work' = [work EXCEPT ![s][m] = copy]
      /\ "Void" \in Operations \ {"Close"}
  BY DEF Void, Operations
<1>2. copy \in Row /\ copy # Nil
  BY <1>1, NilAssumption DEF DispatchInv, TypeOK, Row, MarkStatus
<1> HIDE DEF copy
<1>3. copy = [rows[m] EXCEPT !.status = "VOIDED"]
  BY DEF copy
<1> QED BY <1>1, <1>2, <1>3, MarkBegin

LEMMA FailKeeps ==
  ASSUME DispatchInv, NEW s \in Slots, Fail(s)
  PROVE  DispatchInv'
  BY FinishStep DEF Fail

-----------------------------------------------------------------------------
(* A handler goes on without touching the tables. *)

\* Moving a handler to another program point changes nothing else of it.
LEMMA GotoMoves ==
  ASSUME TypeOK, NEW s \in Slots, NEW p \in Points, Goto(s, p)
  PROVE  /\ req' \in [Slots -> Request]
         /\ req'[s].pc = p /\ req'[s].op = req[s].op /\ req'[s].batch = req[s].batch
         /\ req'[s].order = req[s].order /\ req'[s].quote = req[s].quote
         /\ req'[s].carrier = req[s].carrier /\ req'[s].mark = req[s].mark
         /\ \A t \in Slots \ {s} : req'[t] = req[t]
<1>1. req[s] \in Request
  BY DEF TypeOK
<1>2. [req[s] EXCEPT !.pc = p] \in Request
  BY <1>1 DEF Request
<1>3. req' = [req EXCEPT ![s] = [req[s] EXCEPT !.pc = p]]
  BY DEF Goto
<1>4. req'[s] = [req[s] EXCEPT !.pc = p]
  BY <1>3 DEF TypeOK
<1>5. /\ req'[s].pc = p /\ req'[s].op = req[s].op /\ req'[s].batch = req[s].batch
      /\ req'[s].order = req[s].order /\ req'[s].quote = req[s].quote
      /\ req'[s].carrier = req[s].carrier /\ req'[s].mark = req[s].mark
  BY <1>1, <1>4 DEF Request
<1>6. /\ req' \in [Slots -> Request]
      /\ \A t \in Slots \ {s} : req'[t] = req[t]
  BY <1>2, <1>3 DEF TypeOK
<1> QED BY <1>5, <1>6

LEMMA GotoStep ==
  ASSUME DispatchInv, NEW s \in Slots, NEW p \in Points \ {"insertMark", "announce"},
         Goto(s, p), ProgramPoint(s)',
         UNCHANGED <<rows, batches, work, minted, history>>
  PROVE  DispatchInv'
<1>1. TypeOK /\ HandlerInv(s)
  BY DEF DispatchInv
<1>2. /\ work' \in [Slots -> [Marks -> Row \cup {Nil}]]
      /\ work'[s] = work[s]
  BY <1>1 DEF TypeOK
<1>3. /\ req' \in [Slots -> Request]
      /\ req'[s].pc = p /\ req'[s].op = req[s].op /\ req'[s].mark = req[s].mark
      /\ Local(s)
  BY <1>1, GotoMoves DEF Local
<1>4. HeldIds(s)' /\ CopiesAgree(s)'
  BY <1>1, <1>2, <1>3 DEF HandlerInv, HeldIds, CopiesAgree, Local, history
<1>5. \A m \in Marks : /\ req'[s].op = "Close" /\ work'[s][m] # Nil
                       /\ work'[s][m].carrier \in Manual
                       => work'[s][m].ready
  BY <1>2, <1>3 DEF DispatchInv, ManualDraftsComplete
<1>6. \A t \in Slots \ {s} : At(t, "insertMark") =>
        req'[s].mark # req[t].mark /\ work'[s][req[t].mark] = Nil
  BY <1>2, <1>3 DEF DispatchInv, HandlerInv, PrivateUntilInserted
<1> QED BY <1>2, <1>3, <1>4, <1>5, <1>6, LocalStep

LEMMA LoadBatchKeeps ==
  ASSUME DispatchInv, NEW s \in Slots, LoadBatch(s)
  PROVE  DispatchInv'
<1>1. TypeOK /\ HandlerInv(s) /\ UNCHANGED <<rows, batches, minted, history>>
  BY DEF DispatchInv, LoadBatch
<1>2. CASE Finish(s)
  BY <1>1, <1>2, FinishStep
<1>3. ASSUME NEW p \in {"createMark", "findActive"}, Goto(s, p), UNCHANGED work
      PROVE  DispatchInv'
  <2>1. ProgramPoint(s)'
    BY <1>1, <1>3 DEF HandlerInv, ProgramPoint, LoadBatch, Goto, At, TypeOK, Request
  <2> QED BY <1>1, <1>3, <2>1, GotoStep DEF Points
<1> QED BY <1>2, <1>3 DEF LoadBatch

LEMMA FindActiveKeeps ==
  ASSUME DispatchInv, NEW s \in Slots, FindActive(s)
  PROVE  DispatchInv'
<1>1. TypeOK /\ HandlerInv(s) /\ UNCHANGED <<rows, batches, minted, history>>
  BY DEF DispatchInv, FindActive
<1>2. CASE Finish(s)
  BY <1>1, <1>2, FinishStep
<1>3. CASE Goto(s, "createMark") /\ UNCHANGED work
  <2>1. ProgramPoint(s)'
    BY <1>1, <1>3 DEF HandlerInv, ProgramPoint, FindActive, Goto, At, TypeOK, Request
  <2> QED BY <1>1, <1>3, <2>1, GotoStep DEF Points
<1> QED BY <1>2, <1>3 DEF FindActive

LEMMA ListMarksKeeps ==
  ASSUME DispatchInv, NEW s \in Slots, ListMarks(s)
  PROVE  DispatchInv'
<1> DEFINE b == req[s].batch
<1>1. /\ TypeOK /\ HandlerInv(s) /\ TablesInv
      /\ UNCHANGED <<rows, batches, minted, history>>
      /\ At(s, "listMarks")
  BY DEF DispatchInv, ListMarks
<1>2. CASE Finish(s)
  BY <1>1, <1>2, FinishStep
<1>3. CASE /\ batches[b].carrier \in Manual => \A m \in Drafts(b) : rows[m].ready
           /\ work' = [work EXCEPT ![s] =
                         [m \in Marks |-> IF m \in Drafts(b) THEN rows[m] ELSE Nil]]
           /\ Goto(s, IF Drafts(b) = {} THEN "closeBatch" ELSE "carrier")
  <2>1. PICK p \in {"closeBatch", "carrier"} : Goto(s, p)
    BY <1>3
  <2>2. /\ req' \in [Slots -> Request]
        /\ work' \in [Slots -> [Marks -> Row \cup {Nil}]]
        /\ req'[s].pc = p /\ req'[s].op = req[s].op
        /\ req'[s].mark = req[s].mark /\ req'[s].batch = b
        /\ \A m \in Marks : work'[s][m] = IF m \in Drafts(b) THEN rows[m] ELSE Nil
        /\ Local(s)
    <3>1. /\ req' \in [Slots -> Request]
          /\ req'[s].pc = p /\ req'[s].op = req[s].op
          /\ req'[s].mark = req[s].mark /\ req'[s].batch = b
          /\ \A t \in Slots \ {s} : req'[t] = req[t]
      BY <1>1, <2>1, GotoMoves DEF Points
    <3>2. /\ work' \in [Slots -> [Marks -> Row \cup {Nil}]]
          /\ \A m \in Marks : work'[s][m] = IF m \in Drafts(b) THEN rows[m] ELSE Nil
          /\ \A t \in Slots \ {s} : work'[t] = work[t]
      BY <1>1, <1>3 DEF TypeOK
    <3> QED BY <1>1, <3>1, <3>2 DEF Local
  <2>3. HeldIds(s)'
    BY <1>1, <2>2 DEF HandlerInv, HeldIds, TablesInv, KnownIds, Drafts, InBatch
  <2>4. CopiesAgree(s)'
    BY <1>1, <2>2 DEF CopiesAgree, TablesInv, CarrierAgreement, AcceptanceBacked,
                      Drafts, InBatch, history, TypeOK, Row
  <2>5. ProgramPoint(s)'
    BY <1>1, <2>2 DEF HandlerInv, ProgramPoint, At
  <2>6. \A m \in Marks : /\ req'[s].op = "Close" /\ work'[s][m] # Nil
                         /\ work'[s][m].carrier \in Manual
                         => work'[s][m].ready
    <3>1. b \in Batches
      BY <1>1 DEF TypeOK, Request, HandlerInv, ProgramPoint, At
    <3> QED BY <1>1, <1>3, <2>2, <3>1
               DEF TablesInv, CarrierAgreement, Drafts, InBatch
  <2>7. \A t \in Slots \ {s} : At(t, "insertMark") =>
          req'[s].mark # req[t].mark /\ work'[s][req[t].mark] = Nil
    BY <1>1, <2>2 DEF DispatchInv, HandlerInv, PrivateUntilInserted, ProgramPoint,
                      TypeOK, Request, Drafts, InBatch, At
  <2> QED BY <2>2, <2>3, <2>4, <2>5, <2>6, <2>7, LocalStep
<1> QED BY <1>2, <1>3 DEF ListMarks

LEMMA LoadDraftKeeps ==
  ASSUME DispatchInv, NEW s \in Slots, LoadDraft(s)
  PROVE  DispatchInv'
<1> DEFINE m == req[s].mark
<1>1. /\ TypeOK /\ HandlerInv(s) /\ TablesInv
      /\ UNCHANGED <<rows, batches, minted, history>>
      /\ At(s, "loadDraft")
  BY DEF DispatchInv, LoadDraft
<1>2. CASE Finish(s)
  BY <1>1, <1>2, FinishStep
<1>3. CASE /\ m \in Drafts(req[s].batch)
           /\ \E r \in BOOLEAN :
                work' = [work EXCEPT ![s][m] = [rows[m] EXCEPT !.ready = r]]
           /\ Goto(s, "save")
  <2>1. PICK r \in BOOLEAN :
          work' = [work EXCEPT ![s][m] = [rows[m] EXCEPT !.ready = r]]
    BY <1>3
  <2>2. /\ m \in Marks /\ rows[m] \in Row
    BY <1>1, <1>3 DEF Drafts, InBatch, TypeOK
  <2> DEFINE copy == [rows[m] EXCEPT !.ready = r]
  <2>3. /\ copy \in Row /\ copy # Nil
        /\ copy.carrier = rows[m].carrier /\ copy.batch = rows[m].batch
        /\ copy.status = "QUOTED"
    BY <1>3, <2>2, NilAssumption DEF Row, Drafts
  <2> HIDE DEF copy
  <2>4. /\ req' \in [Slots -> Request]
        /\ work' \in [Slots -> [Marks -> Row \cup {Nil}]]
        /\ req'[s].pc = "save" /\ req'[s].op = req[s].op
        /\ req'[s].mark = m /\ req'[s].batch = req[s].batch
        /\ \A n \in Marks : work'[s][n] = IF n = m THEN copy ELSE work[s][n]
        /\ Local(s)
    <3>1. /\ req' \in [Slots -> Request]
          /\ req'[s].pc = "save" /\ req'[s].op = req[s].op
          /\ req'[s].mark = m /\ req'[s].batch = req[s].batch
          /\ \A t \in Slots \ {s} : req'[t] = req[t]
      BY <1>1, <1>3, GotoMoves DEF Points
    <3>2. work' = [work EXCEPT ![s][m] = copy]
      BY <2>1 DEF copy
    <3>3. /\ work' \in [Slots -> [Marks -> Row \cup {Nil}]]
          /\ \A n \in Marks : work'[s][n] = IF n = m THEN copy ELSE work[s][n]
          /\ \A t \in Slots \ {s} : work'[t] = work[t]
      BY <1>1, <2>2, <2>3, <3>2 DEF TypeOK
    <3> QED BY <1>1, <3>1, <3>3 DEF Local
  <2>5. HeldIds(s)'
    BY <1>1, <2>2, <2>4 DEF HandlerInv, HeldIds
  <2>6. CopiesAgree(s)'
    BY <1>1, <1>3, <2>2, <2>3, <2>4
       DEF HandlerInv, CopiesAgree, TablesInv, CarrierAgreement, Drafts, InBatch,
           history, TypeOK, Row
  <2>7. ProgramPoint(s)'
    BY <1>1, <2>2, <2>3, <2>4 DEF HandlerInv, ProgramPoint, At
  <2>8. \A n \in Marks : /\ req'[s].op = "Close" /\ work'[s][n] # Nil
                         /\ work'[s][n].carrier \in Manual
                         => work'[s][n].ready
    BY <1>1, <2>4 DEF HandlerInv, ProgramPoint, At
  <2>9. \A t \in Slots \ {s} : At(t, "insertMark") =>
          req'[s].mark # req[t].mark /\ work'[s][req[t].mark] = Nil
    BY <1>1, <2>2, <2>4, SMTT(30) DEF DispatchInv, HandlerInv, PrivateUntilInserted, ProgramPoint,
                            TypeOK, Request, At
  <2> QED BY <2>4, <2>5, <2>6, <2>7, <2>8, <2>9, LocalStep
<1> QED BY <1>2, <1>3 DEF LoadDraft

\* A handler that has dealt with mark m keeps at most the copies it had, without
\* m's, and is a Close unless it is done.
LEMMA AfterMarkMoves ==
  ASSUME TypeOK, NEW s \in Slots, ProgramPoint(s), NEW m \in Marks, AfterMark(s, m),
         req[s].pc \in {"carrier", "persist"}
  PROVE  /\ req' \in [Slots -> Request]
         /\ work' \in [Slots -> [Marks -> Row \cup {Nil}]]
         /\ \A t \in Slots \ {s} : req'[t] = req[t] /\ work'[t] = work[t]
         /\ req'[s].mark = Nil
         /\ \A n \in Marks : work'[s][n] # Nil => work'[s][n] = work[s][n]
         /\ req'[s].op = "Close" => req[s].op = "Close"
         /\ \/ req'[s] = Idle /\ work'[s] = NoWork
            \/ /\ req'[s].pc \in {"closeBatch", "carrier"}
               /\ req'[s].batch = req[s].batch
<1>1. CASE Finish(s)
  <2>1. Nil # "Close"
    BY DispatchAssumption DEF Operations
  <2>2. req'[s] = Idle /\ work'[s] = NoWork
    BY <1>1, FinishClears
  <2> QED BY <1>1, <2>1, <2>2, FinishClears DEF Idle, NoWork
<1>2. ASSUME NEW p \in {"closeBatch", "carrier"},
             work' = [work EXCEPT ![s][m] = Nil],
             req' = [req EXCEPT ![s].pc = p, ![s].mark = Nil, ![s].err = "none"]
      PROVE  /\ req' \in [Slots -> Request]
             /\ work' \in [Slots -> [Marks -> Row \cup {Nil}]]
             /\ \A t \in Slots \ {s} : req'[t] = req[t] /\ work'[t] = work[t]
             /\ req'[s].mark = Nil
             /\ \A n \in Marks : work'[s][n] # Nil => work'[s][n] = work[s][n]
             /\ req'[s].op = req[s].op
             /\ req'[s].pc = p /\ req'[s].batch = req[s].batch
  <2> DEFINE r == [req[s] EXCEPT !.pc = p, !.mark = Nil, !.err = "none"]
  <2>1. /\ r \in Request
        /\ r.pc = p /\ r.mark = Nil /\ r.op = req[s].op /\ r.batch = req[s].batch
    BY ZenonT(60) DEF TypeOK, Request, Points
  <2>2. req' = [req EXCEPT ![s] = r]
    BY <1>2
  <2> HIDE DEF r
  <2>3. /\ req' \in [Slots -> Request] /\ req'[s] = r
        /\ \A t \in Slots \ {s} : req'[t] = req[t]
    BY <2>1, <2>2 DEF TypeOK
  <2>4. /\ work' \in [Slots -> [Marks -> Row \cup {Nil}]]
        /\ \A n \in Marks : work'[s][n] = IF n = m THEN Nil ELSE work[s][n]
        /\ \A t \in Slots \ {s} : work'[t] = work[t]
    BY <1>2 DEF TypeOK
  <2> QED BY <2>1, <2>3, <2>4
<1> QED BY <1>1, <1>2 DEF AfterMark

LEMMA AfterMarkStep ==
  ASSUME DispatchInv, NEW s \in Slots, NEW m \in Marks, AfterMark(s, m),
         req[s].pc \in {"carrier", "persist"},
         UNCHANGED <<rows, batches, minted, history>>
  PROVE  DispatchInv'
<1>1. TypeOK /\ HandlerInv(s) /\ ProgramPoint(s)
  BY DEF DispatchInv, HandlerInv
<1>2. /\ req' \in [Slots -> Request]
      /\ work' \in [Slots -> [Marks -> Row \cup {Nil}]]
      /\ Local(s)
      /\ req'[s].mark = Nil
      /\ \A n \in Marks : work'[s][n] # Nil => work'[s][n] = work[s][n]
      /\ req'[s].op = "Close" => req[s].op = "Close"
      /\ \/ req'[s] = Idle /\ work'[s] = NoWork
         \/ /\ req'[s].pc \in {"closeBatch", "carrier"}
            /\ req'[s].batch = req[s].batch
  BY <1>1, AfterMarkMoves DEF Local
<1>3. HeldIds(s)'
  BY <1>1, <1>2, DispatchAssumption DEF HandlerInv, HeldIds
<1>4. CopiesAgree(s)'
  BY <1>1, <1>2 DEF HandlerInv, CopiesAgree, Local, history
<1>5. ProgramPoint(s)'
  BY <1>1, <1>2 DEF ProgramPoint, At, Idle
<1>6. req'[s].pc \notin {"insertMark", "announce"}
  BY <1>2 DEF Idle
<1>7. \A n \in Marks : /\ req'[s].op = "Close" /\ work'[s][n] # Nil
                       /\ work'[s][n].carrier \in Manual
                       => work'[s][n].ready
  BY <1>2 DEF DispatchInv, ManualDraftsComplete
<1>8. \A t \in Slots \ {s} : At(t, "insertMark") =>
        req'[s].mark # req[t].mark /\ work'[s][req[t].mark] = Nil
  BY <1>1, <1>2 DEF DispatchInv, HandlerInv, PrivateUntilInserted, ProgramPoint, TypeOK,
                    Request, At
<1> QED BY <1>2, <1>3, <1>4, <1>5, <1>6, <1>7, <1>8, LocalStep

LEMMA SkipMarkKeeps ==
  ASSUME DispatchInv, NEW s \in Slots, SkipMark(s)
  PROVE  DispatchInv'
  BY AfterMarkStep DEF SkipMark, At

LEMMA PersistFailsKeeps ==
  ASSUME DispatchInv, NEW s \in Slots, PersistFails(s)
  PROVE  DispatchInv'
<1>1. req[s].mark \in Marks
  BY DEF DispatchInv, HandlerInv, ProgramPoint, TypeOK, Request, PersistFails, At
<1> QED BY <1>1, AfterMarkStep DEF PersistFails, At

-----------------------------------------------------------------------------
(* Steps that write a table. *)

\* What no step may do to the tables: forget identifiers or acceptances, or take
\* back a batch, its carrier or its closing.
TablesGrow ==
  /\ minted \subseteq minted'
  /\ \A m \in Marks : accepted'[m] >= accepted[m]
  /\ \A b \in Batches : batches[b] # Nil =>
       /\ batches'[b] # Nil
       /\ batches'[b].carrier = batches[b].carrier
       /\ batches[b].status = "CLOSED" => batches'[b].status = "CLOSED"

\* What a step of slot s leaves to another slot t: its memory, the carrier of the
\* rows it holds, the mark it has not inserted and the batch it will announce.
Respects(s, t) ==
  /\ req'[t] = req[t] /\ work'[t] = work[t]
  /\ \A m \in Marks : work[t][m] # Nil /\ rows'[m] # Nil
                      => rows'[m].carrier = work[t][m].carrier
  /\ At(t, "insertMark") =>
       /\ rows'[req[t].mark] = Nil
       /\ req[t].mark \notin removed'
       /\ req'[s].mark # req[t].mark
       /\ work'[s][req[t].mark] = Nil
  /\ At(t, "announce") =>
       /\ announced'[req[t].batch] = 0
       /\ req'[s].pc = "announce" => req'[s].batch # req[t].batch

LEMMA TableStep ==
  ASSUME DispatchInv, NEW s \in Slots, TypeOK', TablesInv', HandlerInv(s)',
         TablesGrow, \A t \in Slots \ {s} : Respects(s, t),
         \A m \in Marks : /\ req'[s].op = "Close" /\ work'[s][m] # Nil
                          /\ work'[s][m].carrier \in Manual
                          => work'[s][m].ready
  PROVE  DispatchInv'
<1>1. TypeOK
  BY DEF DispatchInv
<1>2. ManualDraftsComplete'
  BY DEF DispatchInv, ManualDraftsComplete, Respects
<1>3. ASSUME NEW t \in Slots \ {s} PROVE HandlerInv(t)'
  <2>1. /\ HandlerInv(t)
        /\ req'[t] = req[t] /\ work'[t] = work[t]
        /\ req[t] \in Request
        /\ work[t] \in [Marks -> Row \cup {Nil}]
    BY <1>1 DEF DispatchInv, Respects, TypeOK
  <2>2. HeldIds(t)'
    BY <2>1 DEF HandlerInv, HeldIds, TablesGrow
  <2>3. CopiesAgree(t)'
    <3> SUFFICES ASSUME NEW m \in Marks, work[t][m] # Nil
                 PROVE  /\ work[t][m].status \in {"CREATED", "GENERATED"}
                             /\ work[t][m].carrier \notin Manual => accepted'[m] > 0
                        /\ work[t][m].batch # Nil =>
                             /\ batches'[work[t][m].batch] # Nil
                             /\ batches'[work[t][m].batch].carrier = work[t][m].carrier
                        /\ rows'[m] # Nil => rows'[m].carrier = work[t][m].carrier
      BY <2>1 DEF CopiesAgree
    <3>1. work[t][m].status \in {"CREATED", "GENERATED"}
            /\ work[t][m].carrier \notin Manual => accepted'[m] > 0
      <4>1. accepted[m] \in Nat /\ accepted'[m] \in Nat /\ accepted'[m] >= accepted[m]
        BY <1>1 DEF TypeOK, TablesGrow
      <4> QED BY <2>1, <4>1 DEF HandlerInv, CopiesAgree
    <3>2. work[t][m].batch \in Batches \cup {Nil}
      BY <2>1 DEF Row
    <3>3. work[t][m].batch # Nil =>
            /\ batches'[work[t][m].batch] # Nil
            /\ batches'[work[t][m].batch].carrier = work[t][m].carrier
      BY <2>1, <3>2 DEF HandlerInv, CopiesAgree, TablesGrow
    <3> QED BY <3>1, <3>3 DEF Respects
  <2>4. ProgramPoint(t)'
    <3>1. req[t].batch \in Batches \cup {Nil}
      BY <2>1 DEF Request
    <3>2. /\ req[t].batch # Nil /\ batches[req[t].batch] # Nil
          => /\ batches'[req[t].batch] # Nil
             /\ batches'[req[t].batch].carrier = batches[req[t].batch].carrier
      BY <3>1 DEF TablesGrow
    <3> QED BY <2>1, <3>2 DEF HandlerInv, ProgramPoint, At
  <2>5. PrivateUntilInserted(t)'
    <3>1. \A u \in Slots \ {s} : req'[u] = req[u] /\ work'[u] = work[u]
      BY DEF Respects
    <3> QED BY <2>1, <3>1 DEF HandlerInv, PrivateUntilInserted, Respects, At
  <2>6. OneAnnouncer(t)'
    <3>1. \A u \in Slots \ {s} : req'[u] = req[u]
      BY DEF Respects
    <3>2. At(t, "announce") => /\ req[t].batch \in Batches
                               /\ batches[req[t].batch] # Nil
      BY <2>1 DEF HandlerInv, ProgramPoint, Request, At
    <3>3. At(t, "announce") => batches'[req[t].batch].status = "CLOSED"
      BY <2>1, <3>2 DEF HandlerInv, OneAnnouncer, TablesGrow
    <3> QED BY <2>1, <3>1, <3>3 DEF HandlerInv, OneAnnouncer, Respects, At
  <2> QED BY <2>2, <2>3, <2>4, <2>5, <2>6 DEF HandlerInv
<1> QED BY <1>2, <1>3 DEF DispatchInv

\* The same for a handler that is done: only the tables and the other handlers
\* matter.
LEMMA FinishTableStep ==
  ASSUME DispatchInv, NEW s \in Slots, Finish(s), TypeOK', TablesInv', TablesGrow,
         \A t \in Slots \ {s} :
           /\ \A m \in Marks : work[t][m] # Nil /\ rows'[m] # Nil
                               => rows'[m].carrier = work[t][m].carrier
           /\ At(t, "insertMark") =>
                rows'[req[t].mark] = Nil /\ req[t].mark \notin removed'
           /\ At(t, "announce") => announced'[req[t].batch] = 0
  PROVE  DispatchInv'
<1>1. /\ req'[s] = Idle /\ work'[s] = NoWork
      /\ \A t \in Slots \ {s} : req'[t] = req[t] /\ work'[t] = work[t]
  BY FinishClears DEF DispatchInv
<1>2. HandlerInv(s)'
  BY <1>1, DispatchAssumption
     DEF HandlerInv, HeldIds, CopiesAgree, ProgramPoint, PrivateUntilInserted,
         OneAnnouncer, At, Idle, NoWork
<1>3. ASSUME NEW t \in Slots \ {s} PROVE Respects(s, t)
  <2>1. At(t, "insertMark") => req[t].mark \in Marks /\ req[t].mark # Nil
    BY DEF DispatchInv, TypeOK, HandlerInv, ProgramPoint, Request, At
  <2> QED BY <1>1, <2>1 DEF Respects, Idle, NoWork
<1>4. \A m \in Marks : work'[s][m] = Nil
  BY <1>1 DEF NoWork
<1> QED BY <1>2, <1>3, <1>4, TableStep

LEMMA InsertBatchKeeps ==
  ASSUME DispatchInv, NEW s \in Slots, InsertBatch(s)
  PROVE  DispatchInv'
<1>1. /\ TypeOK /\ TablesInv /\ HandlerInv(s)
      /\ At(s, "insertBatch") /\ Finish(s)
      /\ UNCHANGED <<rows, minted, history>>
  BY DEF DispatchInv, InsertBatch
<1>2. PICK b \in Batches :
        /\ batches[b] = Nil
        /\ batches' = [batches EXCEPT
             ![b] = [carrier |-> req[s].carrier, status |-> "OPEN"]]
  BY DEF InsertBatch
<1>3. req[s].carrier \in Carriers
  BY <1>1 DEF TypeOK, Request, HandlerInv, ProgramPoint, At
<1>4. [carrier |-> req[s].carrier, status |-> "OPEN"] \in BatchRow
  BY <1>3 DEF BatchRow
<1>5. /\ batches' \in [Batches -> BatchRow \cup {Nil}]
      /\ batches'[b] # Nil
      /\ \A a \in Batches \ {b} : batches'[a] = batches[a]
  BY <1>1, <1>2, <1>4, NilAssumption DEF TypeOK
<1>6. TypeOK'
  BY <1>1, <1>5, FinishClears DEF TypeOK, history
<1>7. TablesInv'
  BY <1>1, <1>2, <1>5 DEF TypeOK, TablesInv, KnownIds, CarrierAgreement, AcceptanceBacked,
                          ClosedAnnouncedOnce, NoResurrection, InBatch, history
<1>8. TablesGrow
  BY <1>1, <1>2, <1>5 DEF TablesGrow, history, TypeOK
<1>9. \A t \in Slots \ {s} :
        /\ \A m \in Marks : work[t][m] # Nil /\ rows'[m] # Nil
                            => rows'[m].carrier = work[t][m].carrier
        /\ At(t, "insertMark") =>
             rows'[req[t].mark] = Nil /\ req[t].mark \notin removed'
        /\ At(t, "announce") => announced'[req[t].batch] = 0
  BY <1>1 DEF DispatchInv, HandlerInv, CopiesAgree, PrivateUntilInserted, OneAnnouncer,
              history
<1> QED BY <1>1, <1>6, <1>7, <1>8, <1>9, FinishTableStep

LEMMA CloseBatchKeeps ==
  ASSUME DispatchInv, NEW s \in Slots, CloseBatch(s)
  PROVE  DispatchInv'
<1> DEFINE b == req[s].batch
<1>1. /\ TypeOK /\ TablesInv /\ HandlerInv(s)
      /\ At(s, "closeBatch")
      /\ UNCHANGED <<rows, minted, history>>
  BY DEF DispatchInv, CloseBatch
<1>2. CASE Finish(s) /\ UNCHANGED batches
  BY <1>1, <1>2, FinishStep
<1>3. CASE /\ IsOpen(b)
           /\ batches' = [batches EXCEPT ![b].status = "CLOSED"]
           /\ Goto(s, "announce")
           /\ UNCHANGED work
  <2>1. /\ b \in Batches /\ batches[b] \in BatchRow /\ batches[b].status = "OPEN"
    BY <1>1, <1>3 DEF TypeOK, Request, HandlerInv, ProgramPoint, At, IsOpen
  <2> DEFINE closed == [batches[b] EXCEPT !.status = "CLOSED"]
  <2>2. /\ closed \in BatchRow /\ closed # Nil
        /\ closed.carrier = batches[b].carrier /\ closed.status = "CLOSED"
    BY <2>1, NilAssumption DEF BatchRow
  <2>3. batches' = [batches EXCEPT ![b] = closed]
    BY <1>3
  <2> HIDE DEF closed
  <2>4. /\ batches' \in [Batches -> BatchRow \cup {Nil}]
        /\ batches'[b] = closed
        /\ \A a \in Batches \ {b} : batches'[a] = batches[a]
    BY <1>1, <2>1, <2>2, <2>3 DEF TypeOK
  <2>5. /\ req' \in [Slots -> Request]
        /\ req'[s].pc = "announce" /\ req'[s].op = req[s].op
        /\ req'[s].batch = b /\ req'[s].mark = req[s].mark
        /\ \A t \in Slots \ {s} : req'[t] = req[t]
    BY <1>1, <1>3, GotoMoves DEF Points
  <2>6. TypeOK'
    BY <1>1, <1>3, <2>4, <2>5 DEF TypeOK, history
  <2>7. TablesInv'
    <3>1. KnownIds' /\ AcceptanceBacked' /\ NoResurrection'
      BY <1>1 DEF TablesInv, KnownIds, AcceptanceBacked, NoResurrection, history
    <3>2. CarrierAgreement'
      BY <1>1, <2>1, <2>2, <2>4 DEF TablesInv, CarrierAgreement, InBatch
    <3>3. ClosedAnnouncedOnce'
      BY <1>1, <2>2, <2>4 DEF TablesInv, ClosedAnnouncedOnce, history
    <3> QED BY <3>1, <3>2, <3>3 DEF TablesInv
  <2>8. announced[b] = 0
    <3>1. announced[b] \in Nat /\ announced[b] <= 1
      BY <1>1, <2>1 DEF TypeOK, TablesInv, ClosedAnnouncedOnce
    <3>2. announced[b] # 1
      BY <1>1, <2>1 DEF TablesInv, ClosedAnnouncedOnce
    <3> QED BY <3>1, <3>2
  <2>9. TablesGrow
    BY <1>1, <2>1, <2>2, <2>4 DEF TablesGrow, history, TypeOK
  <2>10. ASSUME NEW t \in Slots \ {s}, At(t, "announce") PROVE req[t].batch # b
    BY <2>1, <2>10 DEF DispatchInv, HandlerInv, OneAnnouncer
  <2>11. HandlerInv(s)'
    <3>1. HeldIds(s)'
      BY <1>1, <1>3, <2>5 DEF HandlerInv, HeldIds
    <3>2. CopiesAgree(s)'
      BY <1>1, <1>3, <2>1, <2>2, <2>4
         DEF HandlerInv, CopiesAgree, history, TypeOK, Row
    <3>3. ProgramPoint(s)'
      BY <1>1, <2>1, <2>2, <2>4, <2>5, DispatchAssumption
         DEF HandlerInv, ProgramPoint, At
    <3>4. PrivateUntilInserted(s)'
      BY <2>5 DEF PrivateUntilInserted, At
    <3>5. OneAnnouncer(s)'
      BY <1>1, <2>2, <2>4, <2>5, <2>8, <2>10 DEF OneAnnouncer, At, history
    <3> QED BY <3>1, <3>2, <3>3, <3>4, <3>5 DEF HandlerInv
  <2>12. \A t \in Slots \ {s} : Respects(s, t)
    BY <1>1, <1>3, <2>5, <2>10
       DEF DispatchInv, HandlerInv, CopiesAgree, PrivateUntilInserted, OneAnnouncer,
           Respects, history, TypeOK, Request, ProgramPoint, At
  <2>13. \A m \in Marks : /\ req'[s].op = "Close" /\ work'[s][m] # Nil
                          /\ work'[s][m].carrier \in Manual
                          => work'[s][m].ready
    BY <1>3, <2>5 DEF DispatchInv, ManualDraftsComplete
  <2> QED BY <2>6, <2>7, <2>9, <2>11, <2>12, <2>13, TableStep
<1> QED BY <1>2, <1>3 DEF CloseBatch

LEMMA AnnounceKeeps ==
  ASSUME DispatchInv, NEW s \in Slots, Announce(s)
  PROVE  DispatchInv'
<1> DEFINE b == req[s].batch
<1>1. /\ TypeOK /\ TablesInv /\ HandlerInv(s)
      /\ At(s, "announce") /\ Finish(s)
      /\ UNCHANGED <<rows, batches, minted, removed, accepted>>
  BY DEF DispatchInv, Announce
<1>2. /\ b \in Batches /\ announced[b] = 0
      /\ batches[b] # Nil /\ batches[b].status = "CLOSED"
  BY <1>1 DEF TypeOK, Request, HandlerInv, ProgramPoint, OneAnnouncer, At
<1>3. /\ announced' \in [Batches -> Nat] /\ announced'[b] = 1
      /\ \A a \in Batches \ {b} : announced'[a] = announced[a]
  BY <1>1, <1>2 DEF TypeOK, Announce
<1>4. TypeOK'
  BY <1>1, <1>3, FinishClears DEF TypeOK
<1>5. TablesInv'
  BY <1>1, <1>2, <1>3 DEF TablesInv, KnownIds, CarrierAgreement, AcceptanceBacked,
                          ClosedAnnouncedOnce, NoResurrection, InBatch
<1>6. TablesGrow
  BY <1>1 DEF TablesGrow, TypeOK
<1>7. ASSUME NEW t \in Slots \ {s}
      PROVE  /\ \A m \in Marks : work[t][m] # Nil /\ rows'[m] # Nil
                                 => rows'[m].carrier = work[t][m].carrier
             /\ At(t, "insertMark") =>
                  rows'[req[t].mark] = Nil /\ req[t].mark \notin removed'
             /\ At(t, "announce") => announced'[req[t].batch] = 0
  <2>1. At(t, "announce") => /\ req[t].batch \in Batches /\ req[t].batch # b
                             /\ announced[req[t].batch] = 0
    BY <1>1 DEF DispatchInv, HandlerInv, ProgramPoint, OneAnnouncer, TypeOK, Request, At
  <2> QED BY <1>1, <1>3, <2>1 DEF DispatchInv, HandlerInv, CopiesAgree,
                                  PrivateUntilInserted
<1> QED BY <1>1, <1>4, <1>5, <1>6, <1>7, FinishTableStep

-----------------------------------------------------------------------------
(* Steps that write shipping_marks. *)

\* Writing a row back over the one that is there keeps the tables right when the
\* new row has the old one's carrier and is itself backed and well assigned.
LEMMA WriteBack ==
  ASSUME DispatchInv, NEW m \in Marks, NEW row \in Row, rows[m] # Nil,
         rows' = [rows EXCEPT ![m] = row],
         row.carrier = rows[m].carrier,
         row.status \in {"CREATED", "GENERATED"} /\ row.carrier \notin Manual
           => accepted[m] > 0,
         row.batch # Nil => /\ batches[row.batch] # Nil
                            /\ batches[row.batch].carrier = row.carrier,
         UNCHANGED <<batches, minted, history>>
  PROVE  /\ rows' \in [Marks -> Row \cup {Nil}]
         /\ TablesInv' /\ TablesGrow
         /\ \A t \in Slots :
              /\ \A n \in Marks : work[t][n] # Nil /\ rows'[n] # Nil
                                  => rows'[n].carrier = work[t][n].carrier
              /\ At(t, "insertMark") =>
                   rows'[req[t].mark] = Nil /\ req[t].mark \notin removed'
              /\ At(t, "announce") => announced'[req[t].batch] = 0
<1>1. TypeOK /\ TablesInv
  BY DEF DispatchInv
<1>2. /\ rows' \in [Marks -> Row \cup {Nil}]
      /\ rows'[m] = row
      /\ \A n \in Marks \ {m} : rows'[n] = rows[n]
  BY <1>1 DEF TypeOK
<1>3. TablesInv'
  <2>1. row # Nil
    BY NilAssumption
  <2>2. KnownIds'
    BY <1>1, <1>2 DEF TablesInv, KnownIds, history
  <2>3. CarrierAgreement'
    BY <1>1, <1>2, DispatchAssumption DEF TablesInv, CarrierAgreement, InBatch
  <2>4. AcceptanceBacked'
    BY <1>1, <1>2 DEF TablesInv, AcceptanceBacked, history
  <2>5. ClosedAnnouncedOnce'
    BY <1>1 DEF TablesInv, ClosedAnnouncedOnce, history
  <2>6. NoResurrection'
    BY <1>1, <1>2 DEF TablesInv, NoResurrection, TypeOK, history
  <2> QED BY <2>2, <2>3, <2>4, <2>5, <2>6 DEF TablesInv
<1>4. TablesGrow
  BY <1>1 DEF TablesGrow, TypeOK, history
<1>5. ASSUME NEW t \in Slots
      PROVE  /\ \A n \in Marks : work[t][n] # Nil /\ rows'[n] # Nil
                                 => rows'[n].carrier = work[t][n].carrier
             /\ At(t, "insertMark") =>
                  rows'[req[t].mark] = Nil /\ req[t].mark \notin removed'
             /\ At(t, "announce") => announced'[req[t].batch] = 0
  <2>1. HandlerInv(t) /\ req[t] \in Request
    BY <1>1 DEF DispatchInv, TypeOK
  <2>2. \A n \in Marks : work[t][n] # Nil /\ rows'[n] # Nil
                         => rows'[n].carrier = work[t][n].carrier
    BY <1>2, <2>1 DEF HandlerInv, CopiesAgree
  <2>3. At(t, "insertMark") =>
          rows'[req[t].mark] = Nil /\ req[t].mark \notin removed'
    <3>1. At(t, "insertMark") => req[t].mark \in Marks /\ rows[req[t].mark] = Nil
      BY <2>1 DEF HandlerInv, ProgramPoint, PrivateUntilInserted, Request, At
    <3> QED BY <1>2, <2>1, <3>1 DEF HandlerInv, PrivateUntilInserted, history
  <2>4. At(t, "announce") => announced'[req[t].batch] = 0
    BY <2>1 DEF HandlerInv, OneAnnouncer, history
  <2> QED BY <2>2, <2>3, <2>4
<1> QED BY <1>2, <1>3, <1>4, <1>5

\* Update by id: a copy some handler holds replaces the row, or nothing happens.
LEMMA UpdatedKeeps ==
  ASSUME DispatchInv, NEW s \in Slots, NEW m \in Marks, work[s][m] # Nil,
         rows' = Updated(m, work[s][m]),
         UNCHANGED <<batches, minted, history>>
  PROVE  /\ rows' \in [Marks -> Row \cup {Nil}]
         /\ TablesInv' /\ TablesGrow
         /\ \A t \in Slots :
              /\ \A n \in Marks : work[t][n] # Nil /\ rows'[n] # Nil
                                  => rows'[n].carrier = work[t][n].carrier
              /\ At(t, "insertMark") =>
                   rows'[req[t].mark] = Nil /\ req[t].mark \notin removed'
              /\ At(t, "announce") => announced'[req[t].batch] = 0
<1>1. TypeOK /\ TablesInv /\ HandlerInv(s) /\ work[s][m] \in Row
  BY DEF DispatchInv, TypeOK
<1>2. CASE rows[m] # Nil
  <2>1. /\ rows' = [rows EXCEPT ![m] = work[s][m]]
        /\ work[s][m].carrier = rows[m].carrier
    BY <1>1, <1>2 DEF Updated, HandlerInv, CopiesAgree
  <2>2. /\ work[s][m].status \in {"CREATED", "GENERATED"}
             /\ work[s][m].carrier \notin Manual => accepted[m] > 0
        /\ work[s][m].batch # Nil =>
             /\ batches[work[s][m].batch] # Nil
             /\ batches[work[s][m].batch].carrier = work[s][m].carrier
    BY <1>1 DEF HandlerInv, CopiesAgree
  <2> QED BY <1>1, <1>2, <2>1, <2>2, WriteBack
<1>3. CASE rows[m] = Nil
  <2>1. rows' = rows
    BY <1>3 DEF Updated
  <2>2. TablesInv'
    BY <1>1, <2>1 DEF TablesInv, KnownIds, CarrierAgreement, AcceptanceBacked,
                      ClosedAnnouncedOnce, NoResurrection, InBatch, history
  <2>3. TablesGrow
    BY <1>1 DEF TablesGrow, TypeOK, history
  <2> QED BY <1>1, <2>1, <2>2, <2>3
          DEF DispatchInv, HandlerInv, CopiesAgree, PrivateUntilInserted, OneAnnouncer,
              TypeOK, history
<1> QED BY <1>2, <1>3

LEMMA SaveKeeps ==
  ASSUME DispatchInv, NEW s \in Slots, Save(s)
  PROVE  DispatchInv'
<1>1. /\ TypeOK /\ Finish(s) /\ UNCHANGED <<batches, minted, history>>
      /\ rows' = Updated(req[s].mark, work[s][req[s].mark])
      /\ req[s].mark \in Marks /\ work[s][req[s].mark] # Nil
  BY DEF DispatchInv, TypeOK, Request, HandlerInv, ProgramPoint, Save, At
<1>2. /\ rows' \in [Marks -> Row \cup {Nil}]
      /\ TablesInv' /\ TablesGrow
      /\ \A t \in Slots :
           /\ \A n \in Marks : work[t][n] # Nil /\ rows'[n] # Nil
                               => rows'[n].carrier = work[t][n].carrier
           /\ At(t, "insertMark") =>
                rows'[req[t].mark] = Nil /\ req[t].mark \notin removed'
           /\ At(t, "announce") => announced'[req[t].batch] = 0
  BY <1>1, UpdatedKeeps
<1>3. TypeOK'
  BY <1>1, <1>2, FinishClears DEF TypeOK, history
<1> QED BY <1>1, <1>2, <1>3, FinishTableStep

LEMMA PersistKeeps ==
  ASSUME DispatchInv, NEW s \in Slots, Persist(s)
  PROVE  DispatchInv'
<1> DEFINE m == req[s].mark
<1>1. /\ TypeOK /\ HandlerInv(s) /\ ProgramPoint(s) /\ At(s, "persist")
      /\ AfterMark(s, m) /\ UNCHANGED <<batches, minted, history>>
      /\ rows' = Updated(m, work[s][m])
      /\ m \in Marks /\ work[s][m] # Nil
  BY DEF DispatchInv, TypeOK, Request, HandlerInv, ProgramPoint, Persist, At
<1>2. /\ rows' \in [Marks -> Row \cup {Nil}]
      /\ TablesInv' /\ TablesGrow
      /\ \A t \in Slots :
           /\ \A n \in Marks : work[t][n] # Nil /\ rows'[n] # Nil
                               => rows'[n].carrier = work[t][n].carrier
           /\ At(t, "insertMark") =>
                rows'[req[t].mark] = Nil /\ req[t].mark \notin removed'
           /\ At(t, "announce") => announced'[req[t].batch] = 0
  BY <1>1, UpdatedKeeps
<1>3. /\ req' \in [Slots -> Request]
      /\ work' \in [Slots -> [Marks -> Row \cup {Nil}]]
      /\ \A t \in Slots \ {s} : req'[t] = req[t] /\ work'[t] = work[t]
      /\ req'[s].mark = Nil
      /\ \A n \in Marks : work'[s][n] # Nil => work'[s][n] = work[s][n]
      /\ req'[s].op = "Close" => req[s].op = "Close"
      /\ \/ req'[s] = Idle /\ work'[s] = NoWork
         \/ /\ req'[s].pc \in {"closeBatch", "carrier"}
            /\ req'[s].batch = req[s].batch
  BY <1>1, AfterMarkMoves DEF At
<1>4. TypeOK'
  BY <1>1, <1>2, <1>3 DEF TypeOK, history
<1>5. HandlerInv(s)'
  <2>1. HeldIds(s)'
    BY <1>1, <1>3, DispatchAssumption, SMTT(30) DEF HandlerInv, HeldIds
  <2>2. CopiesAgree(s)'
    BY <1>1, <1>2, <1>3 DEF HandlerInv, CopiesAgree, history
  <2>3. ProgramPoint(s)'
    BY <1>1, <1>3 DEF ProgramPoint, At, Idle
  <2>4. req'[s].pc \notin {"insertMark", "announce"}
    BY <1>3 DEF Idle
  <2> QED BY <2>1, <2>2, <2>3, <2>4
          DEF HandlerInv, PrivateUntilInserted, OneAnnouncer, At
<1>6. ASSUME NEW t \in Slots \ {s} PROVE Respects(s, t)
  <2>1. At(t, "insertMark") => req[t].mark \in Marks /\ req[t].mark # Nil
                               /\ work[s][req[t].mark] = Nil
    BY DEF DispatchInv, TypeOK, HandlerInv, ProgramPoint, PrivateUntilInserted,
           Request, At
  <2>2. req'[s].pc # "announce"
    BY <1>3 DEF Idle
  <2> QED BY <1>2, <1>3, <2>1, <2>2 DEF Respects
<1>7. \A n \in Marks : /\ req'[s].op = "Close" /\ work'[s][n] # Nil
                       /\ work'[s][n].carrier \in Manual
                       => work'[s][n].ready
  BY <1>3 DEF DispatchInv, ManualDraftsComplete
<1> QED BY <1>2, <1>4, <1>5, <1>6, <1>7, TableStep

LEMMA DeleteMarkKeeps ==
  ASSUME DispatchInv, NEW s \in Slots, DeleteMark(s)
  PROVE  DispatchInv'
<1> DEFINE m == req[s].mark
<1>1. /\ TypeOK /\ TablesInv /\ HandlerInv(s) /\ Finish(s)
      /\ UNCHANGED <<batches, minted, accepted, announced>>
      /\ rows' = [rows EXCEPT ![m] = Nil] /\ removed' = removed \cup {m}
      /\ m \in Marks
  BY DEF DispatchInv, TypeOK, Request, HandlerInv, ProgramPoint, DeleteMark, At
<1>2. /\ rows' \in [Marks -> Row \cup {Nil}] /\ rows'[m] = Nil
      /\ \A n \in Marks \ {m} : rows'[n] = rows[n]
  BY <1>1 DEF TypeOK
<1>3. TypeOK'
  BY <1>1, <1>2, FinishClears DEF TypeOK
<1>4. m \in minted
  BY <1>1 DEF HandlerInv, HeldIds
<1>5. TablesInv'
  BY <1>1, <1>2, <1>4 DEF TablesInv, KnownIds, CarrierAgreement, AcceptanceBacked,
                          ClosedAnnouncedOnce, NoResurrection, InBatch, TypeOK
<1>6. TablesGrow
  BY <1>1 DEF TablesGrow, TypeOK
<1>7. ASSUME NEW t \in Slots \ {s}
      PROVE  /\ \A n \in Marks : work[t][n] # Nil /\ rows'[n] # Nil
                                 => rows'[n].carrier = work[t][n].carrier
             /\ At(t, "insertMark") =>
                  rows'[req[t].mark] = Nil /\ req[t].mark \notin removed'
             /\ At(t, "announce") => announced'[req[t].batch] = 0
  <2>1. At(t, "insertMark") => /\ req[t].mark \in Marks /\ req[t].mark # m
                               /\ rows[req[t].mark] = Nil
                               /\ req[t].mark \notin removed
    BY DEF DispatchInv, TypeOK, HandlerInv, ProgramPoint, PrivateUntilInserted,
           Request, At
  <2> QED BY <1>1, <1>2, <2>1 DEF DispatchInv, HandlerInv, CopiesAgree, OneAnnouncer
<1> QED BY <1>1, <1>3, <1>5, <1>6, <1>7, FinishTableStep

LEMMA AddMarkKeeps ==
  ASSUME DispatchInv, NEW s \in Slots, AddMark(s)
  PROVE  DispatchInv'
<1> DEFINE m == req[s].mark
           b == req[s].batch
<1>1. /\ TypeOK /\ TablesInv /\ HandlerInv(s) /\ At(s, "addMark")
      /\ UNCHANGED <<batches, minted, history>>
      /\ m \in Marks /\ b \in Batches /\ batches[b] # Nil
      /\ work[s][m] # Nil /\ work[s][m].carrier = batches[b].carrier
  BY DEF DispatchInv, TypeOK, Request, HandlerInv, ProgramPoint, AddMark, At
<1>2. CASE Finish(s) /\ UNCHANGED rows
  BY <1>1, <1>2, FinishStep
<1>3. CASE /\ rows[m] # Nil
           /\ rows' = [rows EXCEPT ![m].batch = b]
           /\ \/ req[s].op = "DirectMark" /\ Goto(s, "carrier") /\ UNCHANGED work
              \/ req[s].op # "DirectMark" /\ Finish(s)
  <2> DEFINE row == [rows[m] EXCEPT !.batch = b]
  <2>1. rows[m] \in Row
    BY <1>1, <1>3 DEF TypeOK
  <2>2. /\ row \in Row /\ row.carrier = rows[m].carrier
        /\ row.batch = b /\ row.status = rows[m].status
    BY <1>1, <2>1 DEF Row
  <2>3. rows' = [rows EXCEPT ![m] = row]
    BY <1>3
  <2> HIDE DEF row
  <2>4. row.carrier = batches[b].carrier
    BY <1>1, <1>3, <2>2 DEF HandlerInv, CopiesAgree
  <2>5. row.status \in {"CREATED", "GENERATED"} /\ row.carrier \notin Manual
          => accepted[m] > 0
    BY <1>1, <1>3, <2>2, SMTT(30) DEF TablesInv, AcceptanceBacked
  <2>6. /\ rows' \in [Marks -> Row \cup {Nil}]
        /\ TablesInv' /\ TablesGrow
        /\ \A t \in Slots :
             /\ \A n \in Marks : work[t][n] # Nil /\ rows'[n] # Nil
                                 => rows'[n].carrier = work[t][n].carrier
             /\ At(t, "insertMark") =>
                  rows'[req[t].mark] = Nil /\ req[t].mark \notin removed'
             /\ At(t, "announce") => announced'[req[t].batch] = 0
    <3>1. row.batch # Nil => /\ batches[row.batch] # Nil
                             /\ batches[row.batch].carrier = row.carrier
      BY <1>1, <2>2, <2>4
    <3>2. row \in Row /\ row.carrier = rows[m].carrier
      BY <2>2
    <3> QED BY <1>1, <1>3, <2>3, <2>5, <3>1, <3>2, WriteBack
  <2>7. CASE Finish(s)
    <3>1. TypeOK'
      BY <1>1, <2>6, <2>7, FinishClears DEF TypeOK, history
    <3> QED BY <2>6, <2>7, <3>1, FinishTableStep
  <2>8. CASE Goto(s, "carrier") /\ UNCHANGED work
    <3>1. /\ req' \in [Slots -> Request]
          /\ req'[s].pc = "carrier" /\ req'[s].op = req[s].op
          /\ req'[s].batch = b /\ req'[s].mark = m
          /\ \A t \in Slots \ {s} : req'[t] = req[t]
      BY <1>1, <2>8, GotoMoves DEF Points
    <3>2. TypeOK'
      BY <1>1, <2>6, <2>8, <3>1 DEF TypeOK, history
    <3>3. HandlerInv(s)'
      <4>1. HeldIds(s)'
        BY <1>1, <2>8, <3>1 DEF HandlerInv, HeldIds
      <4>2. CopiesAgree(s)'
        BY <1>1, <2>6, <2>8 DEF HandlerInv, CopiesAgree, history
      <4>3. ProgramPoint(s)'
        BY <1>1, <3>1, DispatchAssumption DEF ProgramPoint, At
      <4> QED BY <3>1, <4>1, <4>2, <4>3
              DEF HandlerInv, PrivateUntilInserted, OneAnnouncer, At
    <3>4. ASSUME NEW t \in Slots \ {s} PROVE Respects(s, t)
      <4>1. At(t, "insertMark") => m # req[t].mark /\ work[s][req[t].mark] = Nil
        BY DEF DispatchInv, HandlerInv, PrivateUntilInserted
      <4> QED BY <2>6, <2>8, <3>1, <4>1 DEF Respects
    <3>5. \A n \in Marks : /\ req'[s].op = "Close" /\ work'[s][n] # Nil
                           /\ work'[s][n].carrier \in Manual
                           => work'[s][n].ready
      BY <2>8, <3>1 DEF DispatchInv, ManualDraftsComplete
    <3> QED BY <2>6, <3>2, <3>3, <3>4, <3>5, TableStep
  <2> QED BY <1>3, <2>7, <2>8
<1> QED BY <1>2, <1>3 DEF AddMark

LEMMA InsertMarkKeeps ==
  ASSUME DispatchInv, NEW s \in Slots, InsertMark(s)
  PROVE  DispatchInv'
<1> DEFINE m == req[s].mark
<1>1. /\ TypeOK /\ TablesInv /\ HandlerInv(s) /\ Finish(s)
      /\ UNCHANGED <<batches, minted, history>>
      /\ rows' = [rows EXCEPT ![m] = work[s][m]]
      /\ m \in Marks /\ work[s][m] # Nil /\ m \notin removed
      /\ \A t \in Slots \ {s} : req[t].mark # m /\ work[t][m] = Nil
  BY DEF DispatchInv, TypeOK, Request, HandlerInv, ProgramPoint, PrivateUntilInserted,
         InsertMark, At
<1>2. /\ rows' \in [Marks -> Row \cup {Nil}] /\ rows'[m] = work[s][m]
      /\ \A n \in Marks \ {m} : rows'[n] = rows[n]
  BY <1>1 DEF TypeOK
<1>3. TypeOK'
  BY <1>1, <1>2, FinishClears DEF TypeOK, history
<1>4. TablesInv'
  <2>1. KnownIds' /\ NoResurrection'
    BY <1>1, <1>2 DEF TablesInv, KnownIds, NoResurrection, HandlerInv, HeldIds,
                      TypeOK, history
  <2>2. CarrierAgreement'
    BY <1>1, <1>2, DispatchAssumption
       DEF TablesInv, CarrierAgreement, HandlerInv, CopiesAgree, InBatch
  <2>3. AcceptanceBacked'
    BY <1>1, <1>2 DEF TablesInv, AcceptanceBacked, HandlerInv, CopiesAgree, history
  <2>4. ClosedAnnouncedOnce'
    BY <1>1 DEF TablesInv, ClosedAnnouncedOnce, history
  <2> QED BY <2>1, <2>2, <2>3, <2>4 DEF TablesInv
<1>5. TablesGrow
  BY <1>1 DEF TablesGrow, TypeOK, history
<1>6. ASSUME NEW t \in Slots \ {s}
      PROVE  /\ \A n \in Marks : work[t][n] # Nil /\ rows'[n] # Nil
                                 => rows'[n].carrier = work[t][n].carrier
             /\ At(t, "insertMark") =>
                  rows'[req[t].mark] = Nil /\ req[t].mark \notin removed'
             /\ At(t, "announce") => announced'[req[t].batch] = 0
  <2>1. At(t, "insertMark") => /\ req[t].mark \in Marks
                               /\ rows[req[t].mark] = Nil
                               /\ req[t].mark \notin removed
    BY DEF DispatchInv, TypeOK, HandlerInv, ProgramPoint, PrivateUntilInserted,
           Request, At
  <2> QED BY <1>1, <1>2, <2>1 DEF DispatchInv, HandlerInv, CopiesAgree, OneAnnouncer,
                                  history
<1> QED BY <1>1, <1>3, <1>4, <1>5, <1>6, FinishTableStep

\* A mark of no one yet: in no table and in no handler.
LEMMA FreshIsNew ==
  ASSUME DispatchInv, NEW m \in Fresh
  PROVE  /\ m \in Marks /\ m \notin minted /\ rows[m] = Nil /\ m \notin removed
         /\ \A t \in Slots : req[t].mark # m /\ work[t][m] = Nil
  BY DEF Fresh, DispatchInv, TablesInv, KnownIds, HandlerInv, HeldIds

LEMMA CreateMarkKeeps ==
  ASSUME DispatchInv, NEW s \in Slots, CreateMark(s)
  PROVE  DispatchInv'
<1> DEFINE b == req[s].batch
<1>1. /\ TypeOK /\ TablesInv /\ HandlerInv(s) /\ At(s, "createMark")
      /\ UNCHANGED <<batches, history>>
      /\ b \in Batches /\ batches[b] \in BatchRow /\ batches[b] # Nil
      /\ req[s].order \in Orders
      /\ req[s].op # "Close"
      /\ req[s] \in Request
  BY DEF DispatchInv, TypeOK, Request, HandlerInv, ProgramPoint, CreateMark, At
<1>2. PICK m \in Fresh, r \in BOOLEAN :
        /\ rows' = [rows EXCEPT ![m] = NewRow(s, r)]
        /\ minted' = minted \cup {m}
        /\ req' = [req EXCEPT ![s].pc = "addMark", ![s].mark = m]
        /\ work' = [work EXCEPT ![s][m] = NewRow(s, r)]
  BY DEF CreateMark
<1>3. /\ m \in Marks /\ m \notin minted /\ rows[m] = Nil /\ m \notin removed
      /\ \A t \in Slots : req[t].mark # m /\ work[t][m] = Nil
  BY FreshIsNew
<1> DEFINE row == NewRow(s, r)
<1>4. /\ row \in Row /\ row # Nil
      /\ row.carrier = batches[b].carrier /\ row.status = "QUOTED"
      /\ row.batch \in {b, Nil}
  BY <1>1, NilAssumption DEF NewRow, Row, Request, BatchRow, MarkStatus
<1> HIDE DEF row
<1>5. /\ rows' \in [Marks -> Row \cup {Nil}] /\ rows'[m] = row
      /\ \A n \in Marks \ {m} : rows'[n] = rows[n]
  BY <1>1, <1>2, <1>3, <1>4 DEF TypeOK, row
<1>6. /\ work' \in [Slots -> [Marks -> Row \cup {Nil}]]
      /\ \A n \in Marks : work'[s][n] = IF n = m THEN row ELSE work[s][n]
      /\ \A t \in Slots \ {s} : work'[t] = work[t]
  BY <1>1, <1>2, <1>3, <1>4 DEF TypeOK, row
<1>7. /\ req' \in [Slots -> Request]
      /\ req'[s].pc = "addMark" /\ req'[s].op = req[s].op
      /\ req'[s].batch = b /\ req'[s].mark = m
      /\ \A t \in Slots \ {s} : req'[t] = req[t]
  <2> DEFINE q == [req[s] EXCEPT !.pc = "addMark", !.mark = m]
  <2>1. /\ q \in Request /\ q.pc = "addMark" /\ q.op = req[s].op
        /\ q.batch = b /\ q.mark = m
    BY <1>1, <1>3, ZenonT(60) DEF Request, Points
  <2>2. req' = [req EXCEPT ![s] = q]
    BY <1>2
  <2> HIDE DEF q
  <2> QED BY <1>1, <2>1, <2>2 DEF TypeOK
<1>8. TypeOK'
  BY <1>1, <1>2, <1>3, <1>5, <1>6, <1>7 DEF TypeOK, history
<1>9. TablesInv'
  <2>1. KnownIds' /\ NoResurrection'
    BY <1>1, <1>2, <1>3, <1>5 DEF TablesInv, KnownIds, NoResurrection, TypeOK, history
  <2>2. CarrierAgreement'
    BY <1>1, <1>4, <1>5, DispatchAssumption DEF TablesInv, CarrierAgreement, InBatch
  <2>3. AcceptanceBacked'
    BY <1>1, <1>4, <1>5 DEF TablesInv, AcceptanceBacked, history
  <2>4. ClosedAnnouncedOnce'
    BY <1>1 DEF TablesInv, ClosedAnnouncedOnce, history
  <2> QED BY <2>1, <2>2, <2>3, <2>4 DEF TablesInv
<1>10. TablesGrow
  BY <1>1, <1>2 DEF TablesGrow, TypeOK, history
<1>11. HandlerInv(s)'
  <2>1. HeldIds(s)'
    BY <1>1, <1>2, <1>6, <1>7 DEF HandlerInv, HeldIds
  <2>2. CopiesAgree(s)'
    BY <1>1, <1>4, <1>5, <1>6 DEF HandlerInv, CopiesAgree, history
  <2>3. ProgramPoint(s)'
    BY <1>1, <1>3, <1>4, <1>6, <1>7, DispatchAssumption DEF ProgramPoint, At
  <2> QED BY <1>7, <2>1, <2>2, <2>3
          DEF HandlerInv, PrivateUntilInserted, OneAnnouncer, At
<1>12. ASSUME NEW t \in Slots \ {s} PROVE Respects(s, t)
  <2>1. HandlerInv(t) /\ req[t] \in Request
    BY <1>1 DEF DispatchInv, TypeOK
  <2>2. At(t, "insertMark") => /\ req[t].mark \in Marks \ {m}
                               /\ rows[req[t].mark] = Nil
                               /\ req[t].mark \notin removed
                               /\ work[s][req[t].mark] = Nil
    BY <1>3, <2>1 DEF HandlerInv, ProgramPoint, PrivateUntilInserted, Request, At
  <2>3. \A n \in Marks : work[t][n] # Nil /\ rows'[n] # Nil
                         => rows'[n].carrier = work[t][n].carrier
    BY <1>3, <1>5, <2>1 DEF HandlerInv, CopiesAgree
  <2>4. At(t, "announce") => announced'[req[t].batch] = 0
    BY <1>1, <2>1 DEF HandlerInv, OneAnnouncer, history
  <2> QED BY <1>1, <1>5, <1>6, <1>7, <2>2, <2>3, <2>4 DEF Respects, history
<1>13. \A n \in Marks : /\ req'[s].op = "Close" /\ work'[s][n] # Nil
                        /\ work'[s][n].carrier \in Manual
                        => work'[s][n].ready
  BY <1>1, <1>7
<1> QED BY <1>8, <1>9, <1>10, <1>11, <1>12, <1>13, TableStep

\* Materialize and Generate record an acceptance when the carrier gave one, and
\* report success to a remote carrier's mark only then.
LEMMA RecordCounts ==
  ASSUME TypeOK, NEW m \in Marks, NEW c \in Carriers, NEW out \in Outcomes(c),
         Record(m, out.sent)
  PROVE  /\ accepted' \in [Marks -> Nat]
         /\ \A n \in Marks : accepted'[n] >= accepted[n]
         /\ out.ok /\ c \notin Manual => accepted'[m] > 0
         /\ out.err \in {"none", "failed", "guardrail"}
<1>1. out.ok /\ c \notin Manual => out.sent
  BY DEF Outcomes
<1>2. out.err \in {"none", "failed", "guardrail"}
  BY DEF Outcomes
<1>3. CASE out.sent
  BY <1>2, <1>3 DEF Record, TypeOK
<1>4. CASE ~out.sent
  BY <1>1, <1>2, <1>4 DEF Record, TypeOK
<1> QED BY <1>3, <1>4

LEMMA CallCarrierKeeps ==
  ASSUME DispatchInv, NEW s \in Slots, CallCarrier(s)
  PROVE  DispatchInv'
<1>1. /\ TypeOK /\ TablesInv /\ HandlerInv(s) /\ At(s, "carrier")
      /\ UNCHANGED <<rows, batches, minted, removed, announced>>
      /\ req[s] \in Request
      /\ req[s].batch # Nil /\ batches[req[s].batch] # Nil
  BY DEF DispatchInv, TypeOK, HandlerInv, ProgramPoint, CallCarrier, At
<1>2. PICK m \in Marks : 
        /\ Turn(s, m)
        /\ \E out \in Outcomes(work[s][m].carrier) :
             /\ Record(m, out.sent)
             /\ work' = [work EXCEPT ![s][m].status =
                           IF out.ok THEN "CREATED" ELSE "FAILED"]
             /\ req' = [req EXCEPT ![s].pc = "persist", ![s].mark = m,
                                   ![s].err = out.err]
  BY DEF CallCarrier
<1>3. work[s][m] # Nil /\ work[s][m] \in Row
  BY <1>1, <1>2 DEF Turn, Pending, TypeOK
<1>4. PICK out \in Outcomes(work[s][m].carrier) :
        /\ Record(m, out.sent)
        /\ work' = [work EXCEPT ![s][m].status = IF out.ok THEN "CREATED" ELSE "FAILED"]
        /\ req' = [req EXCEPT ![s].pc = "persist", ![s].mark = m, ![s].err = out.err]
  BY <1>2
<1>5. /\ accepted' \in [Marks -> Nat]
      /\ \A n \in Marks : accepted'[n] >= accepted[n]
      /\ out.ok /\ work[s][m].carrier \notin Manual => accepted'[m] > 0
      /\ out.err \in {"none", "failed", "guardrail"}
  BY <1>1, <1>3, <1>4, RecordCounts DEF Row
<1> DEFINE copy == [work[s][m] EXCEPT !.status = IF out.ok THEN "CREATED" ELSE "FAILED"]
<1>6. /\ copy \in Row /\ copy # Nil
      /\ copy.carrier = work[s][m].carrier /\ copy.batch = work[s][m].batch
      /\ copy.ready = work[s][m].ready
      /\ copy.status \in {"CREATED", "GENERATED"} => out.ok
  BY <1>3, NilAssumption DEF Row, MarkStatus
<1>7. work' = [work EXCEPT ![s][m] = copy]
  BY <1>4
<1> HIDE DEF copy
<1>8. /\ work' \in [Slots -> [Marks -> Row \cup {Nil}]]
      /\ \A n \in Marks : work'[s][n] = IF n = m THEN copy ELSE work[s][n]
      /\ \A t \in Slots \ {s} : work'[t] = work[t]
  BY <1>1, <1>6, <1>7 DEF TypeOK
<1>9. /\ req' \in [Slots -> Request]
      /\ req'[s].pc = "persist" /\ req'[s].op = req[s].op
      /\ req'[s].batch = req[s].batch /\ req'[s].mark = m
      /\ \A t \in Slots \ {s} : req'[t] = req[t]
  <2> DEFINE q == [req[s] EXCEPT !.pc = "persist", !.mark = m, !.err = out.err]
  <2>1. /\ q \in Request /\ q.pc = "persist" /\ q.op = req[s].op
        /\ q.batch = req[s].batch /\ q.mark = m
    BY <1>1, <1>5, ZenonT(60) DEF Request, Points
  <2>2. req' = [req EXCEPT ![s] = q]
    BY <1>4
  <2> HIDE DEF q
  <2> QED BY <1>1, <2>1, <2>2 DEF TypeOK
<1>10. TypeOK'
  BY <1>1, <1>5, <1>8, <1>9 DEF TypeOK
<1>11. TablesGrow
  BY <1>1, <1>5 DEF TablesGrow, TypeOK
<1>12. TablesInv'
  <2>1. AcceptanceBacked'
    <3>1. \A n \in Marks : accepted[n] > 0 => accepted'[n] > 0
      BY <1>1, <1>5 DEF TypeOK
    <3> QED BY <1>1, <3>1 DEF TablesInv, AcceptanceBacked
  <2> QED BY <1>1, <2>1 DEF TablesInv, KnownIds, CarrierAgreement,
                            ClosedAnnouncedOnce, NoResurrection, InBatch
<1>13. HandlerInv(s)'
  <2>1. HeldIds(s)'
    BY <1>1, <1>3, <1>8, <1>9 DEF HandlerInv, HeldIds
  <2>2. CopiesAgree(s)'
    <3>1. \A n \in Marks : accepted[n] > 0 => accepted'[n] > 0
      BY <1>1, <1>5 DEF TypeOK
    <3> QED BY <1>1, <1>3, <1>5, <1>6, <1>8, <3>1 DEF HandlerInv, CopiesAgree
  <2>3. ProgramPoint(s)'
    BY <1>1, <1>6, <1>8, <1>9, DispatchAssumption DEF ProgramPoint, At
  <2> QED BY <1>9, <2>1, <2>2, <2>3
          DEF HandlerInv, PrivateUntilInserted, OneAnnouncer, At
<1>14. ASSUME NEW t \in Slots \ {s} PROVE Respects(s, t)
  <2>1. HandlerInv(t) /\ req[t] \in Request
    BY <1>1 DEF DispatchInv, TypeOK
  <2>2. At(t, "insertMark") => /\ req[t].mark \in Marks \ {m}
                               /\ rows[req[t].mark] = Nil
                               /\ req[t].mark \notin removed
                               /\ work[s][req[t].mark] = Nil
    BY <1>3, <2>1 DEF HandlerInv, ProgramPoint, PrivateUntilInserted, Request, At
  <2>3. \A n \in Marks : work[t][n] # Nil /\ rows'[n] # Nil
                         => rows'[n].carrier = work[t][n].carrier
    BY <1>1, <2>1 DEF HandlerInv, CopiesAgree
  <2>4. At(t, "announce") => announced'[req[t].batch] = 0
    BY <1>1, <2>1 DEF HandlerInv, OneAnnouncer
  <2> QED BY <1>1, <1>8, <1>9, <2>2, <2>3, <2>4 DEF Respects
<1>15. \A n \in Marks : /\ req'[s].op = "Close" /\ work'[s][n] # Nil
                        /\ work'[s][n].carrier \in Manual
                        => work'[s][n].ready
  BY <1>3, <1>6, <1>8, <1>9, ZenonT(60) DEF DispatchInv, ManualDraftsComplete
<1> QED BY <1>10, <1>11, <1>12, <1>13, <1>14, <1>15, TableStep

LEMMA GenerateKeeps ==
  ASSUME DispatchInv, NEW s \in Slots, NEW o \in Orders, NEW c \in Carriers,
         Generate(s, o, c)
  PROVE  DispatchInv'
<1>1. PICK m \in Fresh, out \in Outcomes(c) :
        /\ Begin(s, "Generate", "insertMark", Nil, o, Nil, c, m)
        /\ Record(m, out.sent)
        /\ work' = [work EXCEPT ![s][m] =
             [order |-> o, quote |-> Nil, carrier |-> c, batch |-> Nil,
              status |-> IF out.ok THEN "GENERATED" ELSE "FAILED",
              ready |-> FALSE]]
        /\ minted' = minted \cup {m}
        /\ UNCHANGED <<rows, batches, removed, announced>>
  BY DEF Generate
<1>2. /\ TypeOK /\ TablesInv /\ HandlerInv(s) /\ At(s, "idle") /\ work[s] = NoWork
  BY <1>1 DEF DispatchInv, HandlerInv, ProgramPoint, Begin, At
<1>3. /\ m \in Marks /\ m \notin minted /\ rows[m] = Nil /\ m \notin removed
      /\ \A t \in Slots : req[t].mark # m /\ work[t][m] = Nil
  BY FreshIsNew
<1>4. /\ accepted' \in [Marks -> Nat]
      /\ \A n \in Marks : accepted'[n] >= accepted[n]
      /\ out.ok /\ c \notin Manual => accepted'[m] > 0
  BY <1>1, <1>2, <1>3, RecordCounts
<1> DEFINE row == [order |-> o, quote |-> Nil, carrier |-> c, batch |-> Nil,
                   status |-> IF out.ok THEN "GENERATED" ELSE "FAILED",
                   ready |-> FALSE]
<1>5. /\ row \in Row /\ row # Nil /\ row.carrier = c /\ row.batch = Nil
      /\ row.status \in {"CREATED", "GENERATED"} => out.ok
  <2>1. /\ row.carrier = c /\ row.batch = Nil
        /\ row.status = IF out.ok THEN "GENERATED" ELSE "FAILED"
    OBVIOUS
  <2>2. (IF out.ok THEN "GENERATED" ELSE "FAILED") \in MarkStatus
    BY DEF MarkStatus
  <2>3. row \in Row
    BY <2>2 DEF Row
  <2> HIDE DEF row
  <2> QED BY <2>1, <2>3, NilAssumption
<1>6. work' = [work EXCEPT ![s][m] = row]
  BY <1>1
<1> HIDE DEF row
<1>7. /\ work' \in [Slots -> [Marks -> Row \cup {Nil}]]
      /\ \A n \in Marks : work'[s][n] = IF n = m THEN row ELSE Nil
      /\ \A t \in Slots \ {s} : work'[t] = work[t]
  BY <1>2, <1>5, <1>6 DEF TypeOK, NoWork
<1>8. /\ req' \in [Slots -> Request]
      /\ req'[s].pc = "insertMark" /\ req'[s].op = "Generate"
      /\ req'[s].batch = Nil /\ req'[s].mark = m
      /\ \A t \in Slots \ {s} : req'[t] = req[t]
  <2> DEFINE q == [pc |-> "insertMark", op |-> "Generate", batch |-> Nil, order |-> o,
                   quote |-> Nil, carrier |-> c, mark |-> m, err |-> "none"]
  <2>1. q \in Request
    BY <1>3 DEF Request, Points, Operations
  <2>2. req' = [req EXCEPT ![s] = q]
    BY <1>1 DEF Begin
  <2> QED BY <1>2, <2>1, <2>2 DEF TypeOK
<1>9. TypeOK'
  BY <1>1, <1>2, <1>3, <1>4, <1>7, <1>8 DEF TypeOK
<1>10. TablesGrow
  BY <1>1, <1>2, <1>4 DEF TablesGrow, TypeOK
<1>11. \A n \in Marks : accepted[n] > 0 => accepted'[n] > 0
  BY <1>2, <1>4 DEF TypeOK
<1>12. TablesInv'
  BY <1>1, <1>2, <1>11 DEF TablesInv, KnownIds, CarrierAgreement, AcceptanceBacked,
                           ClosedAnnouncedOnce, NoResurrection, InBatch
<1>13. HandlerInv(s)'
  <2>1. HeldIds(s)'
    BY <1>1, <1>7, <1>8 DEF HeldIds
  <2>2. CopiesAgree(s)'
    BY <1>1, <1>3, <1>4, <1>5, <1>7 DEF CopiesAgree
  <2>3. ProgramPoint(s)'
    BY <1>3, <1>5, <1>7, <1>8, DispatchAssumption DEF ProgramPoint, At
  <2>4. PrivateUntilInserted(s)'
    BY <1>1, <1>3, <1>7, <1>8 DEF PrivateUntilInserted
  <2> QED BY <1>8, <2>1, <2>2, <2>3, <2>4 DEF HandlerInv, OneAnnouncer, At
<1>14. ASSUME NEW t \in Slots \ {s} PROVE Respects(s, t)
  <2>1. HandlerInv(t) /\ req[t] \in Request
    BY <1>2 DEF DispatchInv, TypeOK
  <2>2. At(t, "insertMark") => /\ req[t].mark \in Marks \ {m}
                               /\ rows[req[t].mark] = Nil
                               /\ req[t].mark \notin removed
    BY <1>3, <2>1 DEF HandlerInv, ProgramPoint, PrivateUntilInserted, Request, At
  <2>3. \A n \in Marks : work[t][n] # Nil /\ rows'[n] # Nil
                         => rows'[n].carrier = work[t][n].carrier
    BY <1>1, <2>1 DEF HandlerInv, CopiesAgree
  <2>4. At(t, "announce") => announced'[req[t].batch] = 0
    BY <1>1, <2>1 DEF HandlerInv, OneAnnouncer
  <2> QED BY <1>1, <1>7, <1>8, <2>2, <2>3, <2>4 DEF Respects
<1> QED BY <1>8, <1>9, <1>10, <1>12, <1>13, <1>14, TableStep

-----------------------------------------------------------------------------
(* The specification. *)

LEMMA InitInv == Init => DispatchInv
<1> SUFFICES ASSUME Init PROVE DispatchInv
  OBVIOUS
<1>1. TypeOK
  BY DEF Init, TypeOK, Idle, NoWork, Request, Points
<1>2. TablesInv
  BY DEF Init, TablesInv, KnownIds, CarrierAgreement, AcceptanceBacked,
         ClosedAnnouncedOnce, NoResurrection, InBatch
<1>3. ManualDraftsComplete
  BY DEF Init, ManualDraftsComplete, NoWork
<1>4. ASSUME NEW s \in Slots PROVE HandlerInv(s)
  BY DispatchAssumption
     DEF Init, HandlerInv, HeldIds, CopiesAgree, ProgramPoint, PrivateUntilInserted,
         OneAnnouncer, At, Idle, NoWork
<1> QED BY <1>1, <1>2, <1>3, <1>4 DEF DispatchInv

LEMMA StutterInv == DispatchInv /\ UNCHANGED vars => DispatchInv'
  BY DEF vars, DispatchInv, TypeOK, TablesInv, KnownIds, CarrierAgreement,
         AcceptanceBacked, ClosedAnnouncedOnce, NoResurrection, InBatch,
         ManualDraftsComplete, HandlerInv, HeldIds, CopiesAgree, ProgramPoint,
         PrivateUntilInserted, OneAnnouncer, At

LEMMA NextInv == DispatchInv /\ [Next]_vars => DispatchInv'
<1> SUFFICES ASSUME DispatchInv, [Next]_vars PROVE DispatchInv'
  OBVIOUS
<1>1. CASE UNCHANGED vars
  BY <1>1, StutterInv
<1>2. ASSUME NEW s \in Slots, Arrive(s) PROVE DispatchInv'
  BY <1>2, CreateBatchKeeps, DraftMarkKeeps, QuoteMarkKeeps, DirectMarkKeeps, CloseKeeps,
     RemoveDraftMarkKeeps, UpdateDraftMarkKeeps, VoidKeeps, GenerateKeeps DEF Arrive
<1>3. ASSUME NEW s \in Slots, Continue(s) PROVE DispatchInv'
  BY <1>3, InsertBatchKeeps, LoadBatchKeeps, FindActiveKeeps, CreateMarkKeeps,
     AddMarkKeeps, ListMarksKeeps, CallCarrierKeeps, SkipMarkKeeps, PersistKeeps,
     CloseBatchKeeps, AnnounceKeeps, DeleteMarkKeeps, LoadDraftKeeps, SaveKeeps,
     InsertMarkKeeps DEF Continue
<1> QED BY <1>1, <1>2, <1>3, PersistFailsKeeps, FailKeeps DEF Next

\* The tables and what every handler holds agree at all times, in every
\* interleaving of requests, failures and crashes (the inductive invariant of the
\* dispatch and mark services).
THEOREM DispatchInvariant == Spec => []DispatchInv
  BY InitInv, NextInv, PTL DEF Spec

\* Variables keep their types: repositories and handlers never store anything
\* outside the row formats.
THEOREM TypeCorrect == Spec => []TypeOK
<1>1. DispatchInv => TypeOK
  BY DEF DispatchInv
<1> QED BY <1>1, DispatchInvariant, PTL

\* A mark assigned to a batch has its carrier (AddMark never checks it, and whole
\* stale copies are written back by Materialize, UpdateDraftMark and Void).
THEOREM CarriersAgree == Spec => []CarrierAgreement
<1>1. DispatchInv => CarrierAgreement
  BY DEF DispatchInv, TablesInv
<1> QED BY <1>1, DispatchInvariant, PTL

\* CREATED and GENERATED rows of remote carriers were accepted by the carrier.
THEOREM AcceptedWhenCreated == Spec => []AcceptanceBacked
<1>1. DispatchInv => AcceptanceBacked
  BY DEF DispatchInv, TablesInv
<1> QED BY <1>1, DispatchInvariant, PTL

\* A deleted mark stays deleted although other handlers still write their copy.
THEOREM DeletedStaysDeleted == Spec => []NoResurrection
<1>1. DispatchInv => NoResurrection
  BY DEF DispatchInv, TablesInv
<1> QED BY <1>1, DispatchInvariant, PTL

\* Close submits complete manual drafts only, whatever UpdateDraftMark does in
\* the meantime.
THEOREM SubmittedManualDraftsComplete == Spec => []ManualDraftsComplete
<1>1. DispatchInv => ManualDraftsComplete
  BY DEF DispatchInv
<1> QED BY <1>1, DispatchInvariant, PTL

-----------------------------------------------------------------------------
(* Dispatch batches implement the abstract life of a batch. *)

\* Only InsertBatch, CloseBatch and Announce touch batches or announcements.
LEMMA OtherStepsKeepBatches ==
  ASSUME NEW s \in Slots, Arrive(s) \/ Continue(s) \/ PersistFails(s) \/ Fail(s),
         ~InsertBatch(s), ~CloseBatch(s), ~Announce(s)
  PROVE  UNCHANGED <<batches, announced>>
<1>1. CASE Arrive(s)
  BY <1>1, ZenonT(60) DEF Arrive, CreateBatch, DraftMark, QuoteMark, DirectMark, Close,
              RemoveDraftMark, UpdateDraftMark, Void, Generate, history
<1>2. CASE Continue(s)
  BY <1>2, ZenonT(60) DEF Continue, LoadBatch, FindActive, CreateMark, AddMark, ListMarks,
              CallCarrier, SkipMark, Persist, DeleteMark, LoadDraft, Save, InsertMark,
              history
<1>3. CASE PersistFails(s) \/ Fail(s)
  BY <1>3 DEF PersistFails, Fail, history
<1> QED BY <1>1, <1>2, <1>3

LEMMA LifecycleInit == Init => Lifecycle!Init
  BY DEF Init, Lifecycle!Init, BatchStatus

LEMMA LifecycleNext == DispatchInv /\ [Next]_vars => [Lifecycle!Next]_Lifecycle!vars
<1> SUFFICES ASSUME DispatchInv, [Next]_vars
             PROVE  [Lifecycle!Next]_Lifecycle!vars
  OBVIOUS
<1> DEFINE status == [b \in Batches |-> BatchStatus(b)]
<1>1. TypeOK
  BY DEF DispatchInv
<1>2. CASE UNCHANGED <<batches, announced>>
  BY <1>2 DEF Lifecycle!vars, BatchStatus
<1>3. ASSUME NEW s \in Slots, InsertBatch(s) PROVE Lifecycle!Next
  <2>1. PICK b \in Batches :
          /\ batches[b] = Nil
          /\ batches' = [batches EXCEPT
               ![b] = [carrier |-> req[s].carrier, status |-> "OPEN"]]
    BY <1>3 DEF InsertBatch
  <2>2. [carrier |-> req[s].carrier, status |-> "OPEN"] \in BatchRow
    BY <1>1, <1>3 DEF DispatchInv, HandlerInv, ProgramPoint, InsertBatch, At, TypeOK,
                      Request, BatchRow
  <2>3. /\ BatchStatus(b) = "none" /\ BatchStatus(b)' = "OPEN"
        /\ \A a \in Batches \ {b} : BatchStatus(a)' = BatchStatus(a)
    BY <1>1, <2>1, <2>2, NilAssumption DEF BatchStatus, TypeOK
  <2>4. status' = [status EXCEPT ![b] = "OPEN"]
    BY <2>3
  <2>5. UNCHANGED announced
    BY <1>3 DEF InsertBatch, history
  <2> QED BY <2>3, <2>4, <2>5 DEF Lifecycle!Next, Lifecycle!Open
<1>4. ASSUME NEW s \in Slots, CloseBatch(s), ~UNCHANGED batches PROVE Lifecycle!Next
  <2>1. PICK b \in Batches :
          /\ IsOpen(b) /\ batches' = [batches EXCEPT ![b].status = "CLOSED"]
          /\ UNCHANGED announced
    BY <1>1, <1>4 DEF DispatchInv, HandlerInv, ProgramPoint, CloseBatch, At, TypeOK,
                      Request, history
  <2>2. batches[b] \in BatchRow
    BY <1>1, <2>1 DEF IsOpen, TypeOK
  <2> DEFINE closed == [batches[b] EXCEPT !.status = "CLOSED"]
  <2>3. closed \in BatchRow /\ closed # Nil /\ closed.status = "CLOSED"
    BY <2>2, NilAssumption DEF BatchRow
  <2>4. batches' = [batches EXCEPT ![b] = closed]
    BY <2>1
  <2> HIDE DEF closed
  <2>5. /\ batches'[b] = closed
        /\ \A a \in Batches \ {b} : batches'[a] = batches[a]
    BY <1>1, <2>1, <2>4 DEF TypeOK
  <2>6. /\ BatchStatus(b) = "OPEN" /\ BatchStatus(b)' = "CLOSED"
        /\ \A a \in Batches \ {b} : BatchStatus(a)' = BatchStatus(a)
    BY <2>1, <2>3, <2>5 DEF BatchStatus, IsOpen
  <2>7. status' = [status EXCEPT ![b] = "CLOSED"]
    BY <2>6
  <2> QED BY <2>1, <2>6, <2>7 DEF Lifecycle!Next, Lifecycle!Close
<1>5. ASSUME NEW s \in Slots, Announce(s) PROVE Lifecycle!Next
  <2> DEFINE b == req[s].batch
  <2>1. /\ b \in Batches /\ batches[b] # Nil
        /\ batches[b].status = "CLOSED" /\ announced[b] = 0
        /\ announced' = [announced EXCEPT ![b] = @ + 1]
        /\ UNCHANGED batches
    BY <1>1, <1>5 DEF DispatchInv, HandlerInv, ProgramPoint, OneAnnouncer, Announce, At,
                      TypeOK, Request
  <2>2. /\ status[b] = "CLOSED" /\ status' = status
        /\ announced' = [announced EXCEPT ![b] = 1]
    BY <1>1, <2>1 DEF BatchStatus, TypeOK
  <2> QED BY <2>1, <2>2 DEF Lifecycle!Next, Lifecycle!Announce
<1>6. ASSUME NEW s \in Slots, CloseBatch(s), UNCHANGED batches
      PROVE  UNCHANGED <<batches, announced>>
  BY <1>6 DEF CloseBatch, history
<1>7. UNCHANGED vars => UNCHANGED <<batches, announced>>
  BY DEF vars
<1> QED BY <1>2, <1>3, <1>4, <1>5, <1>6, <1>7, OtherStepsKeepBatches DEF Next

\* However requests overlap, fail or die, each batch is opened once, closed once
\* and for good, and announced at most once, after it was closed: the services
\* implement BatchLifecycle.
THEOREM ImplementsBatchLifecycle == Spec => BatchesKeepLifecycle
  BY LifecycleInit, LifecycleNext, DispatchInvariant, PTL
     DEF Spec, BatchesKeepLifecycle, Lifecycle!Spec

-----------------------------------------------------------------------------
(* Requests that run one after the other, without faults: the ledger. *)

\* Induction over the natural numbers the marks are: every set of them has a least
\* element, and a bounded one a greatest.
LEMMA LeastNat ==
  ASSUME NEW T \in SUBSET Nat, T # {}
  PROVE  \E x \in T : \A y \in T : x <= y
<1>1. PICK R : R = {ss \in Nat \X Nat : ss[1] < ss[2]}
  OBVIOUS
<1>2. IsWellFoundedOn(R, Nat)
  BY <1>1, NatLessThanWellFounded, Zenon DEF OpToRel
<1>3. PICK x \in T : \A y \in T : ~ (<<y, x>> \in R)
  BY <1>2, WFMin
<1>4. \A y \in T : ~(y < x)
  BY <1>1, <1>3
<1> QED BY <1>4

LEMMA GreatestNat ==
  ASSUME NEW T \in SUBSET Nat, T # {}, NEW k \in Nat, \A y \in T : y <= k
  PROVE  \E x \in T : \A y \in T : y <= x
<1>1. PICK U : U = {k - y : y \in T}
  OBVIOUS
<1>2. U \in SUBSET Nat /\ U # {}
  <2>1. ASSUME NEW y \in T PROVE k - y \in Nat
    <3>1. y \in Nat /\ y <= k
      OBVIOUS
    <3> QED BY <3>1
  <2> QED BY <1>1, <2>1
<1>3. PICK u \in U : \A v \in U : u <= v
  BY <1>2, LeastNat
<1>4. PICK x \in T : u = k - x
  BY <1>1, <1>3
<1>5. ASSUME NEW y \in T PROVE y <= x
  <2>1. k - y \in U
    BY <1>1
  <2>2. k - x <= k - y
    BY <1>3, <1>4, <2>1
  <2> QED BY <2>2
<1> QED BY <1>5

\* The search for an active mark finds one when there is one: a row of the best
\* status, of those the newest.
LEMMA ExistingFound ==
  ASSUME TypeOK, TablesInv, NEW k \in Nat, \A m \in minted : m <= k,
         NEW b \in Batches, NEW o, NEW q, Existing(b, o, q) = {}
  PROVE  Candidates(b, o, q) = {}
<1> SUFFICES ASSUME Candidates(b, o, q) # {} PROVE FALSE
  OBVIOUS
<1>1. PICK C : C = Candidates(b, o, q)
  OBVIOUS
<1>2. /\ C \in SUBSET Nat /\ C \subseteq Marks /\ \A m \in C : m <= k
      /\ \A m \in C : rows[m].status \in {"QUOTED", "GENERATED", "CREATED"}
  BY <1>1, DispatchAssumption DEF Candidates, InBatch, TablesInv, KnownIds, Active
<1>3. \A m \in C : Priority(rows[m].status) =
        IF rows[m].status = "CREATED" THEN 4 ELSE IF rows[m].status = "GENERATED" THEN 3 ELSE 2
  BY <1>2 DEF Priority
<1>4. ASSUME NEW S \in SUBSET C, S # {},
             NEW p \in {2, 3, 4},
             \A m \in S : Priority(rows[m].status) = p,
             \A m \in C \ S : p > Priority(rows[m].status)
      PROVE  FALSE
  <2>1. PICK m \in S : \A n \in S : n <= m
    BY <1>2, <1>4, GreatestNat
  <2>2. m \in Nat /\ \A n \in S : n \in Nat
    BY <1>2
  <2>3. \A n \in C : \/ Priority(rows[m].status) > Priority(rows[n].status)
                     \/ Priority(rows[m].status) = Priority(rows[n].status) /\ m >= n
    BY <1>4, <2>1, <2>2
  <2>4. m \in Existing(b, o, q)
    BY <1>1, <2>3 DEF Existing
  <2> QED BY <2>4
<1>5. PICK S4, S3 : /\ S4 = {m \in C : rows[m].status = "CREATED"}
                    /\ S3 = {m \in C : rows[m].status = "GENERATED"}
  OBVIOUS
<1>6. CASE S4 # {}
  <2>1. /\ \A m \in S4 : Priority(rows[m].status) = 4
        /\ \A m \in C \ S4 : 4 > Priority(rows[m].status)
    BY <1>3, <1>5
  <2> QED BY <1>4, <1>5, <1>6, <2>1
<1>7. CASE S4 = {} /\ S3 # {}
  <2>1. /\ \A m \in S3 : Priority(rows[m].status) = 3
        /\ \A m \in C \ S3 : 3 > Priority(rows[m].status)
    BY <1>3, <1>5, <1>7
  <2> QED BY <1>4, <1>5, <1>7, <2>1
<1>8. CASE S4 = {} /\ S3 = {}
  <2>1. \A m \in C : Priority(rows[m].status) = 2
    BY <1>3, <1>5, <1>8
  <2> QED BY <1>1, <1>4, <2>1
<1> QED BY <1>6, <1>7, <1>8

\* A search that found nothing, for a quotation.
LEMMA NothingInForce ==
  ASSUME NEW b, NEW o, NEW q, Candidates(b, o, q) = {}
  PROVE  \A m \in Marks : ~InForce(m, b, o, q)
  BY DEF Candidates, InForce

-----------------------------------------------------------------------------
(* One request at a time. *)

LEMMA OneHandler ==
  ASSUME OneAtATime, NEW s \in Slots, BooksInOrder', ChecksHold(s)', CopiesCurrent(s)'
  PROVE  LedgerInv'
<1>1. \A t \in Slots : t = s
  BY DEF OneAtATime
<1> QED BY <1>1 DEF LedgerInv

\* The tables stay, and so does who submits a draft of a closed batch.
LEMMA BooksStay ==
  ASSUME OneAtATime, DispatchInv, LedgerInv, NEW s \in Slots, ~At(s, "persist"),
         UNCHANGED <<rows, batches, minted, accepted>>,
         \A b \in Batches : batches[b] # Nil /\ ~IsOpen(b) /\ batches[b].carrier \in Registered
           => \A m \in Drafts(b) : Submits(s, m) => Submits(s, m)'
  PROVE  BooksInOrder'
<1>1. \A t \in Slots : t = s
  BY DEF OneAtATime
<1>2. BooksInOrder
  BY DEF LedgerInv
<1>3. OneOpenBatchPerCarrier' /\ AcceptedOnce'
  BY <1>2 DEF BooksInOrder, OneOpenBatchPerCarrier, AcceptedOnce, IsOpen
<1>4. (\A m \in Marks \ minted : accepted[m] = 0)'
  BY <1>2 DEF BooksInOrder
<1>5. (\A m \in Marks :
         rows[m] # Nil /\ rows[m].status = "QUOTED" /\ accepted[m] # 0
           => \E t \in Slots : At(t, "persist") /\ req[t].mark = m)'
  BY <1>1, <1>2 DEF BooksInOrder, At
<1>6. (\A b \in Batches, m, n \in Marks :
       /\ InBatch(m, b) /\ rows[m].status \in Active
       /\ InForce(n, b, rows[m].order, rows[m].quote)
       => m = n)'
  BY <1>2 DEF BooksInOrder, InBatch, InForce
<1>7. (\A b \in Batches :
       batches[b] # Nil /\ ~IsOpen(b) /\ batches[b].carrier \in Registered
         => \A m \in Drafts(b) : \E t \in Slots : Submits(t, m))'
  BY <1>1, <1>2 DEF BooksInOrder, IsOpen, Drafts, InBatch
<1> QED BY <1>3, <1>4, <1>5, <1>6, <1>7 DEF BooksInOrder

\* The handler returns: nothing it held matters any more.
LEMMA FinishedLedger ==
  ASSUME OneAtATime, DispatchInv, NEW s \in Slots, Finish(s), BooksInOrder'
  PROVE  LedgerInv'
<1>1. req'[s] = Idle /\ work'[s] = NoWork
  BY FinishClears DEF DispatchInv
<1>2. req'[s].pc = "idle"
  BY <1>1 DEF Idle
<1>3. ChecksHold(s)'
  BY <1>2 DEF ChecksHold, SeenNoMark, At
<1>4. CopiesCurrent(s)'
  BY <1>1, <1>2 DEF CopiesCurrent, EmptyHanded, Points, At
<1> QED BY <1>3, <1>4, OneHandler

\* A step that only ends the request, which was about to submit nothing.
LEMMA EndsLedger ==
  ASSUME OneAtATime, DispatchInv, LedgerInv, NEW s \in Slots, Finish(s),
         ~At(s, "persist"), \A m \in Marks : ~Submits(s, m),
         UNCHANGED <<rows, batches, minted, accepted>>
  PROVE  LedgerInv'
<1>1. BooksInOrder'
  BY BooksStay DEF Drafts
<1> QED BY <1>1, FinishedLedger

\* A request arrives, or goes on, with nothing in its hands.
LEMMA EmptyLedger ==
  ASSUME OneAtATime, DispatchInv, LedgerInv, NEW s \in Slots,
         req[s].pc \in EmptyHanded, UNCHANGED <<rows, batches, work, minted, accepted>>,
         req'[s].pc \in EmptyHanded, ChecksHold(s)',
         req'[s].pc # "closeBatch",
         req'[s].pc = "delete" =>
           rows[req'[s].mark] # Nil /\ rows[req'[s].mark].status = "QUOTED"
  PROVE  LedgerInv'
<1>1. req[s].pc \notin {"addMark", "carrier", "persist", "save", "insertMark"}
  BY DEF EmptyHanded
<1>2. req'[s].pc \notin {"addMark", "carrier", "persist", "save", "insertMark"}
  BY DEF EmptyHanded
<1>3. BooksInOrder'
  <2>1. \A m \in Marks : ~Submits(s, m)
    BY <1>1 DEF Submits
  <2> QED BY <1>1, <2>1, BooksStay DEF Drafts, At
<1>4. work[s] = NoWork
  BY DEF LedgerInv, CopiesCurrent
<1>5. CopiesCurrent(s)'
  BY <1>2, <1>4 DEF CopiesCurrent, At
<1> QED BY <1>3, <1>5, OneHandler

-----------------------------------------------------------------------------
(* Requests that arrive. *)

LEMMA Begun ==
  ASSUME TypeOK, NEW s \in Slots, NEW o, NEW p, NEW b, NEW ord, NEW q, NEW c, NEW m,
         Begin(s, o, p, b, ord, q, c, m)
  PROVE  /\ At(s, "idle") /\ req[s].pc \in EmptyHanded
         /\ req'[s].pc = p /\ req'[s].op = o /\ req'[s].batch = b /\ req'[s].order = ord
         /\ req'[s].quote = q /\ req'[s].carrier = c /\ req'[s].mark = m
<1>1. PICK r : r = [pc |-> p, op |-> o, batch |-> b, order |-> ord, quote |-> q,
                    carrier |-> c, mark |-> m, err |-> "none"]
  OBVIOUS
<1>2. req' = [req EXCEPT ![s] = r] /\ req[s].pc = "idle"
  BY <1>1 DEF Begin
<1>3. req'[s] = r
  BY <1>2 DEF TypeOK
<1>4. "idle" \in EmptyHanded
  BY DEF EmptyHanded, Points
<1> QED BY <1>1, <1>2, <1>3, <1>4 DEF At

LEMMA CreateBatchLedger ==
  ASSUME OneAtATime, DispatchInv, LedgerInv, NEW s \in Slots, NEW c \in Carriers,
         CreateBatch(s, c)
  PROVE  LedgerInv'
<1>1. /\ req[s].pc \in EmptyHanded /\ req'[s].pc = "insertBatch" /\ req'[s].carrier = c
      /\ UNCHANGED <<rows, batches, work, minted, accepted>>
      /\ \A b \in Batches : IsOpen(b) => batches[b].carrier # c
  BY Begun DEF CreateBatch, DispatchInv, history
<1>2. ChecksHold(s)'
  BY <1>1 DEF ChecksHold, SeenNoMark, At, IsOpen
<1>3. "insertBatch" \in EmptyHanded
  BY DEF EmptyHanded, Points
<1> QED BY <1>1, <1>2, <1>3, EmptyLedger

LEMMA DraftMarkLedger ==
  ASSUME OneAtATime, DispatchInv, LedgerInv, NEW s \in Slots,
         NEW b \in Batches, NEW o \in Orders, NEW q \in Quotes \cup {Nil},
         DraftMark(s, b, o, q)
  PROVE  LedgerInv'
<1>1. /\ req[s].pc \in EmptyHanded /\ req'[s].pc = "findActive" /\ req'[s].batch = b
      /\ UNCHANGED <<rows, batches, work, minted, accepted>> /\ IsOpen(b)
  BY Begun DEF DraftMark, DispatchInv, history
<1>2. ChecksHold(s)'
  BY <1>1 DEF ChecksHold, SeenNoMark, At, IsOpen
<1>3. "findActive" \in EmptyHanded
  BY DEF EmptyHanded, Points
<1> QED BY <1>1, <1>2, <1>3, EmptyLedger

LEMMA QuoteMarkLedger ==
  ASSUME OneAtATime, DispatchInv, LedgerInv, NEW s \in Slots,
         NEW b \in Batches, NEW o \in Orders, NEW q \in Quotes, QuoteMark(s, b, o, q)
  PROVE  LedgerInv'
<1>1. /\ req[s].pc \in EmptyHanded /\ req'[s].pc = "loadBatch" /\ req'[s].op = "QuoteMark"
      /\ UNCHANGED <<rows, batches, work, minted, accepted>>
  BY Begun DEF QuoteMark, DispatchInv, history
<1>2. ChecksHold(s)'
  BY <1>1 DEF ChecksHold, SeenNoMark, At
<1>3. "loadBatch" \in EmptyHanded
  BY DEF EmptyHanded, Points
<1> QED BY <1>1, <1>2, <1>3, EmptyLedger

LEMMA CloseLedger ==
  ASSUME OneAtATime, DispatchInv, LedgerInv, NEW s \in Slots, NEW b \in Batches, Close(s, b)
  PROVE  LedgerInv'
<1>1. /\ req[s].pc \in EmptyHanded /\ req'[s].pc = "listMarks"
      /\ UNCHANGED <<rows, batches, work, minted, accepted>>
  BY Begun DEF Close, DispatchInv, history
<1>2. ChecksHold(s)'
  BY <1>1 DEF ChecksHold, SeenNoMark, At
<1>3. "listMarks" \in EmptyHanded
  BY DEF EmptyHanded, Points
<1> QED BY <1>1, <1>2, <1>3, EmptyLedger

LEMMA RemoveDraftMarkLedger ==
  ASSUME OneAtATime, DispatchInv, LedgerInv, NEW s \in Slots, NEW m \in Marks,
         RemoveDraftMark(s, m)
  PROVE  LedgerInv'
<1>1. /\ req[s].pc \in EmptyHanded /\ req'[s].pc = "delete" /\ req'[s].mark = m
      /\ UNCHANGED <<rows, batches, work, minted, accepted>>
      /\ rows[m] # Nil /\ rows[m].status = "QUOTED"
  BY Begun DEF RemoveDraftMark, DispatchInv, history
<1>2. ChecksHold(s)'
  BY <1>1 DEF ChecksHold, SeenNoMark, At
<1>3. "delete" \in EmptyHanded
  BY DEF EmptyHanded, Points
<1> QED BY <1>1, <1>2, <1>3, EmptyLedger

LEMMA UpdateDraftMarkLedger ==
  ASSUME OneAtATime, DispatchInv, LedgerInv, NEW s \in Slots,
         NEW b \in Batches, NEW m \in Marks, UpdateDraftMark(s, b, m)
  PROVE  LedgerInv'
<1>1. /\ req[s].pc \in EmptyHanded /\ req'[s].pc = "loadDraft"
      /\ UNCHANGED <<rows, batches, work, minted, accepted>>
  BY Begun DEF UpdateDraftMark, DispatchInv, history
<1>2. ChecksHold(s)'
  BY <1>1 DEF ChecksHold, SeenNoMark, At
<1>3. "loadDraft" \in EmptyHanded
  BY DEF EmptyHanded, Points
<1> QED BY <1>1, <1>2, <1>3, EmptyLedger

\* Void holds a copy of the row with the new status from the start.
LEMMA VoidLedger ==
  ASSUME OneAtATime, DispatchInv, LedgerInv, NEW s \in Slots, NEW m \in Marks, Void(s, m)
  PROVE  LedgerInv'
<1>1. /\ At(s, "idle") /\ req'[s].pc = "save" /\ req'[s].mark = m
      /\ UNCHANGED <<rows, batches, minted, accepted>> /\ rows[m] # Nil
  BY Begun DEF Void, DispatchInv, history
<1>2. PICK x : x = [rows[m] EXCEPT !.status = "VOIDED"]
  OBVIOUS
<1>3. work' = [work EXCEPT ![s] = [work[s] EXCEPT ![m] = x]]
  BY <1>2 DEF Void
<1>4. work'[s][m] = x
  BY <1>3 DEF DispatchInv, TypeOK
<1>5. ChecksHold(s)'
  BY <1>1 DEF ChecksHold, SeenNoMark, At
<1>6. "save" \notin EmptyHanded
  BY DEF EmptyHanded
<1>7. CopiesCurrent(s)'
  BY <1>1, <1>2, <1>4, <1>6 DEF CopiesCurrent, At
<1>8. BooksInOrder'
  BY <1>1, BooksStay DEF Submits, Drafts, At
<1> QED BY <1>5, <1>7, <1>8, OneHandler

\* A search that found no mark, or the draft that is submitted now.
LEMMA DirectMarkLedger ==
  ASSUME OneAtATime, DispatchInv, LedgerInv, NEW s \in Slots,
         NEW k \in Nat, \A m \in minted : m <= k,
         NEW b \in Batches, NEW o \in Orders, NEW q \in Quotes, DirectMark(s, b, o, q)
  PROVE  LedgerInv'
<1>1. CASE /\ Existing(b, o, q) = {}
           /\ Begin(s, "DirectMark", "loadBatch", b, o, q, Nil, Nil)
           /\ UNCHANGED work
  <2>1. /\ req[s].pc \in EmptyHanded /\ req'[s].pc = "loadBatch" /\ req'[s].op = "DirectMark"
        /\ req'[s].batch = b /\ req'[s].order = o /\ req'[s].quote = q
        /\ UNCHANGED <<rows, batches, work, minted, accepted>>
    BY <1>1, Begun DEF DirectMark, DispatchInv, history
  <2>2. \A m \in Marks : ~InForce(m, b, o, q)
    BY <1>1, ExistingFound, NothingInForce DEF DispatchInv
  <2>3. ChecksHold(s)'
    BY <2>1, <2>2 DEF ChecksHold, SeenNoMark, At, InForce, InBatch
  <2>4. "loadBatch" \in EmptyHanded
    BY DEF EmptyHanded, Points
  <2> QED BY <2>1, <2>3, <2>4, EmptyLedger
<1>2. ASSUME NEW m \in Existing(b, o, q), rows[m].status = "QUOTED",
             Begin(s, "DirectMark", "carrier", b, o, q, Nil, m),
             work' = [work EXCEPT ![s][m] = rows[m]]
      PROVE  LedgerInv'
  <2>1. /\ At(s, "idle") /\ req[s].pc \in EmptyHanded
        /\ req'[s].pc = "carrier" /\ req'[s].op = "DirectMark" /\ req'[s].mark = m
        /\ UNCHANGED <<rows, batches, minted, accepted>>
    BY <1>2, Begun DEF DirectMark, DispatchInv, history
  <2>2. m \in Marks /\ rows[m] # Nil
    BY <1>2 DEF Existing, Candidates, InBatch
  <2>3. work[s] = NoWork
    BY <2>1 DEF LedgerInv, CopiesCurrent
  <2>4. work'[s] = [work[s] EXCEPT ![m] = rows[m]]
    BY <1>2 DEF DispatchInv, TypeOK
  <2>5. work'[s][m] = rows[m] /\ \A n \in Marks \ {m} : work'[s][n] = Nil
    BY <2>2, <2>3, <2>4 DEF NoWork
  <2>6. Pending(s)' = {m}
    BY <2>2, <2>5 DEF Pending
  <2>7. DraftsAsRead(s)'
    BY <1>2, <2>1, <2>2, <2>5, <2>6 DEF DraftsAsRead, At
  <2>8. "carrier" \notin EmptyHanded
    BY DEF EmptyHanded
  <2>9. CopiesCurrent(s)'
    BY <2>1, <2>6, <2>7, <2>8 DEF CopiesCurrent, At
  <2>10. ChecksHold(s)'
    BY <2>1 DEF ChecksHold, SeenNoMark, At
  <2>11. BooksInOrder'
    BY <2>1, BooksStay DEF Submits, Drafts, At
  <2> QED BY <2>9, <2>10, <2>11, OneHandler
<1> QED BY <1>1, <1>2 DEF DirectMark

-----------------------------------------------------------------------------
(* A handler goes on without touching the tables. *)

LEMMA LoadBatchLedger ==
  ASSUME OneAtATime, DispatchInv, LedgerInv, NEW s \in Slots, LoadBatch(s)
  PROVE  LedgerInv'
<1>1. /\ At(s, "loadBatch") /\ UNCHANGED <<rows, batches, minted, accepted>>
      /\ req[s].pc \in EmptyHanded
  BY DEF LoadBatch, history, At, EmptyHanded, Points
<1>2. ChecksHold(s)
  BY DEF LedgerInv
<1>3. CASE Finish(s)
  BY <1>1, <1>3, EndsLedger DEF Submits, At
<1>4. CASE req[s].op = "DirectMark" /\ Goto(s, "createMark") /\ UNCHANGED work
  <2>1. /\ req'[s].pc = "createMark" /\ req'[s].op = "DirectMark" /\ req'[s].batch = req[s].batch
        /\ req'[s].order = req[s].order /\ req'[s].quote = req[s].quote
    BY <1>4, GotoMoves DEF DispatchInv, Points
  <2>2. ChecksHold(s)'
    BY <1>1, <1>2, <1>4, <2>1 DEF ChecksHold, SeenNoMark, At, InForce, InBatch
  <2>3. "createMark" \in EmptyHanded
    BY DEF EmptyHanded, Points
  <2> QED BY <1>1, <1>4, <2>1, <2>2, <2>3, EmptyLedger
<1>5. CASE IsOpen(req[s].batch) /\ Goto(s, "findActive") /\ UNCHANGED work
  <2>1. req'[s].pc = "findActive" /\ req'[s].batch = req[s].batch
    BY <1>5, GotoMoves DEF DispatchInv, Points
  <2>2. ChecksHold(s)'
    BY <1>1, <1>5, <2>1 DEF ChecksHold, SeenNoMark, At, IsOpen
  <2>3. "findActive" \in EmptyHanded
    BY DEF EmptyHanded, Points
  <2> QED BY <1>1, <1>5, <2>1, <2>2, <2>3, EmptyLedger
<1> QED BY <1>3, <1>4, <1>5 DEF LoadBatch

LEMMA FindActiveLedger ==
  ASSUME OneAtATime, DispatchInv, LedgerInv, NEW s \in Slots,
         NEW k \in Nat, \A m \in minted : m <= k, FindActive(s)
  PROVE  LedgerInv'
<1>1. /\ At(s, "findActive") /\ UNCHANGED <<rows, batches, minted, accepted>>
      /\ req[s].pc \in EmptyHanded
  BY DEF FindActive, history, At, EmptyHanded, Points
<1>2. ChecksHold(s) /\ req[s].batch \in Batches
  BY <1>1 DEF LedgerInv, DispatchInv, HandlerInv, ProgramPoint, TypeOK, Request, At
<1>3. CASE Finish(s)
  BY <1>1, <1>3, EndsLedger DEF Submits, At
<1>4. CASE /\ Existing(req[s].batch, req[s].order, req[s].quote) = {}
           /\ Goto(s, "createMark") /\ UNCHANGED work
  <2>1. /\ req'[s].pc = "createMark" /\ req'[s].op = req[s].op /\ req'[s].batch = req[s].batch
        /\ req'[s].order = req[s].order /\ req'[s].quote = req[s].quote
    BY <1>4, GotoMoves DEF DispatchInv, Points
  <2>2. \A m \in Marks : ~InForce(m, req[s].batch, req[s].order, req[s].quote)
    BY <1>2, <1>4, ExistingFound, NothingInForce DEF DispatchInv
  <2>3. ChecksHold(s)'
    BY <1>1, <1>2, <2>1, <2>2 DEF ChecksHold, SeenNoMark, At, InForce, InBatch, IsOpen
  <2>4. "createMark" \in EmptyHanded
    BY DEF EmptyHanded, Points
  <2> QED BY <1>1, <1>4, <2>1, <2>3, <2>4, EmptyLedger
<1> QED BY <1>3, <1>4 DEF FindActive

LEMMA ListMarksLedger ==
  ASSUME OneAtATime, DispatchInv, LedgerInv, NEW s \in Slots, ListMarks(s)
  PROVE  LedgerInv'
<1>1. /\ At(s, "listMarks") /\ UNCHANGED <<rows, batches, minted, accepted>>
      /\ req[s].op = "Close"
  BY DEF ListMarks, history, DispatchInv, HandlerInv, ProgramPoint
<1>2. CASE Finish(s)
  BY <1>1, <1>2, EndsLedger DEF Submits, At
<1>3. ASSUME NEW p \in {"closeBatch", "carrier"}, Goto(s, p),
             p = "closeBatch" <=> Drafts(req[s].batch) = {},
             work' = [work EXCEPT ![s] =
                       [m \in Marks |-> IF m \in Drafts(req[s].batch) THEN rows[m] ELSE Nil]]
      PROVE  LedgerInv'
  <2>1. req'[s].pc = p /\ req'[s].op = "Close" /\ req'[s].batch = req[s].batch
    BY <1>1, <1>3, GotoMoves DEF DispatchInv, Points
  <2>2. work'[s] = [m \in Marks |-> IF m \in Drafts(req[s].batch) THEN rows[m] ELSE Nil]
    BY <1>3 DEF DispatchInv, TypeOK
  <2>3. \A m \in Drafts(req[s].batch) : m \in Marks /\ rows[m] # Nil /\ rows[m].status = "QUOTED"
    BY DEF Drafts, InBatch
  <2>4. Pending(s)' = Drafts(req[s].batch)
    BY <2>2, <2>3 DEF Pending
  <2>5. DraftsAsRead(s)'
    BY <1>1, <2>1, <2>2, <2>3, <2>4 DEF DraftsAsRead, At
  <2>6. p = "closeBatch" => work'[s] = NoWork
    BY <1>3, <2>2 DEF NoWork
  <2>7. "carrier" \notin EmptyHanded
    BY DEF EmptyHanded
  <2>9. Drafts(req[s].batch)' \subseteq Pending(s)'
    BY <1>1, <2>1, <2>4 DEF Drafts, InBatch
  <2>10. CopiesCurrent(s)'
    BY <2>1, <2>5, <2>6, <2>7, <2>9 DEF CopiesCurrent, At
  <2>11. ChecksHold(s)'
    BY <2>1 DEF ChecksHold, SeenNoMark, At
  <2>12. BooksInOrder'
    BY <1>1, BooksStay DEF Submits, At
  <2> QED BY <2>10, <2>11, <2>12, OneHandler
<1> QED BY <1>2, <1>3 DEF ListMarks

LEMMA LoadDraftLedger ==
  ASSUME OneAtATime, DispatchInv, LedgerInv, NEW s \in Slots, LoadDraft(s)
  PROVE  LedgerInv'
<1>1. /\ At(s, "loadDraft") /\ UNCHANGED <<rows, batches, minted, accepted>>
  BY DEF LoadDraft, history
<1>2. CASE Finish(s)
  BY <1>1, <1>2, EndsLedger DEF Submits, At
<1>3. ASSUME req[s].mark \in Drafts(req[s].batch), NEW r \in BOOLEAN, Goto(s, "save"),
             work' = [work EXCEPT ![s][req[s].mark] = [rows[req[s].mark] EXCEPT !.ready = r]]
      PROVE  LedgerInv'
  <2>1. PICK m, x : m = req[s].mark /\ x = [rows[m] EXCEPT !.ready = r]
    OBVIOUS
  <2>2. m \in Marks /\ rows[m] # Nil /\ rows[m].status = "QUOTED"
    BY <1>3, <2>1 DEF Drafts, InBatch
  <2>3. req'[s].pc = "save" /\ req'[s].mark = m
    BY <1>3, <2>1, GotoMoves DEF DispatchInv, Points
  <2>4. work' = [work EXCEPT ![s] = [work[s] EXCEPT ![m] = x]]
    BY <1>3, <2>1
  <2>5. work'[s][m] = x
    BY <2>2, <2>4 DEF DispatchInv, TypeOK
  <2>6. "save" \notin EmptyHanded
    BY DEF EmptyHanded
  <2>7. CopiesCurrent(s)'
    BY <1>1, <2>1, <2>2, <2>3, <2>5, <2>6 DEF CopiesCurrent, At
  <2>8. ChecksHold(s)'
    BY <2>3 DEF ChecksHold, SeenNoMark, At
  <2>9. BooksInOrder'
    BY <1>1, BooksStay DEF Submits, At
  <2> QED BY <2>7, <2>8, <2>9, OneHandler
<1> QED BY <1>2, <1>3 DEF LoadDraft

LEMMA AnnounceLedger ==
  ASSUME OneAtATime, DispatchInv, LedgerInv, NEW s \in Slots, Announce(s)
  PROVE  LedgerInv'
  BY EndsLedger DEF Announce, Submits, At

\* A mark is dealt with: the other drafts are as they were, and this one is none
\* of a batch that can be submitted.
LEMMA AfterMarkLedger ==
  ASSUME OneAtATime, DispatchInv, LedgerInv, NEW s \in Slots, NEW m \in Marks,
         AfterMark(s, m), req[s].pc \in {"carrier", "persist"},
         m \in Pending(s), At(s, "persist") => req[s].mark = m,
         batches' = batches, \A n \in Marks \ {m} : rows'[n] = rows[n],
         batches[req[s].batch].carrier \in Registered /\ rows'[m] # Nil =>
           rows'[m].batch # req[s].batch \/ rows'[m].status # "QUOTED",
         BooksInOrder'
  PROVE  LedgerInv'
<1>1. CASE Finish(s)
  BY <1>1, FinishedLedger
<1>2. ASSUME NEW p \in {"closeBatch", "carrier"},
             req[s].op = "Close", p = "closeBatch" <=> Pending(s) = {m},
             work' = [work EXCEPT ![s][m] = Nil],
             req' = [req EXCEPT ![s].pc = p, ![s].mark = Nil, ![s].err = "none"]
      PROVE  LedgerInv'
  <2>1. PICK r : r = [req[s] EXCEPT !.pc = p, !.mark = Nil, !.err = "none"]
    OBVIOUS
  <2>2. r.pc = p /\ r.op = "Close" /\ r.batch = req[s].batch
    BY <1>2, <2>1 DEF DispatchInv, TypeOK, Request
  <2>3. req'[s] = r
    BY <1>2, <2>1 DEF DispatchInv, TypeOK
  <2>4. work'[s] = [work[s] EXCEPT ![m] = Nil]
    BY <1>2 DEF DispatchInv, TypeOK
  <2>5. /\ work'[s] \in [Marks -> Row \cup {Nil}]
        /\ work'[s][m] = Nil /\ \A n \in Marks \ {m} : work'[s][n] = work[s][n]
    BY <2>4 DEF DispatchInv, TypeOK
  <2>6. Pending(s)' = Pending(s) \ {m}
    BY <2>5 DEF Pending
  <2>7. /\ DraftsAsRead(s)
        /\ batches[req[s].batch].carrier \in Registered => Drafts(req[s].batch) \subseteq Pending(s)
    BY <1>2 DEF LedgerInv, CopiesCurrent, At
  <2>8. DraftsAsRead(s)'
    <3>1. ASSUME NEW n \in Pending(s) \ {m}
          PROVE  /\ n \in Marks \ {m} /\ rows[n] # Nil /\ rows[n].status = "QUOTED"
                 /\ work[s][n] = rows[n]
      BY <2>7, <3>1 DEF DraftsAsRead, Pending, At
    <3>2. p # "persist"
      OBVIOUS
    <3> QED BY <2>2, <2>3, <2>5, <2>6, <3>1, <3>2 DEF DraftsAsRead, At
  <2>9. batches[req[s].batch].carrier \in Registered => Drafts(req[s].batch)' \subseteq Pending(s)'
    BY <2>2, <2>3, <2>6, <2>7 DEF Drafts, InBatch
  <2>10. p = "closeBatch" => work'[s] = NoWork
    <3>1. SUFFICES ASSUME p = "closeBatch" PROVE work'[s] = NoWork
      OBVIOUS
    <3>2. \A n \in Marks : work'[s][n] = Nil
      BY <1>2, <2>6, <3>1 DEF Pending
    <3> QED BY <2>5, <3>2 DEF NoWork
  <2>11. "carrier" \notin EmptyHanded
    BY DEF EmptyHanded
  <2>12. CopiesCurrent(s)'
    BY <2>2, <2>3, <2>8, <2>9, <2>10, <2>11 DEF CopiesCurrent, At
  <2>13. ChecksHold(s)'
    BY <2>2, <2>3 DEF ChecksHold, SeenNoMark, At
  <2> QED BY <2>12, <2>13, OneHandler
<1>3. CASE ~Finish(s)
  <2>1. PICK p : p = IF Pending(s) = {m} THEN "closeBatch" ELSE "carrier"
    OBVIOUS
  <2>2. /\ req[s].op = "Close" /\ work' = [work EXCEPT ![s][m] = Nil]
        /\ req' = [req EXCEPT ![s].pc = p, ![s].mark = Nil, ![s].err = "none"]
    BY <1>3, <2>1, Zenon DEF AfterMark
  <2>3. p \in {"closeBatch", "carrier"} /\ (p = "closeBatch" <=> Pending(s) = {m})
    BY <2>1
  <2> QED BY <1>2, <2>2, <2>3, Zenon
<1> QED BY <1>1, <1>3

LEMMA SkipMarkLedger ==
  ASSUME OneAtATime, DispatchInv, LedgerInv, NEW s \in Slots, SkipMark(s)
  PROVE  LedgerInv'
<1>1. PICK m \in Marks : /\ Turn(s, m) /\ work[s][m].carrier \notin Registered
                         /\ AfterMark(s, m)
  BY DEF SkipMark
<1>2. /\ At(s, "carrier") /\ UNCHANGED <<rows, batches, minted, accepted>> /\ m \in Pending(s)
  BY <1>1 DEF SkipMark, history, Turn
<1>3. /\ rows[m] # Nil /\ rows[m] = work[s][m]
      /\ req[s].op # "Close" => req[s].mark = m
  <2>1. DraftsAsRead(s) /\ (req[s].op # "Close" => Pending(s) = {req[s].mark})
    BY <1>2 DEF LedgerInv, CopiesCurrent, At
  <2>2. rows[m] # Nil /\ rows[m] = work[s][m]
    BY <1>2, <2>1 DEF DraftsAsRead, At
  <2> QED BY <1>2, <2>1, <2>2
<1>4. \A b \in Batches : batches[b].carrier \in Registered => m \notin Drafts(b)
  BY <1>1, <1>3 DEF DispatchInv, TablesInv, CarrierAgreement, Drafts
<1>5. BooksInOrder'
  BY <1>2, <1>3, <1>4, BooksStay DEF Submits, At
<1>6. req[s].batch \in Batches
  BY <1>2 DEF DispatchInv, HandlerInv, ProgramPoint, TypeOK, Request, At
<1>7. batches[req[s].batch].carrier \in Registered /\ rows'[m] # Nil =>
        rows'[m].batch # req[s].batch \/ rows'[m].status # "QUOTED"
  BY <1>2, <1>4, <1>6 DEF Drafts, InBatch
<1> QED BY <1>1, <1>2, <1>5, <1>7, AfterMarkLedger DEF At

-----------------------------------------------------------------------------
(* A handler writes to the tables. *)

\* One row is written, which has not been accepted as a draft, rivals no other
\* row, and is a draft of a closed batch only on its way to the carrier.
LEMMA RowWritten ==
  ASSUME OneAtATime, DispatchInv, LedgerInv, NEW s \in Slots, NEW m \in Marks,
         \A n \in Marks \ {m} : rows'[n] = rows[n],
         UNCHANGED <<batches, accepted>>, minted \subseteq minted',
         At(s, "persist") => req[s].mark = m,
         rows'[m] # Nil /\ rows'[m].status = "QUOTED" => accepted[m] = 0,
         \A b \in Batches :
           rows'[m] # Nil /\ rows'[m].batch = b /\ rows'[m].status \in Active =>
             \A n \in Marks \ {m} : ~InForce(n, b, rows'[m].order, rows'[m].quote),
         \A n \in Marks \ {m} : ~Submits(s, n),
         \A b \in Batches : batches[b] # Nil /\ ~IsOpen(b) /\ batches[b].carrier \in Registered
           /\ m \in Drafts(b)' => Submits(s, m)'
  PROVE  BooksInOrder'
<1>1. \A t \in Slots : t = s
  BY DEF OneAtATime
<1>2. BooksInOrder
  BY DEF LedgerInv
<1>3. OneOpenBatchPerCarrier' /\ AcceptedOnce'
  BY <1>2 DEF BooksInOrder, OneOpenBatchPerCarrier, AcceptedOnce, IsOpen
<1>4. (\A n \in Marks \ minted : accepted[n] = 0)'
  BY <1>2 DEF BooksInOrder
<1>5. (\A n \in Marks :
         rows[n] # Nil /\ rows[n].status = "QUOTED" /\ accepted[n] # 0
           => \E t \in Slots : At(t, "persist") /\ req[t].mark = n)'
  <2>1. SUFFICES ASSUME NEW n \in Marks, rows'[n] # Nil, rows'[n].status = "QUOTED",
                        accepted[n] # 0
                 PROVE  FALSE
    OBVIOUS
  <2>2. n # m /\ rows'[n] = rows[n]
    BY <2>1
  <2>3. At(s, "persist") /\ req[s].mark = n
    BY <1>1, <1>2, <2>1, <2>2 DEF BooksInOrder
  <2> QED BY <2>2, <2>3
<1>6. (\A b \in Batches, x, n \in Marks :
       /\ InBatch(x, b) /\ rows[x].status \in Active
       /\ InForce(n, b, rows[x].order, rows[x].quote)
       => x = n)'
  <2>1. SUFFICES ASSUME NEW b \in Batches, NEW x \in Marks, NEW n \in Marks, x # n,
                        InBatch(x, b)', rows'[x].status \in Active,
                        InForce(n, b, rows[x].order, rows[x].quote)'
                 PROVE  FALSE
    OBVIOUS
  <2>2. CASE x = m
    <3>1. InForce(n, b, rows'[m].order, rows'[m].quote)
      BY <2>1, <2>2 DEF InForce, InBatch
    <3> QED BY <2>1, <2>2, <3>1 DEF InBatch
  <2>3. CASE n = m
    <3>1. InForce(x, b, rows'[m].order, rows'[m].quote)
      BY <2>1, <2>3 DEF InForce, InBatch
    <3> QED BY <2>1, <2>3, <3>1 DEF InForce, InBatch
  <2>4. CASE x # m /\ n # m
    BY <1>2, <2>1, <2>4 DEF BooksInOrder, InForce, InBatch
  <2> QED BY <2>2, <2>3, <2>4
<1>7. (\A b \in Batches :
       batches[b] # Nil /\ ~IsOpen(b) /\ batches[b].carrier \in Registered
         => \A d \in Drafts(b) : \E t \in Slots : Submits(t, d))'
  <2>1. SUFFICES ASSUME NEW b \in Batches, batches[b] # Nil, ~IsOpen(b),
                        batches[b].carrier \in Registered, NEW d \in Marks, d \in Drafts(b)'
                 PROVE  Submits(s, d)'
    BY DEF IsOpen, Drafts
  <2>2. CASE d = m
    BY <2>1, <2>2
  <2>3. CASE d # m
    <3>1. d \in Drafts(b)
      BY <2>1, <2>3 DEF Drafts, InBatch
    <3>2. Submits(s, d)
      BY <1>1, <1>2, <2>1, <3>1 DEF BooksInOrder
    <3> QED BY <2>3, <3>2
  <2> QED BY <2>2, <2>3
<1> QED BY <1>3, <1>4, <1>5, <1>6, <1>7 DEF BooksInOrder

LEMMA InsertBatchLedger ==
  ASSUME OneAtATime, DispatchInv, LedgerInv, NEW s \in Slots, InsertBatch(s)
  PROVE  LedgerInv'
<1>0. PICK x : x = [carrier |-> req[s].carrier, status |-> "OPEN"]
  OBVIOUS
<1>1. PICK b \in Batches :
        /\ x = [carrier |-> req[s].carrier, status |-> "OPEN"]
        /\ batches[b] = Nil /\ batches' = [batches EXCEPT ![b] = x]
        /\ At(s, "insertBatch") /\ Finish(s) /\ UNCHANGED <<rows, minted, accepted>>
  BY <1>0 DEF InsertBatch, history
<1>2. /\ batches'[b] = x /\ x.carrier = req[s].carrier /\ x.status = "OPEN"
      /\ \A a \in Batches \ {b} : batches'[a] = batches[a]
  BY <1>1 DEF DispatchInv, TypeOK
<1>3. /\ \A t \in Slots : t = s
      /\ BooksInOrder
      /\ \A a \in Batches : IsOpen(a) => batches[a].carrier # req[s].carrier
  BY <1>1 DEF OneAtATime, LedgerInv, ChecksHold
<1>4. OneOpenBatchPerCarrier'
  BY <1>1, <1>2, <1>3 DEF BooksInOrder, OneOpenBatchPerCarrier, IsOpen
<1>5. AcceptedOnce' /\ (\A m \in Marks \ minted : accepted[m] = 0)'
  BY <1>1, <1>3 DEF BooksInOrder, AcceptedOnce
<1>6. (\A m \in Marks :
         rows[m] # Nil /\ rows[m].status = "QUOTED" /\ accepted[m] # 0
           => \E t \in Slots : At(t, "persist") /\ req[t].mark = m)'
  BY <1>1, <1>3 DEF BooksInOrder, At
<1>7. (\A a \in Batches, m, n \in Marks :
       /\ InBatch(m, a) /\ rows[m].status \in Active
       /\ InForce(n, a, rows[m].order, rows[m].quote)
       => m = n)'
  BY <1>1, <1>3 DEF BooksInOrder, InBatch, InForce
<1>8. (\A a \in Batches :
       batches[a] # Nil /\ ~IsOpen(a) /\ batches[a].carrier \in Registered
         => \A m \in Drafts(a) : \E t \in Slots : Submits(t, m))'
  <2>1. SUFFICES ASSUME NEW a \in Batches, batches'[a] # Nil, ~IsOpen(a)',
                        batches'[a].carrier \in Registered, NEW m \in Drafts(a)'
                 PROVE  FALSE
    OBVIOUS
  <2>2. a # b
    BY <1>2, <2>1 DEF IsOpen
  <2>3. m \in Drafts(a)
    BY <1>1, <2>1 DEF Drafts, InBatch
  <2>4. Submits(s, m)
    BY <1>2, <1>3, <2>1, <2>2, <2>3 DEF BooksInOrder, IsOpen
  <2> QED BY <1>1, <2>4 DEF Submits, At
<1> QED BY <1>1, <1>4, <1>5, <1>6, <1>7, <1>8, FinishedLedger DEF BooksInOrder

LEMMA CloseBatchLedger ==
  ASSUME OneAtATime, DispatchInv, LedgerInv, NEW s \in Slots, CloseBatch(s)
  PROVE  LedgerInv'
<1>1. PICK b : b = req[s].batch
  OBVIOUS
<1>2. /\ At(s, "closeBatch") /\ UNCHANGED <<rows, minted, accepted>> /\ b \in Batches
      /\ batches[b] # Nil /\ batches[b] \in BatchRow
  BY <1>1 DEF CloseBatch, history, DispatchInv, HandlerInv, ProgramPoint, TypeOK, Request, At
<1>3. CASE ~IsOpen(b)
  <2>1. Finish(s) /\ UNCHANGED batches
    BY <1>1, <1>3 DEF CloseBatch
  <2> QED BY <1>2, <2>1, EndsLedger DEF Submits, At
<1>4. CASE IsOpen(b)
  <2>1. PICK x : x = [batches[b] EXCEPT !.status = "CLOSED"]
    OBVIOUS
  <2>2. /\ batches' = [batches EXCEPT ![b] = x] /\ Goto(s, "announce") /\ UNCHANGED work
    BY <1>1, <1>4, <2>1 DEF CloseBatch
  <2>3. x.status = "CLOSED" /\ x.carrier = batches[b].carrier
    BY <1>2, <2>1 DEF BatchRow
  <2>4. batches'[b] = x /\ \A a \in Batches \ {b} : batches'[a] = batches[a]
    BY <1>2, <2>2 DEF DispatchInv, TypeOK
  <2>5. req'[s].pc = "announce" /\ "announce" \in EmptyHanded /\ "closeBatch" \in EmptyHanded
    BY <2>2, GotoMoves DEF DispatchInv, Points, EmptyHanded
  <2>6. /\ \A t \in Slots : t = s
        /\ BooksInOrder /\ work[s] = NoWork
        /\ batches[b].carrier \in Registered => Drafts(b) \subseteq Pending(s)
    BY <1>1, <1>2, <2>5 DEF OneAtATime, LedgerInv, CopiesCurrent, At
  <2>7. Pending(s) = {}
    BY <2>6 DEF Pending, NoWork
  <2>8. OneOpenBatchPerCarrier' /\ AcceptedOnce'
    BY <1>2, <2>3, <2>4, <2>6 DEF BooksInOrder, OneOpenBatchPerCarrier, AcceptedOnce, IsOpen
  <2>9. (\A m \in Marks \ minted : accepted[m] = 0)'
    BY <1>2, <2>6 DEF BooksInOrder
  <2>10. (\A m \in Marks :
            rows[m] # Nil /\ rows[m].status = "QUOTED" /\ accepted[m] # 0
              => \E t \in Slots : At(t, "persist") /\ req[t].mark = m)'
    BY <1>2, <2>6 DEF BooksInOrder, At
  <2>11. (\A a \in Batches, m, n \in Marks :
          /\ InBatch(m, a) /\ rows[m].status \in Active
          /\ InForce(n, a, rows[m].order, rows[m].quote)
          => m = n)'
    BY <1>2, <2>6 DEF BooksInOrder, InBatch, InForce
  <2>12. (\A a \in Batches :
          batches[a] # Nil /\ ~IsOpen(a) /\ batches[a].carrier \in Registered
            => \A m \in Drafts(a) : \E t \in Slots : Submits(t, m))'
    <3>1. SUFFICES ASSUME NEW a \in Batches, batches'[a] # Nil, ~IsOpen(a)',
                          batches'[a].carrier \in Registered, NEW m \in Drafts(a)'
                   PROVE  FALSE
      OBVIOUS
    <3>2. m \in Drafts(a)
      BY <1>2, <3>1 DEF Drafts, InBatch
    <3>3. CASE a = b
      BY <2>3, <2>4, <2>6, <2>7, <3>1, <3>2, <3>3
    <3>4. CASE a # b
      <4>1. Submits(s, m)
        BY <2>4, <2>6, <3>1, <3>2, <3>4 DEF BooksInOrder, IsOpen
      <4> QED BY <1>2, <4>1 DEF Submits, At
    <3> QED BY <3>3, <3>4
  <2>13. CopiesCurrent(s)'
    BY <2>2, <2>5, <2>6 DEF CopiesCurrent, At
  <2>14. ChecksHold(s)'
    BY <2>5 DEF ChecksHold, SeenNoMark, At
  <2> QED BY <2>8, <2>9, <2>10, <2>11, <2>12, <2>13, <2>14, OneHandler DEF BooksInOrder
<1> QED BY <1>3, <1>4

LEMMA DeleteMarkLedger ==
  ASSUME OneAtATime, DispatchInv, LedgerInv, NEW s \in Slots, DeleteMark(s)
  PROVE  LedgerInv'
<1>1. PICK m : m = req[s].mark
  OBVIOUS
<1>2. /\ At(s, "delete") /\ Finish(s) /\ m \in Marks
      /\ rows' = [rows EXCEPT ![m] = Nil] /\ UNCHANGED <<batches, minted, accepted>>
  BY <1>1 DEF DeleteMark, DispatchInv, HandlerInv, ProgramPoint, TypeOK, Request, At
<1>3. rows'[m] = Nil /\ \A n \in Marks \ {m} : rows'[n] = rows[n]
  BY <1>2 DEF DispatchInv, TypeOK
<1>4. BooksInOrder'
  BY <1>2, <1>3, RowWritten DEF Submits, Drafts, InBatch, At
<1> QED BY <1>2, <1>4, FinishedLedger

\* A copy is written back that changes nothing but the operator's data, or voids.
LEMMA SaveLedger ==
  ASSUME OneAtATime, DispatchInv, LedgerInv, NEW s \in Slots, Save(s)
  PROVE  LedgerInv'
<1>1. PICK m, x : m = req[s].mark /\ x = work[s][m]
  OBVIOUS
<1>2. /\ At(s, "save") /\ Finish(s) /\ m \in Marks
      /\ rows' = Updated(m, x) /\ UNCHANGED <<batches, minted, accepted>>
  BY <1>1 DEF Save, DispatchInv, HandlerInv, ProgramPoint, TypeOK, Request, At, history
<1>3. /\ rows[m] # Nil
      /\ \/ x = [rows[m] EXCEPT !.status = "VOIDED"]
         \/ /\ rows[m].status = "QUOTED"
            /\ \E r \in BOOLEAN : x = [rows[m] EXCEPT !.ready = r]
  BY <1>1, <1>2 DEF LedgerInv, CopiesCurrent, At
<1>4. rows[m] \in Row
  BY <1>2, <1>3 DEF DispatchInv, TypeOK
<1>5. /\ x.order = rows[m].order /\ x.quote = rows[m].quote /\ x.batch = rows[m].batch
      /\ x.status = "VOIDED" \/ (x.status = "QUOTED" /\ rows[m].status = "QUOTED")
  BY <1>3, <1>4 DEF Row
<1>6. rows'[m] = x /\ \A n \in Marks \ {m} : rows'[n] = rows[n]
  BY <1>2, <1>3 DEF DispatchInv, TypeOK, Updated
<1>7. BooksInOrder /\ \A t \in Slots : t = s
  BY DEF LedgerInv, OneAtATime
<1>8. x.status = "QUOTED" => accepted[m] = 0
  BY <1>2, <1>3, <1>5, <1>7 DEF BooksInOrder, At
<1>9. ASSUME NEW b \in Batches, x.batch = b, x.status \in Active, NEW n \in Marks \ {m}
      PROVE  ~InForce(n, b, x.order, x.quote)
  <2>1. InBatch(m, b) /\ rows[m].status \in Active
    BY <1>3, <1>5, <1>9 DEF InBatch, Active
  <2>2. InForce(n, b, rows[m].order, rows[m].quote) => m = n
    BY <1>2, <1>7, <2>1, Zenon DEF BooksInOrder
  <2> QED BY <1>5, <1>9, <2>2
<1>10. ASSUME NEW b \in Batches, batches[b] # Nil, ~IsOpen(b), batches[b].carrier \in Registered,
              m \in Drafts(b)'
       PROVE  FALSE
  <2>1. m \in Drafts(b)
    BY <1>2, <1>3, <1>5, <1>6, <1>10 DEF Drafts, InBatch
  <2>2. Submits(s, m)
    BY <1>7, <1>10, <2>1 DEF BooksInOrder
  <2> QED BY <1>2, <2>2 DEF Submits, At
<1>11. BooksInOrder'
  BY <1>2, <1>6, <1>8, <1>9, <1>10, RowWritten DEF Submits, At
<1> QED BY <1>2, <1>11, FinishedLedger

\* Generate stores a mark of no batch that is no draft.
LEMMA InsertMarkLedger ==
  ASSUME OneAtATime, DispatchInv, LedgerInv, NEW s \in Slots, InsertMark(s)
  PROVE  LedgerInv'
<1>1. PICK m, x : m = req[s].mark /\ x = work[s][m]
  OBVIOUS
<1>2. /\ At(s, "insertMark") /\ Finish(s) /\ m \in Marks
      /\ rows' = [rows EXCEPT ![m] = x] /\ UNCHANGED <<batches, minted, accepted>>
  BY <1>1 DEF InsertMark, DispatchInv, HandlerInv, ProgramPoint, TypeOK, Request, At, history
<1>3. x.batch = Nil /\ x.status \in {"GENERATED", "FAILED"}
  BY <1>1, <1>2 DEF LedgerInv, CopiesCurrent, At
<1>4. rows'[m] = x /\ \A n \in Marks \ {m} : rows'[n] = rows[n]
  BY <1>2 DEF DispatchInv, TypeOK
<1>5. Nil \notin Batches
  BY DispatchAssumption
<1>6. BooksInOrder'
  BY <1>2, <1>3, <1>4, <1>5, RowWritten DEF Submits, Drafts, InBatch, At
<1> QED BY <1>2, <1>6, FinishedLedger

\* The new mark of a batch that has none for this order and quotation.
LEMMA CreateMarkLedger ==
  ASSUME OneAtATime, DispatchInv, LedgerInv, NEW s \in Slots, CreateMark(s)
  PROVE  LedgerInv'
<1>0. PICK m \in Fresh, r \in BOOLEAN :
        /\ rows' = [rows EXCEPT ![m] = NewRow(s, r)]
        /\ minted' = minted \cup {m}
        /\ req' = [req EXCEPT ![s].pc = "addMark", ![s].mark = m]
        /\ work' = [work EXCEPT ![s][m] = NewRow(s, r)]
  BY DEF CreateMark
<1>1. PICK x :
        /\ x = NewRow(s, r)
        /\ rows' = [rows EXCEPT ![m] = x]
        /\ minted' = minted \cup {m}
        /\ req' = [req EXCEPT ![s].pc = "addMark", ![s].mark = m]
        /\ work' = [work EXCEPT ![s] = [work[s] EXCEPT ![m] = x]]
  BY <1>0
<1>2. /\ At(s, "createMark") /\ UNCHANGED <<batches, accepted>>
      /\ m \in Marks /\ m \notin minted /\ req[s] \in Request
  BY <1>1, FreshIsNew DEF CreateMark, history, DispatchInv, TypeOK
<1>3. /\ x.order = req[s].order /\ x.quote = req[s].quote /\ x.status = "QUOTED"
      /\ x.batch = IF req[s].op = "DirectMark" THEN req[s].batch ELSE Nil
  BY <1>1 DEF NewRow
<1>4. /\ req'[s].pc = "addMark" /\ req'[s].mark = m /\ req'[s].op = req[s].op
      /\ req'[s].batch = req[s].batch /\ req'[s].order = req[s].order
      /\ req'[s].quote = req[s].quote
  <2>1. PICK y : y = [req[s] EXCEPT !.pc = "addMark", !.mark = m]
    OBVIOUS
  <2>2. req' = [req EXCEPT ![s] = y]
    BY <1>1, <2>1
  <2>3. req'[s] = y
    BY <2>2 DEF DispatchInv, TypeOK
  <2> QED BY <1>2, <2>1, <2>3 DEF Request
<1>5. rows'[m] = x /\ \A n \in Marks \ {m} : rows'[n] = rows[n]
  BY <1>1, <1>2 DEF DispatchInv, TypeOK
<1>6. work[s] = NoWork
  <2>1. req[s].pc \in EmptyHanded
    BY <1>2 DEF EmptyHanded, Points, At
  <2> QED BY <2>1 DEF LedgerInv, CopiesCurrent
<1>7. work'[s] = [NoWork EXCEPT ![m] = x]
  BY <1>1, <1>6 DEF DispatchInv, TypeOK
<1>8. work'[s][m] = x /\ \A n \in Marks \ {m} : work'[s][n] = Nil
  BY <1>2, <1>7 DEF NoWork
<1>9. rows'[m] # Nil
  <2>1. TypeOK' /\ ProgramPoint(s)'
    BY CreateMarkKeeps DEF DispatchInv, HandlerInv
  <2> QED BY <1>4, <1>5, <1>8, <2>1 DEF ProgramPoint, At
<1>10. Pending(s)' = {m}
  BY <1>2, <1>5, <1>8, <1>9 DEF Pending
<1>11. /\ BooksInOrder /\ ChecksHold(s)
       /\ \A n \in Marks : ~InForce(n, req[s].batch, req[s].order, req[s].quote)
       /\ req[s].op # "DirectMark" => IsOpen(req[s].batch)
       /\ req[s].batch # Nil
  BY <1>2 DEF LedgerInv, ChecksHold, SeenNoMark, At, DispatchInv, HandlerInv, ProgramPoint
<1>12. Nil \notin Batches
  BY DispatchAssumption
<1>13. BooksInOrder'
  <2>1. accepted[m] = 0
    BY <1>2, <1>11 DEF BooksInOrder
  <2>2. ASSUME NEW b \in Batches, x.batch = b, NEW n \in Marks \ {m}
        PROVE  ~InForce(n, b, x.order, x.quote)
    <3>1. b = req[s].batch
      BY <1>3, <1>12, <2>2
    <3> QED BY <1>3, <1>11, <3>1
  <2>3. \A b \in Batches : m \in Drafts(b)' => Submits(s, m)'
    BY <1>3, <1>4, <1>5, <1>12 DEF Drafts, InBatch, Submits
  <2>4. /\ ~At(s, "persist") /\ \A n \in Marks \ {m} : ~Submits(s, n)
        /\ minted \subseteq minted'
    BY <1>1, <1>2 DEF Submits, At
  <2>5. \A b \in Batches :
          rows'[m] # Nil /\ rows'[m].batch = b /\ rows'[m].status \in Active =>
            \A n \in Marks \ {m} : ~InForce(n, b, rows'[m].order, rows'[m].quote)
    BY <1>5, <2>2
  <2> QED BY <1>2, <1>5, <2>1, <2>3, <2>4, <2>5, RowWritten
<1>14. ChecksHold(s)'
  <2>1. PICK b, o, q : b = req[s].batch /\ o = req[s].order /\ q = req[s].quote
    OBVIOUS
  <2>2. ASSUME req[s].op # "DirectMark", NEW n \in Marks PROVE ~InForce(n, b, o, q)'
    <3>1. CASE n = m
      BY <1>3, <1>5, <1>11, <2>1, <2>2, <3>1 DEF InForce, InBatch
    <3>2. CASE n # m
      <4>1. ~InForce(n, b, o, q) /\ rows'[n] = rows[n]
        BY <1>5, <1>11, <2>1, <3>2
      <4> QED BY <4>1 DEF InForce, InBatch
    <3> QED BY <3>1, <3>2
  <2>3. /\ req'[s].batch = b /\ req'[s].order = o /\ req'[s].quote = q
        /\ req'[s].pc = "addMark" /\ req'[s].op = req[s].op
    BY <1>4, <2>1
  <2>4. SeenNoMark(s)' => \A n \in Marks : ~InForce(n, req[s].batch, req[s].order, req[s].quote)'
    BY <2>2, <2>3 DEF SeenNoMark, InForce, InBatch
  <2>5. req'[s].op # "DirectMark" => IsOpen(req[s].batch)'
    BY <1>2, <1>4, <1>11 DEF IsOpen
  <2> QED BY <2>3, <2>4, <2>5 DEF ChecksHold, At
<1>15. DraftsAsRead(s)'
  BY <1>2, <1>3, <1>4, <1>5, <1>8, <1>9, <1>10 DEF DraftsAsRead, At
<1>16. "addMark" \notin EmptyHanded
  BY DEF EmptyHanded
<1>17. CopiesCurrent(s)'
  BY <1>3, <1>4, <1>8, <1>10, <1>15, <1>16 DEF CopiesCurrent, At
<1> QED BY <1>13, <1>14, <1>17, OneHandler

\* The mark joins its batch, which has none for this order and quotation, or has
\* it already.
LEMMA AddMarkLedger ==
  ASSUME OneAtATime, DispatchInv, LedgerInv, NEW s \in Slots, AddMark(s)
  PROVE  LedgerInv'
<1>1. PICK m : m = req[s].mark
  OBVIOUS
<1>2. /\ At(s, "addMark") /\ UNCHANGED <<batches, minted, accepted>> /\ m \in Marks
      /\ req[s].batch \in Batches /\ work[s][m] # Nil
  BY <1>1 DEF AddMark, history, DispatchInv, HandlerInv, ProgramPoint, TypeOK, Request, At
<1>3. /\ \A t \in Slots : t = s
      /\ BooksInOrder /\ ChecksHold(s) /\ CopiesCurrent(s) /\ DraftsAsRead(s)
  BY <1>2 DEF OneAtATime, LedgerInv, CopiesCurrent, At
<1>4. /\ rows[m] # Nil /\ rows[m].status = "QUOTED" /\ work[s][m] = rows[m]
      /\ rows[m].order = req[s].order /\ rows[m].quote = req[s].quote
      /\ rows[m].batch = IF req[s].op = "DirectMark" THEN req[s].batch ELSE Nil
  <2>1. m \in Pending(s)
    BY <1>2 DEF Pending
  <2>2. rows[m] # Nil /\ rows[m].status = "QUOTED" /\ work[s][m] = rows[m]
    BY <1>2, <1>3, <2>1 DEF DraftsAsRead, At
  <2> QED BY <1>1, <1>2, <1>3, <2>2 DEF CopiesCurrent, At
<1>5. PICK x : x = [rows[m] EXCEPT !.batch = req[s].batch]
  OBVIOUS
<1>6. rows[m] \in Row
  BY <1>2, <1>4 DEF DispatchInv, TypeOK
<1>7. /\ x.order = req[s].order /\ x.quote = req[s].quote /\ x.status = "QUOTED"
      /\ x.batch = req[s].batch
  BY <1>4, <1>5, <1>6 DEF Row
<1>8. /\ rows' = [rows EXCEPT ![m] = x]
      /\ \/ req[s].op = "DirectMark" /\ Goto(s, "carrier") /\ UNCHANGED work
         \/ req[s].op # "DirectMark" /\ Finish(s)
  BY <1>1, <1>4, <1>5 DEF AddMark, OneAtATime
<1>9. rows'[m] = x /\ \A n \in Marks \ {m} : rows'[n] = rows[n]
  BY <1>2, <1>8 DEF DispatchInv, TypeOK
<1>10. accepted[m] = 0
  BY <1>2, <1>3, <1>4 DEF BooksInOrder, At
<1>11. CASE req[s].op # "DirectMark" /\ Finish(s)
  <2>1. IsOpen(req[s].batch) /\ \A n \in Marks : ~InForce(n, req[s].batch, req[s].order, req[s].quote)
    BY <1>2, <1>3, <1>11 DEF ChecksHold, SeenNoMark, At
  <2>2. \A b \in Batches : ~IsOpen(b) => m \notin Drafts(b)'
    BY <1>7, <1>9, <2>1 DEF Drafts, InBatch
  <2>3. BooksInOrder'
    BY <1>2, <1>7, <1>9, <1>10, <1>11, <2>1, <2>2, RowWritten DEF Submits, At
  <2> QED BY <1>11, <2>3, FinishedLedger
<1>12. CASE req[s].op = "DirectMark" /\ Goto(s, "carrier") /\ UNCHANGED work
  <2>1. x = rows[m]
    BY <1>4, <1>5, <1>6, <1>12 DEF Row
  <2>2. rows' = rows
    BY <1>8, <2>1 DEF DispatchInv, TypeOK
  <2>3. /\ req'[s].pc = "carrier" /\ req'[s].op = "DirectMark" /\ req'[s].mark = m
    BY <1>1, <1>12, GotoMoves DEF DispatchInv, Points
  <2>4. Pending(s)' = {m}
    BY <1>1, <1>2, <1>3, <1>12 DEF CopiesCurrent, Pending, At
  <2>5. DraftsAsRead(s)'
    BY <1>2, <1>4, <1>12, <2>2, <2>3, <2>4 DEF DraftsAsRead, At
  <2>6. "carrier" \notin EmptyHanded
    BY DEF EmptyHanded
  <2>7. CopiesCurrent(s)'
    BY <2>3, <2>4, <2>5, <2>6 DEF CopiesCurrent, At
  <2>8. ChecksHold(s)'
    BY <2>3 DEF ChecksHold, SeenNoMark, At
  <2>9. \A n \in Marks : Submits(s, n) => Submits(s, n)'
    BY <1>1, <1>12, <2>3 DEF Submits
  <2>10. BooksInOrder'
    BY <1>2, <2>2, <2>9, BooksStay DEF Drafts, At
  <2> QED BY <2>7, <2>8, <2>10, OneHandler
<1> QED BY <1>8, <1>11, <1>12

\* The carrier is asked about a draft for the first time; the draft still is one.
LEMMA CallCarrierLedger ==
  ASSUME OneAtATime, DispatchInv, LedgerInv, NEW s \in Slots, CallCarrier(s)
  PROVE  LedgerInv'
<1>0. PICK m \in Marks :
        /\ Turn(s, m)
        /\ \E out \in Outcomes(work[s][m].carrier) :
             /\ Record(m, out.sent)
             /\ work' = [work EXCEPT ![s][m].status = IF out.ok THEN "CREATED" ELSE "FAILED"]
             /\ req' = [req EXCEPT ![s].pc = "persist", ![s].mark = m, ![s].err = out.err]
  BY Zenon DEF CallCarrier
<1>1. PICK out \in Outcomes(work[s][m].carrier) :
        /\ Turn(s, m)
        /\ Record(m, out.sent)
        /\ work' = [work EXCEPT ![s][m].status = IF out.ok THEN "CREATED" ELSE "FAILED"]
        /\ req' = [req EXCEPT ![s].pc = "persist", ![s].mark = m, ![s].err = out.err]
  BY <1>0
<1>2. /\ At(s, "carrier") /\ UNCHANGED <<rows, batches, minted>> /\ m \in Pending(s)
      /\ req[s] \in Request /\ req[s].batch \in Batches
  <2>1. At(s, "carrier") /\ UNCHANGED <<rows, batches, minted>> /\ m \in Pending(s)
    BY <1>1 DEF CallCarrier, Turn
  <2>2. req[s] \in Request
    BY DEF DispatchInv, TypeOK
  <2> QED BY <2>1, <2>2 DEF DispatchInv, HandlerInv, ProgramPoint, Request, At
<1>3. /\ \A t \in Slots : t = s
      /\ BooksInOrder /\ CopiesCurrent(s) /\ DraftsAsRead(s)
  BY <1>2 DEF OneAtATime, LedgerInv, CopiesCurrent, At
<1>4. ASSUME NEW n \in Pending(s)
      PROVE  rows[n] # Nil /\ rows[n].status = "QUOTED" /\ work[s][n] = rows[n]
  BY <1>2, <1>3 DEF DraftsAsRead, At
<1>5. PICK status \in {"CREATED", "FAILED"} : status = IF out.ok THEN "CREATED" ELSE "FAILED"
  OBVIOUS
<1>6. PICK x : x = [rows[m] EXCEPT !.status = status]
  OBVIOUS
<1>7. rows[m] \in Row /\ x \in Row /\ x # Nil
  <2>1. rows[m] \in Row
    BY <1>1, <1>2, <1>4 DEF DispatchInv, TypeOK
  <2> QED BY <1>6, <2>1, NilAssumption DEF Row, MarkStatus
<1>8. work' = [work EXCEPT ![s] = [work[s] EXCEPT ![m] = x]]
  <2>1. work[s][m] = rows[m]
    BY <1>2, <1>4
  <2>2. work' = [work EXCEPT ![s] = [work[s] EXCEPT ![m] = [work[s][m] EXCEPT !.status = status]]]
    BY <1>1, <1>5
  <2>3. x = [work[s][m] EXCEPT !.status = status]
    BY <1>6, <2>1
  <2> QED BY <2>2, <2>3, Zenon
<1>9. work'[s][m] = x /\ \A n \in Marks \ {m} : work'[s][n] = work[s][n]
  BY <1>8 DEF DispatchInv, TypeOK
<1>10. /\ req'[s].pc = "persist" /\ req'[s].op = req[s].op /\ req'[s].mark = m
       /\ req'[s].batch = req[s].batch
  <2>1. PICK q : q = [req[s] EXCEPT !.pc = "persist", !.mark = m, !.err = out.err]
    OBVIOUS
  <2>2. req' = [req EXCEPT ![s] = q]
    BY <1>1, <2>1
  <2>3. req'[s] = q
    BY <2>2 DEF DispatchInv, TypeOK
  <2> QED BY <1>2, <2>1, <2>3 DEF Request
<1>11. Pending(s)' = Pending(s)
  BY <1>2, <1>7, <1>9 DEF Pending
<1>12. req[s].op # "Close" => req[s].mark = m /\ Pending(s) = {m}
  BY <1>2, <1>3 DEF CopiesCurrent, At
<1>13. m \in minted /\ accepted[m] = 0
  BY <1>2, <1>3, <1>4 DEF BooksInOrder, At, DispatchInv, TablesInv, KnownIds
<1>14. accepted'[m] \in {0, 1} /\ \A n \in Marks \ {m} : accepted'[n] = accepted[n]
  BY <1>1, <1>13 DEF Record, DispatchInv, TypeOK
<1>15. BooksInOrder'
  <2>1. OneOpenBatchPerCarrier' /\ AcceptedOnce'
    BY <1>2, <1>3, <1>14 DEF BooksInOrder, OneOpenBatchPerCarrier, AcceptedOnce, IsOpen
  <2>2. (\A n \in Marks \ minted : accepted[n] = 0)'
    BY <1>2, <1>3, <1>13, <1>14 DEF BooksInOrder
  <2>3. (\A n \in Marks :
           rows[n] # Nil /\ rows[n].status = "QUOTED" /\ accepted[n] # 0
             => \E t \in Slots : At(t, "persist") /\ req[t].mark = n)'
    BY <1>2, <1>3, <1>10, <1>14 DEF BooksInOrder, At
  <2>4. (\A b \in Batches, i, n \in Marks :
         /\ InBatch(i, b) /\ rows[i].status \in Active
         /\ InForce(n, b, rows[i].order, rows[i].quote)
         => i = n)'
    BY <1>2, <1>3 DEF BooksInOrder, InBatch, InForce
  <2>5. (\A b \in Batches :
         batches[b] # Nil /\ ~IsOpen(b) /\ batches[b].carrier \in Registered
           => \A d \in Drafts(b) : \E t \in Slots : Submits(t, d))'
    <3>1. \A d : Submits(s, d) => Submits(s, d)'
      BY <1>10, <1>12 DEF Submits
    <3> QED BY <1>2, <1>3, <3>1 DEF BooksInOrder, IsOpen, Drafts, InBatch
  <2> QED BY <2>1, <2>2, <2>3, <2>4, <2>5 DEF BooksInOrder
<1>16. DraftsAsRead(s)'
  BY <1>2, <1>4, <1>6, <1>9, <1>10, <1>11 DEF DraftsAsRead, At, Pending
<1>17. req[s].op = "Close" /\ batches[req[s].batch].carrier \in Registered
         => Drafts(req[s].batch) \subseteq Pending(s)
  BY <1>2, <1>3 DEF CopiesCurrent, At
<1>18. Drafts(req[s].batch)' = Drafts(req[s].batch)
  BY <1>2, <1>10 DEF Drafts, InBatch
<1>19. "persist" \notin EmptyHanded
  BY DEF EmptyHanded
<1>20. CopiesCurrent(s)'
  BY <1>2, <1>10, <1>11, <1>12, <1>16, <1>17, <1>18, <1>19 DEF CopiesCurrent, At
<1>21. ChecksHold(s)'
  BY <1>10, SMTT(30) DEF ChecksHold, SeenNoMark, At
<1> QED BY <1>15, <1>20, <1>21, OneHandler

\* Its answer is stored: the draft is one no more.
LEMMA PersistLedger ==
  ASSUME OneAtATime, DispatchInv, LedgerInv, NEW s \in Slots, Persist(s)
  PROVE  LedgerInv'
<1>1. PICK m, x : m = req[s].mark /\ x = work[s][m]
  OBVIOUS
<1>2. /\ At(s, "persist") /\ AfterMark(s, m) /\ m \in Marks /\ x # Nil
      /\ rows' = Updated(m, x) /\ UNCHANGED <<batches, minted, accepted>>
  BY <1>1 DEF Persist, DispatchInv, HandlerInv, ProgramPoint, TypeOK, Request, At, history
<1>3. /\ \A t \in Slots : t = s
      /\ BooksInOrder /\ DraftsAsRead(s) /\ m \in Pending(s)
  BY <1>1, <1>2 DEF OneAtATime, LedgerInv, CopiesCurrent, Pending, At
<1>4. PICK status \in {"CREATED", "FAILED"} :
        /\ rows[m] # Nil /\ rows[m].status = "QUOTED"
        /\ x = [rows[m] EXCEPT !.status = status]
  BY <1>1, <1>2, <1>3 DEF DraftsAsRead, At
<1>5. rows[m] \in Row
  BY <1>2, <1>4 DEF DispatchInv, TypeOK
<1>6. /\ x.order = rows[m].order /\ x.quote = rows[m].quote /\ x.batch = rows[m].batch
      /\ x.status \in {"CREATED", "FAILED"}
  BY <1>4, <1>5 DEF Row
<1>7. rows'[m] = x /\ \A n \in Marks \ {m} : rows'[n] = rows[n]
  BY <1>2, <1>4 DEF DispatchInv, TypeOK, Updated
<1>8. ASSUME NEW b \in Batches, x.batch = b, NEW n \in Marks \ {m}
      PROVE  ~InForce(n, b, x.order, x.quote)
  <2>1. InBatch(m, b) /\ rows[m].status \in Active
    BY <1>4, <1>6, <1>8 DEF InBatch, Active
  <2>2. InForce(n, b, rows[m].order, rows[m].quote) => m = n
    BY <1>2, <1>3, <2>1, Zenon DEF BooksInOrder
  <2> QED BY <1>6, <1>8, <2>2
<1>9. \A b \in Batches :
        rows'[m] # Nil /\ rows'[m].batch = b /\ rows'[m].status \in Active =>
          \A n \in Marks \ {m} : ~InForce(n, b, rows'[m].order, rows'[m].quote)
  BY <1>7, <1>8
<1>10. /\ rows'[m].status # "QUOTED" /\ \A b \in Batches : m \notin Drafts(b)'
       /\ \A n \in Marks \ {m} : ~Submits(s, n)
  BY <1>1, <1>6, <1>7 DEF Drafts, Submits
<1>11. BooksInOrder'
  <2>1. At(s, "persist") => req[s].mark = m
    BY <1>1
  <2>2. minted \subseteq minted' /\ UNCHANGED <<batches, accepted>>
    BY <1>2
  <2>3. \A n \in Marks \ {m} : rows'[n] = rows[n]
    BY <1>7
  <2>4. rows'[m] # Nil /\ rows'[m].status = "QUOTED" => accepted[m] = 0
    BY <1>10
  <2>5. \A b \in Batches : batches[b] # Nil /\ ~IsOpen(b) /\ batches[b].carrier \in Registered
           /\ m \in Drafts(b)' => Submits(s, m)'
    BY <1>10
  <2> QED BY <1>2, <1>9, <1>10, <2>1, <2>2, <2>3, <2>4, <2>5, RowWritten, Zenon
<1> QED BY <1>1, <1>2, <1>3, <1>7, <1>10, <1>11, AfterMarkLedger DEF At

\* Generate mints a mark nobody has asked the carrier about.
LEMMA GenerateLedger ==
  ASSUME OneAtATime, DispatchInv, LedgerInv, NEW s \in Slots,
         NEW o \in Orders, NEW c \in Carriers, Generate(s, o, c)
  PROVE  LedgerInv'
<1>0. PICK m \in Fresh, out \in Outcomes(c) :
        /\ Begin(s, "Generate", "insertMark", Nil, o, Nil, c, m)
        /\ Record(m, out.sent)
        /\ work' = [work EXCEPT ![s][m] =
             [order |-> o, quote |-> Nil, carrier |-> c, batch |-> Nil,
              status |-> IF out.ok THEN "GENERATED" ELSE "FAILED", ready |-> FALSE]]
        /\ minted' = minted \cup {m}
        /\ UNCHANGED <<rows, batches>>
  BY DEF Generate
<1>1. PICK x :
        /\ Begin(s, "Generate", "insertMark", Nil, o, Nil, c, m)
        /\ Record(m, out.sent)
        /\ x = [order |-> o, quote |-> Nil, carrier |-> c, batch |-> Nil,
                status |-> IF out.ok THEN "GENERATED" ELSE "FAILED", ready |-> FALSE]
        /\ work' = [work EXCEPT ![s] = [work[s] EXCEPT ![m] = x]]
        /\ minted' = minted \cup {m}
        /\ UNCHANGED <<rows, batches>>
  BY <1>0
<1>2. /\ At(s, "idle") /\ req'[s].pc = "insertMark" /\ req'[s].mark = m
      /\ m \in Marks /\ m \notin minted
  BY <1>1, Begun, FreshIsNew DEF DispatchInv
<1>3. /\ \A t \in Slots : t = s
      /\ BooksInOrder /\ accepted[m] = 0 /\ rows[m] = Nil
  BY <1>2 DEF OneAtATime, LedgerInv, BooksInOrder, DispatchInv, TablesInv, KnownIds
<1>4. accepted'[m] \in {0, 1} /\ \A n \in Marks \ {m} : accepted'[n] = accepted[n]
  BY <1>1, <1>2, <1>3 DEF Record, DispatchInv, TypeOK
<1>5. BooksInOrder'
  <2>1. OneOpenBatchPerCarrier' /\ AcceptedOnce'
    BY <1>1, <1>3, <1>4 DEF BooksInOrder, OneOpenBatchPerCarrier, AcceptedOnce, IsOpen
  <2>2. (\A n \in Marks \ minted : accepted[n] = 0)'
    BY <1>1, <1>3, <1>4 DEF BooksInOrder
  <2>3. (\A n \in Marks :
           rows[n] # Nil /\ rows[n].status = "QUOTED" /\ accepted[n] # 0
             => \E t \in Slots : At(t, "persist") /\ req[t].mark = n)'
    BY <1>1, <1>2, <1>3, <1>4 DEF BooksInOrder, At
  <2>4. (\A b \in Batches, i, n \in Marks :
         /\ InBatch(i, b) /\ rows[i].status \in Active
         /\ InForce(n, b, rows[i].order, rows[i].quote)
         => i = n)'
    BY <1>1, <1>3 DEF BooksInOrder, InBatch, InForce
  <2>5. (\A b \in Batches :
         batches[b] # Nil /\ ~IsOpen(b) /\ batches[b].carrier \in Registered
           => \A d \in Drafts(b) : \E t \in Slots : Submits(t, d))'
    BY <1>1, <1>2, <1>3 DEF BooksInOrder, IsOpen, Drafts, InBatch, Submits, At
  <2> QED BY <2>1, <2>2, <2>3, <2>4, <2>5 DEF BooksInOrder
<1>6. work'[s][m] = x /\ x.batch = Nil /\ x.status \in {"GENERATED", "FAILED"}
  BY <1>1, <1>2 DEF DispatchInv, TypeOK
<1>7. "insertMark" \notin EmptyHanded
  BY DEF EmptyHanded
<1>8. CopiesCurrent(s)'
  BY <1>2, <1>6, <1>7 DEF CopiesCurrent, At
<1>9. ChecksHold(s)'
  BY <1>2 DEF ChecksHold, SeenNoMark, At
<1> QED BY <1>5, <1>8, <1>9, OneHandler

-----------------------------------------------------------------------------
(* The specification. *)

\* Only finitely many marks exist at any time, so there is a newest one.
MintedBounded == \E k \in Nat : \A m \in minted : m <= k

LEMMA MintedStaysBounded ==
  ASSUME DispatchInv, MintedBounded, [Next]_vars
  PROVE  MintedBounded'
<1>1. CASE UNCHANGED minted
  BY <1>1 DEF MintedBounded
<1>2. ASSUME NEW m \in Fresh, minted' = minted \cup {m} PROVE MintedBounded'
  <2>1. PICK k \in Nat : \A n \in minted : n <= k
    BY DEF MintedBounded
  <2>2. m \in Nat /\ minted \subseteq Nat
    BY <1>2, DispatchAssumption DEF Fresh, DispatchInv, TypeOK
  <2>3. CASE m <= k
    BY <1>2, <2>1, <2>3 DEF MintedBounded
  <2>4. CASE k <= m
    <3>1. \A n \in minted' : n <= m
      BY <1>2, <2>1, <2>2, <2>4
    <3> QED BY <2>2, <3>1 DEF MintedBounded
  <2> QED BY <2>2, <2>3, <2>4
<1>3. ASSUME NEW s \in Slots, Arrive(s)
      PROVE  UNCHANGED minted \/ \E m \in Fresh : minted' = minted \cup {m}
  BY <1>3 DEF Arrive, CreateBatch, DraftMark, QuoteMark, DirectMark, Close,
              RemoveDraftMark, UpdateDraftMark, Void, Generate
<1>4. ASSUME NEW s \in Slots, Continue(s)
      PROVE  UNCHANGED minted \/ \E m \in Fresh : minted' = minted \cup {m}
  <2>1. CASE CreateMark(s)
    BY <2>1 DEF CreateMark
  <2>2. CASE InsertBatch(s) \/ LoadBatch(s) \/ FindActive(s)
    BY <2>2 DEF InsertBatch, LoadBatch, FindActive
  <2>3. CASE AddMark(s) \/ ListMarks(s)
    BY <2>3 DEF AddMark, ListMarks
  <2>4. CASE CallCarrier(s) \/ SkipMark(s)
    BY <2>4, Zenon DEF CallCarrier, SkipMark
  <2>5. CASE Persist(s) \/ CloseBatch(s) \/ Announce(s)
    BY <2>5 DEF Persist, CloseBatch, Announce
  <2>6. CASE DeleteMark(s) \/ LoadDraft(s) \/ Save(s) \/ InsertMark(s)
    BY <2>6 DEF DeleteMark, LoadDraft, Save, InsertMark
  <2> QED BY <1>4, <2>1, <2>2, <2>3, <2>4, <2>5, <2>6 DEF Continue
<1>5. ASSUME NEW s \in Slots, PersistFails(s) \/ Fail(s) PROVE UNCHANGED minted
  BY <1>5 DEF PersistFails, Fail
<1> QED BY <1>1, <1>2, <1>3, <1>4, <1>5 DEF Next, vars

LEMMA LedgerStutter ==
  ASSUME OneAtATime, DispatchInv, LedgerInv, UNCHANGED vars
  PROVE  LedgerInv'
<1>1. /\ rows' = rows /\ batches' = batches /\ req' = req /\ work' = work
      /\ minted' = minted /\ accepted' = accepted
  BY DEF vars
<1>2. BooksInOrder'
  <2>1. BooksInOrder
    BY DEF LedgerInv
  <2>2. OneOpenBatchPerCarrier' /\ AcceptedOnce' /\ (\A m \in Marks \ minted : accepted[m] = 0)'
    BY <1>1, <2>1 DEF BooksInOrder, OneOpenBatchPerCarrier, AcceptedOnce, IsOpen
  <2>3. (\A m \in Marks :
           rows[m] # Nil /\ rows[m].status = "QUOTED" /\ accepted[m] # 0
             => \E t \in Slots : At(t, "persist") /\ req[t].mark = m)'
    BY <1>1, <2>1 DEF BooksInOrder, At
  <2>4. (\A b \in Batches, m, n \in Marks :
         /\ InBatch(m, b) /\ rows[m].status \in Active
         /\ InForce(n, b, rows[m].order, rows[m].quote)
         => m = n)'
    BY <1>1, <2>1 DEF BooksInOrder, InBatch, InForce
  <2>5. (\A b \in Batches :
         batches[b] # Nil /\ ~IsOpen(b) /\ batches[b].carrier \in Registered
           => \A m \in Drafts(b) : \E t \in Slots : Submits(t, m))'
    BY <1>1, <2>1 DEF BooksInOrder, IsOpen, Drafts, InBatch, Submits
  <2> QED BY <2>2, <2>3, <2>4, <2>5 DEF BooksInOrder
<1>3. ASSUME NEW s \in Slots PROVE ChecksHold(s)' /\ CopiesCurrent(s)'
  <2>1. ChecksHold(s)'
    BY <1>1 DEF LedgerInv, ChecksHold, SeenNoMark, At, IsOpen, InForce, InBatch
  <2>2. DraftsAsRead(s)' <=> DraftsAsRead(s)
    BY <1>1 DEF DraftsAsRead, Pending, At
  <2>3. Pending(s)' = Pending(s) /\ \A b : Drafts(b)' = Drafts(b)
    BY <1>1 DEF Drafts, Pending, InBatch
  <2>4. CopiesCurrent(s)'
    BY <1>1, <2>2, <2>3 DEF LedgerInv, CopiesCurrent, At
  <2> QED BY <2>1, <2>4
<1> QED BY <1>2, <1>3 DEF LedgerInv

LEMMA LedgerInit ==
  ASSUME Init
  PROVE  LedgerInv /\ MintedBounded
<1>1. BooksInOrder
  BY DEF Init, BooksInOrder, OneOpenBatchPerCarrier, AcceptedOnce, IsOpen, InBatch, InForce, Drafts
<1>2. ASSUME NEW s \in Slots PROVE ChecksHold(s) /\ CopiesCurrent(s)
  <2>1. req[s].pc = "idle" /\ work[s] = NoWork
    BY DEF Init, Idle
  <2> QED BY <2>1 DEF ChecksHold, SeenNoMark, CopiesCurrent, At
<1>3. MintedBounded
  BY DEF Init, MintedBounded
<1> QED BY <1>1, <1>2, <1>3 DEF LedgerInv

LEMMA LedgerNext ==
  ASSUME OneAtATime, DispatchInv, LedgerInv, MintedBounded, [Next]_vars
  PROVE  LedgerInv'
<1>1. PICK k \in Nat : \A m \in minted : m <= k
  BY DEF MintedBounded
<1>2. CASE UNCHANGED vars
  BY <1>2, LedgerStutter
<1>3. ASSUME NEW s \in Slots, Arrive(s) PROVE LedgerInv'
  <2>1. CASE \E b \in Batches, o \in Orders, q \in Quotes : DirectMark(s, b, o, q)
    BY <1>1, <2>1, DirectMarkLedger
  <2> QED BY <1>3, <2>1, CreateBatchLedger, DraftMarkLedger, QuoteMarkLedger, CloseLedger,
             RemoveDraftMarkLedger, UpdateDraftMarkLedger, VoidLedger, GenerateLedger
          DEF Arrive
<1>4. ASSUME NEW s \in Slots, Continue(s) PROVE LedgerInv'
  <2>1. CASE FindActive(s)
    BY <1>1, <2>1, FindActiveLedger
  <2> QED BY <1>4, <2>1, InsertBatchLedger, LoadBatchLedger, CreateMarkLedger, AddMarkLedger,
             ListMarksLedger, CallCarrierLedger, SkipMarkLedger, PersistLedger,
             CloseBatchLedger, AnnounceLedger, DeleteMarkLedger, LoadDraftLedger,
             SaveLedger, InsertMarkLedger
          DEF Continue
<1> QED BY <1>2, <1>3, <1>4 DEF Next, PersistFails, Fail, OneAtATime

\* While requests run one after the other without faults, the books and what the
\* handler knows of them agree at every step.
THEOREM LedgerInvariant == OneAtATime => (Spec => [](LedgerInv /\ MintedBounded))
<1> SUFFICES ASSUME OneAtATime PROVE Spec => [](LedgerInv /\ MintedBounded)
  OBVIOUS
<1>1. Init => LedgerInv /\ MintedBounded
  BY LedgerInit
<1>2. DispatchInv /\ LedgerInv /\ MintedBounded /\ [Next]_vars => (LedgerInv /\ MintedBounded)'
  BY LedgerNext, MintedStaysBounded
<1> QED BY <1>1, <1>2, DispatchInvariant, PTL DEF Spec

\* No sequence of complete requests opens two batches for a carrier, leaves a
\* draft in a closed batch, gives an order two active marks in a batch for one
\* quotation, or submits a mark twice.
THEOREM LedgerInOrder == OneAtATime => (Spec => []LedgerSafety)
<1> SUFFICES ASSUME OneAtATime PROVE Spec => []LedgerSafety
  OBVIOUS
<1>1. LedgerInv => LedgerSafety
  <2> SUFFICES ASSUME LedgerInv PROVE LedgerSafety
    OBVIOUS
  <2>1. BooksInOrder
    BY DEF LedgerInv
  <2>2. ClosedBatchHasNoDraft
    BY <2>1 DEF BooksInOrder, ClosedBatchHasNoDraft, Quiescent, Submits, At
  <2>3. OneActiveMark
    BY <2>1 DEF BooksInOrder, OneActiveMark, Candidates, InForce, InBatch
  <2> QED BY <2>1, <2>2, <2>3 DEF BooksInOrder, LedgerSafety
<1> QED BY <1>1, LedgerInvariant, PTL

-----------------------------------------------------------------------------
(* What a step may do to a row. *)

MayBecome(m) ==
  rows[m] # Nil /\ rows'[m] # rows[m] =>
    \/ /\ rows[m].status = "QUOTED"
       /\ rows'[m] # Nil /\ rows[m].batch # Nil => rows'[m].batch = rows[m].batch
    \/ /\ rows'[m] # Nil
       /\ rows'[m] = [rows[m] EXCEPT !.status = "VOIDED"]

\* A draft joins its batch, if it is not in it yet.
LEMMA AddMarkMay ==
  ASSUME OneAtATime, DispatchInv, LedgerInv, NEW s \in Slots, AddMark(s), NEW i \in Marks
  PROVE  MayBecome(i)
<1>1. PICK m : m = req[s].mark
  OBVIOUS
<1>2. /\ At(s, "addMark") /\ m \in Marks /\ work[s][m] # Nil /\ req[s].batch \in Batches
  BY <1>1 DEF AddMark, DispatchInv, HandlerInv, ProgramPoint, TypeOK, Request, At
<1>3. CopiesCurrent(s) /\ DraftsAsRead(s) /\ m \in Pending(s)
  BY <1>2 DEF LedgerInv, CopiesCurrent, Pending, At
<1>4. /\ rows[m] # Nil /\ rows[m].status = "QUOTED" /\ work[s][m] = rows[m]
      /\ rows[m].batch = IF req[s].op = "DirectMark" THEN req[s].batch ELSE Nil
  BY <1>1, <1>2, <1>3 DEF CopiesCurrent, DraftsAsRead, At
<1>5. PICK x : x = [rows[m] EXCEPT !.batch = req[s].batch]
  OBVIOUS
<1>6. rows' = [rows EXCEPT ![m] = x]
  BY <1>1, <1>4, <1>5 DEF AddMark, OneAtATime
<1>7. rows[m] \in Row
  BY <1>2, <1>4 DEF DispatchInv, TypeOK
<1>8. x.batch = req[s].batch
  BY <1>5, <1>7 DEF Row
<1>9. rows'[m] = x /\ \A n \in Marks \ {m} : rows'[n] = rows[n]
  BY <1>2, <1>6 DEF DispatchInv, TypeOK
<1> QED BY <1>4, <1>8, <1>9 DEF MayBecome

\* The carrier's answer to a draft is stored.
LEMMA PersistMay ==
  ASSUME OneAtATime, DispatchInv, LedgerInv, NEW s \in Slots, Persist(s), NEW i \in Marks
  PROVE  MayBecome(i)
<1>1. PICK m, x : m = req[s].mark /\ x = work[s][m]
  OBVIOUS
<1>2. /\ At(s, "persist") /\ m \in Marks /\ x # Nil /\ rows' = Updated(m, x)
  BY <1>1 DEF Persist, DispatchInv, HandlerInv, ProgramPoint, TypeOK, Request, At
<1>3. DraftsAsRead(s) /\ m \in Pending(s)
  BY <1>1, <1>2 DEF LedgerInv, CopiesCurrent, Pending, At
<1>4. PICK status \in {"CREATED", "FAILED"} :
        /\ rows[m] # Nil /\ rows[m].status = "QUOTED"
        /\ x = [rows[m] EXCEPT !.status = status]
  BY <1>1, <1>2, <1>3 DEF DraftsAsRead, At
<1>5. rows[m] \in Row
  BY <1>2, <1>4 DEF DispatchInv, TypeOK
<1>6. x.batch = rows[m].batch
  BY <1>4, <1>5 DEF Row
<1>7. rows'[m] = x /\ \A n \in Marks \ {m} : rows'[n] = rows[n]
  BY <1>2, <1>4 DEF DispatchInv, TypeOK, Updated
<1> QED BY <1>4, <1>6, <1>7 DEF MayBecome

\* A mark is voided, or a draft edited.
LEMMA SaveMay ==
  ASSUME OneAtATime, DispatchInv, LedgerInv, NEW s \in Slots, Save(s), NEW i \in Marks
  PROVE  MayBecome(i)
<1>1. PICK m, x : m = req[s].mark /\ x = work[s][m]
  OBVIOUS
<1>2. /\ At(s, "save") /\ m \in Marks /\ x # Nil /\ rows' = Updated(m, x)
  BY <1>1 DEF Save, DispatchInv, HandlerInv, ProgramPoint, TypeOK, Request, At
<1>3. /\ rows[m] # Nil
      /\ \/ x = [rows[m] EXCEPT !.status = "VOIDED"]
         \/ /\ rows[m].status = "QUOTED"
            /\ \E r \in BOOLEAN : x = [rows[m] EXCEPT !.ready = r]
  BY <1>1, <1>2 DEF LedgerInv, CopiesCurrent, At
<1>4. rows[m] \in Row
  BY <1>2, <1>3 DEF DispatchInv, TypeOK
<1>5. x.batch = rows[m].batch
  BY <1>3, <1>4 DEF Row
<1>6. rows'[m] = x /\ \A n \in Marks \ {m} : rows'[n] = rows[n]
  BY <1>2, <1>3 DEF DispatchInv, TypeOK, Updated
<1> QED BY <1>2, <1>3, <1>5, <1>6 DEF MayBecome

LEMMA DeleteMarkMay ==
  ASSUME OneAtATime, DispatchInv, LedgerInv, NEW s \in Slots, DeleteMark(s), NEW i \in Marks
  PROVE  MayBecome(i)
<1>1. PICK m : m = req[s].mark
  OBVIOUS
<1>2. /\ At(s, "delete") /\ m \in Marks /\ rows' = [rows EXCEPT ![m] = Nil]
  BY <1>1 DEF DeleteMark, DispatchInv, HandlerInv, ProgramPoint, TypeOK, Request, At
<1>3. rows[m].status = "QUOTED"
  BY <1>1, <1>2 DEF LedgerInv, CopiesCurrent, At
<1>4. rows'[m] = Nil /\ \A n \in Marks \ {m} : rows'[n] = rows[n]
  BY <1>2 DEF DispatchInv, TypeOK
<1> QED BY <1>3, <1>4 DEF MayBecome

\* Both insert where there is no row.
LEMMA InsertsMay ==
  ASSUME DispatchInv, NEW s \in Slots, CreateMark(s) \/ InsertMark(s), NEW i \in Marks
  PROVE  MayBecome(i)
<1>1. CASE CreateMark(s)
  <2>1. PICK m \in Fresh, r \in BOOLEAN : rows' = [rows EXCEPT ![m] = NewRow(s, r)]
    BY <1>1 DEF CreateMark
  <2>2. rows[m] = Nil
    BY <2>1, FreshIsNew
  <2>3. \A n \in Marks \ {m} : rows'[n] = rows[n]
    BY <2>1 DEF DispatchInv, TypeOK
  <2> QED BY <2>2, <2>3 DEF MayBecome
<1>2. CASE InsertMark(s)
  <2>1. PICK m : m = req[s].mark
    OBVIOUS
  <2>2. At(s, "insertMark") /\ rows' = [rows EXCEPT ![m] = work[s][m]]
    BY <1>2, <2>1 DEF InsertMark
  <2>3. rows[m] = Nil
    BY <2>1, <2>2 DEF DispatchInv, HandlerInv, PrivateUntilInserted
  <2>4. \A n \in Marks \ {m} : rows'[n] = rows[n]
    BY <2>2 DEF DispatchInv, TypeOK
  <2> QED BY <2>3, <2>4 DEF MayBecome
<1> QED BY <1>1, <1>2

\* All the others leave the rows alone.
LEMMA RowsStay ==
  ASSUME NEW s \in Slots, Arrive(s) \/ Continue(s) \/ PersistFails(s) \/ Fail(s),
         ~CreateMark(s), ~InsertMark(s), ~AddMark(s), ~Persist(s), ~Save(s), ~DeleteMark(s)
  PROVE  rows' = rows
<1>1. CASE Arrive(s)
  BY <1>1, ZenonT(60) DEF Arrive, CreateBatch, DraftMark, QuoteMark, DirectMark, Close,
              RemoveDraftMark, UpdateDraftMark, Void, Generate
<1>2. CASE Continue(s)
  BY <1>2, ZenonT(60) DEF Continue, InsertBatch, LoadBatch, FindActive, ListMarks, CallCarrier,
              SkipMark, CloseBatch, Announce, LoadDraft
<1>3. CASE PersistFails(s) \/ Fail(s)
  BY <1>3 DEF PersistFails, Fail
<1> QED BY <1>1, <1>2, <1>3

\* Drafts are edited, submitted, voided or deleted, anything else is only voided,
\* and a mark stays with its batch, while requests run one after the other.
THEOREM MarksKeepLifecycle == OneAtATime => (Spec => MarkLifecycle)
<1> SUFFICES ASSUME OneAtATime PROVE Spec => MarkLifecycle
  OBVIOUS
<1>1. DispatchInv /\ LedgerInv /\ [Next]_vars =>
        [\A m \in Marks :
           rows[m] # Nil /\ rows'[m] # rows[m] =>
             \/ /\ rows[m].status = "QUOTED"
                /\ rows'[m] # Nil /\ rows[m].batch # Nil => rows'[m].batch = rows[m].batch
             \/ /\ rows'[m] # Nil
                /\ rows'[m] = [rows[m] EXCEPT !.status = "VOIDED"]]_vars
  <2> SUFFICES ASSUME DispatchInv, LedgerInv, Next, NEW m \in Marks PROVE MayBecome(m)
    BY DEF MayBecome
  <2>1. PICK s \in Slots : Arrive(s) \/ Continue(s) \/ PersistFails(s) \/ Fail(s)
    BY DEF Next
  <2>2. CASE rows' = rows
    BY <2>2 DEF MayBecome
  <2> QED BY <2>1, <2>2, RowsStay, InsertsMay, AddMarkMay, PersistMay, SaveMay, DeleteMarkMay
<1> QED BY <1>1, DispatchInvariant, LedgerInvariant, PTL DEF Spec, MarkLifecycle


-----------------------------------------------------------------------------

(* Tracking: what a carrier tells, the gravest of it, lists of parcels.         *)

\* What a carrier's reports can come to.
Standing == {"PROCESSING", "ORIGIN", "INCIDENCE", "COMPLETED", "RETURN", "VOIDED"}

\* Whatever the carrier reports is one of six statuses.
LEMMA StatusStands ==
  ASSUME NEW h \in Happenings
  PROVE  StatusOf(h) \in Standing
  BY DEF StatusOf, MapTrackingNoveltyStatus, MapTrackingStatus, Standing

\* Every status has its place among the others.
LEMMA GravityTells == \A s \in Standing : Gravity(s) \in Nat
  BY DEF Standing, Gravity

\* The gravest of some statuses exists.
LEMMA OneIsGravest ==
  ASSUME NEW all \in SUBSET Standing, "PROCESSING" \in all
  PROVE  \E s \in all : \A r \in all : Gravity(s) >= Gravity(r)
<1>1. CASE "RETURN" \in all
  <2>1. \A r \in all : Gravity("RETURN") >= Gravity(r)
    BY DEF Standing, Gravity
  <2> QED BY <1>1, <2>1
<1>2. CASE "RETURN" \notin all /\ "VOIDED" \in all
  <2>1. \A r \in all : Gravity("VOIDED") >= Gravity(r)
    BY <1>2 DEF Standing, Gravity
  <2> QED BY <1>2, <2>1
<1>3. CASE "RETURN" \notin all /\ "VOIDED" \notin all /\ "COMPLETED" \in all
  <2>1. \A r \in all : Gravity("COMPLETED") >= Gravity(r)
    BY <1>3 DEF Standing, Gravity
  <2> QED BY <1>3, <2>1
<1>4. CASE "RETURN" \notin all /\ "VOIDED" \notin all /\ "COMPLETED" \notin all /\ "INCIDENCE" \in all
  <2>1. \A r \in all : Gravity("INCIDENCE") >= Gravity(r)
    BY <1>4 DEF Standing, Gravity
  <2> QED BY <1>4, <2>1
<1>5. CASE all \subseteq {"PROCESSING", "ORIGIN"}
  <2>1. \A r \in all : Gravity("PROCESSING") >= Gravity(r)
    BY <1>5 DEF Standing, Gravity
  <2> QED BY <2>1
<1> QED BY <1>1, <1>2, <1>3, <1>4, <1>5 DEF Standing

\* What is shown is the gravest of what happened.
LEMMA Gravest ==
  ASSUME NEW told \in SUBSET Happenings
  PROVE  /\ GlobalStatus(told) \in Standing
         /\ GlobalStatus(told) = "PROCESSING" \/ \E h \in told : GlobalStatus(told) = StatusOf(h)
         /\ Gravity(GlobalStatus(told)) >= Gravity("PROCESSING")
         /\ \A h \in told : Gravity(GlobalStatus(told)) >= Gravity(StatusOf(h))
<1>1. PICK all : all = {"PROCESSING"} \cup {StatusOf(h) : h \in told}
  OBVIOUS
<1>2. all \in SUBSET Standing /\ "PROCESSING" \in all
  BY <1>1, StatusStands DEF Standing
<1>3. \E s \in all : \A r \in all : Gravity(s) >= Gravity(r)
  BY <1>2, OneIsGravest
<1>4. GlobalStatus(told) = CHOOSE s \in all : \A r \in all : Gravity(s) >= Gravity(r)
  BY <1>1 DEF GlobalStatus
<1>5. GlobalStatus(told) \in all /\ \A r \in all : Gravity(GlobalStatus(told)) >= Gravity(r)
  BY <1>3, <1>4
<1>6. \A h \in told : StatusOf(h) \in all
  BY <1>1
<1>7. GlobalStatus(told) = "PROCESSING" \/ \E h \in told : GlobalStatus(told) = StatusOf(h)
  BY <1>1, <1>5
<1> QED BY <1>2, <1>5, <1>6, <1>7

\* The carrier only adds, and so does what it comes to.
LEMMA NeverLess ==
  ASSUME NEW less \in SUBSET Happenings, NEW more \in SUBSET Happenings, less \subseteq more
  PROVE  /\ Gravity(GlobalStatus(less)) \in Nat /\ Gravity(GlobalStatus(more)) \in Nat
         /\ Gravity(GlobalStatus(less)) <= Gravity(GlobalStatus(more))
<1>1. GlobalStatus(less) \in Standing /\ GlobalStatus(more) \in Standing
  BY Gravest
<1>2. Gravity(GlobalStatus(less)) \in Nat /\ Gravity(GlobalStatus(more)) \in Nat
  BY <1>1, GravityTells
<1>3. CASE GlobalStatus(less) = "PROCESSING"
  <2>1. Gravity(GlobalStatus(more)) >= Gravity("PROCESSING")
    BY Gravest
  <2> QED BY <1>2, <1>3, <2>1
<1>4. CASE \E h \in less : GlobalStatus(less) = StatusOf(h)
  <2>1. PICK h \in less : GlobalStatus(less) = StatusOf(h)
    BY <1>4
  <2>2. Gravity(GlobalStatus(more)) >= Gravity(StatusOf(h))
    BY <2>1, Gravest
  <2> QED BY <1>2, <2>1, <2>2
<1>5. GlobalStatus(less) = "PROCESSING" \/ \E h \in less : GlobalStatus(less) = StatusOf(h)
  BY Gravest
<1> QED BY <1>2, <1>3, <1>4, <1>5

-----------------------------------------------------------------------------
\* How many of a set are no smaller.
NoSmaller(S, x) == {y \in S : x <= y}

\* A finite set of numbers can be put in a row, the greatest first.
LEMMA GreatestFirst ==
  ASSUME NEW S \in SUBSET Nat, IsFiniteSet(S)
  PROVE  \E s \in SetToSeqs(S) : \A i, j \in DOMAIN s : i < j => s[i] > s[j]
<1>1. PICK n \in Nat : n = Cardinality(S)
  BY FS_CardinalityType
<1>2. PICK rank : rank = [x \in S |-> Cardinality(NoSmaller(S, x))]
  OBVIOUS
<1>3. ASSUME NEW x \in S
      PROVE  IsFiniteSet(NoSmaller(S, x)) /\ rank[x] \in 1..n
             /\ rank[x] = Cardinality(NoSmaller(S, x))
  <2>1. NoSmaller(S, x) \in SUBSET S /\ x \in NoSmaller(S, x)
    BY DEF NoSmaller
  <2>2. PICK k : k = Cardinality(NoSmaller(S, x))
    OBVIOUS
  <2>3. IsFiniteSet(NoSmaller(S, x)) /\ k <= n
    BY <1>1, <2>1, <2>2, FS_Subset
  <2>4. k \in Nat
    BY <2>2, <2>3, FS_CardinalityType
  <2>5. k # 0
    BY <2>1, <2>2, <2>3, FS_EmptySet
  <2>6. k \in 1..n
    BY ONLY <2>3, <2>4, <2>5, n \in Nat
  <2> QED BY <1>2, <2>2, <2>3, <2>6
<1>4. ASSUME NEW x \in S, NEW y \in S, x < y PROVE rank[y] < rank[x]
  <2>1. NoSmaller(S, y) \in SUBSET NoSmaller(S, x) /\ x \in NoSmaller(S, x) /\ x \notin NoSmaller(S, y)
    <3>1. x \in Nat /\ y \in Nat /\ \A z \in S : z \in Nat
      OBVIOUS
    <3>2. x <= x /\ ~(y <= x) /\ \A z \in S : y <= z => x <= z
      BY ONLY <1>4, <3>1
    <3> QED BY <3>2 DEF NoSmaller
  <2>2. Cardinality(NoSmaller(S, y)) <= Cardinality(NoSmaller(S, x))
        /\ Cardinality(NoSmaller(S, y)) # Cardinality(NoSmaller(S, x))
    BY <1>3, <2>1, FS_Subset
  <2> QED BY <1>3, <2>2
<1>5. \A x, y \in S : rank[x] = rank[y] => x = y
  <2> SUFFICES ASSUME NEW x \in S, NEW y \in S, x # y PROVE rank[x] # rank[y]
    OBVIOUS
  <2>1. x < y \/ y < x
    <3>1. x \in Nat /\ y \in Nat
      OBVIOUS
    <3> QED BY ONLY <3>1, x # y
  <2>2. rank[x] \in 1..n /\ rank[y] \in 1..n
    BY <1>3
  <2>3. rank[x] < rank[y] \/ rank[y] < rank[x]
    BY <1>4, <2>1
  <2> QED BY <2>2, <2>3
<1>6. rank \in Injection(S, 1..n)
  BY <1>2, <1>3, <1>5 DEF Injection, IsInjective
<1>7. IsFiniteSet(1..n) /\ Cardinality(1..n) = n
  <2>1. 1 \in Int /\ n \in Int
    OBVIOUS
  <2> QED BY <2>1, FS_Interval
<1>8. rank \in Surjection(S, 1..n)
  BY <1>1, <1>6, <1>7, FS_Injection
<1>9. \A i \in 1..n : \E x \in S : rank[x] = i
  BY <1>8 DEF Surjection
<1>10. PICK s : s = [i \in 1..n |-> CHOOSE x \in S : rank[x] = i]
  OBVIOUS
<1>11. \A i \in 1..n : s[i] \in S /\ rank[s[i]] = i
  BY <1>9, <1>10
<1>12. s \in [1..n -> S] /\ DOMAIN s = 1..n
  BY <1>10, <1>11
<1>13. \A i, j \in 1..n : i # j => s[i] # s[j]
  BY <1>11
<1>14. s \in SetToSeqs(S)
  BY <1>1, <1>12, <1>13 DEF SetToSeqs
<1>15. ASSUME NEW i \in DOMAIN s, NEW j \in DOMAIN s, i < j PROVE s[i] > s[j]
  <2>1. s[i] \in S /\ s[j] \in S /\ rank[s[i]] = i /\ rank[s[j]] = j /\ i \in Nat /\ j \in Nat
    BY <1>11, <1>12
  <2>2. ~(s[i] < s[j])
    <3>1. s[i] < s[j] => rank[s[j]] < rank[s[i]]
      BY <1>4, <2>1
    <3>2. s[i] < s[j] => j < i
      BY <2>1, <3>1
    <3>3. ~(j < i)
      BY ONLY <1>15, <2>1
    <3> QED BY <3>2, <3>3
  <2>3. s[i] # s[j]
    BY <1>13, <1>15, <1>12, <2>1
  <2>4. s[i] \in Nat /\ s[j] \in Nat
    BY <2>1
  <2> QED BY <2>2, <2>3, <2>4
<1> QED BY <1>14, <1>15

\* ... or the least.
LEMMA LeastFirst ==
  ASSUME NEW S \in SUBSET Nat, IsFiniteSet(S)
  PROVE  \E s \in SetToSeqs(S) : \A i, j \in DOMAIN s : i < j => s[i] < s[j]
<1>1. PICK s \in SetToSeqs(S) : \A i, j \in DOMAIN s : i < j => s[i] > s[j]
  BY GreatestFirst
<1>2. PICK n \in Nat : n = Cardinality(S)
  BY FS_CardinalityType
<1>3. s \in [1..n -> S] /\ \A i, j \in 1..n : i # j => s[i] # s[j]
  BY <1>2 DEF SetToSeqs
<1>4. PICK r : r = [i \in 1..n |-> s[n + 1 - i]]
  OBVIOUS
<1>5. \A i \in 1..n : n + 1 - i \in 1..n /\ r[i] = s[n + 1 - i] /\ r[i] \in S
  BY <1>3, <1>4
<1>6. r \in [1..n -> S] /\ DOMAIN r = 1..n
  BY <1>4, <1>5
<1>7. \A i, j \in 1..n : i # j => r[i] # r[j]
  BY <1>3, <1>5
<1>8. r \in SetToSeqs(S)
  BY <1>2, <1>6, <1>7 DEF SetToSeqs
<1>9. ASSUME NEW i \in 1..n, NEW j \in 1..n, i < j PROVE r[i] < r[j]
  <2>1. PICK a \in 1..n : a = n + 1 - i
    BY <1>5
  <2>2. PICK b \in 1..n : b = n + 1 - j
    BY <1>5
  <2>3. b < a
    BY <1>9, <2>1, <2>2
  <2>4. s[b] > s[a]
    BY <1>1, <1>3, <2>3
  <2>5. s[a] \in Nat /\ s[b] \in Nat
    BY <1>3
  <2>6. r[i] = s[a] /\ r[j] = s[b]
    BY <1>5, <2>1, <2>2
  <2> QED BY <2>4, <2>5, <2>6
<1> QED BY <1>6, <1>8, <1>9


\* A finite set put in a row has all its members there, once.
LEMMA InARow ==
  ASSUME NEW S, IsFiniteSet(S), NEW s \in SetToSeqs(S)
  PROVE  /\ s \in Seq(S) /\ Len(s) = Cardinality(S) /\ Cardinality(S) \in Nat
         /\ s \in [1..Cardinality(S) -> S]
<1>1. PICK n \in Nat : n = Cardinality(S)
  BY FS_CardinalityType
<1>2. s \in [1..n -> S]
  BY <1>1 DEF SetToSeqs
<1> QED BY <1>1, <1>2

\* A list has each of its marks once.
LEMMA NewestTells ==
  ASSUME NEW marks \in SUBSET TrackedMarks
  PROVE  /\ Newest(marks) \in Seq(marks)
         /\ Len(Newest(marks)) = Cardinality(marks) /\ Cardinality(marks) \in Nat
<1>1. marks \in SUBSET Nat /\ IsFiniteSet(marks)
  BY TrackingAssumption, FS_Subset
<1>2. \E s \in SetToSeqs(marks) : \A i, j \in DOMAIN s : i < j => s[i] > s[j]
  BY <1>1, GreatestFirst
<1>3. Newest(marks) \in SetToSeqs(marks)
  BY <1>2 DEF Newest
<1> QED BY <1>1, <1>3, InARow

\* What is kept of some rows are places of those that show it.
LEMMA KeptTells ==
  ASSUME NEW r, r.rows \in Seq(TrackedRow)
  PROVE  KeptAt(r) \in Seq({i \in DOMAIN r.rows : r.rows[i].shows = r.want})
<1>1. PICK S : S = {i \in DOMAIN r.rows : r.rows[i].shows = r.want}
  OBVIOUS
<1>2. PICK n \in Nat : n = Len(r.rows)
  OBVIOUS
<1>3. DOMAIN r.rows = 1..n
  BY <1>2
<1>4. S \in SUBSET (1..n)
  BY <1>1, <1>3
<1>5. S \in SUBSET Nat
  BY <1>4
<1>6. IsFiniteSet(1..n)
  <2>1. 1 \in Int /\ n \in Int
    OBVIOUS
  <2> QED BY <2>1, FS_Interval
<1>7. IsFiniteSet(S)
  BY <1>4, <1>6, FS_Subset
<1>8. \E s \in SetToSeqs(S) : \A i, j \in DOMAIN s : i < j => s[i] < s[j]
  BY <1>5, <1>7, LeastFirst
<1>9. KeptAt(r) = CHOOSE s \in SetToSeqs(S) : \A i, j \in DOMAIN s : i < j => s[i] < s[j]
  BY <1>1 DEF KeptAt
<1>10. KeptAt(r) \in SetToSeqs(S)
  BY <1>8, <1>9
<1> QED BY <1>1, <1>7, <1>10, InARow

\* A page more is so many rows more.
LEMMA ChunksAdd ==
  ASSUME NEW size \in Nat \ {0}, NEW page \in Nat \ {0}
  PROVE  /\ page * size = (page - 1) * size + size /\ (page + 1 - 1) * size = page * size
         /\ (page - 1) * size \in Nat /\ page * size \in Nat
<1>1. page - 1 \in Nat
  OBVIOUS
<1> QED BY <1>1

\* A slice is a part of the whole, and is empty only after its end.
LEMMA PageTells ==
  ASSUME NEW S, NEW s \in Seq(S), NEW page \in Nat \ {0}
  PROVE  /\ Passed(page) \in Nat /\ Slice(s, page, ChunkSize) \in Seq(S)
         /\ Len(Slice(s, page, ChunkSize)) =
              IF Passed(page) + ChunkSize < Len(s) THEN ChunkSize
              ELSE IF Passed(page) < Len(s) THEN Len(s) - Passed(page) ELSE 0
         /\ \A i \in 1..Len(Slice(s, page, ChunkSize)) :
              Passed(page) + i \in 1..Len(s) /\ Slice(s, page, ChunkSize)[i] = s[Passed(page) + i]
<1>15. PICK size \in Nat \ {0} : size = ChunkSize
  BY TrackingAssumption
<1>16. PICK from \in Nat : from = (page - 1) * size /\ from = Passed(page)
  BY <1>15, ChunksAdd DEF Passed
<1>17. PICK n \in Nat : n = Len(s)
  OBVIOUS
<1>1. PICK to \in Nat : to = page * size /\ to = from + size
  BY <1>16, ChunksAdd
<1>2. PICK last \in Nat : last = IF to < n THEN to ELSE n
  OBVIOUS
<1>3. Slice(s, page, size) = SubSeq(s, from + 1, last)
  BY <1>1, <1>2, <1>16, <1>17 DEF Slice
<1>4. PICK len : len = IF from < last THEN last - from ELSE 0
  OBVIOUS
<1>14. len \in Nat
  BY ONLY <1>4, from \in Nat, last \in Nat
<1>5. len = IF from + size < n THEN size ELSE IF from < n THEN n - from ELSE 0
  <2>1. CASE to < n
    BY ONLY <1>1, <1>2, <1>4, <2>1, to \in Nat, from \in Nat, n \in Nat, size \in Nat \ {0}
  <2>2. CASE ~(to < n)
    BY ONLY <1>1, <1>2, <1>4, <2>2, to \in Nat, from \in Nat, n \in Nat, size \in Nat \ {0}
  <2> QED BY <2>1, <2>2
<1>6. PICK part : part = SubSeq(s, from + 1, last)
  OBVIOUS
<1>7. PICK first \in Int : first = from + 1
  OBVIOUS
<1>8. last <= n
  BY <1>2
<1>9. \A i \in first..last : i \in 1..n
  BY ONLY <1>7, <1>8, from \in Nat, last \in Nat, n \in Nat
<1>10. \A i \in 1..n : s[i] \in S
  BY <1>17
<1>11. /\ part \in Seq(S) /\ Len(part) = IF first <= last THEN last - first + 1 ELSE 0
       /\ \A i \in 1..(last - first + 1) : part[i] = s[first + i - 1]
  <2>1. part = SubSeq(s, first, last) /\ last \in Int
    BY <1>6, <1>7
  <2>2. \A i \in first..last : s[i] \in S
    BY ONLY <1>9, <1>10
  <2> QED BY ONLY <2>1, <2>2, first \in Int, SubSeqProperties
<1>12. Len(part) = len
  BY ONLY <1>4, <1>7, <1>11, from \in Nat, last \in Nat
<1>13. ASSUME NEW i \in 1..len PROVE from + i \in 1..n /\ part[i] = s[from + i]
  <2>1. i \in 1..(last - first + 1) /\ first + i - 1 = from + i /\ from + i \in 1..n
    BY ONLY <1>4, <1>7, <1>8, <1>14, i \in 1..len, from \in Nat, last \in Nat, n \in Nat
  <2> QED BY <1>11, <2>1
<1>18. Slice(s, page, ChunkSize) = part
  BY <1>3, <1>6, <1>15
<1> QED BY ONLY <1>5, <1>11, <1>12, <1>13, <1>15, <1>16, <1>17, <1>18, from \in Nat

\* What comes before a page.
LEMMA PassedTells ==
  ASSUME NEW page \in Nat \ {0}
  PROVE  Passed(page) \in Nat /\ Passed(page + 1) = Passed(page) + ChunkSize /\ Passed(1) = 0
<1>1. ChunkSize \in Nat \ {0}
  BY TrackingAssumption
<1>2. /\ page * ChunkSize = (page - 1) * ChunkSize + ChunkSize
      /\ (page + 1 - 1) * ChunkSize = page * ChunkSize /\ (page - 1) * ChunkSize \in Nat
  BY <1>1, ChunksAdd
<1>3. Passed(1) = 0
  BY <1>1 DEF Passed
<1>4. Passed(page + 1) = (page + 1 - 1) * ChunkSize /\ Passed(page) = (page - 1) * ChunkSize
  BY DEF Passed
<1> QED BY ONLY <1>2, <1>3, <1>4

\* One row of things after another.
LEMMA Joined ==
  ASSUME NEW S, NEW a \in Seq(S), NEW b \in Seq(S)
  PROVE  /\ a \o b \in Seq(S) /\ Len(a \o b) = Len(a) + Len(b)
         /\ \A i \in DOMAIN a : i \in DOMAIN (a \o b) /\ (a \o b)[i] = a[i]
         /\ \A i \in DOMAIN (a \o b) : i \in DOMAIN a \/ \E j \in DOMAIN b : i = Len(a) + j /\ (a \o b)[i] = b[j]
<1>1. /\ a \o b \in Seq(S) /\ Len(a \o b) = Len(a) + Len(b)
      /\ \A i \in 1..(Len(a) + Len(b)) : (a \o b)[i] = IF i <= Len(a) THEN a[i] ELSE b[i - Len(a)]
  BY ConcatProperties
<1>2. PICK n \in Nat : n = Len(a)
  OBVIOUS
<1>3. PICK k \in Nat : k = Len(b)
  OBVIOUS
<1>4. PICK c : c = a \o b
  OBVIOUS
<1>5. DOMAIN a = 1..n /\ DOMAIN b = 1..k /\ DOMAIN c = 1..(n + k)
  BY <1>1, <1>2, <1>3, <1>4
<1>6. \A i \in 1..(n + k) : c[i] = IF i <= n THEN a[i] ELSE b[i - n]
  BY <1>1, <1>2, <1>3, <1>4
<1>7. \A i \in 1..n : i \in 1..(n + k) /\ i <= n
  BY ONLY n \in Nat, k \in Nat
<1>8. \A i \in 1..(n + k) : i \in 1..n \/ (~(i <= n) /\ i - n \in 1..k /\ i = n + (i - n))
  BY ONLY n \in Nat, k \in Nat
<1>9. \A i \in DOMAIN c : i \in DOMAIN a \/ \E j \in DOMAIN b : i = n + j /\ c[i] = b[j]
  BY <1>5, <1>6, <1>8
<1>10. \A i \in DOMAIN a : i \in DOMAIN c /\ c[i] = a[i]
  BY <1>5, <1>6, <1>7
<1> QED BY <1>1, <1>2, <1>4, <1>9, <1>10


\* The clock and the durations.
LEMMA NumbersFit ==
  ASSUME TrackTypes
  PROVE  /\ moment \in Nat /\ moment <= LastMoment /\ LastMoment \in Nat /\ Never \in Nat
         /\ HistoryTtl \in Nat /\ CallTime \in Nat /\ ChunkSize \in Nat \ {0}
         /\ Never > moment
<1>1. /\ moment \in 0..LastMoment /\ LastMoment \in Nat /\ HistoryTtl \in Nat /\ CallTime \in Nat
      /\ ChunkSize \in Nat \ {0}
  BY TrackingAssumption DEF TrackTypes
<1> QED BY <1>1 DEF Never

\* What is told are happenings.
LEMMA TellsHappenings ==
  ASSUME NEW x
  PROVE  /\ Told(x) \in SUBSET Happenings
         /\ \A from, to : ToldBetween(x, from, to) \subseteq SUBSET Happenings
  BY DEF Told, ToldBetween

\* What was told since then was told since an earlier time.
LEMMA SinceEarlier ==
  ASSUME TrackTypes, NEW x \in TrackedMarks, NEW from \in Int, NEW before \in Int, before <= from,
         NEW told \in ToldBetween(x, from, moment)
  PROVE  told \in ToldBetween(x, before, moment)
<1>1. \A h \in Happenings : since[x][h] \in Nat
  BY DEF TrackTypes
<1>2. \A h \in Happenings : since[x][h] < before => since[x][h] < from
  BY <1>1
<1> QED BY <1>2 DEF ToldBetween

\* All that is reported now was reported at this moment, ...
LEMMA ToldNow ==
  ASSUME TrackTypes, NEW x \in TrackedMarks, NEW from \in Int, from <= moment
  PROVE  Told(x) \in ToldBetween(x, from, moment)
<1>1. moment \in Nat
  BY NumbersFit
<1>2. \A h \in Happenings : since[x][h] \in Nat
  BY DEF TrackTypes
<1>3. \A h \in Happenings : since[x][h] < from => since[x][h] <= moment
  BY <1>1, <1>2
<1> QED BY <1>3 DEF Told, ToldBetween

\* ... and nothing that was reported is taken back.
LEMMA ToldLater ==
  ASSUME TrackTypes, KnownSince, NEW x \in TrackedMarks,
         PassMoment \/ \E y \in TrackedMarks, h \in Happenings : Happen(y, h)
  PROVE  /\ Told(x) \subseteq Told(x)'
         /\ \A from \in Int : from <= moment =>
              ToldBetween(x, from, moment) \subseteq ToldBetween(x, from, moment)'
<1>1. moment \in Nat /\ Never > moment /\ Never \in Nat
  BY NumbersFit
<1>2. \A g \in Happenings : since[x][g] \in Nat
  BY DEF TrackTypes
<1>3. /\ \A g \in Happenings : since[x][g] <= moment => since'[x][g] <= moment'
      /\ \A from \in Int : from <= moment =>
           \A g \in Happenings : since'[x][g] < from => since[x][g] < from
  <2>1. CASE PassMoment
    BY <1>1, <1>2, <2>1 DEF PassMoment
  <2>2. CASE \E y \in TrackedMarks, h \in Happenings : Happen(y, h)
    <3>1. PICK y \in TrackedMarks, h \in Happenings : Happen(y, h)
      BY <2>2
    <3>2. /\ since[y][h] = Never /\ since' = [since EXCEPT ![y][h] = moment] /\ moment' = moment
      BY <3>1 DEF Happen
    <3>3. \A g \in Happenings : (x = y /\ g = h) \/ since'[x][g] = since[x][g]
      BY <3>2 DEF TrackTypes
    <3>4. x = y => since'[x][h] = moment
      BY <3>2 DEF TrackTypes
    <3>5. x = y => since[x][h] = Never
      BY <3>2
    <3> QED BY <1>1, <1>2, <3>2, <3>3, <3>4, <3>5
  <2> QED BY <2>1, <2>2
<1>4. Told(x) \subseteq Told(x)'
  BY <1>3 DEF Told
<1>5. ASSUME NEW from \in Int, from <= moment
      PROVE  ToldBetween(x, from, moment) \subseteq ToldBetween(x, from, moment)'
  <2>1. {h \in Happenings : since[x][h] <= moment} \subseteq {h \in Happenings : since'[x][h] <= moment'}
    BY <1>3
  <2>2. {h \in Happenings : since'[x][h] < from} \subseteq {h \in Happenings : since[x][h] < from}
    BY <1>3, <1>5
  <2> QED BY <2>1, <2>2 DEF ToldBetween
<1> QED BY <1>4, <1>5

\* Nothing becomes known ahead of its time.
LEMMA KnownLater ==
  ASSUME TrackTypes, KnownSince,
         PassMoment \/ \E y \in TrackedMarks, h \in Happenings : Happen(y, h)
  PROVE  TrackTypes' /\ KnownSince'
<1>1. moment \in Nat /\ Never > moment /\ Never \in Nat /\ LastMoment \in Nat
  BY NumbersFit
<1>2. CASE PassMoment
  <2>1. /\ UNCHANGED <<tracked, since, histories, tracker, reported>>
        /\ moment' = moment + 1 /\ moment < LastMoment
    BY <1>2 DEF PassMoment
  <2>2. TrackTypes'
    BY <1>1, <2>1 DEF TrackTypes
  <2>3. ASSUME NEW x \in TrackedMarks, NEW g \in Happenings PROVE since'[x][g] \in 0..moment' \cup {Never}
    <3>1. since[x][g] \in 0..moment \cup {Never} /\ since'[x][g] = since[x][g]
      BY <2>1 DEF KnownSince
    <3> QED BY <1>1, <2>1, <3>1
  <2> QED BY <2>2, <2>3 DEF KnownSince, Never
<1>3. ASSUME NEW y \in TrackedMarks, NEW h \in Happenings, Happen(y, h)
      PROVE  TrackTypes' /\ KnownSince'
  <2>1. /\ UNCHANGED <<tracked, moment, histories, tracker, reported>>
        /\ since' = [since EXCEPT ![y][h] = moment]
    BY <1>3 DEF Happen
  <2>2. TrackTypes'
    BY <1>1, <2>1 DEF TrackTypes
  <2>3. ASSUME NEW x \in TrackedMarks, NEW g \in Happenings PROVE since'[x][g] \in 0..moment' \cup {Never}
    <3>1. since[x][g] \in 0..moment \cup {Never} /\ (since'[x][g] = since[x][g] \/ since'[x][g] = moment)
      BY <2>1 DEF KnownSince, TrackTypes
    <3> QED BY <1>1, <2>1, <3>1
  <2> QED BY <2>2, <2>3 DEF KnownSince, Never
<1> QED BY <1>2, <1>3

\* Time makes nothing milder.
LEMMA GraverLater ==
  ASSUME TrackTypes, KnownSince, NEW x \in TrackedMarks,
         PassMoment \/ \E y \in TrackedMarks, h \in Happenings : Happen(y, h)
  PROVE  /\ Gravity(GlobalStatus(Told(x))) \in Nat /\ Gravity(GlobalStatus(Told(x)))' \in Nat
         /\ Gravity(GlobalStatus(Told(x))) <= Gravity(GlobalStatus(Told(x)))'
<1>1. PICK a : a = Told(x)
  OBVIOUS
<1>2. PICK b : b = Told(x)'
  OBVIOUS
<1>3. a \in SUBSET Happenings /\ b \in SUBSET Happenings /\ a \subseteq b
  BY <1>1, <1>2, ToldLater DEF Told
<1>4. /\ Gravity(GlobalStatus(a)) \in Nat /\ Gravity(GlobalStatus(b)) \in Nat
      /\ Gravity(GlobalStatus(a)) <= Gravity(GlobalStatus(b))
  BY <1>3, NeverLess
<1>5. Gravity(GlobalStatus(b)) = Gravity(GlobalStatus(Told(x)))'
  BY <1>2 DEF Gravity, GlobalStatus
<1> QED BY <1>1, <1>4, <1>5

\* What a request is made of.
LEMMA TrackerParts ==
  ASSUME NEW r \in TrackerType
  PROVE  /\ r.page \in Nat \ {0} /\ r.began \in Nat /\ r.chunk \in Nat \ {0} /\ r.total \in Nat
         /\ r.rows \in Seq(TrackedRow) /\ r.at \in Nat /\ r.called \in Nat
         /\ r.told \in SUBSET Happenings /\ r.floor \in Nat /\ r.steady \in BOOLEAN
         /\ r.found \in Seq(TrackedRow)
         /\ \A i \in DOMAIN r.rows : r.rows[i] \in TrackedRow
         /\ \A i \in DOMAIN r.found : r.found[i] \in TrackedRow
<1>1. r.rows \in Seq(TrackedRow) /\ r.found \in Seq(TrackedRow)
  BY DEF TrackerType
<1>2. /\ \A i \in DOMAIN r.rows : r.rows[i] \in TrackedRow
      /\ \A i \in DOMAIN r.found : r.found[i] \in TrackedRow
  BY ONLY <1>1
<1> QED BY <1>1, <1>2 DEF TrackerType

\* What a row is made of.
LEMMA RowParts ==
  ASSUME NEW row \in TrackedRow
  PROVE  /\ row.id \in TrackedMarks /\ row.voided \in BOOLEAN /\ row.failed \in BOOLEAN
         /\ row.shows \in ShownStatus \cup {NoShow}
  BY DEF TrackedRow

\* Time passes, or something happens to a parcel.
LEMMA LaterFits ==
  ASSUME TrackInv, NEW t \in Trackers, NEW r, r = tracker[t],
         PassMoment \/ \E y \in TrackedMarks, h \in Happenings : Happen(y, h)
  PROVE  TrackerFits(r)'
<1>1. TrackTypes /\ KnownSince /\ TrackerFits(r) /\ r \in TrackerType
  BY DEF TrackInv, TrackTypes
<1>2. /\ tracked' = tracked /\ tracker' = tracker /\ moment' \in Nat /\ moment <= moment'
      /\ moment \in Nat /\ HistoryTtl \in Nat /\ CallTime \in Nat
  <2>1. moment \in Nat /\ HistoryTtl \in Nat /\ CallTime \in Nat
    BY <1>1, NumbersFit
  <2>2. tracked' = tracked /\ tracker' = tracker /\ (moment' = moment \/ moment' = moment + 1)
    BY DEF PassMoment, Happen
  <2> QED BY <2>1, <2>2
<1>3. /\ \A i \in DOMAIN r.rows : r.rows[i].id \in TrackedMarks
      /\ \A i \in DOMAIN r.found : r.found[i].id \in TrackedMarks
      /\ r.began \in Nat /\ r.called \in Nat /\ r.floor \in Nat
  BY <1>1, TrackerParts, RowParts
<1>4. ListFresh(r) /\ CallFresh(r) /\ NotTakenBack(r) /\ ShownAsWanted(r)
  BY <1>1 DEF TrackerFits
<1>5. PICK from : from = r.began - HistoryTtl - CallTime
  OBVIOUS
<1>12. from \in Int /\ from <= moment
  <2>1. r.began <= moment
    BY <1>4 DEF ListFresh
  <2> QED BY ONLY <1>2, <1>3, <1>5, <2>1
<1>6. ASSUME NEW row, row.id \in TrackedMarks, ShownFresh(row, from) PROVE ShownFresh(row, from)'
  <2> SUFFICES ASSUME row.shows # NoShow, tracked[row.id].carrier = "tcc", ~row.failed
               PROVE  \E told \in ToldBetween(row.id, from, moment)' : row.shows = GlobalStatus(told)
    BY <1>2 DEF ShownFresh
  <2>1. PICK told \in ToldBetween(row.id, from, moment) : row.shows = GlobalStatus(told)
    BY <1>6 DEF ShownFresh
  <2>2. told \in ToldBetween(row.id, from, moment)'
    BY <1>1, <1>6, <1>12, ToldLater
  <2> QED BY <2>1, <2>2
<1>7. ListFresh(r)'
  <2>1. /\ r.began <= moment
        /\ \A i \in DOMAIN r.rows : ShownFresh(r.rows[i], from)
        /\ \A i \in DOMAIN r.found : r.found[i].shows # NoShow /\ ShownFresh(r.found[i], from)
    BY <1>4, <1>5 DEF ListFresh
  <2>2. /\ \A i \in DOMAIN r.rows : ShownFresh(r.rows[i], from)'
        /\ \A i \in DOMAIN r.found : ShownFresh(r.found[i], from)'
    BY <1>3, <1>6, <2>1
  <2>3. r.began <= moment'
    BY ONLY <1>2, <1>3, <2>1
  <2> QED BY <1>5, <2>1, <2>2, <2>3 DEF ListFresh
<1>8. CallFresh(r)'
  <2>1. r.phase \in {"call", "keep"} => moment' <= r.called + CallTime
    <3>1. CASE PassMoment
      <4> SUFFICES ASSUME r.phase \in {"call", "keep"} PROVE moment' <= r.called + CallTime
        OBVIOUS
      <4>1. moment - r.called < CallTime /\ moment' = moment + 1
        BY <3>1 DEF PassMoment
      <4> QED BY ONLY <1>2, <1>3, <4>1
    <3>2. CASE moment' = moment
      BY <1>4, <3>2 DEF CallFresh
    <3> QED BY <3>1, <3>2 DEF Happen
  <2>2. r.phase = "keep" => r.told \in ToldBetween(r.rows[r.at].id, r.called, moment)'
    <3> SUFFICES ASSUME r.phase = "keep" PROVE r.told \in ToldBetween(r.rows[r.at].id, r.called, moment)'
      OBVIOUS
    <3>1. PICK x : x = r.rows[r.at].id
      OBVIOUS
    <3>2. PICK called : called = r.called
      OBVIOUS
    <3>3. /\ x \in TrackedMarks /\ called \in r.began..moment
          /\ r.told \in ToldBetween(x, called, moment)
      BY <1>3, <1>4, <3>1, <3>2 DEF CallFresh
    <3>4. called \in Int /\ called <= moment
      BY ONLY <1>2, <1>3, <3>2, <3>3
    <3>5. r.told \in ToldBetween(x, called, moment)'
      BY <1>1, <3>3, <3>4, ToldLater
    <3> QED BY <3>1, <3>2, <3>5
  <2>3. /\ r.phase \in {"drop", "call", "keep"} =>
              r.at \in DOMAIN r.rows /\ tracked'[r.rows[r.at].id].carrier = "tcc"
        /\ r.phase \in {"call", "keep"} => r.called \in r.began..moment
    BY <1>2, <1>4 DEF CallFresh
  <2>4. r.called \in r.began..moment => r.called \in r.began..moment'
    BY ONLY <1>2, <1>3
  <2> QED BY <2>1, <2>2, <2>3, <2>4 DEF CallFresh
<1>9. NotTakenBack(r)'
  <2> SUFFICES ASSUME r.phase \in {"ask", "told"}
               PROVE  /\ r.at \in TrackedMarks
                      /\ tracked[r.at].carrier = "tcc" =>
                          IF r.phase = "ask" THEN r.floor <= Gravity(GlobalStatus(Told(r.at)))'
                          ELSE r.told \subseteq Told(r.at)' /\ r.floor <= Gravity(GlobalStatus(r.told))
    BY <1>2, ZenonT(60) DEF NotTakenBack
  <2>1. PICK x \in TrackedMarks : x = r.at
    BY <1>4 DEF NotTakenBack
  <2>2. /\ Gravity(GlobalStatus(Told(x))) \in Nat /\ Gravity(GlobalStatus(Told(x)))' \in Nat
        /\ Gravity(GlobalStatus(Told(x))) <= Gravity(GlobalStatus(Told(x)))'
    BY <1>1, GraverLater
  <2>3. Told(x) \subseteq Told(x)'
    BY <1>1, ToldLater
  <2>4. tracked[x].carrier = "tcc" =>
                          IF r.phase = "ask" THEN r.floor <= Gravity(GlobalStatus(Told(x)))
                          ELSE r.told \subseteq Told(x) /\ r.floor <= Gravity(GlobalStatus(r.told))
    BY <1>4, <2>1 DEF NotTakenBack
  <2>5. CASE r.phase = "ask"
    <3>1. r.floor <= Gravity(GlobalStatus(Told(x))) => r.floor <= Gravity(GlobalStatus(Told(x)))'
      BY ONLY <1>3, <2>2
    <3> QED BY <2>1, <2>4, <2>5, <3>1
  <2>6. CASE r.phase # "ask"
    <3>1. tracked[x].carrier = "tcc" => r.told \subseteq Told(x) /\ r.floor <= Gravity(GlobalStatus(r.told))
      BY <2>4, <2>6
    <3>2. tracked[x].carrier = "tcc" => r.told \subseteq Told(x)' /\ r.floor <= Gravity(GlobalStatus(r.told))
      BY ONLY <2>3, <3>1
    <3> QED BY ONLY <2>1, <2>6, <3>2, Zenon
  <2> QED BY <2>5, <2>6
<1>10. ShownAsWanted(r)'
  BY <1>2, <1>4 DEF ShownAsWanted
<1>11. r.steady /\ r.phase # "idle" => ListingKept(r)'
  <2>1. Listed(r.want)' = Listed(r.want)
    BY <1>2 DEF Listed
  <2>2. Newest(Listed(r.want))' = Newest(Listed(r.want))
    BY <2>1 DEF Newest
  <2> QED BY <1>1, <2>2 DEF TrackerFits, ListingKept, Slice
<1> QED BY <1>7, <1>8, <1>9, <1>10, <1>11 DEF TrackerFits


\* What a request holds fits as long as marks, happenings and the clock stay.
LEMMA FitsStays ==
  ASSUME NEW r, UNCHANGED <<tracked, since, moment>>, TrackerFits(r)
  PROVE  TrackerFits(r)'
<1>1. \A x : Told(x)' = Told(x)
  BY DEF Told
<1>2. \A x, from, to : ToldBetween(x, from, to)' = ToldBetween(x, from, to)
  BY DEF ToldBetween
<1>3. ListFresh(r)'
  BY <1>2 DEF TrackerFits, ListFresh, ShownFresh
<1>4. CallFresh(r)'
  BY <1>2 DEF TrackerFits, CallFresh
<1>5. NotTakenBack(r)'
  BY <1>1 DEF TrackerFits, NotTakenBack
<1>6. ShownAsWanted(r)'
  BY DEF TrackerFits, ShownAsWanted
<1>7. r.steady /\ r.phase # "idle" => ListingKept(r)'
  <2>1. Listed(r.want)' = Listed(r.want)
    BY DEF Listed
  <2>2. Newest(Listed(r.want))' = Newest(Listed(r.want))
    BY <2>1 DEF Newest
  <2> QED BY <2>2 DEF TrackerFits, ListingKept, Slice
<1> QED BY <1>3, <1>4, <1>5, <1>6, <1>7 DEF TrackerFits

\* A step of one request.
LEMMA OneRequest ==
  ASSUME TrackInv, NEW t \in Trackers, NEW r \in TrackerType, TrackerFits(r),
         UNCHANGED <<tracked, since, moment>>, tracker' = [tracker EXCEPT ![t] = r],
         histories' \in [TrackedMarks -> [told : SUBSET Happenings, until : Int]],
         reported' \in [TrackedMarks -> Nat], KeptFresh', ToldAtMost'
  PROVE  TrackInv'
<1>1. TrackTypes'
  BY DEF TrackInv, TrackTypes
<1>2. KnownSince'
  BY DEF TrackInv, KnownSince, Never
<1>3. ASSUME NEW u \in Trackers PROVE TrackerFits(tracker[u])'
  <2>1. PICK q : q = tracker'[u]
    OBVIOUS
  <2>2. q = r \/ q = tracker[u]
    BY <2>1 DEF TrackInv, TrackTypes
  <2>3. TrackerFits(q)
    BY <2>2 DEF TrackInv
  <2>4. TrackerFits(q)'
    BY <2>3, FitsStays
  <2> QED BY <2>1, <2>4
<1> QED BY <1>1, <1>2, <1>3 DEF TrackInv

\* Nothing is kept nor told.
LEMMA QuietRequest ==
  ASSUME TrackInv, NEW t \in Trackers, NEW r \in TrackerType, TrackerFits(r),
         tracker' = [tracker EXCEPT ![t] = r],
         UNCHANGED <<tracked, since, moment, histories, reported>>
  PROVE  TrackInv'
<1>1. /\ histories' \in [TrackedMarks -> [told : SUBSET Happenings, until : Int]]
      /\ reported' \in [TrackedMarks -> Nat]
  BY DEF TrackInv, TrackTypes
<1>2. KeptFresh'
  <2>1. KeptFresh
    BY DEF TrackInv
  <2> QED BY <2>1 DEF KeptFresh, ToldBetween, NoHistory
<1>3. ToldAtMost'
  <2>1. ToldAtMost
    BY DEF TrackInv
  <2> QED BY <2>1 DEF ToldAtMost, Told
<1> QED BY <1>1, <1>2, <1>3, OneRequest

\* A request that has not begun holds nothing.
LEMMA IdleFits ==
  ASSUME TrackTypes
  PROVE  NoTracker \in TrackerType /\ TrackerFits(NoTracker)
<1>1. <<>> \in Seq(TrackedRow) /\ DOMAIN <<>> = {}
  OBVIOUS
<1>2. NoTracker \in TrackerType
  BY <1>1 DEF NoTracker, TrackerType
<1>3. moment \in Nat
  BY NumbersFit
<1> QED BY <1>1, <1>2, <1>3 DEF NoTracker, TrackerFits, ListFresh, CallFresh, NotTakenBack, ShownAsWanted

\* What the invariant says of one request.
LEMMA RequestFits ==
  ASSUME TrackInv, NEW t \in Trackers, NEW q, q = tracker[t]
  PROVE  q \in TrackerType /\ TrackerFits(q) /\ TrackTypes
  BY DEF TrackInv, TrackTypes

\* A request that only gets on has the list it had.
LEMMA SameList ==
  ASSUME NEW q \in TrackerType, TrackerFits(q), NEW r,
         r.began = q.began, r.rows = q.rows, r.found = q.found, r.want = q.want
  PROVE  ListFresh(r) /\ ShownAsWanted(r)
  BY DEF TrackerFits, ListFresh, ShownAsWanted

-----------------------------------------------------------------------------
\* One parcel is asked for.
LEMMA GetTrackingStep ==
  ASSUME TrackInv, NEW t \in Trackers, NEW x \in TrackedMarks, GetTracking(t, x)
  PROVE  TrackInv'
<1>1. PICK r : r = IF tracked[x].carrier = "tcc"
         THEN [NoTracker EXCEPT !.phase = "ask", !.at = x, !.began = moment, !.floor = reported[x]]
         ELSE [NoTracker EXCEPT !.phase = "told", !.at = x]
  OBVIOUS
<1>2. tracker' = [tracker EXCEPT ![t] = r] /\ UNCHANGED <<tracked, since, moment, histories, reported>>
  BY <1>1 DEF GetTracking
<1>3. /\ moment \in Nat /\ x \in Nat /\ reported[x] \in Nat /\ TrackTypes
      /\ tracked[x].carrier = "tcc" => reported[x] <= Gravity(GlobalStatus(Told(x)))
  BY NumbersFit, TrackingAssumption DEF TrackInv, TrackTypes, ToldAtMost
<1>4. /\ r.want = Every /\ r.rows = <<>> /\ r.found = <<>> /\ r.began \in {0, moment} /\ r.at = x
      /\ r.phase \in {"ask", "told"} /\ (tracked[x].carrier = "tcc" => r.phase = "ask" /\ r.floor = reported[x])
  BY <1>1 DEF NoTracker
<1>5. r \in TrackerType
  BY <1>1, <1>3, IdleFits DEF NoTracker, TrackerType
<1>6. DOMAIN r.rows = {} /\ DOMAIN r.found = {}
  BY <1>4
<1>7. ListFresh(r) /\ ShownAsWanted(r)
  BY <1>3, <1>4, <1>6 DEF ListFresh, ShownAsWanted
<1>8. CallFresh(r) /\ ListingKept(r)
  BY <1>4 DEF CallFresh, ListingKept
<1>9. NotTakenBack(r)
  BY <1>3, <1>4 DEF NotTakenBack
<1> QED BY <1>2, <1>5, <1>7, <1>8, <1>9, QuietRequest DEF TrackerFits

\* The carrier's answer to it.
LEMMA AnswerGetStep ==
  ASSUME TrackInv, NEW t \in Trackers, AnswerGet(t)
  PROVE  TrackInv'
<1>1. PICK q : q = tracker[t]
  OBVIOUS
<1>2. q \in TrackerType /\ TrackerFits(q) /\ TrackTypes /\ q.phase = "ask"
  BY <1>1, RequestFits DEF AnswerGet
<1>3. PICK told : told = Told(q.at)
  OBVIOUS
<1>4. PICK r : r = [q EXCEPT !.phase = "told", !.told = told]
  OBVIOUS
<1>5. tracker' = [tracker EXCEPT ![t] = r] /\ UNCHANGED <<tracked, since, moment, histories, reported>>
  BY <1>1, <1>3, <1>4 DEF AnswerGet
<1>6. told \in SUBSET Happenings
  BY <1>3, TellsHappenings
<1>7. r \in TrackerType
  BY <1>2, <1>4, <1>6 DEF TrackerType
<1>8. /\ r.began = q.began /\ r.rows = q.rows /\ r.found = q.found /\ r.want = q.want /\ r.at = q.at
      /\ r.floor = q.floor /\ r.phase = "told" /\ r.told = told
  BY <1>2, <1>4 DEF TrackerType
<1>9. ListFresh(r) /\ ShownAsWanted(r) /\ CallFresh(r) /\ ListingKept(r)
  BY <1>2, <1>8, SameList DEF CallFresh, ListingKept
<1>10. NotTakenBack(r)
  BY <1>2, <1>3, <1>8 DEF TrackerFits, NotTakenBack
<1> QED BY <1>5, <1>7, <1>9, <1>10, QuietRequest DEF TrackerFits

\* No answer to it.
LEMMA FailGetStep ==
  ASSUME TrackInv, NEW t \in Trackers, FailGet(t)
  PROVE  TrackInv'
<1>1. TrackTypes
  BY DEF TrackInv
<1> QED BY <1>1, IdleFits, QuietRequest DEF FailGet

\* A list is handed over.
LEMMA LeaveListStep ==
  ASSUME TrackInv, NEW t \in Trackers, LeaveList(t)
  PROVE  TrackInv'
<1>1. TrackTypes
  BY DEF TrackInv
<1> QED BY <1>1, IdleFits, QuietRequest DEF LeaveList

\* The answer is passed on and the event published.
LEMMA FinishGetStep ==
  ASSUME TrackInv, NEW t \in Trackers, FinishGet(t)
  PROVE  TrackInv'
<1>1. PICK q : q = tracker[t]
  OBVIOUS
<1>2. /\ q \in TrackerType /\ TrackerFits(q) /\ TrackTypes /\ q.phase = "told"
      /\ KeptFresh /\ ToldAtMost
  BY <1>1, RequestFits DEF FinishGet, TrackInv
<1>3. PICK x \in TrackedMarks : x = q.at
  BY <1>2 DEF TrackerFits, NotTakenBack
<1>4. PICK told \in SUBSET Happenings : told = q.told
  BY <1>2 DEF TrackerType
<1>5. PICK grave : grave = Gravity(GlobalStatus(told))
  OBVIOUS
<1>6. grave \in Nat
  BY <1>5, NeverLess
<1>7. /\ tracker' = [tracker EXCEPT ![t] = NoTracker] /\ UNCHANGED <<tracked, since, moment, histories>>
      /\ reported' = [reported EXCEPT ![x] =
             IF tracked[x].carrier = "tcc" /\ grave > @ THEN grave ELSE @]
  BY <1>1, <1>3, <1>4, <1>5 DEF FinishGet
<1>8. reported' \in [TrackedMarks -> Nat]
  BY <1>2, <1>6, <1>7 DEF TrackTypes
<1>9. ASSUME NEW y \in TrackedMarks, tracked[y].carrier = "tcc"
      PROVE  reported'[y] <= Gravity(GlobalStatus(Told(y)))
  <2>1. reported'[y] = reported[y] \/ (y = x /\ reported'[y] = grave)
    BY <1>2, <1>7 DEF TrackTypes
  <2>2. reported[y] <= Gravity(GlobalStatus(Told(y)))
    BY <1>2, <1>9 DEF ToldAtMost
  <2>3. ASSUME y = x PROVE grave <= Gravity(GlobalStatus(Told(y)))
    <3>1. told \subseteq Told(y)
      BY <1>2, <1>3, <1>4, <1>9, <2>3 DEF TrackerFits, NotTakenBack
    <3>2. Told(y) \in SUBSET Happenings
      BY TellsHappenings
    <3> QED BY <1>5, <3>1, <3>2, NeverLess
  <2> QED BY <2>1, <2>2, <2>3
<1>10. ToldAtMost'
  BY <1>7, <1>9 DEF ToldAtMost, Told
<1>11. KeptFresh'
  BY <1>2, <1>7 DEF KeptFresh, ToldBetween, NoHistory
<1>12. histories' \in [TrackedMarks -> [told : SUBSET Happenings, until : Int]]
  BY <1>2, <1>7 DEF TrackTypes
<1> QED BY <1>2, <1>7, <1>8, <1>10, <1>11, <1>12, IdleFits, OneRequest


\* A list is asked for.
LEMMA BeginListStep ==
  ASSUME TrackInv, NEW t \in Trackers, NEW want \in {Every} \cup ShownStatus, NEW page \in Nat \ {0},
         BeginList(t, want, page)
  PROVE  TrackInv'
<1>1. PICK r : r = [NoTracker EXCEPT !.phase = "count", !.want = want, !.page = page, !.began = moment,
                           !.chunk = IF want \in {Every, "MANUAL"} THEN page ELSE 1]
  OBVIOUS
<1>2. tracker' = [tracker EXCEPT ![t] = r] /\ UNCHANGED <<tracked, since, moment, histories, reported>>
  BY <1>1 DEF BeginList
<1>3. moment \in Nat /\ TrackTypes /\ ChunkSize \in Nat
  BY NumbersFit DEF TrackInv
<1>4. /\ r.want = want /\ r.rows = <<>> /\ r.found = <<>> /\ r.began = moment /\ r.phase = "count"
      /\ r.page = page /\ r.chunk = IF want \in {Every, "MANUAL"} THEN page ELSE 1
  BY <1>1 DEF NoTracker
<1>5. r \in TrackerType
  BY <1>1, <1>3, IdleFits DEF NoTracker, TrackerType
<1>6. DOMAIN r.rows = {} /\ DOMAIN r.found = {} /\ Len(r.rows) = 0
  BY <1>4
<1>7. ListFresh(r) /\ ShownAsWanted(r)
  BY <1>3, <1>4, <1>6 DEF ListFresh, ShownAsWanted
<1>8. CallFresh(r) /\ NotTakenBack(r)
  BY <1>4 DEF CallFresh, NotTakenBack
<1>9. ListingKept(r)
  <2>1. Listed(want) \in SUBSET TrackedMarks
    BY DEF Listed
  <2>2. Len(Newest(Listed(want))) \in Nat
    BY <2>1, NewestTells
  <2>3. Passed(1) = 0
    BY PassedTells
  <2> QED BY <1>4, <1>6, <2>2, <2>3 DEF ListingKept
<1> QED BY <1>2, <1>5, <1>7, <1>8, <1>9, QuietRequest DEF TrackerFits

\* Its marks are counted.
LEMMA CountMarksStep ==
  ASSUME TrackInv, NEW t \in Trackers, CountMarks(t)
  PROVE  TrackInv'
<1>1. PICK q : q = tracker[t]
  OBVIOUS
<1>2. q \in TrackerType /\ TrackerFits(q) /\ TrackTypes /\ q.phase = "count"
  BY <1>1, RequestFits DEF CountMarks
<1>3. PICK total : total = Cardinality(Listed(q.want))
  OBVIOUS
<1>4. PICK r : r = [q EXCEPT !.phase = "read", !.total = total]
  OBVIOUS
<1>5. tracker' = [tracker EXCEPT ![t] = r] /\ UNCHANGED <<tracked, since, moment, histories, reported>>
  BY <1>1, <1>3, <1>4 DEF CountMarks
<1>6. total \in Nat /\ total = Len(Newest(Listed(q.want)))
  <2>1. Listed(q.want) \in SUBSET TrackedMarks
    BY DEF Listed
  <2> QED BY <1>3, <2>1, NewestTells
<1>7. r \in TrackerType
  BY <1>2, <1>4, <1>6 DEF TrackerType
<1>8. /\ r.began = q.began /\ r.rows = q.rows /\ r.found = q.found /\ r.want = q.want /\ r.page = q.page
      /\ r.chunk = q.chunk /\ r.phase = "read" /\ r.total = total /\ r.steady = q.steady
  BY <1>2, <1>4 DEF TrackerType
<1>9. ListFresh(r) /\ ShownAsWanted(r) /\ CallFresh(r) /\ NotTakenBack(r)
  BY <1>2, <1>8, SameList DEF CallFresh, NotTakenBack
<1>10. r.steady => ListingKept(r)
  BY <1>2, <1>6, <1>8 DEF TrackerFits, ListingKept
<1> QED BY <1>5, <1>7, <1>9, <1>10, QuietRequest DEF TrackerFits

\* The marks a list reads next, and its rows with them.
ChunkOf(r) == Slice(Newest(Listed(r.want)), r.chunk, ChunkSize)
RowsWithChunk(r) == r.rows \o [i \in DOMAIN ChunkOf(r) |-> ReadRow(ChunkOf(r)[i])]

\* The rows of a list with those of its next chunk.
LEMMA RowsRead ==
  ASSUME NEW q \in TrackerType
  PROVE  /\ ChunkOf(q) \in Seq(Listed(q.want)) /\ RowsWithChunk(q) \in Seq(TrackedRow)
         /\ Len(RowsWithChunk(q)) = Len(q.rows) + Len(ChunkOf(q))
         /\ \A i \in DOMAIN q.rows : i \in DOMAIN RowsWithChunk(q) /\ RowsWithChunk(q)[i] = q.rows[i]
         /\ \A i \in DOMAIN RowsWithChunk(q) :
              i \in DOMAIN q.rows
              \/ \E j \in DOMAIN ChunkOf(q) : i = Len(q.rows) + j /\ RowsWithChunk(q)[i] = ReadRow(ChunkOf(q)[j])
<1>12. PICK ids : ids = ChunkOf(q)
  OBVIOUS
<1>13. PICK lines : lines = RowsWithChunk(q)
  OBVIOUS
<1>1. Listed(q.want) \in SUBSET TrackedMarks
  BY DEF Listed
<1>2. Newest(Listed(q.want)) \in Seq(Listed(q.want))
  BY <1>1, NewestTells
<1>3. q.chunk \in Nat \ {0} /\ q.rows \in Seq(TrackedRow)
  BY TrackerParts
<1>4. ids \in Seq(Listed(q.want))
  BY <1>2, <1>3, <1>12, PageTells DEF ChunkOf
<1>5. PICK new : new = [i \in DOMAIN ids |-> ReadRow(ids[i])]
  OBVIOUS
<1>6. \A i \in DOMAIN ids : ids[i] \in TrackedMarks
  BY <1>1, <1>4
<1>7. \A x \in TrackedMarks : ReadRow(x) \in TrackedRow
  BY DEF ReadRow, TrackedRow
<1>8. new \in Seq(TrackedRow) /\ Len(new) = Len(ids) /\ DOMAIN new = DOMAIN ids
  BY <1>4, <1>5, <1>6, <1>7
<1>9. lines = q.rows \o new
  BY <1>5, <1>12, <1>13 DEF RowsWithChunk
<1>10. /\ lines \in Seq(TrackedRow) /\ Len(lines) = Len(q.rows) + Len(new)
       /\ \A i \in DOMAIN q.rows : i \in DOMAIN lines /\ lines[i] = q.rows[i]
       /\ \A i \in DOMAIN lines :
            i \in DOMAIN q.rows \/ \E j \in DOMAIN new : i = Len(q.rows) + j /\ lines[i] = new[j]
  <2>1. PICK old : old = q.rows
    OBVIOUS
  <2>2. old \in Seq(TrackedRow) /\ lines = old \o new
    BY ONLY <1>3, <1>9, <2>1, Zenon
  <2>3. /\ old \o new \in Seq(TrackedRow) /\ Len(old \o new) = Len(old) + Len(new)
        /\ \A i \in DOMAIN old : i \in DOMAIN (old \o new) /\ (old \o new)[i] = old[i]
        /\ \A i \in DOMAIN (old \o new) :
             i \in DOMAIN old \/ \E j \in DOMAIN new : i = Len(old) + j /\ (old \o new)[i] = new[j]
    BY ONLY <1>8, <2>2, Joined
  <2> QED BY ONLY <2>1, <2>2, <2>3, Zenon
<1>11. \A j \in DOMAIN new : j \in DOMAIN ids /\ new[j] = ReadRow(ids[j])
  BY <1>5
<1> QED BY ONLY <1>4, <1>8, <1>10, <1>11, <1>12, <1>13

\* The same, when no mark has changed: a chunk more of the marks, until all are read.
LEMMA ChunkRead ==
  ASSUME NEW q \in TrackerType, NEW ids, ids = ChunkOf(q), NEW lines, lines = RowsWithChunk(q),
         NEW all, all = Newest(Listed(q.want)),
         Len(q.rows) = Passed(q.chunk), Len(q.rows) <= Len(all),
         \A i \in DOMAIN q.rows : q.rows[i].id = all[i]
  PROVE  /\ Len(all) \in Nat /\ Len(lines) \in Nat /\ Len(lines) <= Len(all)
         /\ \A i \in DOMAIN lines : lines[i].id = all[i]
         /\ ids = <<>> => Len(lines) = Len(all)
         /\ Len(lines) < Len(all) => Len(lines) = Passed(q.chunk + 1)
<1>1. Listed(q.want) \in SUBSET TrackedMarks
  BY DEF Listed
<1>2. all \in Seq(Listed(q.want)) /\ Len(all) \in Nat
  BY <1>1, NewestTells
<1>3. q.chunk \in Nat \ {0} /\ ChunkSize \in Nat \ {0} /\ q.rows \in Seq(TrackedRow)
  BY TrackerParts, TrackingAssumption
<1>4. /\ ids \in Seq(Listed(q.want)) /\ lines \in Seq(TrackedRow)
      /\ Len(lines) = Len(q.rows) + Len(ids)
      /\ \A i \in DOMAIN q.rows : i \in DOMAIN lines /\ lines[i] = q.rows[i]
      /\ \A i \in DOMAIN lines :
           i \in DOMAIN q.rows \/ \E j \in DOMAIN ids : i = Len(q.rows) + j /\ lines[i] = ReadRow(ids[j])
  BY RowsRead
<1>5. /\ Len(ids) = IF Passed(q.chunk) + ChunkSize < Len(all) THEN ChunkSize
                    ELSE IF Passed(q.chunk) < Len(all) THEN Len(all) - Passed(q.chunk) ELSE 0
      /\ \A i \in 1..Len(ids) : ids[i] = all[Passed(q.chunk) + i]
  <2>1. ids = Slice(all, q.chunk, ChunkSize)
    BY DEF ChunkOf
  <2>2. PICK page \in Nat \ {0} : page = q.chunk
    BY <1>3
  <2>3. PICK S : all \in Seq(S)
    BY <1>2
  <2>4. PICK part : part = Slice(all, page, ChunkSize)
    OBVIOUS
  <2>5. /\ Len(part) = IF Passed(page) + ChunkSize < Len(all) THEN ChunkSize
                       ELSE IF Passed(page) < Len(all) THEN Len(all) - Passed(page) ELSE 0
        /\ \A i \in 1..Len(part) : part[i] = all[Passed(page) + i]
    BY ONLY <2>3, <2>4, page \in Nat \ {0}, PageTells
  <2> QED BY ONLY <2>1, <2>2, <2>4, <2>5, Zenon
<1>6. PICK n \in Nat : n = Len(q.rows)
  BY <1>3
<1>7. PICK k \in Nat : k = Len(ids)
  BY <1>4
<1>8. PICK m \in Nat : m = Len(all)
  BY <1>2
<1>9. /\ n <= m /\ ChunkSize \in Nat \ {0} /\ n = Passed(q.chunk) /\ Len(lines) = n + k
      /\ k = IF n + ChunkSize < m THEN ChunkSize ELSE IF n < m THEN m - n ELSE 0
  BY <1>3, <1>4, <1>5, <1>6, <1>7, <1>8
<1>10. n + k <= m /\ (k = 0 => n = m) /\ (n + k < m => k = ChunkSize)
  BY ONLY <1>9, n \in Nat, k \in Nat, m \in Nat
<1>11. Passed(q.chunk + 1) = n + ChunkSize
  BY <1>3, <1>9, PassedTells
<1>12. ids = <<>> => k = 0
  BY <1>7
<1>13. ASSUME NEW i \in DOMAIN lines PROVE lines[i].id = all[i]
  <2>1. CASE i \in DOMAIN q.rows
    BY <1>4, <2>1
  <2>2. CASE i \notin DOMAIN q.rows
    <3>1. PICK j \in DOMAIN ids : i = Len(q.rows) + j /\ lines[i] = ReadRow(ids[j])
      BY <1>4, <2>2
    <3>2. lines[i].id = ids[j]
      BY <3>1 DEF ReadRow
    <3>3. DOMAIN ids = 1..Len(ids)
      BY <1>4
    <3>4. ids[j] = all[Passed(q.chunk) + j]
      BY <1>5, <3>3
    <3> QED BY <3>1, <3>2, <3>4
  <2> QED BY <2>1, <2>2
<1>14. /\ Len(all) \in Nat /\ Len(lines) \in Nat /\ Len(lines) <= Len(all)
       /\ ids = <<>> => Len(lines) = Len(all)
       /\ Len(lines) < Len(all) => Len(lines) = Passed(q.chunk + 1)
  BY ONLY <1>8, <1>9, <1>10, <1>11, <1>12, n \in Nat, k \in Nat, m \in Nat
<1> QED BY <1>13, <1>14


\* A page of its marks is read.
LEMMA ReadMarksStep ==
  ASSUME TrackInv, NEW t \in Trackers, ReadMarks(t)
  PROVE  TrackInv'
<1>1. PICK q : q = tracker[t]
  OBVIOUS
<1>2. q \in TrackerType /\ TrackerFits(q) /\ TrackTypes /\ q.phase = "read"
  BY <1>1, RequestFits DEF ReadMarks
<1>3. PICK ids : ids = ChunkOf(q)
  OBVIOUS
<1>4. PICK lines : lines = RowsWithChunk(q)
  OBVIOUS
<1>5. PICK more \in BOOLEAN : more = (q.want \notin {Every, "MANUAL"} /\ Len(lines) < q.total /\ ids # <<>>)
  BY Zenon
<1>16. PICK phase : phase = IF more THEN "count" ELSE "build"
  OBVIOUS
<1>17. PICK chunk : chunk = IF more THEN q.chunk + 1 ELSE q.chunk
  OBVIOUS
<1>6. PICK r : r = [q EXCEPT !.rows = lines, !.phase = phase, !.chunk = chunk]
  OBVIOUS
<1>7. tracker' = [tracker EXCEPT ![t] = r] /\ UNCHANGED <<tracked, since, moment, histories, reported>>
  <2>1. lines = q.rows \o [i \in DOMAIN ids |-> ReadRow(ids[i])]
    BY <1>3, <1>4 DEF RowsWithChunk
  <2>2. ids = Slice(Newest(Listed(q.want)), q.chunk, ChunkSize)
    BY <1>3 DEF ChunkOf
  <2> QED BY <1>1, <1>2, <1>5, <1>6, <1>16, <1>17, <2>1, <2>2, ZenonT(30) DEF ReadMarks, TrackerType
<1>8. /\ ids \in Seq(Listed(q.want)) /\ lines \in Seq(TrackedRow)
      /\ Len(lines) = Len(q.rows) + Len(ids)
      /\ \A i \in DOMAIN q.rows : i \in DOMAIN lines /\ lines[i] = q.rows[i]
      /\ \A i \in DOMAIN lines :
           i \in DOMAIN q.rows \/ \E j \in DOMAIN ids : i = Len(q.rows) + j /\ lines[i] = ReadRow(ids[j])
  BY <1>2, <1>3, <1>4, RowsRead
<1>9. r \in TrackerType
  <2>1. q.chunk \in Nat \ {0}
    BY <1>2, TrackerParts
  <2>2. chunk \in Nat \ {0}
    BY <1>17, <2>1
  <2>3. phase \in {"count", "build"}
    BY <1>16
  <2> QED BY ONLY <1>2, <1>6, <1>8, <2>2, <2>3 DEF TrackerType
<1>10. /\ r.began = q.began /\ r.rows = lines /\ r.found = q.found /\ r.want = q.want /\ r.page = q.page
       /\ r.chunk = (IF more THEN q.chunk + 1 ELSE q.chunk) /\ r.phase = (IF more THEN "count" ELSE "build")
       /\ r.total = q.total /\ r.steady = q.steady
  BY <1>2, <1>6, <1>16, <1>17 DEF TrackerType
<1>11. \A i \in DOMAIN lines : i \in DOMAIN q.rows \/ lines[i].shows = NoShow
  <2>1. \A x : ReadRow(x).shows = NoShow
    BY DEF ReadRow
  <2> QED BY <1>8, <2>1
<1>12. ListFresh(r)
  <2>1. ListFresh(q)
    BY <1>2 DEF TrackerFits
  <2>2. PICK from : from = q.began - HistoryTtl - CallTime
    OBVIOUS
  <2>3. ASSUME NEW i \in DOMAIN lines PROVE ShownFresh(lines[i], from)
    <3>1. CASE i \in DOMAIN q.rows
      <4>1. ShownFresh(q.rows[i], from)
        BY <2>1, <2>2, <3>1 DEF ListFresh
      <4>2. lines[i] = q.rows[i]
        BY <1>8, <3>1
      <4> QED BY ONLY <4>1, <4>2, Zenon
    <3>2. CASE lines[i].shows = NoShow
      BY <3>2 DEF ShownFresh
    <3> QED BY <1>11, <3>1, <3>2
  <2> QED BY <1>10, <2>1, <2>2, <2>3 DEF ListFresh
<1>13. ShownAsWanted(r)
  <2>1. \A i \in DOMAIN r.found : r.want \in {Every, r.found[i].shows}
    BY <1>2, <1>10 DEF TrackerFits, ShownAsWanted
  <2>2. ASSUME r.want = "MANUAL", NEW i \in DOMAIN lines
        PROVE  tracked[lines[i].id].carrier = "manual" /\ lines[i].shows \in {NoShow, "MANUAL"}
    <3>1. CASE i \in DOMAIN q.rows
      BY <1>2, <1>8, <1>10, <2>2, <3>1 DEF TrackerFits, ShownAsWanted
    <3>2. CASE i \notin DOMAIN q.rows
      <4>1. PICK j \in DOMAIN ids : lines[i] = ReadRow(ids[j])
        BY <1>8, <3>2
      <4>2. ids[j] \in Listed("MANUAL")
        BY <1>8, <1>10, <2>2
      <4>3. lines[i].id = ids[j] /\ lines[i].shows = NoShow
        BY <4>1 DEF ReadRow
      <4> QED BY <4>2, <4>3 DEF Listed
    <3> QED BY <3>1, <3>2
  <2> QED BY <1>10, <2>1, <2>2 DEF ShownAsWanted
<1>14. CallFresh(r) /\ NotTakenBack(r)
  BY <1>10 DEF CallFresh, NotTakenBack
<1>15. ASSUME q.steady PROVE ListingKept(r)
  <2>1. PICK all : all = Newest(Listed(q.want))
    OBVIOUS
  <2>2. ListingKept(q)
    BY <1>2, <1>15 DEF TrackerFits
  <2>3. CASE q.want \in {Every, "MANUAL"}
    <3>1. q.rows = <<>> /\ q.chunk = q.page /\ ~more
      BY <1>2, <1>5, <2>2, <2>3 DEF ListingKept
    <3>2. Len(q.rows) = 0 /\ DOMAIN q.rows = {}
      BY <3>1
    <3>3. Len(lines) = Len(ids) /\ Len(ids) \in Nat /\ DOMAIN ids = 1..Len(ids) /\ DOMAIN lines = 1..Len(lines)
      BY <1>8, <3>2
    <3>4. ASSUME NEW i \in DOMAIN lines PROVE lines[i].id = ids[i]
      <4>1. PICK j \in DOMAIN ids : i = 0 + j /\ lines[i] = ReadRow(ids[j])
        BY <1>8, <3>2
      <4>2. j \in Nat
        BY <3>3
      <4>3. i = j
        BY <4>1, <4>2
      <4> QED BY <4>1, <4>3 DEF ReadRow
    <3>5. [i \in DOMAIN lines |-> lines[i].id] = ids
      BY <1>8, <3>3, <3>4
    <3>6. ids = Slice(all, q.page, ChunkSize)
      BY <1>3, <2>1, <3>1 DEF ChunkOf
    <3> QED BY <1>10, <2>1, <2>3, <3>1, <3>5, <3>6 DEF ListingKept
  <2>4. CASE q.want \notin {Every, "MANUAL"}
    <3>1. /\ Len(q.rows) = Passed(q.chunk) /\ Len(q.rows) <= Len(all) /\ q.total = Len(all)
          /\ \A i \in DOMAIN q.rows : q.rows[i].id = all[i]
      BY <1>2, <2>1, <2>2, <2>4 DEF ListingKept
    <3>2. /\ Len(all) \in Nat /\ Len(lines) \in Nat /\ Len(lines) <= Len(all)
          /\ \A i \in DOMAIN lines : lines[i].id = all[i]
          /\ ids = <<>> => Len(lines) = Len(all)
          /\ Len(lines) < Len(all) => Len(lines) = Passed(q.chunk + 1)
      BY <1>2, <1>3, <1>4, <2>1, <3>1, ChunkRead
    <3>3. CASE more
      <4>1. Len(lines) = Passed(q.chunk + 1)
        BY <1>5, <3>1, <3>2, <3>3
      <4> QED BY <1>10, <2>1, <2>4, <3>2, <3>3, <4>1 DEF ListingKept
    <3>4. CASE ~more
      <4>1. Len(lines) = Len(all)
        <5>1. ~(Len(lines) < q.total /\ ids # <<>>)
          BY <1>5, <2>4, <3>4
        <5>2. PICK n \in Nat, m \in Nat : n = Len(lines) /\ m = Len(all)
          BY <3>2
        <5>3. CASE ids = <<>>
          BY <3>2, <5>3
        <5>4. CASE ids # <<>>
          BY ONLY <3>1, <3>2, <5>1, <5>2, <5>4
        <5> QED BY <5>3, <5>4
      <4>2. Listed(q.want) \in SUBSET TrackedMarks
        BY DEF Listed
      <4>3. all \in Seq(Listed(q.want))
        BY <2>1, <4>2, NewestTells
      <4>4. [i \in DOMAIN lines |-> lines[i].id] = all
        <5>1. DOMAIN all = 1..Len(all) /\ DOMAIN lines = 1..Len(lines)
          BY <1>8, <4>3
        <5>2. all = [i \in DOMAIN all |-> all[i]]
          BY <4>3
        <5> QED BY <3>2, <4>1, <5>1, <5>2
      <4> QED BY <1>10, <2>1, <2>4, <3>4, <4>4 DEF ListingKept
    <3> QED BY <3>3, <3>4
  <2> QED BY <2>3, <2>4
<1> QED BY <1>7, <1>9, <1>10, <1>12, <1>13, <1>14, <1>15, QuietRequest DEF TrackerFits

\* A row that is looked up shows what it may, and the others stay as they are.
LEMMA RowShown ==
  ASSUME NEW q \in TrackerType, TrackerFits(q), q.phase \in {"build", "call", "keep"},
         NEW i \in DOMAIN q.rows, NEW status \in ShownStatus, NEW failed \in BOOLEAN,
         q.want = "MANUAL" => status = "MANUAL",
         tracked[q.rows[i].id].carrier = "tcc" /\ ~failed =>
            \E told \in ToldBetween(q.rows[i].id, q.began - HistoryTtl - CallTime, moment) :
                status = GlobalStatus(told),
         NEW r, r = Shows(q, i, status, failed)
  PROVE  r \in TrackerType /\ TrackerFits(r)
<1>1. PICK lines : lines = [[q.rows EXCEPT ![i].shows = status] EXCEPT ![i].failed = failed]
  BY Zenon
<1>2. q.rows \in Seq(TrackedRow) /\ \A j \in DOMAIN q.rows : q.rows[j] \in TrackedRow
  BY TrackerParts
<1>3. /\ DOMAIN lines = DOMAIN q.rows /\ Len(lines) = Len(q.rows)
      /\ \A j \in DOMAIN lines : lines[j].id = q.rows[j].id
      /\ \A j \in DOMAIN lines : j # i => lines[j] = q.rows[j]
      /\ lines[i].shows = status /\ lines[i].failed = failed
  BY <1>1, <1>2 DEF TrackedRow
<1>4. lines[i] \in TrackedRow
  BY <1>1, <1>2 DEF TrackedRow
<1>5. lines \in Seq(TrackedRow)
  <2>1. PICK n \in Nat : n = Len(q.rows)
    BY <1>2
  <2>5. DOMAIN lines = 1..n
    BY <1>2, <1>3, <2>1
  <2>6. lines = [j \in DOMAIN lines |-> lines[j]]
    BY ONLY <1>1
  <2>2. DOMAIN lines = 1..n /\ lines = [j \in 1..n |-> lines[j]]
    BY ONLY <2>5, <2>6
  <2>3. \A j \in 1..n : lines[j] \in TrackedRow
    BY <1>2, <1>3, <1>4, <2>2
  <2>4. lines \in [1..n -> TrackedRow]
    BY ONLY <2>2, <2>3
  <2> QED BY ONLY <2>1, <2>4
<1>6. r = [q EXCEPT !.rows = lines, !.phase = "build", !.at = 0, !.told = {}]
  BY <1>1 DEF Shows, TrackerType
<1>13. q \in TrackerType
  OBVIOUS
<1>7. r \in TrackerType
  <2>1. 0 \in Nat /\ {} \in SUBSET Happenings
    OBVIOUS
  <2> QED BY ONLY <1>13, <1>5, <1>6, <2>1 DEF TrackerType
<1>8. /\ r.began = q.began /\ r.rows = lines /\ r.found = q.found /\ r.want = q.want /\ r.page = q.page
      /\ r.phase = "build" /\ r.steady = q.steady
  BY <1>6 DEF TrackerType
<1>9. ListFresh(r)
  BY <1>3, <1>8 DEF TrackerFits, ListFresh, ShownFresh
<1>10. ShownAsWanted(r)
  BY <1>3, <1>8 DEF TrackerFits, ShownAsWanted
<1>11. CallFresh(r) /\ NotTakenBack(r)
  BY <1>8 DEF CallFresh, NotTakenBack
<1>12. q.steady => ListingKept(r)
  <2>1. [j \in DOMAIN lines |-> lines[j].id] = [j \in DOMAIN q.rows |-> q.rows[j].id]
    BY <1>3
  <2>2. q.steady => ListingKept(q)
    BY DEF TrackerFits
  <2> QED BY <1>8, <2>1, <2>2 DEF ListingKept
<1> QED BY <1>7, <1>8, <1>9, <1>10, <1>11, <1>12 DEF TrackerFits


\* The carrier is asked about a row's parcel.
LEMMA AskCarrierStep ==
  ASSUME TrackInv, NEW t \in Trackers, AskCarrier(t)
  PROVE  TrackInv'
<1>1. PICK q : q = tracker[t]
  OBVIOUS
<1>2. q \in TrackerType /\ TrackerFits(q) /\ TrackTypes /\ q.phase = "call"
  BY <1>1, RequestFits DEF AskCarrier
<1>3. PICK x : x = q.rows[q.at].id
  OBVIOUS
<1>4. PICK told : told = Told(x)
  OBVIOUS
<1>5. PICK r : r = [q EXCEPT !.phase = "keep", !.told = told]
  OBVIOUS
<1>6. tracker' = [tracker EXCEPT ![t] = r] /\ UNCHANGED <<tracked, since, moment, histories, reported>>
  BY <1>1, <1>3, <1>4, <1>5 DEF AskCarrier
<1>7. told \in SUBSET Happenings
  BY <1>4, TellsHappenings
<1>8. r \in TrackerType
  BY <1>2, <1>5, <1>7 DEF TrackerType
<1>9. /\ r.began = q.began /\ r.rows = q.rows /\ r.found = q.found /\ r.want = q.want /\ r.at = q.at
      /\ r.called = q.called /\ r.page = q.page /\ r.steady = q.steady
      /\ r.phase = "keep" /\ r.told = told
  BY <1>2, <1>5 DEF TrackerType
<1>10. ListFresh(r) /\ ShownAsWanted(r)
  BY <1>2, <1>9, SameList
<1>11. NotTakenBack(r)
  BY <1>9 DEF NotTakenBack
<1>12. CallFresh(r)
  <2>1. /\ q.at \in DOMAIN q.rows /\ tracked[x].carrier = "tcc"
        /\ q.called \in q.began..moment /\ moment <= q.called + CallTime
    BY <1>2, <1>3 DEF TrackerFits, CallFresh
  <2>2. x \in TrackedMarks
    BY <1>2, <1>3, <2>1, TrackerParts, RowParts
  <2>3. PICK called \in Nat : called = q.called
    BY <1>2, TrackerParts
  <2>4. called \in Int /\ called <= moment
    BY <1>2, <2>1, <2>3, NumbersFit, TrackerParts
  <2>5. told \in ToldBetween(x, called, moment)
    BY <1>2, <1>4, <2>2, <2>4, ToldNow
  <2> QED BY <1>3, <1>9, <2>1, <2>3, <2>5 DEF CallFresh
<1>13. q.steady => ListingKept(r)
  BY <1>2, <1>9 DEF TrackerFits, ListingKept
<1> QED BY <1>6, <1>8, <1>9, <1>10, <1>11, <1>12, <1>13, QuietRequest DEF TrackerFits

\* What a row shows when no carrier tells: its own status.
LEMMA FallbackTells ==
  ASSUME NEW row
  PROVE  FallbackStatus(row) \in ShownStatus
BY DEF FallbackStatus, ShownStatus

\* What a history comes to can be shown.
LEMMA GlobalShown ==
  ASSUME NEW told \in SUBSET Happenings
  PROVE  GlobalStatus(told) \in ShownStatus
<1>1. Standing \subseteq ShownStatus
  BY DEF Standing, ShownStatus
<1> QED BY <1>1, Gravest

\* The carrier does not answer.
LEMMA FailCallStep ==
  ASSUME TrackInv, NEW t \in Trackers, FailCall(t)
  PROVE  TrackInv'
<1>1. PICK q : q = tracker[t]
  OBVIOUS
<1>2. q \in TrackerType /\ TrackerFits(q) /\ TrackTypes /\ q.phase = "call"
  BY <1>1, RequestFits DEF FailCall
<1>3. PICK i : i = q.at
  OBVIOUS
<1>4. i \in DOMAIN q.rows /\ tracked[q.rows[i].id].carrier = "tcc"
  BY <1>2, <1>3 DEF TrackerFits, CallFresh
<1>5. PICK status \in ShownStatus : status = FallbackStatus(q.rows[i])
  BY FallbackTells
<1>6. q.want # "MANUAL"
  <2>1. q.want = "MANUAL" => tracked[q.rows[i].id].carrier = "manual"
    BY <1>2, <1>4 DEF TrackerFits, ShownAsWanted
  <2> QED BY <1>4, <2>1
<1>7. PICK r : r = Shows(q, i, status, TRUE)
  OBVIOUS
<1>8. r \in TrackerType /\ TrackerFits(r)
  BY <1>2, <1>4, <1>6, <1>7, RowShown
<1>9. tracker' = [tracker EXCEPT ![t] = r] /\ UNCHANGED <<tracked, since, moment, histories, reported>>
  BY <1>1, <1>3, <1>5, <1>7 DEF FailCall
<1> QED BY <1>8, <1>9, QuietRequest

\* A row that no carrier is asked about.
LEMMA ShowByHandStep ==
  ASSUME TrackInv, NEW t \in Trackers, NEW i \in DOMAIN tracker[t].rows, ShowByHand(t, i)
  PROVE  TrackInv'
<1>1. PICK q : q = tracker[t]
  OBVIOUS
<1>2. q \in TrackerType /\ TrackerFits(q) /\ TrackTypes /\ q.phase = "build"
  BY <1>1, RequestFits DEF ShowByHand
<1>3. i \in DOMAIN q.rows /\ tracked[q.rows[i].id].carrier # "tcc"
  BY <1>1 DEF ShowByHand
<1>4. PICK status : status = IF tracked[q.rows[i].id].carrier = "manual" THEN "MANUAL" ELSE FallbackStatus(q.rows[i])
  OBVIOUS
<1>5. status \in ShownStatus
  BY <1>4, FallbackTells DEF ShownStatus
<1>6. q.want = "MANUAL" => status = "MANUAL"
  BY <1>2, <1>3, <1>4 DEF TrackerFits, ShownAsWanted
<1>7. PICK r : r = Shows(q, i, status, FALSE)
  OBVIOUS
<1>8. r \in TrackerType /\ TrackerFits(r)
  BY <1>2, <1>3, <1>5, <1>6, <1>7, RowShown
<1>9. tracker' = [tracker EXCEPT ![t] = r] /\ UNCHANGED <<tracked, since, moment, histories, reported>>
  BY <1>1, <1>4, <1>7 DEF ShowByHand
<1> QED BY <1>8, <1>9, QuietRequest

\* What is kept until later than a list began was reported not long before that.
LEMMA KeptInTime ==
  ASSUME TrackTypes, KeptFresh, NEW x \in TrackedMarks, StillKept(x), NEW began \in Nat, began <= moment
  PROVE  /\ histories[x].told \in SUBSET Happenings
         /\ histories[x].told \in ToldBetween(x, began - HistoryTtl - CallTime, moment)
<1>1. PICK until \in Int : until = histories[x].until
  BY DEF TrackTypes
<1>2. PICK told \in SUBSET Happenings : told = histories[x].told
  BY DEF TrackTypes
<1>3. moment <= until /\ told \in ToldBetween(x, until - HistoryTtl - CallTime, moment)
  BY <1>1, <1>2 DEF StillKept, KeptFresh
<1>4. PICK from \in Int, before \in Int :
         from = until - HistoryTtl - CallTime /\ before = began - HistoryTtl - CallTime
  BY NumbersFit
<1>5. before <= from
  BY <1>3, <1>4, NumbersFit
<1>6. told \in ToldBetween(x, before, moment)
  BY <1>3, <1>4, <1>5, SinceEarlier
<1> QED BY <1>2, <1>4, <1>6

\* The cache is looked at for a row.
LEMMA LookUpHistoryStep ==
  ASSUME TrackInv, NEW t \in Trackers, NEW i \in DOMAIN tracker[t].rows, LookUpHistory(t, i)
  PROVE  TrackInv'
<1>1. PICK q : q = tracker[t]
  OBVIOUS
<1>2. q \in TrackerType /\ TrackerFits(q) /\ TrackTypes /\ KeptFresh /\ q.phase = "build"
  BY <1>1, RequestFits DEF LookUpHistory, TrackInv
<1>3. PICK x : x = q.rows[i].id
  OBVIOUS
<1>4. i \in DOMAIN q.rows /\ tracked[x].carrier = "tcc"
  BY <1>1, <1>3 DEF LookUpHistory
<1>5. x \in TrackedMarks
  BY <1>2, <1>3, <1>4, TrackerParts, RowParts
<1>6. PICK began \in Nat : began = q.began
  BY <1>2, TrackerParts
<1>7. began <= moment
  BY <1>2, <1>6 DEF TrackerFits, ListFresh
<1>8. CASE StillKept(x)
  <2>1. PICK told : told = histories[x].told
    OBVIOUS
  <2>2. told \in SUBSET Happenings /\ told \in ToldBetween(x, q.began - HistoryTtl - CallTime, moment)
    BY <1>2, <1>5, <1>6, <1>7, <1>8, <2>1, KeptInTime
  <2>3. PICK status \in ShownStatus : status = GlobalStatus(told)
    BY <2>2, GlobalShown
  <2>4. PICK r : r = Shows(q, i, status, FALSE)
    OBVIOUS
  <2>5. q.want # "MANUAL"
    <3>1. q.want = "MANUAL" => tracked[q.rows[i].id].carrier = "manual"
      BY <1>2, <1>4 DEF TrackerFits, ShownAsWanted
    <3> QED BY <1>3, <1>4, <3>1
  <2>6. r \in TrackerType /\ TrackerFits(r)
    BY <1>2, <1>3, <1>4, <2>2, <2>3, <2>4, <2>5, RowShown
  <2>7. tracker' = [tracker EXCEPT ![t] = r] /\ UNCHANGED <<tracked, since, moment, histories, reported>>
    BY <1>1, <1>3, <1>8, <2>1, <2>3, <2>4 DEF LookUpHistory
  <2> QED BY <2>6, <2>7, QuietRequest
<1>9. CASE ~StillKept(x)
  <2>1. PICK phase \in {"call", "drop"} : phase = IF histories[x] = NoHistory THEN "call" ELSE "drop"
    OBVIOUS
  <2>2. PICK r : r = [q EXCEPT !.at = i, !.phase = phase, !.called = moment]
    OBVIOUS
  <2>3. tracker' = [tracker EXCEPT ![t] = r] /\ UNCHANGED <<tracked, since, moment, histories, reported>>
    BY <1>1, <1>3, <1>9, <2>1, <2>2 DEF LookUpHistory
  <2>4. i \in Nat /\ moment \in Nat /\ CallTime \in Nat
    BY <1>2, <1>4, TrackerParts, NumbersFit
  <2>5. r \in TrackerType
    BY ONLY <1>2, <2>1, <2>2, <2>4 DEF TrackerType
  <2>6. /\ r.began = q.began /\ r.rows = q.rows /\ r.found = q.found /\ r.want = q.want /\ r.at = i
        /\ r.called = moment /\ r.page = q.page /\ r.steady = q.steady /\ r.phase = phase
    BY <1>2, <2>2 DEF TrackerType
  <2>7. ListFresh(r) /\ ShownAsWanted(r)
    BY <1>2, <2>6, SameList
  <2>8. NotTakenBack(r)
    BY <2>1, <2>6 DEF NotTakenBack
  <2>9. CallFresh(r)
    <3>1. moment \in began..moment /\ moment <= moment + CallTime
      BY <1>7, <2>4
    <3> QED BY <1>3, <1>4, <1>6, <2>1, <2>6, <3>1 DEF CallFresh
  <2>10. q.steady => ListingKept(r)
    BY <1>2, <2>1, <2>6 DEF TrackerFits, ListingKept
  <2> QED BY <2>3, <2>5, <2>6, <2>7, <2>8, <2>9, <2>10, QuietRequest DEF TrackerFits
<1> QED BY <1>8, <1>9


\* What is over is deleted, or what somebody has kept meanwhile.
LEMMA DropHistoryStep ==
  ASSUME TrackInv, NEW t \in Trackers, DropHistory(t)
  PROVE  TrackInv'
<1>1. PICK q : q = tracker[t]
  OBVIOUS
<1>2. /\ q \in TrackerType /\ TrackerFits(q) /\ TrackTypes /\ KeptFresh /\ ToldAtMost /\ q.phase = "drop"
  BY <1>1, RequestFits DEF DropHistory, TrackInv
<1>3. PICK x : x = q.rows[q.at].id
  OBVIOUS
<1>4. q.at \in DOMAIN q.rows /\ tracked[x].carrier = "tcc"
  BY <1>2, <1>3 DEF TrackerFits, CallFresh
<1>5. x \in TrackedMarks
  BY <1>2, <1>3, <1>4, TrackerParts, RowParts
<1>6. PICK r : r = [q EXCEPT !.phase = "call", !.called = moment]
  OBVIOUS
<1>7. /\ tracker' = [tracker EXCEPT ![t] = r] /\ UNCHANGED <<tracked, since, moment, reported>>
      /\ histories' = [histories EXCEPT ![x] = NoHistory]
  BY <1>1, <1>3, <1>6 DEF DropHistory
<1>8. moment \in Nat /\ CallTime \in Nat
  BY <1>2, NumbersFit
<1>9. r \in TrackerType
  BY ONLY <1>2, <1>6, <1>8 DEF TrackerType
<1>10. /\ r.began = q.began /\ r.rows = q.rows /\ r.found = q.found /\ r.want = q.want /\ r.at = q.at
       /\ r.called = moment /\ r.page = q.page /\ r.steady = q.steady /\ r.phase = "call"
  BY <1>2, <1>6 DEF TrackerType
<1>11. ListFresh(r) /\ ShownAsWanted(r)
  BY <1>2, <1>10, SameList
<1>12. NotTakenBack(r)
  BY <1>10 DEF NotTakenBack
<1>13. CallFresh(r)
  <2>1. PICK began \in Nat : began = q.began
    BY <1>2, TrackerParts
  <2>2. began <= moment
    BY <1>2, <2>1 DEF TrackerFits, ListFresh
  <2>3. moment \in began..moment /\ moment <= moment + CallTime
    BY <1>8, <2>2
  <2> QED BY <1>3, <1>4, <1>10, <2>1, <2>3 DEF CallFresh
<1>14. q.steady => ListingKept(r)
  BY <1>2, <1>10 DEF TrackerFits, ListingKept
<1>15. histories' \in [TrackedMarks -> [told : SUBSET Happenings, until : Int]]
  <2>1. NoHistory \in [told : SUBSET Happenings, until : Int]
    BY DEF NoHistory
  <2> QED BY <1>2, <1>7, <2>1 DEF TrackTypes
<1>16. KeptFresh'
  <2>1. NoHistory' = NoHistory
    BY DEF NoHistory
  <2>2. ASSUME NEW y \in TrackedMarks, histories'[y] # NoHistory PROVE histories'[y] = histories[y]
    BY <1>2, <1>7, <2>2 DEF TrackTypes
  <2>3. \A y, from : ToldBetween(y, from, moment)' = ToldBetween(y, from, moment)
    BY <1>7 DEF ToldBetween
  <2> QED BY <1>2, <1>7, <2>1, <2>2, <2>3 DEF KeptFresh, ToldBetween
<1>17. ToldAtMost'
  BY <1>2, <1>7 DEF ToldAtMost, Told
<1>18. reported' \in [TrackedMarks -> Nat]
  BY <1>2, <1>7 DEF TrackTypes
<1>19. TrackerFits(r)
  BY <1>10, <1>11, <1>12, <1>13, <1>14 DEF TrackerFits
<1> QED BY <1>7, <1>9, <1>15, <1>16, <1>17, <1>18, <1>19, OneRequest

\* The answer is kept and shown.
LEMMA KeepHistoryStep ==
  ASSUME TrackInv, NEW t \in Trackers, KeepHistory(t)
  PROVE  TrackInv'
<1>1. PICK q : q = tracker[t]
  OBVIOUS
<1>2. /\ q \in TrackerType /\ TrackerFits(q) /\ TrackTypes /\ KeptFresh /\ ToldAtMost /\ q.phase = "keep"
  BY <1>1, RequestFits DEF KeepHistory, TrackInv
<1>3. PICK i : i = q.at
  OBVIOUS
<1>4. PICK x : x = q.rows[i].id
  OBVIOUS
<1>5. PICK told \in SUBSET Happenings : told = q.told
  BY <1>2, TrackerParts
<1>6. PICK called \in Nat, began \in Nat : called = q.called /\ began = q.began
  BY <1>2, TrackerParts
<1>7. /\ i \in DOMAIN q.rows /\ tracked[x].carrier = "tcc"
      /\ called \in began..moment /\ moment <= called + CallTime
      /\ told \in ToldBetween(x, called, moment)
  BY <1>2, <1>3, <1>4, <1>5, <1>6 DEF TrackerFits, CallFresh
<1>8. x \in TrackedMarks
  BY <1>2, <1>4, <1>7, TrackerParts, RowParts
<1>9. moment \in Nat /\ CallTime \in Nat /\ HistoryTtl \in Nat
  BY <1>2, NumbersFit
<1>10. PICK before \in Int, kept \in Int, until \in Int :
         before = began - HistoryTtl - CallTime /\ until = moment + HistoryTtl
         /\ kept = until - HistoryTtl - CallTime
  BY <1>9
<1>11. before <= called /\ kept <= called /\ called \in Int
  BY <1>6, <1>7, <1>9, <1>10
<1>12. told \in ToldBetween(x, before, moment) /\ told \in ToldBetween(x, kept, moment)
  BY <1>2, <1>7, <1>8, <1>11, SinceEarlier
<1>13. PICK status \in ShownStatus : status = GlobalStatus(told)
  BY GlobalShown
<1>14. PICK r : r = Shows(q, i, status, FALSE)
  OBVIOUS
<1>15. q.want # "MANUAL"
  <2>1. q.want = "MANUAL" => tracked[q.rows[i].id].carrier = "manual"
    BY <1>2, <1>7 DEF TrackerFits, ShownAsWanted
  <2> QED BY <1>4, <1>7, <2>1
<1>16. r \in TrackerType /\ TrackerFits(r)
  BY <1>2, <1>4, <1>6, <1>7, <1>10, <1>12, <1>13, <1>14, <1>15, RowShown
<1>17. PICK entry : entry = [told |-> told, until |-> until]
  OBVIOUS
<1>18. /\ tracker' = [tracker EXCEPT ![t] = r] /\ UNCHANGED <<tracked, since, moment, reported>>
       /\ histories' = [histories EXCEPT ![x] = entry]
  BY <1>1, <1>3, <1>4, <1>5, <1>10, <1>13, <1>14, <1>17 DEF KeepHistory
<1>19. entry \in [told : SUBSET Happenings, until : Int] /\ entry.told = told /\ entry.until = until
  BY <1>17
<1>20. histories' \in [TrackedMarks -> [told : SUBSET Happenings, until : Int]]
  BY <1>2, <1>18, <1>19 DEF TrackTypes
<1>21. KeptFresh'
  <2>1. NoHistory' = NoHistory
    BY DEF NoHistory
  <2>2. ASSUME NEW y \in TrackedMarks PROVE histories'[y] = histories[y] \/ (y = x /\ histories'[y] = entry)
    BY <1>2, <1>18 DEF TrackTypes
  <2>3. \A y, from : ToldBetween(y, from, moment)' = ToldBetween(y, from, moment)
    BY <1>18 DEF ToldBetween
  <2>4. ASSUME NEW y \in TrackedMarks, histories'[y] # NoHistory
        PROVE  /\ histories'[y].until <= moment + HistoryTtl
               /\ histories'[y].told \in ToldBetween(y, histories'[y].until - HistoryTtl - CallTime, moment)
    <3>1. CASE histories'[y] = histories[y]
      BY <1>2, <2>4, <3>1 DEF KeptFresh
    <3>2. CASE y = x /\ histories'[y] = entry
      <4>1. until <= moment + HistoryTtl
        BY <1>9, <1>10
      <4> QED BY <1>10, <1>12, <1>19, <3>2, <4>1
    <3> QED BY <2>2, <3>1, <3>2
  <2> QED BY <1>18, <2>1, <2>3, <2>4 DEF KeptFresh, ToldBetween
<1>22. ToldAtMost'
  BY <1>2, <1>18 DEF ToldAtMost, Told
<1>23. reported' \in [TrackedMarks -> Nat]
  BY <1>2, <1>18 DEF TrackTypes
<1> QED BY <1>16, <1>18, <1>20, <1>21, <1>22, <1>23, OneRequest

\* The rows wanted are put together.
LEMMA FinishListStep ==
  ASSUME TrackInv, NEW t \in Trackers, FinishList(t)
  PROVE  TrackInv'
<1>1. PICK q : q = tracker[t]
  OBVIOUS
<1>2. /\ q \in TrackerType /\ TrackerFits(q) /\ TrackTypes /\ q.phase = "build"
      /\ \A i \in DOMAIN q.rows : q.rows[i].shows # NoShow
  BY <1>1, RequestFits DEF FinishList, Built
<1>3. PICK S : S = {i \in DOMAIN q.rows : q.rows[i].shows = q.want}
  OBVIOUS
<1>4. PICK at : at = Slice(KeptAt(q), q.page, ChunkSize)
  OBVIOUS
<1>5. at \in Seq(S)
  <2>1. q.rows \in Seq(TrackedRow) /\ q.page \in Nat \ {0}
    BY <1>2, TrackerParts
  <2>2. KeptAt(q) \in Seq(S)
    BY <1>3, <2>1, KeptTells
  <2> QED BY <1>4, <2>1, <2>2, PageTells
<1>6. PICK found : found = IF q.want \in {Every, "MANUAL"} THEN q.rows ELSE [i \in DOMAIN at |-> q.rows[at[i]]]
  OBVIOUS
<1>7. PICK r : r = [q EXCEPT !.phase = "done", !.found = found]
  OBVIOUS
<1>8. tracker' = [tracker EXCEPT ![t] = r] /\ UNCHANGED <<tracked, since, moment, histories, reported>>
  BY <1>1, <1>4, <1>6, <1>7 DEF FinishList
<1>9. q.rows \in Seq(TrackedRow) /\ \A i \in DOMAIN q.rows : q.rows[i] \in TrackedRow
  BY <1>2, TrackerParts
<1>10. /\ found \in Seq(TrackedRow)
       /\ \A i \in DOMAIN found : \E j \in DOMAIN q.rows :
            found[i] = q.rows[j] /\ (q.want \in {Every, "MANUAL"} \/ q.rows[j].shows = q.want)
  <2>1. CASE q.want \in {Every, "MANUAL"}
    <3>1. found = q.rows
      BY <1>6, <2>1
    <3> QED BY <1>9, <2>1, <3>1
  <2>2. CASE q.want \notin {Every, "MANUAL"}
    <3>1. found = [i \in DOMAIN at |-> q.rows[at[i]]]
      BY <1>6, <2>2
    <3>2. \A i \in DOMAIN at : at[i] \in S
      BY <1>5
    <3>3. PICK n \in Nat : DOMAIN at = 1..n
      BY <1>5
    <3>4. \A i \in 1..n : q.rows[at[i]] \in TrackedRow
      BY <1>3, <1>9, <3>2, <3>3
    <3>5. found \in Seq(TrackedRow)
      BY ONLY <3>1, <3>3, <3>4
    <3> QED BY <1>3, <3>1, <3>2, <3>5
  <2> QED BY <2>1, <2>2
<1>11. r \in TrackerType
  BY ONLY <1>2, <1>7, <1>10 DEF TrackerType
<1>12. /\ r.began = q.began /\ r.rows = q.rows /\ r.found = found /\ r.want = q.want
       /\ r.page = q.page /\ r.steady = q.steady /\ r.phase = "done"
  BY <1>2, <1>7 DEF TrackerType
<1>13. ListFresh(r)
  <2>1. PICK from : from = q.began - HistoryTtl - CallTime
    OBVIOUS
  <2>2. ListFresh(q)
    BY <1>2 DEF TrackerFits
  <2>3. \A j \in DOMAIN q.rows : ShownFresh(q.rows[j], from)
    BY <2>1, <2>2 DEF ListFresh
  <2>4. ASSUME NEW i \in DOMAIN found PROVE found[i].shows # NoShow /\ ShownFresh(found[i], from)
    <3>1. PICK j \in DOMAIN q.rows : found[i] = q.rows[j]
      BY <1>10
    <3>2. q.rows[j].shows # NoShow /\ ShownFresh(q.rows[j], from)
      BY <1>2, <2>3
    <3> QED BY ONLY <3>1, <3>2, Zenon
  <2> QED BY <1>12, <2>1, <2>2, <2>4 DEF ListFresh
<1>14. ShownAsWanted(r)
  <2>1. ShownAsWanted(q)
    BY <1>2 DEF TrackerFits
  <2>2. ASSUME NEW i \in DOMAIN found PROVE q.want \in {Every, found[i].shows}
    <3>1. PICK j \in DOMAIN q.rows :
            found[i] = q.rows[j] /\ (q.want \in {Every, "MANUAL"} \/ q.rows[j].shows = q.want)
      BY <1>10
    <3>2. q.want = "MANUAL" => q.rows[j].shows = "MANUAL"
      BY <1>2, <2>1 DEF ShownAsWanted
    <3> QED BY <3>1, <3>2
  <2> QED BY <1>12, <2>1, <2>2 DEF ShownAsWanted
<1>15. CallFresh(r) /\ NotTakenBack(r)
  BY <1>12 DEF CallFresh, NotTakenBack
<1>16. q.steady => ListingKept(r)
  BY <1>2, <1>12 DEF TrackerFits, ListingKept
<1> QED BY <1>8, <1>11, <1>12, <1>13, <1>14, <1>15, <1>16, QuietRequest DEF TrackerFits


\* Something happens to a parcel, or time passes.
LEMMA HappeningStep ==
  ASSUME TrackInv, PassMoment \/ \E y \in TrackedMarks, h \in Happenings : Happen(y, h)
  PROVE  TrackInv'
<1>1. TrackTypes /\ KnownSince /\ KeptFresh /\ ToldAtMost
  BY DEF TrackInv
<1>2. TrackTypes' /\ KnownSince'
  BY <1>1, KnownLater
<1>3. /\ UNCHANGED <<tracked, histories, tracker, reported>>
      /\ moment' \in Nat /\ moment <= moment' /\ moment \in Nat /\ HistoryTtl \in Nat /\ CallTime \in Nat
  <2>1. moment \in Nat /\ HistoryTtl \in Nat /\ CallTime \in Nat
    BY <1>1, NumbersFit
  <2>2. UNCHANGED <<tracked, histories, tracker, reported>> /\ (moment' = moment \/ moment' = moment + 1)
    BY DEF PassMoment, Happen
  <2> QED BY <2>1, <2>2
<1>4. KeptFresh'
  <2>1. NoHistory' = NoHistory
    BY DEF NoHistory
  <2>2. ASSUME NEW x \in TrackedMarks, histories[x] # NoHistory
        PROVE  /\ histories[x].until <= moment' + HistoryTtl
               /\ histories[x].told \in ToldBetween(x, histories[x].until - HistoryTtl - CallTime, moment)'
    <3>1. PICK until \in Int : until = histories[x].until
      BY <1>1 DEF TrackTypes
    <3>2. PICK told : told = histories[x].told
      OBVIOUS
    <3>3. PICK from \in Int : from = until - HistoryTtl - CallTime
      BY <1>3
    <3>4. until <= moment + HistoryTtl /\ told \in ToldBetween(x, from, moment)
      BY <1>1, <2>2, <3>1, <3>2, <3>3 DEF KeptFresh
    <3>5. from <= moment /\ until <= moment' + HistoryTtl
      BY ONLY <1>3, <3>1, <3>3, <3>4
    <3>6. told \in ToldBetween(x, from, moment)'
      BY <1>1, <3>4, <3>5, ToldLater
    <3>7. histories[x].until - HistoryTtl - CallTime = from
      BY <3>1, <3>3
    <3> QED BY <1>3, <3>1, <3>2, <3>5, <3>6, <3>7
  <2>3. \A x : histories'[x] = histories[x]
    BY <1>3
  <2> QED BY <1>3, <2>1, <2>2, <2>3 DEF KeptFresh
<1>5. ToldAtMost'
  <2>1. ASSUME NEW x \in TrackedMarks, tracked[x].carrier = "tcc"
        PROVE  reported[x] <= Gravity(GlobalStatus(Told(x)))'
    <3>1. PICK n \in Nat : n = reported[x]
      BY <1>1 DEF TrackTypes
    <3>2. PICK a \in Nat, b \in Nat :
            a = Gravity(GlobalStatus(Told(x))) /\ b = Gravity(GlobalStatus(Told(x)))'
      BY <1>1, GraverLater
    <3>3. a <= b
      BY <1>1, <3>2, GraverLater
    <3>4. n <= a
      BY <1>1, <2>1, <3>1, <3>2 DEF ToldAtMost
    <3>5. n <= b
      BY <3>3, <3>4
    <3> QED BY <3>1, <3>2, <3>5
  <2> QED BY <1>3, <2>1 DEF ToldAtMost
<1>6. ASSUME NEW t \in Trackers PROVE TrackerFits(tracker[t])'
  <2>1. PICK r : r = tracker[t]
    OBVIOUS
  <2>2. TrackerFits(r)'
    BY <2>1, LaterFits
  <2> QED BY <1>3, <2>1, <2>2
<1> QED BY <1>2, <1>4, <1>5, <1>6 DEF TrackInv

\* What a request holds fits whatever becomes of a mark, but it is no whole list any more.
LEMMA UnsettledFits ==
  ASSUME NEW q \in TrackerType, TrackerFits(q), NEW r, r = [q EXCEPT !.steady = q.phase = "idle"],
         UNCHANGED <<since, moment>>,
         \A x \in TrackedMarks : tracked'[x].carrier = tracked[x].carrier
  PROVE  r \in TrackerType /\ TrackerFits(r)'
<1>1. PICK idle \in BOOLEAN : idle = (q.phase = "idle")
  OBVIOUS
<1>2. r = [q EXCEPT !.steady = idle]
  BY <1>1
<1>3. r \in TrackerType
  BY <1>2 DEF TrackerType
<1>4. /\ r.began = q.began /\ r.rows = q.rows /\ r.found = q.found /\ r.want = q.want /\ r.at = q.at
      /\ r.called = q.called /\ r.page = q.page /\ r.phase = q.phase /\ r.told = q.told /\ r.floor = q.floor
      /\ r.steady = idle
  BY <1>2 DEF TrackerType
<1>5. /\ \A i \in DOMAIN q.rows : q.rows[i].id \in TrackedMarks
      /\ \A i \in DOMAIN q.found : q.found[i].id \in TrackedMarks
  BY TrackerParts, RowParts
<1>6. \A x : Told(x)' = Told(x)
  BY DEF Told
<1>7. \A x, from, to : ToldBetween(x, from, to)' = ToldBetween(x, from, to)
  BY DEF ToldBetween
<1>8. \A row, from : row.id \in TrackedMarks /\ ShownFresh(row, from) => ShownFresh(row, from)'
  BY <1>7 DEF ShownFresh
<1>9. ListFresh(r)'
  <2>1. PICK from : from = q.began - HistoryTtl - CallTime
    OBVIOUS
  <2>2. /\ q.began <= moment
        /\ \A i \in DOMAIN q.rows : ShownFresh(q.rows[i], from)
        /\ \A i \in DOMAIN q.found : q.found[i].shows # NoShow /\ ShownFresh(q.found[i], from)
    BY <2>1 DEF TrackerFits, ListFresh
  <2>3. /\ \A i \in DOMAIN q.rows : ShownFresh(q.rows[i], from)'
        /\ \A i \in DOMAIN q.found : ShownFresh(q.found[i], from)'
    BY <1>5, <1>8, <2>2
  <2> QED BY <1>4, <2>1, <2>2, <2>3 DEF ListFresh
<1>10. CallFresh(r)'
  BY <1>4, <1>5, <1>7 DEF TrackerFits, CallFresh
<1>11. NotTakenBack(r)'
  BY <1>4, <1>6 DEF TrackerFits, NotTakenBack
<1>12. ShownAsWanted(r)'
  BY <1>4, <1>5 DEF TrackerFits, ShownAsWanted
<1>13. ~(r.steady /\ r.phase # "idle")
  BY <1>1, <1>4
<1> QED BY <1>3, <1>9, <1>10, <1>11, <1>12, <1>13 DEF TrackerFits

\* A mark is made, voided or taken off.
LEMMA ChangeMarkStep ==
  ASSUME TrackInv, NEW x \in TrackedMarks, NEW row \in {"generated", "voided", "removed"}, ChangeMark(x, row)
  PROVE  TrackInv'
<1>1. TrackTypes /\ KnownSince /\ KeptFresh /\ ToldAtMost
  BY DEF TrackInv
<1>2. /\ tracked' = [tracked EXCEPT ![x].row = row] /\ UNCHANGED <<since, moment, histories, reported>>
      /\ tracker' = [t \in Trackers |-> [tracker[t] EXCEPT !.steady = tracker[t].phase = "idle"]]
  BY DEF ChangeMark, Unsettle
<1>3. /\ tracked' \in [TrackedMarks -> [carrier : {"tcc", "manual", "other"},
                                       row : {"generated", "voided", "unmade", "removed"}]]
      /\ \A y \in TrackedMarks : tracked'[y].carrier = tracked[y].carrier
  BY <1>1, <1>2 DEF TrackTypes
<1>4. ASSUME NEW t \in Trackers PROVE tracker'[t] \in TrackerType /\ TrackerFits(tracker[t])'
  <2>1. PICK q : q = tracker[t]
    OBVIOUS
  <2>2. q \in TrackerType /\ TrackerFits(q)
    BY <2>1, RequestFits
  <2>3. PICK r : r = [q EXCEPT !.steady = q.phase = "idle"]
    OBVIOUS
  <2>4. tracker'[t] = r
    BY <1>2, <2>1, <2>3
  <2>5. r \in TrackerType /\ TrackerFits(r)'
    BY <1>2, <1>3, <2>2, <2>3, UnsettledFits
  <2> QED BY <2>4, <2>5
<1>5. tracker' \in [Trackers -> TrackerType]
  BY <1>2, <1>4
<1>6. TrackTypes'
  BY <1>1, <1>2, <1>3, <1>5 DEF TrackTypes
<1>7. KnownSince'
  BY <1>1, <1>2 DEF KnownSince, Never
<1>8. KeptFresh'
  BY <1>1, <1>2 DEF KeptFresh, ToldBetween, NoHistory
<1>9. ToldAtMost'
  BY <1>1, <1>2, <1>3, ZenonT(60) DEF ToldAtMost, Told
<1> QED BY <1>4, <1>6, <1>7, <1>8, <1>9 DEF TrackInv

\* Any step of a list, for any wants and pages.
LEMMA ListStep ==
  ASSUME TrackInv, NEW t \in Trackers, NEW wants \in SUBSET ({Every} \cup ShownStatus),
         NEW pages \in SUBSET (Nat \ {0}), ListSteps(t, wants, pages)
  PROVE  TrackInv'
<1>1. ASSUME NEW want \in wants, NEW page \in pages, BeginList(t, want, page) PROVE TrackInv'
  BY <1>1, BeginListStep
<1>2. ASSUME NEW i \in DOMAIN tracker[t].rows, ShowByHand(t, i) \/ LookUpHistory(t, i) PROVE TrackInv'
  BY <1>2, ShowByHandStep, LookUpHistoryStep
<1>3. CASE CountMarks(t) \/ ReadMarks(t)
  BY <1>3, CountMarksStep, ReadMarksStep
<1>4. CASE DropHistory(t) \/ AskCarrier(t) \/ FailCall(t) \/ KeepHistory(t)
  BY <1>4, DropHistoryStep, AskCarrierStep, FailCallStep, KeepHistoryStep
<1>5. CASE FinishList(t) \/ LeaveList(t)
  BY <1>5, FinishListStep, LeaveListStep
<1> QED BY <1>1, <1>2, <1>3, <1>4, <1>5 DEF ListSteps

\* At the start nobody has asked anything.
LEMMA TrackStart ==
  ASSUME TrackInit
  PROVE  TrackInv
<1>1. /\ HistoryTtl \in Nat /\ CallTime \in Nat /\ LastMoment \in Nat /\ Never \in Nat /\ Never > 0
      /\ moment = 0
  BY TrackingAssumption DEF Never, TrackInit
<1>2. TrackTypes
  <2>1. \A x \in TrackedMarks : NoHistory \in [told : SUBSET Happenings, until : Int]
    BY DEF NoHistory
  <2>2. <<>> \in Seq(TrackedRow)
    OBVIOUS
  <2>3. NoTracker \in TrackerType
    BY <2>2 DEF NoTracker, TrackerType
  <2>4. tracked \in [TrackedMarks -> [carrier : {"tcc", "manual", "other"},
                                    row : {"generated", "voided", "unmade", "removed"}]]
    BY DEF TrackInit
  <2>5. since \in [TrackedMarks -> [Happenings -> Nat]]
    BY <1>1 DEF TrackInit
  <2> QED BY <1>1, <2>1, <2>3, <2>4, <2>5 DEF TrackInit, TrackTypes
<1>3. KnownSince
  BY DEF TrackInit, KnownSince
<1>4. KeptFresh
  BY DEF TrackInit, KeptFresh
<1>5. ToldAtMost
  <2>1. ASSUME NEW x \in TrackedMarks PROVE 0 <= Gravity(GlobalStatus(Told(x)))
    <3>1. Told(x) \in SUBSET Happenings
      BY TellsHappenings
    <3>2. Gravity(GlobalStatus(Told(x))) \in Nat
      BY <3>1, NeverLess
    <3> QED BY <3>2
  <2> QED BY <2>1 DEF TrackInit, ToldAtMost
<1>6. \A t \in Trackers : TrackerFits(tracker[t])
  BY <1>2, IdleFits DEF TrackInit
<1> QED BY <1>2, <1>3, <1>4, <1>5, <1>6 DEF TrackInv

\* Whatever happens in a step.
LEMMA TrackStep ==
  ASSUME TrackInv, [TrackNext]_trackingVars
  PROVE  TrackInv'
<1>1. ASSUME NEW x \in TrackedMarks, NEW h \in Happenings, Happen(x, h) PROVE TrackInv'
  BY <1>1, HappeningStep
<1>2. CASE PassMoment
  BY <1>2, HappeningStep
<1>3. ASSUME NEW x \in TrackedMarks, NEW row \in {"generated", "voided", "removed"}, ChangeMark(x, row)
      PROVE  TrackInv'
  BY <1>3, ChangeMarkStep
<1>4. ASSUME NEW t \in Trackers,
             \/ \E x \in TrackedMarks : GetTracking(t, x)
             \/ AnswerGet(t) \/ FinishGet(t) \/ FailGet(t)
             \/ ListSteps(t, {Every} \cup ShownStatus, Nat \ {0})
      PROVE  TrackInv'
  <2>1. ASSUME NEW x \in TrackedMarks, GetTracking(t, x) PROVE TrackInv'
    BY <2>1, GetTrackingStep
  <2>2. CASE AnswerGet(t) \/ FinishGet(t) \/ FailGet(t)
    BY <2>2, AnswerGetStep, FinishGetStep, FailGetStep
  <2>3. CASE ListSteps(t, {Every} \cup ShownStatus, Nat \ {0})
    BY <2>3, ListStep
  <2> QED BY <1>4, <2>1, <2>2, <2>3
<1>5. CASE UNCHANGED trackingVars
  <2>1. UNCHANGED <<tracked, since, moment, histories, tracker, reported>>
    BY <1>5 DEF trackingVars
  <2>2. TrackTypes'
    BY <2>1 DEF TrackInv, TrackTypes
  <2>3. KnownSince'
    BY <2>1 DEF TrackInv, KnownSince, Never
  <2>4. KeptFresh'
    BY <2>1 DEF TrackInv, KeptFresh, ToldBetween, NoHistory
  <2>5. ToldAtMost'
    BY <2>1 DEF TrackInv, ToldAtMost, Told
  <2>6. ASSUME NEW t \in Trackers PROVE TrackerFits(tracker[t])'
    <3>1. PICK r : r = tracker[t]
      OBVIOUS
    <3>2. TrackerFits(r)'
      BY <2>1, <3>1, FitsStays DEF TrackInv
    <3> QED BY <2>1, <3>1, <3>2
  <2> QED BY <2>2, <2>3, <2>4, <2>5, <2>6 DEF TrackInv
<1> QED BY <1>1, <1>2, <1>3, <1>4, <1>5 DEF TrackNext

\* The invariant is enough.
LEMMA InvTracks ==
  ASSUME TrackInv
  PROVE  TrackingSafety
<1>1. \A t \in Trackers : tracker[t] \in TrackerType /\ TrackerFits(tracker[t])
  BY RequestFits
<1>2. NotTooOld
  BY <1>1 DEF TrackerFits, ListFresh, ShownFresh, NotTooOld
<1>3. NeverMilder
  <2>1. ASSUME NEW t \in Trackers, tracker[t].phase = "told", tracked[tracker[t].at].carrier = "tcc"
        PROVE  Gravity(GlobalStatus(tracker[t].told)) >= tracker[t].floor
    <3>1. PICK r \in TrackerType : r = tracker[t]
      BY <1>1
    <3>2. PICK told \in SUBSET Happenings, floor \in Nat : told = r.told /\ floor = r.floor
      BY TrackerParts
    <3>3. floor <= Gravity(GlobalStatus(told))
      BY <1>1, <2>1, <3>1, <3>2 DEF TrackerFits, NotTakenBack
    <3>4. Gravity(GlobalStatus(told)) \in Nat
      BY NeverLess
    <3>5. Gravity(GlobalStatus(told)) >= floor
      BY <3>3, <3>4
    <3> QED BY <3>1, <3>2, <3>5
  <2> QED BY <2>1 DEF NeverMilder
<1>4. WholeLists
  BY <1>1 DEF TrackerFits, ListingKept, ShownAsWanted, WholeLists
<1> QED BY <1>2, <1>3, <1>4 DEF TrackingSafety

\* What happens when only one parcel is asked for, when lists look it up, or when
\* marks change under a list, happens here too.
LEMMA AllTrack ==
  AskNext \/ LookNext \/ WalkNext => TrackNext
<1>1. /\ \A t \in Trackers :
           ListSteps(t, {Every}, {1}) => ListSteps(t, {Every} \cup ShownStatus, Nat \ {0})
      /\ \A t \in Trackers : ListSteps(t, {Every, "MANUAL", "PROCESSING"}, 1..2) =>
                              ListSteps(t, {Every} \cup ShownStatus, Nat \ {0})
  <2>1. {Every, "MANUAL", "PROCESSING"} \subseteq {Every} \cup ShownStatus
    BY DEF ShownStatus
  <2>2. {1} \subseteq Nat \ {0} /\ 1..2 \subseteq Nat \ {0}
    OBVIOUS
  <2> QED BY <2>1, <2>2 DEF ListSteps
<1> QED BY <1>1 DEF AskNext, LookNext, WalkNext, TrackNext

\* Whatever the requests for parcels and lists overlap with, the histories in the
\* cache were reported shortly before they were put there, nobody was told more
\* than has happened, and every request under way holds what it may (List,
\* lookupTrackingHistory, putCachedTrackingHistory).
THEOREM TrackingInvariant == TrackSpec => []TrackInv
<1>1. TrackInit => TrackInv
  BY TrackStart
<1>2. TrackInv /\ [TrackNext]_trackingVars => TrackInv'
  BY TrackStep
<1> QED BY <1>1, <1>2, PTL DEF TrackSpec

\* No list shows a parcel where it was longer ago than the cache keeps it and the
\* carrier takes to answer; who asks for a parcel again is never told less; a list
\* by status has gone through every mark once (lookupTrackingHistory,
\* resolveGlobalTrackingStatus, collectAllCandidateMarks).
THEOREM TrackingIsSafe == TrackSpec => []TrackingSafety
<1>1. TrackInv => TrackingSafety
  BY InvTracks
<1> QED BY <1>1, TrackingInvariant, PTL

===============================================================================
