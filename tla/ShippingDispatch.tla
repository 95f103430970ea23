--------------------------- MODULE ShippingDispatch ---------------------------
(* Dispatch batches and shipping marks (module/shipping): the dispatch service, *)
(* the mark service it calls to submit drafts to the carrier, and the two       *)
(* repositories below them.                                                     *)
(*                                                                              *)
(* A slot is one server goroutine running one HTTP request.  Every repository   *)
(* statement (or transaction) and every carrier call is a step of its own;      *)
(* between two of them any other slot may run.  What a handler has read lives   *)
(* in its slot: `req` holds its parameters and program point, `work` the copies *)
(* of mark rows it read and will later write back whole.                        *)
EXTENDS Naturals

CONSTANTS
  Marks,      \* mark identifiers, numbered in order of creation (created_at)
  Batches,    \* batch identifiers
  Orders,     \* order identifiers
  Quotes,     \* quotation identifiers
  Carriers,   \* carrier identifiers a client may name
  Registered, \* those the provider registry knows
  Manual,     \* those without a remote API (domain.IsManualCarrierID)
  Slots,      \* request goroutines that may run at the same time
  Ops,        \* the operations clients issue in this instance
  Faults,     \* whether a statement may fail or the process die mid-request
  ChangedRows,\* whether RowsAffected counts the rows an UPDATE changed (MySQL
              \* unless the DSN sets clientFoundRows) or those it matched
  MaxAccept,  \* bound: how often the carrier accepts one mark
  Nil         \* absent row, no batch, no quotation, unset parameter

Operations == {"CreateBatch", "DraftMark", "QuoteMark", "DirectMark", "Close",
               "RemoveDraftMark", "UpdateDraftMark", "Void", "Generate"}

ASSUME DispatchAssumption ==
  /\ Marks \subseteq Nat
  /\ Registered \subseteq Carriers
  /\ Manual \subseteq Carriers
  /\ Ops \subseteq Operations
  /\ Faults \in BOOLEAN
  /\ ChangedRows \in BOOLEAN
  /\ MaxAccept \in Nat
  /\ Nil \notin Marks \cup Batches \cup Orders \cup Quotes \cup Carriers
  /\ Nil \notin Operations

VARIABLES
  rows,       \* shipping_marks: mark id -> row, Nil when there is none
  batches,    \* dispatch_batches: batch id -> row, Nil when there is none
  req,        \* slot -> the request it runs
  work,       \* slot -> mark id -> the copy the handler holds, or Nil
  minted,     \* mark identifiers handed out so far (uuid.NewString)
  removed,    \* history: marks deleted from the table
  accepted,   \* history: how often the remote carrier accepted each mark
  announced   \* history: shipping.v1.batch.closed events per batch

vars == <<rows, batches, req, work, minted, removed, accepted, announced>>

-----------------------------------------------------------------------------
(* Data. *)

MarkStatus == {"GENERATED", "FAILED", "VOIDED", "QUOTED", "CREATED"}

Row == [order   : Orders,
        quote   : Quotes \cup {Nil},
        carrier : Carriers,
        batch   : Batches \cup {Nil},
        status  : MarkStatus,
        ready   : BOOLEAN]  \* observations, tracking number and cost are set

BatchRow == [carrier : Carriers, status : {"OPEN", "CLOSED"}]

ASSUME NilAssumption == Nil \notin Row \cup BatchRow

Points == {"idle", "insertBatch", "loadBatch", "findActive", "createMark",
           "addMark", "listMarks", "carrier", "persist", "closeBatch",
           "announce", "delete", "loadDraft", "save", "insertMark"}

Request == [pc      : Points,
            op      : Operations \cup {Nil},
            batch   : Batches \cup {Nil},
            order   : Orders \cup {Nil},
            quote   : Quotes \cup {Nil},
            carrier : Carriers \cup {Nil},
            mark    : Marks \cup {Nil},
            err     : {"none", "failed", "guardrail"}]

Idle == [pc |-> "idle", op |-> Nil, batch |-> Nil, order |-> Nil, quote |-> Nil,
         carrier |-> Nil, mark |-> Nil, err |-> "none"]

NoWork == [m \in Marks |-> Nil]

IsOpen(b)   == batches[b] # Nil /\ batches[b].status = "OPEN"
InBatch(m, b) == rows[m] # Nil /\ rows[m].batch = b

\* isActiveMarkStatus; PENDING is never stored, every provider sets GENERATED.
Active == {"QUOTED", "GENERATED", "CREATED"}

\* markStatusPriority.
Priority(status) == CASE status = "CREATED"   -> 4
                      [] status = "GENERATED" -> 3
                      [] status = "QUOTED"    -> 2
                      [] OTHER                -> 0

\* findExistingActiveMark, as its callers use it: the mark it selects when that
\* mark is in batch b.  Marks of the batch are preferred to others, then the
\* higher priority, then the newer row.
Candidates(b, o, q) ==
  {m \in Marks : /\ InBatch(m, b)
                 /\ rows[m].order = o
                 /\ rows[m].status \in Active
                 /\ q # Nil => rows[m].quote = q}

Existing(b, o, q) ==
  {m \in Candidates(b, o, q) :
     \A n \in Candidates(b, o, q) :
        \/ Priority(rows[m].status) > Priority(rows[n].status)
        \/ Priority(rows[m].status) = Priority(rows[n].status) /\ m >= n}

\* Mutant of Updated: an upsert (gorm Save) inserts a row that is gone.
Upserted(m, row) == [rows EXCEPT ![m] = row]

\* MarkRepository.Update: one UPDATE of every column by id; no row, no write.
Updated(m, row) == IF rows[m] = Nil THEN rows ELSE [rows EXCEPT ![m] = row]

\* The next identifier; numbering follows creation.
Fresh == {m \in Marks \ minted : \A n \in Marks \ minted : m <= n}

Goto(s, point) == req' = [req EXCEPT ![s].pc = point]

\* The handler returns: nothing it held in memory survives.
Finish(s) == /\ req' = [req EXCEPT ![s] = Idle]
             /\ work' = [work EXCEPT ![s] = NoWork]

\* A request of kind o reaches an idle slot and runs up to program point p.
Begin(s, o, p, b, ord, q, c, m) ==
  /\ req[s].pc = "idle"
  /\ o \in Ops
  /\ req' = [req EXCEPT ![s] = [pc |-> p, op |-> o, batch |-> b, order |-> ord,
                                quote |-> q, carrier |-> c, mark |-> m,
                                err |-> "none"]]

At(s, point) == req[s].pc = point

history == <<removed, accepted, announced>>

-----------------------------------------------------------------------------
(* Service.Create: look for an open batch of the carrier, then insert.        *)

CreateBatch(s, c) ==
  /\ \A b \in Batches : IsOpen(b) => batches[b].carrier # c
  /\ Begin(s, "CreateBatch", "insertBatch", Nil, Nil, Nil, c, Nil)
  /\ UNCHANGED <<rows, batches, work, minted, history>>

InsertBatch(s) ==
  /\ At(s, "insertBatch")
  /\ \E b \in Batches :
       /\ batches[b] = Nil
       /\ batches' = [batches EXCEPT
            ![b] = [carrier |-> req[s].carrier, status |-> "OPEN"]]
  /\ Finish(s)
  /\ UNCHANGED <<rows, minted, history>>

-----------------------------------------------------------------------------
(* Service.DraftMark and Service.CreateBatchMark (quoted and direct).         *)

\* DraftMark: the batch is loaded and must be OPEN.
DraftMark(s, b, o, q) ==
  /\ IsOpen(b)
  /\ Begin(s, "DraftMark", "findActive", b, o, q, Nil, Nil)
  /\ UNCHANGED <<rows, batches, work, minted, history>>

\* CreateBatchMark looks for an active mark before it looks at the batch.
QuoteMark(s, b, o, q) ==
  /\ batches[b] # Nil
  /\ Existing(b, o, q) = {}
  /\ Begin(s, "QuoteMark", "loadBatch", b, o, q, Nil, Nil)
  /\ UNCHANGED <<rows, batches, work, minted, history>>

\* Direct: an existing QUOTED draft of the batch is submitted as it was read.
DirectMark(s, b, o, q) ==
  /\ batches[b] # Nil
  /\ \/ /\ Existing(b, o, q) = {}
        /\ Begin(s, "DirectMark", "loadBatch", b, o, q, Nil, Nil)
        /\ UNCHANGED work
     \/ \E m \in Existing(b, o, q) :
          /\ rows[m].status = "QUOTED"
          /\ Begin(s, "DirectMark", "carrier", b, o, q, Nil, m)
          /\ work' = [work EXCEPT ![s][m] = rows[m]]
  /\ UNCHANGED <<rows, batches, minted, history>>

\* Mutant of LoadBatch: the quoted path does not ask for an OPEN batch.
LoadBatchAnyStatus(s) ==
  /\ At(s, "loadBatch")
  /\ Goto(s, IF req[s].op = "DirectMark" THEN "createMark" ELSE "findActive")
  /\ UNCHANGED <<rows, batches, work, minted, history>>

\* The quoted path continues as DraftMark and needs an OPEN batch; the direct
\* path (createDirectBatchMark) accepts a CLOSED one.
LoadBatch(s) ==
  /\ At(s, "loadBatch")
  /\ \/ /\ req[s].op = "DirectMark"
        /\ Goto(s, "createMark")
        /\ UNCHANGED work
     \/ /\ req[s].op # "DirectMark"
        /\ IsOpen(req[s].batch)
        /\ Goto(s, "findActive")
        /\ UNCHANGED work
     \/ /\ req[s].op # "DirectMark"
        /\ ~IsOpen(req[s].batch)
        /\ Finish(s)
  /\ UNCHANGED <<rows, batches, minted, history>>

FindActive(s) ==
  /\ At(s, "findActive")
  /\ \/ /\ Existing(req[s].batch, req[s].order, req[s].quote) = {}
        /\ Goto(s, "createMark")
        /\ UNCHANGED work
     \/ /\ Existing(req[s].batch, req[s].order, req[s].quote) # {}
        /\ Finish(s)
  /\ UNCHANGED <<rows, batches, minted, history>>

\* Mutant of NewRow: the carrier of the request instead of the batch's.
NewRowOwnCarrier(s, r) ==
  [order |-> req[s].order, quote |-> req[s].quote, status |-> "QUOTED", ready |-> r,
   carrier |-> CHOOSE c \in Carriers : c # batches[req[s].batch].carrier,
   batch   |-> IF req[s].op = "DirectMark" THEN req[s].batch ELSE Nil]

\* The row a handler inserts: carrier of the batch, QUOTED; only the direct
\* path stores the batch already.  Only a manual draft posted to DraftMark can
\* carry the operator's tracking data.
NewRow(s, r) ==
  [order   |-> req[s].order,
   quote   |-> req[s].quote,
   carrier |-> batches[req[s].batch].carrier,
   batch   |-> IF req[s].op = "DirectMark" THEN req[s].batch ELSE Nil,
   status  |-> "QUOTED",
   ready   |-> r]

CreateMark(s) ==
  /\ At(s, "createMark")
  /\ \E m \in Fresh, r \in BOOLEAN :
       /\ r => /\ req[s].op = "DraftMark"
               /\ batches[req[s].batch].carrier \in Manual
       /\ rows' = [rows EXCEPT ![m] = NewRow(s, r)]
       /\ minted' = minted \cup {m}
       /\ req' = [req EXCEPT ![s].pc = "addMark", ![s].mark = m]
       /\ work' = [work EXCEPT ![s][m] = NewRow(s, r)]
  /\ UNCHANGED <<batches, history>>

\* BatchRepository.AddMark locks the batch row but does not look at its status.
\* It reports the mark missing when the UPDATE affected no row; the direct path
\* stores the batch a mark was inserted with moments before, which MySQL does
\* not count as a change while updated_at stays within the same second.
AddMark(s) ==
  LET m == req[s].mark IN
  /\ At(s, "addMark")
  /\ \/ /\ rows[m] # Nil
        /\ rows' = [rows EXCEPT ![m].batch = req[s].batch]
        /\ \/ req[s].op = "DirectMark" /\ Goto(s, "carrier") /\ UNCHANGED work
           \/ req[s].op # "DirectMark" /\ Finish(s)
     \/ /\ rows[m] = Nil \/ (ChangedRows /\ InBatch(m, req[s].batch))
        /\ Finish(s)
        /\ UNCHANGED rows
  /\ UNCHANGED <<batches, minted, history>>

-----------------------------------------------------------------------------
(* Service.Close and MarkService.Materialize.                                 *)

Close(s, b) ==
  /\ IsOpen(b)
  /\ Begin(s, "Close", "listMarks", b, Nil, Nil, Nil, Nil)
  /\ UNCHANGED <<rows, batches, work, minted, history>>

Drafts(b) == {m \in Marks : InBatch(m, b) /\ rows[m].status = "QUOTED"}

\* Mutant of ListMarks: manual drafts are not validated.
ListMarksUnvalidated(s) ==
  LET b == req[s].batch IN
  /\ At(s, "listMarks")
  /\ work' = [work EXCEPT ![s] =
                [m \in Marks |-> IF m \in Drafts(b) THEN rows[m] ELSE Nil]]
  /\ Goto(s, IF Drafts(b) = {} THEN "closeBatch" ELSE "carrier")
  /\ UNCHANGED <<rows, batches, minted, history>>

\* ListByBatchID, then ValidateManualDraftsBeforeClose on what was read.
ListMarks(s) ==
  LET b == req[s].batch IN
  /\ At(s, "listMarks")
  /\ \/ /\ batches[b].carrier \in Manual
        /\ \E m \in Drafts(b) : ~rows[m].ready
        /\ Finish(s)
     \/ /\ batches[b].carrier \in Manual => \A m \in Drafts(b) : rows[m].ready
        /\ work' = [work EXCEPT ![s] =
                      [m \in Marks |-> IF m \in Drafts(b) THEN rows[m] ELSE Nil]]
        /\ Goto(s, IF Drafts(b) = {} THEN "closeBatch" ELSE "carrier")
  /\ UNCHANGED <<rows, batches, minted, history>>

Pending(s) == {m \in Marks : work[s][m] # Nil}

\* Mutant of Outcomes: the carrier's result code is not looked at.
OutcomesUnread(c) ==
  [ok : {TRUE}, sent : IF c \in Manual THEN {FALSE} ELSE BOOLEAN, err : {"none"}]

\* What GenerateMark can do to the mark and to the carrier: a manual provider
\* always succeeds and talks to nobody.  The remote one may refuse a request
\* (guardrail) before sending it, be refused, accept, or accept and still have
\* the call end in an error (lost answer, missing document URL).
Outcomes(c) ==
  IF c \in Manual
    THEN {[ok |-> TRUE, sent |-> FALSE, err |-> "none"]}
    ELSE {[ok |-> TRUE,  sent |-> TRUE,  err |-> "none"],
          [ok |-> FALSE, sent |-> TRUE,  err |-> "failed"],
          [ok |-> FALSE, sent |-> FALSE, err |-> "failed"],
          [ok |-> FALSE, sent |-> FALSE, err |-> "guardrail"]}

Record(m, sent) ==
  /\ sent => accepted[m] < MaxAccept
  /\ accepted' = IF sent THEN [accepted EXCEPT ![m] = @ + 1] ELSE accepted

Turn(s, m) == m \in Pending(s) /\ \A n \in Pending(s) : m <= n

\* Materialize up to the carrier's answer, for the oldest copy still to do.
CallCarrier(s) ==
  /\ At(s, "carrier")
  /\ \E m \in Marks :
       /\ Turn(s, m)
       /\ work[s][m].carrier \in Registered
       /\ \E out \in Outcomes(work[s][m].carrier) :
            /\ Record(m, out.sent)
            /\ work' = [work EXCEPT ![s][m].status =
                          IF out.ok THEN "CREATED" ELSE "FAILED"]
            /\ req' = [req EXCEPT ![s].pc = "persist", ![s].mark = m,
                                  ![s].err = out.err]
  /\ UNCHANGED <<rows, batches, minted, removed, announced>>

\* Where a handler goes after one Materialize: Close takes the next draft, goes
\* on to close the batch, or gives up on a guardrail violation.
AfterMark(s, m) ==
  \/ /\ \/ req[s].op # "Close"
        \/ req[s].err = "guardrail"
     /\ Finish(s)
  \/ /\ req[s].op = "Close"
     /\ req[s].err # "guardrail"
     /\ work' = [work EXCEPT ![s][m] = Nil]
     /\ req' = [req EXCEPT ![s].pc = IF Pending(s) = {m} THEN "closeBatch"
                                                         ELSE "carrier",
                           ![s].mark = Nil, ![s].err = "none"]

\* No provider for the carrier: ErrCarrierNotSupported before anything is done.
SkipMark(s) ==
  /\ At(s, "carrier")
  /\ \E m \in Marks :
       /\ Turn(s, m)
       /\ work[s][m].carrier \notin Registered
       /\ AfterMark(s, m)
  /\ UNCHANGED <<rows, batches, minted, history>>

\* Materialize writes the whole copy back, whatever the row has become since.
Persist(s) ==
  LET m == req[s].mark IN
  /\ At(s, "persist")
  /\ rows' = Updated(m, work[s][m])
  /\ AfterMark(s, m)
  /\ UNCHANGED <<batches, minted, history>>

\* The same UPDATE fails: Close logs the error and goes on.
PersistFails(s) ==
  /\ Faults
  /\ At(s, "persist")
  /\ AfterMark(s, req[s].mark)
  /\ UNCHANGED <<rows, batches, minted, history>>

\* Mutant of CloseBatch: the UPDATE does not ask for status OPEN.
CloseBatchBlindly(s) ==
  /\ At(s, "closeBatch")
  /\ batches' = [batches EXCEPT ![req[s].batch].status = "CLOSED"]
  /\ Goto(s, "announce")
  /\ UNCHANGED <<rows, work, minted, history>>

\* BatchRepository.Close: UPDATE ... WHERE status = OPEN.
CloseBatch(s) ==
  LET b == req[s].batch IN
  /\ At(s, "closeBatch")
  /\ \/ /\ IsOpen(b)
        /\ batches' = [batches EXCEPT ![b].status = "CLOSED"]
        /\ Goto(s, "announce")
        /\ UNCHANGED work
     \/ /\ ~IsOpen(b)
        /\ Finish(s)
        /\ UNCHANGED batches
  /\ UNCHANGED <<rows, minted, history>>

\* The batch is read again and shipping.v1.batch.closed is published.
Announce(s) ==
  /\ At(s, "announce")
  /\ announced' = [announced EXCEPT ![req[s].batch] = @ + 1]
  /\ Finish(s)
  /\ UNCHANGED <<rows, batches, minted, removed, accepted>>

-----------------------------------------------------------------------------
(* Service.RemoveDraftMark, Service.UpdateDraftMark, MarkService.Void.        *)

\* Mutant of RemoveDraftMark: marks of any status are deleted.
RemoveAnyMark(s, m) ==
  /\ rows[m] # Nil
  /\ Begin(s, "RemoveDraftMark", "delete", Nil, Nil, Nil, Nil, m)
  /\ UNCHANGED <<rows, batches, work, minted, history>>

\* The batch in the URL is used for the answer only.
RemoveDraftMark(s, m) ==
  /\ rows[m] # Nil
  /\ rows[m].status = "QUOTED"
  /\ Begin(s, "RemoveDraftMark", "delete", Nil, Nil, Nil, Nil, m)
  /\ UNCHANGED <<rows, batches, work, minted, history>>

DeleteMark(s) ==
  LET m == req[s].mark IN
  /\ At(s, "delete")
  /\ rows' = [rows EXCEPT ![m] = Nil]
  /\ removed' = removed \cup {m}
  /\ Finish(s)
  /\ UNCHANGED <<batches, minted, accepted, announced>>

UpdateDraftMark(s, b, m) ==
  /\ IsOpen(b)
  /\ batches[b].carrier \in Manual
  /\ rows[m] # Nil
  /\ Begin(s, "UpdateDraftMark", "loadDraft", b, Nil, Nil, Nil, m)
  /\ UNCHANGED <<rows, batches, work, minted, history>>

LoadDraft(s) ==
  LET m == req[s].mark IN
  /\ At(s, "loadDraft")
  /\ \/ /\ m \in Drafts(req[s].batch)
        /\ \E r \in BOOLEAN :
             work' = [work EXCEPT ![s][m] = [rows[m] EXCEPT !.ready = r]]
        /\ Goto(s, "save")
     \/ /\ m \notin Drafts(req[s].batch)
        /\ Finish(s)
  /\ UNCHANGED <<rows, batches, minted, history>>

\* Void reads a mark of any status.
Void(s, m) ==
  /\ rows[m] # Nil
  /\ Begin(s, "Void", "save", Nil, Nil, Nil, Nil, m)
  /\ work' = [work EXCEPT ![s][m] = [rows[m] EXCEPT !.status = "VOIDED"]]
  /\ UNCHANGED <<rows, batches, minted, history>>

\* UpdateDraftMark and Void end in the same whole-row UPDATE.
Save(s) ==
  /\ At(s, "save")
  /\ rows' = Updated(req[s].mark, work[s][req[s].mark])
  /\ Finish(s)
  /\ UNCHANGED <<batches, minted, history>>

-----------------------------------------------------------------------------
(* MarkService.Generate: the carrier first, the row afterwards, no batch.     *)

Generate(s, o, c) ==
  \E m \in Fresh, out \in Outcomes(c) :
    /\ c \in Registered
    /\ Begin(s, "Generate", "insertMark", Nil, o, Nil, c, m)
    /\ Record(m, out.sent)
    /\ work' = [work EXCEPT ![s][m] =
         [order |-> o, quote |-> Nil, carrier |-> c, batch |-> Nil,
          status |-> IF out.ok THEN "GENERATED" ELSE "FAILED",
          ready |-> FALSE]]
    /\ minted' = minted \cup {m}
    /\ UNCHANGED <<rows, batches, removed, announced>>

InsertMark(s) ==
  LET m == req[s].mark IN
  /\ At(s, "insertMark")
  /\ rows' = [rows EXCEPT ![m] = work[s][m]]
  /\ Finish(s)
  /\ UNCHANGED <<batches, minted, history>>

-----------------------------------------------------------------------------
(* A statement fails and the handler returns its error, or the process dies:  *)
(* either way the slot's memory is lost and nothing else happens.             *)
Fail(s) ==
  /\ Faults
  /\ ~At(s, "idle")
  /\ Finish(s)
  /\ UNCHANGED <<rows, batches, minted, history>>

Init ==
  /\ rows = [m \in Marks |-> Nil]
  /\ batches = [b \in Batches |-> Nil]
  /\ req = [s \in Slots |-> Idle]
  /\ work = [s \in Slots |-> NoWork]
  /\ minted = {}
  /\ removed = {}
  /\ accepted = [m \in Marks |-> 0]
  /\ announced = [b \in Batches |-> 0]

Arrive(s) ==
  \/ \E c \in Carriers : CreateBatch(s, c)
  \/ \E b \in Batches, o \in Orders, q \in Quotes \cup {Nil} : DraftMark(s, b, o, q)
  \/ \E b \in Batches, o \in Orders, q \in Quotes : QuoteMark(s, b, o, q)
  \/ \E b \in Batches, o \in Orders, q \in Quotes : DirectMark(s, b, o, q)
  \/ \E b \in Batches : Close(s, b)
  \/ \E m \in Marks : RemoveDraftMark(s, m)
  \/ \E b \in Batches, m \in Marks : UpdateDraftMark(s, b, m)
  \/ \E m \in Marks : Void(s, m)
  \/ \E o \in Orders, c \in Carriers : Generate(s, o, c)

Continue(s) ==
  \/ InsertBatch(s) \/ LoadBatch(s) \/ FindActive(s) \/ CreateMark(s)
  \/ AddMark(s) \/ ListMarks(s) \/ CallCarrier(s) \/ SkipMark(s) \/ Persist(s)
  \/ CloseBatch(s) \/ Announce(s) \/ DeleteMark(s) \/ LoadDraft(s)
  \/ Save(s) \/ InsertMark(s)

Next == \E s \in Slots : Arrive(s) \/ Continue(s) \/ PersistFails(s) \/ Fail(s)

Spec == Init /\ [][Next]_vars

-----------------------------------------------------------------------------
(* Properties that hold for any number of slots, with faults. *)

TypeOK ==
  /\ rows \in [Marks -> Row \cup {Nil}]
  /\ batches \in [Batches -> BatchRow \cup {Nil}]
  /\ req \in [Slots -> Request]
  /\ work \in [Slots -> [Marks -> Row \cup {Nil}]]
  /\ minted \in SUBSET Marks
  /\ removed \in SUBSET Marks
  /\ accepted \in [Marks -> Nat]
  /\ announced \in [Batches -> Nat]

\* A mark assigned to a batch has the carrier of that batch, whatever stale copy
\* of the row was written back last: ErrBatchCarrierMismatch can never be needed.
CarrierAgreement ==
  \A m \in Marks, b \in Batches :
    InBatch(m, b) => batches[b] # Nil /\ rows[m].carrier = batches[b].carrier

\* A row only says CREATED or GENERATED for a remote carrier if that carrier did
\* accept the mark (Materialize and Generate write the status after the call).
AcceptanceBacked ==
  \A m \in Marks :
    rows[m] # Nil /\ rows[m].status \in {"CREATED", "GENERATED"}
      /\ rows[m].carrier \notin Manual => accepted[m] > 0

\* However many Close requests run, a batch is announced closed at most once, and
\* only when it is closed (the UPDATE is conditional on status OPEN).
ClosedAnnouncedOnce ==
  \A b \in Batches :
    /\ announced[b] <= 1
    /\ announced[b] = 1 => batches[b] # Nil /\ batches[b].status = "CLOSED"

\* A deleted mark never comes back: a handler that still holds a copy of the row
\* writes it with an UPDATE that finds nothing.
NoResurrection == \A m \in removed : rows[m] = Nil

\* Close submits a manual draft only with the operator's data in it, even when
\* UpdateDraftMark runs between its validation and its submission.
ManualDraftsComplete ==
  \A s \in Slots, m \in Marks :
    req[s].op = "Close" /\ work[s][m] # Nil /\ work[s][m].carrier \in Manual
      => work[s][m].ready

-----------------------------------------------------------------------------
(* Properties of requests that run one after the other without faults. *)

Quiescent == \A s \in Slots : At(s, "idle")

\* One carrier has at most one open batch (ErrBatchOpenForCarrier).
OneOpenBatchPerCarrier ==
  \A a, b \in Batches :
    IsOpen(a) /\ IsOpen(b) /\ batches[a].carrier = batches[b].carrier => a = b

\* No sequence of operations leaves a draft behind in a closed batch whose
\* carrier has a provider.
ClosedBatchHasNoDraft ==
  Quiescent => \A b \in Batches :
    batches[b] # Nil /\ ~IsOpen(b) /\ batches[b].carrier \in Registered
      => Drafts(b) = {}

\* An order has at most one active mark per batch and quotation.
OneActiveMark ==
  Quiescent => \A b \in Batches, o \in Orders, m, n \in Marks :
    /\ {m, n} \subseteq Candidates(b, o, Nil)
    /\ rows[m].quote = rows[n].quote
    => m = n

\* No sequence of operations submits a mark twice.
AcceptedOnce == \A m \in Marks : accepted[m] <= 1

\* The books are in order after any sequence of complete requests.
LedgerSafety ==
  OneOpenBatchPerCarrier /\ ClosedBatchHasNoDraft /\ OneActiveMark /\ AcceptedOnce

\* What may become of a row: drafts are edited, submitted, voided or deleted,
\* submitted and failed marks can only be voided, a void is final, and a mark
\* stays with the batch it was put in.
MarkLifecycle ==
  [][\A m \in Marks :
       rows[m] # Nil /\ rows'[m] # rows[m] =>
         \/ /\ rows[m].status = "QUOTED"
            /\ rows'[m] # Nil /\ rows[m].batch # Nil => rows'[m].batch = rows[m].batch
         \/ /\ rows'[m] # Nil
            /\ rows'[m] = [rows[m] EXCEPT !.status = "VOIDED"]]_vars

-----------------------------------------------------------------------------
(* What comments and documentation promise and the code does not keep. *)

\* "Only marks in QUOTED status may be deleted; marks in any other status are
\* rejected." (RemoveDraftMark)
OnlyDraftsDeleted ==
  [][\A m \in Marks :
       rows[m] # Nil /\ rows'[m] = Nil => rows[m].status = "QUOTED"]_vars
-----------------------------------------------------------------------------
(* What makes the first group inductive: the copies handlers hold agree with   *)
(* the tables as far as those properties read them.                            *)

\* Only identifiers that were handed out occur, in tables and in handlers.
KnownIds ==
  /\ removed \subseteq minted
  /\ \A m \in Marks : rows[m] # Nil => m \in minted

HeldIds(s) ==
  \A m \in Marks : req[s].mark = m \/ work[s][m] # Nil => m \in minted

\* Every copy of a row, like the row, is backed by the carrier's acceptance, has
\* the carrier of its batch, and never disagrees with the row about the carrier.
CopiesAgree(s) ==
  \A m \in Marks : work[s][m] # Nil =>
    /\ work[s][m].status \in {"CREATED", "GENERATED"}
         /\ work[s][m].carrier \notin Manual => accepted[m] > 0
    /\ work[s][m].batch # Nil =>
         /\ batches[work[s][m].batch] # Nil
         /\ batches[work[s][m].batch].carrier = work[s][m].carrier
    /\ rows[m] # Nil => rows[m].carrier = work[s][m].carrier

\* What a handler knows at each point of its program.
ProgramPoint(s) ==
  /\ At(s, "idle") => req[s] = Idle /\ work[s] = NoWork
  /\ At(s, "insertBatch") => req[s].carrier # Nil
  /\ req[s].pc \in {"loadBatch", "findActive", "createMark", "addMark",
                    "listMarks", "carrier", "persist", "closeBatch", "announce",
                    "loadDraft"}
       => req[s].batch # Nil /\ batches[req[s].batch] # Nil
  /\ req[s].pc \in {"loadBatch", "findActive", "createMark"} => req[s].order # Nil
  /\ req[s].pc \in {"addMark", "persist", "delete", "loadDraft", "save", "insertMark"}
       => req[s].mark # Nil
  /\ req[s].pc \in {"addMark", "persist", "save", "insertMark"}
       => work[s][req[s].mark] # Nil
  /\ At(s, "listMarks") => req[s].op = "Close"
  /\ req[s].pc \in {"loadBatch", "findActive", "createMark", "loadDraft"}
       => req[s].op # "Close"
  /\ At(s, "addMark") =>
       work[s][req[s].mark].carrier = batches[req[s].batch].carrier

\* A generated mark is its handler's alone until it is inserted.
PrivateUntilInserted(s) ==
  At(s, "insertMark") =>
    /\ rows[req[s].mark] = Nil
    /\ req[s].mark \notin removed
    /\ \A t \in Slots \ {s} : req[t].mark # req[s].mark
                            /\ work[t][req[s].mark] = Nil

\* Only the request whose UPDATE closed a batch is about to announce it.
OneAnnouncer(s) ==
  At(s, "announce") =>
    /\ batches[req[s].batch].status = "CLOSED"
    /\ announced[req[s].batch] = 0
    /\ \A t \in Slots \ {s} : At(t, "announce") => req[t].batch # req[s].batch

\* The part about the tables and the part about one handler.
TablesInv ==
  /\ KnownIds
  /\ CarrierAgreement
  /\ AcceptanceBacked
  /\ ClosedAnnouncedOnce
  /\ NoResurrection

HandlerInv(s) ==
  /\ HeldIds(s)
  /\ CopiesAgree(s)
  /\ ProgramPoint(s)
  /\ PrivateUntilInserted(s)
  /\ OneAnnouncer(s)

DispatchInv ==
  /\ TypeOK
  /\ TablesInv
  /\ ManualDraftsComplete
  /\ \A s \in Slots : HandlerInv(s)

-----------------------------------------------------------------------------
(* What makes the second group inductive, and MarkLifecycle hold at every step: *)
(* while nobody else is at work, a copy is the row but for what its handler      *)
(* changed, and what a handler has looked for still is not there.                *)

OneAtATime == (\A s, t \in Slots : s = t) /\ ~Faults /\ ~ChangedRows

InForce(m, b, o, q) ==
  InBatch(m, b) /\ rows[m].order = o /\ rows[m].status \in Active /\ rows[m].quote = q

\* The handler has seen that the order has no mark of this kind in the batch.
SeenNoMark(s) ==
  \/ req[s].pc = "createMark"
  \/ req[s].pc = "loadBatch" /\ req[s].op = "DirectMark"
  \/ req[s].pc = "addMark" /\ req[s].op # "DirectMark"

ChecksHold(s) ==
  /\ At(s, "insertBatch") =>
       \A b \in Batches : IsOpen(b) => batches[b].carrier # req[s].carrier
  /\ req[s].pc \in {"findActive", "createMark", "addMark"} /\ req[s].op # "DirectMark"
       => IsOpen(req[s].batch)
  /\ SeenNoMark(s) =>
       \A m \in Marks : ~InForce(m, req[s].batch, req[s].order, req[s].quote)

\* Drafts on their way to the carrier are as they were read, but for the one it
\* has answered for.
DraftsAsRead(s) ==
  \A m \in Pending(s) :
    /\ rows[m] # Nil /\ rows[m].status = "QUOTED"
    /\ \/ work[s][m] = rows[m] /\ ~(At(s, "persist") /\ req[s].mark = m)
       \/ /\ At(s, "persist") /\ req[s].mark = m
          /\ \E status \in {"CREATED", "FAILED"} :
               work[s][m] = [rows[m] EXCEPT !.status = status]

\* Nothing is held before a row is read or inserted.
EmptyHanded == Points \ {"addMark", "carrier", "persist", "save", "insertMark"}

CopiesCurrent(s) ==
  /\ req[s].pc \in EmptyHanded => work[s] = NoWork
  /\ At(s, "closeBatch") => req[s].op = "Close"
  /\ req[s].pc \in {"addMark", "carrier", "persist"} => DraftsAsRead(s)
  /\ req[s].pc \in {"addMark", "carrier", "persist"} /\ req[s].op # "Close"
       => Pending(s) = {req[s].mark}
  /\ req[s].pc \in {"carrier", "persist", "closeBatch"} /\ req[s].op = "Close"
     /\ batches[req[s].batch].carrier \in Registered
       => Drafts(req[s].batch) \subseteq Pending(s)
  /\ At(s, "addMark") =>
       /\ work[s][req[s].mark].order = req[s].order
       /\ work[s][req[s].mark].quote = req[s].quote
       /\ work[s][req[s].mark].batch = IF req[s].op = "DirectMark" THEN req[s].batch ELSE Nil
  /\ At(s, "save") =>
       /\ rows[req[s].mark] # Nil
       /\ \/ work[s][req[s].mark] = [rows[req[s].mark] EXCEPT !.status = "VOIDED"]
          \/ /\ rows[req[s].mark].status = "QUOTED"
             /\ \E r \in BOOLEAN : work[s][req[s].mark] = [rows[req[s].mark] EXCEPT !.ready = r]
  /\ At(s, "delete") => rows[req[s].mark] # Nil /\ rows[req[s].mark].status = "QUOTED"
  /\ At(s, "insertMark") =>
       /\ work[s][req[s].mark].batch = Nil
       /\ work[s][req[s].mark].status \in {"GENERATED", "FAILED"}

Submits(s, m) == req[s].pc \in {"addMark", "carrier", "persist"}
                 /\ req[s].op = "DirectMark" /\ req[s].mark = m

BooksInOrder ==
  /\ OneOpenBatchPerCarrier
  /\ AcceptedOnce
  /\ \A m \in Marks \ minted : accepted[m] = 0
  /\ \A m \in Marks :
       rows[m] # Nil /\ rows[m].status = "QUOTED" /\ accepted[m] # 0
         => \E s \in Slots : At(s, "persist") /\ req[s].mark = m
  /\ \A b \in Batches, m, n \in Marks :
       /\ InBatch(m, b) /\ rows[m].status \in Active
       /\ InForce(n, b, rows[m].order, rows[m].quote)
       => m = n
  /\ \A b \in Batches :
       batches[b] # Nil /\ ~IsOpen(b) /\ batches[b].carrier \in Registered
         => \A m \in Drafts(b) : \E s \in Slots : Submits(s, m)

LedgerInv == BooksInOrder /\ \A s \in Slots : ChecksHold(s) /\ CopiesCurrent(s)

BatchStatus(b) == IF batches[b] = Nil THEN "none" ELSE batches[b].status

Lifecycle == INSTANCE BatchLifecycle WITH
               status <- [b \in Batches |-> BatchStatus(b)]

\* Whatever requests overlap, fail or die halfway, each batch is opened once,
\* closed once and for good, and announced at most once, after it was closed.
BatchesKeepLifecycle == Lifecycle!Spec
===============================================================================
