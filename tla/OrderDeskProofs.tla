---------------------------- MODULE OrderDeskProofs ----------------------------
(* Proofs about the papers of a dispatch batch (ShippingDocuments), for any     *)
(* number of marks, readers and closing requests, any lifetime of the caches    *)
(* and any number of changes; about quotations and what the courier collects    *)
(* (ShippingQuotes), for any amounts and any requests that overlap, and the      *)
(* boxes they are for (BoxPacking), for any volumes and any number of pieces;    *)
(* about the orders the staff keeps (OrderRecords); about the copy of them that *)
(* analytics keeps (AnalyticsFacts); and about the lists that are read page by  *)
(* page and the files exported from them (ReportExports).                       *)
EXTENDS ShippingQuotes, ShippingDocuments, OrderRecords, AnalyticsFacts, ReportExports,
        FiniteSetTheorems, SequenceTheorems, TLAPS

LEMMA DocStart ==
  ASSUME DocInit
  PROVE  DocInv
<1>1. \A r \in Readers : reader[r] = Waiting
  BY DEF DocInit
<1>2. DocTypes
  BY <1>1 DEF DocInit, DocTypes, Waiting, NoCopy, Copies, NotClosing, Kinds
<1>3. ASSUME NEW r \in Readers PROVE ReaderInv(r)
  BY <1>1 DEF ReaderInv, Served, Waiting
<1> QED BY <1>2, <1>3 DEF DocInv, DocInit

LEMMA DocSafe ==
  ASSUME DocInv
  PROVE  DocumentSafety
<1>1. \A r \in Readers : ReaderInv(r)
  BY DEF DocInv
<1>2. ManifestCoversBatch
  BY <1>1 DEF ManifestCoversBatch, ReaderInv, Served, MadeOf
<1>3. RotulusFollowsMark
  BY <1>1 DEF RotulusFollowsMark, ReaderInv, Served
<1>4. PapersExpire
  BY <1>1 DEF PapersExpire, ReaderInv
<1> QED BY <1>2, <1>3, <1>4 DEF DocumentSafety

\* The rows of the batch change, and a mark that is not with the courier any more
\* is not due any more; an entry may be dropped.
LEMMA RowsChange ==
  ASSUME DocInv, UNCHANGED <<paper, docBatch, reader, second>>,
         docMarks' \in [DocMarks -> [status : {"ABSENT", "QUOTED", "CREATED", "FAILED", "VOIDED"},
                                     second : Nat, edits : Nat]],
         redis' \subseteq redis, memory' \subseteq memory, due' \subseteq due,
         closer' \in [Closers -> [at : {"idle", "submit", "forget"}, drafts : SUBSET DocMarks]],
         docBatch = "CLOSED" => \A m \in due' : docMarks'[m].status = "CREATED"
  PROVE  DocInv'
<1>1. DocTypes'
  BY DEF DocInv, DocTypes
<1>2. ASSUME NEW e \in redis' \cup memory' PROVE EntryInv(e)'
  <2>1. EntryInv(e)
    BY <1>2 DEF DocInv
  <2> QED BY <2>1 DEF EntryInv
<1>3. ASSUME NEW r \in Readers PROVE ReaderInv(r)'
  <2>1. ReaderInv(r)
    BY DEF DocInv
  <2> QED BY <2>1 DEF ReaderInv, Served
<1> QED BY <1>1, <1>2, <1>3 DEF DocInv

LEMMA RewriteStep ==
  ASSUME DocInv, NEW m \in DocMarks, NEW status \in {"QUOTED", "CREATED", "FAILED", "VOIDED"},
         Rewrite(m, status), UNCHANGED <<paper, docBatch, redis, memory, reader, second>>,
         closer' \in [Closers -> [at : {"idle", "submit", "forget"}, drafts : SUBSET DocMarks]]
  PROVE  DocInv'
<1>1. PICK x : x = [status |-> status, second |-> second, edits |-> docMarks[m].edits + 1]
  OBVIOUS
<1>2. docMarks' = [docMarks EXCEPT ![m] = x]
  BY <1>1 DEF Rewrite
<1>3. x \in [status : {"ABSENT", "QUOTED", "CREATED", "FAILED", "VOIDED"}, second : Nat, edits : Nat]
      /\ x.status = status
  BY <1>1 DEF DocInv, DocTypes
<1>4. /\ docMarks' \in [DocMarks -> [status : {"ABSENT", "QUOTED", "CREATED", "FAILED", "VOIDED"},
                                     second : Nat, edits : Nat]]
      /\ docMarks'[m] = x /\ \A n \in DocMarks \ {m} : docMarks'[n] = docMarks[n]
  BY <1>2, <1>3 DEF DocInv, DocTypes
<1>5. due' \subseteq due /\ (status # "CREATED" => m \notin due')
  BY DEF Rewrite
<1>6. docBatch = "CLOSED" => \A n \in due' : docMarks'[n].status = "CREATED"
  BY <1>3, <1>4, <1>5 DEF DocInv, DocTypes
<1> QED BY <1>4, <1>5, <1>6, RowsChange

LEMMA StaffSteps ==
  ASSUME DocInv, NEW m \in DocMarks, AddDraft(m) \/ EditDraft(m) \/ VoidRow(m)
  PROVE  DocInv'
<1>1. closer' \in [Closers -> [at : {"idle", "submit", "forget"}, drafts : SUBSET DocMarks]]
  BY DEF AddDraft, EditDraft, VoidRow, DocInv, DocTypes
<1> QED BY <1>1, RewriteStep DEF AddDraft, EditDraft, VoidRow

LEMMA ListDraftsStep ==
  ASSUME DocInv, NEW c \in Closers, ListDrafts(c)
  PROVE  DocInv'
<1>1. closer' \in [Closers -> [at : {"idle", "submit", "forget"}, drafts : SUBSET DocMarks]]
  BY DEF ListDrafts, DocInv, DocTypes
<1> QED BY <1>1, RowsChange DEF ListDrafts, DocInv, DocTypes

LEMMA SubmitDraftStep ==
  ASSUME DocInv, NEW c \in Closers, SubmitDraft(c)
  PROVE  DocInv'
<1>1. PICK m \in closer[c].drafts :
        /\ closer' = [closer EXCEPT ![c].drafts = @ \ {m}]
        /\ \/ \E status \in {"CREATED", "FAILED"} : Rewrite(m, status)
           \/ UNCHANGED <<docMarks, due>>
  BY DEF SubmitDraft
<1>2. UNCHANGED <<paper, docBatch, redis, memory, reader, second>>
  BY DEF SubmitDraft
<1>3. closer' \in [Closers -> [at : {"idle", "submit", "forget"}, drafts : SUBSET DocMarks]]
  BY <1>1 DEF DocInv, DocTypes
<1>4. m \in DocMarks
  BY <1>1 DEF DocInv, DocTypes
<1>5. CASE \E status \in {"CREATED", "FAILED"} : Rewrite(m, status)
  BY <1>2, <1>3, <1>4, <1>5, RewriteStep
<1>6. CASE UNCHANGED <<docMarks, due>>
  BY <1>2, <1>3, <1>6, RowsChange DEF DocInv, DocTypes
<1> QED BY <1>1, <1>5, <1>6

\* No manifest is there yet when the batch is closed.
LEMMA CloseRowStep ==
  ASSUME DocInv, NEW c \in Closers, CloseRow(c)
  PROVE  DocInv'
<1>1. /\ UNCHANGED <<paper, docMarks, redis, memory, reader, second>>
      /\ closer' \in [Closers -> [at : {"idle", "submit", "forget"}, drafts : SUBSET DocMarks]]
  BY DEF CloseRow, DocInv, DocTypes, NotClosing
<1>2. CASE docBatch = "OPEN"
  <2>1. docBatch' = "CLOSED" /\ due' = {m \in DocMarks : docMarks[m].status = "CREATED"}
    BY <1>2 DEF CloseRow
  <2>2. DocTypes'
    BY <1>1, <2>1 DEF DocInv, DocTypes
  <2>3. ASSUME NEW e \in redis \cup memory PROVE EntryInv(e)'
    <3>1. EntryInv(e)
      BY <2>3 DEF DocInv
    <3> QED BY <1>1, <1>2, <3>1 DEF EntryInv
  <2>4. ASSUME NEW r \in Readers PROVE ReaderInv(r)'
    <3>1. ReaderInv(r)
      BY DEF DocInv
    <3> QED BY <1>1, <1>2, <3>1 DEF ReaderInv, Served
  <2> QED BY <1>1, <2>1, <2>2, <2>3, <2>4 DEF DocInv
<1>3. CASE docBatch # "OPEN"
  BY <1>1, <1>3, RowsChange DEF CloseRow, DocInv, DocTypes
<1> QED BY <1>2, <1>3

LEMMA ForgetManifestStep ==
  ASSUME DocInv, NEW c \in Closers, ForgetManifest(c)
  PROVE  DocInv'
<1>1. closer' \in [Closers -> [at : {"idle", "submit", "forget"}, drafts : SUBSET DocMarks]]
  BY DEF ForgetManifest, DocInv, DocTypes, NotClosing
<1> QED BY <1>1, RowsChange DEF ForgetManifest, DocInv, DocTypes

-----------------------------------------------------------------------------
(* Requests for a paper. *)

ReaderType == [at : {"idle", "look", "batch", "list", "store", "served"},
               copy : Copies, rows : SUBSET Copies, age : Nat]

\* One request goes on; entries that are not old ones are sound.
LEMMA ReaderStep ==
  ASSUME DocInv, NEW r \in Readers, NEW x \in ReaderType, UNCHANGED rowVars,
         reader' = [reader EXCEPT ![r] = x],
         \A e \in redis' \cup memory' : e \in redis \cup memory \/ EntryInv(e),
         ReaderInv(r)'
  PROVE  DocInv'
<1>1. /\ UNCHANGED <<paper, docMarks, docBatch, due, closer, second>>
      /\ \A t \in Readers \ {r} : reader'[t] = reader[t]
  BY DEF rowVars, DocInv, DocTypes
<1>2. DocTypes'
  BY <1>1 DEF DocInv, DocTypes, ReaderType
<1>3. ASSUME NEW e \in redis' \cup memory' PROVE EntryInv(e)'
  <2>1. EntryInv(e)
    BY <1>3 DEF DocInv
  <2> QED BY <1>1, <2>1 DEF EntryInv
<1>4. ASSUME NEW t \in Readers \ {r} PROVE ReaderInv(t)'
  <2>1. ReaderInv(t) /\ reader'[t] = reader[t]
    BY <1>1 DEF DocInv
  <2> QED BY <1>1, <2>1 DEF ReaderInv, Served
<1> QED BY <1>1, <1>2, <1>3, <1>4 DEF DocInv

\* A request moves on before a paper has been made for it.
LEMMA MoveStep ==
  ASSUME DocInv, NEW r \in Readers, NEW at \in {"look", "batch", "list"}, Move(r, at),
         ~Served(r), UNCHANGED rowVars, redis' = redis, memory' = memory,
         paper = "manifest" /\ at = "list" => docBatch = "CLOSED"
  PROVE  DocInv'
<1>1. PICK x : x = [reader[r] EXCEPT !.at = at]
  OBVIOUS
<1>2. reader[r] \in ReaderType
  BY DEF DocInv, DocTypes, ReaderType
<1>3. x \in ReaderType /\ x.at = at /\ x.age = reader[r].age
  BY <1>1, <1>2 DEF ReaderType
<1>4. reader' = [reader EXCEPT ![r] = x]
  BY <1>1 DEF Move
<1>5. reader'[r] = x
  BY <1>4 DEF DocInv, DocTypes
<1>6. ReaderInv(r)
  BY DEF DocInv
<1>7. ReaderInv(r)'
  BY <1>3, <1>5, <1>6 DEF ReaderInv, Served, rowVars
<1> QED BY <1>3, <1>4, <1>7, ReaderStep

\* A request is over.
LEMMA WaitingStep ==
  ASSUME DocInv, NEW r \in Readers, reader' = [reader EXCEPT ![r] = Waiting],
         UNCHANGED rowVars, redis' = redis, memory' = memory
  PROVE  DocInv'
<1>1. Waiting \in ReaderType
  BY DEF Waiting, ReaderType, NoCopy, Copies
<1>2. reader'[r] = Waiting
  BY DEF DocInv, DocTypes
<1>3. ReaderInv(r)'
  BY <1>2 DEF ReaderInv, Served, Waiting
<1> QED BY <1>1, <1>3, ReaderStep

LEMMA AskStep ==
  ASSUME DocInv, NEW r \in Readers, Ask(r)
  PROVE  DocInv'
<1>1. UNCHANGED rowVars /\ redis' = redis /\ memory' = memory /\ reader[r].at = "idle"
  BY DEF Ask
<1>2. CASE /\ paper = "rotulus"
           /\ \E m \in DocMarks :
                Stored(m) /\ reader' = [reader EXCEPT ![r].at = "look", ![r].copy = RowCopy(m)]
  <2>1. PICK m \in DocMarks :
               reader' = [reader EXCEPT ![r].at = "look", ![r].copy = RowCopy(m)]
    BY <1>2
  <2>2. PICK x : x = [reader[r] EXCEPT !.at = "look", !.copy = RowCopy(m)]
    OBVIOUS
  <2>3. reader[r] \in ReaderType /\ RowCopy(m) \in Copies
    BY DEF DocInv, DocTypes, ReaderType, RowCopy, Copies
  <2>4. x \in ReaderType /\ x.at = "look" /\ x.age = reader[r].age
    BY <2>2, <2>3 DEF ReaderType
  <2>5. reader' = [reader EXCEPT ![r] = x]
    BY <2>1, <2>2
  <2>6. reader'[r] = x
    BY <2>5 DEF DocInv, DocTypes
  <2>7. ReaderInv(r)
    BY DEF DocInv
  <2>8. ReaderInv(r)'
    BY <1>1, <2>4, <2>6, <2>7 DEF ReaderInv, Served, rowVars
  <2> QED BY <1>1, <2>4, <2>5, <2>8, ReaderStep
<1>3. CASE paper \in {"manifest", "labels"} /\ Move(r, "look")
  BY <1>1, <1>3, MoveStep DEF Served
<1>4. CASE paper = "checklist" /\ Move(r, "batch")
  BY <1>1, <1>4, MoveStep DEF Served
<1>5. CASE paper = "rotuli" /\ Move(r, "list")
  BY <1>1, <1>5, MoveStep DEF Served
<1> QED BY <1>2, <1>3, <1>4, <1>5 DEF Ask

LEMMA CheckBatchStep ==
  ASSUME DocInv, NEW r \in Readers, CheckBatch(r)
  PROVE  DocInv'
<1>1. UNCHANGED rowVars /\ redis' = redis /\ memory' = memory /\ reader[r].at = "batch"
  BY DEF CheckBatch
<1>2. CASE docBatch = (IF paper = "manifest" THEN "CLOSED" ELSE "OPEN")
  BY <1>1, <1>2, MoveStep DEF CheckBatch, Served
<1>3. CASE docBatch # (IF paper = "manifest" THEN "CLOSED" ELSE "OPEN")
  BY <1>1, <1>3, WaitingStep DEF CheckBatch
<1> QED BY <1>2, <1>3

LEMMA LeaveStep ==
  ASSUME DocInv, NEW r \in Readers, Leave(r)
  PROVE  DocInv'
BY WaitingStep DEF Leave

\* A paper is handed out that is no older than CacheTtl and shows what it should.
LEMMA HandStep ==
  ASSUME DocInv, NEW r \in Readers, NEW e, EntryInv(e), Hand(r, e), e.key = Key(reader[r].copy),
         second <= e.expires, UNCHANGED rowVars,
         \A f \in redis' \cup memory' : f \in redis \cup memory \/ EntryInv(f)
  PROVE  DocInv'
<1>1. PICK x : x = [reader[r] EXCEPT !.at = "served", !.rows = e.rows, !.age = second - e.made]
  OBVIOUS
<1>2. reader[r] \in ReaderType /\ e.rows \in SUBSET Copies /\ e.made \in Nat /\ second \in Nat
  BY DEF DocInv, DocTypes, ReaderType, EntryInv, CacheEntry
<1>3. second - e.made \in Nat /\ second - e.made <= CacheTtl
  BY <1>2, DocumentAssumption DEF EntryInv
<1>4. /\ x \in ReaderType /\ x.at = "served" /\ x.rows = e.rows /\ x.age = second - e.made
      /\ x.copy = reader[r].copy
  BY <1>1, <1>2, <1>3 DEF ReaderType
<1>5. reader' = [reader EXCEPT ![r] = x]
  BY <1>1 DEF Hand
<1>6. reader'[r] = x
  BY <1>5 DEF DocInv, DocTypes
<1>7. paper' = paper /\ docBatch' = docBatch /\ due' = due /\ second' = second
  BY DEF rowVars
<1>8. paper = "rotulus" => \E c \in e.rows : /\ e.rows = {c} /\ c.mark = x.copy.mark
                                             /\ c.second = x.copy.second
  BY <1>4 DEF EntryInv, Key
<1>9. paper = "manifest" => docBatch = "CLOSED" /\ due \subseteq MadeOf(e.rows)
  BY DEF EntryInv
<1>10. ReaderInv(r)'
  BY <1>3, <1>4, <1>6, <1>7, <1>8, <1>9 DEF ReaderInv, Served, MadeOf
<1> QED BY <1>4, <1>5, <1>10, ReaderStep

LEMMA LookUpStep ==
  ASSUME DocInv, NEW r \in Readers, NEW reachable \in BOOLEAN, LookUp(r, reachable)
  PROVE  DocInv'
<1> DEFINE shared == IF reachable THEN Hits(redis, Key(reader[r].copy)) ELSE {}
           own == Hits(memory, Key(reader[r].copy))
<1>1. UNCHANGED rowVars /\ redis' = redis /\ memory' = memory /\ reader[r].at = "look"
  BY DEF LookUp
<1>2. CASE shared \cup own = {}
  <2>1. Move(r, IF paper = "manifest" THEN "batch" ELSE "list")
    BY <1>2 DEF LookUp
  <2> QED BY <1>1, <2>1, MoveStep DEF Served
<1>3. CASE shared \cup own # {}
  <2>1. PICK e \in (IF shared # {} THEN shared ELSE own) : Hand(r, e)
    BY <1>3 DEF LookUp
  <2>2. e \in redis \cup memory /\ e.key = Key(reader[r].copy) /\ second <= e.expires
    BY <2>1 DEF Hits
  <2>3. EntryInv(e)
    BY <2>2 DEF DocInv
  <2> QED BY <1>1, <2>1, <2>2, <2>3, HandStep
<1> QED BY <1>2, <1>3

LEMMA MakePaperStep ==
  ASSUME DocInv, NEW r \in Readers, MakePaper(r)
  PROVE  DocInv'
<1>1. UNCHANGED rowVars /\ redis' = redis /\ memory' = memory /\ reader[r].at = "list"
  BY DEF MakePaper
<1>2. PICK printed \in (IF paper = "rotulus" THEN {{}} ELSE Printable) :
        LET rows == IF paper = "rotulus" THEN {reader[r].copy} ELSE {RowCopy(m) : m \in printed}
        IN  IF rows = {} /\ paper \in {"labels", "rotuli"}
            THEN reader' = [reader EXCEPT ![r] = Waiting]
            ELSE reader' = [reader EXCEPT ![r].rows = rows,
                             ![r].at = IF paper \in {"checklist", "rotuli"} THEN "served" ELSE "store"]
  BY DEF MakePaper
<1>3. PICK rows : rows = IF paper = "rotulus" THEN {reader[r].copy} ELSE {RowCopy(m) : m \in printed}
  OBVIOUS
<1>4. \/ reader' = [reader EXCEPT ![r] = Waiting]
      \/ reader' = [reader EXCEPT ![r].rows = rows,
                     ![r].at = IF paper \in {"checklist", "rotuli"} THEN "served" ELSE "store"]
  BY <1>2, <1>3
<1>5. CASE reader' = [reader EXCEPT ![r] = Waiting]
  BY <1>1, <1>5, WaitingStep
<1>6. CASE reader' = [reader EXCEPT ![r].rows = rows,
                       ![r].at = IF paper \in {"checklist", "rotuli"} THEN "served" ELSE "store"]
  <2>1. PICK at : at = IF paper \in {"checklist", "rotuli"} THEN "served" ELSE "store"
    OBVIOUS
  <2>2. PICK x : x = [reader[r] EXCEPT !.rows = rows, !.at = at]
    OBVIOUS
  <2>3. reader[r] \in ReaderType
    BY DEF DocInv, DocTypes, ReaderType
  <2>4. paper # "rotulus" => printed \subseteq DocMarks
    BY <1>2 DEF Printable
  <2>5. \A m \in DocMarks : RowCopy(m) \in Copies /\ RowCopy(m).mark = m
    BY DEF DocInv, DocTypes, RowCopy, Copies
  <2>6. rows \in SUBSET Copies
    BY <1>3, <2>3, <2>4, <2>5 DEF ReaderType
  <2>7. /\ x \in ReaderType /\ x.at = at /\ x.rows = rows /\ x.copy = reader[r].copy
        /\ x.age = reader[r].age
    BY <2>1, <2>2, <2>3, <2>6 DEF ReaderType
  <2>8. reader' = [reader EXCEPT ![r] = x]
    BY <1>6, <2>1, <2>2
  <2>9. reader'[r] = x
    BY <2>8 DEF DocInv, DocTypes
  <2>10. ReaderInv(r)
    BY DEF DocInv
  <2>11. x.age = 0 /\ (paper = "manifest" => docBatch = "CLOSED")
    BY <1>1, <2>7, <2>10 DEF ReaderInv, Served
  <2>12. paper = "manifest" => due \subseteq MadeOf(rows)
    <3>1. SUFFICES ASSUME paper = "manifest", NEW m \in due PROVE m \in MadeOf(rows)
      OBVIOUS
    <3>2. m \in DocMarks /\ docMarks[m].status = "CREATED"
      BY <2>11, <3>1 DEF DocInv, DocTypes
    <3>3. m \in printed
      BY <1>2, <3>1, <3>2 DEF Printable, Stored
    <3>4. RowCopy(m) \in rows
      BY <1>3, <3>1, <3>3
    <3> QED BY <2>5, <3>2, <3>4 DEF MadeOf
  <2>13. paper = "rotulus" => rows = {x.copy}
    BY <1>3, <2>7
  <2>14. paper' = paper /\ docBatch' = docBatch /\ due' = due /\ second' = second
    BY <1>1 DEF rowVars
  <2>15. CacheTtl \in Nat
    BY DocumentAssumption
  <2>16. ReaderInv(r)'
    BY <2>7, <2>9, <2>11, <2>12, <2>13, <2>14, <2>15 DEF ReaderInv, Served, MadeOf
  <2> QED BY <1>1, <2>7, <2>8, <2>16, ReaderStep
<1> QED BY <1>4, <1>5, <1>6

LEMMA StoreStep ==
  ASSUME DocInv, NEW r \in Readers, NEW reachable \in BOOLEAN, Store(r, reachable)
  PROVE  DocInv'
<1>1. PICK e : e = Entry(Key(reader[r].copy), reader[r].rows)
  OBVIOUS
<1>2. /\ reader[r].at = "store" /\ memory' = Keep(memory, e)
      /\ redis' = IF reachable THEN Keep(redis, e) ELSE redis
      /\ Hand(r, e) /\ UNCHANGED rowVars
  BY <1>1 DEF Store
<1>3. /\ e.key = Key(reader[r].copy) /\ e.rows = reader[r].rows /\ e.made = second
      /\ e.expires = second + CacheTtl
  BY <1>1 DEF Entry
<1>4. reader[r] \in ReaderType /\ second \in Nat /\ CacheTtl \in Nat
  BY DocumentAssumption DEF DocInv, DocTypes, ReaderType
<1>5. Key(reader[r].copy) \in {<<>>} \cup ((DocMarks \cup {0}) \X Nat)
  BY <1>4 DEF Key, ReaderType, Copies
<1>6. e \in CacheEntry
  BY <1>1, <1>4, <1>5 DEF Entry, CacheEntry, ReaderType
<1>7. ReaderInv(r)
  BY DEF DocInv
<1>8. paper = "rotulus" => \E c \in e.rows : e.key = <<c.mark, c.second>> /\ e.rows = {c}
  BY <1>2, <1>3, <1>7 DEF ReaderInv, Key
<1>9. paper = "manifest" => docBatch = "CLOSED" /\ due \subseteq MadeOf(e.rows)
  BY <1>2, <1>3, <1>7 DEF ReaderInv
<1>10. EntryInv(e)
  BY <1>3, <1>4, <1>6, <1>8, <1>9 DEF EntryInv
<1>11. \A f \in redis' \cup memory' : f \in redis \cup memory \/ EntryInv(f)
  BY <1>2, <1>10 DEF Keep
<1>12. second <= e.expires
  BY <1>3, <1>4
<1> QED BY <1>2, <1>3, <1>10, <1>11, <1>12, HandStep

-----------------------------------------------------------------------------
(* The clock and the process. *)

LEMMA DocTickStep ==
  ASSUME DocInv, DocTick
  PROVE  DocInv'
<1>1. /\ second \in Nat /\ second' = second + 1 /\ redis' \subseteq redis /\ memory' \subseteq memory
      /\ UNCHANGED <<paper, docMarks, docBatch, due, reader, closer>>
  BY DEF DocTick, DocInv, DocTypes
<1>2. DocTypes'
  BY <1>1 DEF DocInv, DocTypes
<1>3. ASSUME NEW e \in redis' \cup memory' PROVE EntryInv(e)'
  <2>1. EntryInv(e) /\ e.made \in Nat
    BY <1>1, <1>3 DEF DocInv, EntryInv, CacheEntry
  <2> QED BY <1>1, <2>1 DEF EntryInv
<1>4. ASSUME NEW r \in Readers PROVE ReaderInv(r)'
  <2>1. ReaderInv(r)
    BY DEF DocInv
  <2> QED BY <1>1, <2>1 DEF ReaderInv, Served
<1> QED BY <1>1, <1>2, <1>3, <1>4 DEF DocInv

LEMMA DocRestartStep ==
  ASSUME DocInv, DocRestart
  PROVE  DocInv'
<1>1. /\ UNCHANGED <<paper, docMarks, docBatch, due, redis, second>> /\ memory' = {}
      /\ reader' = [r \in Readers |-> Waiting] /\ closer' = [c \in Closers |-> NotClosing]
  BY DEF DocRestart
<1>2. DocTypes'
  BY <1>1 DEF DocInv, DocTypes, Waiting, NoCopy, Copies, NotClosing
<1>3. ASSUME NEW e \in redis' \cup memory' PROVE EntryInv(e)'
  <2>1. EntryInv(e)
    BY <1>1, <1>3 DEF DocInv
  <2> QED BY <1>1, <2>1 DEF EntryInv
<1>4. ASSUME NEW r \in Readers PROVE ReaderInv(r)'
  <2>1. reader'[r] = Waiting
    BY <1>1
  <2> QED BY <2>1 DEF ReaderInv, Served, Waiting
<1> QED BY <1>1, <1>2, <1>3, <1>4 DEF DocInv

LEMMA DocStep ==
  ASSUME DocInv, [DocNext]_docVars
  PROVE  DocInv'
<1>1. CASE \E m \in DocMarks : AddDraft(m) \/ EditDraft(m) \/ VoidRow(m)
  BY <1>1, StaffSteps
<1>2. CASE \E c \in Closers : ListDrafts(c) \/ SubmitDraft(c) \/ CloseRow(c) \/ ForgetManifest(c)
  BY <1>2, ListDraftsStep, SubmitDraftStep, CloseRowStep, ForgetManifestStep
<1>3. CASE \E r \in Readers : Ask(r) \/ CheckBatch(r) \/ MakePaper(r) \/ Leave(r)
  BY <1>3, AskStep, CheckBatchStep, MakePaperStep, LeaveStep
<1>4. CASE \E r \in Readers, reachable \in BOOLEAN : LookUp(r, reachable) \/ Store(r, reachable)
  BY <1>4, LookUpStep, StoreStep
<1>5. CASE DocTick
  BY <1>5, DocTickStep
<1>6. CASE DocRestart
  BY <1>6, DocRestartStep
<1>7. CASE UNCHANGED docVars
  <2>1. DocTypes'
    BY <1>7 DEF DocInv, DocTypes, docVars
  <2>2. UNCHANGED <<paper, docMarks, docBatch, due, redis, memory, reader, closer, second>>
    BY <1>7 DEF docVars
  <2> QED BY <2>1, <2>2, RowsChange DEF DocInv, DocTypes
<1> QED BY <1>1, <1>2, <1>3, <1>4, <1>5, <1>6, <1>7 DEF DocNext

-----------------------------------------------------------------------------

\* Whatever the requests and the caches do, a paper that lies in a cache or is on
\* its way there shows what one that is handed out must show.
THEOREM DocumentsInvariant == DocSpec => []DocInv
<1>1. DocInit => DocInv
  BY DocStart
<1>2. DocInv /\ [DocNext]_docVars => DocInv'
  BY DocStep
<1> QED BY <1>1, <1>2, PTL DEF DocSpec

\* The manifest that is handed out has every mark the courier has had since the
\* batch was closed, a rotulus its mark as the request read it, and no paper is
\* older than CacheTtl: through both caches, however requests that close, draft,
\* void and print overlap, and although Redis fails and the process dies.
THEOREM DocumentsAreSafe == DocSpec => []DocumentSafety
<1>1. DocInv => DocumentSafety
  BY DocSafe
<1> QED BY <1>1, DocumentsInvariant, PTL

-----------------------------------------------------------------------------
(* Quotations and what is collected at the door (ShippingQuotes). *)

LEMMA QuoteStart ==
  ASSUME QuoteInit
  PROVE  QuoteInv
<1>1. QuoteTypes
  BY ShippingQuotesAssumption DEF QuoteInit, QuoteTypes, QuoteRow, Free, Quiet, NoMark, CodMark
<1>2. ASSUME NEW p \in Parcels
      PROVE  Cardinality(Twins(p)) + Cardinality(Inserting(p)) <= Cardinality(QuoteTasks)
  <2>1. Twins(p) = {} /\ Inserting(p) = {}
    BY DEF QuoteInit, Twins, Live, Inserting, Quiet
  <2>2. Cardinality(QuoteTasks) \in Nat
    BY ShippingQuotesAssumption, FS_CardinalityType
  <2> QED BY <2>1, <2>2, FS_EmptySet
<1>3. \A o \in CodOrders : codMarks[o].status = "NONE"
  BY DEF QuoteInit, NoMark
<1>4. CollectsTheDebt
  BY <1>3 DEF CollectsTheDebt
<1> QED BY <1>1, <1>2, <1>3, <1>4 DEF QuoteInv

LEMMA QuoteSafe ==
  ASSUME QuoteInv
  PROVE  QuoteSafety
<1>1. ASSUME NEW p \in Parcels PROVE Cardinality(Twins(p)) <= Cardinality(QuoteTasks)
  <2>1. Cardinality(Twins(p)) + Cardinality(Inserting(p)) <= Cardinality(QuoteTasks)
    BY DEF QuoteInv
  <2>2. IsFiniteSet(Twins(p)) /\ IsFiniteSet(Inserting(p))
    BY ShippingQuotesAssumption, FS_Subset DEF Twins, Inserting
  <2>3. /\ Cardinality(Twins(p)) \in Nat /\ Cardinality(Inserting(p)) \in Nat
        /\ Cardinality(QuoteTasks) \in Nat
    BY <2>2, ShippingQuotesAssumption, FS_CardinalityType
  <2> QED BY <2>1, <2>3
<1> QED BY <1>1 DEF QuoteSafety, FewTwins, QuoteInv

\* The rows and the requests as they are now and as they are after a step.
CountsHold == \A p \in Parcels : Cardinality(Twins(p)) + Cardinality(Inserting(p)) <= Cardinality(QuoteTasks)

\* A step that adds neither a row nor a request that will insert one.
LEMMA FewerTwins ==
  ASSUME CountsHold, \A p \in Parcels : Twins(p)' \subseteq Twins(p) /\ Inserting(p)' \subseteq Inserting(p)
  PROVE  CountsHold'
<1>1. SUFFICES ASSUME NEW p \in Parcels
               PROVE  Cardinality(Twins(p)') + Cardinality(Inserting(p)') <= Cardinality(QuoteTasks)
  BY DEF CountsHold
<1>2. Cardinality(Twins(p)) + Cardinality(Inserting(p)) <= Cardinality(QuoteTasks)
  BY DEF CountsHold
<1>3. IsFiniteSet(Twins(p)) /\ IsFiniteSet(Inserting(p))
  BY ShippingQuotesAssumption, FS_Subset DEF Twins, Inserting
<1>4. /\ Cardinality(Twins(p)) \in Nat /\ Cardinality(Inserting(p)) \in Nat
      /\ Cardinality(QuoteTasks) \in Nat
  BY <1>3, ShippingQuotesAssumption, FS_CardinalityType
<1>5. IsFiniteSet(Twins(p)') /\ Cardinality(Twins(p)') <= Cardinality(Twins(p))
  BY <1>3, FS_Subset
<1>6. IsFiniteSet(Inserting(p)') /\ Cardinality(Inserting(p)') <= Cardinality(Inserting(p))
  BY <1>3, FS_Subset
<1>7. Cardinality(Twins(p)') \in Nat /\ Cardinality(Inserting(p)') \in Nat
  BY <1>5, <1>6, FS_CardinalityType
<1> QED BY <1>2, <1>4, <1>5, <1>6, <1>7

\* The rows that are left are the live ones.
LEMMA ExpiredGo ==
  ASSUME quotes' = WithoutExpired, instant' = instant, NEW p \in Parcels
  PROVE  Twins(p)' = Twins(p)
<1>1. \A q \in QuoteRows : quotes'[q] = IF Live(quotes[q]) THEN quotes[q] ELSE Free
  BY DEF WithoutExpired
<1>2. \A q \in QuoteRows : Live(quotes[q])' <=> Live(quotes[q])
  BY <1>1 DEF Live
<1> QED BY <1>1, <1>2 DEF Twins, Live

LEMMA QuoteStep ==
  ASSUME QuoteInv, NEW t \in QuoteTasks, NEW p \in Parcels, NEW a \in Debts, NEW f \in FreightCosts,
         Quote(t, p, a, f)
  PROVE  QuoteTypes' /\ CountsHold' /\ UNCHANGED codMarks
<1>1. PICK x : x = [phase |-> "answered", twin |-> {},
                    row |-> [parcel |-> p, freight |-> f, fee |-> Charged(a) - a,
                             expires |-> instant + QuoteTtl]]
  OBVIOUS
<1>2. /\ quoteTasks' = [quoteTasks EXCEPT ![t] = x]
      /\ UNCHANGED <<instant, paymentForm, debt, quotes, codMarks>>
  BY <1>1 DEF Quote
<1>3. Charged(a) - a \in Int /\ f \in Nat /\ instant + QuoteTtl \in Nat
  <2>1. a \in Int /\ Surcharge \in Int /\ f \in Nat /\ QuoteTtl \in Nat /\ instant \in Nat
    BY ShippingQuotesAssumption DEF QuoteInv, QuoteTypes
  <2>2. a * Surcharge \in Int
    BY <2>1
  <2>3. (a * Surcharge) \div 100 \in Int
    BY <2>2
  <2> QED BY <2>1, <2>3 DEF Charged
<1>4. x \in [phase : {"idle", "answered", "looked"}, row : QuoteRow, twin : SUBSET QuoteRows]
  BY <1>1, <1>3 DEF QuoteRow
<1>5. QuoteTypes'
  BY <1>2, <1>4 DEF QuoteInv, QuoteTypes
<1>6. quoteTasks'[t] = x /\ \A u \in QuoteTasks \ {t} : quoteTasks'[u] = quoteTasks[u]
  BY <1>2 DEF QuoteInv, QuoteTypes
<1>7. \A c \in Parcels : Twins(c)' \subseteq Twins(c) /\ Inserting(c)' \subseteq Inserting(c)
  BY <1>1, <1>2, <1>6 DEF Twins, Live, Inserting
<1> QED BY <1>2, <1>5, <1>7, FewerTwins DEF QuoteInv, CountsHold

LEMMA BeginStoreStep ==
  ASSUME QuoteInv, NEW t \in QuoteTasks, BeginStore(t)
  PROVE  QuoteTypes' /\ CountsHold' /\ UNCHANGED codMarks
<1>1. PICK x : x = [quoteTasks[t] EXCEPT !.phase = "looked", !.twin = Twins(quoteTasks[t].row.parcel)]
  OBVIOUS
<1>2. /\ quoteTasks' = [quoteTasks EXCEPT ![t] = x] /\ quotes' = WithoutExpired
      /\ UNCHANGED <<instant, paymentForm, debt, codMarks>>
  BY <1>1 DEF BeginStore
<1>3. quoteTasks[t] \in [phase : {"idle", "answered", "looked"}, row : QuoteRow, twin : SUBSET QuoteRows]
  BY DEF QuoteInv, QuoteTypes
<1>4. Twins(quoteTasks[t].row.parcel) \subseteq QuoteRows
  BY DEF Twins
<1>5. /\ x \in [phase : {"idle", "answered", "looked"}, row : QuoteRow, twin : SUBSET QuoteRows]
      /\ x.row = quoteTasks[t].row /\ x.twin = Twins(x.row.parcel)
  BY <1>1, <1>3, <1>4
<1>6. Free \in QuoteRow
  BY DEF Free, QuoteRow
<1>7. quotes' \in [QuoteRows -> QuoteRow]
  BY <1>2, <1>6 DEF WithoutExpired, QuoteInv, QuoteTypes
<1>8. QuoteTypes'
  BY <1>2, <1>5, <1>7 DEF QuoteInv, QuoteTypes
<1>9. quoteTasks'[t] = x /\ \A u \in QuoteTasks \ {t} : quoteTasks'[u] = quoteTasks[u]
  BY <1>2 DEF QuoteInv, QuoteTypes
<1>10. ASSUME NEW p \in Parcels
       PROVE  Cardinality(Twins(p)') + Cardinality(Inserting(p)') <= Cardinality(QuoteTasks)
  <2>1. Twins(p)' = Twins(p)
    BY <1>2, ExpiredGo
  <2>2. Cardinality(Twins(p)) + Cardinality(Inserting(p)) <= Cardinality(QuoteTasks)
    BY DEF QuoteInv
  <2>3. CASE Twins(p) = {}
    <3>1. Inserting(p)' \subseteq QuoteTasks
      BY DEF Inserting
    <3>2. IsFiniteSet(Inserting(p)') /\ Cardinality(Inserting(p)') <= Cardinality(QuoteTasks)
      BY <3>1, ShippingQuotesAssumption, FS_Subset
    <3>3. Cardinality(Inserting(p)') \in Nat
      BY <3>2, FS_CardinalityType
    <3>4. Cardinality(Twins(p)') = 0
      BY <2>1, <2>3, FS_EmptySet
    <3> QED BY <3>2, <3>3, <3>4
  <2>4. CASE Twins(p) # {}
    <3>1. t \notin Inserting(p)'
      BY <1>5, <1>9, <2>4 DEF Inserting
    <3>2. Inserting(p)' \subseteq Inserting(p)
      BY <1>9, <3>1 DEF Inserting
    <3>3. IsFiniteSet(Inserting(p)) /\ IsFiniteSet(Twins(p))
      BY ShippingQuotesAssumption, FS_Subset DEF Inserting, Twins
    <3>4. IsFiniteSet(Inserting(p)') /\ Cardinality(Inserting(p)') <= Cardinality(Inserting(p))
      BY <3>2, <3>3, FS_Subset
    <3>5. /\ Cardinality(Inserting(p)') \in Nat /\ Cardinality(Inserting(p)) \in Nat
          /\ Cardinality(Twins(p)) \in Nat /\ Cardinality(QuoteTasks) \in Nat
      BY <3>3, <3>4, ShippingQuotesAssumption, FS_CardinalityType
    <3> QED BY <2>1, <2>2, <3>4, <3>5
  <2> QED BY <2>3, <2>4
<1> QED BY <1>2, <1>8, <1>10 DEF CountsHold

LEMMA StoreQuoteStep ==
  ASSUME QuoteInv, NEW t \in QuoteTasks, StoreQuote(t)
  PROVE  QuoteTypes' /\ CountsHold' /\ UNCHANGED codMarks
<1>1. /\ quoteTasks[t].phase = "looked" /\ quoteTasks' = [quoteTasks EXCEPT ![t] = Quiet]
      /\ UNCHANGED <<instant, paymentForm, debt, codMarks>>
  BY DEF StoreQuote
<1>2. Quiet \in [phase : {"idle", "answered", "looked"}, row : QuoteRow, twin : SUBSET QuoteRows]
  BY DEF Quiet, Free, QuoteRow
<1>3. /\ quoteTasks' \in [QuoteTasks -> [phase : {"idle", "answered", "looked"}, row : QuoteRow,
                                         twin : SUBSET QuoteRows]]
      /\ quoteTasks'[t] = Quiet /\ \A u \in QuoteTasks \ {t} : quoteTasks'[u] = quoteTasks[u]
  BY <1>1, <1>2 DEF QuoteInv, QuoteTypes
<1>4. \A p \in Parcels : Inserting(p)' \subseteq Inserting(p) /\ t \notin Inserting(p)'
  BY <1>3 DEF Inserting, Quiet
<1>5. CASE quoteTasks[t].twin # {}
  <2>1. quotes' = quotes
    BY <1>5 DEF StoreQuote
  <2>2. \A p \in Parcels : Twins(p)' \subseteq Twins(p)
    BY <1>1, <2>1 DEF Twins, Live
  <2>3. QuoteTypes'
    BY <1>1, <1>3, <2>1 DEF QuoteInv, QuoteTypes
  <2> QED BY <1>1, <1>4, <2>2, <2>3, FewerTwins DEF QuoteInv, CountsHold
<1>6. CASE quoteTasks[t].twin = {}
  <2>1. PICK q \in QuoteRows : quotes' = [quotes EXCEPT ![q] = quoteTasks[t].row]
    BY <1>6 DEF StoreQuote
  <2>2. /\ quotes' \in [QuoteRows -> QuoteRow] /\ quotes'[q] = quoteTasks[t].row
        /\ \A s \in QuoteRows \ {q} : quotes'[s] = quotes[s]
    BY <2>1 DEF QuoteInv, QuoteTypes
  <2>3. QuoteTypes'
    BY <1>1, <1>3, <2>2 DEF QuoteInv, QuoteTypes
  <2>4. ASSUME NEW p \in Parcels
        PROVE  Cardinality(Twins(p)') + Cardinality(Inserting(p)') <= Cardinality(QuoteTasks)
    <3>1. Cardinality(Twins(p)) + Cardinality(Inserting(p)) <= Cardinality(QuoteTasks)
      BY DEF QuoteInv
    <3>2. IsFiniteSet(Inserting(p)) /\ IsFiniteSet(Twins(p))
      BY ShippingQuotesAssumption, FS_Subset DEF Inserting, Twins
    <3>3. /\ Cardinality(Inserting(p)) \in Nat /\ Cardinality(Twins(p)) \in Nat
          /\ Cardinality(QuoteTasks) \in Nat
      BY <3>2, ShippingQuotesAssumption, FS_CardinalityType
    <3>4. CASE quoteTasks[t].row.parcel = p
      <4>1. t \in Inserting(p)
        BY <1>1, <1>6, <3>4 DEF Inserting
      <4>2. Inserting(p)' = Inserting(p) \ {t}
        BY <1>3, <1>4 DEF Inserting
      <4>3. Cardinality(Inserting(p)') = Cardinality(Inserting(p)) - 1
        BY <3>2, <4>1, <4>2, FS_RemoveElement
      <4>4. Twins(p)' \subseteq Twins(p) \cup {q}
        BY <1>1, <2>2 DEF Twins, Live
      <4>5. /\ IsFiniteSet(Twins(p) \cup {q})
            /\ Cardinality(Twins(p) \cup {q}) <= Cardinality(Twins(p)) + 1
            /\ Cardinality(Twins(p) \cup {q}) \in Nat
        <5>1. /\ IsFiniteSet(Twins(p) \cup {q})
              /\ Cardinality(Twins(p) \cup {q})
                   = IF q \in Twins(p) THEN Cardinality(Twins(p)) ELSE Cardinality(Twins(p)) + 1
          BY <3>2, FS_AddElement
        <5> QED BY <3>3, <5>1
      <4>6. IsFiniteSet(Twins(p)') /\ Cardinality(Twins(p)') <= Cardinality(Twins(p) \cup {q})
        BY <4>4, <4>5, FS_Subset
      <4>7. Cardinality(Twins(p)') \in Nat
        BY <4>6, FS_CardinalityType
      <4> QED BY <3>1, <3>3, <4>3, <4>5, <4>6, <4>7
    <3>5. CASE quoteTasks[t].row.parcel # p
      <4>1. Twins(p)' \subseteq Twins(p)
        BY <1>1, <2>2, <3>5 DEF Twins, Live
      <4>2. IsFiniteSet(Twins(p)') /\ Cardinality(Twins(p)') <= Cardinality(Twins(p))
        BY <3>2, <4>1, FS_Subset
      <4>3. IsFiniteSet(Inserting(p)') /\ Cardinality(Inserting(p)') <= Cardinality(Inserting(p))
        BY <1>4, <3>2, FS_Subset
      <4>4. Cardinality(Twins(p)') \in Nat /\ Cardinality(Inserting(p)') \in Nat
        BY <4>2, <4>3, FS_CardinalityType
      <4> QED BY <3>1, <3>3, <4>2, <4>3, <4>4
    <3> QED BY <3>4, <3>5
  <2> QED BY <1>1, <2>3, <2>4 DEF CountsHold
<1> QED BY <1>5, <1>6

\* Neither the clock nor the purge makes a row.
LEMMA ExpiryStep ==
  ASSUME QuoteInv, PurgeExpired \/ QuoteTick
  PROVE  QuoteTypes' /\ CountsHold' /\ UNCHANGED codMarks
<1>1. CASE PurgeExpired
  <2>1. /\ quotes' = WithoutExpired
        /\ UNCHANGED <<instant, paymentForm, debt, quoteTasks, codMarks>>
    BY <1>1 DEF PurgeExpired
  <2>2. Free \in QuoteRow
    BY DEF Free, QuoteRow
  <2>3. quotes' \in [QuoteRows -> QuoteRow]
    BY <2>1, <2>2 DEF WithoutExpired, QuoteInv, QuoteTypes
  <2>4. QuoteTypes'
    BY <2>1, <2>3 DEF QuoteInv, QuoteTypes
  <2>5. \A p \in Parcels : Twins(p)' \subseteq Twins(p) /\ Inserting(p)' \subseteq Inserting(p)
    BY <2>1, ExpiredGo DEF Inserting
  <2> QED BY <2>1, <2>4, <2>5, FewerTwins DEF QuoteInv, CountsHold
<1>2. CASE QuoteTick
  <2>1. instant' = instant + 1 /\ UNCHANGED <<paymentForm, debt, quotes, quoteTasks, codMarks>>
    BY <1>2 DEF QuoteTick
  <2>2. QuoteTypes'
    BY <2>1 DEF QuoteInv, QuoteTypes
  <2>3. \A q \in QuoteRows : quotes[q].expires \in Nat /\ instant \in Nat
    BY DEF QuoteInv, QuoteTypes, QuoteRow
  <2>4. \A p \in Parcels : Twins(p)' \subseteq Twins(p) /\ Inserting(p)' \subseteq Inserting(p)
    BY <2>1, <2>3 DEF Twins, Live, Inserting
  <2> QED BY <2>1, <2>2, <2>4, FewerTwins DEF QuoteInv, CountsHold
<1> QED BY <1>1, <1>2

\* One order's mark changes.
LEMMA CodMarkStep ==
  ASSUME QuoteInv, NEW o \in CodOrders, NEW x \in CodMark, codMarks' = [codMarks EXCEPT ![o] = x],
         UNCHANGED <<instant, paymentForm, debt, quotes, quoteTasks>>,
         x.status = "QUOTED" => x.charged = x.cod,
         x.status = "CREATED" =>
           IF x.cod > 0
           THEN x.form = "2" /\ \E a \in x.collect : a > 0 /\ a + x.freight = x.cod
           ELSE x.form = "1" /\ x.collect = {}
  PROVE  QuoteInv'
<1>1. QuoteTypes'
  BY DEF QuoteInv, QuoteTypes
<1>2. CountsHold'
  <2>1. \A p \in Parcels : Twins(p)' \subseteq Twins(p) /\ Inserting(p)' \subseteq Inserting(p)
    BY DEF Twins, Live, Inserting
  <2> QED BY <2>1, FewerTwins DEF QuoteInv, CountsHold
<1>3. codMarks'[o] = x /\ \A c \in CodOrders \ {o} : codMarks'[c] = codMarks[c]
  BY DEF QuoteInv, QuoteTypes
<1>4. \A c \in CodOrders : codMarks'[c].status = "QUOTED" => codMarks'[c].charged = codMarks'[c].cod
  BY <1>3 DEF QuoteInv
<1>5. CollectsTheDebt'
  BY <1>3 DEF QuoteInv, CollectsTheDebt
<1> QED BY <1>1, <1>2, <1>4, <1>5 DEF QuoteInv, CountsHold

LEMMA DraftCodMarkStep ==
  ASSUME QuoteInv, NEW o \in CodOrders, NEW f \in FreightCosts, NEW a \in Debts, NEW r \in BOOLEAN,
         DraftCodMark(o, f, a, r)
  PROVE  QuoteInv'
<1>1. PICK cod : cod = IF a > 0 THEN a ELSE IF r THEN debt[o] ELSE 0
  OBVIOUS
<1>2. PICK x : x = [NoMark EXCEPT !.status = "QUOTED", !.freight = f, !.cod = cod, !.charged = cod]
  OBVIOUS
<1>3. codMarks' = [codMarks EXCEPT ![o] = x] /\ UNCHANGED <<instant, paymentForm, debt, quotes, quoteTasks>>
  BY <1>1, <1>2 DEF DraftCodMark
<1>4. f \in Nat /\ cod \in Nat
  BY <1>1, ShippingQuotesAssumption DEF QuoteInv, QuoteTypes
<1>5. x \in CodMark /\ x.status = "QUOTED" /\ x.charged = x.cod
  BY <1>2, <1>4 DEF NoMark, CodMark
<1> QED BY <1>3, <1>5, CodMarkStep

LEMMA GenerateCodMarkStep ==
  ASSUME QuoteInv, NEW o \in CodOrders, NEW accepted \in BOOLEAN, GenerateCodMark(o, accepted)
  PROVE  QuoteInv'
<1>1. PICK y : y = codMarks[o]
  OBVIOUS
<1>2. PICK q : q = Dispatch(y)
  OBVIOUS
<1>3. PICK s : s = IF Guardrail(y, q) /\ accepted THEN "CREATED" ELSE "FAILED"
  OBVIOUS
<1>4. PICK x : x = [y EXCEPT !.status = s, !.form = q.form, !.collect = q.collect]
  OBVIOUS
<1>5. /\ y.status = "QUOTED" /\ codMarks' = [codMarks EXCEPT ![o] = x]
      /\ UNCHANGED <<instant, paymentForm, debt, quotes, quoteTasks>>
  BY <1>1, <1>2, <1>3, <1>4 DEF GenerateCodMark
<1>6. y \in CodMark /\ y.charged = y.cod
  BY <1>1, <1>5 DEF QuoteInv, QuoteTypes
<1>7. y.cod \in Nat /\ y.freight \in Nat
  BY <1>6 DEF CodMark
<1>8. CASE y.cod > 0
  <2>1. PICK rest : rest = IF y.cod > y.freight THEN y.cod - y.freight ELSE 0
    OBVIOUS
  <2>2. q = [form |-> "2", collect |-> {rest}]
    BY <1>2, <1>6, <1>8, <2>1 DEF Dispatch
  <2>3. rest \in Nat /\ (rest > 0 => rest + y.freight = y.cod)
    BY <1>7, <2>1
  <2>4. x \in CodMark /\ x.status = s /\ x.form = "2" /\ x.collect = {rest} /\ x.cod = y.cod
        /\ x.freight = y.freight
    BY <1>3, <1>4, <1>6, <2>2, <2>3 DEF CodMark
  <2>5. s = "CREATED" => rest > 0
    BY <1>3, <1>8, <2>2 DEF Guardrail
  <2>6. s # "QUOTED"
    BY <1>3
  <2> QED BY <1>5, <1>8, <2>3, <2>4, <2>5, <2>6, CodMarkStep
<1>9. CASE ~(y.cod > 0)
  <2>1. q = [form |-> paymentForm, collect |-> {}]
    BY <1>2, <1>6, <1>9 DEF Dispatch
  <2>2. x \in CodMark /\ x.status = s /\ x.form = paymentForm /\ x.collect = {} /\ x.cod = y.cod
    BY <1>3, <1>4, <1>6, <2>1 DEF CodMark, QuoteInv, QuoteTypes
  <2>3. s = "CREATED" => paymentForm = "1"
    BY <1>3, <1>6, <1>9, <2>1 DEF Guardrail
  <2>4. s # "QUOTED"
    BY <1>3
  <2> QED BY <1>5, <1>9, <2>2, <2>3, <2>4, CodMarkStep
<1> QED BY <1>8, <1>9

LEMMA ChangeOrderStep ==
  ASSUME QuoteInv, NEW o \in CodOrders, NEW a \in Debts, ChangeOrder(o, a)
  PROVE  QuoteInv'
<1>1. debt' = [debt EXCEPT ![o] = a] /\ UNCHANGED <<instant, paymentForm, quotes, quoteTasks, codMarks>>
  BY DEF ChangeOrder
<1>2. QuoteTypes'
  BY <1>1 DEF QuoteInv, QuoteTypes
<1>3. CountsHold'
  <2>1. \A p \in Parcels : Twins(p)' \subseteq Twins(p) /\ Inserting(p)' \subseteq Inserting(p)
    BY <1>1 DEF Twins, Live, Inserting
  <2> QED BY <2>1, FewerTwins DEF QuoteInv, CountsHold
<1>4. CollectsTheDebt'
  BY <1>1 DEF QuoteInv, CollectsTheDebt
<1> QED BY <1>1, <1>2, <1>3, <1>4 DEF QuoteInv, CountsHold

LEMMA QuotesStep ==
  ASSUME QuoteInv, [QuoteNext \/ CodNext]_quoteVars
  PROVE  QuoteInv'
<1>1. ASSUME QuoteTypes' /\ CountsHold' /\ UNCHANGED codMarks PROVE QuoteInv'
  <2>1. CollectsTheDebt'
    BY <1>1 DEF QuoteInv, CollectsTheDebt
  <2> QED BY <1>1, <2>1 DEF QuoteInv, CountsHold
<1>2. CASE \E t \in QuoteTasks, p \in Parcels, a \in Debts, f \in FreightCosts : Quote(t, p, a, f)
  BY <1>1, <1>2, QuoteStep
<1>3. CASE \E t \in QuoteTasks : BeginStore(t) \/ StoreQuote(t)
  BY <1>1, <1>3, BeginStoreStep, StoreQuoteStep
<1>4. CASE PurgeExpired \/ QuoteTick
  BY <1>1, <1>4, ExpiryStep
<1>5. CASE CodNext
  BY <1>5, ChangeOrderStep, DraftCodMarkStep, GenerateCodMarkStep DEF CodNext
<1>6. CASE UNCHANGED quoteVars
  <2>1. QuoteTypes' /\ UNCHANGED codMarks
    BY <1>6 DEF QuoteInv, QuoteTypes, quoteVars
  <2>2. \A p \in Parcels : Twins(p)' \subseteq Twins(p) /\ Inserting(p)' \subseteq Inserting(p)
    BY <1>6 DEF Twins, Live, Inserting, quoteVars
  <2> QED BY <1>1, <2>1, <2>2, FewerTwins DEF QuoteInv, CountsHold
<1> QED BY <1>2, <1>3, <1>4, <1>5, <1>6 DEF QuoteNext

-----------------------------------------------------------------------------

\* Rows that are equal and live, and requests that will insert another, are no more
\* than the requests there can be; drafts charge what they are worth.
THEOREM QuotesInvariant == QuoteSpec => []QuoteInv
<1>1. QuoteInit => QuoteInv
  BY QuoteStart
<1>2. QuoteInv /\ [QuoteNext \/ CodNext]_quoteVars => QuoteInv'
  BY QuotesStep
<1> QED BY <1>1, <1>2, PTL DEF QuoteSpec

\* Equal quotations stay as few as the requests that overlap, and the courier
\* collects the debt less the freight or nothing at all, for any amounts, freights,
\* surcharge, payment form and lifetime of a quotation.
THEOREM QuotesAreSafe == QuoteSpec => []QuoteSafety
<1>1. QuoteInv => QuoteSafety
  BY QuoteSafe
<1> QED BY <1>1, QuotesInvariant, PTL

-----------------------------------------------------------------------------
(* Orders as the staff keeps them (OrderRecords). *)

LEMMA RemarkNumbers == Cardinality(Sheets) \in Nat /\ MaxRemark \in Nat
BY OrderRecordsAssumption, FS_CardinalityType DEF Sheets

LEMMA TableLookUp ==
  ASSUME NEW t \in RemarkTables
  PROVE  t \in [DOMAIN t -> RemarkRow] /\ DOMAIN t \subseteq 1..(Cardinality(Sheets) + MaxRemark)
BY DEF RemarkTables

LEMMA TableMade ==
  ASSUME NEW D \in SUBSET (1..(Cardinality(Sheets) + MaxRemark)), NEW t \in [D -> RemarkRow]
  PROVE  t \in RemarkTables
BY DEF RemarkTables

LEMMA SheetRows == NoSheet \in SheetRow /\ OldSheet \in SheetRow
BY DEF NoSheet, OldSheet, SheetRow

LEMMA NoClerkRow == NoClerk \in ClerkRow
<1>1. <<>> \in RemarkTables
  <2>1. <<>> \in [{} -> RemarkRow]
    OBVIOUS
  <2> QED BY <2>1, TableMade
<1> QED BY <1>1, SheetRows DEF NoClerk, ClerkRow

LEMMA RecordStart ==
  ASSUME RecordInit
  PROVE  OrdersInv
<1>1. RecordTypes
  <2>1. sheet \in [Sheets -> SheetRow] /\ told \in [Sheets -> SUBSET SheetRow] /\ untold \subseteq Sheets
    BY SheetRows DEF RecordInit
  <2>2. clerk \in [Clerks -> ClerkRow] /\ \A c \in Clerks : clerk[c].at = "idle"
    BY NoClerkRow DEF RecordInit, NoClerk
  <2>3. remarkSeq \in Nat /\ remarkSeq <= Cardinality(Sheets) + MaxRemark
    BY RemarkNumbers DEF RecordInit
  <2>4. remarks \in RemarkTables
    <3>1. remarks \in [1..Cardinality(Sheets) -> RemarkRow]
      BY DEF RecordInit, RemarkRow
    <3>2. 1..Cardinality(Sheets) \subseteq 1..(Cardinality(Sheets) + MaxRemark)
      BY RemarkNumbers
    <3> QED BY <3>1, <3>2, TableMade
  <2> QED BY <2>1, <2>2, <2>3, <2>4 DEF RecordTypes
<1>2. \A c \in Clerks : clerk[c].at = "idle"
  BY DEF RecordInit, NoClerk
<1>3. RemarksInv
  BY <1>2 DEF RecordInit, RemarksInv, CommentsStayDeleted
<1>4. ASSUME NEW o \in Sheets PROVE Untouched(o)
  BY <1>2 DEF RecordInit, Untouched
<1> QED BY <1>1, <1>3, <1>4 DEF OrdersInv

LEMMA OrdersSafe ==
  ASSUME OrdersInv
  PROVE  CommentsStayDeleted /\ FinalStateTold
<1>1. ASSUME NEW o \in Sheets, Covered(o)
      PROVE  \/ o \in untold
             \/ \E c \in Clerks : clerk[c].order = o /\ clerk[c].at # "done"
             \/ sheet[o] \in told[o]
  BY <1>1 DEF Covered
<1>2. ASSUME NEW o \in Sheets, Untouched(o)
      PROVE  told[o] = {} /\ sheet[o] \in {NoSheet, OldSheet}
  BY <1>2 DEF Untouched
<1> QED BY <1>1, <1>2 DEF OrdersInv, RemarksInv, FinalStateTold

\* The copy of a comment that a request is going to save is one of its order's.
SavesOwn(k) ==
  k.at = "merged" /\ k.op = "UpdateComment" => k.remark \in DOMAIN k.remarks /\ k.remarks[k.remark].order = k.order

LEMMA ClerkMoves ==
  ASSUME RecordTypes, NEW c \in Clerks, NEW x \in ClerkRow, clerk' = [clerk EXCEPT ![c] = x],
         x.order \in Sheets
  PROVE  /\ clerk' \in [Clerks -> ClerkRow] /\ clerk'[c] = x
         /\ \A d \in Clerks \ {c} : clerk'[d] = clerk[d]
         /\ \A d \in Clerks : clerk'[d].at # "idle" => clerk'[d].order \in Sheets
BY DEF RecordTypes

\* The comments stay as they are.
LEMMA RemarksStay ==
  ASSUME OrdersInv, NEW c \in Clerks, NEW x \in ClerkRow, clerk' = [clerk EXCEPT ![c] = x],
         UNCHANGED <<remarks, remarkSeq, author, erased>>, SavesOwn(x)
  PROVE  RemarksInv'
<1>1. clerk'[c] = x /\ \A d \in Clerks \ {c} : clerk'[d] = clerk[d]
  BY DEF OrdersInv, RecordTypes
<1>2. RemarksInv
  BY DEF OrdersInv
<1>3. \A d \in Clerks : clerk'[d].at = "merged" /\ clerk'[d].op = "UpdateComment" =>
        clerk'[d].remark \in DOMAIN clerk'[d].remarks
        /\ clerk'[d].remarks[clerk'[d].remark].order = clerk'[d].order
  BY <1>1, <1>2 DEF RemarksInv, SavesOwn
<1>4. CommentsStayDeleted'
  BY <1>2 DEF RemarksInv, CommentsStayDeleted
<1> QED BY <1>2, <1>3, <1>4 DEF RemarksInv

AllCovered == \A o \in Sheets : Covered(o) \/ Untouched(o)

\* A request that has not written yet goes on, or ends.
LEMMA ServeStep ==
  ASSUME OrdersInv, NEW c \in Clerks, NEW x \in ClerkRow, Serve(c, x),
         x.order \in Sheets, SavesOwn(x),
         clerk[c].at \notin {"written", "reread"}, x.at \notin {"written", "reread"}
  PROVE  OrdersInv'
<1>1. /\ clerk' = [clerk EXCEPT ![c] = x]
      /\ UNCHANGED <<sheet, remarks, remarkSeq, told, erased, author, untold>>
  BY DEF Serve
<1>2. RemarksInv'
  BY <1>1, RemarksStay
<1>3. /\ clerk' \in [Clerks -> ClerkRow] /\ clerk'[c] = x
      /\ \A d \in Clerks \ {c} : clerk'[d] = clerk[d]
      /\ \A d \in Clerks : clerk'[d].at # "idle" => clerk'[d].order \in Sheets
  BY <1>1, ClerkMoves DEF OrdersInv
<1>4. RecordTypes'
  BY <1>1, <1>3 DEF OrdersInv, RecordTypes
<1>5. ASSUME NEW o \in Sheets PROVE Covered(o)' \/ Untouched(o)'
  <2>1. CASE Covered(o)
    BY <1>1, <1>3, <2>1 DEF Covered
  <2>2. CASE Untouched(o)
    BY <1>1, <1>3, <2>2 DEF Untouched
  <2> QED BY <2>1, <2>2 DEF OrdersInv
<1> QED BY <1>2, <1>4, <1>5 DEF OrdersInv

\* A request writes: whatever becomes of its order, it will be told.
LEMMA WriteCovers ==
  ASSUME OrdersInv, NEW c \in Clerks, NEW x \in ClerkRow, clerk' = [clerk EXCEPT ![c] = x],
         x.at = "written", x.order \in Sheets, clerk[c].at \notin {"written", "reread"},
         UNCHANGED <<told, untold>>, \A p \in Sheets \ {x.order} : sheet'[p] = sheet[p]
  PROVE  AllCovered'
<1>1. clerk'[c] = x /\ \A d \in Clerks \ {c} : clerk'[d] = clerk[d]
  BY DEF OrdersInv, RecordTypes
<1>2. ASSUME NEW o \in Sheets PROVE Covered(o)' \/ Untouched(o)'
  <2>1. CASE o = x.order
    BY <1>1, <2>1 DEF Covered
  <2>2. CASE o # x.order /\ Covered(o)
    BY <1>1, <2>2 DEF Covered
  <2>3. CASE o # x.order /\ Untouched(o)
    BY <1>1, <2>3 DEF Untouched
  <2> QED BY <2>1, <2>2, <2>3 DEF OrdersInv
<1> QED BY <1>2 DEF AllCovered

LEMMA Marked ==
  ASSUME NEW k \in ClerkRow, NEW s \in {"done", "written"}
  PROVE  [k EXCEPT !.at = s] \in ClerkRow /\ [k EXCEPT !.at = s].at = s
         /\ [k EXCEPT !.at = s].order = k.order
BY DEF ClerkRow

LEMMA AskOrderStep ==
  ASSUME OrdersInv, NEW c \in Clerks, AskOrder(c)
  PROVE  OrdersInv'
<1>1. NoClerk \in ClerkRow
  BY NoClerkRow
<1>2. ASSUME NEW o \in Sheets, NEW lines \in {"keep", "none", "new"}, NEW address \in {"keep", "own"},
             AskUpdate(c, o, lines, address)
      PROVE  OrdersInv'
  <2>1. PICK x : x = [NoClerk EXCEPT !.at = "asked", !.op = "Update", !.order = o,
                                     !.lines = lines, !.address = address]
    OBVIOUS
  <2>2. x \in ClerkRow /\ x.at = "asked" /\ x.order = o
    BY ZenonT(60), <1>1, <2>1 DEF ClerkRow
  <2> QED BY <1>2, <2>1, <2>2, ServeStep DEF AskUpdate, SavesOwn
<1>3. ASSUME NEW o \in Sheets, NEW source \in {"staff", "woocommerce_hook"}, AskStatus(c, o, source)
      PROVE  OrdersInv'
  <2>1. PICK x : x = [NoClerk EXCEPT !.at = "asked", !.op = "UpdateStatus", !.order = o,
                                     !.source = source]
    OBVIOUS
  <2>2. x \in ClerkRow /\ x.at = "asked" /\ x.order = o
    BY ZenonT(60), <1>1, <2>1 DEF ClerkRow
  <2> QED BY <1>3, <2>1, <2>2, ServeStep DEF AskStatus, SavesOwn
<1>4. ASSUME NEW o \in Sheets, NEW op \in {"AddComment", "UpdateComment", "DeleteComment"},
             NEW i \in Nat, NEW part \in {"none", "by", "text"}, AskRemark(c, o, op, i, part)
      PROVE  OrdersInv'
  <2>1. PICK x : x = [NoClerk EXCEPT !.at = "asked", !.op = op, !.order = o,
                                     !.remark = i, !.part = part]
    OBVIOUS
  <2>2. x \in ClerkRow /\ x.at = "asked" /\ x.order = o
    BY ZenonT(60), <1>1, <2>1 DEF ClerkRow
  <2> QED BY <1>4, <2>1, <2>2, ServeStep DEF AskRemark, SavesOwn
<1>5. \A i \in DOMAIN remarks : i \in Nat
  BY TableLookUp, RemarkNumbers DEF OrdersInv, RecordTypes
<1> QED BY <1>2, <1>3, <1>4, <1>5 DEF AskOrder

LEMMA LoadOrderStep ==
  ASSUME OrdersInv, NEW c \in Clerks, LoadOrder(c)
  PROVE  OrdersInv'
<1>1. PICK k : k = clerk[c]
  OBVIOUS
<1>2. k \in ClerkRow /\ k.at = "asked" /\ k.order \in Sheets
  BY <1>1 DEF LoadOrder, OrdersInv, RecordTypes
<1>3. CASE Serve(c, Over(c))
  BY <1>1, <1>2, <1>3, Marked, ServeStep DEF Over, SavesOwn
<1>4. CASE Serve(c, [k EXCEPT !.at = "loaded", !.copy = sheet[k.order], !.remarks = remarks])
  <2>1. PICK x : x = [k EXCEPT !.at = "loaded", !.copy = sheet[k.order], !.remarks = remarks]
    OBVIOUS
  <2>2. sheet[k.order] \in SheetRow /\ remarks \in RemarkTables
    BY <1>2 DEF OrdersInv, RecordTypes
  <2>3. x \in ClerkRow /\ x.at = "loaded" /\ x.order = k.order
    BY <1>2, <2>1, <2>2 DEF ClerkRow
  <2> QED BY <1>1, <1>2, <1>4, <2>1, <2>3, ServeStep DEF SavesOwn
<1> QED BY <1>1, <1>3, <1>4 DEF LoadOrder

LEMMA MergeUpdateStep ==
  ASSUME OrdersInv, NEW c \in Clerks, MergeUpdate(c)
  PROVE  OrdersInv'
<1>1. PICK k : k = clerk[c]
  OBVIOUS
<1>2. PICK next : next = [k.copy EXCEPT !.lines = IF k.lines = "keep" THEN @ ELSE k.lines,
                                        !.address = IF k.address = "keep" THEN @ ELSE k.address]
  OBVIOUS
<1>3. k \in ClerkRow /\ k.at = "loaded" /\ k.op = "Update" /\ k.order \in Sheets
  BY <1>1 DEF MergeUpdate, OrdersInv, RecordTypes
<1>4. Serve(c, IF next = k.copy \/ k.lines = "none" THEN Over(c)
               ELSE [k EXCEPT !.at = "merged", !.copy = next])
  BY <1>1, <1>2 DEF MergeUpdate
<1>5. CASE Serve(c, Over(c))
  BY <1>1, <1>3, <1>5, Marked, ServeStep DEF Over, SavesOwn
<1>6. CASE Serve(c, [k EXCEPT !.at = "merged", !.copy = next])
  <2>1. PICK x : x = [k EXCEPT !.at = "merged", !.copy = next]
    OBVIOUS
  <2>2. next \in SheetRow
    BY <1>2, <1>3 DEF ClerkRow, SheetRow
  <2>3. x \in ClerkRow /\ x.at = "merged" /\ x.order = k.order /\ x.op = k.op
    BY <1>3, <2>1, <2>2 DEF ClerkRow
  <2> QED BY <1>1, <1>3, <1>6, <2>1, <2>3, ServeStep DEF SavesOwn
<1> QED BY <1>4, <1>5, <1>6

\* The order's row is written.
LEMMA SheetStep ==
  ASSUME OrdersInv, NEW c \in Clerks, NEW x \in ClerkRow, clerk' = [clerk EXCEPT ![c] = x],
         x.at = "written", x.order \in Sheets, clerk[c].at \notin {"written", "reread"},
         NEW row \in SheetRow, sheet' = [sheet EXCEPT ![x.order] = row],
         UNCHANGED <<remarks, remarkSeq, told, erased, author, untold>>
  PROVE  OrdersInv'
<1>1. /\ clerk' \in [Clerks -> ClerkRow]
      /\ \A d \in Clerks : clerk'[d].at # "idle" => clerk'[d].order \in Sheets
  BY ClerkMoves DEF OrdersInv
<1>2. RecordTypes'
  BY <1>1 DEF OrdersInv, RecordTypes
<1>3. RemarksInv'
  BY RemarksStay DEF SavesOwn
<1>4. \A p \in Sheets \ {x.order} : sheet'[p] = sheet[p]
  BY DEF OrdersInv, RecordTypes
<1>5. AllCovered'
  BY <1>4, WriteCovers
<1> QED BY <1>2, <1>3, <1>5 DEF OrdersInv, AllCovered

LEMMA SaveOrderStep ==
  ASSUME OrdersInv, NEW c \in Clerks, SaveOrder(c)
  PROVE  OrdersInv'
<1>1. PICK k : k = clerk[c]
  OBVIOUS
<1>2. k \in ClerkRow /\ k.at = "merged" /\ k.order \in Sheets /\ k.copy \in SheetRow
  BY <1>1 DEF SaveOrder, OrdersInv, RecordTypes, ClerkRow
<1>3. PICK x : x = [k EXCEPT !.at = "written"]
  OBVIOUS
<1>4. x \in ClerkRow /\ x.at = "written" /\ x.order = k.order
  BY <1>2, <1>3, Marked
<1>5. PICK old : old = sheet[k.order]
  OBVIOUS
<1>6. PICK row : row = [old EXCEPT !.lines = k.copy.lines,
                                   !.address = IF k.copy.address = "own" THEN "own" ELSE @]
  OBVIOUS
<1>7. old \in SheetRow
  BY <1>2, <1>5 DEF OrdersInv, RecordTypes
<1>8. row \in SheetRow
  BY <1>2, <1>6, <1>7 DEF SheetRow
<1>9. clerk' = [clerk EXCEPT ![c] = x]
  BY <1>1, <1>3 DEF SaveOrder, Written
<1>10. sheet' = [sheet EXCEPT ![k.order] = row]
  BY <1>1, <1>2, <1>5, <1>6 DEF SaveOrder, OrdersInv, RecordTypes
<1>11. UNCHANGED <<remarks, remarkSeq, told, erased, author, untold>>
  BY DEF SaveOrder
<1> QED BY <1>1, <1>2, <1>4, <1>8, <1>9, <1>10, <1>11, SheetStep

LEMMA AddStatusStep ==
  ASSUME OrdersInv, NEW c \in Clerks, AddStatus(c)
  PROVE  OrdersInv'
<1>1. PICK k : k = clerk[c]
  OBVIOUS
<1>2. k \in ClerkRow /\ k.at = "loaded" /\ k.order \in Sheets
  BY <1>1 DEF AddStatus, OrdersInv, RecordTypes
<1>3. PICK x : x = [k EXCEPT !.at = "written"]
  OBVIOUS
<1>4. x \in ClerkRow /\ x.at = "written" /\ x.order = k.order
  BY <1>2, <1>3, Marked
<1>5. PICK old : old = sheet[k.order]
  OBVIOUS
<1>6. PICK row : row = [old EXCEPT !.status = @ + 1]
  OBVIOUS
<1>7. old \in SheetRow
  BY <1>2, <1>5 DEF OrdersInv, RecordTypes
<1>8. row \in SheetRow
  BY <1>6, <1>7 DEF SheetRow
<1>9. clerk' = [clerk EXCEPT ![c] = x] /\ sheet' = [sheet EXCEPT ![k.order] = row]
      /\ UNCHANGED <<remarks, remarkSeq, told, erased, author, untold>>
  BY <1>1, <1>3, <1>5, <1>6 DEF AddStatus, Written
<1> QED BY <1>1, <1>2, <1>4, <1>8, <1>9, SheetStep

LEMMA CreateOrderStep ==
  ASSUME OrdersInv, NEW c \in Clerks, NEW o \in Sheets, CreateOrder(c, o)
  PROVE  OrdersInv'
<1>1. NoClerk \in ClerkRow /\ clerk[c].at = "idle"
      /\ UNCHANGED <<remarks, remarkSeq, told, erased, author, untold, crew>>
  BY NoClerkRow DEF CreateOrder
<1>2. CASE Exists(o)
  <2>1. PICK x : x = [NoClerk EXCEPT !.at = "done", !.op = "Create", !.order = o]
    OBVIOUS
  <2>2. x \in ClerkRow /\ x.at = "done" /\ x.order = o
    BY <1>1, <2>1 DEF ClerkRow
  <2>3. Serve(c, x)
    BY <1>2, <2>1 DEF CreateOrder, Serve
  <2> QED BY <1>1, <2>2, <2>3, ServeStep DEF SavesOwn
<1>3. CASE ~Exists(o)
  <2>1. PICK x : x = [NoClerk EXCEPT !.at = "written", !.op = "Create", !.order = o]
    OBVIOUS
  <2>2. x \in ClerkRow /\ x.at = "written" /\ x.order = o
    BY <1>1, <2>1 DEF ClerkRow
  <2>3. PICK row : row = [OldSheet EXCEPT !.status = 1]
    OBVIOUS
  <2>4. row \in SheetRow
    BY <2>3, SheetRows DEF SheetRow
  <2>5. clerk' = [clerk EXCEPT ![c] = x] /\ sheet' = [sheet EXCEPT ![o] = row]
    BY <1>3, <2>1, <2>3 DEF CreateOrder
  <2> QED BY <1>1, <2>2, <2>4, <2>5, SheetStep
<1> QED BY <1>2, <1>3

LEMMA AddRemarkStep ==
  ASSUME OrdersInv, NEW c \in Clerks, AddRemark(c)
  PROVE  OrdersInv'
<1>1. PICK k : k = clerk[c]
  OBVIOUS
<1>2. k \in ClerkRow /\ k.at = "loaded" /\ k.order \in Sheets
  BY <1>1 DEF AddRemark, OrdersInv, RecordTypes
<1>3. PICK x : x = [k EXCEPT !.at = "written"]
  OBVIOUS
<1>4. x \in ClerkRow /\ x.at = "written" /\ x.order = k.order
  BY <1>2, <1>3, Marked
<1>5. PICK n : n = remarkSeq + 1
  OBVIOUS
<1>6. PICK row : row = [order |-> k.order, by |-> 1, text |-> 1]
  OBVIOUS
<1>7. /\ remarkSeq' = n /\ remarkSeq < MaxRemark /\ clerk' = [clerk EXCEPT ![c] = x]
      /\ remarks' = [i \in DOMAIN remarks \cup {n} |-> IF i = n THEN row ELSE remarks[i]]
      /\ author' = [i \in DOMAIN author \cup {n} |-> IF i = n THEN row.order ELSE author[i]]
      /\ UNCHANGED <<sheet, told, erased, untold>>
  BY <1>1, <1>3, <1>5, <1>6 DEF AddRemark, Written
<1>8. remarkSeq \in Nat /\ n \in Nat /\ n <= Cardinality(Sheets) + MaxRemark /\ n \in 1..(Cardinality(Sheets) + MaxRemark)
  BY <1>5, <1>7, RemarkNumbers DEF OrdersInv, RecordTypes
<1>9. row \in RemarkRow /\ row.order = k.order
  BY <1>2, <1>6 DEF RemarkRow
<1>10. remarks' \in RemarkTables
  <2>1. remarks \in [DOMAIN remarks -> RemarkRow]
        /\ DOMAIN remarks \subseteq 1..(Cardinality(Sheets) + MaxRemark)
    BY TableLookUp DEF OrdersInv, RecordTypes
  <2>2. remarks' \in [DOMAIN remarks \cup {n} -> RemarkRow]
    BY <1>7, <1>9, <2>1
  <2> QED BY <1>8, <2>1, <2>2, TableMade
<1>11. RecordTypes'
  <2>1. /\ clerk' \in [Clerks -> ClerkRow]
        /\ \A d \in Clerks : clerk'[d].at # "idle" => clerk'[d].order \in Sheets
    BY <1>2, <1>4, <1>7, ClerkMoves DEF OrdersInv
  <2> QED BY <1>7, <1>8, <1>10, <2>1 DEF OrdersInv, RecordTypes
<1>12. RemarksInv'
  <2>1. DOMAIN author = 1..remarkSeq /\ \A i \in DOMAIN remarks : i \in 1..remarkSeq /\ remarks[i].order = author[i]
    BY DEF OrdersInv, RemarksInv
  <2>2. DOMAIN author' = 1..remarkSeq'
    BY <1>5, <1>7, <1>8, <2>1
  <2>3. ASSUME NEW i \in DOMAIN remarks' PROVE i \in 1..remarkSeq' /\ remarks'[i].order = author'[i]
    <3>1. CASE i = n
      BY <1>7, <1>8, <3>1
    <3>2. CASE i # n
      <4>1. i \in DOMAIN remarks /\ remarks'[i] = remarks[i]
        BY <1>7, <3>2
      <4>2. i \in 1..remarkSeq /\ i \in DOMAIN author
        BY <2>1, <4>1
      <4>3. author'[i] = author[i]
        BY <1>7, <3>2, <4>2
      <4> QED BY <1>5, <1>7, <1>8, <2>1, <4>1, <4>2, <4>3
    <3> QED BY <3>1, <3>2
  <2>4. \A e \in erased : e.remark \in 1..remarkSeq /\ e.remark \notin DOMAIN remarks /\ author[e.remark] = e.order
    BY DEF OrdersInv, RemarksInv, CommentsStayDeleted
  <2>5. \A e \in erased' : e.remark \in 1..remarkSeq'
    BY <1>5, <1>7, <1>8, <2>4
  <2>6. \A e \in erased' : e.remark \notin DOMAIN remarks' /\ author'[e.remark] = e.order
    <3>1. SUFFICES ASSUME NEW e \in erased
                   PROVE  e.remark \notin DOMAIN remarks' /\ author'[e.remark] = e.order
      BY <1>7
    <3>2. e.remark # n /\ e.remark \in DOMAIN author
      BY <1>5, <1>8, <2>1, <2>4
    <3> QED BY <1>7, <2>4, <3>2
  <2>7. \A d \in Clerks : clerk'[d].at = "merged" /\ clerk'[d].op = "UpdateComment" =>
          clerk'[d].remark \in DOMAIN clerk'[d].remarks
          /\ clerk'[d].remarks[clerk'[d].remark].order = clerk'[d].order
    <3>1. clerk'[c] = x /\ \A d \in Clerks \ {c} : clerk'[d] = clerk[d]
      BY <1>7 DEF OrdersInv, RecordTypes
    <3> QED BY <1>4, <3>1 DEF OrdersInv, RemarksInv
  <2> QED BY <2>2, <2>3, <2>5, <2>6, <2>7 DEF RemarksInv, CommentsStayDeleted
<1>13. AllCovered'
  <2>1. clerk[c].at \notin {"written", "reread"} /\ UNCHANGED <<told, untold>>
        /\ \A p \in Sheets \ {x.order} : sheet'[p] = sheet[p]
    BY <1>1, <1>2, <1>7
  <2> QED BY <1>2, <1>4, <1>7, <2>1, WriteCovers
<1> QED BY <1>11, <1>12, <1>13 DEF OrdersInv, AllCovered

LEMMA MergeRemarkStep ==
  ASSUME OrdersInv, NEW c \in Clerks, MergeRemark(c)
  PROVE  OrdersInv'
<1>1. PICK k : k = clerk[c]
  OBVIOUS
<1>2. k \in ClerkRow /\ k.at = "loaded" /\ k.op = "UpdateComment" /\ k.order \in Sheets
  BY <1>1 DEF MergeRemark, OrdersInv, RecordTypes
<1>3. CASE Serve(c, Over(c))
  BY <1>1, <1>2, <1>3, Marked, ServeStep DEF Over, SavesOwn
<1>4. CASE k.remark \in DOMAIN k.remarks /\ k.remarks[k.remark].order = k.order
  <2>1. PICK row : row = IF k.part = "by" THEN [k.remarks[k.remark] EXCEPT !.by = 2]
                                          ELSE [k.remarks[k.remark] EXCEPT !.text = 2]
    OBVIOUS
  <2>2. PICK table : table = [k.remarks EXCEPT ![k.remark] = row]
    OBVIOUS
  <2>3. PICK x : x = [k EXCEPT !.at = "merged", !.remarks = table]
    OBVIOUS
  <2>4. /\ k.remarks \in [DOMAIN k.remarks -> RemarkRow]
        /\ DOMAIN k.remarks \subseteq 1..(Cardinality(Sheets) + MaxRemark)
    BY <1>2, TableLookUp DEF ClerkRow
  <2>5. k.remarks[k.remark] \in RemarkRow
    BY <1>4, <2>4
  <2>6. row \in RemarkRow /\ row.order = k.order
    BY <1>4, <2>1, <2>5 DEF RemarkRow
  <2>7. table \in [DOMAIN k.remarks -> RemarkRow] /\ table[k.remark] = row /\ DOMAIN table = DOMAIN k.remarks
    BY <1>4, <2>2, <2>4, <2>6
  <2>8. table \in RemarkTables
    BY <2>4, <2>7, TableMade
  <2>9. x \in ClerkRow /\ x.at = "merged" /\ x.order = k.order /\ x.remark = k.remark /\ x.remarks = table
    BY <1>2, <2>3, <2>8 DEF ClerkRow
  <2>10. SavesOwn(x)
    BY <1>4, <2>6, <2>7, <2>9 DEF SavesOwn
  <2>11. Serve(c, [k EXCEPT !.at = "merged",
                     !.remarks[k.remark] = IF k.part = "by" THEN [@ EXCEPT !.by = 2]
                                                             ELSE [@ EXCEPT !.text = 2]])
    BY <1>1, <1>4 DEF MergeRemark
  <2>12. x = [k EXCEPT !.at = "merged",
                !.remarks[k.remark] = IF k.part = "by" THEN [@ EXCEPT !.by = 2]
                                                        ELSE [@ EXCEPT !.text = 2]]
    BY <1>2, <2>1, <2>2, <2>3, <2>4 DEF ClerkRow
  <2>13. Serve(c, x)
    BY <2>11, <2>12
  <2> QED BY <1>1, <1>2, <2>9, <2>10, <2>13, ServeStep
<1> QED BY <1>1, <1>3, <1>4 DEF MergeRemark

\* A request has written nothing but comments, all under the numbers there are.
LEMMA RemarksWritten ==
  ASSUME OrdersInv, NEW c \in Clerks, clerk[c].at \in {"loaded", "merged"},
         clerk' = Written(c), remarks' \in RemarkTables,
         DOMAIN remarks' \subseteq DOMAIN remarks,
         \A i \in DOMAIN remarks' : remarks'[i].order = remarks[i].order,
         \A e \in erased' : /\ e.remark \in 1..remarkSeq /\ e.remark \notin DOMAIN remarks'
                            /\ author[e.remark] = e.order,
         UNCHANGED <<sheet, remarkSeq, told, author, untold>>
  PROVE  OrdersInv'
<1>1. PICK k : k = clerk[c]
  OBVIOUS
<1>2. k \in ClerkRow /\ k.order \in Sheets
  BY <1>1 DEF OrdersInv, RecordTypes
<1>3. PICK x : x = [k EXCEPT !.at = "written"]
  OBVIOUS
<1>4. x \in ClerkRow /\ x.at = "written" /\ x.order = k.order /\ clerk' = [clerk EXCEPT ![c] = x]
  BY <1>1, <1>2, <1>3, Marked DEF Written
<1>5. /\ clerk' \in [Clerks -> ClerkRow] /\ clerk'[c] = x /\ \A d \in Clerks \ {c} : clerk'[d] = clerk[d]
      /\ \A d \in Clerks : clerk'[d].at # "idle" => clerk'[d].order \in Sheets
  BY <1>2, <1>4, ClerkMoves DEF OrdersInv
<1>6. RecordTypes'
  BY <1>5 DEF OrdersInv, RecordTypes
<1>7. RemarksInv'
  <2>1. \A d \in Clerks : clerk'[d].at = "merged" /\ clerk'[d].op = "UpdateComment" =>
          clerk'[d].remark \in DOMAIN clerk'[d].remarks
          /\ clerk'[d].remarks[clerk'[d].remark].order = clerk'[d].order
    BY <1>4, <1>5 DEF OrdersInv, RemarksInv
  <2>2. \A i \in DOMAIN remarks' : i \in 1..remarkSeq' /\ remarks'[i].order = author'[i]
    BY DEF OrdersInv, RemarksInv
  <2> QED BY <2>1, <2>2 DEF OrdersInv, RemarksInv, CommentsStayDeleted
<1>8. AllCovered'
  BY <1>1, <1>2, <1>4, WriteCovers
<1> QED BY <1>6, <1>7, <1>8 DEF OrdersInv, AllCovered

\* The request ends without having written.
LEMMA GiveUpStep ==
  ASSUME OrdersInv, NEW c \in Clerks, clerk[c].at \in {"loaded", "merged"}, Serve(c, Over(c))
  PROVE  OrdersInv'
<1>1. clerk[c] \in ClerkRow /\ clerk[c].order \in Sheets
  BY DEF OrdersInv, RecordTypes
<1> QED BY <1>1, Marked, ServeStep DEF Over, SavesOwn

LEMMA SaveRemarkStep ==
  ASSUME OrdersInv, NEW c \in Clerks, SaveRemark(c)
  PROVE  OrdersInv'
<1>1. PICK k : k = clerk[c]
  OBVIOUS
<1>2. k \in ClerkRow /\ k.at = "merged" /\ k.op = "UpdateComment"
      /\ UNCHANGED <<sheet, remarkSeq, told, erased, author, untold, crew>>
  BY <1>1 DEF SaveRemark, OrdersInv, RecordTypes
<1>3. CASE ~HoldsRemark(c)
  <2>1. Serve(c, Over(c))
    BY <1>2, <1>3 DEF SaveRemark, Serve
  <2> QED BY <1>1, <1>2, <2>1, GiveUpStep
<1>4. CASE HoldsRemark(c)
  <2>1. /\ remarks' = [i \in DOMAIN remarks \cup {k.remark} |-> IF i = k.remark THEN k.remarks[i] ELSE remarks[i]]
        /\ clerk' = Written(c)
    BY <1>1, <1>4 DEF SaveRemark
  <2>2. k.remark \in DOMAIN remarks /\ remarks[k.remark].order = k.order
    BY <1>1, <1>4 DEF HoldsRemark
  <2>3. k.remark \in DOMAIN k.remarks /\ k.remarks[k.remark].order = k.order
    BY <1>1, <1>2 DEF OrdersInv, RemarksInv
  <2>4. DOMAIN remarks' = DOMAIN remarks
    BY <2>1, <2>2
  <2>5. k.remarks[k.remark] \in RemarkRow
    BY <1>2, <2>3, TableLookUp DEF ClerkRow
  <2>6. remarks \in [DOMAIN remarks -> RemarkRow]
        /\ DOMAIN remarks \subseteq 1..(Cardinality(Sheets) + MaxRemark)
    BY TableLookUp DEF OrdersInv, RecordTypes
  <2>7. remarks' \in [DOMAIN remarks -> RemarkRow]
    BY <2>1, <2>2, <2>5, <2>6
  <2>8. remarks' \in RemarkTables
    BY <2>6, <2>7, TableMade
  <2>9. \A i \in DOMAIN remarks' : remarks'[i].order = remarks[i].order
    BY <2>1, <2>2, <2>3
  <2>10. \A e \in erased' : /\ e.remark \in 1..remarkSeq /\ e.remark \notin DOMAIN remarks'
                            /\ author[e.remark] = e.order
    BY <1>2, <2>4 DEF OrdersInv, RemarksInv, CommentsStayDeleted
  <2> QED BY <1>1, <1>2, <2>1, <2>4, <2>8, <2>9, <2>10, RemarksWritten
<1> QED BY <1>3, <1>4

LEMMA EraseRemarkStep ==
  ASSUME OrdersInv, NEW c \in Clerks, EraseRemark(c)
  PROVE  OrdersInv'
<1>1. PICK k : k = clerk[c]
  OBVIOUS
<1>2. k \in ClerkRow /\ k.at = "loaded" /\ UNCHANGED <<sheet, remarkSeq, told, author, untold, crew>>
  BY <1>1 DEF EraseRemark, OrdersInv, RecordTypes
<1>3. CASE ~HoldsRemark(c)
  <2>1. Serve(c, Over(c))
    BY <1>2, <1>3 DEF EraseRemark, Serve
  <2> QED BY <1>1, <1>2, <2>1, GiveUpStep
<1>4. CASE HoldsRemark(c)
  <2>1. /\ remarks' = [i \in DOMAIN remarks \ {k.remark} |-> remarks[i]]
        /\ erased' = erased \cup {[remark |-> k.remark, order |-> k.order]}
        /\ clerk' = Written(c)
    BY <1>1, <1>4 DEF EraseRemark
  <2>2. k.remark \in DOMAIN remarks /\ remarks[k.remark].order = k.order
    BY <1>1, <1>4 DEF HoldsRemark
  <2>3. remarks \in [DOMAIN remarks -> RemarkRow]
        /\ DOMAIN remarks \subseteq 1..(Cardinality(Sheets) + MaxRemark)
    BY TableLookUp DEF OrdersInv, RecordTypes
  <2>4. remarks' \in [DOMAIN remarks \ {k.remark} -> RemarkRow]
    BY <2>1, <2>3
  <2>5. remarks' \in RemarkTables
    BY <2>3, <2>4, TableMade
  <2>6. DOMAIN remarks' \subseteq DOMAIN remarks /\ \A i \in DOMAIN remarks' : remarks'[i].order = remarks[i].order
    BY <2>1
  <2>7. \A e \in erased : /\ e.remark \in 1..remarkSeq /\ e.remark \notin DOMAIN remarks
                          /\ author[e.remark] = e.order
    BY DEF OrdersInv, RemarksInv, CommentsStayDeleted
  <2>8. k.remark \in 1..remarkSeq /\ author[k.remark] = k.order /\ k.remark \notin DOMAIN remarks'
    BY <2>1, <2>2 DEF OrdersInv, RemarksInv
  <2>9. \A e \in erased' : /\ e.remark \in 1..remarkSeq /\ e.remark \notin DOMAIN remarks'
                           /\ author[e.remark] = e.order
    BY <2>1, <2>6, <2>7, <2>8
  <2> QED BY <1>1, <1>2, <2>1, <2>5, <2>6, <2>9, RemarksWritten
<1> QED BY <1>3, <1>4

LEMMA RereadOrderStep ==
  ASSUME OrdersInv, NEW c \in Clerks, RereadOrder(c)
  PROVE  OrdersInv'
<1>1. PICK k : k = clerk[c]
  OBVIOUS
<1>2. k \in ClerkRow /\ k.at = "written" /\ k.order \in Sheets /\ sheet[k.order] \in SheetRow
  BY <1>1 DEF RereadOrder, OrdersInv, RecordTypes
<1>3. PICK x : x = [k EXCEPT !.at = "reread", !.copy = sheet[k.order]]
  OBVIOUS
<1>4. x \in ClerkRow /\ x.at = "reread" /\ x.order = k.order /\ x.copy = sheet[k.order]
  BY <1>2, <1>3 DEF ClerkRow
<1>5. /\ clerk' = [clerk EXCEPT ![c] = x]
      /\ UNCHANGED <<sheet, remarks, remarkSeq, told, erased, author, untold>>
  BY <1>1, <1>3 DEF RereadOrder, Serve
<1>6. /\ clerk' \in [Clerks -> ClerkRow] /\ clerk'[c] = x /\ \A d \in Clerks \ {c} : clerk'[d] = clerk[d]
      /\ \A d \in Clerks : clerk'[d].at # "idle" => clerk'[d].order \in Sheets
  BY <1>2, <1>4, <1>5, ClerkMoves DEF OrdersInv
<1>7. RecordTypes'
  BY <1>5, <1>6 DEF OrdersInv, RecordTypes
<1>8. RemarksInv'
  BY <1>4, <1>5, RemarksStay DEF SavesOwn
<1>9. ASSUME NEW o \in Sheets PROVE Covered(o)' \/ Untouched(o)'
  <2>1. CASE o = k.order
    BY <1>4, <1>5, <1>6, <2>1 DEF Covered
  <2>2. CASE o # k.order /\ Covered(o)
    BY <1>1, <1>4, <1>5, <1>6, <2>2 DEF Covered
  <2>3. CASE o # k.order /\ Untouched(o)
    BY <1>4, <1>5, <1>6, <2>3 DEF Untouched
  <2> QED BY <2>1, <2>2, <2>3 DEF OrdersInv
<1> QED BY <1>7, <1>8, <1>9 DEF OrdersInv

LEMMA AnnounceOrderStep ==
  ASSUME OrdersInv, NEW c \in Clerks, AnnounceOrder(c)
  PROVE  OrdersInv'
<1>1. PICK k : k = clerk[c]
  OBVIOUS
<1>2. k \in ClerkRow /\ k.at = "reread" /\ k.order \in Sheets /\ k.copy \in SheetRow
  BY <1>1 DEF AnnounceOrder, OrdersInv, RecordTypes, ClerkRow
<1>3. PICK x : x = [k EXCEPT !.at = "done"]
  OBVIOUS
<1>4. x \in ClerkRow /\ x.at = "done" /\ x.order = k.order
  BY <1>2, <1>3, Marked
<1>5. /\ clerk' = [clerk EXCEPT ![c] = x] /\ told' = [told EXCEPT ![k.order] = @ \cup {k.copy}]
      /\ UNCHANGED <<sheet, remarks, remarkSeq, erased, author, untold>>
  BY <1>1, <1>3 DEF AnnounceOrder, Over
<1>6. /\ clerk' \in [Clerks -> ClerkRow] /\ clerk'[c] = x /\ \A d \in Clerks \ {c} : clerk'[d] = clerk[d]
      /\ \A d \in Clerks : clerk'[d].at # "idle" => clerk'[d].order \in Sheets
  BY <1>2, <1>4, <1>5, ClerkMoves DEF OrdersInv
<1>7. /\ told' \in [Sheets -> SUBSET SheetRow] /\ told'[k.order] = told[k.order] \cup {k.copy}
      /\ \A o \in Sheets \ {k.order} : told'[o] = told[o]
  BY <1>2, <1>5 DEF OrdersInv, RecordTypes
<1>8. RecordTypes'
  BY <1>5, <1>6, <1>7 DEF OrdersInv, RecordTypes
<1>9. RemarksInv'
  BY <1>4, <1>5, RemarksStay DEF SavesOwn
<1>10. ASSUME NEW o \in Sheets PROVE Covered(o)' \/ Untouched(o)'
  <2>1. CASE Covered(o)
    <3>1. CASE o \in untold \/ sheet[o] \in told[o]
      BY <1>5, <1>7, <3>1 DEF Covered
    <3>2. CASE \E d \in Clerks : /\ clerk[d].order = o
                                 /\ \/ clerk[d].at = "written"
                                    \/ clerk[d].at = "reread" /\ clerk[d].copy = sheet[o]
      BY <1>1, <1>2, <1>5, <1>6, <1>7, <3>2 DEF Covered
    <3> QED BY <2>1, <3>1, <3>2 DEF Covered
  <2>2. CASE Untouched(o)
    <3>1. o # k.order
      BY <1>1, <1>2, <2>2 DEF Untouched
    <3> QED BY <1>4, <1>5, <1>6, <1>7, <2>2, <3>1 DEF Untouched
  <2> QED BY <2>1, <2>2 DEF OrdersInv
<1> QED BY <1>8, <1>9, <1>10 DEF OrdersInv

LEMMA AbandonOrderStep ==
  ASSUME OrdersInv, NEW c \in Clerks, AbandonOrder(c)
  PROVE  OrdersInv'
<1>1. PICK k : k = clerk[c]
  OBVIOUS
<1>2. k \in ClerkRow /\ k.at \in {"loaded", "merged", "written", "reread"} /\ k.order \in Sheets
  BY <1>1 DEF AbandonOrder, OrdersInv, RecordTypes
<1>3. PICK x : x = [k EXCEPT !.at = "done"]
  OBVIOUS
<1>4. x \in ClerkRow /\ x.at = "done" /\ x.order = k.order
  BY <1>2, <1>3, Marked
<1>5. /\ clerk' = [clerk EXCEPT ![c] = x]
      /\ untold' = IF k.at \in {"written", "reread"} THEN untold \cup {k.order} ELSE untold
      /\ UNCHANGED <<sheet, remarks, remarkSeq, told, erased, author>>
  BY <1>1, <1>3 DEF AbandonOrder, Over
<1>6. /\ clerk' \in [Clerks -> ClerkRow] /\ clerk'[c] = x /\ \A d \in Clerks \ {c} : clerk'[d] = clerk[d]
      /\ \A d \in Clerks : clerk'[d].at # "idle" => clerk'[d].order \in Sheets
  BY <1>2, <1>4, <1>5, ClerkMoves DEF OrdersInv
<1>7. RecordTypes'
  BY <1>2, <1>5, <1>6 DEF OrdersInv, RecordTypes
<1>8. RemarksInv'
  BY <1>4, <1>5, RemarksStay DEF SavesOwn
<1>9. ASSUME NEW o \in Sheets PROVE Covered(o)' \/ Untouched(o)'
  <2>1. CASE Covered(o)
    BY <1>1, <1>5, <1>6, <2>1 DEF Covered
  <2>2. CASE Untouched(o)
    BY <1>4, <1>5, <1>6, <2>2 DEF Untouched
  <2> QED BY <2>1, <2>2 DEF OrdersInv
<1> QED BY <1>7, <1>8, <1>9 DEF OrdersInv

LEMMA OrdersStep ==
  ASSUME OrdersInv, RecordNext
  PROVE  OrdersInv'
BY AskOrderStep, LoadOrderStep, MergeUpdateStep, SaveOrderStep, AddStatusStep, AddRemarkStep,
   MergeRemarkStep, SaveRemarkStep, EraseRemarkStep, RereadOrderStep, AnnounceOrderStep,
   AbandonOrderStep, CreateOrderStep DEF RecordNext

LEMMA OrdersStutter ==
  ASSUME OrdersInv, UNCHANGED sheetVars
  PROVE  OrdersInv'
<1>1. UNCHANGED <<sheet, remarks, remarkSeq, clerk, told, erased, author, untold>>
  BY DEF sheetVars
<1>2. RecordTypes'
  BY <1>1 DEF OrdersInv, RecordTypes
<1>3. RemarksInv'
  BY <1>1 DEF OrdersInv, RemarksInv, CommentsStayDeleted
<1>4. ASSUME NEW o \in Sheets PROVE Covered(o)' \/ Untouched(o)'
  BY <1>1 DEF OrdersInv, Covered, Untouched
<1> QED BY <1>2, <1>3, <1>4 DEF OrdersInv

-----------------------------------------------------------------------------
(* The crew that resolves the lines. *)

CrewRow == [main : {"feed", "abandon", "wait", "error", "rows"}, next : 1..(OrderLines + 1),
            queue : Seq(1..OrderLines), errors : {0, 1}, rows : SUBSET (1..OrderLines),
            lost : SUBSET (1..OrderLines), line : [Crew -> 0..OrderLines], gone : SUBSET Crew]

\* Line n is where somebody will still take care of it, or done.
Kept(k, n) == \/ n \in k.rows
              \/ \E w \in Crew : k.line[w] = n
              \/ \E i \in 1..Len(k.queue) : k.queue[i] = n

SoundCrew(k) ==
  /\ k \in CrewRow
  /\ Len(k.queue) < k.next
  /\ k.main \in {"wait", "rows"} => k.next = OrderLines + 1
  /\ k.lost # {} <=> k.errors = 1 \/ k.main \in {"abandon", "error"}
  /\ k.main \in {"rows", "error"} => k.gone = Crew
  /\ \A w \in k.gone : k.line[w] = 0
  /\ k.lost = {} => \A n \in 1..(k.next - 1) : Kept(k, n)
  /\ k.lost = {} /\ k.gone # {} => k.main # "feed" /\ k.queue = <<>>
  /\ k.main = "rows" => k.rows = 1..OrderLines /\ k.lost = {}

LEMMA CrewSound == CrewInv <=> SoundCrew(crew)
<1>1. OrderLines \in Nat
  BY OrderRecordsAssumption
<1>2. ASSUME SoundCrew(crew) PROVE CrewInv
  <2>1. CrewAnswers
    BY <1>1, <1>2 DEF SoundCrew, CrewRow, CrewAnswers
  <2>2. crew.lost = {} =>
         /\ \A n \in 1..(crew.next - 1) :
              \/ n \in crew.rows
              \/ \E w \in Crew : crew.line[w] = n
              \/ \E i \in 1..Len(crew.queue) : crew.queue[i] = n
         /\ crew.gone # {} => crew.main # "feed" /\ crew.queue = <<>>
    BY <1>2 DEF SoundCrew, Kept
  <2> QED BY <1>2, <2>1, <2>2 DEF SoundCrew, CrewInv, CrewRow
<1>3. ASSUME CrewInv PROVE SoundCrew(crew)
  <2>1. crew.lost = {} => \A n \in 1..(crew.next - 1) : Kept(crew, n)
    BY <1>3 DEF CrewInv, Kept
  <2> QED BY <1>3, <2>1 DEF SoundCrew, CrewInv, CrewRow, CrewAnswers
<1> QED BY <1>2, <1>3

LEMMA CrewStart ==
  ASSUME RecordInit
  PROVE  CrewInv
<1>1. OrderLines \in Nat \ {0}
  BY OrderRecordsAssumption
<1>2. crew = [main |-> "feed", next |-> 1, queue |-> <<>>, errors |-> 0, rows |-> {},
              lost |-> {}, line |-> [w \in Crew |-> 0], gone |-> {}]
  BY DEF RecordInit
<1>3. <<>> \in Seq(1..OrderLines) /\ Len(<<>>) = 0
  OBVIOUS
<1>4. crew \in CrewRow
  BY <1>1, <1>2, <1>3 DEF CrewRow
<1>5. SoundCrew(crew)
  BY <1>1, <1>2, <1>3, <1>4 DEF SoundCrew
<1> QED BY <1>5, CrewSound

LEMMA FeedLineStep ==
  ASSUME SoundCrew(crew), FeedLine
  PROVE  SoundCrew(crew)'
<1>1. PICK k : k = crew
  OBVIOUS
<1>2. PICK y : y = [k EXCEPT !.queue = Append(@, k.next), !.next = @ + 1]
  OBVIOUS
<1>3. crew' = y /\ k.main = "feed" /\ k.next <= OrderLines /\ OrderLines \in Nat
  BY <1>1, <1>2, OrderRecordsAssumption DEF FeedLine, Resolve
<1>4. SoundCrew(k) /\ k \in CrewRow
  BY <1>1 DEF SoundCrew
<1>5. /\ k.queue \in Seq(1..OrderLines) /\ k.next \in 1..OrderLines
  BY <1>3, <1>4 DEF CrewRow
<1>6. /\ Append(k.queue, k.next) \in Seq(1..OrderLines)
      /\ Len(Append(k.queue, k.next)) = Len(k.queue) + 1
      /\ Append(k.queue, k.next)[Len(k.queue) + 1] = k.next
      /\ \A i \in 1..Len(k.queue) : Append(k.queue, k.next)[i] = k.queue[i]
      /\ Len(k.queue) \in Nat
  BY <1>5
<1>11. k.next + 1 \in 1..(OrderLines + 1)
  BY <1>3, <1>5
<1>7. y \in CrewRow /\ y.queue = Append(k.queue, k.next) /\ y.next = k.next + 1 /\ y.main = k.main
      /\ y.errors = k.errors /\ y.rows = k.rows /\ y.lost = k.lost /\ y.line = k.line /\ y.gone = k.gone
  BY <1>2, <1>4, <1>6, <1>11 DEF CrewRow
<1>8. ASSUME y.lost = {}, NEW n \in 1..(y.next - 1) PROVE Kept(y, n)
  <2>1. CASE n = k.next
    <3>1. Len(k.queue) + 1 \in 1..Len(y.queue) /\ y.queue[Len(k.queue) + 1] = n
      BY <1>6, <1>7, <2>1
    <3> QED BY <3>1 DEF Kept
  <2>2. CASE n # k.next
    <3>1. Kept(k, n)
      BY <1>4, <1>5, <1>7, <1>8, <2>2 DEF SoundCrew
    <3>2. 1..Len(k.queue) \subseteq 1..Len(y.queue)
      BY <1>6, <1>7
    <3> QED BY <1>6, <1>7, <3>1, <3>2 DEF Kept
  <2> QED BY <2>1, <2>2
<1>9. Len(y.queue) < y.next
  BY <1>4, <1>5, <1>6, <1>7 DEF SoundCrew
<1>10. SoundCrew(y)
  BY <1>3, <1>4, <1>7, <1>8, <1>9 DEF SoundCrew
<1> QED BY <1>3, <1>10

\* A step that leaves the lines where they are.
LEMMA MainStep ==
  ASSUME SoundCrew(crew), SeeError \/ CloseLines \/ JoinCrew \/ \E w \in Crew : Retire(w)
  PROVE  SoundCrew(crew)'
<1>1. PICK k : k = crew
  OBVIOUS
<1>2. SoundCrew(k) /\ k \in CrewRow /\ OrderLines \in Nat /\ Crew # {}
  BY <1>1, OrderRecordsAssumption DEF SoundCrew
<1>3. CASE SeeError
  <2>1. PICK y : y = [k EXCEPT !.main = "abandon", !.errors = 0]
    OBVIOUS
  <2>2. crew' = y /\ k.main = "feed" /\ k.errors = 1
    BY <1>1, <1>3, <2>1 DEF SeeError, Resolve
  <2>3. y \in CrewRow /\ y.main = "abandon" /\ y.errors = 0 /\ y.queue = k.queue /\ y.next = k.next
        /\ y.rows = k.rows /\ y.lost = k.lost /\ y.line = k.line /\ y.gone = k.gone
    BY <1>2, <2>1 DEF CrewRow
  <2>4. SoundCrew(y)
    BY <1>2, <2>2, <2>3 DEF SoundCrew, Kept
  <2> QED BY <2>2, <2>4
<1>4. CASE CloseLines
  <2>1. PICK y : y = [k EXCEPT !.main = "wait"]
    OBVIOUS
  <2>2. crew' = y /\ k.main = "feed" /\ k.next > OrderLines
    BY <1>1, <1>4, <2>1 DEF CloseLines, Resolve
  <2>3. y \in CrewRow /\ y.main = "wait" /\ y.errors = k.errors /\ y.queue = k.queue /\ y.next = k.next
        /\ y.rows = k.rows /\ y.lost = k.lost /\ y.line = k.line /\ y.gone = k.gone
    BY <1>2, <2>1 DEF CrewRow
  <2>4. k.next = OrderLines + 1
    BY <1>2, <2>2 DEF CrewRow
  <2>5. SoundCrew(y)
    BY <1>2, <2>2, <2>3, <2>4 DEF SoundCrew, Kept
  <2> QED BY <2>2, <2>5
<1>5. CASE JoinCrew
  <2>1. PICK s : s = IF k.main = "abandon" \/ k.errors = 1 THEN "error" ELSE "rows"
    OBVIOUS
  <2>2. PICK y : y = [k EXCEPT !.main = s]
    OBVIOUS
  <2>3. crew' = y /\ k.main \in {"wait", "abandon"} /\ k.gone = Crew
    BY <1>1, <1>5, <2>1, <2>2 DEF JoinCrew, Resolve
  <2>4. y \in CrewRow /\ y.main = s /\ y.errors = k.errors /\ y.queue = k.queue /\ y.next = k.next
        /\ y.rows = k.rows /\ y.lost = k.lost /\ y.line = k.line /\ y.gone = k.gone
    BY <1>2, <2>1, <2>2 DEF CrewRow
  <2>5. s = "error" => k.lost # {}
    BY <1>2, <2>1 DEF SoundCrew
  <2>6. s = "rows" => k.lost = {} /\ k.main = "wait"
    BY <1>2, <2>1, <2>3 DEF SoundCrew
  <2>7. s = "rows" => k.rows = 1..OrderLines /\ k.next = OrderLines + 1
    <3>1. SUFFICES ASSUME s = "rows" PROVE k.rows = 1..OrderLines /\ k.next = OrderLines + 1
      OBVIOUS
    <3>2. k.next = OrderLines + 1 /\ k.queue = <<>> /\ \A w \in Crew : k.line[w] = 0
      BY <1>2, <2>3, <2>6, <3>1 DEF SoundCrew
    <3>3. \A n \in 1..OrderLines : Kept(k, n)
      BY <1>2, <2>6, <3>1, <3>2 DEF SoundCrew
    <3>4. Len(k.queue) = 0
      BY <3>2
    <3>5. \A n \in 1..OrderLines : n \in k.rows
      BY <3>2, <3>3, <3>4 DEF Kept
    <3> QED BY <1>2, <3>2, <3>5 DEF CrewRow
  <2>8. SoundCrew(y)
    <3>1. y.lost # {} <=> y.errors = 1 \/ y.main \in {"abandon", "error"}
      BY <1>2, <2>1, <2>3, <2>4, <2>5, <2>6 DEF SoundCrew
    <3>2. ASSUME NEW n, Kept(k, n) PROVE Kept(y, n)
      BY <2>4, <3>2 DEF Kept
    <3>3. y.main # "wait" /\ y.main # "feed"
      BY <2>1, <2>4
    <3>4. \A v \in y.gone : y.line[v] = 0
      BY <1>2, <2>4 DEF SoundCrew
    <3>5. y.lost = {} => \A n \in 1..(y.next - 1) : Kept(y, n)
      BY <1>2, <2>4, <3>2 DEF SoundCrew
    <3>6. y.lost = {} /\ y.gone # {} => y.queue = <<>>
      BY <1>2, <2>4 DEF SoundCrew
    <3>7. Len(y.queue) < y.next
      BY <1>2, <2>4 DEF SoundCrew
    <3>8. y.main = "rows" => y.rows = 1..OrderLines /\ y.lost = {} /\ y.next = OrderLines + 1
      BY <2>4, <2>6, <2>7
    <3>9. y.gone = Crew
      BY <2>3, <2>4
    <3> QED BY <2>4, <3>1, <3>3, <3>4, <3>5, <3>6, <3>7, <3>8, <3>9 DEF SoundCrew
  <2> QED BY <2>3, <2>8
<1>6. ASSUME NEW w \in Crew, Retire(w) PROVE SoundCrew(crew)'
  <2>1. PICK y : y = [k EXCEPT !.gone = @ \cup {w}]
    OBVIOUS
  <2>2. crew' = y /\ k.line[w] = 0 /\ k.queue = <<>> /\ k.main # "feed"
    BY <1>1, <1>6, <2>1 DEF Retire, Resolve
  <2>3. y \in CrewRow /\ y.main = k.main /\ y.errors = k.errors /\ y.queue = k.queue /\ y.next = k.next
        /\ y.rows = k.rows /\ y.lost = k.lost /\ y.line = k.line /\ y.gone = k.gone \cup {w}
    BY <1>2, <2>1 DEF CrewRow
  <2>4. SoundCrew(y)
    BY <1>2, <2>2, <2>3 DEF SoundCrew, Kept
  <2> QED BY <2>2, <2>4
<1> QED BY <1>3, <1>4, <1>5, <1>6

LEMMA TakeLineStep ==
  ASSUME SoundCrew(crew), NEW w \in Crew, TakeLine(w)
  PROVE  SoundCrew(crew)'
<1>1. PICK k : k = crew
  OBVIOUS
<1>2. PICK y : y = [k EXCEPT !.line[w] = Head(k.queue), !.queue = Tail(@)]
  OBVIOUS
<1>3. crew' = y /\ w \notin k.gone /\ k.line[w] = 0 /\ k.queue # <<>> /\ OrderLines \in Nat
  BY <1>1, <1>2, OrderRecordsAssumption DEF TakeLine, Resolve
<1>4. SoundCrew(k) /\ k \in CrewRow
  BY <1>1 DEF SoundCrew
<1>5. k.queue \in Seq(1..OrderLines) /\ k.line \in [Crew -> 0..OrderLines] /\ k.next \in 1..(OrderLines + 1)
  BY <1>4 DEF CrewRow
<1>6. /\ Head(k.queue) \in 1..OrderLines /\ Head(k.queue) = k.queue[1]
      /\ Tail(k.queue) \in Seq(1..OrderLines)
      /\ Len(k.queue) \in Nat /\ Len(k.queue) >= 1 /\ Len(Tail(k.queue)) = Len(k.queue) - 1
      /\ \A i \in 1..(Len(k.queue) - 1) : Tail(k.queue)[i] = k.queue[i + 1]
  <2>1. \A q \in Seq(1..OrderLines) : q # <<>> => 
          /\ Head(q) \in 1..OrderLines /\ Head(q) = q[1] /\ Tail(q) \in Seq(1..OrderLines)
          /\ Len(q) \in Nat /\ Len(q) >= 1 /\ Len(Tail(q)) = Len(q) - 1
          /\ \A i \in 1..(Len(q) - 1) : Tail(q)[i] = q[i + 1]
    <3>1. SUFFICES ASSUME NEW q \in Seq(1..OrderLines), q # <<>>
                   PROVE  /\ Head(q) \in 1..OrderLines /\ Head(q) = q[1] /\ Tail(q) \in Seq(1..OrderLines)
                          /\ Len(q) \in Nat /\ Len(q) >= 1 /\ Len(Tail(q)) = Len(q) - 1
                          /\ \A i \in 1..(Len(q) - 1) : Tail(q)[i] = q[i + 1]
      OBVIOUS
    <3>2. Len(q) \in Nat /\ Len(q) >= 1
      BY <3>1, EmptySeq
    <3>3. Head(q) = q[1] /\ Head(q) \in 1..OrderLines
      <4>1. Head(q) \in 1..OrderLines
        BY <3>1, HeadTailProperties
      <4>2. Head(q) = q[1]
        BY <3>1
      <4> QED BY <4>1, <4>2
    <3>4. /\ Tail(q) \in Seq(1..OrderLines) /\ Len(Tail(q)) = Len(q) - 1
          /\ \A i \in 1..(Len(q) - 1) : Tail(q)[i] = q[i + 1]
      BY <3>1, HeadTailProperties
    <3> QED BY <3>2, <3>3, <3>4
  <2> QED BY <1>3, <1>5, <2>1
<1>7. PICK line : line = [k.line EXCEPT ![w] = Head(k.queue)]
  OBVIOUS
<1>8. line \in [Crew -> 0..OrderLines] /\ line[w] = Head(k.queue) /\ \A v \in Crew \ {w} : line[v] = k.line[v]
  BY <1>5, <1>6, <1>7
<1>9. y = [k EXCEPT !.line = line, !.queue = Tail(k.queue)]
  BY <1>2, <1>4, <1>7 DEF CrewRow
<1>10. y \in CrewRow /\ y.main = k.main /\ y.errors = k.errors /\ y.queue = Tail(k.queue) /\ y.next = k.next
       /\ y.rows = k.rows /\ y.lost = k.lost /\ y.line = line /\ y.gone = k.gone
  BY <1>4, <1>6, <1>8, <1>9 DEF CrewRow
<1>11. ASSUME y.lost = {}, NEW n \in 1..(y.next - 1) PROVE Kept(y, n)
  <2>1. Kept(k, n) /\ n \in Nat /\ n >= 1
    BY <1>4, <1>5, <1>10, <1>11 DEF SoundCrew
  <2>2. CASE n \in k.rows
    BY <1>10, <2>2 DEF Kept
  <2>3. CASE \E v \in Crew : k.line[v] = n
    <3>1. PICK v \in Crew : k.line[v] = n
      BY <2>3
    <3>2. v # w
      BY <1>3, <2>1, <3>1
    <3> QED BY <1>8, <1>10, <3>1, <3>2 DEF Kept
  <2>4. CASE \E i \in 1..Len(k.queue) : k.queue[i] = n
    <3>1. PICK i \in 1..Len(k.queue) : k.queue[i] = n
      BY <2>4
    <3>2. CASE i = 1
      BY <1>6, <1>8, <1>10, <3>1, <3>2 DEF Kept
    <3>3. CASE i # 1
      <4>1. i - 1 \in 1..Len(y.queue) /\ y.queue[i - 1] = n
        BY <1>6, <1>10, <3>1, <3>3
      <4> QED BY <4>1 DEF Kept
    <3> QED BY <3>2, <3>3
  <2> QED BY <2>1, <2>2, <2>3, <2>4 DEF Kept
<1>12. Len(y.queue) < y.next
  BY <1>4, <1>5, <1>6, <1>10 DEF SoundCrew
<1>13. \A v \in y.gone : y.line[v] = 0
  BY <1>3, <1>4, <1>8, <1>10 DEF SoundCrew, CrewRow
<1>14. y.lost = {} => y.gone = {}
  BY <1>3, <1>4, <1>10 DEF SoundCrew
<1>15. SoundCrew(y)
  BY <1>4, <1>10, <1>11, <1>12, <1>13, <1>14 DEF SoundCrew
<1> QED BY <1>3, <1>15

LEMMA FillLineStep ==
  ASSUME SoundCrew(crew), NEW w \in Crew, FillLine(w)
  PROVE  SoundCrew(crew)'
<1>1. PICK k : k = crew
  OBVIOUS
<1>2. PICK line : line = [k.line EXCEPT ![w] = 0]
  OBVIOUS
<1>3. PICK y : y = [k EXCEPT !.line = line, !.rows = @ \cup {k.line[w]}]
  OBVIOUS
<1>4. SoundCrew(k) /\ k \in CrewRow /\ OrderLines \in Nat
  BY <1>1, OrderRecordsAssumption DEF SoundCrew
<1>5. crew' = y /\ k.line[w] # 0
  BY <1>1, <1>2, <1>3, <1>4 DEF FillLine, Resolve, CrewRow
<1>6. k.line \in [Crew -> 0..OrderLines] /\ k.line[w] \in 1..OrderLines
  BY <1>4, <1>5 DEF CrewRow
<1>7. line \in [Crew -> 0..OrderLines] /\ line[w] = 0 /\ \A v \in Crew \ {w} : line[v] = k.line[v]
  BY <1>2, <1>4, <1>6
<1>8. y \in CrewRow /\ y.main = k.main /\ y.errors = k.errors /\ y.queue = k.queue /\ y.next = k.next
      /\ y.rows = k.rows \cup {k.line[w]} /\ y.lost = k.lost /\ y.line = line /\ y.gone = k.gone
  BY <1>3, <1>4, <1>6, <1>7 DEF CrewRow
<1>9. ASSUME NEW n, Kept(k, n) PROVE Kept(y, n)
  BY <1>7, <1>8, <1>9 DEF Kept
<1>10. k.main = "rows" => y.rows = 1..OrderLines
  BY <1>4, <1>6, <1>8 DEF SoundCrew
<1>11. \A v \in y.gone : y.line[v] = 0
  BY <1>4, <1>7, <1>8 DEF SoundCrew, CrewRow
<1>12. SoundCrew(y)
  BY <1>4, <1>8, <1>9, <1>10, <1>11 DEF SoundCrew
<1> QED BY <1>5, <1>12

LEMMA LoseLineStep ==
  ASSUME SoundCrew(crew), NEW w \in Crew, LoseLine(w)
  PROVE  SoundCrew(crew)'
<1>1. PICK k : k = crew
  OBVIOUS
<1>2. PICK line : line = [k.line EXCEPT ![w] = 0]
  OBVIOUS
<1>3. PICK y : y = [k EXCEPT !.line = line, !.gone = @ \cup {w}, !.errors = 1, !.lost = @ \cup {k.line[w]}]
  OBVIOUS
<1>4. SoundCrew(k) /\ k \in CrewRow /\ OrderLines \in Nat
  BY <1>1, OrderRecordsAssumption DEF SoundCrew
<1>5. crew' = y /\ k.line[w] # 0
  BY <1>1, <1>2, <1>3, <1>4 DEF LoseLine, Resolve, CrewRow
<1>6. k.line \in [Crew -> 0..OrderLines] /\ k.line[w] \in 1..OrderLines
  BY <1>4, <1>5 DEF CrewRow
<1>7. line \in [Crew -> 0..OrderLines] /\ line[w] = 0 /\ \A v \in Crew \ {w} : line[v] = k.line[v]
  BY <1>2, <1>4, <1>6
<1>8. y \in CrewRow /\ y.main = k.main /\ y.errors = 1 /\ y.queue = k.queue /\ y.next = k.next
      /\ y.rows = k.rows /\ y.lost = k.lost \cup {k.line[w]} /\ y.line = line /\ y.gone = k.gone \cup {w}
  BY <1>3, <1>4, <1>6, <1>7 DEF CrewRow
<1>9. k.main # "rows"
  BY <1>4, <1>5 DEF SoundCrew
<1>10. \A v \in y.gone : y.line[v] = 0
  BY <1>4, <1>7, <1>8 DEF SoundCrew, CrewRow
<1>11. SoundCrew(y)
  BY <1>4, <1>8, <1>9, <1>10 DEF SoundCrew
<1> QED BY <1>5, <1>11

LEMMA CrewStep ==
  ASSUME CrewInv, CrewNext
  PROVE  CrewInv'
<1>1. SoundCrew(crew)
  BY CrewSound
<1>2. SoundCrew(crew)'
  BY <1>1, FeedLineStep, MainStep, TakeLineStep, FillLineStep, LoseLineStep DEF CrewNext
<1>3. SoundCrew(crew') => CrewInv'
  <2>1. OrderLines \in Nat
    BY OrderRecordsAssumption
  <2>2. SUFFICES ASSUME SoundCrew(crew') PROVE CrewInv'
    OBVIOUS
  <2>3. CrewAnswers'
    BY <2>1, <2>2 DEF SoundCrew, CrewRow, CrewAnswers
  <2>4. crew'.lost = {} =>
         /\ \A n \in 1..(crew'.next - 1) :
              \/ n \in crew'.rows
              \/ \E w \in Crew : crew'.line[w] = n
              \/ \E i \in 1..Len(crew'.queue) : crew'.queue[i] = n
         /\ crew'.gone # {} => crew'.main # "feed" /\ crew'.queue = <<>>
    BY <2>2 DEF SoundCrew, Kept
  <2> QED BY <2>2, <2>3, <2>4 DEF SoundCrew, CrewInv, CrewRow
<1> QED BY <1>2, <1>3

LEMMA RecordsStep ==
  ASSUME OrdersInv, CrewInv, [RecordNext \/ CrewNext]_recordVars
  PROVE  OrdersInv' /\ CrewInv'
<1>1. ASSUME crew' = crew PROVE CrewInv'
  BY <1>1 DEF CrewInv, CrewAnswers
<1>2. CASE RecordNext
  <2>1. PICK c \in Clerks :
          \/ AskOrder(c) \/ LoadOrder(c) \/ MergeUpdate(c) \/ SaveOrder(c) \/ AddStatus(c)
          \/ AddRemark(c) \/ MergeRemark(c) \/ SaveRemark(c) \/ EraseRemark(c)
          \/ RereadOrder(c) \/ AnnounceOrder(c) \/ AbandonOrder(c)
          \/ \E o \in Sheets : CreateOrder(c, o)
    BY <1>2 DEF RecordNext
  <2>2. AskOrder(c) => crew' = crew
    BY Zenon DEF AskOrder, AskUpdate, AskStatus, AskRemark, Serve
  <2>3. LoadOrder(c) \/ RereadOrder(c) => crew' = crew
    BY DEF LoadOrder, RereadOrder, Serve
  <2>4. MergeUpdate(c) => crew' = crew
    BY Zenon DEF MergeUpdate, Serve
  <2>5. MergeRemark(c) => crew' = crew
    BY Zenon DEF MergeRemark, Serve
  <2>6. SaveOrder(c) \/ AddStatus(c) => crew' = crew
    BY DEF SaveOrder, AddStatus
  <2>7. AddRemark(c) \/ SaveRemark(c) \/ EraseRemark(c) => crew' = crew
    BY DEF AddRemark, SaveRemark, EraseRemark
  <2>8. AnnounceOrder(c) \/ AbandonOrder(c) \/ (\E o \in Sheets : CreateOrder(c, o)) => crew' = crew
    BY Zenon DEF AnnounceOrder, AbandonOrder, CreateOrder
  <2>9. crew' = crew
    BY <2>1, <2>2, <2>3, <2>4, <2>5, <2>6, <2>7, <2>8
  <2> QED BY <1>1, <1>2, <2>9, OrdersStep
<1>3. CASE CrewNext
  <2>1. FeedLine \/ SeeError \/ CloseLines \/ JoinCrew => UNCHANGED sheetVars
    BY DEF FeedLine, SeeError, CloseLines, JoinCrew, Resolve
  <2>2. \A w \in Crew : TakeLine(w) \/ FillLine(w) \/ LoseLine(w) \/ Retire(w) => UNCHANGED sheetVars
    BY DEF TakeLine, FillLine, LoseLine, Retire, Resolve
  <2>3. UNCHANGED sheetVars
    BY <1>3, <2>1, <2>2 DEF CrewNext
  <2> QED BY <1>3, <2>3, OrdersStutter, CrewStep
<1>4. CASE UNCHANGED recordVars
  BY <1>1, <1>4, OrdersStutter DEF recordVars
<1> QED BY <1>2, <1>3, <1>4

-----------------------------------------------------------------------------

\* A comment's number keeps its order, an order as it is was told or will be, and
\* no line of a list is mislaid.
THEOREM RecordsInvariant == RecordSpec => [](OrdersInv /\ CrewInv)
<1>1. RecordInit => OrdersInv /\ CrewInv
  BY RecordStart, CrewStart
<1>2. OrdersInv /\ CrewInv /\ [RecordNext \/ CrewNext]_recordVars => OrdersInv' /\ CrewInv'
  BY RecordsStep
<1> QED BY <1>1, <1>2, PTL DEF RecordSpec

\* However requests overlap, fail or die, a deleted comment stays deleted, the last
\* state of an order is told or known to be untold, and resolving the lines of an
\* order gives all of them or an error that happened.
THEOREM RecordsAreSafe == RecordSpec => []RecordSafety
<1>1. OrdersInv /\ CrewInv => RecordSafety
  BY OrdersSafe DEF RecordSafety, CrewInv
<1> QED BY <1>1, RecordsInvariant, PTL

-----------------------------------------------------------------------------
LEMMA FactStart ==
  ASSUME FactInit
  PROVE  FactInv
<1>1. NoOrder \in Sheet /\ NoOrder.stamp = 0 /\ NoOrder.status = 0
  BY DEF NoOrder, NoLines, Sheet
<1>2. \A s \in Skus : NoOrder.items[s] = 0
  BY DEF NoOrder, NoLines
<1>3. NoChange \in Change /\ NoChange.phase = "idle"
  BY <1>1 DEF NoChange, Change, Topics
<1>4. \A t \in FactTasks : changes[t] = NoChange
  BY DEF FactInit
<1>5. \A s \in Seeders : seeds[s] = [phase |-> "idle", read |-> NoOrder]
  BY DEF FactInit
<1>6. FactTypes
  <2>1. changes \in [FactTasks -> Change]
    BY <1>3 DEF FactInit
  <2>2. seeds \in [Seeders -> Seeding]
    BY <1>1 DEF FactInit, Seeding
  <2>3. itemRows \in [Skus -> [stamp : Nat, line : Nat]]
    BY DEF FactInit
  <2>4. parked \in BOOLEAN
    BY DEF FactInit
  <2>5. order = NoOrder /\ orderRow = NoOrder /\ seeded = 0
    BY DEF FactInit
  <2>6. seeded \in 0..order.stamp /\ ~(order.stamp > 0)
    BY <1>1, <2>5
  <2> QED BY <1>1, <2>1, <2>2, <2>3, <2>4, <2>5, <2>6 DEF FactTypes
<1>7. RowsFit
  BY <1>1, <1>2 DEF RowsFit, FactInit
<1>8. \A t \in FactTasks : ChangeInv(changes[t])
  BY <1>3, <1>4 DEF ChangeInv
<1>9. \A s \in Seeders : SeedingInv(seeds[s])
  BY <1>5 DEF SeedingInv
<1>10. CopyIsCurrent
  BY <1>1, <1>2 DEF CopyIsCurrent, FactInit
<1> QED BY <1>6, <1>7, <1>8, <1>9, <1>10 DEF FactInv

LEMMA FactSafe ==
  ASSUME FactInv
  PROVE  AnalyticsSafety
<1>1. AtRest => \A t \in FactTasks : ~Brings(changes[t])
  BY DEF AtRest, Brings
<1> QED BY <1>1 DEF FactInv, AnalyticsSafety

\* A row that was read as it is now reaches orders_fact.
LEMMA RowArrives ==
  ASSUME FactInv, NEW r \in Sheet, Whole(r), orderRow' = Replacing(r, orderRow),
         UNCHANGED <<order, itemRows>>
  PROVE  /\ orderRow' \in Sheet /\ orderRow'.stamp >= r.stamp
         /\ orderRow'.stamp >= orderRow.stamp
         /\ RowsFit' /\ (CopyIsCurrent => CopyIsCurrent')
<1>1. order \in Sheet /\ orderRow \in Sheet
  BY DEF FactInv, FactTypes
<1>2. r.stamp \in 1..order.stamp /\ r.status \in 1..order.status
  BY DEF Whole, HasStamp, HasStatus
<1>3. order.stamp \in Nat /\ orderRow.stamp \in Nat /\ r.stamp \in Nat /\ order.status \in Nat
  BY <1>1 DEF Sheet
<1>4. orderRow' \in Sheet /\ orderRow'.stamp >= r.stamp /\ orderRow'.stamp >= orderRow.stamp
  BY <1>1, <1>3 DEF Replacing
<1>5. RowsFit
  BY DEF FactInv
<1>6. orderRow'.stamp <= order.stamp
  BY <1>2, <1>3, <1>5 DEF Replacing, RowsFit
<1>7. orderRow'.status \in IF orderRow'.stamp = 0 THEN {0} ELSE 1..order.status
  <2>1. CASE r.stamp >= orderRow.stamp
    BY <1>2, <1>3, <2>1 DEF Replacing
  <2>2. CASE ~(r.stamp >= orderRow.stamp)
    BY <1>2, <1>3, <1>5, <2>2 DEF Replacing, RowsFit
  <2> QED BY <2>1, <2>2
<1>8. RowsFit'
  BY <1>5, <1>6, <1>7 DEF RowsFit
<1>9. CopyIsCurrent => CopyIsCurrent'
  <2>1. ASSUME CopyIsCurrent PROVE orderRow'.stamp = order.stamp
    <3>1. orderRow.stamp = order.stamp
      BY <2>1 DEF CopyIsCurrent
    <3>2. orderRow'.stamp \in Nat
      BY <1>4 DEF Sheet
    <3> QED BY <1>3, <1>4, <1>6, <3>1, <3>2
  <2> QED BY <1>7, <2>1 DEF CopyIsCurrent
<1> QED BY <1>4, <1>8, <1>9

\* Its lines reach order_items_fact: those of the latest update complete the copy.
LEMMA LinesArrive ==
  ASSUME FactInv, NEW r \in Sheet, Whole(r), itemRows' = WithLines(r),
         UNCHANGED <<order, orderRow>>
  PROVE  /\ itemRows' \in [Skus -> [stamp : Nat, line : Nat]]
         /\ RowsFit' /\ (CopyIsCurrent => CopyIsCurrent')
         /\ r.stamp = order.stamp /\ orderRow.stamp >= r.stamp => CopyIsCurrent'
<1>1. order \in Sheet /\ orderRow \in Sheet /\ itemRows \in [Skus -> [stamp : Nat, line : Nat]]
  BY DEF FactInv, FactTypes
<1>2. r.stamp \in 1..order.stamp /\ (r.stamp = order.stamp => r.items = order.items)
  BY DEF Whole, HasStamp, HasLines
<1>3. order.stamp \in Nat /\ orderRow.stamp \in Nat /\ r.stamp \in Nat /\ order.status \in Nat
  BY <1>1 DEF Sheet
<1>4. \A s \in Skus : r.items[s] \in Nat /\ order.items[s] \in Nat
  BY <1>1 DEF Sheet
<1>5. \A s \in Skus : itemRows'[s] =
        IF r.items[s] # 0 /\ r.stamp >= itemRows[s].stamp
        THEN [stamp |-> r.stamp, line |-> r.items[s]] ELSE itemRows[s]
  BY DEF WithLines, Replacing
<1>6. itemRows' \in [Skus -> [stamp : Nat, line : Nat]]
  <2>1. itemRows' = [s \in Skus |-> itemRows'[s]]
    BY DEF WithLines
  <2>2. ASSUME NEW s \in Skus PROVE itemRows'[s] \in [stamp : Nat, line : Nat]
    <3>1. itemRows[s] \in [stamp : Nat, line : Nat]
      BY <1>1
    <3>2. [stamp |-> r.stamp, line |-> r.items[s]] \in [stamp : Nat, line : Nat]
      BY <1>3, <1>4
    <3> QED BY <1>5, <3>1, <3>2
  <2> QED BY <2>1, <2>2
<1>7. RowsFit
  BY DEF FactInv
<1>8. \A s \in Skus : /\ itemRows[s].stamp \in Nat /\ itemRows[s].stamp <= order.stamp
                      /\ itemRows[s].stamp = order.stamp => itemRows[s].line = order.items[s]
                      /\ itemRows[s] = [stamp |-> itemRows[s].stamp, line |-> itemRows[s].line]
  BY <1>1, <1>7 DEF RowsFit
<1>9. RowsFit'
  <2>1. ASSUME NEW s \in Skus
        PROVE  /\ itemRows'[s].stamp <= order.stamp
               /\ itemRows'[s].stamp = order.stamp => itemRows'[s].line = order.items[s]
    <3>1. CASE r.items[s] # 0 /\ r.stamp >= itemRows[s].stamp
      <4>1. itemRows'[s] = [stamp |-> r.stamp, line |-> r.items[s]]
        BY <1>5, <3>1
      <4> QED BY <1>2, <1>3, <4>1
    <3>2. CASE ~(r.items[s] # 0 /\ r.stamp >= itemRows[s].stamp)
      <4>1. itemRows'[s] = itemRows[s]
        BY <1>5, <3>2
      <4> QED BY <1>8, <4>1
    <3> QED BY <3>1, <3>2
  <2> QED BY <1>7, <2>1 DEF RowsFit
<1>10. ASSUME CopyIsCurrent PROVE CopyIsCurrent'
  <2>1. ASSUME NEW s \in Skus, order.items[s] # 0
        PROVE  itemRows'[s] = [stamp |-> order.stamp, line |-> order.items[s]]
    <3>1. itemRows[s] = [stamp |-> order.stamp, line |-> order.items[s]]
      BY <1>10, <2>1 DEF CopyIsCurrent
    <3>2. r.stamp = order.stamp \/ ~(r.stamp >= itemRows[s].stamp)
      BY <1>2, <1>3, <3>1
    <3>3. CASE r.stamp = order.stamp
      BY <1>2, <1>5, <3>1, <3>3
    <3>4. CASE ~(r.stamp >= itemRows[s].stamp)
      BY <1>5, <3>1, <3>4
    <3> QED BY <3>2, <3>3, <3>4
  <2> QED BY <1>10, <2>1 DEF CopyIsCurrent
<1>11. ASSUME r.stamp = order.stamp, orderRow.stamp >= r.stamp PROVE CopyIsCurrent'
  <2>1. orderRow.stamp = order.stamp
    BY <1>3, <1>7, <1>11 DEF RowsFit
  <2>2. ASSUME NEW s \in Skus, order.items[s] # 0
        PROVE  itemRows'[s] = [stamp |-> order.stamp, line |-> order.items[s]]
    <3>1. r.items[s] # 0 /\ r.stamp >= itemRows[s].stamp
      BY <1>2, <1>8, <1>11, <2>2
    <3> QED BY <1>2, <1>5, <1>11, <3>1
  <2> QED BY <1>7, <2>1, <2>2 DEF CopyIsCurrent, RowsFit
<1> QED BY <1>6, <1>9, <1>10, <1>11

\* As long as the order stays and its row does not go back, what a request or a
\* seeding has read stays what it was.
LEMMA ReadsStay ==
  ASSUME FactInv, UNCHANGED order, orderRow' \in Sheet, orderRow'.stamp >= orderRow.stamp
  PROVE  /\ \A t \in FactTasks : changes'[t] = changes[t] => ChangeInv(changes[t])'
         /\ \A s \in Seeders : seeds'[s] = seeds[s] => SeedingInv(seeds[s])'
<1>1. orderRow.stamp \in Nat /\ orderRow'.stamp \in Nat
  BY DEF FactInv, FactTypes, Sheet
<1>2. ASSUME NEW t \in FactTasks, changes'[t] = changes[t] PROVE ChangeInv(changes[t])'
  <2>1. ChangeInv(changes[t]) /\ changes[t].read.stamp \in Nat
    BY DEF FactInv, FactTypes, Change, Sheet
  <2> QED BY <1>1, <1>2, <2>1 DEF ChangeInv, Whole, HasStamp, HasLines, HasStatus
<1>3. ASSUME NEW s \in Seeders, seeds'[s] = seeds[s] PROVE SeedingInv(seeds[s])'
  <2>1. SeedingInv(seeds[s]) /\ seeds[s].read.stamp \in Nat
    BY DEF FactInv, FactTypes, Seeding, Sheet
  <2> QED BY <1>1, <1>3, <2>1 DEF SeedingInv, Whole, HasStamp, HasLines, HasStatus
<1> QED BY <1>2, <1>3

\* A request moves on and leaves the order and the rows as they are: it still brings
\* the latest update if it did, unless its event is parked.
LEMMA ChangeMoves ==
  ASSUME FactInv, NEW t \in FactTasks, NEW c \in Change,
         changes' = [changes EXCEPT ![t] = c], ChangeInv(c),
         UNCHANGED <<order, orderRow, itemRows, seedVars>>,
         parked' \in BOOLEAN, parked => parked',
         parked' \/ (Brings(changes[t]) => Brings(c))
  PROVE  FactInv'
<1>1. changes \in [FactTasks -> Change] /\ orderRow \in Sheet /\ orderRow.stamp \in Nat
  BY DEF FactInv, FactTypes, Sheet
<1>2. changes'[t] = c /\ \A u \in FactTasks \ {t} : changes'[u] = changes[u]
  BY <1>1
<1>3. FactTypes'
  BY <1>1 DEF FactInv, FactTypes, seedVars
<1>4. RowsFit' /\ (CopyIsCurrent => CopyIsCurrent') /\ (seeded' = order'.stamp => CopyIsCurrent')
  BY DEF FactInv, RowsFit, CopyIsCurrent, seedVars
<1>5. orderRow'.stamp >= orderRow.stamp /\ orderRow' \in Sheet
  BY <1>1
<1>6. /\ \A u \in FactTasks : changes'[u] = changes[u] => ChangeInv(changes[u])'
      /\ \A s \in Seeders : seeds'[s] = seeds[s] => SeedingInv(seeds[s])'
  BY <1>5, ReadsStay
<1>7. ChangeInv(changes[t])'
  BY <1>2 DEF ChangeInv, Whole, HasStamp, HasLines, HasStatus
<1>8. \A u \in FactTasks : ChangeInv(changes[u])'
  BY <1>2, <1>6, <1>7
<1>9. \A s \in Seeders : SeedingInv(seeds[s])'
  BY <1>6 DEF seedVars
<1>10. ASSUME NEW u \in FactTasks, Brings(changes[u]), ~parked' PROVE Brings(changes[u])'
  BY <1>2, <1>10 DEF Brings
<1>11. parked' \/ CopyIsCurrent' \/ \E u \in FactTasks : Brings(changes[u])'
  BY <1>4, <1>10 DEF FactInv
<1> QED BY <1>3, <1>4, <1>8, <1>9, <1>11 DEF FactInv

LEMMA CommentStep ==
  ASSUME FactInv, NEW t \in FactTasks, Comment(t)
  PROVE  FactInv'
<1>1. PICK c : c = [NoChange EXCEPT !.phase = "changed", !.topic = "updated"]
  OBVIOUS
<1>2. NoChange \in Change
  BY DEF NoChange, Change, Topics, NoOrder, NoLines, Sheet
<1>3. c \in Change /\ c.phase = "changed"
  BY <1>1, <1>2 DEF Change, Topics
<1>4. ChangeInv(c) /\ Brings(c)
  BY <1>3 DEF Comment, ChangeInv, Brings
<1>5. changes' = [changes EXCEPT ![t] = c]
  BY <1>1 DEF Comment, Changed
<1>6. UNCHANGED <<order, orderRow, itemRows, parked, seedVars>>
  BY DEF Comment
<1> QED BY <1>3, <1>4, <1>5, <1>6, ChangeMoves DEF FactInv, FactTypes

LEMMA ReadSteps ==
  ASSUME FactInv, NEW t \in FactTasks,
         ReadOrder(t) \/ ReadLines(t) \/ ReadHistory(t) \/ Deliver(t)
  PROVE  FactInv'
<1>1. changes[t] \in Change /\ ChangeInv(changes[t]) /\ changes \in [FactTasks -> Change]
  BY DEF FactInv, FactTypes
<1>2. order \in Sheet /\ (order.stamp > 0 => order.status > 0)
  BY DEF FactInv, FactTypes
<1>3. order.stamp \in Nat /\ order.status \in Nat
  BY <1>2 DEF Sheet
<1>4. PICK a : a = changes[t]
  OBVIOUS
<1>5. a \in Change /\ a.read \in Sheet /\ ChangeInv(a)
  BY <1>1, <1>4 DEF Change
<1>6. parked \in BOOLEAN
  BY DEF FactInv, FactTypes
<1>7. CASE ReadOrder(t)
  <2>1. PICK c : c = [a EXCEPT !.phase = "row", !.read.stamp = order.stamp]
    OBVIOUS
  <2>2. [a.read EXCEPT !.stamp = order.stamp] \in Sheet
    BY <1>3, <1>5 DEF Sheet
  <2>3. c \in Change /\ c.phase = "row" /\ c.read.stamp = order.stamp
    BY <1>5, <2>1, <2>2 DEF Change, Sheet
  <2>4. order.stamp > 0
    BY <1>5, <1>7, <1>4 DEF ReadOrder, ChangeInv
  <2>5. ChangeInv(c) /\ Brings(c)
    BY <1>3, <2>3, <2>4 DEF ChangeInv, Brings, HasStamp
  <2>6. changes' = [changes EXCEPT ![t] = c]
    BY <1>1, <1>4, <1>7, <2>1 DEF ReadOrder
  <2>7. UNCHANGED <<order, orderRow, itemRows, parked, seedVars>>
    BY <1>7 DEF ReadOrder
  <2> QED BY <1>6, <2>3, <2>5, <2>6, <2>7, ChangeMoves
<1>8. CASE ReadLines(t)
  <2>1. PICK c : c = [a EXCEPT !.phase = "lines", !.read.items = order.items]
    OBVIOUS
  <2>2. [a.read EXCEPT !.items = order.items] \in Sheet
    BY <1>2, <1>5 DEF Sheet
  <2>3. c \in Change /\ c.phase = "lines" /\ c.read.stamp = a.read.stamp
           /\ c.read.items = order.items
    BY <1>5, <2>1, <2>2 DEF Change, Sheet
  <2>4. a.phase = "row"
    BY <1>4, <1>8 DEF ReadLines
  <2>5. ChangeInv(c) /\ (Brings(a) => Brings(c))
    BY <1>5, <2>3, <2>4 DEF ChangeInv, Brings, HasStamp, HasLines
  <2>6. changes' = [changes EXCEPT ![t] = c]
    BY <1>1, <1>4, <1>8, <2>1 DEF ReadLines
  <2>7. UNCHANGED <<order, orderRow, itemRows, parked, seedVars>>
    BY <1>8 DEF ReadLines
  <2> QED BY <1>4, <1>6, <2>3, <2>5, <2>6, <2>7, ChangeMoves
<1>9. CASE ReadHistory(t)
  <2>1. PICK c : c = [a EXCEPT !.phase = "publish", !.read.status = order.status]
    OBVIOUS
  <2>2. [a.read EXCEPT !.status = order.status] \in Sheet
    BY <1>3, <1>5 DEF Sheet
  <2>3. c \in Change /\ c.phase = "publish" /\ c.read.stamp = a.read.stamp
           /\ c.read.items = a.read.items /\ c.read.status = order.status
    BY <1>5, <2>1, <2>2 DEF Change, Sheet
  <2>4. a.phase = "lines"
    BY <1>4, <1>9 DEF ReadHistory
  <2>5. HasStatus(c.read)
    BY <1>2, <1>3, <1>5, <2>3, <2>4 DEF ChangeInv, HasStatus
  <2>6. ChangeInv(c) /\ (Brings(a) => Brings(c))
    BY <1>5, <2>3, <2>4, <2>5 DEF ChangeInv, Brings, Whole, HasStamp, HasLines
  <2>7. changes' = [changes EXCEPT ![t] = c]
    BY <1>1, <1>4, <1>9, <2>1 DEF ReadHistory
  <2>8. UNCHANGED <<order, orderRow, itemRows, parked, seedVars>>
    BY <1>9 DEF ReadHistory
  <2> QED BY <1>4, <1>6, <2>3, <2>6, <2>7, <2>8, ChangeMoves
<1>10. CASE Deliver(t)
  <2>1. PICK c : c = [a EXCEPT !.phase = "orders"]
    OBVIOUS
  <2>2. c \in Change /\ c.phase = "orders" /\ c.read = a.read
    BY <1>5, <2>1 DEF Change
  <2>3. a.phase = "publish"
    BY <1>4, <1>10 DEF Deliver
  <2>4. ChangeInv(c) /\ (Brings(a) => Brings(c))
    BY <1>5, <2>2, <2>3 DEF ChangeInv, Brings
  <2>5. changes' = [changes EXCEPT ![t] = c]
    BY <1>1, <1>4, <1>10, <2>1 DEF Deliver
  <2>6. UNCHANGED <<order, orderRow, itemRows, parked, seedVars>>
    BY <1>10 DEF Deliver
  <2> QED BY <1>4, <1>6, <2>2, <2>4, <2>5, <2>6, ChangeMoves
<1> QED BY <1>7, <1>8, <1>9, <1>10

LEMMA FailStep ==
  ASSUME FactInv, NEW t \in FactTasks, FailIngest(t)
  PROVE  FactInv'
<1>1. changes[t] \in Change /\ ChangeInv(changes[t]) /\ changes \in [FactTasks -> Change]
  BY DEF FactInv, FactTypes
<1>2. PICK a : a = changes[t]
  OBVIOUS
<1>3. a \in Change /\ a.tries \in Nat /\ ChangeInv(a) /\ a.phase \in {"orders", "items"}
  BY <1>1, <1>2 DEF Change, FailIngest
<1>4. UNCHANGED <<order, orderRow, itemRows, seedVars>> /\ parked \in BOOLEAN
  BY DEF FailIngest, FactInv, FactTypes
<1>5. CASE changes[t].tries + 1 < FactTries
  <2>1. PICK c : c = [a EXCEPT !.phase = "orders", !.tries = a.tries + 1]
    OBVIOUS
  <2>2. c \in Change /\ c.phase = "orders" /\ c.read = a.read
    <3>1. PICK n \in Nat : n = a.tries + 1
      BY <1>3
    <3>2. c = [a EXCEPT !.phase = "orders", !.tries = n]
      BY <2>1, <3>1
    <3> QED BY <1>3, <3>2 DEF Change
  <2>3. ChangeInv(c) /\ (Brings(a) => Brings(c))
    BY <1>3, <2>2 DEF ChangeInv, Brings
  <2>4. changes' = [changes EXCEPT ![t] = c] /\ UNCHANGED parked
    BY <1>1, <1>2, <1>5, <2>1 DEF FailIngest
  <2> QED BY <1>2, <1>4, <2>2, <2>3, <2>4, ChangeMoves
<1>6. CASE ~(changes[t].tries + 1 < FactTries)
  <2>1. PICK c : c = NoChange
    OBVIOUS
  <2>2. c \in Change /\ ChangeInv(c)
    BY <2>1 DEF NoChange, Change, Topics, NoOrder, NoLines, Sheet, ChangeInv
  <2>3. changes' = [changes EXCEPT ![t] = c] /\ parked' = TRUE
    BY <1>6, <2>1 DEF FailIngest
  <2> QED BY <1>4, <2>2, <2>3, ChangeMoves
<1> QED BY <1>5, <1>6

LEMMA UpsertOrdersStep ==
  ASSUME FactInv, NEW t \in FactTasks, UpsertOrders(t)
  PROVE  FactInv'
<1>1. changes[t] \in Change /\ ChangeInv(changes[t]) /\ changes \in [FactTasks -> Change]
  BY DEF FactInv, FactTypes
<1>2. PICK r \in Sheet : r = changes[t].read
  BY <1>1 DEF Change
<1>3. Whole(r) /\ orderRow' = Replacing(r, orderRow) /\ UNCHANGED <<order, itemRows>>
  BY <1>1, <1>2 DEF UpsertOrders, ChangeInv
<1>4. /\ orderRow' \in Sheet /\ orderRow'.stamp >= r.stamp /\ orderRow'.stamp >= orderRow.stamp
      /\ RowsFit' /\ (CopyIsCurrent => CopyIsCurrent')
  BY <1>2, <1>3, RowArrives
<1>5. PICK a : a = changes[t]
  OBVIOUS
<1>6. PICK c : c = [a EXCEPT !.phase = "items"]
  OBVIOUS
<1>7. c \in Change /\ c.phase = "items" /\ c.read = r /\ changes' = [changes EXCEPT ![t] = c]
  BY <1>1, <1>2, <1>5, <1>6 DEF UpsertOrders, Change
<1>8. changes'[t] = c /\ \A u \in FactTasks \ {t} : changes'[u] = changes[u]
  BY <1>1, <1>7
<1>9. FactTypes'
  BY <1>1, <1>3, <1>4, <1>7 DEF UpsertOrders, FactInv, FactTypes, seedVars
<1>10. /\ \A u \in FactTasks : changes'[u] = changes[u] => ChangeInv(changes[u])'
       /\ \A s \in Seeders : seeds'[s] = seeds[s] => SeedingInv(seeds[s])'
  BY <1>3, <1>4, ReadsStay
<1>11. ChangeInv(changes[t])'
  <2>1. Whole(r)' /\ order.stamp > 0
    <3>1. order.stamp \in Nat
      BY DEF FactInv, FactTypes, Sheet
    <3> QED BY <1>3, <3>1 DEF Whole, HasStamp, HasLines, HasStatus
  <2>2. changes'[t].phase = "items" /\ changes'[t].read = r
    BY <1>7, <1>8
  <2>3. orderRow'.stamp >= r.stamp /\ order' = order
    BY <1>3, <1>4
  <2> QED BY <2>1, <2>2, <2>3 DEF ChangeInv
<1>12. \A u \in FactTasks : ChangeInv(changes[u])'
  BY <1>8, <1>10, <1>11
<1>13. \A s \in Seeders : SeedingInv(seeds[s])'
  BY <1>10 DEF UpsertOrders, seedVars
<1>14. ASSUME NEW u \in FactTasks, Brings(changes[u]) PROVE Brings(changes[u])'
  <2>1. CASE u = t
    BY <1>2, <1>3, <1>7, <1>8, <1>14, <2>1 DEF Brings, UpsertOrders
  <2>2. CASE u # t
    BY <1>3, <1>8, <1>14, <2>2 DEF Brings
  <2> QED BY <2>1, <2>2
<1>15. parked' \/ CopyIsCurrent' \/ \E u \in FactTasks : Brings(changes[u])'
  BY <1>4, <1>14 DEF FactInv, UpsertOrders
<1>16. seeded' = order'.stamp => CopyIsCurrent'
  BY <1>3, <1>4 DEF FactInv, UpsertOrders, seedVars
<1> QED BY <1>4, <1>9, <1>12, <1>13, <1>15, <1>16 DEF FactInv

\* The request that brought the latest update has made the copy current.
LEMMA UpsertOrderItemsStep ==
  ASSUME FactInv, NEW t \in FactTasks, UpsertOrderItems(t)
  PROVE  FactInv'
<1>1. changes[t] \in Change /\ ChangeInv(changes[t]) /\ changes \in [FactTasks -> Change]
  BY DEF FactInv, FactTypes
<1>2. PICK r \in Sheet : r = changes[t].read
  BY <1>1 DEF Change
<1>3. Whole(r) /\ itemRows' = WithLines(r) /\ UNCHANGED <<order, orderRow>>
  BY <1>1, <1>2 DEF UpsertOrderItems, ChangeInv
<1>4. orderRow.stamp >= r.stamp /\ orderRow \in Sheet /\ orderRow.stamp \in Nat
  BY <1>1, <1>2 DEF UpsertOrderItems, ChangeInv, FactInv, FactTypes, Sheet
<1>5. /\ itemRows' \in [Skus -> [stamp : Nat, line : Nat]]
      /\ RowsFit' /\ (CopyIsCurrent => CopyIsCurrent')
      /\ r.stamp = order.stamp => CopyIsCurrent'
  BY <1>2, <1>3, <1>4, LinesArrive
<1>6. NoChange \in Change /\ NoChange.phase = "idle" /\ changes' = [changes EXCEPT ![t] = NoChange]
  BY DEF UpsertOrderItems, NoChange, Change, Topics, NoOrder, NoLines, Sheet
<1>7. changes'[t] = NoChange /\ \A u \in FactTasks \ {t} : changes'[u] = changes[u]
  BY <1>1, <1>6
<1>8. FactTypes'
  BY <1>1, <1>3, <1>5, <1>6 DEF UpsertOrderItems, FactInv, FactTypes, seedVars
<1>9. /\ \A u \in FactTasks : changes'[u] = changes[u] => ChangeInv(changes[u])'
      /\ \A s \in Seeders : seeds'[s] = seeds[s] => SeedingInv(seeds[s])'
  BY <1>3, <1>4, ReadsStay
<1>10. ChangeInv(changes[t])'
  BY <1>6, <1>7 DEF ChangeInv
<1>11. \A u \in FactTasks : ChangeInv(changes[u])'
  BY <1>7, <1>9, <1>10
<1>12. \A s \in Seeders : SeedingInv(seeds[s])'
  BY <1>9 DEF UpsertOrderItems, seedVars
<1>13. ASSUME NEW u \in FactTasks, Brings(changes[u])
       PROVE  CopyIsCurrent' \/ Brings(changes[u])'
  <2>1. CASE u = t
    BY <1>2, <1>5, <1>13, <2>1 DEF Brings, UpsertOrderItems
  <2>2. CASE u # t
    BY <1>3, <1>7, <1>13, <2>2 DEF Brings
  <2> QED BY <2>1, <2>2
<1>14. parked' \/ CopyIsCurrent' \/ \E u \in FactTasks : Brings(changes[u])'
  BY <1>5, <1>13 DEF FactInv, UpsertOrderItems
<1>15. seeded' = order'.stamp => CopyIsCurrent'
  BY <1>3, <1>5 DEF FactInv, UpsertOrderItems, seedVars
<1> QED BY <1>5, <1>8, <1>11, <1>12, <1>14, <1>15 DEF FactInv

\* A new update is nobody's but the writer's, who brings it.
LEMMA WriteOrderStep ==
  ASSUME FactInv, NEW t \in FactTasks, NEW lines \in SUBSET Skus, WriteOrder(t, lines)
  PROVE  FactInv'
<1>1. /\ order \in Sheet /\ orderRow \in Sheet /\ changes \in [FactTasks -> Change]
      /\ seeds \in [Seeders -> Seeding] /\ seeded \in 0..order.stamp
      /\ (order.stamp > 0 => order.status > 0)
      /\ itemRows \in [Skus -> [stamp : Nat, line : Nat]] /\ parked \in BOOLEAN
  BY DEF FactInv, FactTypes
<1>2. PICK n \in Nat : n = order.stamp
  BY <1>1 DEF Sheet
<1>3. PICK k \in Nat : k = IF n = 0 THEN 1 ELSE order.status
  BY <1>1 DEF Sheet
<1>4. PICK its \in [Skus -> Nat] : its = [s \in Skus |-> IF s \in lines THEN n + 1 ELSE 0]
  <2>1. n + 1 \in Nat
    BY <1>2
  <2> QED BY <2>1
<1>5. order' = [stamp |-> n + 1, status |-> k, items |-> its]
  BY <1>2, <1>3, <1>4 DEF WriteOrder
<1>6. order' \in Sheet /\ order'.stamp = n + 1 /\ order'.status = k /\ n + 1 \in Nat
  BY <1>2, <1>5 DEF Sheet
<1>7. k > 0 /\ (n > 0 => k = order.status)
  BY <1>1, <1>2, <1>3
<1>9. NoChange \in Change
  BY DEF NoChange, Change, Topics, NoOrder, NoLines, Sheet
<1>10. PICK d : d = [NoChange EXCEPT !.phase = "changed",
                      !.topic = IF order.stamp = 0 THEN "created" ELSE "updated"]
  OBVIOUS
<1>11. d \in Change /\ d.phase = "changed"
  <2>1. (IF order.stamp = 0 THEN "created" ELSE "updated") \in Topics
    BY DEF Topics
  <2>2. PICK x \in Topics : x = IF order.stamp = 0 THEN "created" ELSE "updated"
    BY <2>1
  <2> QED BY <1>9, <1>10, <2>2 DEF Change
<1>12. changes' = [changes EXCEPT ![t] = d]
  BY <1>10 DEF WriteOrder, Changed
<1>13. changes'[t] = d /\ \A u \in FactTasks \ {t} : changes'[u] = changes[u]
  BY <1>1, <1>12
<1>14. UNCHANGED <<orderRow, itemRows, parked, seeds, seeded>>
  BY DEF WriteOrder, seedVars
<1>15. seeded' \in 0..order'.stamp /\ seeded' # order'.stamp
  BY <1>1, <1>2, <1>6, <1>14
<1>16. FactTypes'
  <2>1. changes' \in [FactTasks -> Change]
    BY <1>1, <1>11, <1>12
  <2> QED BY <1>1, <1>6, <1>7, <1>14, <1>15, <2>1 DEF FactTypes
<1>17. RowsFit'
  <2>1. RowsFit /\ orderRow.stamp \in Nat
    BY <1>1 DEF FactInv, Sheet
  <2>2. orderRow.stamp <= n + 1
    BY <1>2, <2>1 DEF RowsFit
  <2>3. orderRow.status \in IF orderRow.stamp = 0 THEN {0} ELSE 1..k
    BY <1>2, <1>7, <2>1 DEF RowsFit
  <2>4. ASSUME NEW s \in Skus PROVE itemRows[s].stamp <= n + 1 /\ itemRows[s].stamp # n + 1
    BY <1>1, <1>2, <2>1 DEF RowsFit
  <2> QED BY <1>6, <1>14, <2>2, <2>3, <2>4 DEF RowsFit
<1>18. ASSUME NEW r \in Sheet
       PROVE  /\ HasStamp(r) => HasStamp(r)' /\ HasLines(r)'
              /\ Whole(r) => Whole(r)'
  <2>1. r.stamp \in Nat /\ r.status \in Nat
    BY DEF Sheet
  <2>2. HasStamp(r) => HasStamp(r)' /\ HasLines(r)'
    BY <1>2, <1>6, <2>1 DEF HasStamp, HasLines
  <2>3. HasStamp(r) /\ HasStatus(r) => HasStatus(r)'
    BY <1>2, <1>6, <1>7, <2>1 DEF HasStamp, HasStatus
  <2> QED BY <2>2, <2>3 DEF Whole
<1>19. ASSUME NEW u \in FactTasks PROVE ChangeInv(changes[u])'
  <2>1. CASE u = t
    BY <1>2, <1>6, <1>11, <1>13, <2>1 DEF ChangeInv
  <2>2. CASE u # t
    <3>1. PICK a \in Change : a = changes[u] /\ a = changes'[u]
      BY <1>1, <1>13, <2>2
    <3>2. ChangeInv(a) /\ a.read \in Sheet
      BY <3>1 DEF FactInv, Change
    <3>3. /\ HasStamp(a.read) => HasStamp(a.read)' /\ HasLines(a.read)'
          /\ Whole(a.read) => Whole(a.read)'
      BY <1>18, <3>2
    <3>5. ChangeInv(a)'
      BY <1>2, <1>6, <1>14, <3>2, <3>3 DEF ChangeInv
    <3> QED BY <3>1, <3>5
  <2> QED BY <2>1, <2>2
<1>20. ASSUME NEW s \in Seeders PROVE SeedingInv(seeds[s])'
  <2>1. PICK e \in Seeding : e = seeds[s] /\ e = seeds'[s]
    BY <1>1, <1>14
  <2>2. SeedingInv(e) /\ e.read \in Sheet
    BY <2>1 DEF FactInv, Seeding
  <2>3. /\ HasStamp(e.read) => HasStamp(e.read)' /\ HasLines(e.read)'
        /\ Whole(e.read) => Whole(e.read)'
    BY <1>18, <2>2
  <2>4. SeedingInv(e)'
    BY <1>14, <2>2, <2>3 DEF SeedingInv
  <2> QED BY <2>1, <2>4
<1>21. Brings(changes[t])'
  BY <1>11, <1>13 DEF Brings
<1> QED BY <1>15, <1>16, <1>17, <1>19, <1>20, <1>21 DEF FactInv

\* A status is appended: what was read of the history is still part of it.
LEMMA AppendStatusStep ==
  ASSUME FactInv, NEW t \in FactTasks, AppendStatus(t)
  PROVE  FactInv'
<1>1. /\ order \in Sheet /\ orderRow \in Sheet /\ changes \in [FactTasks -> Change]
      /\ seeds \in [Seeders -> Seeding] /\ seeded \in 0..order.stamp
      /\ itemRows \in [Skus -> [stamp : Nat, line : Nat]] /\ parked \in BOOLEAN
  BY DEF FactInv, FactTypes
<1>2. order.stamp \in Nat /\ order.status \in Nat /\ order.stamp > 0
  BY <1>1 DEF Sheet, AppendStatus
<1>3. PICK k \in Nat : k = order.status + 1
  BY <1>2
<1>4. order' = [order EXCEPT !.status = k]
  BY <1>3 DEF AppendStatus
<1>5. order' \in Sheet /\ order'.stamp = order.stamp /\ order'.status = k
        /\ order'.items = order.items
  BY <1>1, <1>4 DEF Sheet
<1>6. NoChange \in Change
  BY DEF NoChange, Change, Topics, NoOrder, NoLines, Sheet
<1>7. PICK d : d = [NoChange EXCEPT !.phase = "changed", !.topic = "status.updated"]
  OBVIOUS
<1>8. d \in Change /\ d.phase = "changed"
  BY <1>6, <1>7 DEF Change, Topics
<1>9. changes' = [changes EXCEPT ![t] = d]
  BY <1>7 DEF AppendStatus, Changed
<1>10. changes'[t] = d /\ \A u \in FactTasks \ {t} : changes'[u] = changes[u]
  BY <1>1, <1>9
<1>11. UNCHANGED <<orderRow, itemRows, parked, seeds, seeded>>
  BY DEF AppendStatus, seedVars
<1>12. FactTypes'
  <2>1. changes' \in [FactTasks -> Change]
    BY <1>1, <1>8, <1>9
  <2> QED BY <1>1, <1>2, <1>3, <1>5, <1>11, <2>1 DEF FactTypes
<1>13. RowsFit' /\ (CopyIsCurrent => CopyIsCurrent')
  <2>1. RowsFit /\ orderRow.status \in Nat
    BY <1>1 DEF FactInv, Sheet
  <2>2. \A i : i \in 1..order.status => i \in 1..k
    BY <1>2, <1>3
  <2> QED BY <1>2, <1>5, <1>11, <2>1, <2>2 DEF RowsFit, CopyIsCurrent
<1>14. ASSUME NEW r \in Sheet
       PROVE  /\ HasStamp(r) => HasStamp(r)'
              /\ HasLines(r) => HasLines(r)'
              /\ Whole(r) => Whole(r)'
  BY <1>2, <1>3, <1>5 DEF Sheet, Whole, HasStamp, HasLines, HasStatus
<1>15. ASSUME NEW u \in FactTasks PROVE ChangeInv(changes[u])'
  <2>1. CASE u = t
    BY <1>2, <1>5, <1>8, <1>10, <2>1 DEF ChangeInv
  <2>2. CASE u # t
    <3>1. PICK a \in Change : a = changes[u] /\ a = changes'[u]
      BY <1>1, <1>10, <2>2
    <3>2. ChangeInv(a) /\ a.read \in Sheet
      BY <3>1 DEF FactInv, Change
    <3>3. /\ HasStamp(a.read) => HasStamp(a.read)'
          /\ HasLines(a.read) => HasLines(a.read)'
          /\ Whole(a.read) => Whole(a.read)'
      BY <1>14, <3>2
    <3>4. ChangeInv(a)'
      BY <1>2, <1>5, <1>11, <3>2, <3>3 DEF ChangeInv
    <3> QED BY <3>1, <3>4
  <2> QED BY <2>1, <2>2
<1>16. ASSUME NEW s \in Seeders PROVE SeedingInv(seeds[s])'
  <2>1. PICK e \in Seeding : e = seeds[s] /\ e = seeds'[s]
    BY <1>1, <1>11
  <2>2. SeedingInv(e) /\ e.read \in Sheet
    BY <2>1 DEF FactInv, Seeding
  <2>3. /\ HasStamp(e.read) => HasStamp(e.read)'
        /\ HasLines(e.read) => HasLines(e.read)'
        /\ Whole(e.read) => Whole(e.read)'
    BY <1>14, <2>2
  <2>4. SeedingInv(e)'
    BY <1>11, <2>2, <2>3 DEF SeedingInv
  <2> QED BY <2>1, <2>4
<1>17. Brings(changes[t])'
  BY <1>8, <1>10 DEF Brings
<1>18. seeded' = order'.stamp => CopyIsCurrent'
  BY <1>5, <1>11, <1>13 DEF FactInv
<1> QED BY <1>12, <1>13, <1>15, <1>16, <1>17, <1>18 DEF FactInv

\* A seeding moves on and leaves the order and the rows as they are.
LEMMA SeedMoves ==
  ASSUME FactInv, NEW s \in Seeders, NEW e \in Seeding,
         seeds' = [seeds EXCEPT ![s] = e], SeedingInv(e),
         UNCHANGED <<order, changes, orderRow, itemRows, parked, seeded>>
  PROVE  FactInv'
<1>1. seeds \in [Seeders -> Seeding] /\ orderRow \in Sheet /\ orderRow.stamp \in Nat
  BY DEF FactInv, FactTypes, Sheet
<1>2. seeds'[s] = e /\ \A u \in Seeders \ {s} : seeds'[u] = seeds[u]
  BY <1>1
<1>3. FactTypes'
  BY <1>1 DEF FactInv, FactTypes
<1>4. RowsFit' /\ (CopyIsCurrent => CopyIsCurrent') /\ (seeded' = order'.stamp => CopyIsCurrent')
  BY DEF FactInv, RowsFit, CopyIsCurrent
<1>5. orderRow'.stamp >= orderRow.stamp /\ orderRow' \in Sheet
  BY <1>1
<1>6. /\ \A t \in FactTasks : changes'[t] = changes[t] => ChangeInv(changes[t])'
      /\ \A u \in Seeders : seeds'[u] = seeds[u] => SeedingInv(seeds[u])'
  BY <1>5, ReadsStay
<1>7. SeedingInv(seeds[s])'
  BY <1>2 DEF SeedingInv, Whole, HasStamp, HasLines, HasStatus
<1>8. \A u \in Seeders : SeedingInv(seeds[u])'
  BY <1>2, <1>6, <1>7
<1>9. \A t \in FactTasks : ChangeInv(changes[t])'
  BY <1>6
<1>10. \A t \in FactTasks : Brings(changes[t]) => Brings(changes[t])'
  BY DEF Brings
<1>11. parked' \/ CopyIsCurrent' \/ \E t \in FactTasks : Brings(changes[t])'
  BY <1>4, <1>10 DEF FactInv
<1> QED BY <1>3, <1>4, <1>8, <1>9, <1>11 DEF FactInv

LEMMA SeedReads ==
  ASSUME FactInv, NEW s \in Seeders,
         SeedOrders(s) \/ SeedLines(s) \/ SeedStatuses(s) \/ SeedFails(s)
  PROVE  FactInv'
<1>1. seeds[s] \in Seeding /\ SeedingInv(seeds[s]) /\ seeds \in [Seeders -> Seeding]
  BY DEF FactInv, FactTypes
<1>2. order \in Sheet /\ (order.stamp > 0 => order.status > 0)
  BY DEF FactInv, FactTypes
<1>3. order.stamp \in Nat /\ order.status \in Nat
  BY <1>2 DEF Sheet
<1>4. PICK a : a = seeds[s]
  OBVIOUS
<1>5. a \in Seeding /\ a.read \in Sheet /\ SeedingInv(a)
  BY <1>1, <1>4 DEF Seeding
<1>6. CASE SeedOrders(s)
  <2>1. PICK e : e = [a EXCEPT !.phase = "lines", !.read.stamp = order.stamp]
    OBVIOUS
  <2>2. [a.read EXCEPT !.stamp = order.stamp] \in Sheet
    BY <1>3, <1>5 DEF Sheet
  <2>3. e \in Seeding /\ e.phase = "lines" /\ e.read.stamp = order.stamp
    BY <1>5, <2>1, <2>2 DEF Seeding, Sheet
  <2>4. order.stamp > 0
    BY <1>6 DEF SeedOrders
  <2>5. SeedingInv(e)
    BY <1>3, <2>3, <2>4 DEF SeedingInv, HasStamp
  <2>6. seeds' = [seeds EXCEPT ![s] = e]
    BY <1>1, <1>4, <1>6, <2>1 DEF SeedOrders
  <2>7. UNCHANGED <<order, changes, orderRow, itemRows, parked, seeded>>
    BY <1>6 DEF SeedOrders
  <2> QED BY <2>3, <2>5, <2>6, <2>7, SeedMoves
<1>7. CASE SeedLines(s)
  <2>1. PICK e : e = [a EXCEPT !.phase = "status", !.read.items = order.items]
    OBVIOUS
  <2>2. [a.read EXCEPT !.items = order.items] \in Sheet
    BY <1>2, <1>5 DEF Sheet
  <2>3. e \in Seeding /\ e.phase = "status" /\ e.read.stamp = a.read.stamp
           /\ e.read.items = order.items
    BY <1>5, <2>1, <2>2 DEF Seeding, Sheet
  <2>4. a.phase = "lines"
    BY <1>4, <1>7 DEF SeedLines
  <2>5. SeedingInv(e)
    BY <1>5, <2>3, <2>4 DEF SeedingInv, HasStamp, HasLines
  <2>6. seeds' = [seeds EXCEPT ![s] = e]
    BY <1>1, <1>4, <1>7, <2>1 DEF SeedLines
  <2>7. UNCHANGED <<order, changes, orderRow, itemRows, parked, seeded>>
    BY <1>7 DEF SeedLines
  <2> QED BY <2>3, <2>5, <2>6, <2>7, SeedMoves
<1>8. CASE SeedStatuses(s)
  <2>1. PICK e : e = [a EXCEPT !.phase = "orders", !.read.status = order.status]
    OBVIOUS
  <2>2. [a.read EXCEPT !.status = order.status] \in Sheet
    BY <1>3, <1>5 DEF Sheet
  <2>3. e \in Seeding /\ e.phase = "orders" /\ e.read.stamp = a.read.stamp
           /\ e.read.items = a.read.items /\ e.read.status = order.status
    BY <1>5, <2>1, <2>2 DEF Seeding, Sheet
  <2>4. a.phase = "status"
    BY <1>4, <1>8 DEF SeedStatuses
  <2>5. HasStamp(a.read)
    BY <1>5, <2>4 DEF SeedingInv
  <2>6. order.stamp > 0
    BY <1>3, <2>5 DEF HasStamp
  <2>7. HasStatus(e.read)
    BY <1>2, <1>3, <2>3, <2>6 DEF HasStatus
  <2>8. SeedingInv(e)
    BY <1>5, <2>3, <2>4, <2>7 DEF SeedingInv, Whole, HasStamp, HasLines
  <2>9. seeds' = [seeds EXCEPT ![s] = e]
    BY <1>1, <1>4, <1>8, <2>1 DEF SeedStatuses
  <2>10. UNCHANGED <<order, changes, orderRow, itemRows, parked, seeded>>
    BY <1>8 DEF SeedStatuses
  <2> QED BY <2>3, <2>8, <2>9, <2>10, SeedMoves
<1>9. CASE SeedFails(s)
  <2>1. PICK e : e = [phase |-> "idle", read |-> NoOrder]
    OBVIOUS
  <2>2. e \in Seeding /\ SeedingInv(e)
    BY <2>1 DEF Seeding, NoOrder, NoLines, Sheet, SeedingInv
  <2>3. seeds' = [seeds EXCEPT ![s] = e]
    BY <1>9, <2>1 DEF SeedFails
  <2>4. UNCHANGED <<order, changes, orderRow, itemRows, parked, seeded>>
    BY <1>9 DEF SeedFails
  <2> QED BY <2>2, <2>3, <2>4, SeedMoves
<1> QED BY <1>6, <1>7, <1>8, <1>9

LEMMA InsertOrdersStep ==
  ASSUME FactInv, NEW s \in Seeders, InsertOrders(s)
  PROVE  FactInv'
<1>1. seeds[s] \in Seeding /\ SeedingInv(seeds[s]) /\ seeds \in [Seeders -> Seeding]
  BY DEF FactInv, FactTypes
<1>2. PICK r \in Sheet : r = seeds[s].read
  BY <1>1 DEF Seeding
<1>3. Whole(r) /\ orderRow' = Replacing(r, orderRow) /\ UNCHANGED <<order, itemRows>>
  BY <1>1, <1>2 DEF InsertOrders, SeedingInv
<1>4. /\ orderRow' \in Sheet /\ orderRow'.stamp >= r.stamp /\ orderRow'.stamp >= orderRow.stamp
      /\ RowsFit' /\ (CopyIsCurrent => CopyIsCurrent')
  BY <1>2, <1>3, RowArrives
<1>5. PICK a : a = seeds[s]
  OBVIOUS
<1>6. PICK e : e = [a EXCEPT !.phase = "items"]
  OBVIOUS
<1>7. e \in Seeding /\ e.phase = "items" /\ e.read = r /\ seeds' = [seeds EXCEPT ![s] = e]
  BY <1>1, <1>2, <1>5, <1>6 DEF InsertOrders, Seeding
<1>8. seeds'[s] = e /\ \A u \in Seeders \ {s} : seeds'[u] = seeds[u]
  BY <1>1, <1>7
<1>9. FactTypes'
  BY <1>1, <1>3, <1>4, <1>7 DEF InsertOrders, FactInv, FactTypes
<1>10. /\ \A t \in FactTasks : changes'[t] = changes[t] => ChangeInv(changes[t])'
       /\ \A u \in Seeders : seeds'[u] = seeds[u] => SeedingInv(seeds[u])'
  BY <1>3, <1>4, ReadsStay
<1>11. SeedingInv(seeds[s])'
  <2>1. Whole(r)'
    BY <1>3 DEF Whole, HasStamp, HasLines, HasStatus
  <2>2. seeds'[s].phase = "items" /\ seeds'[s].read = r
    BY <1>7, <1>8
  <2> QED BY <1>4, <2>1, <2>2 DEF SeedingInv
<1>12. \A u \in Seeders : SeedingInv(seeds[u])'
  BY <1>8, <1>10, <1>11
<1>13. \A t \in FactTasks : ChangeInv(changes[t])'
  BY <1>10 DEF InsertOrders
<1>14. \A t \in FactTasks : Brings(changes[t]) => Brings(changes[t])'
  BY <1>3 DEF Brings, InsertOrders
<1>15. parked' \/ CopyIsCurrent' \/ \E t \in FactTasks : Brings(changes[t])'
  BY <1>4, <1>14 DEF FactInv, InsertOrders
<1>16. seeded' = order'.stamp => CopyIsCurrent'
  BY <1>3, <1>4 DEF FactInv, InsertOrders
<1> QED BY <1>4, <1>9, <1>12, <1>13, <1>15, <1>16 DEF FactInv

LEMMA InsertOrderItemsStep ==
  ASSUME FactInv, NEW s \in Seeders, InsertOrderItems(s)
  PROVE  FactInv'
<1>1. seeds[s] \in Seeding /\ SeedingInv(seeds[s]) /\ seeds \in [Seeders -> Seeding]
  BY DEF FactInv, FactTypes
<1>2. PICK r \in Sheet : r = seeds[s].read
  BY <1>1 DEF Seeding
<1>3. Whole(r) /\ itemRows' = WithLines(r) /\ UNCHANGED <<order, orderRow>>
  BY <1>1, <1>2 DEF InsertOrderItems, SeedingInv
<1>4. orderRow.stamp >= r.stamp /\ orderRow \in Sheet /\ orderRow.stamp \in Nat
  BY <1>1, <1>2 DEF InsertOrderItems, SeedingInv, FactInv, FactTypes, Sheet
<1>5. /\ itemRows' \in [Skus -> [stamp : Nat, line : Nat]]
      /\ RowsFit' /\ (CopyIsCurrent => CopyIsCurrent')
      /\ r.stamp = order.stamp => CopyIsCurrent'
  BY <1>2, <1>3, <1>4, LinesArrive
<1>6. PICK e : e = [phase |-> "idle", read |-> NoOrder]
  OBVIOUS
<1>7. e \in Seeding /\ e.phase = "idle" /\ seeds' = [seeds EXCEPT ![s] = e]
  BY <1>6 DEF InsertOrderItems, Seeding, NoOrder, NoLines, Sheet
<1>8. seeds'[s] = e /\ \A u \in Seeders \ {s} : seeds'[u] = seeds[u]
  BY <1>1, <1>7
<1>9. seeded' = (IF r.stamp > seeded THEN r.stamp ELSE seeded) /\ r.stamp \in 1..order.stamp
  BY <1>2, <1>3 DEF InsertOrderItems, Whole, HasStamp
<1>10. FactTypes'
  <2>1. seeded \in 0..order.stamp /\ order.stamp \in Nat
    BY DEF FactInv, FactTypes, Sheet
  <2>2. seeded' \in 0..order'.stamp
    BY <1>3, <1>9, <2>1
  <2> QED BY <1>1, <1>3, <1>5, <1>7, <2>2 DEF InsertOrderItems, FactInv, FactTypes
<1>11. /\ \A t \in FactTasks : changes'[t] = changes[t] => ChangeInv(changes[t])'
       /\ \A u \in Seeders : seeds'[u] = seeds[u] => SeedingInv(seeds[u])'
  BY <1>3, <1>4, ReadsStay
<1>12. SeedingInv(seeds[s])'
  BY <1>7, <1>8 DEF SeedingInv
<1>13. \A u \in Seeders : SeedingInv(seeds[u])'
  BY <1>8, <1>11, <1>12
<1>14. \A t \in FactTasks : ChangeInv(changes[t])'
  BY <1>11 DEF InsertOrderItems
<1>15. \A t \in FactTasks : Brings(changes[t]) => Brings(changes[t])'
  BY <1>3 DEF Brings, InsertOrderItems
<1>16. parked' \/ CopyIsCurrent' \/ \E t \in FactTasks : Brings(changes[t])'
  BY <1>5, <1>15 DEF FactInv, InsertOrderItems
<1>17. seeded' = order'.stamp => CopyIsCurrent'
  BY <1>3, <1>5, <1>9 DEF FactInv
<1> QED BY <1>5, <1>10, <1>13, <1>14, <1>16, <1>17 DEF FactInv

LEMMA FactStep ==
  ASSUME FactInv, [FactNext]_factVars
  PROVE  FactInv'
<1>1. CASE UNCHANGED factVars
  BY <1>1 DEF factVars, seedVars, FactInv, FactTypes, RowsFit, ChangeInv, SeedingInv, Whole,
        HasStamp, HasLines, HasStatus, Brings, CopyIsCurrent
<1>2. ASSUME NEW s \in Seeders, Seed(s) PROVE FactInv'
  BY <1>2, SeedReads, InsertOrdersStep, InsertOrderItemsStep DEF Seed
<1>3. ASSUME NEW t \in FactTasks, NEW lines \in SUBSET Skus, WriteOrder(t, lines) PROVE FactInv'
  BY <1>3, WriteOrderStep
<1>4. ASSUME NEW t \in FactTasks, AppendStatus(t) \/ Comment(t) PROVE FactInv'
  BY <1>4, AppendStatusStep, CommentStep
<1>5. ASSUME NEW t \in FactTasks,
             ReadOrder(t) \/ ReadLines(t) \/ ReadHistory(t) \/ Deliver(t)
      PROVE  FactInv'
  BY <1>5, ReadSteps
<1>6. ASSUME NEW t \in FactTasks, UpsertOrders(t) \/ UpsertOrderItems(t) \/ FailIngest(t)
      PROVE  FactInv'
  BY <1>6, UpsertOrdersStep, UpsertOrderItemsStep, FailStep
<1> QED BY <1>1, <1>2, <1>3, <1>4, <1>5, <1>6 DEF FactNext

\* FactInv holds in every reachable state: what a request or a seeding has read
\* fits the order, and somebody is on the way with the latest update until the copy
\* has it or its event is parked (handleOrderEvent, seedOrders).
THEOREM FactsInvariant == FactSpec => []FactInv
<1>1. FactInit => FactInv
  BY FactStart
<1>2. FactInv /\ [FactNext]_factVars => FactInv'
  BY FactStep
<1> QED BY <1>1, <1>2, PTL DEF FactSpec

\* When every event is delivered, or a seeding has completed since the latest
\* update, the copy of analytics is current.
THEOREM FactsAreSafe == FactSpec => []AnalyticsSafety
<1>1. FactInv => AnalyticsSafety
  BY FactSafe
<1> QED BY <1>1, FactsInvariant, PTL

-----------------------------------------------------------------------------
(* Packing. *)

Box == [volume : Volumes \cup {Standing}, inside : Seq(Volumes)]

LEMMA PiecesFinite ==
  ASSUME NEW s \in Seq(Volumes), NEW v
  PROVE  IsFiniteSet(Pieces(s, v)) /\ Cardinality(Pieces(s, v)) \in Nat
<1>1. DOMAIN s = 1..Len(s) /\ Len(s) \in Nat
  OBVIOUS
<1>2. IsFiniteSet(DOMAIN s)
  BY <1>1, FS_Interval
<1>3. Pieces(s, v) \subseteq DOMAIN s
  BY DEF Pieces
<1> QED BY <1>2, <1>3, FS_Subset, FS_CardinalityType

\* One list after the other.
Joins(s, t, u) ==
    /\ Len(s) = Len(t) + Len(u)
    /\ \A i \in 1..Len(t) : t[i] = s[i]
    /\ \A i \in 1..Len(u) : u[i] = s[Len(t) + i]

LEMMA PiecesJoined ==
  ASSUME NEW s \in Seq(Volumes), NEW t \in Seq(Volumes), NEW u \in Seq(Volumes),
         Joins(s, t, u), NEW v
  PROVE  Cardinality(Pieces(s, v)) = Cardinality(Pieces(t, v)) + Cardinality(Pieces(u, v))
<1> DEFINE later == {i \in (Len(t) + 1)..Len(s) : s[i] = v}
           move == [i \in Pieces(u, v) |-> i + Len(t)]
<1>1. Len(t) \in Nat /\ Len(u) \in Nat /\ Len(s) \in Nat /\ Len(s) = Len(t) + Len(u)
  BY DEF Joins
<1>2. Pieces(t, v) = {i \in 1..Len(t) : s[i] = v}
  BY DEF Joins, Pieces
<1>3. Pieces(s, v) = Pieces(t, v) \cup later /\ Pieces(t, v) \cap later = {}
  BY <1>1, <1>2 DEF Pieces
<1>4. Pieces(u, v) = {i \in 1..Len(u) : s[Len(t) + i] = v}
  BY DEF Joins, Pieces
<1>5. move \in Bijection(Pieces(u, v), later)
  <2>1. move \in [Pieces(u, v) -> later]
    BY <1>1, <1>4
  <2>2. \A i, j \in Pieces(u, v) : move[i] = move[j] => i = j
    BY <1>1, <1>4
  <2>3. ASSUME NEW i \in later PROVE \E j \in Pieces(u, v) : move[j] = i
    <3>1. i - Len(t) \in Pieces(u, v) /\ (i - Len(t)) + Len(t) = i
      BY <1>1, <1>4
    <3> QED BY <3>1
  <2> QED BY <2>1, <2>2, <2>3 DEF Bijection, Injection, Surjection, IsInjective
<1>6. IsFiniteSet(Pieces(t, v)) /\ IsFiniteSet(Pieces(u, v)) /\ IsFiniteSet(Pieces(s, v))
  BY PiecesFinite
<1>7. IsFiniteSet(later) /\ Cardinality(later) = Cardinality(Pieces(u, v))
  <2>1. ExistsBijection(Pieces(u, v), later)
    BY <1>5 DEF ExistsBijection
  <2> HIDE DEF later, move
  <2> QED BY <1>6, <2>1, FS_Bijection
<1> HIDE DEF later, move
<1>8. Cardinality(Pieces(s, v)) = Cardinality(Pieces(t, v)) + Cardinality(later) - Cardinality({})
  BY <1>3, <1>6, <1>7, FS_Union
<1> QED BY <1>6, <1>7, <1>8, FS_EmptySet, FS_CardinalityType

\* A list that is cut in two.
LEMMA PiecesCut ==
  ASSUME NEW s \in Seq(Volumes), NEW v, NEW k \in 0..Len(s)
  PROVE  Cardinality(Pieces(s, v)) = Cardinality(Pieces(SubSeq(s, 1, k), v))
                                       + Cardinality(Pieces(SubSeq(s, k + 1, Len(s)), v))
<1> DEFINE head == SubSeq(s, 1, k)
           tail == SubSeq(s, k + 1, Len(s))
<1>1. /\ head \in Seq(Volumes) /\ Len(head) = k /\ \A i \in 1..k : head[i] = s[i]
      /\ tail \in Seq(Volumes) /\ Len(tail) = Len(s) - k
      /\ \A i \in 1..(Len(s) - k) : tail[i] = s[k + i]
  OBVIOUS
<1>2. Len(s) = k + (Len(s) - k)
  OBVIOUS
<1> HIDE DEF head, tail
<1>3. Joins(s, head, tail)
  BY <1>1, <1>2 DEF Joins
<1>4. Cardinality(Pieces(s, v)) = Cardinality(Pieces(head, v)) + Cardinality(Pieces(tail, v))
  BY <1>1, <1>3, PiecesJoined
<1> QED BY <1>4 DEF head, tail

LEMMA OnePiece ==
  ASSUME NEW t \in Seq(Volumes), Len(t) = 1, NEW v
  PROVE  Cardinality(Pieces(t, v)) = IF t[1] = v THEN 1 ELSE 0
<1>1. Pieces(t, v) = IF t[1] = v THEN {1} ELSE {}
  <2>1. DOMAIN t = {1}
    OBVIOUS
  <2> QED BY <2>1 DEF Pieces
<1> QED BY <1>1, FS_EmptySet, FS_Singleton

LEMMA PackedFinite ==
  ASSUME NEW bs \in Seq(Box), NEW v
  PROVE  IsFiniteSet(Packed(bs, v)) /\ Cardinality(Packed(bs, v)) \in Nat
<1>1. IsFiniteSet(DOMAIN bs) /\ IsFiniteSet(0..PerBox)
  <2>1. DOMAIN bs = 1..Len(bs) /\ Len(bs) \in Nat
    OBVIOUS
  <2>2. IsFiniteSet(1..Len(bs))
    BY <2>1, FS_Interval
  <2>3. 0 \in Int /\ PerBox \in Int
    BY DEF PerBox
  <2>4. IsFiniteSet(0..PerBox)
    BY <2>3, FS_Interval
  <2> QED BY <2>1, <2>2, <2>4
<1>2. IsFiniteSet((DOMAIN bs) \X (0..PerBox))
  BY <1>1, FS_Product
<1>3. Packed(bs, v) \subseteq (DOMAIN bs) \X (0..PerBox)
  BY DEF Packed, PerBox
<1> QED BY <1>2, <1>3, FS_Subset, FS_CardinalityType

\* An empty box is given its pieces.
LEMMA FilledCount ==
  ASSUME NEW bs \in Seq(Box), NEW m \in DOMAIN bs, bs[m].inside = <<>>,
         NEW t \in Seq(Volumes), Len(t) <= PerBox, NEW v
  PROVE  Cardinality(Packed([bs EXCEPT ![m].inside = t], v))
           = Cardinality(Packed(bs, v)) + Cardinality(Pieces(t, v))
<1> DEFINE new == [bs EXCEPT ![m].inside = t]
           put == {<<m, c>> : c \in Pieces(t, v)}
           move == [c \in Pieces(t, v) |-> <<m, c>>]
<1>1. /\ DOMAIN new = DOMAIN bs /\ new[m].inside = t
      /\ \A i \in DOMAIN bs : new[i].volume = bs[i].volume
      /\ \A i \in DOMAIN bs : i # m => new[i].inside = bs[i].inside
  <2>1. \A i \in DOMAIN bs : bs[i] \in Box
    OBVIOUS
  <2> QED BY <2>1 DEF Box
<1>2. Pieces(t, v) \subseteq 1..PerBox /\ DOMAIN t = 1..Len(t) /\ Len(t) \in Nat
  BY DEF Pieces, PerBox
<1>3. {i \in DOMAIN new : new[i].volume = v} = {i \in DOMAIN bs : bs[i].volume = v}
  BY <1>1
<1>4. \A c \in (DOMAIN bs) \X (1..PerBox) :
        (c[2] \in DOMAIN new[c[1]].inside /\ new[c[1]].inside[c[2]] = v)
          <=> \/ c[2] \in DOMAIN bs[c[1]].inside /\ bs[c[1]].inside[c[2]] = v
              \/ c[1] = m /\ c[2] \in Pieces(t, v)
  <2> TAKE c \in (DOMAIN bs) \X (1..PerBox)
  <2>1. CASE c[1] = m
    BY <1>1, <2>1 DEF Pieces
  <2>2. CASE c[1] # m
    BY <1>1, <2>2
  <2> QED BY <2>1, <2>2
<1>5. Packed(new, v) = Packed(bs, v) \cup put
  <2> HIDE DEF new
  <2>1. put \subseteq (DOMAIN bs) \X (1..PerBox)
    BY <1>2
  <2>2. \A c \in put : c[1] = m /\ c[2] \in Pieces(t, v)
    OBVIOUS
  <2>3. \A c \in (DOMAIN bs) \X (1..PerBox) : c[1] = m /\ c[2] \in Pieces(t, v) => c \in put
    OBVIOUS
  <2> HIDE DEF put
  <2> QED BY <1>1, <1>3, <1>4, <2>1, <2>2, <2>3 DEF Packed
<1>6. Packed(bs, v) \cap put = {}
  <2>1. \A c \in put : c[1] = m /\ c[2] \in 1..PerBox /\ c[2] # 0
    BY <1>2
  <2>2. \A c \in Packed(bs, v) : c[1] = m => c[2] = 0
    BY DEF Packed
  <2> QED BY <2>1, <2>2
<1>7. move \in Bijection(Pieces(t, v), put)
  <2>1. move \in [Pieces(t, v) -> put]
    OBVIOUS
  <2>2. \A i, j \in Pieces(t, v) : move[i] = move[j] => i = j
    OBVIOUS
  <2>3. \A x \in put : \E j \in Pieces(t, v) : move[j] = x
    OBVIOUS
  <2> QED BY <2>1, <2>2, <2>3 DEF Bijection, Injection, Surjection, IsInjective
<1>8. IsFiniteSet(put) /\ Cardinality(put) = Cardinality(Pieces(t, v))
  <2>1. ExistsBijection(Pieces(t, v), put)
    BY <1>7 DEF ExistsBijection
  <2> HIDE DEF put, move
  <2> QED BY <2>1, PiecesFinite, FS_Bijection
<1>9. IsFiniteSet(Packed(bs, v)) /\ Cardinality(Packed(bs, v)) \in Nat
  BY PackedFinite
<1>10. Cardinality(Packed(new, v)) = Cardinality(Packed(bs, v)) + Cardinality(put) - Cardinality({})
  BY ZenonT(60), <1>5, <1>6, <1>8, <1>9, FS_Union
<1>11. Cardinality(Pieces(t, v)) \in Nat
  BY PiecesFinite
<1> HIDE DEF put
<1> QED BY <1>8, <1>9, <1>10, <1>11, FS_EmptySet

\* A piece is made a box.
LEMMA PromotedCount ==
  ASSUME NEW bs \in Seq(Box), NEW w \in Volumes, NEW v
  PROVE  Cardinality(Packed(Append(bs, [volume |-> w, inside |-> <<>>]), v))
           = Cardinality(Packed(bs, v)) + (IF w = v THEN 1 ELSE 0)
<1> DEFINE n == Len(bs) + 1
           new == Append(bs, [volume |-> w, inside |-> <<>>])
           put == IF w = v THEN {<<n, 0>>} ELSE {}
<1>1. /\ DOMAIN new = DOMAIN bs \cup {n} /\ n \notin DOMAIN bs
      /\ \A i \in DOMAIN bs : new[i] = bs[i]
      /\ new[n] = [volume |-> w, inside |-> <<>>]
  OBVIOUS
<1>2. new[n].volume = w /\ DOMAIN new[n].inside = {}
  BY <1>1
<1> HIDE DEF new, n
<1>3. {<<i, 0>> : i \in {j \in DOMAIN new : new[j].volume = v}}
        = {<<i, 0>> : i \in {j \in DOMAIN bs : bs[j].volume = v}} \cup put
  <2>1. {j \in DOMAIN new : new[j].volume = v}
          = {j \in DOMAIN bs : bs[j].volume = v} \cup (IF w = v THEN {n} ELSE {})
    BY <1>1, <1>2
  <2> QED BY <2>1
<1>4. {c \in (DOMAIN new) \X (1..PerBox) : c[2] \in DOMAIN new[c[1]].inside /\ new[c[1]].inside[c[2]] = v}
        = {c \in (DOMAIN bs) \X (1..PerBox) : c[2] \in DOMAIN bs[c[1]].inside /\ bs[c[1]].inside[c[2]] = v}
  BY <1>1, <1>2
<1>5. Packed(new, v) = Packed(bs, v) \cup put
  BY <1>3, <1>4 DEF Packed
<1>6. Packed(bs, v) \cap put = {}
  BY <1>1 DEF Packed
<1>7. IsFiniteSet(put) /\ Cardinality(put) = IF w = v THEN 1 ELSE 0
  BY FS_EmptySet, FS_Singleton
<1>8. IsFiniteSet(Packed(bs, v)) /\ Cardinality(Packed(bs, v)) \in Nat
  BY PackedFinite
<1>9. Cardinality(Packed(new, v)) = Cardinality(Packed(bs, v)) + Cardinality(put) - Cardinality({})
  BY <1>5, <1>6, <1>7, <1>8, FS_Union
<1> HIDE DEF put
<1> QED BY <1>7, <1>8, <1>9, FS_EmptySet DEF new

LEMMA SortedLists ==
  ASSUME NEW n \in Sorted
  PROVE  /\ n \in Seq(Volumes) /\ Len(n) \in Nat
         /\ \A i, j \in DOMAIN n : i <= j => n[i] <= n[j]
<1>1. PICK k \in 0..MaxNested : n \in [1..k -> Volumes] /\ \A i, j \in 1..k : i <= j => n[i] <= n[j]
  BY DEF Sorted
<1>2. k \in Nat
  BY BoxPackingAssumption
<1>3. n \in Seq(Volumes)
  BY <1>1, <1>2
<1> QED BY <1>1, <1>3

\* What a cut leaves of a sorted list.
LEMMA CutSorted ==
  ASSUME NEW s \in Seq(Volumes), \A i, j \in DOMAIN s : i <= j => s[i] <= s[j],
         NEW a \in 1..(Len(s) + 1), NEW b \in 0..Len(s), NEW t, t = SubSeq(s, a, b)
  PROVE  /\ t \in Seq(Volumes) /\ Len(t) = (IF a <= b THEN b - a + 1 ELSE 0)
         /\ \A i \in DOMAIN t : (i + a) - 1 \in DOMAIN s /\ t[i] = s[(i + a) - 1]
         /\ \A i, j \in DOMAIN t : i <= j => t[i] <= t[j]
<1>1. t \in Seq(Volumes) /\ Len(t) = (IF a <= b THEN b - a + 1 ELSE 0)
  OBVIOUS
<1>2. \A i \in DOMAIN t : (i + a) - 1 \in DOMAIN s /\ t[i] = s[(i + a) - 1]
  OBVIOUS
<1>3. ASSUME NEW i \in DOMAIN t, NEW j \in DOMAIN t, i <= j PROVE t[i] <= t[j]
  <2>1. i \in Int /\ j \in Int /\ (i + a) - 1 <= (j + a) - 1
    BY <1>1, <1>3
  <2> QED BY <1>2, <2>1
<1> QED BY <1>1, <1>2, <1>3

LEMMA EmptyList ==
  ASSUME NEW S, NEW s \in Seq(S)
  PROVE  s = <<>> <=> Len(s) = 0
OBVIOUS

LEMMA NothingSorted == <<>> \in Sorted
<1>1. <<>> \in {s \in [1..0 -> Volumes] : \A i, j \in 1..0 : i <= j => s[i] <= s[j]}
  OBVIOUS
<1>2. 0 \in 0..MaxNested
  BY BoxPackingAssumption
<1> QED BY <1>1, <1>2 DEF Sorted

LEMMA PackStart ==
  ASSUME PackInit
  PROVE  PackInv
<1>1. 0 \in 0..MaxStanding
  BY BoxPackingAssumption
<1>2. PackTypes
  BY <1>1, NothingSorted DEF PackInit, PackTypes
<1> QED BY <1>2 DEF PackInit, PackInv

LEMMA CollectStep ==
  ASSUME PackInv, NEW s \in 0..MaxStanding, NEW n \in Sorted, Collect(s, n)
  PROVE  PackInv'
<1>1. /\ n \in Seq(Volumes) /\ Len(n) \in Nat
      /\ \A i, j \in DOMAIN n : i <= j => n[i] <= n[j]
  BY SortedLists
<1>2. s \in Nat
  BY BoxPackingAssumption
<1>3. packing' = [phase |-> "fill", standing |-> s, nested |-> n, main |-> 1, mode |-> "NONE"]
  BY DEF Collect
<1>4. CASE s = 0 /\ n # <<>>
  <2>1a. PICK w : w = n[Len(n)]
    OBVIOUS
  <2>1. w \in Volumes /\ w = n[Len(n)]
    BY <2>1a, <1>1, <1>4
  <2>2. /\ Len(n) \in Nat \ {0} /\ Len(n) - 1 \in 0..Len(n) /\ Len(n) \in DOMAIN n
        /\ 1 \in 1..(Len(n) + 1) /\ Len(n) \in 1..(Len(n) + 1) /\ Len(n) \in 0..Len(n)
    BY <1>1, <1>4
  <2>3a. PICK l : l = SubSeq(n, 1, Len(n) - 1)
    OBVIOUS
  <2>3. l \in Seq(Volumes) /\ l = SubSeq(n, 1, Len(n) - 1)
    BY <2>3a, <1>1
  <2>4. /\ Len(l) = Len(n) - 1
        /\ \A i \in DOMAIN l : i \in DOMAIN n /\ l[i] = n[i]
        /\ \A i, j \in DOMAIN l : i <= j => l[i] <= l[j]
    <3>1. /\ Len(l) = (IF 1 <= Len(n) - 1 THEN (Len(n) - 1) - 1 + 1 ELSE 0)
          /\ \A i \in DOMAIN l : (i + 1) - 1 \in DOMAIN n /\ l[i] = n[(i + 1) - 1]
          /\ \A i, j \in DOMAIN l : i <= j => l[i] <= l[j]
      BY <1>1, <2>2, <2>3, CutSorted
    <3>2. \A i \in DOMAIN l : i \in Int /\ (i + 1) - 1 = i
      BY <2>3
    <3>3. \A i \in DOMAIN l : i \in DOMAIN n /\ l[i] = n[i]
      BY <3>1, <3>2
    <3>4. Len(l) = Len(n) - 1
      <4>1. \A z \in Nat \ {0} : (IF 1 <= z - 1 THEN (z - 1) - 1 + 1 ELSE 0) = z - 1
        OBVIOUS
      <4> QED BY <2>2, <3>1, <4>1
    <3> QED BY <3>1, <3>3, <3>4
  <2>5a. PICK x : x = [volume |-> w, inside |-> <<>>]
    OBVIOUS
  <2>5. x \in Box /\ x = [volume |-> w, inside |-> <<>>]
    BY <2>1, <2>5a DEF Box
  <2>6a. PICK bs : bs = <<x>>
    OBVIOUS
  <2>6. bs \in Seq(Box) /\ bs = <<x>>
    BY <2>5, <2>6a
  <2>7. Len(bs) = 1 /\ DOMAIN bs = {1} /\ bs[1] = x /\ bs = Append(<<>>, x) /\ bs # <<>>
    BY <2>5, <2>6
  <2>8. boxes' = bs /\ left' = l
    BY <1>4, <2>1, <2>3, <2>5, <2>6 DEF Collect
  <2>9. x.volume = w /\ x.inside = <<>> /\ Len(x.inside) = 0 /\ DOMAIN x.inside = {}
    BY <2>5
  <2>10. PackTypes'
    BY <1>2, <1>3, <2>3, <2>4, <2>6, <2>8 DEF PackTypes, Box
  <2>11. l = <<>> <=> Len(l) = 0
    BY <2>3, EmptyList
  <2>12. PieceCount' = Len(n) /\ packing'.main = 1 /\ packing'.standing = 0
    BY <1>1, <1>3, <1>4 DEF PieceCount
  <2>13. PlacesFilled'
    <3>1. 1 \in 1..(Len(bs) + 1)
      BY <2>7
    <3>2. IF l = <<>> THEN Len(n) <= (PerBox + 1) * Len(bs)
          ELSE Len(n) = Len(bs) + PerBox * (1 - 1) + Len(l)
      BY <2>2, <2>4, <2>7, <2>11 DEF PerBox
    <3> QED BY <2>7, <2>8, <2>9, <2>12, <3>1, <3>2 DEF PlacesFilled
  <2>14. BoxesNeeded'
    BY <2>7, <2>8, <2>12 DEF BoxesNeeded
  <2>15. PiecesFit'
    <3>1. \A j \in DOMAIN l : l[j] <= w
      <4>1. \A j \in DOMAIN n : j <= Len(n)
        BY <1>1
      <4> QED BY <1>1, <2>1, <2>2, <2>4, <4>1
    <3> QED BY <2>7, <2>8, <2>9, <3>1 DEF PiecesFit, PerBox
  <2>16. PiecesKept'
    <3> SUFFICES ASSUME NEW v \in Volumes
                 PROVE  Cardinality(Packed(bs, v)) + Cardinality(Pieces(l, v))
                          = Cardinality(Pieces(n, v))
      BY <1>3, <2>8 DEF PiecesKept
    <3>1a. PICK t : t = SubSeq(n, Len(n), Len(n))
      OBVIOUS
    <3>1. t \in Seq(Volumes) /\ t = SubSeq(n, Len(n), Len(n))
      BY <3>1a, <1>1, <2>2
    <3>2. Len(t) = 1 /\ t[1] = w
      <4>1. /\ Len(t) = (IF Len(n) <= Len(n) THEN Len(n) - Len(n) + 1 ELSE 0)
            /\ \A i \in DOMAIN t : t[i] = n[(i + Len(n)) - 1]
        BY <1>1, <2>2, <3>1, CutSorted
      <4>2. Len(t) = 1 /\ 1 \in DOMAIN t /\ (1 + Len(n)) - 1 = Len(n)
        BY <2>2, <3>1, <4>1
      <4> QED BY <2>1, <4>1, <4>2
    <3>3. Len(n) - 1 + 1 = Len(n)
      BY <1>1
    <3>4. Cardinality(Pieces(n, v)) = Cardinality(Pieces(l, v)) + Cardinality(Pieces(t, v))
      BY <1>1, <2>2, <2>3, <3>1, <3>3, PiecesCut
    <3>5. Packed(<<>>, v) = {} /\ <<>> \in Seq(Box)
      BY DEF Packed
    <3>6. Cardinality(Packed(bs, v)) = Cardinality(Packed(<<>>, v)) + (IF w = v THEN 1 ELSE 0)
      <4>1. Cardinality(Packed(Append(<<>>, [volume |-> w, inside |-> <<>>]), v))
              = Cardinality(Packed(<<>>, v)) + (IF w = v THEN 1 ELSE 0)
        BY ZenonT(60), <2>1, <3>5, PromotedCount
      <4> QED BY <2>5, <2>7, <4>1
    <3>7. Cardinality(Packed(<<>>, v)) = 0
      BY <3>5, FS_EmptySet
    <3>8. Cardinality(Pieces(t, v)) = IF w = v THEN 1 ELSE 0
      BY <3>1, <3>2, OnePiece
    <3>9. Cardinality(Pieces(l, v)) \in Nat
      BY <2>3, PiecesFinite
    <3> QED BY <3>4, <3>6, <3>7, <3>8, <3>9
  <2> QED BY <1>3, <2>10, <2>13, <2>14, <2>15, <2>16 DEF PackInv
<1>5. CASE ~(s = 0 /\ n # <<>>)
  <2>1a. PICK bs : bs = [i \in 1..s |-> [volume |-> Standing, inside |-> <<>>]]
    OBVIOUS
  <2>1. bs \in Seq(Box) /\ bs = [i \in 1..s |-> [volume |-> Standing, inside |-> <<>>]]
    BY <2>1a, <1>2 DEF Box
  <2>2. /\ Len(bs) = s /\ DOMAIN bs = 1..s
        /\ \A i \in 1..s : bs[i].volume = Standing /\ bs[i].inside = <<>>
    BY <1>2, <2>1
  <2>3. boxes' = bs /\ left' = n
    BY <1>5, <2>1 DEF Collect
  <2>4. PackTypes'
    BY <1>1, <1>2, <1>3, <2>1, <2>3 DEF PackTypes, Box
  <2>5. PieceCount' = s + Len(n) /\ packing'.main = 1 /\ packing'.standing = s
    BY <1>3 DEF PieceCount
  <2>6. n = <<>> <=> Len(n) = 0
    BY <1>1
  <2>7. bs = <<>> <=> s = 0
    BY <2>1, <2>2
  <2>8. PlacesFilled'
    <3>1. 1 \in 1..(Len(bs) + 1)
      BY <1>2, <2>2
    <3>2. IF n = <<>> THEN s + Len(n) <= (PerBox + 1) * Len(bs)
          ELSE s + Len(n) = Len(bs) + PerBox * (1 - 1) + Len(n)
      BY <1>1, <1>2, <2>2, <2>6 DEF PerBox
    <3> QED BY <2>2, <2>3, <2>5, <3>1, <3>2 DEF PlacesFilled
  <2>9. BoxesNeeded'
    BY <1>1, <1>2, <1>5, <2>2, <2>3, <2>5, <2>6, <2>7 DEF BoxesNeeded
  <2>10. PiecesFit'
    BY <2>2, <2>3 DEF PiecesFit, PerBox
  <2>11. PiecesKept'
    <3> SUFFICES ASSUME NEW v \in Volumes
                 PROVE  Cardinality(Packed(bs, v)) + Cardinality(Pieces(n, v))
                          = Cardinality(Pieces(n, v))
      BY <1>3, <2>3 DEF PiecesKept
    <3>1. v # Standing
      BY BoxPackingAssumption DEF Standing
    <3>2. Packed(bs, v) = {}
      <4>1. {<<i, 0>> : i \in {j \in DOMAIN bs : bs[j].volume = v}} = {}
        BY <2>2, <3>1
      <4>2. {c \in (DOMAIN bs) \X (1..PerBox) :
               c[2] \in DOMAIN bs[c[1]].inside /\ bs[c[1]].inside[c[2]] = v} = {}
        BY <2>2
      <4> QED BY <4>1, <4>2 DEF Packed
    <3>3. Cardinality(Pieces(n, v)) \in Nat
      BY <1>1, PiecesFinite
    <3> QED BY <3>2, <3>3, FS_EmptySet
  <2> QED BY <1>3, <2>4, <2>8, <2>9, <2>10, <2>11 DEF PackInv
<1> QED BY <1>4, <1>5

LEMMA FillArithmetic ==
  ASSUME NEW n \in Nat, NEW l \in Nat, NEW b \in Nat, NEW p \in Nat, NEW q \in Nat,
         n <= b, q <= l, q <= 3, q = 3 \/ q = l,
         IF l = 0 THEN p <= 4 * b ELSE p = b + 3 * (n - 1) + l
  PROVE  IF l = q THEN p <= 4 * b ELSE p = b + 3 * n + (l - q)
OBVIOUS

\* What a sequence is cut into.
LEMMA CutInTwo ==
  ASSUME NEW s \in Seq(Volumes), NEW k \in 0..Len(s),
         NEW head, head = SubSeq(s, 1, k), NEW tail, tail = SubSeq(s, k + 1, Len(s))
  PROVE  /\ head \in Seq(Volumes) /\ Len(head) = k /\ \A i \in 1..k : head[i] = s[i]
         /\ tail \in Seq(Volumes) /\ Len(tail) = Len(s) - k
         /\ \A i \in 1..(Len(s) - k) : tail[i] = s[i + k]
<1>1. /\ head \in Seq(Volumes) /\ Len(head) = k /\ \A i \in 1..k : head[i] = s[i]
  OBVIOUS
<1>2. tail \in Seq(Volumes) /\ Len(tail) = Len(s) - k
  OBVIOUS
<1>3. \A i \in 1..(Len(s) - k) : tail[i] = s[i + k]
  OBVIOUS
<1> QED BY <1>1, <1>2, <1>3

LEMMA FillStep ==
  ASSUME PackInv, FillBox
  PROVE  PackInv'
<1> DEFINE k == Least(PerBox, Len(left))
           m == packing.main
           taken == SubSeq(left, 1, k)
<1>1. /\ packing.phase = "fill" /\ m \in 1..Len(boxes) /\ m \in Nat /\ Len(boxes) \in Nat
      /\ boxes' = [boxes EXCEPT ![m].inside = taken]
      /\ left' = SubSeq(left, k + 1, Len(left))
      /\ packing' = [packing EXCEPT !.main = @ + 1]
  BY DEF FillBox, PackInv, PackTypes, PlacesFilled
<1>2. PackTypes /\ PlacesFilled /\ BoxesNeeded /\ PiecesFit /\ PiecesKept
  BY <1>1 DEF PackInv
<1>3. /\ left \in Seq(Volumes) /\ Len(left) \in Nat /\ k \in 0..Len(left) /\ k <= 3
      /\ k = 3 \/ k = Len(left)
  BY <1>2 DEF PackTypes, Least, PerBox
<1> HIDE DEF k
<1>4. /\ taken \in Seq(Volumes) /\ Len(taken) = k /\ \A i \in 1..k : taken[i] = left[i]
      /\ left' \in Seq(Volumes) /\ Len(left') = Len(left) - k
      /\ \A i \in 1..(Len(left) - k) : left'[i] = left[i + k]
  <2>1. taken = SubSeq(left, 1, k) /\ left' = SubSeq(left, k + 1, Len(left))
    BY <1>1
  <2> HIDE DEF taken
  <2> QED BY ONLY <1>3, <2>1, CutInTwo
<1> HIDE DEF taken
<1>5. boxes \in Seq(Box) /\ m \in DOMAIN boxes /\ boxes[m].inside = <<>>
  <2>1. boxes \in Seq(Box)
    BY <1>2 DEF PackTypes, Box
  <2>2. m \in DOMAIN boxes
    BY ONLY <1>1, <2>1
  <2>3. \A i \in DOMAIN boxes : i >= m => boxes[i].inside = <<>>
    BY <1>2 DEF PlacesFilled
  <2>4. m >= m
    BY ONLY <1>1
  <2> QED BY ONLY <2>1, <2>2, <2>3, <2>4
<1>6. /\ boxes' \in Seq(Box) /\ Len(boxes') = Len(boxes) /\ boxes'[m].inside = taken
      /\ \A i \in DOMAIN boxes : boxes'[i].volume = boxes[i].volume
      /\ \A i \in DOMAIN boxes : i # m => boxes'[i] = boxes[i]
  <2>1. \A i \in DOMAIN boxes : boxes[i] \in Box
    BY <1>5
  <2>2. [boxes[m] EXCEPT !.inside = taken] \in Box
    BY <1>4, <1>5, <2>1 DEF Box
  <2> QED BY <1>1, <1>5, <2>1, <2>2, SMTT(40) DEF Box
<1>7. /\ packing'.phase = "fill" /\ packing'.standing = packing.standing
      /\ packing'.nested = packing.nested /\ packing'.main = m + 1
      /\ packing' \in [phase : {"idle", "fill", "done"}, standing : 0..MaxStanding, nested : Sorted,
                       main : Nat, mode : {"NONE", "EXPRESS", "PARCEL"}]
  <2>1. packing \in [phase : {"idle", "fill", "done"}, standing : 0..MaxStanding, nested : Sorted,
                     main : Nat, mode : {"NONE", "EXPRESS", "PARCEL"}]
    BY <1>2 DEF PackTypes
  <2>2. packing' = [phase |-> "fill", standing |-> packing.standing, nested |-> packing.nested,
                    main |-> m + 1, mode |-> packing.mode]
    BY <1>1, <2>1
  <2>3. m + 1 \in Nat
    BY <1>1
  <2> QED BY <2>1, <2>2, <2>3
<1>8. PackTypes'
  <2>1. \A i, j \in DOMAIN left' : i <= j => left'[i] <= left'[j]
    <3>1. k + 1 \in 1..(Len(left) + 1) /\ Len(left) \in 0..Len(left)
      BY <1>3
    <3>2. \A i, j \in DOMAIN left : i <= j => left[i] <= left[j]
      BY <1>2 DEF PackTypes
    <3>3. PICK t : t = left'
      OBVIOUS
    <3>4. t = SubSeq(left, k + 1, Len(left))
      BY <1>1, <3>3
    <3>5. \A i, j \in DOMAIN t : i <= j => t[i] <= t[j]
      BY <1>3, <3>1, <3>2, <3>4, CutSorted
    <3> QED BY <3>3, <3>5
  <2> QED BY <1>4, <1>6, <1>7, <2>1 DEF PackTypes, Box
<1>9. PieceCount' = PieceCount /\ PieceCount \in Nat /\ packing.standing \in Nat
  BY <1>2, <1>7, SortedLists, BoxPackingAssumption DEF PieceCount, PackTypes
<1>10. BoxesNeeded'
  BY <1>1, <1>2, <1>6, <1>7, <1>9 DEF BoxesNeeded
<1>11. PlacesFilled'
  <2>1. \A i \in DOMAIN boxes' : i >= m + 1 => boxes'[i].inside = <<>>
    BY <1>1, <1>2, <1>5, <1>6 DEF PlacesFilled
  <2>2. IF left' = <<>> THEN PieceCount <= (PerBox + 1) * Len(boxes)
        ELSE PieceCount = Len(boxes) + PerBox * m + Len(left')
    <3>1. left' = <<>> <=> Len(left) = k
      BY <1>3, <1>4
    <3>2. left = <<>> <=> Len(left) = 0
      BY <1>3
    <3>3. IF Len(left) = 0 THEN PieceCount <= 4 * Len(boxes)
          ELSE PieceCount = Len(boxes) + 3 * (m - 1) + Len(left)
      BY <1>2, <3>2 DEF PlacesFilled, PerBox
    <3>4. Len(left') = Len(left) - k
      BY <1>4
    <3>5a. PICK n : n = m
      OBVIOUS
    <3>5. n \in Nat /\ n = m
      BY <3>5a, <1>1
    <3>51a. PICK l : l = Len(left)
      OBVIOUS
    <3>51. l \in Nat /\ l = Len(left)
      BY <3>51a, <1>3
    <3>52a. PICK b : b = Len(boxes)
      OBVIOUS
    <3>52. b \in Nat /\ b = Len(boxes)
      BY <3>52a, <1>1
    <3>53a. PICK p : p = PieceCount
      OBVIOUS
    <3>53. p \in Nat /\ p = PieceCount
      BY <3>53a, <1>9
    <3>54a. PICK q : q = k
      OBVIOUS
    <3>54. q \in Nat /\ q = k
      BY <3>54a, <1>3
    <3>6. n <= b
      BY <1>1, <3>5, <3>52
    <3>55. q <= l /\ q <= 3 /\ (q = 3 \/ q = l)
      BY <1>3, <3>51, <3>54
    <3>7. IF l = 0 THEN p <= 4 * b ELSE p = b + 3 * (n - 1) + l
      BY <3>3, <3>5, <3>51, <3>52, <3>53
    <3>8. IF l = q THEN p <= 4 * b ELSE p = b + 3 * n + (l - q)
      <4>1. n \in Nat /\ l \in Nat /\ b \in Nat /\ p \in Nat /\ q \in Nat
        BY <3>5, <3>51, <3>52, <3>53, <3>54
      <4> QED BY <3>55, <3>6, <3>7, <4>1, FillArithmetic
    <3> QED BY <3>1, <3>4, <3>5, <3>51, <3>52, <3>53, <3>54, <3>8 DEF PerBox
  <2>3. /\ Len(boxes') = Len(boxes) /\ packing'.main = m + 1 /\ m + 1 \in 1..(Len(boxes) + 1)
        /\ (m + 1) - 1 = m
    BY <1>1, <1>6, <1>7
  <2> HIDE DEF m
  <2> QED BY <2>3, <1>1, <1>6, <1>7, <1>9, <2>1, <2>2 DEF PlacesFilled
<1>12. PiecesFit'
  <2> SUFFICES ASSUME NEW i \in DOMAIN boxes
               PROVE  /\ Len(boxes'[i].inside) <= PerBox
                      /\ boxes'[i].volume # Standing =>
                           /\ \A j \in DOMAIN boxes'[i].inside : boxes'[i].inside[j] <= boxes'[i].volume
                           /\ \A j \in DOMAIN left' : left'[j] <= boxes'[i].volume
    BY <1>5, <1>6 DEF PiecesFit
  <2>1. /\ Len(boxes[i].inside) <= PerBox
        /\ boxes[i].volume # Standing =>
             /\ \A j \in DOMAIN boxes[i].inside : boxes[i].inside[j] <= boxes[i].volume
             /\ \A j \in DOMAIN left : left[j] <= boxes[i].volume
    BY <1>2 DEF PiecesFit
  <2>2. boxes'[i].volume = boxes[i].volume
    BY <1>6
  <2>3. \A j \in DOMAIN left' : j + k \in DOMAIN left /\ left'[j] = left[j + k]
    BY <1>3, <1>4
  <2>4. \A j \in DOMAIN taken : j \in DOMAIN left /\ taken[j] = left[j]
    BY <1>3, <1>4
  <2>5. CASE i = m
    BY <1>3, <1>4, <1>6, <2>1, <2>2, <2>3, <2>4, <2>5 DEF PerBox
  <2>6. CASE i # m
    BY <1>6, <2>1, <2>2, <2>3, <2>6
  <2> QED BY <2>5, <2>6
<1>13. PiecesKept'
  <2> SUFFICES ASSUME NEW v \in Volumes
               PROVE  Cardinality(Packed(boxes', v)) + Cardinality(Pieces(left', v))
                        = Cardinality(Pieces(packing'.nested, v))
    BY DEF PiecesKept
  <2>1. Cardinality(Packed(boxes', v)) = Cardinality(Packed(boxes, v)) + Cardinality(Pieces(taken, v))
    BY <1>1, <1>3, <1>4, <1>5, FilledCount DEF PerBox
  <2>2. Cardinality(Pieces(left, v)) = Cardinality(Pieces(taken, v)) + Cardinality(Pieces(left', v))
    BY <1>1, <1>3, PiecesCut DEF taken
  <2>3. /\ Cardinality(Packed(boxes, v)) \in Nat /\ Cardinality(Pieces(taken, v)) \in Nat
        /\ Cardinality(Pieces(left', v)) \in Nat
    BY <1>4, <1>5, PiecesFinite, PackedFinite
  <2>4. Cardinality(Packed(boxes, v)) + Cardinality(Pieces(left, v)) = Cardinality(Pieces(packing.nested, v))
    BY <1>2 DEF PiecesKept
  <2> QED BY <1>7, <2>1, <2>2, <2>3, <2>4
<1> QED BY <1>7, <1>8, <1>10, <1>11, <1>12, <1>13 DEF PackInv

LEMMA PromoteStep ==
  ASSUME PackInv, PromoteBox
  PROVE  PackInv'
<1>1. /\ packing.phase = "fill" /\ left # <<>> /\ packing.main > Len(boxes)
      /\ PackTypes /\ PlacesFilled /\ BoxesNeeded /\ PiecesFit /\ PiecesKept
  BY DEF PromoteBox, PackInv
<1>2. /\ left \in Seq(Volumes) /\ boxes \in Seq(Box) /\ packing.main \in Nat
      /\ \A i, j \in DOMAIN left : i <= j => left[i] <= left[j]
  BY <1>1 DEF PackTypes, Box
<1>3. Len(left) \in Nat \ {0} /\ Len(boxes) \in Nat
  BY <1>1, <1>2, EmptyList
<1>4. packing.main = Len(boxes) + 1
  BY <1>1, <1>2, <1>3 DEF PlacesFilled
<1>5. PICK n : n = Len(left)
  OBVIOUS
<1>6. PICK k : k = Least(PerBox, n - 1)
  OBVIOUS
<1>7. /\ n \in Nat \ {0} /\ k \in 0..(n - 1) /\ k <= 3 /\ (k = 3 \/ k = n - 1)
      /\ n - 1 - k \in 0..n /\ n \in DOMAIN left
  BY <1>2, <1>3, <1>5, <1>6 DEF Least, PerBox
<1>8. PICK w : w = left[n]
  OBVIOUS
<1>9. PICK l : l = SubSeq(left, 1, n - 1 - k)
  OBVIOUS
<1>10. PICK t : t = SubSeq(left, n - k, n - 1)
  OBVIOUS
<1>11. w \in Volumes
  BY <1>2, <1>7, <1>8
<1>12. /\ l \in Seq(Volumes) /\ Len(l) = n - 1 - k
       /\ \A i \in DOMAIN l : i \in DOMAIN left /\ l[i] = left[i]
       /\ \A i, j \in DOMAIN l : i <= j => l[i] <= l[j]
  <2>1. 1 \in 1..(Len(left) + 1) /\ n - 1 - k \in 0..Len(left)
    BY <1>3, <1>5, <1>7
  <2>2. /\ l \in Seq(Volumes) /\ Len(l) = (IF 1 <= n - 1 - k THEN (n - 1 - k) - 1 + 1 ELSE 0)
        /\ \A i \in DOMAIN l : (i + 1) - 1 \in DOMAIN left /\ l[i] = left[(i + 1) - 1]
        /\ \A i, j \in DOMAIN l : i <= j => l[i] <= l[j]
    <3>1. PICK to : to = n - 1 - k
      OBVIOUS
    <3>2. to \in 0..Len(left) /\ l = SubSeq(left, 1, to)
      BY ONLY <1>9, <2>1, <3>1
    <3>3. /\ l \in Seq(Volumes) /\ Len(l) = (IF 1 <= to THEN to - 1 + 1 ELSE 0)
          /\ \A i \in DOMAIN l : (i + 1) - 1 \in DOMAIN left /\ l[i] = left[(i + 1) - 1]
          /\ \A i, j \in DOMAIN l : i <= j => l[i] <= l[j]
      BY ONLY <1>2, <2>1, <3>2, CutSorted
    <3> QED BY ONLY <3>1, <3>3, Zenon
  <2>3. \A i \in DOMAIN l : i \in Int /\ (i + 1) - 1 = i
    BY <2>2
  <2>4. (IF 1 <= n - 1 - k THEN (n - 1 - k) - 1 + 1 ELSE 0) = n - 1 - k
    BY <1>7
  <2>5. \A i \in DOMAIN l : i \in DOMAIN left /\ l[i] = left[i]
    BY <2>2, <2>3
  <2> QED BY <2>2, <2>4, <2>5
<1>13. /\ t \in Seq(Volumes) /\ Len(t) = k
       /\ \A i \in DOMAIN t : i + (n - 1 - k) \in DOMAIN left /\ t[i] = left[i + (n - 1 - k)]
  <2>1. n - k \in 1..(Len(left) + 1) /\ n - 1 \in 0..Len(left)
    BY SMTT(40), <1>3, <1>5, <1>7
  <2>2. /\ t \in Seq(Volumes) /\ Len(t) = (IF n - k <= n - 1 THEN (n - 1) - (n - k) + 1 ELSE 0)
        /\ \A i \in DOMAIN t : (i + (n - k)) - 1 \in DOMAIN left /\ t[i] = left[(i + (n - k)) - 1]
    <3>1. PICK from, to : from = n - k /\ to = n - 1
      OBVIOUS
    <3>2. from \in 1..(Len(left) + 1) /\ to \in 0..Len(left) /\ t = SubSeq(left, from, to)
      BY ONLY <1>10, <2>1, <3>1
    <3>3. /\ t \in Seq(Volumes) /\ Len(t) = (IF from <= to THEN to - from + 1 ELSE 0)
          /\ \A i \in DOMAIN t : (i + from) - 1 \in DOMAIN left /\ t[i] = left[(i + from) - 1]
      BY ONLY <1>2, <3>2, CutSorted
    <3> QED BY ONLY <3>1, <3>3, Zenon
  <2>3. \A i \in DOMAIN t : i \in Int /\ (i + (n - k)) - 1 = i + (n - 1 - k)
    BY <1>7, <2>2
  <2>4. (IF n - k <= n - 1 THEN (n - 1) - (n - k) + 1 ELSE 0) = k
    BY <1>7
  <2>5. \A i \in DOMAIN t : i + (n - 1 - k) \in DOMAIN left /\ t[i] = left[i + (n - 1 - k)]
    BY <2>2, <2>3
  <2> QED BY <2>2, <2>4, <2>5
<1>14. PICK x : x = [volume |-> w, inside |-> t]
  OBVIOUS
<1>15. x \in Box /\ x.volume = w /\ x.inside = t
  BY <1>11, <1>13, <1>14 DEF Box
<1>16. PICK bs : bs = Append(boxes, x)
  OBVIOUS
<1>17. /\ bs \in Seq(Box) /\ Len(bs) = Len(boxes) + 1 /\ bs[Len(boxes) + 1] = x
       /\ \A i \in DOMAIN boxes : bs[i] = boxes[i]
       /\ DOMAIN bs = DOMAIN boxes \cup {Len(boxes) + 1} /\ bs # <<>>
  BY <1>2, <1>15, <1>16
<1>18. boxes' = bs /\ left' = l
  BY <1>5, <1>6, <1>8, <1>9, <1>10, <1>14, <1>16 DEF PromoteBox
<1>19. /\ packing'.phase = "fill" /\ packing'.standing = packing.standing
       /\ packing'.nested = packing.nested /\ packing'.main = packing.main + 1
       /\ packing' \in [phase : {"idle", "fill", "done"}, standing : 0..MaxStanding, nested : Sorted,
                        main : Nat, mode : {"NONE", "EXPRESS", "PARCEL"}]
  <2>1. packing \in [phase : {"idle", "fill", "done"}, standing : 0..MaxStanding, nested : Sorted,
                     main : Nat, mode : {"NONE", "EXPRESS", "PARCEL"}]
    BY <1>1 DEF PackTypes
  <2>2. packing' = [phase |-> "fill", standing |-> packing.standing, nested |-> packing.nested,
                    main |-> packing.main + 1, mode |-> packing.mode]
    BY <1>1, <2>1 DEF PromoteBox
  <2>3. packing.main + 1 \in Nat
    BY <1>2
  <2> QED BY <2>1, <2>2, <2>3
<1>20. PackTypes'
  BY <1>12, <1>17, <1>18, <1>19 DEF PackTypes, Box
<1>21. PieceCount' = PieceCount /\ PieceCount \in Nat /\ packing.standing \in Nat
  BY <1>1, <1>19, SortedLists, BoxPackingAssumption DEF PieceCount, PackTypes
<1>22. PieceCount = 4 * Len(boxes) + n
  <2>1. PieceCount = Len(boxes) + 3 * ((Len(boxes) + 1) - 1) + n
    BY <1>1, <1>4, <1>5 DEF PlacesFilled, PerBox
  <2>2. \A b \in Nat : b + 3 * ((b + 1) - 1) = 4 * b
    OBVIOUS
  <2> QED BY <1>3, <2>1, <2>2
<1>23. BoxesNeeded'
  <2>1. packing.standing <= Len(boxes)
    BY <1>1 DEF BoxesNeeded
  <2>2. packing.standing <= Len(bs)
    BY <1>3, <1>17, <1>21, <2>1
  <2>3. PieceCount > 4 * (Len(bs) - 1)
    <3>1. Len(bs) - 1 = Len(boxes)
      BY <1>3, <1>17
    <3> QED BY <1>3, <1>7, <1>22, <3>1
  <2> QED BY <1>17, <1>18, <1>19, <1>21, <2>2, <2>3 DEF BoxesNeeded, PerBox
<1>24. PlacesFilled'
  <2>1. packing.main + 1 = Len(bs) + 1 /\ Len(bs) + 1 \in 1..(Len(bs) + 1)
    BY <1>3, <1>4, <1>17
  <2>2. \A i \in DOMAIN bs : i >= Len(bs) + 1 => bs[i].inside = <<>>
    BY <1>3, <1>17
  <2>3. IF l = <<>> THEN PieceCount <= 4 * Len(bs)
        ELSE PieceCount = Len(bs) + 3 * ((Len(bs) + 1) - 1) + Len(l)
    <3>1. l = <<>> <=> n - 1 - k = 0
      BY <1>12, EmptyList
    <3>2. \A b, c, e \in Nat : e <= c - 1 /\ e <= 3 /\ (e = 3 \/ e = c - 1) =>
            IF c - 1 - e = 0 THEN 4 * b + c <= 4 * (b + 1)
            ELSE 4 * b + c = (b + 1) + 3 * ((b + 1 + 1) - 1) + (c - 1 - e)
      OBVIOUS
    <3>3. n \in Nat /\ k \in Nat /\ k <= n - 1
      BY <1>7
    <3>4. IF n - 1 - k = 0 THEN 4 * Len(boxes) + n <= 4 * (Len(boxes) + 1)
          ELSE 4 * Len(boxes) + n = (Len(boxes) + 1) + 3 * ((Len(boxes) + 1 + 1) - 1) + (n - 1 - k)
      BY <1>3, <1>7, <3>2, <3>3
    <3> QED BY <1>12, <1>17, <1>22, <3>1, <3>4
  <2> QED BY <1>18, <1>19, <1>21, <2>1, <2>2, <2>3 DEF PlacesFilled, PerBox
<1>25. PiecesFit'
  <2>1. \A j \in DOMAIN l : l[j] <= w
    <3>1. \A j \in DOMAIN left : j <= n
      BY <1>2, <1>5
    <3> QED BY <1>2, <1>7, <1>8, <1>12, <3>1
  <2>2. \A j \in DOMAIN t : t[j] <= w
    <3>1. \A j \in DOMAIN left : j <= n
      BY <1>2, <1>5
    <3> QED BY <1>2, <1>7, <1>8, <1>13, <3>1
  <2> SUFFICES ASSUME NEW i \in DOMAIN bs
               PROVE  /\ Len(bs[i].inside) <= PerBox
                      /\ bs[i].volume # Standing =>
                           /\ \A j \in DOMAIN bs[i].inside : bs[i].inside[j] <= bs[i].volume
                           /\ \A j \in DOMAIN l : l[j] <= bs[i].volume
    BY <1>18 DEF PiecesFit
  <2>3. CASE i = Len(boxes) + 1
    BY <1>7, <1>13, <1>15, <1>17, <2>1, <2>2, <2>3 DEF PerBox
  <2>4. CASE i \in DOMAIN boxes
    <3>1. /\ Len(boxes[i].inside) <= PerBox
          /\ boxes[i].volume # Standing =>
               /\ \A j \in DOMAIN boxes[i].inside : boxes[i].inside[j] <= boxes[i].volume
               /\ \A j \in DOMAIN left : left[j] <= boxes[i].volume
      BY <1>1, <2>4 DEF PiecesFit
    <3> QED BY <1>12, <1>17, <2>4, <3>1
  <2> QED BY <1>17, <2>3, <2>4
<1>26. PiecesKept'
  <2> SUFFICES ASSUME NEW v \in Volumes
               PROVE  Cardinality(Packed(bs, v)) + Cardinality(Pieces(l, v))
                        = Cardinality(Pieces(packing.nested, v))
    BY <1>18, <1>19 DEF PiecesKept
  <2>1. PICK empty : empty = [volume |-> w, inside |-> <<>>]
    OBVIOUS
  <2>2. empty \in Box /\ empty.inside = <<>> /\ [empty EXCEPT !.inside = t] = x
    BY <1>11, <1>14, <2>1 DEF Box
  <2>3. PICK cs : cs = Append(boxes, empty)
    OBVIOUS
  <2>4. /\ cs \in Seq(Box) /\ Len(boxes) + 1 \in DOMAIN cs /\ cs[Len(boxes) + 1] = empty
        /\ Len(cs) = Len(boxes) + 1 /\ \A i \in DOMAIN boxes : cs[i] = boxes[i]
    BY <1>2, <2>2, <2>3
  <2>5. [cs EXCEPT ![Len(boxes) + 1].inside = t] = bs
    <3>1. PICK ds : ds = [cs EXCEPT ![Len(boxes) + 1] = x]
      OBVIOUS
    <3>2. ds = [cs EXCEPT ![Len(boxes) + 1].inside = t]
      BY <2>2, <2>4, <3>1
    <3>3. ds \in Seq(Box) /\ Len(ds) = Len(boxes) + 1
      BY <1>15, <2>4, <3>1
    <3>4. \A i \in 1..Len(ds) : ds[i] = bs[i]
      BY <1>2, <1>3, <1>17, <2>4, <3>1, <3>3
    <3> QED BY <1>17, <3>2, <3>3, <3>4, SeqEqual
  <2>6. Cardinality(Packed(cs, v)) = Cardinality(Packed(boxes, v)) + (IF w = v THEN 1 ELSE 0)
    BY <1>2, <1>11, <2>1, <2>3, PromotedCount
  <2>7. Cardinality(Packed(bs, v)) = Cardinality(Packed(cs, v)) + Cardinality(Pieces(t, v))
    <3>1. Len(t) <= PerBox
      BY <1>7, <1>13 DEF PerBox
    <3>2. cs[Len(boxes) + 1].inside = <<>>
      BY <2>2, <2>4
    <3> QED BY <1>13, <2>4, <2>5, <3>1, <3>2, FilledCount
  <2>8. PICK body : body = SubSeq(left, 1, n - 1)
    OBVIOUS
  <2>9. body \in Seq(Volumes) /\ Len(body) = n - 1 /\ \A i \in 1..(n - 1) : body[i] = left[i]
    BY <1>2, <1>5, <1>7, <2>8
  <2>10. Cardinality(Pieces(body, v)) = Cardinality(Pieces(l, v)) + Cardinality(Pieces(t, v))
    <3>1. Len(body) = Len(l) + Len(t)
      BY <1>7, <1>12, <1>13, <2>9
    <3>2. \A i \in 1..Len(l) : l[i] = body[i]
      BY <1>7, <1>12, <2>9
    <3>3. ASSUME NEW i \in 1..Len(t) PROVE t[i] = body[Len(l) + i]
      <4>1. i \in DOMAIN t /\ t[i] = left[i + (n - 1 - k)]
        BY <1>13
      <4>2. Len(l) + i = i + (n - 1 - k) /\ i + (n - 1 - k) \in 1..(n - 1)
        BY <1>7, <1>12, <1>13
      <4> QED BY <2>9, <4>1, <4>2
    <3>4. Joins(body, l, t)
      BY <3>1, <3>2, <3>3 DEF Joins
    <3> QED BY <1>12, <1>13, <2>9, <3>4, PiecesJoined
  <2>11. PICK last : last = <<w>>
    OBVIOUS
  <2>12. last \in Seq(Volumes) /\ Len(last) = 1 /\ last[1] = w
    BY <1>11, <2>11
  <2>13. Cardinality(Pieces(left, v)) = Cardinality(Pieces(body, v)) + Cardinality(Pieces(last, v))
    <3>1. Len(left) = Len(body) + Len(last)
      BY <1>5, <1>7, <2>9, <2>12
    <3>2. \A i \in 1..Len(body) : body[i] = left[i]
      BY <2>9
    <3>3. \A i \in 1..Len(last) : last[i] = left[Len(body) + i]
      BY <1>7, <1>8, <2>9, <2>12
    <3>4. Joins(left, body, last)
      BY <3>1, <3>2, <3>3 DEF Joins
    <3> QED BY <1>2, <2>9, <2>12, <3>4, PiecesJoined
  <2>14. Cardinality(Pieces(last, v)) = IF w = v THEN 1 ELSE 0
    BY <2>12, OnePiece
  <2>15. /\ Cardinality(Packed(boxes, v)) \in Nat /\ Cardinality(Pieces(t, v)) \in Nat
         /\ Cardinality(Pieces(l, v)) \in Nat
    BY <1>2, <1>12, <1>13, PiecesFinite, PackedFinite
  <2>16. Cardinality(Packed(boxes, v)) + Cardinality(Pieces(left, v)) = Cardinality(Pieces(packing.nested, v))
    BY <1>1 DEF PiecesKept
  <2> QED BY <2>6, <2>7, <2>10, <2>13, <2>14, <2>15, <2>16
<1> QED BY <1>19, <1>20, <1>23, <1>24, <1>25, <1>26 DEF PackInv

LEMMA FinishStep ==
  ASSUME PackInv, FinishPacking
  PROVE  PackInv'
<1>1. /\ packing.phase = "fill" /\ left = <<>> /\ left' = left
      /\ PackTypes /\ PlacesFilled /\ BoxesNeeded /\ PiecesFit /\ PiecesKept
  BY DEF FinishPacking, PackInv
<1>2. boxes \in Seq(Box)
  BY <1>1 DEF PackTypes, Box
<1>3. PICK bs : bs = IF boxes = <<>> THEN <<[volume |-> Standing, inside |-> <<>>]>> ELSE boxes
  OBVIOUS
<1>4. PICK mode : mode = IF Len(bs) <= 1 THEN "EXPRESS" ELSE "PARCEL"
  OBVIOUS
<1>5. boxes' = bs
  BY <1>3 DEF FinishPacking
<1>6. /\ packing'.phase = "done" /\ packing'.standing = packing.standing
      /\ packing'.nested = packing.nested /\ packing'.mode = mode
      /\ packing' \in [phase : {"idle", "fill", "done"}, standing : 0..MaxStanding, nested : Sorted,
                       main : Nat, mode : {"NONE", "EXPRESS", "PARCEL"}]
  <2>1. packing \in [phase : {"idle", "fill", "done"}, standing : 0..MaxStanding, nested : Sorted,
                     main : Nat, mode : {"NONE", "EXPRESS", "PARCEL"}]
    BY <1>1 DEF PackTypes
  <2>2. packing' = [phase |-> "done", standing |-> packing.standing, nested |-> packing.nested,
                    main |-> packing.main, mode |-> mode]
    BY <1>1, <1>3, <1>4, <2>1 DEF FinishPacking
  <2>3. mode \in {"EXPRESS", "PARCEL"}
    BY <1>4
  <2> QED BY <2>1, <2>2, <2>3
<1>7. PieceCount' = PieceCount /\ PieceCount \in Nat /\ packing.standing \in Nat
  BY <1>1, <1>6, SortedLists, BoxPackingAssumption DEF PieceCount, PackTypes
<1>8. PieceCount <= 4 * Len(boxes)
  BY <1>1 DEF PlacesFilled, PerBox
<1>9. CASE boxes # <<>>
  <2>1. bs = boxes
    BY <1>3, <1>9
  <2>2. PackTypes' /\ BoxesNeeded' /\ PiecesFit' /\ PiecesKept'
    BY <1>1, <1>5, <1>6, <1>7, <2>1 DEF PackTypes, BoxesNeeded, PiecesFit, PiecesKept
  <2> QED BY <1>1, <1>4, <1>5, <1>6, <1>7, <1>8, <1>9, <2>1, <2>2 DEF PackInv, PerBox
<1>10. CASE boxes = <<>>
  <2>1. Len(boxes) = 0
    BY <1>10
  <2>2. PieceCount = 0 /\ packing.standing = 0
    BY <1>1, <1>7, <1>8, <2>1 DEF BoxesNeeded
  <2>3. PICK x : x = [volume |-> Standing, inside |-> <<>>]
    OBVIOUS
  <2>4. x \in Box /\ x.volume = Standing /\ x.inside = <<>> /\ Len(x.inside) = 0
    BY <2>3 DEF Box
  <2>5. bs = <<x>>
    BY <1>3, <1>10, <2>3
  <2>6. bs \in Seq(Box) /\ Len(bs) = 1 /\ bs # <<>> /\ DOMAIN bs = {1} /\ bs[1] = x
    BY <2>4, <2>5
  <2>7. PackTypes'
    BY <1>1, <1>5, <1>6, <2>6 DEF PackTypes, Box
  <2>8. BoxesNeeded'
    BY <1>5, <1>6, <1>7, <2>2, <2>6 DEF BoxesNeeded
  <2>9. PiecesFit'
    BY <1>5, <2>4, <2>6 DEF PiecesFit, PerBox
  <2>10. PiecesKept'
    <3> SUFFICES ASSUME NEW v \in Volumes
                 PROVE  Cardinality(Packed(bs, v)) + Cardinality(Pieces(left, v))
                          = Cardinality(Pieces(packing.nested, v))
      BY <1>1, <1>5, <1>6 DEF PiecesKept
    <3>1. v # Standing
      BY BoxPackingAssumption DEF Standing
    <3>2. Packed(bs, v) = {} /\ Packed(boxes, v) = {}
      <4>1. {<<i, 0>> : i \in {j \in DOMAIN bs : bs[j].volume = v}} = {}
        BY <2>4, <2>6, <3>1
      <4>2. {c \in (DOMAIN bs) \X (1..PerBox) :
               c[2] \in DOMAIN bs[c[1]].inside /\ bs[c[1]].inside[c[2]] = v} = {}
        BY <2>4, <2>6
      <4>3. Packed(bs, v) = {}
        BY <4>1, <4>2 DEF Packed
      <4>4. Packed(boxes, v) = {}
        BY <1>10 DEF Packed
      <4> QED BY <4>3, <4>4
    <3>3. Cardinality(Packed(boxes, v)) + Cardinality(Pieces(left, v)) = Cardinality(Pieces(packing.nested, v))
      BY <1>1 DEF PiecesKept
    <3> QED BY <3>2, <3>3
  <2> QED BY <1>1, <1>4, <1>5, <1>6, <1>7, <2>2, <2>6, <2>7, <2>8, <2>9, <2>10 DEF PackInv, PerBox
<1> QED BY <1>9, <1>10

LEMMA DisposeStep ==
  ASSUME PackInv, Dispose
  PROVE  PackInv'
<1>1. /\ packing.phase = "done" /\ PackTypes /\ left = <<>> /\ left' = left /\ boxes' = <<>>
      /\ packing' = [packing EXCEPT !.phase = "idle"]
  BY DEF Dispose, PackInv
<1>2. /\ packing'.phase = "idle"
      /\ packing' \in [phase : {"idle", "fill", "done"}, standing : 0..MaxStanding, nested : Sorted,
                       main : Nat, mode : {"NONE", "EXPRESS", "PARCEL"}]
  <2>1. packing \in [phase : {"idle", "fill", "done"}, standing : 0..MaxStanding, nested : Sorted,
                     main : Nat, mode : {"NONE", "EXPRESS", "PARCEL"}]
    BY <1>1 DEF PackTypes
  <2> QED BY <1>1, <2>1
<1>3. PackTypes'
  BY <1>1, <1>2 DEF PackTypes
<1> QED BY <1>1, <1>2, <1>3 DEF PackInv

\* What the invariant says of an order that is packed.
LEMMA PackSafe ==
  ASSUME PackInv, packing.phase = "done"
  PROVE  PackedSafely
<1>1. /\ PackTypes /\ BoxesNeeded /\ PiecesFit /\ PiecesKept /\ left = <<>> /\ boxes # <<>>
      /\ PieceCount <= 4 * Len(boxes)
      /\ packing.mode = IF Len(boxes) <= 1 THEN "EXPRESS" ELSE "PARCEL"
  BY DEF PackInv, PerBox
<1>2. boxes \in Seq(Box)
  BY <1>1 DEF PackTypes, Box
<1>3. PICK b : b = Len(boxes)
  OBVIOUS
<1>4. PICK s : s = packing.standing
  OBVIOUS
<1>5. PICK n : n = Len(packing.nested)
  OBVIOUS
<1>6. b \in Nat \ {0} /\ s \in Nat /\ n \in Nat /\ PieceCount = s + n
  BY <1>1, <1>2, <1>3, <1>4, <1>5, SortedLists, BoxPackingAssumption, EmptyList DEF PackTypes, PieceCount
<1>7. s <= b /\ s + n <= 4 * b /\ (b > s /\ b > 1 => s + n > 4 * (b - 1))
  BY <1>1, <1>3, <1>4, <1>6 DEF BoxesNeeded, PerBox
<1>8. b = LeastBoxes(s, n)
  <2> DEFINE Enough(k) == /\ k >= s /\ s + n <= k * (PerBox + 1)
                          /\ \A j \in 1..(k - 1) : j < s \/ s + n > j * (PerBox + 1)
  <2>1. b \in 1..(s + n + 1)
    BY <1>6, <1>7
  <2>2. Enough(b)
    <3>1. ASSUME NEW j \in 1..(b - 1) PROVE j < s \/ s + n > j * 4
      <4>1. CASE b > s
        <5>1. b > 1 /\ s + n > 4 * (b - 1)
          BY <1>6, <1>7, <3>1, <4>1
        <5> QED BY <1>6, <5>1
      <4>2. CASE b = s
        BY <1>6, <4>2
      <4> QED BY <1>6, <1>7, <4>1, <4>2
    <3> QED BY <1>6, <1>7, <3>1 DEF PerBox
  <2>3. ASSUME NEW k \in 1..(s + n + 1), Enough(k) PROVE k = b
    <3>1. CASE k < b
      <4>1. k \in 1..(b - 1)
        BY <1>6, <3>1
      <4>2. k < s \/ s + n > k * (PerBox + 1)
        BY <2>2, <4>1
      <4> QED BY <1>6, <2>3, <4>2 DEF PerBox
    <3>2. CASE b < k
      <4>1. b \in 1..(k - 1)
        BY <1>6, <3>2
      <4>2. b < s \/ s + n > b * (PerBox + 1)
        BY <2>3, <4>1
      <4> QED BY <1>6, <1>7, <4>2 DEF PerBox
    <3> QED BY <1>6, <3>1, <3>2
  <2> QED BY <2>1, <2>2, <2>3 DEF LeastBoxes
<1>9. packing.mode = "EXPRESS" <=> b <= 1
  BY <1>1, <1>3
<1>10. b <= 1 <=> s + n <= 4 /\ s <= 1
  BY <1>6, <1>7
<1>11. \A v \in Volumes : Cardinality(Packed(boxes, v)) = Cardinality(Pieces(packing.nested, v))
  <2> TAKE v \in Volumes
  <2>1. Pieces(left, v) = {}
    BY <1>1 DEF Pieces
  <2>2. Cardinality(Packed(boxes, v)) \in Nat
    BY <1>2, PackedFinite
  <2>3. Cardinality(Packed(boxes, v)) + Cardinality(Pieces(left, v)) = Cardinality(Pieces(packing.nested, v))
    BY <1>1 DEF PiecesKept
  <2> QED BY <2>1, <2>2, <2>3, FS_EmptySet
<1>12. \A i \in DOMAIN boxes :
         /\ Len(boxes[i].inside) <= PerBox
         /\ boxes[i].volume # Standing =>
               \A j \in DOMAIN boxes[i].inside : boxes[i].inside[j] <= boxes[i].volume
  BY <1>1 DEF PiecesFit
<1> QED BY <1>3, <1>4, <1>5, <1>8, <1>9, <1>10, <1>11, <1>12 DEF PackedSafely, PerBox

\* PackInv holds in every reachable state: the boxes passed are full while anything
\* is left, and nothing that was collected is lost on the way (packBoxes).
THEOREM PackingInvariant == PackSpec => []PackInv
<1>1. PackInit => PackInv
  BY PackStart
<1>2. PackInv /\ [PackNext]_packVars => PackInv'
  <2> SUFFICES ASSUME PackInv, [PackNext]_packVars PROVE PackInv'
    OBVIOUS
  <2>1. CASE UNCHANGED packVars
    BY <2>1 DEF packVars, PackInv, PackTypes, PlacesFilled, BoxesNeeded, PiecesFit, PiecesKept,
          PieceCount, Packed, Pieces
  <2> QED BY <2>1, CollectStep, FillStep, PromoteStep, FinishStep, DisposeStep DEF PackNext
<1> QED BY <1>1, <1>2, PTL DEF PackSpec

\* Packing an order neither loses a piece nor ships one twice, keeps to the places of
\* a box and needs as few boxes as can be (packBoxes).
THEOREM OrdersArePacked == PackSpec => []PackedSafely
<1>1. PackInv => PackedSafely
  BY PackSafe DEF PackedSafely
<1> QED BY <1>1, PackingInvariant, PTL

-----------------------------------------------------------------------------
(* Lists that are read page by page (ReportExports). *)

LEMMA FinitelyMany ==
  ASSUME ReportTypes
  PROVE  /\ Present \subseteq Rows /\ Rows \subseteq Nat
         /\ IsFiniteSet(Present) /\ Cardinality(Present) \in Nat
         /\ \A r \in Present : stamps[r] \in Nat /\ stamps[r] <= now
         /\ \A r : Ahead(r) \subseteq Present /\ IsFiniteSet(Ahead(r)) /\ Cardinality(Ahead(r)) \in Nat
<1>1. Present \subseteq Rows /\ Rows \subseteq Nat
  BY ReportAssumption DEF Present
<1>2. Present \in SUBSET {r \in Rows : stamps[r] > 0}
  BY DEF Present
<1>3. IsFiniteSet(Present)
  BY <1>2, FS_Subset DEF ReportTypes
<1>4. Cardinality(Present) \in Nat
  BY <1>3, FS_CardinalityType
<1>5. \A r \in Present : stamps[r] \in Nat /\ stamps[r] <= now
  BY <1>1 DEF ReportTypes
<1>6. ASSUME NEW r
      PROVE  Ahead(r) \subseteq Present /\ IsFiniteSet(Ahead(r)) /\ Cardinality(Ahead(r)) \in Nat
  <2>1. Ahead(r) \in SUBSET Present
    BY DEF Ahead
  <2>2. IsFiniteSet(Ahead(r))
    BY <1>3, <2>1, FS_Subset
  <2> QED BY <2>1, <2>2, FS_CardinalityType
<1> QED BY <1>1, <1>3, <1>4, <1>5, <1>6

\* Of two rows one comes first.
LEMMA OneIsFirst ==
  ASSUME ReportTypes, ToldApart, NEW a \in Present, NEW b \in Present, a # b
  PROVE  Before(a, b) <=> ~Before(b, a)
<1>1. /\ a \in Nat /\ b \in Nat /\ stamps[a] \in Nat /\ stamps[b] \in Nat
      /\ a \in Rows /\ b \in Rows
  BY FinitelyMany
<1>2. ~listing.unique => stamps[a] # stamps[b]
  BY DEF ToldApart
<1> QED BY <1>1, <1>2 DEF Before

LEMMA FirstOfThree ==
  ASSUME ReportTypes, ToldApart, NEW a \in Present, NEW b \in Present, NEW c \in Present,
         a # b, b # c, Before(a, b), Before(b, c)
  PROVE  a # c /\ Before(a, c)
<1>1. /\ a \in Nat /\ b \in Nat /\ stamps[a] \in Nat /\ stamps[b] \in Nat
      /\ c \in Nat /\ stamps[c] \in Nat
  BY FinitelyMany
<1>2. ~listing.unique => stamps[a] # stamps[b] /\ stamps[b] # stamps[c]
  BY DEF ToldApart
<1> QED BY <1>1, <1>2 DEF Before

\* Rows have places of their own in the list.
LEMMA MoreAhead ==
  ASSUME ReportTypes, ToldApart, NEW a \in Present, NEW b \in Present, a # b, Before(a, b)
  PROVE  Cardinality(Ahead(a)) < Cardinality(Ahead(b))
<1>1. a \notin Ahead(a)
  BY DEF Ahead
<1>2. ASSUME NEW p \in Ahead(a) PROVE p \in Ahead(b)
  <2>1. p \in Present /\ p # a /\ Before(p, a)
    BY <1>2 DEF Ahead
  <2>2. p # b /\ Before(p, b)
    BY <2>1, FirstOfThree
  <2> QED BY <2>1, <2>2 DEF Ahead
<1>3. a \in Ahead(b)
  BY DEF Ahead
<1>4. Ahead(a) \cup {a} \in SUBSET Ahead(b)
  BY <1>2, <1>3
<1>5. IsFiniteSet(Ahead(a)) /\ IsFiniteSet(Ahead(b)) /\ Cardinality(Ahead(a)) \in Nat
      /\ Cardinality(Ahead(b)) \in Nat
  BY FinitelyMany
<1>6. Cardinality(Ahead(a) \cup {a}) = Cardinality(Ahead(a)) + 1
  BY <1>1, <1>5, FS_AddElement
<1>7. Cardinality(Ahead(a) \cup {a}) <= Cardinality(Ahead(b))
  BY <1>4, <1>5, FS_Subset
<1> QED BY <1>5, <1>6, <1>7

LEMMA OwnPlace ==
  ASSUME ReportTypes, ToldApart, NEW a \in Present, NEW b \in Present,
         Cardinality(Ahead(a)) = Cardinality(Ahead(b))
  PROVE  a = b
<1> SUFFICES ASSUME a # b PROVE FALSE
  OBVIOUS
<1>1. Before(a, b) \/ Before(b, a)
  BY OneIsFirst
<1>2. Cardinality(Ahead(a)) \in Nat /\ Cardinality(Ahead(b)) \in Nat
  BY FinitelyMany
<1> QED BY <1>1, <1>2, MoreAhead

\* The database has one way to answer: a row is where as many are ahead of it.
LEMMA OneArrangement ==
  ASSUME ReportTypes, ToldApart, NEW s \in Arrangements
  PROVE  /\ s \in [1..Cardinality(Present) -> Present] /\ Len(s) = Cardinality(Present)
         /\ \A i \in 1..Len(s) : Cardinality(Ahead(s[i])) = i - 1
<1> DEFINE n == Cardinality(Present)
<1>1. n \in Nat /\ IsFiniteSet(Present)
  BY FinitelyMany
<1>2. s \in [1..n -> Present] /\ \A i, j \in 1..n : i # j => s[i] # s[j]
  BY DEF Arrangements, SetToSeqs
<1>3. Len(s) = n
  BY <1>1, <1>2
<1>4. \A i, j \in 1..n : i < j => Before(s[i], s[j])
  BY <1>3 DEF Arrangements
<1>5. IsFiniteSet(1..n) /\ Cardinality(1..n) = n
  <2>1. 1 \in Int /\ n \in Int
    BY <1>1
  <2> QED BY <1>1, <2>1, FS_Interval
<1>6. s \in Injection(1..n, Present)
  BY <1>2 DEF Injection, IsInjective
<1>7. s \in Surjection(1..n, Present)
  BY <1>1, <1>5, <1>6, FS_Injection
<1>8. \A p \in Present : \E i \in 1..n : s[i] = p
  BY <1>7 DEF Surjection
<1>9. ASSUME NEW i \in 1..n PROVE Cardinality(Ahead(s[i])) = i - 1
  <2>1. s[i] \in Present
    BY <1>2
  <2>2. PICK f : f = [j \in 1..(i - 1) |-> s[j]]
    OBVIOUS
  <2>3. 1..(i - 1) \subseteq 1..n
    BY <1>1
  <2>4. ASSUME NEW j \in 1..(i - 1) PROVE f[j] \in Ahead(s[i]) /\ f[j] = s[j]
    <3>1. j \in 1..n /\ j < i /\ f[j] = s[j]
      BY <1>1, <2>2
    <3>2. s[j] \in Present /\ s[j] # s[i] /\ Before(s[j], s[i])
      BY <1>2, <1>4, <3>1
    <3> QED BY <3>1, <3>2 DEF Ahead
  <2>5. ASSUME NEW p \in Ahead(s[i]) PROVE \E j \in 1..(i - 1) : f[j] = p
    <3>1. p \in Present /\ p # s[i] /\ Before(p, s[i])
      BY <2>5 DEF Ahead
    <3>2. PICK j \in 1..n : s[j] = p
      BY <1>8, <3>1
    <3>3. ~(i < j)
      BY <1>4, <2>1, <3>1, <3>2, OneIsFirst
    <3>4. j # i
      BY <3>1, <3>2
    <3>5. j \in 1..(i - 1)
      BY <1>1, <3>3, <3>4
    <3> QED BY <2>4, <3>2, <3>5
  <2>6. f \in [1..(i - 1) -> Ahead(s[i])]
    BY <2>2, <2>4
  <2>7. f \in Surjection(1..(i - 1), Ahead(s[i]))
    BY <2>5, <2>6 DEF Surjection
  <2>8. \A j, k \in 1..(i - 1) : f[j] = f[k] => j = k
    BY <1>2, <2>3, <2>4
  <2>9. f \in Injection(1..(i - 1), Ahead(s[i]))
    BY <2>6, <2>8 DEF Injection, IsInjective
  <2>10. i - 1 \in Nat
    BY <1>1
  <2>11. ExistsBijection(1..(i - 1), Ahead(s[i]))
    BY <2>7, <2>9 DEF ExistsBijection, Bijection
  <2> QED BY <2>10, <2>11, FS_CountingElements
<1> QED BY <1>2, <1>3, <1>9

-----------------------------------------------------------------------------
(* Steps. *)

LEMMA SameTable ==
  ASSUME UNCHANGED <<listing, stamps, gone>>
  PROVE  /\ Present' = Present /\ (ToldApart' <=> ToldApart)
         /\ \A r : /\ Ahead(r)' = Ahead(r) /\ (Follows(r)' <=> Follows(r))
                   /\ (StartKept(r)' <=> StartKept(r)) /\ (SeenInOrder(r)' <=> SeenInOrder(r))
<1>1. Present' = Present
  BY DEF Present
<1>2. \A a, b : Before(a, b)' <=> Before(a, b)
  BY DEF Before
<1>3. ToldApart' <=> ToldApart
  BY <1>1 DEF ToldApart
<1>4. \A r : Ahead(r)' = Ahead(r)
  BY <1>1, <1>2 DEF Ahead
<1>5. \A r : Follows(r)' <=> Follows(r)
  BY DEF Follows
<1>6. \A r : StartKept(r)' <=> StartKept(r)
  BY <1>1, <1>2 DEF StartKept
<1>7. \A r : SeenInOrder(r)' <=> SeenInOrder(r)
  BY <1>1, <1>4 DEF SeenInOrder
<1> QED BY <1>1, <1>3, <1>4, <1>5, <1>6, <1>7

\* One reader goes on, and the table stays as it is.
LEMMA WalkerGoesOn ==
  ASSUME ReportInv, NEW w \in Walkers, NEW x \in WalkType, UNCHANGED <<listing, stamps, gone, now>>,
         walk' = [walk EXCEPT ![w] = x],
         (ToldApart /\ Follows(x)) => StartKept(x) /\ SeenInOrder(x)
  PROVE  ReportTypes' /\ ReadersFollow'
<1>1. walk'[w] = x /\ \A v \in Walkers \ {w} : walk'[v] = walk[v]
  BY DEF ReportInv, ReportTypes
<1>2. walk' \in [Walkers -> WalkType]
  BY DEF ReportInv, ReportTypes
<1>3. ReportTypes'
  BY <1>2 DEF ReportInv, ReportTypes
<1>4. ASSUME ToldApart', NEW v \in Walkers, Follows(walk[v])'
      PROVE  StartKept(walk[v])' /\ SeenInOrder(walk[v])'
  <2>1. PICK y : y = walk'[v]
    OBVIOUS
  <2>2. ToldApart /\ Follows(y)
    BY <1>4, <2>1, SameTable
  <2>3. StartKept(y) /\ SeenInOrder(y)
    BY <1>1, <2>1, <2>2 DEF ReportInv, ReadersFollow
  <2>4. StartKept(y)' /\ SeenInOrder(y)'
    BY <2>3, SameTable
  <2> QED BY <2>1, <2>4
<1> QED BY <1>3, <1>4 DEF ReadersFollow

\* A reader that does not come to enter a report needs no object.
\* A reader that does not come to enter a report needs no object.
LEMMA WalkerReads ==
  ASSUME ReportInv, NEW w \in Walkers, NEW x \in WalkType, Advance(w, x),
         x.at \notin {"idle", "register"},
         (ToldApart /\ Follows(x)) => StartKept(x) /\ SeenInOrder(x)
  PROVE  ReportInv'
<1>1. /\ walk' = [walk EXCEPT ![w] = x]
      /\ UNCHANGED <<listing, stamps, gone, now, objects, registry>>
  BY DEF Advance
<1>2. ReportTypes' /\ ReadersFollow'
  BY <1>1, WalkerGoesOn
<1>3. walk'[w] = x /\ \A v \in Walkers \ {w} : walk'[v] = walk[v]
  BY <1>1 DEF ReportInv, ReportTypes
<1>4. RegistryBacked'
  BY <1>1 DEF ReportInv, RegistryBacked
<1>5. ASSUME NEW v \in Walkers, walk'[v].at = "register"
      PROVE  \E o \in objects : o.key = StorageKey(v)' /\ o.content = walk'[v].seen
  <2>1. v # w /\ walk'[v] = walk[v]
    BY <1>3, <1>5
  <2>2. StorageKey(v)' = StorageKey(v)
    BY <1>1, <2>1 DEF StorageKey
  <2> QED BY <1>5, <2>1, <2>2 DEF ReportInv, KeysNameContent
<1>6. KeysNameContent'
  BY <1>1, <1>5 DEF ReportInv, KeysNameContent
<1>7. \A v \in Walkers : walk'[v].at = "idle" => walk'[v] = Closed
  BY <1>3 DEF ReportInv
<1> QED BY <1>2, <1>4, <1>6, <1>7 DEF ReportInv, Closed

LEMMA OpenStep ==
  ASSUME ReportInv, NEW w \in Walkers, Open(w)
  PROVE  ReportInv'
<1>1. PICK x : x = [walk[w] EXCEPT !.at = "count", !.start = Present]
  OBVIOUS
<1>2. walk[w] \in WalkType /\ walk[w] = Closed /\ Advance(w, x)
  BY <1>1 DEF Open, ReportInv, ReportTypes
<1>3. PICK here : here = Present
  OBVIOUS
<1>4. here \in SUBSET Rows /\ ReportTypes
  BY <1>3, FinitelyMany DEF ReportInv
<1>5. x = [walk[w] EXCEPT !.at = "count", !.start = here]
  BY <1>1, <1>3
<1>6. /\ x \in WalkType /\ x.at = "count" /\ x.start = Present /\ x.seen = <<>> /\ x.page = 1
      /\ x.grew = FALSE
  <2>1. walk[w].seen = <<>> /\ walk[w].page = 1 /\ walk[w].grew = FALSE
    BY <1>2 DEF Closed
  <2>2. /\ x \in WalkType /\ x.at = "count" /\ x.start = here /\ x.seen = walk[w].seen
        /\ x.page = walk[w].page /\ x.grew = walk[w].grew
    BY <1>2, <1>4, <1>5 DEF WalkType
  <2> QED BY <1>3, <2>1, <2>2
<1>7. StartKept(x)
  BY <1>6 DEF StartKept
<1>8. (1 - 1) * PageSize = 0
  BY ReportAssumption
<1>9. SeenInOrder(x)
  BY <1>6, <1>8 DEF SeenInOrder
<1> QED BY <1>2, <1>6, <1>7, <1>9, WalkerReads

LEMMA CountRowsStep ==
  ASSUME ReportInv, NEW w \in Walkers, CountRows(w)
  PROVE  ReportInv'
<1>1. PICK n : n = Cardinality(Present)
  OBVIOUS
<1>2. PICK x : x = [walk[w] EXCEPT !.at = "fetch", !.total = n]
  OBVIOUS
<1>3. walk[w] \in WalkType /\ walk[w].at = "count" /\ Advance(w, x)
  BY <1>1, <1>2 DEF CountRows, ReportInv, ReportTypes
<1>4. n \in Nat /\ IsFiniteSet(Present)
  BY <1>1, FinitelyMany DEF ReportInv
<1>5. /\ x \in WalkType /\ x.at = "fetch" /\ x.start = walk[w].start /\ x.seen = walk[w].seen
      /\ x.page = walk[w].page /\ x.grew = walk[w].grew /\ x.shook = walk[w].shook /\ x.total = n
  BY <1>2, <1>3, <1>4 DEF WalkType
<1>6. ASSUME ToldApart, Follows(x) PROVE StartKept(x) /\ SeenInOrder(x)
  <2>1. Follows(walk[w])
    BY <1>3, <1>5, <1>6 DEF Follows
  <2>2. StartKept(walk[w]) /\ SeenInOrder(walk[w])
    BY <1>6, <2>1 DEF ReportInv, ReadersFollow
  <2>3. StartKept(x)
    BY <1>5, <2>2 DEF StartKept
  <2>4. x.start \in SUBSET Present
    BY <2>3 DEF StartKept
  <2>5. Cardinality(x.start) <= n
    BY <1>1, <1>4, <2>4, FS_Subset
  <2>6. Cardinality(x.start) \in Nat
    BY <1>4, <2>4, FS_Subset, FS_CardinalityType
  <2>7. x.total >= Cardinality(x.start) /\ x.total <= Cardinality(Present)
    BY <1>1, <1>4, <1>5, <2>5, <2>6
  <2> QED BY <1>3, <1>5, <2>2, <2>3, <2>7 DEF SeenInOrder
<1> QED BY <1>3, <1>5, <1>6, WalkerReads

-----------------------------------------------------------------------------
(* A page. *)

LEMMA PagesCover ==
  ASSUME NEW total \in Nat, NEW size \in Nat \ {0}, NEW page \in Nat \ {0}
  PROVE  /\ page >= (total + size - 1) \div size => page * size >= total
         /\ page < (total + size - 1) \div size => page * size < total
         /\ page * size = (page - 1) * size + size /\ (page + 1 - 1) * size = page * size
         /\ (page - 1) * size \in Nat /\ page * size \in Nat
<1>1. PICK a : a = total + size - 1
  OBVIOUS
<1>2. a \in Nat
  BY <1>1
<1>3. PICK q : q = a \div size
  OBVIOUS
<1>4. q \in Nat /\ q * size <= a /\ a < q * size + size
  BY <1>2, <1>3
<1>5. page >= q => page * size >= q * size
  BY <1>4
<1>6. page < q => page * size + size <= q * size
  BY <1>4
<1>7. /\ page * size = (page - 1) * size + size /\ (page + 1 - 1) * size = page * size
      /\ page * size \in Nat /\ (page - 1) * size \in Nat /\ q * size \in Nat
  BY <1>4
<1> QED BY <1>1, <1>2, <1>3, <1>4, <1>5, <1>6, <1>7

\* A part of a sequence, which may begin after its end.
LEMMA PartOf ==
  ASSUME NEW S, NEW n \in Nat, NEW q \in [1..n -> S], NEW from \in Nat, NEW last \in Nat, last <= n,
         NEW len \in Nat, len = IF from < last THEN last - from ELSE 0
  PROVE  /\ SubSeq(q, from + 1, last) \in Seq(S)
         /\ Len(SubSeq(q, from + 1, last)) = len
         /\ \A i \in 1..len : from + i \in 1..n /\ SubSeq(q, from + 1, last)[i] = q[from + i]
<1> DEFINE part == SubSeq(q, from + 1, last)
<1>1. PICK first \in Int : first = from + 1
  OBVIOUS
<1>2. last \in Int
  OBVIOUS
<1>3. \A i \in first..last : i \in 1..n
  BY <1>1
<1>4. \A i \in first..last : q[i] \in S
  BY <1>3
<1>5. /\ SubSeq(q, first, last) \in Seq(S)
      /\ Len(SubSeq(q, first, last)) = IF first <= last THEN last - first + 1 ELSE 0
      /\ \A i \in 1..(last - first + 1) : SubSeq(q, first, last)[i] = q[first + i - 1]
  <2> HIDE <1>1, <1>3
  <2> QED BY ONLY <1>2, <1>4, first \in Int, SubSeqProperties
<1>6. (IF first <= last THEN last - first + 1 ELSE 0) = len
  BY <1>1
<1>7. ASSUME NEW i \in 1..len PROVE from + i \in 1..n /\ part[i] = q[from + i]
  <2>1. i \in 1..(last - first + 1) /\ first + i - 1 = from + i /\ from + i \in 1..n
    BY <1>1
  <2> QED BY <1>1, <1>5, <2>1
<1> QED BY <1>1, <1>5, <1>6, <1>7

\* How long a page is.
LEMMA PageLength ==
  ASSUME NEW size \in Nat \ {0}, NEW from \in Nat, NEW to \in Nat, NEW n \in Nat, to = from + size,
         NEW last, last = IF to < n THEN to ELSE n,
         NEW len, len = IF from < last THEN last - from ELSE 0
  PROVE  /\ last \in Nat /\ last <= n /\ len \in Nat
         /\ len = IF to < n THEN size ELSE IF from < n THEN n - from ELSE 0
<1>1. CASE to < n
  BY <1>1
<1>2. CASE ~(to < n)
  BY <1>2
<1> QED BY <1>1, <1>2

LEMMA PageShown ==
  ASSUME ReportTypes, ToldApart, NEW s \in Arrangements, NEW page \in Nat \ {0},
         NEW from \in Nat, NEW to \in Nat, NEW n \in Nat,
         from = (page - 1) * PageSize, to = page * PageSize, n = Cardinality(Present)
  PROVE  /\ PageOf(s, page) \in Seq(Rows)
         /\ Len(PageOf(s, page)) =
              IF to < n THEN PageSize ELSE IF from < n THEN n - from ELSE 0
         /\ \A i \in DOMAIN PageOf(s, page) :
              /\ PageOf(s, page)[i] \in Present
              /\ Cardinality(Ahead(PageOf(s, page)[i])) = from + i - 1
<1>1. /\ s \in [1..n -> Present] /\ Len(s) = n
      /\ \A i \in 1..n : Cardinality(Ahead(s[i])) = i - 1
  BY OneArrangement
<1>2. to = from + PageSize /\ PageSize \in Nat \ {0}
  BY ReportAssumption, PagesCover
<1>3. PICK last : last = IF to < n THEN to ELSE n
  OBVIOUS
<1>4. PICK len : len = IF from < last THEN last - from ELSE 0
  OBVIOUS
<1>5. PICK rows : rows = SubSeq(s, from + 1, last)
  OBVIOUS
<1>6. PageOf(s, page) = rows
  BY <1>1, <1>3, <1>5 DEF PageOf
<1>7. /\ last \in Nat /\ last <= n /\ len \in Nat
      /\ len = IF to < n THEN PageSize ELSE IF from < n THEN n - from ELSE 0
  <2> QED BY ONLY n \in Nat, from \in Nat, to \in Nat, <1>2, <1>3, <1>4, PageLength
<1>8. /\ rows \in Seq(Present) /\ Len(rows) = len
      /\ \A i \in 1..len : from + i \in 1..n /\ rows[i] = s[from + i]
  <2>1. s \in [1..n -> Present] /\ last \in Nat /\ last <= n /\ len \in Nat
    BY <1>1, <1>7
  <2> QED BY ONLY n \in Nat, from \in Nat, <1>4, <1>5, <2>1, PartOf
<1>9. Present \subseteq Rows
  BY DEF Present
<1>10. rows \in Seq(Rows) /\ DOMAIN rows = 1..len
  BY <1>8, <1>9
<1>11. ASSUME NEW i \in DOMAIN rows
       PROVE  rows[i] \in Present /\ Cardinality(Ahead(rows[i])) = from + i - 1
  <2>1. i \in 1..len
    BY <1>10
  <2>2. from + i \in 1..n /\ rows[i] = s[from + i]
    BY <1>8, <2>1
  <2>3. i \in Nat
    BY <1>7, <2>1
  <2>4. PICK place \in 1..n : place = from + i
    BY ONLY <2>2
  <2>5. s[place] \in Present /\ Cardinality(Ahead(s[place])) = place - 1
    BY ONLY <1>1, <2>4
  <2>6. rows[i] = s[place]
    BY ONLY <2>2, <2>4, Zenon
  <2>7. place - 1 = from + i - 1
    BY ONLY <2>3, <2>4, from \in Nat
  <2> QED BY ONLY <2>5, <2>6, <2>7, Zenon
<1> QED BY ONLY <1>6, <1>7, <1>8, <1>10, <1>11

LEMMA FetchPageStep ==
  ASSUME ReportInv, NEW w \in Walkers, FetchPage(w)
  PROVE  ReportInv'
<1>1. PICK s \in Arrangements :
        LET rows == PageOf(s, walk[w].page)
            last == walk[w].page >= Pages(walk[w].total) \/ rows = <<>>
        IN  Advance(w, [walk[w] EXCEPT !.seen = @ \o rows,
                          !.page = IF last THEN @ ELSE @ + 1,
                          !.at = IF last THEN "walked" ELSE "count"])
  BY Zenon DEF FetchPage
<1>2. PICK rows : rows = PageOf(s, walk[w].page)
  OBVIOUS
<1>3. walk[w] \in WalkType /\ walk[w].at = "fetch" /\ ReportTypes
  BY DEF FetchPage, ReportInv, ReportTypes
<1>4. PICK page : page = walk[w].page
  OBVIOUS
<1>5. PICK total : total = walk[w].total
  OBVIOUS
<1>6. page \in Nat \ {0} /\ total \in Nat /\ walk[w].seen \in Seq(Rows)
  BY <1>3, <1>4, <1>5 DEF WalkType
<1>7. PICK seen : seen = walk[w].seen \o rows
  OBVIOUS
<1>8. rows \in Seq(Rows)
  <2>1. s \in [1..Cardinality(Present) -> Present]
    BY DEF Arrangements, SetToSeqs
  <2>2. Cardinality(Present) \in Nat /\ Present \subseteq Rows
    BY <1>3, FinitelyMany
  <2>3. PICK n : n = Cardinality(Present)
    OBVIOUS
  <2>4. s \in [1..n -> Rows] /\ Len(s) = n /\ n \in Nat
    BY <2>1, <2>2, <2>3
  <2>5. (page - 1) * PageSize \in Nat /\ page * PageSize \in Nat
    BY <1>6, ReportAssumption, PagesCover
  <2>6. PICK from : from = (page - 1) * PageSize + 1
    OBVIOUS
  <2>7. PICK end : end = IF page * PageSize < n THEN page * PageSize ELSE n
    OBVIOUS
  <2>8. rows = SubSeq(s, from, end)
    BY <1>2, <1>4, <2>4, <2>6, <2>7 DEF PageOf
  <2>9. from \in Int /\ end \in Int /\ \A i \in from..end : s[i] \in Rows
    BY <2>4, <2>5, <2>6, <2>7
  <2> QED BY <2>8, <2>9, SubSeqProperties
<1>9. PICK last \in BOOLEAN : last <=> (page >= Pages(total) \/ rows = <<>>)
  <2>1. PICK l : l = (page >= Pages(total) \/ rows = <<>>)
    OBVIOUS
  <2> QED BY <2>1
<1>10. PICK next : next = IF last THEN page ELSE page + 1
  OBVIOUS
<1>20. PICK at : at = IF last THEN "walked" ELSE "count"
  OBVIOUS
<1>21. PICK x : x = [walk[w] EXCEPT !.seen = seen, !.page = next, !.at = at]
  OBVIOUS
<1>11. Advance(w, x)
  BY <1>1, <1>2, <1>4, <1>5, <1>7, <1>9, <1>10, <1>20, <1>21
<1>12. seen \in Seq(Rows)
  BY <1>6, <1>7, <1>8
<1>13. /\ x \in WalkType /\ x.at = (IF last THEN "walked" ELSE "count") /\ x.start = walk[w].start
       /\ x.seen = seen /\ x.page = (IF last THEN page ELSE page + 1) /\ x.grew = walk[w].grew
       /\ x.shook = walk[w].shook
  <2>1. next \in Nat \ {0} /\ at \in {"walked", "count"}
    BY <1>6, <1>10, <1>20
  <2>2. /\ x \in WalkType /\ x.at = at /\ x.start = walk[w].start /\ x.seen = seen /\ x.page = next
        /\ x.grew = walk[w].grew /\ x.shook = walk[w].shook
    BY <1>3, <1>21, <1>12, <2>1 DEF WalkType
  <2> QED BY <1>10, <1>20, <2>2
<1>14. x.at \in {"walked", "count"}
  BY <1>13
<1>15. ASSUME ToldApart, Follows(x) PROVE StartKept(x) /\ SeenInOrder(x)
  <2>1. Follows(walk[w])
    BY <1>3, <1>13, <1>15 DEF Follows
  <2>2. StartKept(walk[w]) /\ SeenInOrder(walk[w])
    BY <1>15, <2>1 DEF ReportInv, ReadersFollow
  <2>3. StartKept(x)
    BY <1>13, <2>2 DEF StartKept
  <2>4. PICK n : n = Cardinality(Present)
    OBVIOUS
  <2>5. n \in Nat /\ IsFiniteSet(Present)
    BY <1>3, <2>4, FinitelyMany
  <2>6. PICK from : from = (page - 1) * PageSize
    OBVIOUS
  <2>7. PICK to : to = page * PageSize
    OBVIOUS
  <2>8. /\ from \in Nat /\ to \in Nat /\ to = from + PageSize /\ (page + 1 - 1) * PageSize = to
        /\ PageSize \in Nat \ {0}
        /\ page >= Pages(total) => to >= total
        /\ page < Pages(total) => to < total
    BY <1>6, <2>6, <2>7, ReportAssumption, PagesCover DEF Pages
  <2>9. /\ Len(rows) = IF to < n THEN PageSize ELSE IF from < n THEN n - from ELSE 0
        /\ \A i \in DOMAIN rows : rows[i] \in Present /\ Cardinality(Ahead(rows[i])) = from + i - 1
    <3>1. rows = PageOf(s, page)
      BY <1>2, <1>4
    <3>2. ReportTypes /\ ToldApart
      BY <1>3, <1>15
    <3> HIDE <1>2, <1>3, <1>15, <2>8
    <3>3. from \in Nat /\ to \in Nat
      BY <2>8
    <3> QED BY <1>6, <2>4, <2>5, <2>6, <2>7, <3>1, <3>2, <3>3, PageShown
  <2>10. PICK old : old = walk[w].seen
    OBVIOUS
  <2>11. /\ old \in Seq(Rows) /\ Len(old) = from /\ seen = old \o rows
         /\ \A i \in DOMAIN old : old[i] \in Present /\ Cardinality(Ahead(old[i])) = i - 1
    BY <1>3, <1>4, <1>6, <1>7, <2>2, <2>6, <2>10 DEF SeenInOrder
  <2>12. PICK c : c = Cardinality(x.start)
    OBVIOUS
  <2>13. c <= total /\ total <= n
    BY <1>3, <1>5, <1>13, <2>2, <2>4, <2>12 DEF SeenInOrder
  <2>14. c \in Nat
    BY <2>3, <2>5, <2>12, FS_Subset, FS_CardinalityType DEF StartKept
  <2>15. Len(seen) = from + Len(rows)
    BY <1>8, <2>11
  <2>16. ASSUME NEW i \in DOMAIN seen
         PROVE  seen[i] \in Present /\ Cardinality(Ahead(seen[i])) = i - 1
    <3>1. i \in 1..(from + Len(rows))
      BY <1>8, <1>12, <2>15, <2>16
    <3>2. CASE i <= from
      <4>1. i \in DOMAIN old /\ seen[i] = old[i]
        BY <1>8, <2>8, <2>11, <3>1, <3>2
      <4> QED BY <2>11, <4>1
    <3>3. CASE i > from
      <4>1. i - from \in DOMAIN rows /\ seen[i] = rows[i - from] /\ from + (i - from) - 1 = i - 1
        BY <1>8, <2>8, <2>11, <3>1, <3>3
      <4> QED BY <2>9, <4>1
    <3> QED BY <2>8, <3>1, <3>2, <3>3
  <2>17. ASSUME ~last PROVE Len(seen) = (x.page - 1) * PageSize
    <3>1. page < Pages(total)
      BY <1>6, <1>9, <2>8, <2>17 DEF Pages
    <3>2. to < n
      BY <1>6, <2>5, <2>8, <2>13, <3>1
    <3>3. Len(seen) = to
      BY <2>8, <2>9, <2>15, <3>2
    <3>4. x.page = page + 1
      BY <1>13, <2>17
    <3>5. x.page - 1 = page
      BY <1>6, <3>4
    <3> QED BY <2>7, <3>3, <3>5
  <2>18. ASSUME last PROVE Len(seen) >= c
    <3>1. to >= total \/ rows = <<>>
      BY <1>9, <2>8, <2>18
    <3>2. CASE to >= total
      BY <1>6, <2>5, <2>8, <2>9, <2>13, <2>14, <2>15, <3>2
    <3>3. CASE rows = <<>>
      <4>1. Len(rows) = 0
        BY <3>3
      <4>2. from >= n
        BY <2>5, <2>8, <2>9, <4>1
      <4> QED BY <1>6, <2>5, <2>8, <2>13, <2>14, <2>15, <4>1, <4>2
    <3> QED BY <3>1, <3>2, <3>3
  <2>19. SeenInOrder(x)
    BY <1>13, <2>12, <2>16, <2>17, <2>18 DEF SeenInOrder
  <2> QED BY <2>3, <2>19
<1> QED BY <1>11, <1>13, <1>14, <1>15, WalkerReads

-----------------------------------------------------------------------------
(* The table changes. *)

\* Whatever readers notice, it is not what they have seen.
LEMMA WhatNoticedLeaves ==
  ASSUME ReportTypes, NEW field \in {"grew", "shook"}, Noticed(field), NEW v \in Walkers
  PROVE  /\ walk' \in [Walkers -> WalkType]
         /\ walk'[v].at = walk[v].at /\ walk'[v].page = walk[v].page /\ walk'[v].total = walk[v].total
         /\ walk'[v].seen = walk[v].seen /\ walk'[v].start = walk[v].start
         /\ walk'[v].stamp = walk[v].stamp
         /\ IF walk[v].at \in {"count", "fetch", "walked"}
            THEN walk'[v] = [walk[v] EXCEPT ![field] = TRUE] ELSE walk'[v] = walk[v]
<1>1. ASSUME NEW u \in Walkers
      PROVE  /\ walk'[u] \in WalkType
             /\ walk'[u].at = walk[u].at /\ walk'[u].page = walk[u].page
             /\ walk'[u].total = walk[u].total /\ walk'[u].seen = walk[u].seen
             /\ walk'[u].start = walk[u].start /\ walk'[u].stamp = walk[u].stamp
             /\ IF walk[u].at \in {"count", "fetch", "walked"}
                THEN walk'[u] = [walk[u] EXCEPT ![field] = TRUE] ELSE walk'[u] = walk[u]
  <2>1. walk[u] \in WalkType
    BY DEF ReportTypes
  <2>2. walk'[u] = IF walk[u].at \in {"count", "fetch", "walked"}
                   THEN [walk[u] EXCEPT ![field] = TRUE] ELSE walk[u]
    BY DEF Noticed
  <2>3. PICK x : x = walk[u]
    OBVIOUS
  <2>4. CASE field = "grew"
    <3>1. PICK y : y = [x EXCEPT !.grew = TRUE]
      OBVIOUS
    <3>2. /\ y \in WalkType /\ y.at = x.at /\ y.page = x.page /\ y.total = x.total /\ y.seen = x.seen
          /\ y.start = x.start /\ y.stamp = x.stamp
      BY <2>1, <2>3, <3>1 DEF WalkType
    <3> QED BY <2>1, <2>2, <2>3, <2>4, <3>1, <3>2
  <2>5. CASE field = "shook"
    <3>1. PICK y : y = [x EXCEPT !.shook = TRUE]
      OBVIOUS
    <3>2. /\ y \in WalkType /\ y.at = x.at /\ y.page = x.page /\ y.total = x.total /\ y.seen = x.seen
          /\ y.start = x.start /\ y.stamp = x.stamp
      BY <2>1, <2>3, <3>1 DEF WalkType
    <3> QED BY <2>1, <2>2, <2>3, <2>5, <3>1, <3>2
  <2> QED BY <2>4, <2>5
<1>2. walk' \in [Walkers -> WalkType]
  <2>1. walk' = [u \in Walkers |-> walk'[u]]
    BY DEF Noticed
  <2> QED BY <1>1, <2>1
<1> QED BY <1>1, <1>2

\* Reports are not touched.
LEMMA NoticedReports ==
  ASSUME ReportInv, NEW field \in {"grew", "shook"}, Noticed(field),
         UNCHANGED <<listing, objects, registry>>
  PROVE  /\ \A w \in Walkers : walk'[w].at = "idle" => walk'[w] = Closed
         /\ RegistryBacked' /\ KeysNameContent'
<1>1. ReportTypes
  BY DEF ReportInv
<1>2. ASSUME NEW w \in Walkers, walk'[w].at = "idle" PROVE walk'[w] = Closed
  <2>1. walk[w].at = "idle" /\ walk'[w] = walk[w]
    BY <1>1, <1>2, WhatNoticedLeaves
  <2> QED BY <2>1 DEF ReportInv
<1>3. RegistryBacked'
  BY DEF ReportInv, RegistryBacked
<1>4. ASSUME NEW v \in Walkers, walk'[v].at = "register"
      PROVE  \E o \in objects : o.key = StorageKey(v)' /\ o.content = walk'[v].seen
  <2>1. walk[v].at = "register" /\ walk'[v].seen = walk[v].seen /\ walk'[v].stamp = walk[v].stamp
    BY <1>1, <1>4, WhatNoticedLeaves
  <2>2. StorageKey(v)' = StorageKey(v)
    BY <2>1 DEF StorageKey
  <2> QED BY <2>1, <2>2 DEF ReportInv, KeysNameContent
<1>5. KeysNameContent'
  BY <1>4 DEF ReportInv, KeysNameContent
<1> QED BY <1>2, <1>3, <1>5

\* After something worse nobody claims to follow.
LEMMA ShookStep ==
  ASSUME ReportInv, Noticed("shook"), UNCHANGED <<listing, now, objects, registry>>,
         stamps' \in [Rows -> 0..now], IsFiniteSet({r \in Rows : stamps'[r] > 0})
  PROVE  ReportInv'
<1>1. ReportTypes
  BY DEF ReportInv
<1>2. ReportTypes'
  <2>1. \A v \in Walkers : walk' \in [Walkers -> WalkType]
    BY <1>1, WhatNoticedLeaves
  <2>2. walk' \in [Walkers -> WalkType]
    <3>1. CASE Walkers = {}
      BY <3>1 DEF Noticed
    <3>2. CASE Walkers # {}
      BY <2>1, <3>2
    <3> QED BY <3>1, <3>2
  <2> QED BY <1>1, <2>2 DEF ReportTypes
<1>3. ASSUME NEW v \in Walkers PROVE ~Follows(walk[v])'
  <2>1. walk[v] \in WalkType
    BY <1>1 DEF ReportTypes
  <2>2. IF walk[v].at \in {"count", "fetch", "walked"}
        THEN walk'[v] = [walk[v] EXCEPT !.shook = TRUE] ELSE walk'[v] = walk[v]
    BY <1>1, WhatNoticedLeaves
  <2>3. walk[v].at \in {"count", "fetch", "walked"} => walk'[v].shook = TRUE
    BY <2>1, <2>2 DEF WalkType
  <2> QED BY <2>2, <2>3 DEF Follows
<1> QED BY <1>2, <1>3, NoticedReports DEF ReportInv, ReadersFollow

LEMMA RowWritten ==
  ASSUME ReportTypes, NEW r \in Rows, NEW t \in 0..now, stamps' = [stamps EXCEPT ![r] = t]
  PROVE  stamps' \in [Rows -> 0..now] /\ IsFiniteSet({a \in Rows : stamps'[a] > 0})
<1>1. stamps' \in [Rows -> 0..now]
  BY DEF ReportTypes
<1>2. IsFiniteSet({a \in Rows : stamps[a] > 0} \cup {r})
  BY FS_AddElement DEF ReportTypes
<1>3. {a \in Rows : stamps'[a] > 0} \in SUBSET ({a \in Rows : stamps[a] > 0} \cup {r})
  BY DEF ReportTypes
<1>4. IsFiniteSet({a \in Rows : stamps'[a] > 0})
  BY <1>2, <1>3, FS_Subset
<1> QED BY <1>1, <1>4

LEMMA ArriveBackdatedStep ==
  ASSUME ReportInv, NEW r \in Rows, NEW t \in 1..LastStamp, ArriveBackdated(r, t)
  PROVE  ReportInv'
<1>1. /\ stamps' = [stamps EXCEPT ![r] = t] /\ Noticed("shook") /\ t < now
      /\ UNCHANGED <<listing, gone, now, objects, registry>> /\ ReportTypes
  BY DEF ArriveBackdated, ReportInv
<1>2. t \in 0..now
  BY <1>1, ReportAssumption DEF ReportTypes
<1>3. stamps' \in [Rows -> 0..now] /\ IsFiniteSet({a \in Rows : stamps'[a] > 0})
  BY <1>1, <1>2, RowWritten
<1> QED BY <1>1, <1>3, ShookStep

LEMMA VanishStep ==
  ASSUME ReportInv, NEW r \in Rows, Vanish(r)
  PROVE  ReportInv'
<1>1. /\ Noticed("shook") /\ UNCHANGED <<listing, stamps, now, objects, registry>>
  BY DEF Vanish
<1>2. stamps' \in [Rows -> 0..now] /\ IsFiniteSet({a \in Rows : stamps'[a] > 0})
  BY <1>1 DEF ReportInv, ReportTypes
<1> QED BY <1>1, <1>2, ShookStep

\* A row that is written last comes last, where the oldest rows come first.
LEMMA NewestLast ==
  ASSUME ReportTypes, listing = ContactList, NEW r \in Rows, stamps[r] = 0,
         stamps' = [stamps EXCEPT ![r] = now], UNCHANGED <<listing, gone, now>>, ToldApart'
  PROVE  /\ ToldApart /\ r \notin Present
         /\ Present \subseteq Present' /\ Present' \subseteq Present \cup {r}
         /\ \A p \in Present : /\ Ahead(p)' = Ahead(p)
                               /\ r \in Present' => ~Before(r, p)'
                               /\ \A q \in Present : Before(q, p)' <=> Before(q, p)
<1>1. listing.newest = FALSE /\ listing.unique = FALSE
  BY DEF ContactList, Arranged
<1>2. r \notin Present
  BY FinitelyMany DEF Present
<1>3. stamps'[r] = now /\ \A p \in Rows \ {r} : stamps'[p] = stamps[p]
  BY DEF ReportTypes
<1>4. \A p \in Present : p \in Rows /\ p # r /\ stamps'[p] = stamps[p]
  BY <1>2, <1>3, FinitelyMany
<1>5. Present \subseteq Present'
  BY <1>4 DEF Present
<1>6. Present' \subseteq Present \cup {r}
  BY <1>3 DEF Present
<1>7. ToldApart
  BY <1>1, <1>4, <1>5 DEF ToldApart
<1>8. \A p, q \in Present : Before(q, p)' <=> Before(q, p)
  BY <1>4 DEF Before
<1>9. ASSUME NEW p \in Present, r \in Present' PROVE ~Before(r, p)'
  <2>1. stamps[p] \in Nat /\ stamps[p] <= now /\ now \in Nat
    BY FinitelyMany DEF ReportTypes
  <2>2. stamps'[r] # stamps'[p]
    BY <1>1, <1>4, <1>5, <1>9 DEF ToldApart
  <2>3. stamps'[r] = now /\ stamps'[p] = stamps[p]
    BY <1>3, <1>4
  <2>4. ~(now < stamps[p]) /\ now # stamps[p]
    BY <2>1, <2>2, <2>3
  <2> QED BY <1>1, <2>3, <2>4 DEF Before
<1>10. ASSUME NEW p \in Present PROVE Ahead(p)' = Ahead(p)
  <2>1. ASSUME NEW q \in Ahead(p)' PROVE q \in Ahead(p)
    <3>1. q \in Present' /\ q # p /\ Before(q, p)'
      BY <2>1 DEF Ahead
    <3>2. q \in Present
      BY <1>6, <1>9, <3>1
    <3> QED BY <1>8, <3>1, <3>2 DEF Ahead
  <2>2. ASSUME NEW q \in Ahead(p) PROVE q \in Ahead(p)'
    <3>1. q \in Present /\ q # p /\ Before(q, p)
      BY <2>2 DEF Ahead
    <3>2. q \in Present' /\ Before(q, p)'
      BY <1>5, <1>8, <3>1
    <3> QED BY <3>1, <3>2 DEF Ahead
  <2> QED BY <2>1, <2>2
<1> QED BY <1>2, <1>5, <1>6, <1>7, <1>8, <1>9, <1>10

LEMMA ArriveLastStep ==
  ASSUME ReportInv, NEW r \in Rows, ArriveLast(r)
  PROVE  ReportInv'
<1>1. /\ stamps[r] = 0 /\ stamps' = [stamps EXCEPT ![r] = now] /\ Noticed("grew")
      /\ UNCHANGED <<listing, gone, now, objects, registry>> /\ ReportTypes
  BY DEF ArriveLast, ReportInv
<1>2. now \in 0..now
  BY <1>1 DEF ReportTypes
<1>3. stamps' \in [Rows -> 0..now] /\ IsFiniteSet({a \in Rows : stamps'[a] > 0})
  BY <1>1, <1>2, RowWritten
<1>4. ReportTypes'
  <2>1. \A v \in Walkers : walk' \in [Walkers -> WalkType]
    BY <1>1, WhatNoticedLeaves
  <2>2. walk' \in [Walkers -> WalkType]
    <3>1. CASE Walkers = {}
      BY <1>1, <3>1 DEF Noticed
    <3>2. CASE Walkers # {}
      BY <2>1, <3>2
    <3> QED BY <3>1, <3>2
  <2> QED BY <1>1, <1>3, <2>2 DEF ReportTypes
<1>5. ASSUME ToldApart', NEW v \in Walkers, Follows(walk[v])'
      PROVE  StartKept(walk[v])' /\ SeenInOrder(walk[v])'
  <2>1. PICK x : x = walk[v]
    OBVIOUS
  <2>2. PICK y : y = walk'[v]
    OBVIOUS
  <2>3. /\ y.at = x.at /\ y.page = x.page /\ y.total = x.total /\ y.seen = x.seen
        /\ y.start = x.start /\ x \in WalkType
        /\ IF x.at \in {"count", "fetch", "walked"}
           THEN y = [x EXCEPT !.grew = TRUE] ELSE y = x
    BY <1>1, <2>1, <2>2, WhatNoticedLeaves DEF ReportTypes
  <2>4. /\ y.at \in {"count", "fetch", "walked"} /\ ~y.shook
        /\ listing = ContactList \/ ~y.grew
    BY <1>1, <1>5, <2>2 DEF Follows
  <2>5. y = [x EXCEPT !.grew = TRUE] /\ y.grew = TRUE /\ x.shook = y.shook
    BY <2>3, <2>4 DEF WalkType
  <2>6. listing = ContactList
    BY <2>4, <2>5
  <2>7. /\ ToldApart /\ r \notin Present
        /\ Present \subseteq Present' /\ Present' \subseteq Present \cup {r}
        /\ \A p \in Present : /\ Ahead(p)' = Ahead(p)
                              /\ r \in Present' => ~Before(r, p)'
                              /\ \A q \in Present : Before(q, p)' <=> Before(q, p)
    BY <1>1, <1>5, <2>6, NewestLast
  <2>8. Follows(x)
    BY <2>3, <2>4, <2>5, <2>6 DEF Follows
  <2>9. StartKept(x) /\ SeenInOrder(x)
    BY <2>1, <2>7, <2>8 DEF ReportInv, ReadersFollow
  <2>10. StartKept(y)'
    <3>1. y.start \subseteq Present'
      BY <2>3, <2>7, <2>9 DEF StartKept
    <3>2. ASSUME NEW n \in Present' \ y.start, NEW a \in y.start PROVE ~Before(n, a)'
      <4>1. a \in Present
        BY <2>3, <2>9, <3>2 DEF StartKept
      <4>2. CASE n = r
        BY <2>7, <3>2, <4>1, <4>2
      <4>3. CASE n # r
        <5>1. n \in Present \ x.start /\ a \in x.start
          BY <2>3, <2>7, <3>2, <4>3
        <5>2. ~Before(n, a)
          BY <2>9, <5>1 DEF StartKept
        <5> QED BY <2>7, <4>1, <5>1, <5>2
      <4> QED BY <4>2, <4>3
    <3> QED BY <2>5, <3>1, <3>2 DEF StartKept
  <2>11. Cardinality(Present) <= Cardinality(Present') /\ Cardinality(Present) \in Nat
         /\ Cardinality(Present') \in Nat
    <3>1. IsFiniteSet(Present) /\ Cardinality(Present) \in Nat
      BY <1>1, FinitelyMany
    <3>2. PICK here : here = Present'
      OBVIOUS
    <3>3. IsFiniteSet(Present \cup {r}) /\ here \in SUBSET (Present \cup {r})
      BY <2>7, <3>1, <3>2, FS_AddElement
    <3>4. IsFiniteSet(here) /\ Present \in SUBSET here
      BY <2>7, <3>2, <3>3, FS_Subset
    <3>5. Cardinality(here) \in Nat /\ Cardinality(Present) <= Cardinality(here)
      BY <3>4, FS_Subset, FS_CardinalityType
    <3> QED BY <3>1, <3>2, <3>5
  <2>12. ASSUME NEW i \in DOMAIN y.seen
         PROVE  y.seen[i] \in Present' /\ Cardinality(Ahead(y.seen[i])') = i - 1
    <3>1. x.seen[i] \in Present /\ Cardinality(Ahead(x.seen[i])) = i - 1
      BY <2>3, <2>9, <2>12 DEF SeenInOrder
    <3>2. Ahead(x.seen[i])' = Ahead(x.seen[i])
      BY <2>7, <3>1
    <3> QED BY <2>3, <2>7, <3>1, <3>2
  <2>13. y.at = "fetch" => y.total >= Cardinality(y.start) /\ y.total <= Cardinality(Present')
    <3>1. x.total \in Nat
      BY <2>3 DEF WalkType
    <3> QED BY <2>3, <2>9, <2>11, <3>1 DEF SeenInOrder
  <2>14. SeenInOrder(y)'
    BY <2>3, <2>9, <2>12, <2>13 DEF SeenInOrder
  <2> QED BY <2>2, <2>10, <2>14
<1>6. ReadersFollow'
  BY <1>5 DEF ReadersFollow
<1>7. /\ \A w \in Walkers : walk'[w].at = "idle" => walk'[w] = Closed
      /\ RegistryBacked' /\ KeysNameContent'
  BY <1>1, NoticedReports
<1> QED BY <1>4, <1>6, <1>7 DEF ReportInv

LEMMA TimePasses ==
  ASSUME ReportInv, now' \in Nat, now' >= now,
         UNCHANGED <<listing, stamps, gone, walk, objects, registry>>
  PROVE  ReportInv'
<1>1. /\ UNCHANGED <<listing, stamps, gone, walk, objects, registry>> /\ ReportTypes
  BY DEF ReportInv
<1>2. \A r \in Rows : stamps[r] \in 0..now'
  BY <1>1 DEF ReportTypes
<1>3. ReportTypes'
  BY <1>1, <1>2 DEF ReportTypes
<1>4. ASSUME ToldApart', NEW v \in Walkers, Follows(walk[v])'
      PROVE  StartKept(walk[v])' /\ SeenInOrder(walk[v])'
  <2>1. PICK y : y = walk[v]
    OBVIOUS
  <2>2. ToldApart /\ Follows(y)
    BY <1>1, <1>4, <2>1, SameTable
  <2>3. StartKept(y) /\ SeenInOrder(y)
    BY <2>1, <2>2 DEF ReportInv, ReadersFollow
  <2>4. StartKept(y)' /\ SeenInOrder(y)'
    BY <1>1, <2>3, SameTable
  <2> QED BY <1>1, <2>1, <2>4
<1>5. ReadersFollow'
  BY <1>4 DEF ReadersFollow
<1>6. RegistryBacked'
  BY <1>1 DEF ReportInv, RegistryBacked
<1>7. KeysNameContent'
  BY <1>1 DEF ReportInv, KeysNameContent, StorageKey
<1> QED BY <1>1, <1>3, <1>5, <1>6, <1>7 DEF ReportInv, Closed

-----------------------------------------------------------------------------
(* Reports. *)

LEMMA StampStep ==
  ASSUME ReportInv, NEW w \in Walkers, Stamp(w)
  PROVE  ReportInv'
<1>1. PICK seen : seen = walk[w].seen
  OBVIOUS
<1>2. PICK x : x = [Closed EXCEPT !.at = "upload", !.seen = seen, !.stamp = now]
  OBVIOUS
<1>3. Advance(w, x)
  BY <1>1, <1>2 DEF Stamp
<1>4. seen \in Seq(Rows) /\ now \in Nat
  BY <1>1 DEF ReportInv, ReportTypes, WalkType
<1>5. x = [at |-> "upload", page |-> 1, total |-> 0, seen |-> seen,
           start |-> {}, grew |-> FALSE, shook |-> FALSE, stamp |-> now]
  BY <1>2 DEF Closed
<1>6. x \in WalkType /\ x.at = "upload"
  BY <1>4, <1>5 DEF WalkType
<1>7. ~Follows(x)
  BY <1>6 DEF Follows
<1> QED BY <1>3, <1>6, <1>7, WalkerReads

\* A report ends, or has been uploaded.
LEMMA ReportGoesOn ==
  ASSUME ReportInv, NEW w \in Walkers, NEW x \in WalkType, UNCHANGED <<listing, stamps, gone, now>>,
         walk' = [walk EXCEPT ![w] = x], x.at \in {"register", "done"}
  PROVE  /\ ReportTypes' /\ ReadersFollow'
         /\ \A v \in Walkers : walk'[v].at = "idle" => walk'[v] = Closed
         /\ walk'[w] = x /\ \A v \in Walkers \ {w} : walk'[v] = walk[v] /\ StorageKey(v)' = StorageKey(v)
<1>1. ~Follows(x)
  BY DEF Follows
<1>2. ReportTypes' /\ ReadersFollow'
  BY <1>1, WalkerGoesOn
<1>3. walk'[w] = x /\ \A v \in Walkers \ {w} : walk'[v] = walk[v]
  BY DEF ReportInv, ReportTypes
<1>4. \A v \in Walkers : walk'[v].at = "idle" => walk'[v] = Closed
  BY <1>3 DEF ReportInv
<1>5. \A v \in Walkers \ {w} : StorageKey(v)' = StorageKey(v)
  BY <1>3 DEF StorageKey
<1> QED BY <1>2, <1>3, <1>4, <1>5

LEMMA DoneWalk == Done \in WalkType /\ Done.at = "done"
<1>1. PICK c : c = Closed
  OBVIOUS
<1>2. c \in WalkType
  BY <1>1 DEF Closed, WalkType
<1>3. Done = [c EXCEPT !.at = "done"]
  BY <1>1 DEF Done
<1> QED BY <1>2, <1>3 DEF WalkType

LEMMA UploadStep ==
  ASSUME ReportInv, NEW w \in Walkers, NEW stored \in BOOLEAN, Upload(w, stored)
  PROVE  ReportInv'
<1>1. UNCHANGED <<listing, stamps, gone, now, registry>>
  BY DEF Upload
<1>2. CASE ~stored
  <2>1. walk' = [walk EXCEPT ![w] = Done] /\ objects' = objects
    BY <1>2 DEF Upload
  <2>2. /\ ReportTypes' /\ ReadersFollow'
        /\ \A v \in Walkers : walk'[v].at = "idle" => walk'[v] = Closed
        /\ walk'[w] = Done /\ \A v \in Walkers \ {w} : walk'[v] = walk[v] /\ StorageKey(v)' = StorageKey(v)
    BY <1>1, <2>1, DoneWalk, ReportGoesOn
  <2>3. RegistryBacked'
    BY <1>1, <2>1 DEF ReportInv, RegistryBacked
  <2>4. ASSUME NEW v \in Walkers, walk'[v].at = "register"
        PROVE  \E o \in objects' : o.key = StorageKey(v)' /\ o.content = walk'[v].seen
    <3>1. v # w
      BY <2>2, <2>4, DoneWalk
    <3> QED BY <2>1, <2>2, <2>4, <3>1 DEF ReportInv, KeysNameContent
  <2>5. KeysNameContent'
    BY <1>1, <2>1, <2>4 DEF ReportInv, KeysNameContent
  <2> QED BY <2>2, <2>3, <2>5 DEF ReportInv, Closed
<1>3. CASE stored
  <2>1. PICK seen : seen = walk[w].seen
    OBVIOUS
  <2>2. PICK key : key = StorageKey(w)
    OBVIOUS
  <2>3. PICK new : new = [key |-> key, content |-> seen]
    OBVIOUS
  <2>4. new.key = key /\ new.content = seen /\ key[3] = seen
    BY <2>1, <2>2, <2>3 DEF StorageKey
  <2>5. objects' = {o \in objects : o.key # key} \cup {new}
    BY <1>3, <2>1, <2>2, <2>3 DEF Upload
  <2>6. PICK x : x = [walk[w] EXCEPT !.at = "register"]
    OBVIOUS
  <2>7. walk' = [walk EXCEPT ![w] = x]
    BY <1>3, <2>6 DEF Upload
  <2>8. x \in WalkType /\ x.at = "register" /\ x.seen = seen /\ x.stamp = walk[w].stamp
    BY <2>1, <2>6 DEF ReportInv, ReportTypes, WalkType
  <2>9. /\ ReportTypes' /\ ReadersFollow'
        /\ \A v \in Walkers : walk'[v].at = "idle" => walk'[v] = Closed
        /\ walk'[w] = x /\ \A v \in Walkers \ {w} : walk'[v] = walk[v] /\ StorageKey(v)' = StorageKey(v)
    BY <1>1, <2>7, <2>8, ReportGoesOn
  <2>10. StorageKey(w)' = key
    BY <1>1, <2>1, <2>2, <2>8, <2>9 DEF StorageKey
  \* What had a key has it still, with the content that the key names.
  <2>11. ASSUME NEW o \in objects PROVE \E p \in objects' : p.key = o.key /\ p.content = o.content
    <3>1. CASE o.key # key
      BY <2>5, <3>1
    <3>2. CASE o.key = key
      <4>1. o.content = seen
        BY <2>4, <3>2 DEF ReportInv, KeysNameContent
      <4> QED BY <2>4, <2>5, <3>2, <4>1
    <3> QED BY <3>1, <3>2
  <2>12. RegistryBacked'
    <3>1. ASSUME NEW row \in registry PROVE \E o \in objects' : o.key = row.key /\ o.content = row.hash
      <4>1. PICK o \in objects : o.key = row.key /\ o.content = row.hash
        BY DEF ReportInv, RegistryBacked
      <4> QED BY <2>11, <4>1
    <3> QED BY <1>1, <3>1 DEF RegistryBacked
  <2>13. ASSUME NEW v \in Walkers, walk'[v].at = "register"
         PROVE  \E o \in objects' : o.key = StorageKey(v)' /\ o.content = walk'[v].seen
    <3>1. CASE v = w
      BY <2>4, <2>5, <2>8, <2>9, <2>10, <3>1
    <3>2. CASE v # w
      <4>1. PICK o \in objects : o.key = StorageKey(v) /\ o.content = walk[v].seen
        BY <2>9, <2>13, <3>2 DEF ReportInv, KeysNameContent
      <4> QED BY <2>9, <2>11, <3>2, <4>1
    <3> QED BY <3>1, <3>2
  <2>14. \A o \in objects' : o.key[3] = o.content
    BY <2>4, <2>5 DEF ReportInv, KeysNameContent
  <2>15. KeysNameContent'
    BY <1>1, <2>13, <2>14 DEF ReportInv, KeysNameContent
  <2> QED BY <2>9, <2>12, <2>15 DEF ReportInv, Closed
<1> QED BY <1>2, <1>3

LEMMA RegisterStep ==
  ASSUME ReportInv, NEW w \in Walkers, NEW written \in BOOLEAN, Register(w, written)
  PROVE  ReportInv'
<1>1. /\ UNCHANGED <<listing, stamps, gone, now, objects>> /\ walk' = [walk EXCEPT ![w] = Done]
      /\ walk[w].at = "register"
  BY DEF Register
<1>2. PICK seen : seen = walk[w].seen
  OBVIOUS
<1>3. PICK row : row = [key |-> StorageKey(w), hash |-> seen, rowCount |-> Len(seen)]
  OBVIOUS
<1>4. row.key = StorageKey(w) /\ row.hash = seen /\ row.key[3] = row.hash
  BY <1>2, <1>3 DEF StorageKey
<1>5. registry' \subseteq registry \cup {row}
  BY <1>2, <1>3 DEF Register
<1>6. /\ ReportTypes' /\ ReadersFollow'
      /\ \A v \in Walkers : walk'[v].at = "idle" => walk'[v] = Closed
      /\ walk'[w] = Done /\ \A v \in Walkers \ {w} : walk'[v] = walk[v] /\ StorageKey(v)' = StorageKey(v)
  BY <1>1, DoneWalk, ReportGoesOn
<1>7. PICK o \in objects : o.key = StorageKey(w) /\ o.content = walk[w].seen
  BY <1>1 DEF ReportInv, KeysNameContent
<1>8. RegistryBacked'
  BY <1>1, <1>2, <1>4, <1>5, <1>7 DEF ReportInv, RegistryBacked
<1>9. ASSUME NEW v \in Walkers, walk'[v].at = "register"
      PROVE  \E p \in objects : p.key = StorageKey(v)' /\ p.content = walk'[v].seen
  <2>1. v # w
    BY <1>6, <1>9, DoneWalk
  <2> QED BY <1>6, <1>9, <2>1 DEF ReportInv, KeysNameContent
<1>10. \A r \in registry' : r.key[3] = r.hash
  BY <1>4, <1>5 DEF ReportInv, KeysNameContent
<1>11. KeysNameContent'
  BY <1>1, <1>9, <1>10 DEF ReportInv, KeysNameContent
<1> QED BY <1>6, <1>8, <1>11 DEF ReportInv, Closed

-----------------------------------------------------------------------------

LEMMA ReportStart ==
  ASSUME ReportInit
  PROVE  ReportInv
<1>1. Closed \in WalkType /\ Closed.at = "idle"
  BY DEF Closed, WalkType
<1>2. \A w \in Walkers : walk[w] \in {Closed, Done}
  BY DEF ReportInit
<1>3. {r \in Rows : stamps[r] > 0} = {}
  BY DEF ReportInit
<1>4. ReportTypes
  BY <1>1, <1>2, <1>3, DoneWalk, FS_EmptySet DEF ReportInit, ReportTypes
<1>5. \A w \in Walkers : ~Follows(walk[w])
  BY <1>1, <1>2, DoneWalk DEF Follows
<1>6. \A w \in Walkers : walk[w].at # "register" /\ (walk[w].at = "idle" => walk[w] = Closed)
  BY <1>1, <1>2, DoneWalk
<1>7. RegistryBacked /\ KeysNameContent
  BY <1>6 DEF ReportInit, RegistryBacked, KeysNameContent
<1> QED BY <1>4, <1>5, <1>6, <1>7 DEF ReportInv, ReadersFollow

LEMMA ReportStep ==
  ASSUME ReportInv, [ReportNext]_reportVars
  PROVE  ReportInv'
<1>1. CASE \E r \in Rows : ArriveLast(r) \/ Vanish(r) \/ \E t \in 1..LastStamp : ArriveBackdated(r, t)
  BY <1>1, ArriveLastStep, VanishStep, ArriveBackdatedStep
<1>2. CASE \E w \in Walkers : Open(w) \/ CountRows(w) \/ FetchPage(w) \/ Stamp(w)
  BY <1>2, OpenStep, CountRowsStep, FetchPageStep, StampStep
<1>3. CASE \E w \in Walkers, ok \in BOOLEAN : Upload(w, ok) \/ Register(w, ok)
  BY <1>3, UploadStep, RegisterStep
<1>4. CASE ReportTick
  <2>1. now \in Nat /\ now' = now + 1 /\ UNCHANGED <<listing, stamps, gone, walk, objects, registry>>
    BY <1>4 DEF ReportTick, ReportInv, ReportTypes
  <2> QED BY <2>1, TimePasses
<1>5. CASE UNCHANGED reportVars
  <2>1. now \in Nat /\ UNCHANGED <<listing, stamps, gone, now, walk, objects, registry>>
    BY <1>5 DEF reportVars, ReportInv, ReportTypes
  <2> QED BY <2>1, TimePasses
<1> QED BY <1>1, <1>2, <1>3, <1>4, <1>5 DEF ReportNext

\* Rows with places of their own are told apart, and as many as there are places.
LEMMA WalkComplete ==
  ASSUME ReportTypes, ToldApart, NEW r \in WalkType, r.at = "walked", StartKept(r), SeenInOrder(r)
  PROVE  /\ Once(r.seen, r.start) /\ IsInjective(r.seen)
         /\ ~r.grew => Len(r.seen) = Cardinality(r.start)
<1>1. PICK seen : seen = r.seen
  OBVIOUS
<1>2. PICK start : start = r.start
  OBVIOUS
<1>3. PICK n : n = Len(seen)
  OBVIOUS
<1>4. /\ seen \in Seq(Rows) /\ n \in Nat /\ DOMAIN seen = 1..n
      /\ start \subseteq Present /\ n >= Cardinality(start)
      /\ \A i \in 1..n : seen[i] \in Present /\ Cardinality(Ahead(seen[i])) = i - 1
  BY <1>1, <1>2, <1>3 DEF WalkType, StartKept, SeenInOrder
<1>5. \A i, j \in 1..n : seen[i] = seen[j] => i = j
  <2>1. SUFFICES ASSUME NEW i \in 1..n, NEW j \in 1..n, seen[i] = seen[j] PROVE i = j
    OBVIOUS
  <2>2. i - 1 = j - 1
    BY <1>4, <2>1
  <2> QED BY <1>4, <2>2
<1>6. IsFiniteSet(Present) /\ IsFiniteSet(start) /\ Cardinality(start) \in Nat
      /\ Cardinality(Present) \in Nat
  BY <1>4, FinitelyMany, FS_Subset, FS_CardinalityType
<1>7. ASSUME NEW a \in start PROVE \E i \in 1..n : seen[i] = a
  <2>1. a \in Present /\ Ahead(a) \in SUBSET Present
    BY <1>4, FinitelyMany
  <2>2. Ahead(a) \in SUBSET (start \ {a})
    <3>1. ASSUME NEW p \in Ahead(a) PROVE p \in start \ {a}
      <4>1. p \in Present /\ p # a /\ Before(p, a)
        BY <3>1 DEF Ahead
      <4> QED BY <1>2, <1>7, <4>1 DEF StartKept
    <3> QED BY <3>1
  <2>3. IsFiniteSet(start \ {a}) /\ Cardinality(start \ {a}) = Cardinality(start) - 1
    BY <1>6, <1>7, FS_RemoveElement
  <2>4. Cardinality(Ahead(a)) <= Cardinality(start) - 1
    BY <2>2, <2>3, FS_Subset
  <2>5. PICK k : k = Cardinality(Ahead(a))
    OBVIOUS
  <2>6. k \in Nat
    BY <2>5, FinitelyMany
  <2>7. k + 1 \in 1..n /\ (k + 1) - 1 = k
    BY <1>4, <1>6, <2>4, <2>5, <2>6
  <2>8. seen[k + 1] \in Present /\ Cardinality(Ahead(seen[k + 1])) = Cardinality(Ahead(a))
    BY <1>4, <2>5, <2>7
  <2>9. seen[k + 1] = a
    BY <2>1, <2>8, OwnPlace
  <2> QED BY <2>7, <2>9
<1>8. Once(seen, start)
  <2>1. ASSUME NEW a \in start PROVE Cardinality({i \in 1..n : seen[i] = a}) = 1
    <3>1. PICK i \in 1..n : seen[i] = a
      BY <1>7
    <3>2. {j \in 1..n : seen[j] = a} = {i}
      BY <1>5, <3>1
    <3> QED BY <3>2, FS_Singleton
  <2> QED BY <1>3, <2>1 DEF Once
<1>9. IsInjective(seen)
  BY <1>4, <1>5 DEF IsInjective
<1>10. ASSUME ~r.grew PROVE n = Cardinality(start)
  <2>1. start = Present
    BY <1>2, <1>10 DEF StartKept
  <2>2. seen \in [1..n -> Present]
    BY <1>4
  <2>3. seen \in Injection(1..n, Present)
    BY <1>5, <2>2 DEF Injection, IsInjective
  <2>4. Cardinality(1..n) <= Cardinality(Present)
    BY <1>6, <2>3, FS_Injection
  <2>5. 1 \in Int /\ n \in Int
    BY <1>4
  <2>6. Cardinality(1..n) = IF 1 > n THEN 0 ELSE n - 1 + 1
    BY <2>5, FS_Interval
  <2> QED BY <1>4, <1>6, <2>1, <2>4, <2>6
<1> QED BY <1>1, <1>2, <1>3, <1>8, <1>9, <1>10

LEMMA ReportSafe ==
  ASSUME ReportInv
  PROVE  ReportSafety
<1>1. ASSUME NEW w \in Walkers, walk[w].at = "walked", ToldApart, ~walk[w].shook
      PROVE  /\ ~walk[w].grew => /\ Once(walk[w].seen, walk[w].start)
                                 /\ Len(walk[w].seen) = Cardinality(walk[w].start)
             /\ listing = ContactList => /\ Once(walk[w].seen, walk[w].start)
                                         /\ IsInjective(walk[w].seen)
  <2>1. ReportTypes /\ walk[w] \in WalkType
    BY DEF ReportInv, ReportTypes
  <2>2. SUFFICES ASSUME listing = ContactList \/ ~walk[w].grew
                 PROVE  /\ Once(walk[w].seen, walk[w].start) /\ IsInjective(walk[w].seen)
                        /\ ~walk[w].grew => Len(walk[w].seen) = Cardinality(walk[w].start)
    OBVIOUS
  <2>3. Follows(walk[w])
    BY <1>1, <2>2 DEF Follows
  <2>4. StartKept(walk[w]) /\ SeenInOrder(walk[w])
    BY <1>1, <2>3 DEF ReportInv, ReadersFollow
  <2> QED BY <1>1, <2>1, <2>4, WalkComplete
<1>2. WalksAreComplete
  BY <1>1 DEF WalksAreComplete
<1> QED BY <1>2 DEF ReportInv, ReportSafety

\* Readers that turn the pages of a list, whatever its size and theirs, have seen the
\* first rows of it in order, as long as it stays as it is or grows at its end only.
THEOREM ReportsInvariant == ReportSpec => []ReportInv
<1>1. ReportInit => ReportInv
  BY ReportStart
<1>2. ReportInv /\ [ReportNext]_reportVars => ReportInv'
  BY ReportStep
<1> QED BY <1>1, <1>2, PTL DEF ReportSpec

\* For any number of rows, readers and pages of any size: what the registry of
\* reports names is in the store as its hash says, a walk through an unchanged list
\* that its order tells apart sees every row once and nothing else, and one through
\* the contacts does so although new ones are written meanwhile.
THEOREM ReportsAreSafe == ReportSpec => []ReportSafety
<1>1. ReportInv => ReportSafety
  BY ReportSafe
<1> QED BY <1>1, ReportsInvariant, PTL
===============================================================================
