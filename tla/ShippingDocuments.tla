--------------------------- MODULE ShippingDocuments ---------------------------
(* The papers of one dispatch batch (module/shipping): the manifest, the merged *)
(* carrier labels, the rotulus (address label) of a mark, the checklist and the *)
(* rotuli of all its marks. The first three are cached twice, in Redis and in   *)
(* the process, for CacheTtl seconds, while the rows they were made from go on  *)
(* changing. A paper is the set of rows printed in it, each with its last change. The kinds share no *)
(* cache entry, so that one kind is followed in each behaviour.                 *)
EXTENDS Naturals

CONSTANTS
  DocMarks,   \* the marks of the batch
  Readers,    \* requests for a paper
  Closers,    \* requests that close the batch
  CacheTtl,   \* seconds a paper stays cached
  LastSecond, \* bound: the clock
  MaxEdits    \* bound: writes of one row

ASSUME DocumentAssumption == CacheTtl \in Nat /\ LastSecond \in Nat /\ MaxEdits \in Nat

VARIABLES
  paper,     \* the kind of paper followed
  docMarks,  \* shipping_marks: status, second of updated_at, number of writes
  docBatch,  \* the batch's status
  due,       \* history: marks at the carrier ever since the batch was closed
  redis,     \* the shared cache
  memory,    \* the process's own cache
  reader,    \* request for a paper -> program point, rows read, paper
  closer,    \* closing request -> program point, drafts still to be submitted
  second     \* the clock

docVars == <<paper, docMarks, docBatch, due, redis, memory, reader, closer, second>>

Kinds == {"manifest", "labels", "rotulus", "checklist", "rotuli"}

Stored(m) == docMarks[m].status # "ABSENT"

RowCopy(m) == [mark |-> m, second |-> docMarks[m].second]

\* Mutant of Key: the rotulus is cached under its mark alone.
MarkKey(copy) == IF paper = "rotulus" THEN <<copy.mark>> ELSE <<>>

\* Papers of the batch are cached under its identifier, a rotulus under its mark
\* and the second of the mark's last change.
Key(copy) == IF paper = "rotulus" THEN <<copy.mark, copy.second>> ELSE <<>>

\* The entry of a key is found until a second past its expiry.
Hits(cache, key) == {e \in cache : e.key = key /\ second <= e.expires}

Entry(key, rows) == [key |-> key, rows |-> rows, made |-> second, expires |-> second + CacheTtl]

Keep(cache, entry) == {e \in cache : e.key # entry.key} \cup {entry}

NoCopy == [mark |-> 0, second |-> 0]

Waiting == [at |-> "idle", copy |-> NoCopy, rows |-> {}, age |-> 0]

NotClosing == [at |-> "idle", drafts |-> {}]

DocInit ==
  /\ paper \in Kinds
  /\ docMarks = [m \in DocMarks |-> [status |-> "ABSENT", second |-> 0, edits |-> 0]]
  /\ docBatch = "OPEN" /\ due = {} /\ redis = {} /\ memory = {}
  /\ reader = [r \in Readers |-> Waiting]
  /\ closer = [c \in Closers |-> NotClosing]
  /\ second = 0

-----------------------------------------------------------------------------
(* The rows change. *)

\* MarkRepository.Update saves the whole row, whatever it has become.
Rewrite(m, status) ==
  /\ docMarks[m].edits < MaxEdits
  /\ docMarks' = [docMarks EXCEPT ![m] = [status |-> status, second |-> second,
                                          edits |-> docMarks[m].edits + 1]]
  /\ due' = IF status = "CREATED" THEN due ELSE due \ {m}

\* DraftMark, of a request that found the batch open.
AddDraft(m) ==
  /\ ~Stored(m) /\ Rewrite(m, "QUOTED")
  /\ UNCHANGED <<paper, docBatch, redis, memory, reader, closer, second>>

\* UpdateDraftMark, of a request that found the batch open and the mark a draft.
EditDraft(m) ==
  /\ Stored(m) /\ Rewrite(m, "QUOTED")
  /\ UNCHANGED <<paper, docBatch, redis, memory, reader, closer, second>>

\* Void asks for no status.
VoidRow(m) ==
  /\ Stored(m) /\ Rewrite(m, "VOIDED")
  /\ UNCHANGED <<paper, docBatch, redis, memory, reader, closer, second>>

\* Close finds the batch open and lists its drafts.
ListDrafts(c) ==
  /\ closer[c].at = "idle" /\ docBatch = "OPEN"
  /\ closer' = [closer EXCEPT ![c] =
       [at |-> "submit", drafts |-> {m \in DocMarks : docMarks[m].status = "QUOTED"}]]
  /\ UNCHANGED <<paper, docMarks, docBatch, due, redis, memory, reader, second>>

\* Materialize: the carrier takes the copy that was listed or refuses it; the row
\* may stay as it is when it cannot be saved.
SubmitDraft(c) ==
  /\ closer[c].at = "submit"
  /\ \E m \in closer[c].drafts :
       /\ closer' = [closer EXCEPT ![c].drafts = @ \ {m}]
       /\ \/ \E status \in {"CREATED", "FAILED"} : Rewrite(m, status)
          \/ UNCHANGED <<docMarks, due>>
  /\ UNCHANGED <<paper, docBatch, redis, memory, reader, second>>

\* BatchRepository.Close: one request closes the batch, the others are refused.
CloseRow(c) ==
  /\ closer[c].at = "submit" /\ closer[c].drafts = {}
  /\ IF docBatch = "OPEN"
     THEN /\ docBatch' = "CLOSED"
          /\ due' = {m \in DocMarks : docMarks[m].status = "CREATED"}
          /\ closer' = [closer EXCEPT ![c].at = "forget"]
     ELSE /\ closer' = [closer EXCEPT ![c] = NotClosing]
          /\ UNCHANGED <<docBatch, due>>
  /\ UNCHANGED <<paper, docMarks, redis, memory, reader, second>>

\* invalidateBatchManifestDocumentCache; the entry in Redis stays when Redis
\* cannot be reached.
ForgetManifest(c) ==
  /\ closer[c].at = "forget"
  /\ IF paper = "manifest"
     THEN memory' = {} /\ redis' \in {redis, {}}
     ELSE UNCHANGED <<memory, redis>>
  /\ closer' = [closer EXCEPT ![c] = NotClosing]
  /\ UNCHANGED <<paper, docMarks, docBatch, due, reader, second>>

-----------------------------------------------------------------------------
(* A paper is asked for. *)

Move(r, at) == reader' = [reader EXCEPT ![r].at = at]

Hand(r, entry) ==
  reader' = [reader EXCEPT ![r].at = "served", ![r].rows = entry.rows,
                           ![r].age = second - entry.made]

rowVars == <<paper, docMarks, docBatch, due, closer, second>>

\* A rotulus begins with its mark; the papers of a batch with the caches, or with
\* the batch when they are not cached.
Ask(r) ==
  /\ reader[r].at = "idle"
  /\ \/ /\ paper = "rotulus"
        /\ \E m \in DocMarks :
             Stored(m) /\ reader' = [reader EXCEPT ![r].at = "look", ![r].copy = RowCopy(m)]
     \/ paper \in {"manifest", "labels"} /\ Move(r, "look")
     \/ paper = "checklist" /\ Move(r, "batch")
     \/ paper = "rotuli" /\ Move(r, "list")
  /\ UNCHANGED <<rowVars, redis, memory>>

\* Mutant of LookUp: what Redis has is kept in memory for another CacheTtl.
RefillingLookUp(r, reachable) ==
  LET key == Key(reader[r].copy)
      shared == IF reachable THEN Hits(redis, key) ELSE {}
      own == Hits(memory, key)
  IN  /\ reader[r].at = "look"
      /\ IF shared \cup own = {}
         THEN Move(r, IF paper = "manifest" THEN "batch" ELSE "list") /\ UNCHANGED memory
         ELSE \E e \in (IF shared # {} THEN shared ELSE own) :
                /\ Hand(r, e)
                /\ memory' = Keep(memory, [e EXCEPT !.expires = second + CacheTtl])
      /\ UNCHANGED <<rowVars, redis>>

\* Redis first, as far as it can be reached, then the memory. A hit is handed out
\* as it is and kept nowhere else.
LookUp(r, reachable) ==
  LET key == Key(reader[r].copy)
      shared == IF reachable THEN Hits(redis, key) ELSE {}
      own == Hits(memory, key)
  IN  /\ reader[r].at = "look"
      /\ IF shared \cup own = {}
         THEN Move(r, IF paper = "manifest" THEN "batch" ELSE "list")
         ELSE \E e \in (IF shared # {} THEN shared ELSE own) : Hand(r, e)
      /\ UNCHANGED <<rowVars, redis, memory>>

\* Mutant of CheckBatch: a manifest is made of a batch in any status.
AnyBatch(r) ==
  /\ reader[r].at = "batch"
  /\ Move(r, "list")
  /\ UNCHANGED <<rowVars, redis, memory>>

\* A manifest is made of a closed batch, a checklist of an open one.
CheckBatch(r) ==
  /\ reader[r].at = "batch"
  /\ IF docBatch = (IF paper = "manifest" THEN "CLOSED" ELSE "OPEN")
     THEN Move(r, "list")
     ELSE reader' = [reader EXCEPT ![r] = Waiting]
  /\ UNCHANGED <<rowVars, redis, memory>>

\* The rows a paper may show: the label of a mark is left out without a word when
\* it cannot be downloaded, a draft has none.
Printable ==
  LET listed == {m \in DocMarks : Stored(m) /\ docMarks[m].status # "FAILED"}
  IN  IF paper = "labels" THEN SUBSET {m \in listed : docMarks[m].status # "QUOTED"} ELSE {listed}

\* The marks are listed and printed; a rotulus prints the mark that was read. A
\* paper without a label or without a rotulus is not found.
MakePaper(r) ==
  /\ reader[r].at = "list"
  /\ \E printed \in (IF paper = "rotulus" THEN {{}} ELSE Printable) :
       LET rows == IF paper = "rotulus" THEN {reader[r].copy} ELSE {RowCopy(m) : m \in printed}
       IN  IF rows = {} /\ paper \in {"labels", "rotuli"}
           THEN reader' = [reader EXCEPT ![r] = Waiting]
           ELSE reader' = [reader EXCEPT ![r].rows = rows,
                             ![r].at = IF paper \in {"checklist", "rotuli"} THEN "served" ELSE "store"]
  /\ UNCHANGED <<rowVars, redis, memory>>

\* Both caches are written, Redis if it can be reached: whoever looks between the
\* two writes finds the paper in the one, or as if Redis had failed.
Store(r, reachable) ==
  LET entry == Entry(Key(reader[r].copy), reader[r].rows)
  IN  /\ reader[r].at = "store"
      /\ memory' = Keep(memory, entry)
      /\ redis' = IF reachable THEN Keep(redis, entry) ELSE redis
      /\ Hand(r, entry)
      /\ UNCHANGED rowVars

Leave(r) ==
  /\ reader[r].at = "served" /\ reader' = [reader EXCEPT ![r] = Waiting]
  /\ UNCHANGED <<rowVars, redis, memory>>

-----------------------------------------------------------------------------

\* An entry that no request can find any more is gone.
DocTick ==
  /\ second < LastSecond /\ second' = second + 1
  /\ redis' = {e \in redis : second < e.expires}
  /\ memory' = {e \in memory : second < e.expires}
  /\ UNCHANGED <<paper, docMarks, docBatch, due, reader, closer>>

\* The process dies with its requests and its memory.
DocRestart ==
  /\ memory' = {}
  /\ reader' = [r \in Readers |-> Waiting]
  /\ closer' = [c \in Closers |-> NotClosing]
  /\ UNCHANGED <<paper, docMarks, docBatch, due, redis, second>>

DocNext ==
  \/ \E m \in DocMarks : AddDraft(m) \/ EditDraft(m) \/ VoidRow(m)
  \/ \E c \in Closers : ListDrafts(c) \/ SubmitDraft(c) \/ CloseRow(c) \/ ForgetManifest(c)
  \/ \E r \in Readers : Ask(r) \/ CheckBatch(r) \/ MakePaper(r) \/ Leave(r)
  \/ \E r \in Readers, reachable \in BOOLEAN : LookUp(r, reachable) \/ Store(r, reachable)
  \/ DocTick \/ DocRestart

DocSpec == DocInit /\ [][DocNext]_docVars

-----------------------------------------------------------------------------
Served(r) == reader[r].at = "served"

\* The courier signs the manifest: each mark he has had ever since the batch was
\* closed is on the one that is handed out, however requests that close, draft,
\* void and print overlap and whatever cache it comes from (ManifestDocument).
ManifestCoversBatch ==
  paper = "manifest" /\ docBatch = "CLOSED" =>
      \A r \in Readers : Served(r) => due \subseteq {c.mark : c \in reader[r].rows}

\* A rotulus shows its mark as it was saved in the second of the last change the
\* request saw, never an earlier address (rotulusDocumentCacheKey).
RotulusFollowsMark ==
  paper = "rotulus" =>
      \A r \in Readers : Served(r) =>
          \A c \in reader[r].rows : /\ c.mark = reader[r].copy.mark
                                    /\ c.second = reader[r].copy.second

\* No paper is handed out later than CacheTtl after it was made, although two
\* caches and several requests pass it on (getCachedBatchAllMarksDocument).
PapersExpire == \A r \in Readers : Served(r) => reader[r].age <= CacheTtl

DocumentSafety == ManifestCoversBatch /\ RotulusFollowsMark /\ PapersExpire

-----------------------------------------------------------------------------
(* What makes these inductive: what holds of a paper holds of it in a cache and *)
(* on its way there, too.                                                       *)

Copies == [mark : DocMarks \cup {0}, second : Nat]

CacheEntry == [key : {<<>>} \cup ((DocMarks \cup {0}) \X Nat), rows : SUBSET Copies,
               made : Nat, expires : Nat]

DocTypes ==
  /\ paper \in Kinds
  /\ docMarks \in [DocMarks -> [status : {"ABSENT", "QUOTED", "CREATED", "FAILED", "VOIDED"},
                                second : Nat, edits : Nat]]
  /\ docBatch \in {"OPEN", "CLOSED"}
  /\ due \subseteq DocMarks
  /\ reader \in [Readers -> [at : {"idle", "look", "batch", "list", "store", "served"},
                             copy : Copies, rows : SUBSET Copies, age : Nat]]
  /\ closer \in [Closers -> [at : {"idle", "submit", "forget"}, drafts : SUBSET DocMarks]]
  /\ second \in Nat

MadeOf(rows) == {c.mark : c \in rows}

\* A cache entry: no older than it says, a rotulus under its own key, a manifest of
\* a closed batch with all that is due.
EntryInv(e) ==
  /\ e \in CacheEntry /\ e.made <= second /\ e.expires = e.made + CacheTtl
  /\ paper = "rotulus" => \E c \in e.rows : e.key = <<c.mark, c.second>> /\ e.rows = {c}
  /\ paper = "manifest" => docBatch = "CLOSED" /\ due \subseteq MadeOf(e.rows)

\* The same of a paper that is being made or has been handed out.
ReaderInv(r) ==
  /\ IF Served(r) THEN reader[r].age <= CacheTtl ELSE reader[r].age = 0
  /\ paper = "rotulus" /\ reader[r].at \in {"store", "served"} =>
       \E c \in reader[r].rows :
         /\ reader[r].rows = {c}
         /\ c.mark = reader[r].copy.mark /\ c.second = reader[r].copy.second
  /\ paper = "manifest" /\ reader[r].at \in {"list", "store", "served"} => docBatch = "CLOSED"
  /\ paper = "manifest" /\ reader[r].at \in {"store", "served"} => due \subseteq MadeOf(reader[r].rows)

DocInv ==
  /\ DocTypes
  /\ \A e \in redis \cup memory : EntryInv(e)
  /\ \A r \in Readers : ReaderInv(r)
  /\ docBatch = "CLOSED" => \A m \in due : docMarks[m].status = "CREATED"
===============================================================================
