----------------------------- MODULE OrderRecords ------------------------------
(* Orders as the staff keeps them (module/orders): they are created, their      *)
(* lines and address replaced, statuses appended, comments added, edited and    *)
(* deleted. A request reads the order, decides, writes in one transaction that  *)
(* locks the order's row, reads the order again and announces what it read.     *)
(* Before the lines are written a crew of goroutines looks their products up.   *)
(* That a read of an order may be torn is AnalyticsFacts' subject.              *)
EXTENDS Naturals, Sequences, FiniteSets

CONSTANTS
    Clerks,         \* requests
    WebOrders,      \* orders of the shop, which may not be there yet
    WooOrders,      \* orders of realm "woocommerce"
    MaxRemark,      \* bound: comments ever written
    OrderLines,     \* commands of a list that is resolved
    Crew            \* goroutines that resolve it

ASSUME OrderRecordsAssumption ==
    /\ WebOrders \cap WooOrders = {} /\ IsFiniteSet(WebOrders \cup WooOrders)
    /\ MaxRemark \in Nat /\ OrderLines \in Nat \ {0} /\ Crew # {}

VARIABLES
    sheet,          \* the order rows with their lines, address and latest status
    remarks,        \* the comment rows, by number
    remarkSeq,      \* the last number given
    clerk,          \* the requests
    told,           \* what the events of each order showed
    erased,         \* deleted comments: number and order of the request
    author,         \* the order each comment was written for
    untold,         \* orders of which a change was not announced
    crew            \* the resolution of a list of lines

sheetVars == <<sheet, remarks, remarkSeq, clerk, told, erased, author, untold>>
recordVars == <<sheetVars, crew>>

Sheets == WebOrders \cup WooOrders

\* An order has lines, an address of its own or the contact's, and statuses.
NoSheet == [lines |-> "none", address |-> "contact", status |-> 0]

OldSheet == [NoSheet EXCEPT !.lines = "old"]

Exists(o) == sheet[o].lines # "none"

\* What a request asks for: an operation on an order; the lines, the address,
\* the comment and the source it names.
NoClerk == [at |-> "idle", op |-> "none", order |-> "none", lines |-> "keep",
            address |-> "keep", remark |-> 0, part |-> "none", source |-> "staff",
            copy |-> NoSheet, remarks |-> <<>>]

\* An order of the shop is there with a comment, or is not; a WooCommerce order
\* is there, with the next comment.
RecordInit ==
    /\ sheet \in [Sheets -> {NoSheet, OldSheet}]
    /\ \A o \in WooOrders : Exists(o)
    /\ remarks \in [1..Cardinality(Sheets) -> [order : Sheets, by : {1}, text : {1}]]
    /\ \A o \in Sheets : \E i \in DOMAIN remarks : remarks[i].order = o
    /\ remarkSeq = Cardinality(Sheets)
    /\ clerk = [c \in Clerks |-> NoClerk]
    /\ told = [o \in Sheets |-> {}]
    /\ erased = {} /\ untold = {}
    /\ author = [i \in DOMAIN remarks |-> remarks[i].order]
    /\ crew = [main |-> "feed", next |-> 1, queue |-> <<>>, errors |-> 0, rows |-> {},
               lost |-> {}, line |-> [w \in Crew |-> 0], gone |-> {}]

-----------------------------------------------------------------------------
(* What a request does. *)

Serve(c, changed) ==
    /\ clerk' = [clerk EXCEPT ![c] = changed]
    /\ UNCHANGED <<sheet, remarks, remarkSeq, told, erased, author, untold, crew>>

Written(c) == [clerk EXCEPT ![c].at = "written"]

Over(c) == [clerk[c] EXCEPT !.at = "done"]

\* A request for lines or an address, for a status, for a comment.
AskUpdate(c, o, lines, address) ==
    /\ clerk[c].at = "idle" /\ (lines # "keep" \/ address # "keep")
    /\ Serve(c, [NoClerk EXCEPT !.at = "asked", !.op = "Update", !.order = o,
                                !.lines = lines, !.address = address])

AskStatus(c, o, source) ==
    /\ clerk[c].at = "idle"
    /\ Serve(c, [NoClerk EXCEPT !.at = "asked", !.op = "UpdateStatus", !.order = o,
                                !.source = source])

AskRemark(c, o, op, i, part) ==
    /\ clerk[c].at = "idle"
    /\ Serve(c, [NoClerk EXCEPT !.at = "asked", !.op = op, !.order = o,
                                !.remark = i, !.part = part])

\* WooCommerce may not change its own orders but by its synchronisation.
IgnoresWoo(c) == clerk[c].order \in WooOrders /\ clerk[c].source = "woocommerce_hook"

\* The order is read with its comments; there may be none.
LoadOrder(c) ==
    /\ clerk[c].at = "asked"
    /\ LET o == clerk[c].order
       IN  IF ~Exists(o) \/ IgnoresWoo(c)
           THEN Serve(c, Over(c))
           ELSE Serve(c, [clerk[c] EXCEPT !.at = "loaded", !.copy = sheet[o], !.remarks = remarks])

\* Update on the copy. A list of lines may be refused, or its products not be
\* found out; a request that changes nothing is over.
MergeUpdate(c) ==
    /\ clerk[c].at = "loaded" /\ clerk[c].op = "Update"
    /\ LET k == clerk[c]
           next == [k.copy EXCEPT !.lines = IF k.lines = "keep" THEN @ ELSE k.lines,
                                  !.address = IF k.address = "keep" THEN @ ELSE k.address]
       IN  Serve(c, IF next = k.copy \/ k.lines = "none" THEN Over(c)
                    ELSE [k EXCEPT !.at = "merged", !.copy = next])

\* The transaction writes all the lines, and the address when it is the order's own.
SaveOrder(c) ==
    /\ clerk[c].at = "merged" /\ clerk[c].op = "Update"
    /\ LET k == clerk[c]
       IN  sheet' = [sheet EXCEPT ![k.order].lines = k.copy.lines,
                                  ![k.order].address = IF k.copy.address = "own" THEN "own" ELSE @]
    /\ clerk' = Written(c)
    /\ UNCHANGED <<remarks, remarkSeq, told, erased, author, untold, crew>>

\* Two requests may create the order; the index on realm and identifier lets
\* the second one fail.
CreateOrder(c, o) ==
    /\ clerk[c].at = "idle"
    /\ clerk' = [clerk EXCEPT ![c] = [NoClerk EXCEPT !.at = IF Exists(o) THEN "done" ELSE "written",
                                                     !.op = "Create", !.order = o]]
    /\ sheet' = IF Exists(o) THEN sheet
                ELSE [sheet EXCEPT ![o] = [OldSheet EXCEPT !.status = 1]]
    /\ UNCHANGED <<remarks, remarkSeq, told, erased, author, untold, crew>>

AddStatus(c) ==
    /\ clerk[c].at = "loaded" /\ clerk[c].op = "UpdateStatus"
    /\ sheet' = [sheet EXCEPT ![clerk[c].order].status = @ + 1]
    /\ clerk' = Written(c)
    /\ UNCHANGED <<remarks, remarkSeq, told, erased, author, untold, crew>>

AddRemark(c) ==
    /\ clerk[c].at = "loaded" /\ clerk[c].op = "AddComment" /\ remarkSeq < MaxRemark
    /\ remarkSeq' = remarkSeq + 1
    /\ LET row == [order |-> clerk[c].order, by |-> 1, text |-> 1]
       IN  /\ remarks' = [i \in DOMAIN remarks \cup {remarkSeq'} |->
                            IF i = remarkSeq' THEN row ELSE remarks[i]]
           /\ author' = [i \in DOMAIN author \cup {remarkSeq'} |->
                            IF i = remarkSeq' THEN row.order ELSE author[i]]
    /\ clerk' = Written(c)
    /\ UNCHANGED <<sheet, told, erased, untold, crew>>

\* The comment, as it was read, gets the part that is given anew; it must be one
\* of the order's.
MergeRemark(c) ==
    /\ clerk[c].at = "loaded" /\ clerk[c].op = "UpdateComment"
    /\ LET k == clerk[c]
       IN  IF k.remark \in DOMAIN k.remarks /\ k.remarks[k.remark].order = k.order
           THEN Serve(c, [k EXCEPT !.at = "merged",
                            !.remarks[k.remark] = IF k.part = "by" THEN [@ EXCEPT !.by = 2]
                                                                    ELSE [@ EXCEPT !.text = 2]])
           ELSE Serve(c, Over(c))

\* Mutant of HoldsRemark: the row is not looked for before it is saved.
SavesBlindly(c) == TRUE

\* A transaction finds the comment's row under the order.
HoldsRemark(c) ==
    LET k == clerk[c] IN k.remark \in DOMAIN remarks /\ remarks[k.remark].order = k.order

\* Save writes the row by its number, and would insert one that is not there.
SaveRemark(c) ==
    /\ clerk[c].at = "merged" /\ clerk[c].op = "UpdateComment"
    /\ LET k == clerk[c]
       IN  IF HoldsRemark(c)
           THEN /\ remarks' = [i \in DOMAIN remarks \cup {k.remark} |->
                                 IF i = k.remark THEN k.remarks[i] ELSE remarks[i]]
                /\ clerk' = Written(c)
           ELSE clerk' = [clerk EXCEPT ![c] = Over(c)] /\ UNCHANGED remarks
    /\ UNCHANGED <<sheet, remarkSeq, told, erased, author, untold, crew>>

EraseRemark(c) ==
    /\ clerk[c].at = "loaded" /\ clerk[c].op = "DeleteComment"
    /\ LET k == clerk[c]
       IN  IF HoldsRemark(c)
           THEN /\ remarks' = [i \in DOMAIN remarks \ {k.remark} |-> remarks[i]]
                /\ erased' = erased \cup {[remark |-> k.remark, order |-> k.order]}
                /\ clerk' = Written(c)
           ELSE clerk' = [clerk EXCEPT ![c] = Over(c)] /\ UNCHANGED <<remarks, erased>>
    /\ UNCHANGED <<sheet, remarkSeq, told, author, untold, crew>>

\* What is announced is read after the transaction.
RereadOrder(c) ==
    /\ clerk[c].at = "written"
    /\ Serve(c, [clerk[c] EXCEPT !.at = "reread", !.copy = sheet[clerk[c].order]])

AnnounceOrder(c) ==
    /\ clerk[c].at = "reread"
    /\ told' = [told EXCEPT ![clerk[c].order] = @ \cup {clerk[c].copy}]
    /\ clerk' = [clerk EXCEPT ![c] = Over(c)]
    /\ UNCHANGED <<sheet, remarks, remarkSeq, erased, author, untold, crew>>

\* A statement or the publication fails, or the process dies: the request ends,
\* and a change that is written is not announced.
AbandonOrder(c) ==
    /\ clerk[c].at \in {"loaded", "merged", "written", "reread"}
    /\ clerk' = [clerk EXCEPT ![c] = Over(c)]
    /\ untold' = IF clerk[c].at \in {"written", "reread"} THEN untold \cup {clerk[c].order} ELSE untold
    /\ UNCHANGED <<sheet, remarks, remarkSeq, told, erased, author, crew>>

-----------------------------------------------------------------------------
(* resolveItems: the crew takes the lines from a channel that holds them all;   *)
(* the first error is kept in another, which holds one.                         *)

Resolve(changed) == crew' = changed /\ UNCHANGED sheetVars

FeedLine ==
    /\ crew.main = "feed" /\ crew.next <= OrderLines /\ Len(crew.queue) < OrderLines
    /\ Resolve([crew EXCEPT !.queue = Append(@, crew.next), !.next = @ + 1])

\* The first error is taken out of its channel, and no more lines are given.
SeeError ==
    /\ crew.main = "feed" /\ crew.next <= OrderLines /\ crew.errors = 1
    /\ Resolve([crew EXCEPT !.main = "abandon", !.errors = 0])

CloseLines ==
    /\ crew.main = "feed" /\ crew.next > OrderLines
    /\ Resolve([crew EXCEPT !.main = "wait"])

TakeLine(w) ==
    /\ w \notin crew.gone /\ crew.line[w] = 0 /\ crew.queue # <<>>
    /\ Resolve([crew EXCEPT !.line[w] = Head(crew.queue), !.queue = Tail(@)])

\* The line gets its product, or none is found.
FillLine(w) ==
    /\ crew.line[w] # 0
    /\ Resolve([crew EXCEPT !.line[w] = 0, !.rows = @ \cup {crew.line[w]}])

\* The catalogue does not answer; an error beyond the first is dropped.
LoseLine(w) ==
    /\ crew.line[w] # 0
    /\ Resolve([crew EXCEPT !.line[w] = 0, !.gone = @ \cup {w}, !.errors = 1,
                          !.lost = @ \cup {crew.line[w]}])

Retire(w) ==
    /\ w \notin crew.gone /\ crew.line[w] = 0 /\ crew.queue = <<>> /\ crew.main # "feed"
    /\ Resolve([crew EXCEPT !.gone = @ \cup {w}])

\* All of the crew is waited for, and then the errors are looked at once more.
JoinCrew ==
    /\ crew.main \in {"wait", "abandon"} /\ crew.gone = Crew
    /\ Resolve([crew EXCEPT !.main = IF @ = "abandon" \/ crew.errors = 1 THEN "error" ELSE "rows"])

-----------------------------------------------------------------------------
AskOrder(c) ==
    \E o \in Sheets :
        \/ \E lines \in {"keep", "none", "new"}, address \in {"keep", "own"} : AskUpdate(c, o, lines, address)
        \/ \E source \in {"staff", "woocommerce_hook"} : AskStatus(c, o, source)
        \/ AskRemark(c, o, "AddComment", 0, "none")
        \/ \E i \in DOMAIN remarks, part \in {"by", "text"} : AskRemark(c, o, "UpdateComment", i, part)
        \/ \E i \in DOMAIN remarks : AskRemark(c, o, "DeleteComment", i, "none")

RecordNext ==
    \/ \E c \in Clerks :
         \/ AskOrder(c) \/ LoadOrder(c) \/ MergeUpdate(c) \/ SaveOrder(c) \/ AddStatus(c)
         \/ AddRemark(c) \/ MergeRemark(c) \/ SaveRemark(c) \/ EraseRemark(c)
         \/ RereadOrder(c) \/ AnnounceOrder(c) \/ AbandonOrder(c)
         \/ \E o \in Sheets : CreateOrder(c, o)

CrewNext ==
    \/ FeedLine \/ SeeError \/ CloseLines \/ JoinCrew
    \/ \E w \in Crew : TakeLine(w) \/ FillLine(w) \/ LoseLine(w) \/ Retire(w)

RecordSpec == RecordInit /\ [][RecordNext \/ CrewNext]_recordVars

-----------------------------------------------------------------------------
\* A comment that was deleted does not come back when an edit of it was under way
\* (UpdateComment saves a whole row), and is deleted by a request for its order.
CommentsStayDeleted ==
    \A e \in erased : e.remark \notin DOMAIN remarks /\ author[e.remark] = e.order

\* When nobody is at work, some event showed each order as it is, unless a change
\* of it could not be announced: requests overlap, write what they read before,
\* and announce in any order (BuildOrderUpdatedIntegrationEvent).
FinalStateTold ==
    \A o \in Sheets :
        \/ o \in untold
        \/ \E c \in Clerks : clerk[c].order = o /\ clerk[c].at # "done"
        \/ told[o] = {} /\ sheet[o] \in {NoSheet, OldSheet}
        \/ sheet[o] \in told[o]

\* resolveItems gives back a full list when no line was lost and an error when one
\* was, and never waits to give out a line, however many of the crew leave early.
CrewAnswers ==
    /\ crew.main = "rows" => crew.rows = 1..OrderLines /\ crew.lost = {}
    /\ crew.main = "error" => crew.lost # {}
    /\ crew.main = "feed" /\ crew.next <= OrderLines => Len(crew.queue) < OrderLines

RecordSafety == CommentsStayDeleted /\ FinalStateTold /\ CrewAnswers

-----------------------------------------------------------------------------
(* What makes these inductive. *)

SheetRow == [lines : {"none", "old", "new"}, address : {"contact", "own"}, status : Nat]

RemarkRow == [order : Sheets, by : {1, 2}, text : {1, 2}]

\* The comments there may be, by number.
RemarkTables == UNION {[D -> RemarkRow] : D \in SUBSET (1..(Cardinality(Sheets) + MaxRemark))}

ClerkRow ==
    [at : {"idle", "asked", "loaded", "merged", "written", "reread", "done"},
     op : {"none", "Create", "Update", "UpdateStatus", "AddComment", "UpdateComment", "DeleteComment"},
     order : Sheets \cup {"none"}, lines : {"keep", "none", "new"}, address : {"keep", "own"},
     remark : Nat, part : {"none", "by", "text"}, source : {"staff", "woocommerce_hook"},
     copy : SheetRow, remarks : RemarkTables]

RecordTypes ==
    /\ sheet \in [Sheets -> SheetRow]
    /\ clerk \in [Clerks -> ClerkRow]
    /\ \A c \in Clerks : clerk[c].at # "idle" => clerk[c].order \in Sheets
    /\ told \in [Sheets -> SUBSET SheetRow]
    /\ untold \subseteq Sheets
    /\ remarks \in RemarkTables
    /\ remarkSeq \in Nat /\ remarkSeq <= Cardinality(Sheets) + MaxRemark

\* Numbers are given once; a comment that is there has the order it was written
\* for, and so has the copy of it that is going to be saved.
RemarksInv ==
    /\ DOMAIN author = 1..remarkSeq
    /\ \A i \in DOMAIN remarks : i \in 1..remarkSeq /\ remarks[i].order = author[i]
    /\ \A e \in erased : e.remark \in 1..remarkSeq
    /\ CommentsStayDeleted
    /\ \A c \in Clerks : clerk[c].at = "merged" /\ clerk[c].op = "UpdateComment" =>
           /\ clerk[c].remark \in DOMAIN clerk[c].remarks
           /\ clerk[c].remarks[clerk[c].remark].order = clerk[c].order

\* The order as it is was told, or will be, or somebody failed to tell it.
Covered(o) ==
    \/ o \in untold \/ sheet[o] \in told[o]
    \/ \E c \in Clerks : /\ clerk[c].order = o
                         /\ \/ clerk[c].at = "written"
                            \/ clerk[c].at = "reread" /\ clerk[c].copy = sheet[o]

Untouched(o) ==
    /\ told[o] = {} /\ sheet[o] \in {NoSheet, OldSheet}
    /\ \A c \in Clerks : clerk[c].order = o => clerk[c].at # "reread"

OrdersInv == RecordTypes /\ RemarksInv /\ \A o \in Sheets : Covered(o) \/ Untouched(o)

\* No line is mislaid until one is lost, and the error of the first is kept until
\* it is seen.
CrewInv ==
    /\ crew \in [main : {"feed", "abandon", "wait", "error", "rows"}, next : 1..(OrderLines + 1),
                 queue : Seq(1..OrderLines), errors : {0, 1}, rows : SUBSET (1..OrderLines),
                 lost : SUBSET (1..OrderLines), line : [Crew -> 0..OrderLines], gone : SUBSET Crew]
    /\ Len(crew.queue) < crew.next
    /\ crew.main \in {"wait", "rows"} => crew.next = OrderLines + 1
    /\ crew.lost # {} <=> crew.errors = 1 \/ crew.main \in {"abandon", "error"}
    /\ crew.main \in {"rows", "error"} => crew.gone = Crew
    /\ \A w \in crew.gone : crew.line[w] = 0
    /\ crew.lost = {} =>
         /\ \A n \in 1..(crew.next - 1) :
              \/ n \in crew.rows
              \/ \E w \in Crew : crew.line[w] = n
              \/ \E i \in 1..Len(crew.queue) : crew.queue[i] = n
         /\ crew.gone # {} => crew.main # "feed" /\ crew.queue = <<>>
    /\ CrewAnswers
===============================================================================
