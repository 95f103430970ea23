---------------------------- MODULE EmailDelivery ----------------------------
(* Transactional mail (module/email): Send with its idempotency key, the       *)
(* webhook that applies the provider's notices, the delayed retry of a soft    *)
(* bounce, the open pixel, and the event consumer in core/cmd/api that calls   *)
(* Send for every mark event the bus delivers.                                 *)
(*                                                                             *)
(* A slot is one goroutine.  Every SQL statement and every call of the         *)
(* provider is a step; a request's first statement starts it.  The status      *)
(* history keeps only what the code reads back: the number of                  *)
(* failed_retryable entries of a delivery.                                     *)
EXTENDS Naturals, FiniteSets

CONSTANTS
  Keys,        \* idempotency keys, one per mark event; each has one recipient
  Deliveries,  \* delivery ids, numbered in the order uuid.NewString mints them
  Messages,    \* message ids, numbered in the order the provider mints them
  Events,      \* notification types the provider sends in this instance
  Slots,       \* goroutines that may run at the same time
  MaxRetries,  \* EMAIL_WEBHOOK_SOFT_BOUNCE_MAX_RETRIES
  Faults,      \* whether statements fail, answers get lost and processes die
  MaxTries,    \* bound: calls of Send, redelivered events included
  MaxNotices,  \* bound: webhook calls, redelivered copies included
  Nil          \* no row, no message id, no delivery

AllEvents == {"delivery", "complaint", "permanent", "transient", "reject", "other"}

ASSUME EmailAssumption ==
  /\ Deliveries \subseteq Nat /\ Messages \subseteq Nat
  /\ Events \subseteq AllEvents
  /\ IsFiniteSet(Slots)
  /\ MaxRetries \in Nat /\ MaxTries \in Nat /\ MaxNotices \in Nat
  /\ Faults \in BOOLEAN
  /\ Nil \notin Deliveries \cup Messages
  /\ Nil \notin AllEvents

VARIABLES
  rows,      \* email_deliveries: delivery id -> row, Nil when there is none
  failures,  \* email_delivery_status_history: failed_retryable entries
  req,       \* slot -> what its goroutine is doing
  sleeping,  \* delivery -> retry goroutines still in time.Sleep
  optedOut,  \* keys whose recipient is stamped email opt-out
  mail,      \* what the provider accepted: message id -> [delivery, op]
  tries,     \* calls of Send so far
  notices,   \* webhook calls so far
  acked,     \* history: keys whose event the consumer acknowledged
  launched,  \* history: retry goroutines started per delivery
  faulted    \* history: a statement failed or the process died

vars == <<rows, failures, req, sleeping, optedOut, mail, tries, notices,
          acked, launched, faulted>>

-----------------------------------------------------------------------------
(* Data. *)

DeliveryStatus == {"pending", "submitted", "failed_retryable",
                   "failed_permanent", "delivered", "bounced", "complained",
                   "opened"}

Row == [key : Keys, status : DeliveryStatus, message : Messages \cup {Nil}]

\* Send submits the original mail of a delivery, Retry a soft-bounce retry.
Mail == [delivery : Deliveries, op : {"Send", "Retry"}]

Request == [op : {"Idle", "Send", "Retry", "Notice"},
            at : {"Idle", "Provider", "Store", "StoreFailure", "LogFailure",
                  "Update", "Log", "OptOut", "Count"},
            delivery : Deliveries \cup {Nil},
            message : Messages \cup {Nil},
            event : Events \cup {Nil}]

Idle == [op |-> "Idle", at |-> "Idle", delivery |-> Nil, message |-> Nil,
         event |-> Nil]

\* An absent row is none of the table's rows.
ASSUME NilAssumption == Nil \notin Row /\ Nil \notin Mail

Free(table, id) == table[id] = Nil /\ \A i \in DOMAIN table :
                                        i < id => table[i] # Nil

\* Mutant of Duplicate: a failed delivery does not count.
DuplicateUnlessFailed(k) ==
  \E d \in Deliveries :
    rows[d] # Nil /\ rows[d].key = k /\ rows[d].status # "failed_retryable"

Duplicate(k) == \E d \in Deliveries : rows[d] # Nil /\ rows[d].key = k

\* The status a notice sets.
StatusOf(event) == CASE event = "delivery"  -> "delivered"
                     [] event = "complaint" -> "complained"
                     [] event = "permanent" -> "bounced"
                     [] event = "transient" -> "failed_retryable"
                     [] event = "reject"    -> "failed_permanent"
                     [] event = "other"     -> "submitted"

OptsOut(event) == event \in {"complaint", "permanent"}

\* UpdateDeliveryStatus: an empty message id leaves the column alone.
Updated(d, status, m) ==
  [rows EXCEPT ![d] =
     [key |-> rows[d].key, status |-> status,
      message |-> IF m = Nil THEN rows[d].message ELSE m]]

-----------------------------------------------------------------------------
(* Control. *)

Init ==
  /\ rows = [d \in Deliveries |-> Nil]
  /\ failures = [d \in Deliveries |-> 0]
  /\ req = [s \in Slots |-> Idle]
  /\ sleeping = [d \in Deliveries |-> 0]
  /\ optedOut = {}
  /\ mail = [m \in Messages |-> Nil]
  /\ tries = 0
  /\ notices = 0
  /\ acked = {}
  /\ launched = [d \in Deliveries |-> 0]
  /\ faulted = FALSE

At(s, point) == req[s].at = point
Goto(s, point) == req' = [req EXCEPT ![s].at = point]
End(s) == req' = [req EXCEPT ![s] = Idle]

\* A statement fails; what the caller does about it is the action's own.
Fault == Faults /\ faulted' = TRUE

\* The consumer acknowledges the event when Send reports success.
Ack(s) == acked' = IF req[s].op = "Send"
                   THEN acked \cup {rows[req[s].delivery].key} ELSE acked

-----------------------------------------------------------------------------
(* Send. *)

Try(s) ==
  /\ At(s, "Idle")
  /\ tries < MaxTries
  /\ tries' = tries + 1

CreateDelivery(s, k) ==
  /\ Try(s)
  /\ ~Duplicate(k)
  /\ \E d \in Deliveries :
       /\ Free(rows, d)
       /\ rows' = [rows EXCEPT ![d] =
                     [key |-> k, status |-> "pending", message |-> Nil]]
       /\ req' = [req EXCEPT ![s] = [Idle EXCEPT !.op = "Send",
                                       !.at = "Provider", !.delivery = d]]
  /\ UNCHANGED <<failures, sleeping, optedOut, mail, notices, acked, launched,
                 faulted>>

\* The unique index on idempotency_key refuses the row, and the consumer takes
\* the refusal for proof that the mail is out.
SkipDuplicate(s, k) ==
  /\ Try(s)
  /\ Duplicate(k)
  /\ acked' = acked \cup {k}
  /\ UNCHANGED <<rows, failures, req, sleeping, optedOut, mail, notices,
                 launched, faulted>>

CreateFails(s) ==
  /\ Try(s)
  /\ Fault
  /\ UNCHANGED <<rows, failures, req, sleeping, optedOut, mail, notices, acked,
                 launched>>

\* The provider takes the mail: with its id, with an answer that carries none,
\* or with an answer that never arrives.
Accept(s) ==
  /\ At(s, "Provider")
  /\ \E m \in Messages :
       /\ Free(mail, m)
       /\ mail' = [mail EXCEPT ![m] = [delivery |-> req[s].delivery,
                                       op |-> req[s].op]]
       /\ \/ req' = [req EXCEPT ![s].at = "Store", ![s].message = m]
          \/ Faults /\ Goto(s, "Store")
          \/ Faults /\ Goto(s, "StoreFailure")
  /\ UNCHANGED <<rows, failures, sleeping, optedOut, tries, notices, acked,
                 launched, faulted>>

Refuse(s) ==
  /\ At(s, "Provider")
  /\ Faults
  /\ Goto(s, "StoreFailure")
  /\ UNCHANGED <<rows, failures, sleeping, optedOut, mail, tries, notices,
                 acked, launched, faulted>>

\* Mutant of Store: nothing is written when the provider answers without an id.
StoreIfIdentified(s) ==
  /\ At(s, "Store")
  /\ rows' = IF req[s].message = Nil THEN rows
             ELSE Updated(req[s].delivery, "submitted", req[s].message)
  /\ Ack(s)
  /\ End(s)
  /\ UNCHANGED <<failures, sleeping, optedOut, mail, tries, notices, launched,
                 faulted>>

\* The updates after the call are best effort: their errors are dropped.
Store(s) ==
  /\ At(s, "Store")
  /\ \/ /\ rows' = Updated(req[s].delivery, "submitted", req[s].message)
        /\ UNCHANGED faulted
     \/ Fault /\ UNCHANGED rows
  /\ Ack(s)
  /\ End(s)
  /\ UNCHANGED <<failures, sleeping, optedOut, mail, tries, notices, launched>>

StoreFailure(s) ==
  /\ At(s, "StoreFailure")
  /\ \/ /\ rows' = Updated(req[s].delivery, "failed_retryable", Nil)
        /\ UNCHANGED faulted
     \/ Fault /\ UNCHANGED rows
  /\ Goto(s, "LogFailure")
  /\ UNCHANGED <<failures, sleeping, optedOut, mail, tries, notices, acked,
                 launched>>

LogFailure(s) ==
  /\ At(s, "LogFailure")
  /\ \/ /\ failures' = [failures EXCEPT ![req[s].delivery] = @ + 1]
        /\ UNCHANGED faulted
     \/ Fault /\ UNCHANGED failures
  /\ End(s)
  /\ UNCHANGED <<rows, sleeping, optedOut, mail, tries, notices, acked, launched>>

-----------------------------------------------------------------------------
(* Webhooks.  The provider may report anything about mail it accepted, and SNS *)
(* delivers each notice at least once.  A plain JSON webhook takes the same    *)
(* steps as an SNS notification of the same event; it has no transient bounce. *)

Notify(s, m) ==
  /\ At(s, "Idle")
  /\ notices < MaxNotices
  /\ mail[m] # Nil
  /\ notices' = notices + 1

\* Mutant of Lookup: the delivery is found by the tag the provider echoes.
LookupByTag(s, m, event) ==
  /\ Notify(s, m)
  /\ req' = [req EXCEPT ![s] = [op |-> "Notice", at |-> "Update",
                 delivery |-> mail[m].delivery, message |-> m, event |-> event]]
  /\ UNCHANGED <<rows, failures, sleeping, optedOut, mail, tries, acked,
                 launched, faulted>>

\* Mutant of Lookup: any delivery that awaits a notice is taken.
LookupSubmitted(s, m, event) ==
  /\ Notify(s, m)
  /\ \E d \in Deliveries :
       /\ rows[d] # Nil /\ rows[d].status = "submitted"
       /\ req' = [req EXCEPT ![s] = [op |-> "Notice", at |-> "Update",
                            delivery |-> d, message |-> m, event |-> event]]
  /\ UNCHANGED <<rows, failures, sleeping, optedOut, mail, tries, acked,
                 launched, faulted>>

\* GetByProviderMessageID.
Lookup(s, m, event) ==
  /\ Notify(s, m)
  /\ \E d \in Deliveries :
       /\ rows[d] # Nil /\ rows[d].message = m
       /\ req' = [req EXCEPT ![s] = [op |-> "Notice", at |-> "Update",
                            delivery |-> d, message |-> m, event |-> event]]
  /\ UNCHANGED <<rows, failures, sleeping, optedOut, mail, tries, acked,
                 launched, faulted>>

\* No delivery has the id: an SNS notice is acknowledged, a direct call refused.
Unknown(s, m) ==
  /\ Notify(s, m)
  /\ ~\E d \in Deliveries : rows[d] # Nil /\ rows[d].message = m
  /\ UNCHANGED <<rows, failures, req, sleeping, optedOut, mail, tries, acked,
                 launched, faulted>>

\* The id the notice came with is written back next to the status.
Update(s) ==
  /\ At(s, "Update")
  /\ \/ /\ rows' = Updated(req[s].delivery, StatusOf(req[s].event), req[s].message)
        /\ Goto(s, "Log")
        /\ UNCHANGED faulted
     \/ Fault /\ End(s) /\ UNCHANGED rows
  /\ UNCHANGED <<failures, sleeping, optedOut, mail, tries, notices, acked,
                 launched>>

\* Mutant of AfterLog: only complaints opt out.
AfterLogComplaint(event) == CASE event = "complaint" -> "OptOut"
                              [] event = "transient" -> "Count"
                              [] OTHER -> "Idle"

AfterLog(event) == CASE OptsOut(event) -> "OptOut"
                     [] event = "transient" /\ MaxRetries > 0 -> "Count"
                     [] OTHER -> "Idle"

\* Mutant of Log: a failing insert is ignored, as it is in Send.
LogBestEffort(s) ==
  /\ At(s, "Log")
  /\ \/ /\ failures' = [failures EXCEPT ![req[s].delivery] = @ + 1]
        /\ UNCHANGED faulted
     \/ Fault /\ UNCHANGED failures
  /\ Goto(s, IF req[s].event = "transient" THEN "Count" ELSE "OptOut")
  /\ UNCHANGED <<rows, sleeping, optedOut, mail, tries, notices, acked, launched>>

Log(s) ==
  /\ At(s, "Log")
  /\ \/ /\ failures' = IF req[s].event = "transient"
                       THEN [failures EXCEPT ![req[s].delivery] = @ + 1]
                       ELSE failures
        /\ IF AfterLog(req[s].event) = "Idle" THEN End(s)
           ELSE Goto(s, AfterLog(req[s].event))
        /\ UNCHANGED faulted
     \/ Fault /\ End(s) /\ UNCHANGED failures
  /\ UNCHANGED <<rows, sleeping, optedOut, mail, tries, notices, acked, launched>>

\* OptOutByEmail; its error is dropped.
OptOut(s) ==
  /\ At(s, "OptOut")
  /\ \/ /\ optedOut' = optedOut \cup {rows[req[s].delivery].key}
        /\ UNCHANGED faulted
     \/ Fault /\ UNCHANGED optedOut
  /\ End(s)
  /\ UNCHANGED <<rows, failures, sleeping, mail, tries, notices, acked, launched>>

\* Count the failures and start the retry goroutine while the budget lasts.
Count(s) ==
  LET d == req[s].delivery IN
  /\ At(s, "Count")
  /\ \/ /\ failures[d] <= MaxRetries
        /\ sleeping' = [sleeping EXCEPT ![d] = @ + 1]
        /\ launched' = [launched EXCEPT ![d] = @ + 1]
        /\ UNCHANGED faulted
     \/ /\ failures[d] > MaxRetries
        /\ UNCHANGED <<sleeping, launched, faulted>>
     \/ Fault /\ UNCHANGED <<sleeping, launched>>
  /\ End(s)
  /\ UNCHANGED <<rows, failures, optedOut, mail, tries, notices, acked>>

-----------------------------------------------------------------------------
(* The delayed retry, the open pixel, the death of the process. *)

Wake(s, d) ==
  /\ At(s, "Idle")
  /\ sleeping[d] > 0
  /\ sleeping' = [sleeping EXCEPT ![d] = @ - 1]
  /\ req' = [req EXCEPT ![s] = [Idle EXCEPT !.op = "Retry", !.at = "Provider",
                                            !.delivery = d]]
  /\ UNCHANGED <<rows, failures, optedOut, mail, tries, notices, acked,
                 launched, faulted>>

\* The pixel is in the mail: only who received it can request it.
TrackOpen(d) ==
  /\ \E m \in Messages : mail[m] # Nil /\ mail[m].delivery = d
  /\ rows' = Updated(d, "opened", Nil)
  /\ UNCHANGED <<failures, req, sleeping, optedOut, mail, tries, notices,
                 acked, launched, faulted>>

Crash ==
  /\ Fault
  /\ \/ \E s \in Slots : req[s] # Idle
     \/ \E d \in Deliveries : sleeping[d] > 0
  /\ req' = [s \in Slots |-> Idle]
  /\ sleeping' = [d \in Deliveries |-> 0]
  /\ UNCHANGED <<rows, failures, optedOut, mail, tries, notices, acked, launched>>

-----------------------------------------------------------------------------
Begin(s) ==
  \/ \E k \in Keys : CreateDelivery(s, k) \/ SkipDuplicate(s, k)
  \/ CreateFails(s)
  \/ \E m \in Messages :
       Unknown(s, m) \/ \E event \in Events : Lookup(s, m, event)

Step(s) == Accept(s) \/ Refuse(s) \/ Store(s) \/ StoreFailure(s) \/ LogFailure(s)
           \/ Update(s) \/ Log(s) \/ OptOut(s) \/ Count(s)

Retry(d) == \E s \in Slots : Wake(s, d)

Next ==
  \/ \E s \in Slots : Begin(s) \/ Step(s)
  \/ \E d \in Deliveries : Retry(d) \/ TrackOpen(d)
  \/ Crash

\* The Go scheduler runs every goroutine that can run, and a timer fires.
Fairness == /\ \A s \in Slots : WF_vars(Step(s))
            /\ \A d \in Deliveries : WF_vars(Retry(d))

Spec == Init /\ [][Next]_vars /\ Fairness

-----------------------------------------------------------------------------
(* Properties. *)

\* Rows, goroutines and counters stay within the types the repositories and the
\* service give them.
TypeOK ==
  /\ rows \in [Deliveries -> Row \cup {Nil}]
  /\ failures \in [Deliveries -> Nat]
  /\ req \in [Slots -> Request]
  /\ sleeping \in [Deliveries -> Nat]
  /\ optedOut \subseteq Keys
  /\ mail \in [Messages -> Mail \cup {Nil}]
  /\ tries \in 0..MaxTries
  /\ notices \in 0..MaxNotices
  /\ acked \subseteq Keys
  /\ launched \in [Deliveries -> Nat]
  /\ faulted \in BOOLEAN

\* However often the bus redelivers a mark event or a client repeats a key, and
\* whatever fails in between, the provider accepts at most one original mail per
\* idempotency key: Send inserts the row before it calls the provider.
OneFirstMail ==
  \A m, n \in Messages :
    /\ mail[m] # Nil /\ mail[n] # Nil
    /\ mail[m].op = "Send" /\ mail[n].op = "Send"
    /\ rows[mail[m].delivery].key = rows[mail[n].delivery].key
    => m = n

RetriesOf(d) == {m \in Messages : mail[m] = [delivery |-> d, op |-> "Retry"]}

\* Copies of a soft bounce notice handled at the same time never send more than
\* MaxRetries retries of a delivery: each copy logs its failure before it counts.
RetryBudget ==
  \A d \in Deliveries : Cardinality(RetriesOf(d)) <= MaxRetries

\* The provider id of a delivery is always that of a mail sent for this very
\* delivery, whichever retry or late webhook wrote it last, so that a notice
\* never lands on the mail of another recipient.
OwnMessage ==
  \A d \in Deliveries :
    rows[d] # Nil /\ rows[d].message # Nil =>
      /\ mail[rows[d].message] # Nil
      /\ mail[rows[d].message].delivery = d

\* Send stores "submitted" after the mail is out, when notices may already
\* arrive; it never overwrites what a notice said, because a notice finds the
\* delivery only once that very update has stored the message id.
SubmittedFirst ==
  [][\A s \in Slots :
       req[s].op = "Send" /\ At(s, "Store") /\ Store(s) =>
         rows[req[s].delivery].status \in {"pending", "opened"}]_vars

Handling(s, d) == req[s].delivery = d /\ req[s].at \in {"Log", "OptOut"}

\* A delivery that shows a permanent bounce or a complaint belongs to a recipient
\* who is opted out, unless the webhook is still at it or something failed.
BouncedOptedOut ==
  \A d \in Deliveries :
    /\ rows[d] # Nil
    /\ rows[d].status \in {"bounced", "complained"}
    /\ ~faulted
    /\ \A s \in Slots : ~Handling(s, d)
    => rows[d].key \in optedOut

-----------------------------------------------------------------------------
(* The inductive invariant behind the safety properties. *)

KeyUnique ==
  \A d, e \in Deliveries :
    rows[d] # Nil /\ rows[e] # Nil /\ rows[d].key = rows[e].key => d = e

MailHasRow ==
  \A m \in Messages : mail[m] # Nil => rows[mail[m].delivery] # Nil

\* A goroutine works on a delivery that exists, with a message of its own.
Busy(s) ==
  /\ req[s].op = "Idle" <=> At(s, "Idle")
  /\ req[s].op = "Notice" <=> req[s].at \in {"Update", "Log", "OptOut", "Count"}
  /\ req[s].op = "Notice" => req[s].message # Nil /\ req[s].event # Nil
  /\ req[s].op = "Idle" <=> req[s].delivery = Nil
  /\ req[s].op # "Idle" => rows[req[s].delivery] # Nil
  /\ req[s].message # Nil =>
       /\ req[s].op # "Idle"
       /\ mail[req[s].message] # Nil
       /\ mail[req[s].message].delivery = req[s].delivery

\* While Send is at work on a delivery, nobody else is: no notice can find it.
Sole(s) ==
  LET d == req[s].delivery IN
  req[s].op = "Send" =>
    /\ rows[d].message = Nil
    /\ rows[d].status \in {"pending", "opened"} \/ At(s, "LogFailure")
    /\ sleeping[d] = 0
    /\ \A t \in Slots \ {s} : req[t].delivery # d
    /\ At(s, "Provider") => \A m \in Messages : mail[m] # Nil => mail[m].delivery # d

Counting(d) == {s \in Slots : At(s, "Count") /\ req[s].delivery = d}
Retrying(d) == {s \in Slots : /\ req[s].op = "Retry" /\ At(s, "Provider")
                              /\ req[s].delivery = d}

\* Each goroutine about to count has logged a failure of its own, and each retry
\* is asleep, about to call the provider, or in the mail.
Budget(d) ==
  /\ rows[d] = Nil => sleeping[d] = 0
  /\ IsFiniteSet(RetriesOf(d))
  /\ launched[d] <= MaxRetries
  /\ launched[d] + Cardinality(Counting(d)) <= failures[d]
  /\ Cardinality(RetriesOf(d)) + sleeping[d] + Cardinality(Retrying(d)) <= launched[d]

\* Mail, rows and goroutines agree as far as the safety properties read them.
MailInv ==
  /\ TypeOK
  /\ KeyUnique /\ MailHasRow
  /\ OneFirstMail /\ OwnMessage
  /\ \A s \in Slots : Busy(s) /\ Sole(s)
  /\ \A d \in Deliveries : Budget(d)

\* Behind BouncedOptedOut: as long as nothing fails, the recipient of a delivery
\* that shows a bounce or a complaint is opted out, or a notice of it is at work.
OptingOut(s, d) == Handling(s, d) /\ OptsOut(req[s].event)

OptOutInv ==
  /\ MailInv
  /\ \A d \in Deliveries :
       /\ rows[d] # Nil
       /\ rows[d].status \in {"bounced", "complained"}
       /\ ~faulted
       => rows[d].key \in optedOut \/ \E s \in Slots : OptingOut(s, d)

-----------------------------------------------------------------------------
(* Progress, and what the consumer's acknowledgement is worth. *)

Pending(d) == rows[d] # Nil /\ rows[d].status = "pending"

\* Only a dead process or a failed update leaves a delivery "pending": otherwise
\* Send goes on to store the provider's answer, good or bad.
PendingResolves ==
  \A d \in Deliveries : Pending(d) ~> (faulted \/ ~Pending(d))

\* As long as no process dies and no statement fails, a mark event the consumer
\* acknowledges has its mail accepted by the provider.
AckedMeansSent ==
  ~faulted => \A k \in acked : \E m \in Messages :
                mail[m] # Nil /\ rows[mail[m].delivery].key = k

===============================================================================
