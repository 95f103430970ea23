------------------------------- MODULE EventBus -------------------------------
(* The in-process event bus (module/core/messaging): Watermill's router and    *)
(* GoChannel, configured so that Publish waits until every subscriber has       *)
(* acknowledged, with the retry and dead-letter middleware of each handler.     *)
(*                                                                             *)
(* A caller is a goroutine that may be inside Publish: a request (HTTP handler, *)
(* scheduled job) or a handler, which publishes what its service announces and  *)
(* its dead letters.  A message needs no name: a topic has one in flight at a   *)
(* time.  GoChannel itself is external; it is modelled as the code uses it.     *)
EXTENDS Naturals, FiniteSets

CONSTANTS
  Topics,      \* topics messages are published to, dead-letter topics included
  Handlers,    \* registered handlers
  Requests,    \* goroutines outside the bus that publish
  Announces,   \* request -> topics it publishes to
  TopicOf,     \* handler -> topic it subscribes to
  Emits,       \* handler -> topic its service publishes to, or Nil
  DeadLetter,  \* topic -> its dead-letter topic; Nil for a dead-letter topic
  MaxRetries,  \* MESSAGING_RETRY_MAX_RETRIES
  Nil          \* no topic, no caller

ASSUME BusAssumption ==
  /\ Handlers \cap Requests = {}
  /\ Announces \in [Requests -> SUBSET Topics]
  /\ TopicOf \in [Handlers -> Topics]
  /\ Emits \in [Handlers -> Topics \cup {Nil}]
  /\ DeadLetter \in [Topics -> Topics \cup {Nil}]
  /\ MaxRetries \in Nat
  /\ Nil \notin Topics /\ Nil \notin Handlers /\ Nil \notin Requests

\* No set of topics feeds only itself: following what handlers publish never leads
\* round in a circle.
ASSUME WiringAssumption ==
  \A T \in SUBSET Topics : T # {} =>
    \E t \in T : /\ DeadLetter[t] \notin T
                /\ \A h \in Handlers : TopicOf[h] = t => Emits[h] \notin T

Callers == Handlers \cup Requests

VARIABLES
  subscribed,  \* handlers whose subscription is in place
  writer,      \* the handler for which Subscribe waits for the write lock, or Nil
  pub,         \* caller -> topic and point of its Publish
  holder,      \* topic -> caller whose message is being delivered, or Nil
  unacked,     \* topic -> subscribers that have not acknowledged that message
  run,         \* handler -> point and number of the current attempt
  outcome,     \* history: handler -> how the message in flight fared
  early        \* history: something was published while handlers subscribed

vars == <<subscribed, writer, pub, holder, unacked, run, outcome, early>>

-----------------------------------------------------------------------------
Publication == [at : {"Idle", "ReadLock", "TopicLock", "Acks"},
                topic : Topics \cup {Nil}]

NotPublishing == [at |-> "Idle", topic |-> Nil]

Execution == [at : {"Idle", "Work", "Emit", "Backoff", "Park"},
              attempt : 0..(MaxRetries + 1)]

Waiting == [at |-> "Idle", attempt |-> 0]

Init ==
  /\ subscribed = {}
  /\ writer = Nil
  /\ pub = [c \in Callers |-> NotPublishing]
  /\ holder = [t \in Topics |-> Nil]
  /\ unacked = [t \in Topics |-> {}]
  /\ run = [h \in Handlers |-> Waiting]
  /\ outcome = [h \in Handlers |-> "none"]
  /\ early = FALSE

Publishing(c) == pub[c].at # "Idle"
Running == subscribed = Handlers
Subscribers(t) == {h \in subscribed : TopicOf[h] = t}

\* The read lock of the subscriber list is held from there to the end of Publish.
Reading(c) == pub[c].at \in {"TopicLock", "Acks"}

Call(c, t) == pub' = [pub EXCEPT ![c] = [at |-> "ReadLock", topic |-> t]]

-----------------------------------------------------------------------------
(* Publish. *)

\* The server and the scheduled jobs run while the router still subscribes.
Publish(r, t) ==
  /\ ~Publishing(r)
  /\ Call(r, t)
  /\ early' = (early \/ ~Running)
  /\ UNCHANGED <<subscribed, writer, holder, unacked, run, outcome>>

\* A waiting writer keeps new readers out.
LockSubscribers(c) ==
  /\ pub[c].at = "ReadLock"
  /\ writer = Nil
  /\ pub' = [pub EXCEPT ![c].at = "TopicLock"]
  /\ UNCHANGED <<subscribed, writer, holder, unacked, run, outcome, early>>

\* One message of a topic at a time, to everyone subscribed by now.
Send(c) ==
  LET t == pub[c].topic IN
  /\ pub[c].at = "TopicLock"
  /\ holder[t] = Nil
  /\ holder' = [holder EXCEPT ![t] = c]
  /\ unacked' = [unacked EXCEPT ![t] = Subscribers(t)]
  /\ pub' = [pub EXCEPT ![c].at = "Acks"]
  /\ outcome' = [h \in Handlers |->
                   IF h = c /\ run[h].at = "Park" THEN "parked" ELSE outcome[h]]
  /\ UNCHANGED <<subscribed, writer, run, early>>

\* The history of a message ends with it.
Forget(t) == outcome' = [h \in Handlers |->
                           IF TopicOf[h] = t THEN "none" ELSE outcome[h]]

Return(c) ==
  LET t == pub[c].topic IN
  /\ pub[c].at = "Acks"
  /\ unacked[t] = {}
  /\ holder' = [holder EXCEPT ![t] = Nil]
  /\ pub' = [pub EXCEPT ![c] = NotPublishing]
  /\ Forget(t)
  /\ UNCHANGED <<subscribed, writer, unacked, run, early>>

-----------------------------------------------------------------------------
(* A handler and its middleware: dead letter outside, then retry, then recovery *)
(* of panics, which count as errors.                                            *)

Ack(h) ==
  /\ unacked' = [unacked EXCEPT ![TopicOf[h]] = @ \ {h}]
  /\ run' = [run EXCEPT ![h] = Waiting]

Receive(h) ==
  /\ run[h].at = "Idle"
  /\ h \in unacked[TopicOf[h]]
  /\ run' = [run EXCEPT ![h] = [at |-> "Work", attempt |-> 1]]
  /\ UNCHANGED <<subscribed, writer, pub, holder, unacked, outcome, early>>

\* Mutant of Emit: the event a handler consumed is announced again.
EmitAgain(h) ==
  /\ run[h].at = "Work"
  /\ Emits[h] # Nil
  /\ Call(h, TopicOf[h])
  /\ run' = [run EXCEPT ![h].at = "Emit"]
  /\ UNCHANGED <<subscribed, writer, holder, unacked, outcome, early>>

\* The service commits its change and announces it from within the handler.
Emit(h) ==
  /\ run[h].at = "Work"
  /\ Emits[h] # Nil
  /\ Call(h, Emits[h])
  /\ run' = [run EXCEPT ![h].at = "Emit"]
  /\ UNCHANGED <<subscribed, writer, holder, unacked, outcome, early>>

\* With or without an announcement: an event about an unknown order is skipped.
Succeed(h) ==
  /\ run[h].at \in {"Work", "Emit"}
  /\ ~Publishing(h)
  /\ Ack(h)
  /\ outcome' = [outcome EXCEPT ![h] = "handled"]
  /\ UNCHANGED <<subscribed, writer, pub, holder, early>>

\* Mutant of Retry: the attempts are not counted.
RetryForever(h) ==
  /\ run[h].at = "Work"
  /\ run' = [run EXCEPT ![h] = [at |-> "Backoff", attempt |-> 1]]
  /\ outcome' = [outcome EXCEPT ![h] = "failed"]
  /\ UNCHANGED <<subscribed, writer, pub, holder, unacked, early>>

\* ShouldRetry: the error is transient and retries are left.
Retry(h) ==
  /\ run[h].at = "Work"
  /\ run[h].attempt <= MaxRetries
  /\ run' = [run EXCEPT ![h].at = "Backoff"]
  /\ outcome' = [outcome EXCEPT ![h] = "failed"]
  /\ UNCHANGED <<subscribed, writer, pub, holder, unacked, early>>

Again(h) ==
  /\ run[h].at = "Backoff"
  /\ run' = [run EXCEPT ![h] = [at |-> "Work", attempt |-> @.attempt + 1]]
  /\ UNCHANGED <<subscribed, writer, pub, holder, unacked, outcome, early>>

\* Mutant of Park: the error is swallowed without a dead letter.
DropFailed(h) ==
  /\ run[h].at = "Work"
  /\ DeadLetter[TopicOf[h]] # Nil
  /\ Ack(h)
  /\ outcome' = [outcome EXCEPT ![h] = "failed"]
  /\ UNCHANGED <<subscribed, writer, pub, holder, early>>

\* Not retriable, or the last attempt: on to the dead-letter topic.
Park(h) ==
  /\ run[h].at = "Work"
  /\ DeadLetter[TopicOf[h]] # Nil
  /\ Call(h, DeadLetter[TopicOf[h]])
  /\ run' = [run EXCEPT ![h].at = "Park"]
  /\ outcome' = [outcome EXCEPT ![h] = "failed"]
  /\ UNCHANGED <<subscribed, writer, holder, unacked, early>>

\* Mutant of Parked: the error is passed on although the message is parked.
ParkedRefused(h) ==
  /\ run[h].at = "Park"
  /\ ~Publishing(h)
  /\ run' = [run EXCEPT ![h] = Waiting]
  /\ UNCHANGED <<subscribed, writer, pub, holder, unacked, outcome, early>>

Parked(h) ==
  /\ run[h].at = "Park"
  /\ ~Publishing(h)
  /\ Ack(h)
  /\ UNCHANGED <<subscribed, writer, pub, holder, outcome, early>>

\* No dead letter of a dead letter: the message is refused and sent again.
Nack(h) ==
  /\ run[h].at = "Work"
  /\ DeadLetter[TopicOf[h]] = Nil
  /\ run' = [run EXCEPT ![h] = Waiting]
  /\ outcome' = [outcome EXCEPT ![h] = "failed"]
  /\ UNCHANGED <<subscribed, writer, pub, holder, unacked, early>>

-----------------------------------------------------------------------------
(* Subscription, one handler after the other: Router.Run, or AddHandler later. *)

WantSubscribe(h) ==
  /\ writer = Nil
  /\ h \notin subscribed
  /\ writer' = h
  /\ UNCHANGED <<subscribed, pub, holder, unacked, run, outcome, early>>

\* The write lock is granted when the last reader has left; on release the
\* readers that waited for it go first.
Subscribe ==
  /\ writer # Nil
  /\ \A c \in Callers : ~Reading(c)
  /\ subscribed' = subscribed \cup {writer}
  /\ writer' = Nil
  /\ pub' = [c \in Callers |-> IF pub[c].at = "ReadLock"
                               THEN [pub[c] EXCEPT !.at = "TopicLock"] ELSE pub[c]]
  /\ UNCHANGED <<holder, unacked, run, outcome, early>>

-----------------------------------------------------------------------------
Handle(h) == Receive(h) \/ Emit(h) \/ Succeed(h) \/ Retry(h) \/ Again(h)
             \/ Park(h) \/ Parked(h) \/ Nack(h)

\* What a goroutine does once the locks it needs are free.
Step(c) == LockSubscribers(c) \/ Return(c) \/ (c \in Handlers /\ Handle(c))

Router == Subscribe \/ \E h \in Handlers : WantSubscribe(h)

Next ==
  \/ \E r \in Requests : \E t \in Announces[r] : Publish(r, t)
  \/ \E c \in Callers : Send(c) \/ Step(c)
  \/ Router

\* The scheduler runs what can run; sync.Mutex hands the lock to a goroutine that
\* has waited for a millisecond, however many others compete for it.
Fairness ==
  /\ \A c \in Callers : WF_vars(Step(c)) /\ SF_vars(Send(c))
  /\ WF_vars(Router)

Spec == Init /\ [][Next]_vars /\ Fairness

-----------------------------------------------------------------------------
(* Properties. *)

\* Points and topics stay within the types GoChannel and the router give them.
TypeOK ==
  /\ subscribed \subseteq Handlers
  /\ writer \in Handlers \cup {Nil}
  /\ pub \in [Callers -> Publication]
  /\ holder \in [Topics -> Callers \cup {Nil}]
  /\ unacked \in [Topics -> SUBSET Handlers]
  /\ run \in [Handlers -> Execution]
  /\ outcome \in [Handlers -> {"none", "failed", "handled", "parked"}]
  /\ early \in BOOLEAN

\* When Publish returns, every subscriber it reached has handled the message or
\* its dead letter has been taken by the dead-letter topic: a failing handler
\* loses nothing, neither for itself nor for the others.
SettledOnReturn ==
  [][\A c \in Callers :
       pub[c].at = "Acks" /\ pub'[c].at = "Idle" =>
         \A h \in Subscribers(pub[c].topic) : outcome[h] \in {"handled", "parked"}]_vars

\* Apart from the retries, a handler sees a message of an ordinary topic once:
\* neither parking it nor the failure of another subscriber has it delivered again.
HandledOnce ==
  [][\A h \in Handlers :
       /\ run[h].at = "Idle" /\ run'[h].at = "Work"
       /\ DeadLetter[TopicOf[h]] # Nil
       => outcome[h] = "none"]_vars

\* What c waits for has happened.
CanMove(c) ==
  CASE pub[c].at = "ReadLock"  -> writer = Nil
    [] pub[c].at = "TopicLock" -> holder[pub[c].topic] = Nil
    [] pub[c].at = "Acks"      -> \/ unacked[pub[c].topic] = {}
                                  \/ \E h \in unacked[pub[c].topic] : ~Publishing(h)

\* Publishers wait for handlers, which wait inside Publish in turn, for locks and
\* for further handlers; as long as nothing was published while the router was
\* subscribing, they never all wait for each other.
NoWaitCycle ==
  ~early /\ (\E c \in Callers : Publishing(c))
    => \E c \in Callers : Publishing(c) /\ CanMove(c)

\* So every request gets its Publish over with, whatever errors the handlers it waits
\* for and their handlers run into, unless a subscriber of a dead-letter topic
\* refuses its message for ever.
PublishReturns ==
  <>[][\A h \in Handlers : ~Nack(h)]_vars =>
    \A r \in Requests : []<>(~Publishing(r) \/ early)

\* What documentation says of it: events are dispatched asynchronously.
DispatchReturns ==
  <>[][\A h \in Handlers : ~Nack(h)]_vars =>
    \A r \in Requests : []<>~Publishing(r)

-----------------------------------------------------------------------------
(* The inductive invariant. *)

\* The topic lock is held by who waits for acknowledgements, and by nobody else.
HolderWaits ==
  \A t \in Topics : \A c \in Callers :
    holder[t] = c <=> pub[c].at = "Acks" /\ pub[c].topic = t

PublicationsMatch ==
  \A c \in Callers : pub[c].topic = Nil <=> ~Publishing(c)

\* Only a message in flight is unacknowledged, and by subscribers of its topic.
InFlight ==
  \A t \in Topics : /\ holder[t] = Nil => unacked[t] = {}
                    /\ unacked[t] \subseteq Subscribers(t)

\* A handler works on a message whose publisher still waits for it, tries again while
\* retries are left, and publishes only its announcement or its dead letter.
WorksForPublisher ==
  \A h \in Handlers :
    /\ run[h].at # "Idle" => h \in unacked[TopicOf[h]]
    /\ run[h].at = "Backoff" => run[h].attempt <= MaxRetries
    /\ Publishing(h) => \/ run[h].at = "Emit" /\ pub[h].topic = Emits[h]
                        \/ run[h].at = "Park" /\ pub[h].topic = DeadLetter[TopicOf[h]]

\* Without early publications nobody published before the router was up.
QuietStart ==
  ~early /\ ~Running => \A c \in Callers : ~Publishing(c)

WriterNew == writer # Nil => writer \notin subscribed

\* What the outcome of h says while a message of its topic is in flight.
Outcome(h) ==
  LET t == TopicOf[h] IN
  /\ holder[t] = Nil \/ h \notin subscribed => outcome[h] = "none"
  /\ holder[t] # Nil /\ h \in subscribed =>
       /\ h \notin unacked[t] => outcome[h] \in {"handled", "parked"}
       /\ h \in unacked[t] /\ run[h].at = "Idle" =>
            outcome[h] = "none" \/ DeadLetter[t] = Nil
       /\ run[h].at = "Park" /\ (~Publishing(h) \/ pub[h].at = "Acks") =>
            outcome[h] = "parked"

OutcomesMatch == \A h \in Handlers : Outcome(h)

\* Locks, messages in flight and handlers at work agree.
BusInv ==
  /\ TypeOK
  /\ HolderWaits /\ PublicationsMatch /\ InFlight /\ WorksForPublisher
  /\ QuietStart /\ WriterNew /\ OutcomesMatch

===============================================================================
