--------------------------- MODULE EventBusProofs ----------------------------
(* Proofs about what the core module gives to the others: EventBus, for any     *)
(* topics, handlers, requests and number of retries, and any wiring in which    *)
(* handlers do not publish round in a circle; and RecordSearch, for any rows,   *)
(* requests and limits.                                                         *)
EXTENDS EventBus, RecordSearch, SequenceTheorems, FiniteSetTheorems, TLAPS

-----------------------------------------------------------------------------
(* Consequences of the invariant used in several places. *)

\* A topic that has a subscriber at work or yet to acknowledge has a publisher.
LEMMA InFlightHasHolder ==
  ASSUME BusInv, NEW t \in Topics, unacked[t] # {}
  PROVE  /\ holder[t] \in Callers
         /\ pub[holder[t]].at = "Acks" /\ pub[holder[t]].topic = t
  BY DEF BusInv, TypeOK, InFlight, HolderWaits

\* A handler at work was subscribed, and somebody waits for it.
LEMMA AtWork ==
  ASSUME BusInv, NEW h \in Handlers, run[h].at # "Idle"
  PROVE  /\ h \in unacked[TopicOf[h]]
         /\ h \in subscribed
         /\ holder[TopicOf[h]] \in Callers
         /\ Publishing(holder[TopicOf[h]])
         /\ early \/ Running
<1>1. TopicOf[h] \in Topics
  BY BusAssumption
<1>2. h \in unacked[TopicOf[h]]
  BY DEF BusInv, WorksForPublisher
<1>3. h \in subscribed
  BY <1>1, <1>2 DEF BusInv, InFlight, Subscribers
<1> DEFINE t == TopicOf[h]
<1>a. t \in Topics /\ unacked[t] # {}
  BY <1>1, <1>2
<1>b. holder[t] \in Callers /\ pub[holder[t]].at = "Acks"
  BY <1>a, InFlightHasHolder
<1>4. holder[TopicOf[h]] \in Callers /\ Publishing(holder[TopicOf[h]])
  BY <1>b DEF Publishing
<1>5. early \/ Running
  BY <1>4 DEF BusInv, QuietStart
<1> QED BY <1>2, <1>3, <1>4, <1>5

-----------------------------------------------------------------------------
(* Preservation, one lemma per action. *)

LEMMA PublishKeeps ==
  ASSUME BusInv, NEW r \in Requests, NEW t \in Topics, Publish(r, t)
  PROVE  BusInv'
<1> USE BusAssumption
<1>1. r \in Callers /\ r \notin Handlers
  BY DEF Callers
<1>2. /\ pub' \in [Callers -> Publication]
      /\ pub'[r] = [at |-> "ReadLock", topic |-> t]
      /\ \A c \in Callers \ {r} : pub'[c] = pub[c]
      /\ pub[r].at = "Idle"
  BY <1>1 DEF Publish, Call, BusInv, TypeOK, Publication, Publishing
<1>3. TypeOK'
  BY <1>2 DEF Publish, BusInv, TypeOK
<1>4. HolderWaits' /\ PublicationsMatch'
  BY <1>1, <1>2 DEF Publish, BusInv, HolderWaits, PublicationsMatch, Publishing
<1>5. InFlight' /\ WriterNew'
  BY DEF Publish, BusInv, InFlight, WriterNew, Subscribers
<1>6. WorksForPublisher' /\ OutcomesMatch'
  BY <1>1, <1>2 DEF Publish, BusInv, WorksForPublisher, OutcomesMatch, Outcome, Publishing,
                    Callers, Subscribers
<1>7. QuietStart'
  BY DEF Publish, Running, QuietStart, BusInv, TypeOK
<1> QED BY <1>3, <1>4, <1>5, <1>6, <1>7 DEF BusInv

LEMMA LockSubscribersKeeps ==
  ASSUME BusInv, NEW c \in Callers, LockSubscribers(c)
  PROVE  BusInv'
<1> USE BusAssumption
<1>1. /\ pub' \in [Callers -> Publication]
      /\ pub'[c].at = "TopicLock" /\ pub'[c].topic = pub[c].topic
      /\ \A d \in Callers \ {c} : pub'[d] = pub[d]
      /\ pub[c].at = "ReadLock"
  BY DEF LockSubscribers, BusInv, TypeOK, Publication
<1>2. TypeOK'
  BY <1>1 DEF LockSubscribers, BusInv, TypeOK
<1>3. HolderWaits' /\ PublicationsMatch'
  BY <1>1 DEF LockSubscribers, BusInv, HolderWaits, PublicationsMatch, Publishing
<1>4. InFlight' /\ WriterNew' /\ QuietStart'
  BY <1>1 DEF LockSubscribers, BusInv, InFlight, WriterNew, Subscribers, QuietStart,
              Running, Publishing
<1>5. WorksForPublisher' /\ OutcomesMatch'
  BY <1>1 DEF LockSubscribers, BusInv, WorksForPublisher, OutcomesMatch, Outcome, Publishing,
              Callers, Subscribers
<1> QED BY <1>2, <1>3, <1>4, <1>5 DEF BusInv

LEMMA SendKeeps ==
  ASSUME BusInv, NEW c \in Callers, Send(c)
  PROVE  BusInv'
<1> USE BusAssumption
<1> DEFINE t == pub[c].topic
<1>1. /\ t \in Topics /\ holder[t] = Nil /\ unacked[t] = {}
      /\ pub[c].at = "TopicLock"
  BY DEF Send, BusInv, TypeOK, Publication, PublicationsMatch, Publishing, InFlight
<1>2. /\ pub' \in [Callers -> Publication]
      /\ pub'[c] = [at |-> "Acks", topic |-> t]
      /\ \A d \in Callers \ {c} : pub'[d] = pub[d]
  BY <1>1 DEF Send, BusInv, TypeOK, Publication
<1>3. /\ holder' \in [Topics -> Callers \cup {Nil}] /\ holder'[t] = c
      /\ unacked' \in [Topics -> SUBSET Handlers]
      /\ unacked'[t] = Subscribers(t)
      /\ \A u \in Topics \ {t} : holder'[u] = holder[u] /\ unacked'[u] = unacked[u]
  BY <1>1 DEF Send, BusInv, TypeOK, Subscribers
<1>4. /\ \A h \in Handlers : outcome'[h] = IF h = c /\ run[h].at = "Park"
                                          THEN "parked" ELSE outcome[h]
      /\ outcome' \in [Handlers -> {"none", "failed", "handled", "parked"}]
  BY DEF Send, BusInv, TypeOK
<1>5. UNCHANGED <<subscribed, writer, run, early>>
  BY DEF Send
<1>6. \A h \in Handlers : TopicOf[h] = t => run[h].at = "Idle" /\ outcome[h] = "none"
  BY <1>1, AtWork DEF BusInv, OutcomesMatch, Outcome
<1> HIDE DEF t
<1>7. TypeOK'
  BY <1>2, <1>3, <1>4, <1>5 DEF BusInv, TypeOK
<1>8. HolderWaits'
  <2> SUFFICES ASSUME NEW u \in Topics, NEW d \in Callers
               PROVE  holder'[u] = d <=> pub'[d].at = "Acks" /\ pub'[d].topic = u
    BY DEF HolderWaits
  <2>1. holder[u] = d <=> pub[d].at = "Acks" /\ pub[d].topic = u
    BY DEF BusInv, HolderWaits
  <2>2. CASE u = t
    BY <1>1, <1>2, <1>3, <2>1, <2>2 DEF Callers
  <2>3. CASE u # t
    BY <1>1, <1>2, <1>3, <2>1, <2>3
  <2> QED BY <2>2, <2>3
<1>8a. PublicationsMatch'
  BY <1>1, <1>2 DEF BusInv, PublicationsMatch, Publishing
<1>9. InFlight'
  BY <1>1, <1>2, <1>3, <1>5 DEF BusInv, InFlight, Subscribers, Callers
<1>9a. WriterNew' /\ QuietStart'
  BY <1>1, <1>2, <1>5 DEF BusInv, WriterNew, QuietStart, Running, Publishing
<1>10. WorksForPublisher'
  BY <1>1, <1>2, <1>3, <1>5, <1>6 DEF BusInv, WorksForPublisher, Publishing, Callers, t
<1>11. OutcomesMatch'
  <2> SUFFICES ASSUME NEW h \in Handlers PROVE Outcome(h)'
    BY DEF OutcomesMatch
  <2>1. Outcome(h) /\ TopicOf[h] \in Topics
    BY DEF BusInv, OutcomesMatch
  <2>2. CASE TopicOf[h] = t
    BY <1>1, <1>2, <1>3, <1>4, <1>5, <1>6, <2>2 DEF Outcome, Subscribers, Callers
  <2>3. CASE TopicOf[h] # t /\ h = c
    <3>1. run[h].at = "Park" => h \in unacked[TopicOf[h]] /\ h \in subscribed
                              /\ holder[TopicOf[h]] # Nil
      BY AtWork DEF Callers
    <3>2. pub'[h].at = "Acks" /\ run' = run /\ subscribed' = subscribed
      BY <1>2, <1>5, <2>3
    <3>3. /\ holder'[TopicOf[h]] = holder[TopicOf[h]]
          /\ unacked'[TopicOf[h]] = unacked[TopicOf[h]]
      BY <1>3, <2>1, <2>3
    <3>4. outcome'[h] = IF run[h].at = "Park" THEN "parked" ELSE outcome[h]
      BY <1>4, <2>3
    <3> QED BY <2>1, <3>1, <3>2, <3>3, <3>4 DEF Outcome, Publishing
  <2>4. CASE TopicOf[h] # t /\ h # c
    BY <1>2, <1>3, <1>4, <1>5, <2>1, <2>4 DEF Outcome, Publishing, Callers
  <2> QED BY <2>2, <2>3, <2>4
<1> QED BY <1>7, <1>8, <1>8a, <1>9, <1>9a, <1>10, <1>11 DEF BusInv

LEMMA ReturnKeeps ==
  ASSUME BusInv, NEW c \in Callers, Return(c)
  PROVE  BusInv'
<1> USE BusAssumption
<1> DEFINE t == pub[c].topic
<1>1. /\ t \in Topics /\ holder[t] = c /\ unacked[t] = {}
      /\ pub[c].at = "Acks"
  BY DEF Return, BusInv, TypeOK, Publication, PublicationsMatch, Publishing, HolderWaits
<1>2. /\ pub' \in [Callers -> Publication]
      /\ pub'[c] = NotPublishing
      /\ \A d \in Callers \ {c} : pub'[d] = pub[d]
  BY <1>1 DEF Return, BusInv, TypeOK, Publication, NotPublishing
<1>3. /\ holder' \in [Topics -> Callers \cup {Nil}] /\ holder'[t] = Nil
      /\ \A u \in Topics \ {t} : holder'[u] = holder[u]
  BY <1>1 DEF Return, BusInv, TypeOK
<1>4. /\ \A h \in Handlers : outcome'[h] = IF TopicOf[h] = t THEN "none" ELSE outcome[h]
      /\ outcome' \in [Handlers -> {"none", "failed", "handled", "parked"}]
  BY DEF Return, Forget, BusInv, TypeOK
<1>5. UNCHANGED <<subscribed, writer, unacked, run, early>>
  BY DEF Return
<1>6. \A h \in Handlers : TopicOf[h] = t => run[h].at = "Idle"
  BY <1>1, AtWork
<1> HIDE DEF t
<1>7. TypeOK'
  BY <1>2, <1>3, <1>4, <1>5 DEF BusInv, TypeOK
<1>8. HolderWaits' /\ PublicationsMatch'
  BY <1>1, <1>2, <1>3 DEF BusInv, HolderWaits, PublicationsMatch, Publishing,
                          NotPublishing, Callers
<1>9. InFlight' /\ WriterNew' /\ QuietStart'
  BY <1>1, <1>2, <1>3, <1>5 DEF BusInv, InFlight, WriterNew, Subscribers,
                               QuietStart, Running, Publishing, NotPublishing
<1>10. WorksForPublisher'
  BY <1>1, <1>2, <1>5 DEF BusInv, WorksForPublisher, Publishing, Callers, NotPublishing
<1>11. OutcomesMatch'
  BY <1>1, <1>2, <1>3, <1>4, <1>5, <1>6
     DEF BusInv, OutcomesMatch, Outcome, WorksForPublisher, Publishing, Callers, Subscribers,
         NotPublishing
<1> QED BY <1>7, <1>8, <1>9, <1>10, <1>11 DEF BusInv

\* A handler's own steps: only its attempt, its publication and its outcome change,
\* it starts and goes on working for the publisher that waits for it.
LEMMA WorkStep ==
  ASSUME BusInv, NEW h \in Handlers, h \in unacked[TopicOf[h]],
         UNCHANGED <<subscribed, writer, holder, unacked, early>>,
         run' \in [Handlers -> Execution],
         \A g \in Handlers \ {h} : run'[g] = run[g] /\ outcome'[g] = outcome[g],
         outcome' \in [Handlers -> {"none", "failed", "handled", "parked"}],
         pub' = pub \/ \E t \in Topics :
           /\ Call(h, t)
           /\ \/ run'[h].at = "Emit" /\ t = Emits[h]
              \/ run'[h].at = "Park" /\ t = DeadLetter[TopicOf[h]],
         ~Publishing(h),
         run'[h].at = "Park" => pub' # pub,
         run'[h].at = "Backoff" => run'[h].attempt <= MaxRetries,
         run'[h].at = "Idle" => outcome'[h] = "none" \/ DeadLetter[TopicOf[h]] = Nil
  PROVE  BusInv'
<1> USE BusAssumption
<1> DEFINE u == TopicOf[h]
<1>1. u \in Topics /\ h \in Callers /\ pub[h].at = "Idle"
  BY DEF Callers, Publishing
<1>2. holder[u] \in Callers /\ pub[holder[u]].at = "Acks" /\ h \in subscribed
  BY <1>1, InFlightHasHolder DEF BusInv, InFlight, Subscribers
<1>3. early \/ Running
  BY <1>2 DEF BusInv, QuietStart, Publishing
<1>4. /\ pub' \in [Callers -> Publication]
      /\ \A c \in Callers \ {h} : pub'[c] = pub[c]
      /\ pub'[h].at # "Acks"
      /\ pub'[h].topic = Nil <=> pub'[h].at = "Idle"
      /\ pub'[h].at # "Idle" =>
           \/ run'[h].at = "Emit" /\ pub'[h].topic = Emits[h]
           \/ run'[h].at = "Park" /\ pub'[h].topic = DeadLetter[TopicOf[h]]
      /\ run'[h].at = "Park" => pub'[h].at = "ReadLock"
  <2>1. CASE pub' = pub
    BY <1>1, <2>1 DEF BusInv, TypeOK, PublicationsMatch, Publishing
  <2>2. CASE \E t \in Topics : /\ Call(h, t)
                               /\ \/ run'[h].at = "Emit" /\ t = Emits[h]
                                  \/ run'[h].at = "Park" /\ t = DeadLetter[TopicOf[h]]
    <3>1. PICK t \in Topics : /\ Call(h, t)
                              /\ \/ run'[h].at = "Emit" /\ t = Emits[h]
                                 \/ run'[h].at = "Park" /\ t = DeadLetter[TopicOf[h]]
      BY <2>2
    <3>2. /\ pub' \in [Callers -> Publication]
          /\ \A c \in Callers \ {h} : pub'[c] = pub[c]
          /\ pub'[h].at = "ReadLock" /\ pub'[h].topic = t
      BY <1>1, <3>1 DEF Call, BusInv, TypeOK, Publication
    <3> QED BY <3>1, <3>2
  <2> QED BY <2>1, <2>2
<1>5. TypeOK'
  BY <1>4 DEF BusInv, TypeOK
<1>6. HolderWaits' /\ PublicationsMatch'
  BY <1>1, <1>4 DEF BusInv, HolderWaits, PublicationsMatch, Publishing
<1>7. InFlight' /\ WriterNew' /\ QuietStart'
  BY <1>3 DEF BusInv, InFlight, WriterNew, QuietStart, Subscribers, Running
<1>8. WorksForPublisher'
  BY <1>4 DEF BusInv, WorksForPublisher, Publishing, Callers
<1>9. OutcomesMatch'
  <2> SUFFICES ASSUME NEW g \in Handlers PROVE Outcome(g)'
    BY DEF OutcomesMatch
  <2>1. Outcome(g)
    BY DEF BusInv, OutcomesMatch
  <2>2. CASE g = h
    BY <1>1, <1>2, <1>4, <2>1, <2>2 DEF Outcome, Publishing, Callers
  <2>3. CASE g # h
    BY <1>4, <2>1, <2>3 DEF Outcome, Publishing, Callers
  <2> QED BY <2>2, <2>3
<1> QED BY <1>5, <1>6, <1>7, <1>8, <1>9 DEF BusInv

\* The handler is done and acknowledges.
LEMMA AckStep ==
  ASSUME BusInv, NEW h \in Handlers, h \in unacked[TopicOf[h]], Ack(h),
         UNCHANGED <<subscribed, writer, pub, holder, early>>,
         ~Publishing(h),
         \A g \in Handlers \ {h} : outcome'[g] = outcome[g],
         outcome' \in [Handlers -> {"none", "failed", "handled", "parked"}],
         outcome'[h] \in {"handled", "parked"}
  PROVE  BusInv'
<1> USE BusAssumption
<1> DEFINE u == TopicOf[h]
<1>1. u \in Topics /\ h \in Callers
  BY DEF Callers
<1>2. holder[u] \in Callers /\ h \in subscribed
  BY <1>1, InFlightHasHolder DEF BusInv, InFlight, Subscribers
<1>3. /\ unacked' \in [Topics -> SUBSET Handlers]
      /\ unacked'[u] = unacked[u] \ {h}
      /\ \A t \in Topics \ {u} : unacked'[t] = unacked[t]
  BY <1>1 DEF Ack, BusInv, TypeOK
<1>4. /\ run' \in [Handlers -> Execution]
      /\ run'[h].at = "Idle"
      /\ \A g \in Handlers \ {h} : run'[g] = run[g]
  BY DEF Ack, BusInv, TypeOK, Execution, Waiting
<1>5. TypeOK'
  BY <1>3, <1>4 DEF BusInv, TypeOK
<1>6. HolderWaits' /\ PublicationsMatch' /\ WriterNew' /\ QuietStart'
  BY DEF BusInv, HolderWaits, PublicationsMatch, Publishing, WriterNew, QuietStart,
         Running
<1> HIDE DEF u
<1>7. InFlight'
  <2> SUFFICES ASSUME NEW t \in Topics
               PROVE  /\ holder[t] = Nil => unacked'[t] = {}
                      /\ unacked'[t] \subseteq Subscribers(t)
    BY DEF InFlight, Subscribers
  <2>1. (holder[t] = Nil => unacked[t] = {}) /\ unacked[t] \subseteq Subscribers(t)
    BY DEF BusInv, InFlight
  <2> QED BY <1>3, <2>1
<1>8. WorksForPublisher'
  BY <1>3, <1>4 DEF BusInv, WorksForPublisher, Publishing, u
<1>9. OutcomesMatch'
  <2> SUFFICES ASSUME NEW g \in Handlers PROVE Outcome(g)'
    BY DEF OutcomesMatch
  <2>1. Outcome(g) /\ TopicOf[g] \in Topics
    BY DEF BusInv, OutcomesMatch
  <2>2. CASE g = h
    BY <1>1, <1>2, <1>3, <1>4, <2>1, <2>2 DEF Outcome, Publishing, Callers, u
  <2>3. CASE g # h
    BY <1>3, <1>4, <2>1, <2>3 DEF Outcome, Publishing, Callers
  <2> QED BY <2>2, <2>3
<1> QED BY <1>5, <1>6, <1>7, <1>8, <1>9 DEF BusInv

LEMMA ReceiveKeeps ==
  ASSUME BusInv, NEW h \in Handlers, Receive(h)
  PROVE  BusInv'
<1>1. /\ run' \in [Handlers -> Execution]
      /\ run'[h].at = "Work"
      /\ \A g \in Handlers \ {h} : run'[g] = run[g]
  BY BusAssumption DEF Receive, BusInv, TypeOK, Execution
<1>2. ~Publishing(h)
  BY DEF Receive, BusInv, WorksForPublisher
<1> QED BY <1>1, <1>2, WorkStep DEF Receive, BusInv, TypeOK

LEMMA EmitKeeps ==
  ASSUME BusInv, NEW h \in Handlers, Emit(h)
  PROVE  BusInv'
<1>1. /\ run' \in [Handlers -> Execution]
      /\ run'[h].at = "Emit"
      /\ \A g \in Handlers \ {h} : run'[g] = run[g]
  BY DEF Emit, BusInv, TypeOK, Execution
<1>2. ~Publishing(h) /\ h \in unacked[TopicOf[h]]
  BY DEF Emit, BusInv, WorksForPublisher
<1>3. \E t \in Topics : Call(h, t) /\ run'[h].at = "Emit" /\ t = Emits[h]
  BY <1>1, BusAssumption DEF Emit
<1> QED BY <1>1, <1>2, <1>3, WorkStep DEF Emit, BusInv, TypeOK

LEMMA SucceedKeeps ==
  ASSUME BusInv, NEW h \in Handlers, Succeed(h)
  PROVE  BusInv'
<1>1. h \in unacked[TopicOf[h]]
  BY DEF Succeed, BusInv, WorksForPublisher
<1>2. /\ outcome' \in [Handlers -> {"none", "failed", "handled", "parked"}]
      /\ outcome'[h] = "handled"
      /\ \A g \in Handlers \ {h} : outcome'[g] = outcome[g]
  BY DEF Succeed, BusInv, TypeOK
<1> QED BY <1>1, <1>2, AckStep DEF Succeed

LEMMA RetryKeeps ==
  ASSUME BusInv, NEW h \in Handlers, Retry(h)
  PROVE  BusInv'
<1>1. /\ run' \in [Handlers -> Execution]
      /\ run'[h].at = "Backoff" /\ run'[h].attempt = run[h].attempt
      /\ \A g \in Handlers \ {h} : run'[g] = run[g]
  BY DEF Retry, BusInv, TypeOK, Execution
<1>2. ~Publishing(h) /\ h \in unacked[TopicOf[h]]
  BY DEF Retry, BusInv, WorksForPublisher
<1>3. /\ outcome' \in [Handlers -> {"none", "failed", "handled", "parked"}]
      /\ \A g \in Handlers \ {h} : outcome'[g] = outcome[g]
  BY DEF Retry, BusInv, TypeOK
<1> QED BY <1>1, <1>2, <1>3, WorkStep DEF Retry

LEMMA AgainKeeps ==
  ASSUME BusInv, NEW h \in Handlers, Again(h)
  PROVE  BusInv'
<1>1. /\ run' \in [Handlers -> Execution]
      /\ run'[h].at = "Work"
      /\ \A g \in Handlers \ {h} : run'[g] = run[g]
  BY BusAssumption DEF Again, BusInv, TypeOK, Execution, WorksForPublisher
<1>2. ~Publishing(h) /\ h \in unacked[TopicOf[h]]
  BY DEF Again, BusInv, WorksForPublisher
<1> QED BY <1>1, <1>2, WorkStep DEF Again, BusInv, TypeOK

LEMMA ParkKeeps ==
  ASSUME BusInv, NEW h \in Handlers, Park(h)
  PROVE  BusInv'
<1>1. /\ run' \in [Handlers -> Execution]
      /\ run'[h].at = "Park"
      /\ \A g \in Handlers \ {h} : run'[g] = run[g]
  BY DEF Park, BusInv, TypeOK, Execution
<1>2. ~Publishing(h) /\ h \in unacked[TopicOf[h]] /\ h \in Callers
  BY DEF Park, BusInv, WorksForPublisher, Callers
<1>3. /\ outcome' \in [Handlers -> {"none", "failed", "handled", "parked"}]
      /\ \A g \in Handlers \ {h} : outcome'[g] = outcome[g]
  BY DEF Park, BusInv, TypeOK
<1>4. \E t \in Topics : /\ Call(h, t)
                        /\ run'[h].at = "Park" /\ t = DeadLetter[TopicOf[h]]
  BY <1>1, BusAssumption DEF Park
<1>5. pub'[h].at = "ReadLock"
  BY <1>2 DEF Park, Call, BusInv, TypeOK
<1>6. pub' # pub
  BY <1>2, <1>5 DEF Publishing
<1> QED BY <1>1, <1>2, <1>3, <1>4, <1>6, WorkStep DEF Park

LEMMA ParkedKeeps ==
  ASSUME BusInv, NEW h \in Handlers, Parked(h)
  PROVE  BusInv'
<1>1. h \in unacked[TopicOf[h]] /\ holder[TopicOf[h]] # Nil /\ h \in subscribed
  BY AtWork, BusAssumption DEF Parked, Callers
<1>2. outcome[h] = "parked"
  BY <1>1 DEF Parked, BusInv, OutcomesMatch, Outcome
<1> QED BY <1>1, <1>2, AckStep DEF Parked, BusInv, TypeOK

LEMMA NackKeeps ==
  ASSUME BusInv, NEW h \in Handlers, Nack(h)
  PROVE  BusInv'
<1>1. /\ run' \in [Handlers -> Execution]
      /\ run'[h].at = "Idle"
      /\ \A g \in Handlers \ {h} : run'[g] = run[g]
  BY BusAssumption DEF Nack, BusInv, TypeOK, Execution, Waiting
<1>2. ~Publishing(h) /\ h \in unacked[TopicOf[h]]
  BY DEF Nack, BusInv, WorksForPublisher
<1>3. /\ outcome' \in [Handlers -> {"none", "failed", "handled", "parked"}]
      /\ \A g \in Handlers \ {h} : outcome'[g] = outcome[g]
  BY DEF Nack, BusInv, TypeOK
<1> QED BY <1>1, <1>2, <1>3, WorkStep DEF Nack

LEMMA WantSubscribeKeeps ==
  ASSUME BusInv, NEW h \in Handlers, WantSubscribe(h)
  PROVE  BusInv'
<1>1. TypeOK' /\ WriterNew'
  BY DEF WantSubscribe, BusInv, TypeOK, WriterNew
<1>2. HolderWaits' /\ PublicationsMatch' /\ WorksForPublisher' /\ QuietStart'
  BY DEF WantSubscribe, BusInv, HolderWaits, PublicationsMatch, WorksForPublisher,
         QuietStart, Publishing, Running
<1>3. InFlight' /\ OutcomesMatch'
  BY DEF WantSubscribe, BusInv, InFlight, Subscribers, OutcomesMatch, Outcome, Publishing
<1> QED BY <1>1, <1>2, <1>3 DEF BusInv

\* The write lock is granted only when no message is in flight.
LEMMA SubscribeKeeps ==
  ASSUME BusInv, Subscribe
  PROVE  BusInv'
<1> USE BusAssumption
<1>1. \A t \in Topics : holder[t] = Nil /\ unacked[t] = {}
  BY DEF Subscribe, Reading, BusInv, HolderWaits, TypeOK, InFlight
<1>2. \A h \in Handlers : run[h].at = "Idle" /\ ~Publishing(h) /\ outcome[h] = "none"
  BY <1>1 DEF BusInv, WorksForPublisher, OutcomesMatch, Outcome
<1>3. \A c \in Callers : /\ pub'[c] \in Publication
                         /\ pub'[c].topic = pub[c].topic
                         /\ pub'[c].at = "Idle" <=> pub[c].at = "Idle"
                         /\ pub'[c].at # "Acks"
  <2> SUFFICES ASSUME NEW c \in Callers
               PROVE  /\ pub'[c] \in Publication
                      /\ pub'[c].topic = pub[c].topic
                      /\ pub'[c].at = "Idle" <=> pub[c].at = "Idle"
                      /\ pub'[c].at # "Acks"
    OBVIOUS
  <2>1. pub[c] \in Publication /\ pub[c].at # "Acks"
    BY DEF Subscribe, Reading, BusInv, TypeOK
  <2>2. CASE pub[c].at = "ReadLock"
    <3>1. pub'[c] = [pub[c] EXCEPT !.at = "TopicLock"]
      BY <2>2 DEF Subscribe
    <3> QED BY <2>1, <2>2, <3>1 DEF Publication
  <2>3. CASE pub[c].at # "ReadLock"
    <3>1. pub'[c] = pub[c]
      BY <2>3 DEF Subscribe
    <3> QED BY <2>1, <3>1
  <2> QED BY <2>2, <2>3
<1>4. pub' \in [Callers -> Publication]
  BY <1>3 DEF Subscribe
<1>5. /\ UNCHANGED <<holder, unacked, run, outcome, early>>
      /\ writer' = Nil /\ subscribed' = subscribed \cup {writer} /\ writer # Nil
  BY DEF Subscribe
<1>6. TypeOK' /\ WriterNew'
  BY <1>4, <1>5 DEF BusInv, TypeOK, WriterNew
<1>7. HolderWaits' /\ PublicationsMatch' /\ InFlight'
  BY <1>1, <1>3, <1>5 DEF BusInv, HolderWaits, PublicationsMatch, InFlight, Publishing,
                          Callers, Subscribers
<1>8. WorksForPublisher' /\ OutcomesMatch'
  BY <1>1, <1>2, <1>3, <1>5 DEF WorksForPublisher, OutcomesMatch, Outcome, Publishing,
                               Callers
<1>9. QuietStart'
  BY <1>3, <1>5 DEF BusInv, TypeOK, QuietStart, Running, Publishing
<1> QED BY <1>6, <1>7, <1>8, <1>9 DEF BusInv

LEMMA StutterKeeps ==
  ASSUME BusInv, UNCHANGED vars
  PROVE  BusInv'
BY DEF vars, BusInv, TypeOK, HolderWaits, PublicationsMatch, InFlight, WorksForPublisher,
       QuietStart, WriterNew, OutcomesMatch, Outcome, Publishing, Subscribers, Running

-----------------------------------------------------------------------------
LEMMA InitBusInv == Init => BusInv
<1> SUFFICES ASSUME Init PROVE BusInv
  OBVIOUS
<1> USE BusAssumption DEF Init
<1>a. NotPublishing \in Publication /\ Waiting \in Execution
  BY DEF Publication, NotPublishing, Execution, Waiting
<1>1. TypeOK
  BY <1>a DEF TypeOK
<1>2. HolderWaits /\ PublicationsMatch /\ WorksForPublisher
  BY DEF HolderWaits, PublicationsMatch, WorksForPublisher, Publishing, NotPublishing,
         Callers, Waiting
<1>3. InFlight /\ QuietStart /\ WriterNew /\ OutcomesMatch
  BY DEF InFlight, Subscribers, QuietStart, Publishing, NotPublishing, WriterNew,
         OutcomesMatch, Outcome, Callers
<1> QED BY <1>1, <1>2, <1>3 DEF BusInv

LEMMA NextBusInv == BusInv /\ [Next]_vars => BusInv'
<1> SUFFICES ASSUME BusInv, [Next]_vars PROVE BusInv'
  OBVIOUS
<1>1. CASE \E r \in Requests : \E t \in Announces[r] : Publish(r, t)
  BY <1>1, PublishKeeps, BusAssumption
<1>2. CASE \E c \in Callers : Send(c) \/ LockSubscribers(c) \/ Return(c)
  BY <1>2, SendKeeps, LockSubscribersKeeps, ReturnKeeps
<1>3. CASE \E h \in Handlers : Handle(h)
  BY <1>3, ReceiveKeeps, EmitKeeps, SucceedKeeps, RetryKeeps, AgainKeeps, ParkKeeps,
     ParkedKeeps, NackKeeps DEF Handle
<1>4. CASE Router
  BY <1>4, WantSubscribeKeeps, SubscribeKeeps DEF Router
<1>5. CASE UNCHANGED vars
  BY <1>5, StutterKeeps
<1> QED BY <1>1, <1>2, <1>3, <1>4, <1>5 DEF Next, Step

\* Locks, messages in flight and handlers at work agree in every reachable state.
THEOREM BusInvariant == Spec => []BusInv
BY InitBusInv, NextBusInv, PTL DEF Spec

\* Points, topics and attempts keep their types.
THEOREM TypeCorrect == Spec => []TypeOK
<1>1. BusInv => TypeOK
  BY DEF BusInv
<1> QED BY <1>1, BusInvariant, PTL

-----------------------------------------------------------------------------
(* No circle of waiting publishers. *)

\* Once the router is up, the topics being published to contain one that no
\* handler publishing now publishes to; who sends there, or waits to, can go on.
LEMMA SomebodyMoves == BusInv => NoWaitCycle
<1> SUFFICES ASSUME BusInv, ~early, NEW d \in Callers, Publishing(d)
             PROVE  \E c \in Callers : Publishing(c) /\ CanMove(c)
  BY DEF NoWaitCycle
<1> USE BusAssumption
<1>1. subscribed = Handlers /\ writer = Nil
  BY DEF BusInv, QuietStart, Running, WriterNew, TypeOK
<1> DEFINE T == {t \in Topics : \E c \in Callers : Publishing(c) /\ pub[c].topic = t}
<1>2. \A c \in Callers : Publishing(c) => pub[c].topic \in T
  BY DEF BusInv, PublicationsMatch, TypeOK, Publication
<1>3. T # {} /\ T \in SUBSET Topics
  BY <1>2
<1>4. PICK t \in T : /\ DeadLetter[t] \notin T
                     /\ \A h \in Handlers : TopicOf[h] = t => Emits[h] \notin T
  BY <1>3, WiringAssumption
<1>5. t \in Topics
  BY <1>4
<1>6. PICK c \in Callers : Publishing(c) /\ pub[c].topic = t
  BY <1>4
<1> HIDE DEF T
<1>7. CASE holder[t] = Nil
  <2>1. pub[c].at # "Acks"
    BY <1>5, <1>6, <1>7 DEF BusInv, HolderWaits, Callers
  <2>2. pub[c].at \in {"ReadLock", "TopicLock"}
    BY <2>1, <1>6 DEF BusInv, TypeOK, Publication, Publishing
  <2> QED BY <1>1, <1>6, <1>7, <2>2 DEF CanMove
<1>8. CASE holder[t] # Nil
  <2>1. PICK p \in Callers : pub[p].at = "Acks" /\ pub[p].topic = t
    BY <1>5, <1>8 DEF BusInv, TypeOK, HolderWaits
  <2>2. \A h \in unacked[t] : ~Publishing(h)
    <3> SUFFICES ASSUME NEW h \in unacked[t], Publishing(h) PROVE FALSE
      OBVIOUS
    <3>1. h \in Handlers /\ TopicOf[h] = t
      BY <1>1, <1>5 DEF BusInv, InFlight, Subscribers
    <3>2. pub[h].topic \in {Emits[h], DeadLetter[t]}
      BY <3>1 DEF BusInv, WorksForPublisher
    <3>3. pub[h].topic \in T
      BY <1>2, <3>1 DEF Callers
    <3> QED BY <1>4, <3>1, <3>2, <3>3
  <2>3. CanMove(p)
    BY <2>1, <2>2 DEF CanMove
  <2> QED BY <2>1, <2>3 DEF Publishing
<1> QED BY <1>7, <1>8

\* As long as nothing was published while the router was subscribing, publishers
\* never all wait for each other, however handlers publish in turn.
THEOREM WaitsAcyclic == Spec => []NoWaitCycle
BY SomebodyMoves, BusInvariant, PTL

-----------------------------------------------------------------------------
(* What a step may not do. *)

\* Only Return ends a publication that waits for acknowledgements.
LEMMA EndsWhenAcked ==
  ASSUME BusInv, Next, NEW c \in Callers, pub[c].at = "Acks", pub'[c].at = "Idle"
  PROVE  unacked[pub[c].topic] = {}
<1> USE BusAssumption DEF Callers
<1>1. CASE \E r \in Requests : \E t \in Announces[r] : Publish(r, t)
  BY <1>1 DEF Publish, Call, Publishing, BusInv, TypeOK
<1>2. CASE \E d \in Callers : Send(d) \/ LockSubscribers(d)
  BY <1>2 DEF Send, LockSubscribers, BusInv, TypeOK
<1>3. CASE \E d \in Callers : Return(d)
  BY <1>3 DEF Return, BusInv, TypeOK
<1>4. CASE \E h \in Handlers : Handle(h)
  BY <1>4 DEF Handle, Receive, Emit, Succeed, Retry, Again, Park, Parked, Nack, Call,
              BusInv, TypeOK
<1>5. CASE Router
  BY <1>5 DEF Router, WantSubscribe, Subscribe
<1> QED BY <1>1, <1>2, <1>3, <1>4, <1>5 DEF Next, Step

\* Publish returns when every subscriber has handled the message or parked it.
THEOREM Settled == Spec => SettledOnReturn
<1> DEFINE A == \A c \in Callers :
       pub[c].at = "Acks" /\ pub'[c].at = "Idle" =>
         \A h \in Subscribers(pub[c].topic) : outcome[h] \in {"handled", "parked"}
<1>1. BusInv /\ [Next]_vars => [A]_vars
  <2> SUFFICES ASSUME BusInv, Next, NEW c \in Callers,
                      pub[c].at = "Acks", pub'[c].at = "Idle",
                      NEW h \in Subscribers(pub[c].topic)
               PROVE  outcome[h] \in {"handled", "parked"}
    OBVIOUS
  <2>1. unacked[pub[c].topic] = {}
    BY EndsWhenAcked
  <2>2. h \in Handlers /\ h \in subscribed /\ TopicOf[h] = pub[c].topic
    BY DEF Subscribers, BusInv, TypeOK
  <2>3. holder[pub[c].topic] = c
    BY <2>2, BusAssumption DEF BusInv, HolderWaits
  <2> QED BY <2>1, <2>2, <2>3, BusAssumption DEF BusInv, OutcomesMatch, Outcome, Callers
<1> QED BY <1>1, BusInvariant, PTL DEF Spec, SettledOnReturn

\* Retries apart, a handler is given a message of an ordinary topic once.
THEOREM Once == Spec => HandledOnce
<1> DEFINE A == \A h \in Handlers :
       /\ run[h].at = "Idle" /\ run'[h].at = "Work"
       /\ DeadLetter[TopicOf[h]] # Nil
       => outcome[h] = "none"
<1>1. BusInv /\ [Next]_vars => [A]_vars
  <2> SUFFICES ASSUME BusInv, Next, NEW h \in Handlers,
                      run[h].at = "Idle", run'[h].at = "Work",
                      DeadLetter[TopicOf[h]] # Nil
               PROVE  outcome[h] = "none"
    OBVIOUS
  <2>1. Receive(h)
    <3>1. run' # run
      OBVIOUS
    <3>2. PICK g \in Handlers : Handle(g)
      BY <3>1 DEF Next, Step, Publish, Send, LockSubscribers, Return, Router, Subscribe,
                  WantSubscribe
    <3>3. g = h
      BY <3>2 DEF Handle, Receive, Emit, Succeed, Retry, Again, Park, Parked, Nack, Ack,
                  BusInv, TypeOK
    <3> QED BY <3>2, <3>3 DEF Handle, Emit, Succeed, Retry, Again, Park, Parked, Nack
  <2>2. h \in unacked[TopicOf[h]] /\ TopicOf[h] \in Topics
    BY <2>1, BusAssumption DEF Receive
  <2>3. holder[TopicOf[h]] # Nil /\ h \in subscribed
    BY <2>2 DEF BusInv, InFlight, Subscribers
  <2> QED BY <2>2, <2>3 DEF BusInv, OutcomesMatch, Outcome
<1> QED BY <1>1, BusInvariant, PTL DEF Spec, HandledOnce

-----------------------------------------------------------------------------
(* Searching. *)

LEMMA InARow ==
  ASSUME NEW S, IsFiniteSet(S), NEW s \in SetToSeqs(S)
  PROVE  /\ s \in Seq(S) /\ Len(s) = Cardinality(S) /\ Cardinality(S) \in Nat
         /\ s \in [1..Cardinality(S) -> S]
<1>1. PICK n \in Nat : n = Cardinality(S)
  BY FS_CardinalityType
<1>2. s \in [1..n -> S]
  BY <1>1 DEF SetToSeqs
<1> QED BY <1>1, <1>2

\* Each of its members is there, once.
LEMMA InARowOnce ==
  ASSUME NEW S, IsFiniteSet(S), NEW s \in SetToSeqs(S)
  PROVE  /\ \A i, j \in 1..Cardinality(S) : s[i] = s[j] => i = j
         /\ \A x \in S : \E i \in 1..Cardinality(S) : s[i] = x
<1>1. PICK n \in Nat : n = Cardinality(S)
  BY FS_CardinalityType
<1>2. s \in [1..n -> S] /\ \A i, j \in 1..n : s[i] = s[j] => i = j
  BY <1>1 DEF SetToSeqs, IsInjective
<1>3. s \in Injection(1..n, S)
  BY <1>2 DEF Injection, IsInjective
<1>4. IsFiniteSet(1..n) /\ Cardinality(1..n) = n
  BY FS_Interval
<1>5. s \in Surjection(1..n, S)
  BY <1>1, <1>3, <1>4, FS_Injection
<1> QED BY <1>1, <1>2, <1>5 DEF Surjection

-----------------------------------------------------------------------------
\* Sorts are by columns there are.
LEMMA UsualSort ==
  ASSUME NEW type \in Types
  PROVE  /\ DOMAIN Resource(type).usual = {1}
         /\ Resource(type).usual[1].field \in Resource(type).sorts
<1>1. Resource("contact").usual[1].field \in Resource("contact").sorts /\ DOMAIN Resource("contact").usual = {1}
  BY DEF Resource, ContactResource, Down
<1>2. Resource("order").usual[1].field \in Resource("order").sorts /\ DOMAIN Resource("order").usual = {1}
  BY DEF Resource, OrderResource, Down
<1>3. Resource("product").usual[1].field \in Resource("product").sorts /\ DOMAIN Resource("product").usual = {1}
  BY DEF Resource, ProductResource, Down
<1>4. Resource("category").usual[1].field \in Resource("category").sorts /\ DOMAIN Resource("category").usual = {1}
  BY DEF Resource, CategoryResource, Up
<1>5. Resource("variation").usual[1].field \in Resource("variation").sorts /\ DOMAIN Resource("variation").usual = {1}
  BY DEF Resource, VariationResource, Up
<1>6. Resource("tag").usual[1].field \in Resource("tag").sorts /\ DOMAIN Resource("tag").usual = {1}
  BY DEF Resource, TagResource, Up
<1>7. Resource("shipping_mark").usual[1].field \in Resource("shipping_mark").sorts
      /\ DOMAIN Resource("shipping_mark").usual = {1}
  BY DEF Resource, MarkResource, Down
<1> QED
  <2>1. CASE type = "contact"
    BY <1>1, <2>1
  <2>2. CASE type = "order"
    BY <1>2, <2>2
  <2>3. CASE type = "product"
    BY <1>3, <2>3
  <2>4. CASE type = "category"
    BY <1>4, <2>4
  <2>5. CASE type = "variation"
    BY <1>5, <2>5
  <2>6. CASE type = "tag"
    BY <1>6, <2>6
  <2>7. CASE type = "shipping_mark"
    BY <1>7, <2>7
  <2> QED BY <2>1, <2>2, <2>3, <2>4, <2>5, <2>6, <2>7 DEF Types

\* The day a row was made can be compared in every resource.
Made(filters) ==
    /\ "created_at" \in DOMAIN filters
    /\ {"gte", "lte", "gt", "lt"} \subseteq filters["created_at"]

LEMMA OfferedMade ==
  ASSUME NEW F, NEW G, NEW H, "created_at" \in H
  PROVE  Made(Offered(F, G, H))
  BY DEF Made, Offered

LEMMA MadeCompares ==
  ASSUME NEW type \in Types
  PROVE  Made(Resource(type).filters)
<1>4. Made(Resource("contact").filters)
  BY OfferedMade DEF Resource, ContactResource
<1>5. Made(Resource("order").filters)
  BY OfferedMade DEF Resource, OrderResource
<1>6. Made(Resource("product").filters)
  BY OfferedMade DEF Resource, ProductResource
<1>7. Made(Resource("category").filters)
  BY OfferedMade DEF Resource, CategoryResource
<1>8. Made(Resource("variation").filters)
  BY OfferedMade DEF Resource, VariationResource
<1>9. Made(Resource("tag").filters)
  BY OfferedMade DEF Resource, TagResource
<1>10. Made(Resource("shipping_mark").filters)
  BY OfferedMade DEF Resource, MarkResource
<1> QED
  <2>1. CASE type = "contact"
    BY <1>4, <2>1
  <2>2. CASE type = "order"
    BY <1>5, <2>2
  <2>3. CASE type = "product"
    BY <1>6, <2>3
  <2>4. CASE type = "category"
    BY <1>7, <2>4
  <2>5. CASE type = "variation"
    BY <1>8, <2>5
  <2>6. CASE type = "tag"
    BY <1>9, <2>6
  <2>7. CASE type = "shipping_mark"
    BY <1>10, <2>7
  <2> QED BY <2>1, <2>2, <2>3, <2>4, <2>5, <2>6, <2>7 DEF Types

-----------------------------------------------------------------------------
\* So many places, none of which repeats another, are so many members.
LEMMA SoManyPlaces ==
  ASSUME NEW n \in Nat, NEW s, \A i, j \in 1..n : s[i] = s[j] => i = j
  PROVE  Cardinality({s[i] : i \in 1..n}) = n /\ IsFiniteSet({s[i] : i \in 1..n})
<1> DEFINE T == {s[i] : i \in 1..n}
           f == [i \in 1..n |-> s[i]]
<1>1. IsFiniteSet(1..n) /\ Cardinality(1..n) = n
  BY FS_Interval
<1>2. f \in Bijection(1..n, T)
  <2>1. f \in [1..n -> T]
    OBVIOUS
  <2>2. \A i, j \in 1..n : f[i] = f[j] => i = j
    OBVIOUS
  <2>3. \A t \in T : \E i \in 1..n : f[i] = t
    OBVIOUS
  <2> HIDE DEF f, T
  <2> QED BY <2>1, <2>2, <2>3 DEF Bijection, Injection, Surjection, IsInjective
<1>3. ExistsBijection(1..n, T)
  BY <1>2 DEF ExistsBijection
<1> HIDE DEF f, T
<1>4. Cardinality(T) = n /\ IsFiniteSet(T)
  BY <1>1, <1>3, FS_Bijection
<1> QED BY <1>4 DEF T

\* A page is what the list has at its places.
IsPageOf(page, o, n, offset, size, S) ==
    /\ page \in Seq(S)
    /\ Len(page) = IF offset >= n THEN 0 ELSE IF offset + size < n THEN size ELSE n - offset
    /\ \A i \in 1..Len(page) : offset + i \in 1..n /\ page[i] = o[offset + i]

LEMMA SearchPageOf ==
  ASSUME NEW S, NEW o \in Seq(S), NEW n \in Nat, n = Len(o), NEW offset \in Nat, NEW size \in Nat
  PROVE  IsPageOf(SearchPage(o, offset, size), o, n, offset, size, S)
<1>1. PICK page : page = SearchPage(o, offset, size)
  OBVIOUS
<1>2. PICK last \in Nat : last = IF offset + size < n THEN offset + size ELSE n
  <2>1. CASE offset + size < n
    BY <2>1
  <2>2. CASE ~(offset + size < n)
    BY <2>2
  <2> QED BY <2>1, <2>2
<1>3. page = SubSeq(o, offset + 1, last)
  BY <1>1, <1>2 DEF SearchPage
<1>5. \A i \in (offset + 1)..last : o[i] \in S
  <2>1. \A i \in 1..n : o[i] \in S
    BY ElementOfSeq
  <2> QED BY <2>1, <1>2
<1>6. /\ page \in Seq(S)
      /\ Len(page) = IF offset + 1 <= last THEN last - offset ELSE 0
      /\ \A i \in 1..(last - offset) : page[i] = o[offset + i]
  <2>2. page = [i \in 1..(last - offset) |-> o[offset + i]]
    BY <1>3
  <2>3. \A i \in 1..(last - offset) : offset + i \in (offset + 1)..last
    BY <1>2
  <2>4. page \in [1..(last - offset) -> S]
    BY <2>2, <2>3, <1>5
  <2>5. PICK m \in Nat : m = IF offset + 1 <= last THEN last - offset ELSE 0
    <3>1. CASE offset + 1 <= last
      <4>1. last - offset \in Nat
        BY <3>1
      <4> QED BY <3>1, <4>1
    <3>2. CASE ~(offset + 1 <= last)
      BY <3>2
    <3> QED BY <3>1, <3>2
  <2>6. 1..(last - offset) = 1..m
    BY <2>5, <1>2
  <2>7. page \in [1..m -> S]
    BY <2>4, <2>6
  <2>8. page \in Seq(S) /\ Len(page) = m
    BY <2>7, <2>5
  <2> QED BY <2>2, <2>5, <2>8
<1> QED BY <1>1, <1>2, <1>6 DEF IsPageOf

-----------------------------------------------------------------------------
\* Numbers.
LEMMA TimesKeepsOrder ==
  ASSUME NEW a \in Int, NEW b \in Int, NEW s \in Nat, a <= b
  PROVE  a * s <= b * s
<1>1. PICK c \in Nat : b = a + c
  <2>1. b - a \in Nat /\ b = a + (b - a)
    OBVIOUS
  <2> QED BY <2>1
<1>2. b * s = a * s + c * s
  BY <1>1
<1>3. c * s \in Nat /\ a * s \in Int
  OBVIOUS
<1> QED BY <1>2, <1>3

LEMMA SmallIsItself ==
  ASSUME NEW n \in Nat, NEW d \in Nat, n < d
  PROVE  n % d = n
  OBVIOUS

LEMMA OffsetFits ==
  ASSUME NEW page \in Int, NEW size \in Int, MaxInt \in Nat, NEW n \in Int, n = (page - 1) * size
  PROVE  /\ Offset(page, size) \in Nat
         /\ (0 <= n /\ n <= MaxInt) => Offset(page, size) = n
<1>2. PICK d \in Nat \ {0} : d = 2 * (MaxInt + 1) /\ d > MaxInt
  OBVIOUS
<1>3. n % d \in Int
  BY <1>2
<1>4. Wrapped(n) = IF n % d > MaxInt THEN (n % d) - d ELSE n % d
  BY <1>2 DEF Wrapped
<1>5. Wrapped(n) \in Int
  BY <1>2, <1>3, <1>4
<1>6. Offset(page, size) = IF Wrapped(n) > 0 THEN Wrapped(n) ELSE 0
  BY DEF Offset
<1>7. ASSUME 0 <= n, n <= MaxInt
      PROVE  Offset(page, size) = n
  <2>1. n % d = n
    BY <1>2, <1>7, SmallIsItself
  <2> QED BY <2>1, <1>4, <1>6, <1>7
<1> QED BY <1>5, <1>6, <1>7

LEMMA PagesOf ==
  ASSUME NEW total \in Nat, NEW size \in Nat \ {0}, NEW page \in Nat \ {0}
  PROVE  /\ page <= TotalPages(total, size) <=> (page - 1) * size < total
         /\ page < TotalPages(total, size) => (page - 1) * size + size < total
<1>1. PICK k \in Int : k = (total + size - 1) \div size
  OBVIOUS
<1>2. k * size <= total + size - 1 /\ total + size - 1 < k * size + size
  BY <1>1
<1>3. PICK before \in Int, all \in Int, to \in Int :
        before = (page - 1) * size /\ all = k * size /\ to = before + size
  OBVIOUS
<1>4. page * size = to
  BY <1>3
<1>5. (k - 1) * size = all - size
  BY <1>3
<1>6. page <= k => before <= all - size
  BY <1>3, <1>5, TimesKeepsOrder
<1>7. page > k => all <= before
  BY <1>3, TimesKeepsOrder
<1>8. page < k => to <= all - size
  <2>1. page < k => page <= k - 1
    OBVIOUS
  <2> QED BY <2>1, <1>4, <1>5, TimesKeepsOrder
<1>9. all <= total + size - 1 /\ total + size - 1 < all + size
  BY <1>2, <1>3
<1>10. TotalPages(total, size) = k
  BY <1>1 DEF TotalPages
<1> QED BY <1>3, <1>6, <1>7, <1>8, <1>9, <1>10

-----------------------------------------------------------------------------
LEMMA Chosen ==
  ASSUME SearchAssumption, NEW q
  PROVE  /\ Selected(q) \subseteq DOMAIN Entries /\ IsFiniteSet(Selected(q))
         /\ \A r \in Selected(q) : Entries[r].type = q.type
<1>1. Selected(q) \subseteq DOMAIN Entries /\ \A r \in Selected(q) : Entries[r].type = q.type
  BY DEF Selected
<1>2. IsFiniteSet(DOMAIN Entries)
  BY DEF SearchAssumption
<1> QED BY <1>1, <1>2, FS_Subset

LEMMA SortedByColumns ==
  ASSUME NEW q, q.type \in Types, q.sort \in Seq([field : STRING, dir : STRING]),
         NEW i \in DOMAIN ResolveSort(q)
  PROVE  ResolveSort(q)[i].field \in Columns(q.type) /\ i \in Int
<1> DEFINE valid == {j \in DOMAIN q.sort : q.sort[j].field \in Resource(q.type).sorts}
<1>1. ResolveSort(q) = IF valid = {} THEN Resource(q.type).usual ELSE [j \in valid |-> q.sort[j]]
  BY DEF ResolveSort
<1>2. CASE valid = {}
  BY <1>1, <1>2, UsualSort DEF Columns
<1>3. CASE valid # {}
  <2>1. i \in valid /\ ResolveSort(q)[i] = q.sort[i]
    BY <1>1, <1>3
  <2>2. valid \subseteq Int
    OBVIOUS
  <2> QED BY <2>1, <2>2 DEF Columns
<1> QED BY <1>2, <1>3

LEMMA NotBeforeItself ==
  ASSUME SearchAssumption,
         NEW q, q.type \in Types, q.sort \in Seq([field : STRING, dir : STRING]),
         NEW r \in DOMAIN Entries, Entries[r].type = q.type
  PROVE  ~SortsBefore(q, r, r)
<1>1. \A c \in Columns(q.type) : Entries[r].col[c] \in Int
  BY DEF SearchAssumption
<1> SUFFICES ASSUME SortsBefore(q, r, r)
             PROVE  FALSE
  OBVIOUS
<1>2. PICK i \in DOMAIN ResolveSort(q) :
        \/ Entries[r].col[ResolveSort(q)[i].field] < Entries[r].col[ResolveSort(q)[i].field]
        \/ Entries[r].col[ResolveSort(q)[i].field] > Entries[r].col[ResolveSort(q)[i].field]
  BY DEF SortsBefore
<1>3. Entries[r].col[ResolveSort(q)[i].field] \in Int
  BY <1>1, SortedByColumns
<1> QED BY <1>2, <1>3

\* Where rows do not tie, those that sort before the k-th are the k - 1 before it.
LEMMA BeforeInOrder ==
  ASSUME NEW q, NEW S, IsFiniteSet(S), NEW o \in Orderings(q, S), NEW k \in 1..Cardinality(S),
         \A r \in S : ~SortsBefore(q, r, r),
         ~\E r, s \in S : r # s /\ ~SortsBefore(q, r, s) /\ ~SortsBefore(q, s, r)
  PROVE  Cardinality({s \in S : SortsBefore(q, s, o[k])}) = k - 1
<1>1. PICK n \in Nat : n = Cardinality(S)
  BY FS_CardinalityType
<1>2. /\ o \in [1..n -> S]
      /\ \A i, j \in 1..n : o[i] = o[j] => i = j
      /\ \A x \in S : \E i \in 1..n : o[i] = x
      /\ \A i, j \in 1..n : i < j => ~SortsBefore(q, o[j], o[i])
  <2>1. o \in SetToSeqs(S) /\ \A i, j \in DOMAIN o : i < j => ~SortsBefore(q, o[j], o[i])
    BY DEF Orderings
  <2>2. o \in [1..n -> S]
    BY <1>1, <2>1, InARow
  <2>3. DOMAIN o = 1..n
    BY <2>2
  <2> QED BY <1>1, <2>1, <2>2, <2>3, InARowOnce
<1>3. k \in 1..n
  BY <1>1
<1>4. \A i \in 1..n : i < k => SortsBefore(q, o[i], o[k])
  <2> TAKE i \in 1..n
  <2> HAVE i < k
  <2>1. o[i] \in S /\ o[k] \in S /\ o[i] # o[k] /\ ~SortsBefore(q, o[k], o[i])
    BY <1>2, <1>3
  <2> QED BY <2>1
<1>5. \A i \in 1..n : SortsBefore(q, o[i], o[k]) => i < k
  <2> TAKE i \in 1..n
  <2> HAVE SortsBefore(q, o[i], o[k])
  <2>1. ~(k < i)
    BY <1>2, <1>3
  <2>2. k # i
    BY <1>2
  <2> QED BY <2>1, <2>2, <1>3
<1>6. {s \in S : SortsBefore(q, s, o[k])} = {o[i] : i \in 1..(k - 1)}
  <2>1. ASSUME NEW s \in S, SortsBefore(q, s, o[k])
        PROVE  \E i \in 1..(k - 1) : s = o[i]
    <3>1. PICK i \in 1..n : o[i] = s
      BY <1>2
    <3>2. i < k
      BY <3>1, <2>1, <1>5
    <3> QED BY <3>1, <3>2
  <2>2. ASSUME NEW i \in 1..(k - 1)
        PROVE  o[i] \in S /\ SortsBefore(q, o[i], o[k])
    <3>1. i \in 1..n /\ i < k
      BY <1>3
    <3> QED BY <3>1, <1>2, <1>4
  <2> QED BY <2>1, <2>2
<1>7. Cardinality({o[i] : i \in 1..(k - 1)}) = k - 1
  <2>1. k - 1 \in Nat /\ \A i \in 1..(k - 1) : i \in 1..n
    BY <1>3
  <2>2. \A i, j \in 1..(k - 1) : o[i] = o[j] => i = j
    BY <2>1, <1>2
  <2> QED BY <2>1, <2>2, SoManyPlaces
<1> QED BY <1>6, <1>7

-----------------------------------------------------------------------------
LEMMA NormalOnes ==
  ASSUME SearchAssumption, NEW page \in Int, NEW size \in Int
  PROVE  NormalPage(page) \in Nat \ {0} /\ NormalSize(size) \in Nat \ {0}
  BY DEF SearchAssumption, NormalPage, NormalSize

\* A page shows rows that were selected, each once.
LEMMA PageOnce ==
  ASSUME NEW S, IsFiniteSet(S), NEW n \in Nat, n = Cardinality(S), NEW o \in SetToSeqs(S),
         NEW offset \in Nat, NEW size \in Nat, NEW data, data = SearchPage(o, offset, size)
  PROVE  /\ IsPageOf(data, o, n, offset, size, S)
         /\ ToSet(data) \subseteq S /\ Cardinality(ToSet(data)) = Len(data)
<1>3. o \in Seq(S) /\ Len(o) = n
  BY InARow
<1>14. IsPageOf(data, o, n, offset, size, S)
  BY <1>3, SearchPageOf
<1>4. /\ data \in Seq(S)
      /\ \A i \in 1..Len(data) : offset + i \in 1..n /\ data[i] = o[offset + i]
  BY <1>14 DEF IsPageOf
<1>5. PICK m \in Nat : m = Len(data)
  BY <1>4, LenProperties
<1>6. \A i, j \in 1..m : data[i] = data[j] => i = j
  <2> TAKE i \in 1..m, j \in 1..m
  <2> HAVE data[i] = data[j]
  <2>1. offset + i \in 1..n /\ offset + j \in 1..n /\ o[offset + i] = o[offset + j]
    BY <1>4, <1>5
  <2>2. offset + i = offset + j
    BY <2>1, InARowOnce
  <2> QED BY <2>2
<1>7. ToSet(data) = {data[i] : i \in 1..m}
  <2>1. DOMAIN data = 1..m
    BY <1>4, <1>5, LenProperties
  <2> QED BY <2>1 DEF ToSet
<1>8. Cardinality(ToSet(data)) = m
  BY <1>6, <1>7, SoManyPlaces
<1>9. ToSet(data) \subseteq S
  BY <1>4, <1>5, <1>7
<1> QED BY <1>14, <1>5, <1>8, <1>9

WholePage(q, total, data) ==
    LET page == NormalPage(q.page)
        size == NormalSize(q.size)
        all == Selected(q)
        ties == \E r, s \in all : r # s /\ ~SortsBefore(q, r, s) /\ ~SortsBefore(q, s, r)
    IN  /\ (page - 1) * size <= MaxInt =>
               /\ ~ties => \A i \in DOMAIN data :
                    Cardinality({s \in all : SortsBefore(q, s, data[i])}) = (page - 1) * size + i - 1
               /\ (data # <<>>) <=> (page <= TotalPages(total, size))
               /\ page < TotalPages(total, size) => Len(data) = size
        /\ Cardinality(ToSet(data)) = Len(data)

LEMMA PageIsWhole ==
  ASSUME SearchAssumption, NEW q \in AskedQuery, NEW o \in Orderings(q, Selected(q)), NEW data,
         data = SearchPage(o, Offset(NormalPage(q.page), NormalSize(q.size)), NormalSize(q.size))
  PROVE  /\ data \in Seq(DOMAIN Entries) /\ ToSet(data) \subseteq Selected(q)
         /\ WholePage(q, Cardinality(Selected(q)), data)
<1>1. q.type \in Types /\ q.sort \in Seq([field : STRING, dir : STRING]) /\ q.page \in Int /\ q.size \in Int
  BY DEF AskedQuery
<1>2. PICK page \in Nat \ {0} : page = NormalPage(q.page)
  BY <1>1, NormalOnes
<1>3. PICK size \in Nat \ {0} : size = NormalSize(q.size)
  BY <1>1, NormalOnes
<1>4. PICK all : all = Selected(q)
  OBVIOUS
<1>5. /\ all \subseteq DOMAIN Entries /\ IsFiniteSet(all)
      /\ \A r \in all : Entries[r].type = q.type
  BY <1>4, Chosen
<1>6. PICK n \in Nat : n = Cardinality(all)
  BY <1>5, FS_CardinalityType
<1>7. \A r \in all : ~SortsBefore(q, r, r)
  BY <1>1, <1>5, NotBeforeItself
<1>8. PICK before \in Nat : before = (page - 1) * size
  OBVIOUS
<1>9. PICK offset \in Nat : offset = Offset(page, size) /\ (before <= MaxInt => offset = before)
  <2>1. MaxInt \in Nat
    BY DEF SearchAssumption
  <2>2. page \in Int /\ size \in Int /\ before \in Int /\ 0 <= before
    OBVIOUS
  <2> QED BY <1>8, <2>1, <2>2, OffsetFits
<1>10. data = SearchPage(o, offset, size) /\ o \in SetToSeqs(all) /\ o \in Orderings(q, all)
  BY <1>2, <1>3, <1>4, <1>9 DEF Orderings
<1>11. /\ data \in Seq(all) /\ ToSet(data) \subseteq all
       /\ Len(data) = IF offset >= n THEN 0 ELSE IF offset + size < n THEN size ELSE n - offset
       /\ \A i \in 1..Len(data) : offset + i \in 1..n /\ data[i] = o[offset + i]
       /\ Cardinality(ToSet(data)) = Len(data)
  <2>1. /\ IsPageOf(data, o, n, offset, size, all)
        /\ ToSet(data) \subseteq all /\ Cardinality(ToSet(data)) = Len(data)
    <3>1. size \in Nat /\ IsFiniteSet(all) /\ o \in SetToSeqs(all)
      BY <1>5, <1>10
    <3>2. data = SearchPage(o, offset, size)
      BY <1>10
    <3> QED BY ONLY <3>1, <3>2, <1>6, PageOnce
  <2> QED BY <2>1 DEF IsPageOf
<1>12. PICK m \in Nat : m = Len(data) /\ DOMAIN data = 1..m
  BY <1>11, LenProperties
<1>13. ASSUME before <= MaxInt, ~\E r, s \in all : r # s /\ ~SortsBefore(q, r, s) /\ ~SortsBefore(q, s, r),
              NEW i \in DOMAIN data
       PROVE  Cardinality({s \in all : SortsBefore(q, s, data[i])}) = before + i - 1
  <2>1. i \in 1..m /\ before + i \in 1..n /\ data[i] = o[before + i]
    BY <1>9, <1>11, <1>12, <1>13
  <2>2. PICK k \in 1..n : k = before + i
    BY <2>1
  <2>3. Cardinality({s \in all : SortsBefore(q, s, o[k])}) = k - 1
    BY <1>5, <1>6, <1>7, <1>10, <1>13, BeforeInOrder
  <2> QED BY <2>1, <2>2, <2>3
<1>14. data # <<>> <=> m # 0
  BY <1>11, <1>12, EmptySeq
<1>15. (page <= TotalPages(n, size) <=> before < n) /\ (page < TotalPages(n, size) => before + size < n)
  BY <1>8, PagesOf
<1>16. ASSUME before <= MaxInt
       PROVE  /\ (data # <<>>) <=> (page <= TotalPages(n, size))
              /\ page < TotalPages(n, size) => Len(data) = size
  <2>1. m = IF before >= n THEN 0 ELSE IF before + size < n THEN size ELSE n - before
    BY <1>9, <1>11, <1>12, <1>16
  <2> QED BY <2>1, <1>12, <1>14, <1>15
<1>17. data \in Seq(DOMAIN Entries)
  BY <1>5, <1>11
<1> QED
  <2>1. WholePage(q, n, data)
    BY <1>2, <1>3, <1>4, <1>8, <1>11, <1>13, <1>16 DEF WholePage
  <2> QED BY <2>1, <1>4, <1>6, <1>11, <1>17

-----------------------------------------------------------------------------
\* Whatever is asked for, the statement names columns that there are.
LEMMA AlwaysWellFormed ==
  ASSUME NEW q
  PROVE  WellFormed(q)
  BY DEF WellFormed, Applied, OperatorAllowed, Columns

\* What is selected is what was asked for.
LEMMA FoundFits ==
  ASSUME SearchAssumption, NEW q \in AskedQuery, NEW r \in Selected(q)
  PROVE  /\ entry[r] = "live" /\ Entries[r].type = q.type
         /\ q.term => \E f \in DOMAIN Entries[r].text : Matching(Entries[r].text[f])
         /\ \A f \in q.filters :
              (f.field = "created_at" /\ f.op # "eq") => Compare(Entries[r].col[f.field], f.op, f.value)
<1>1. /\ r \in DOMAIN Entries /\ Entries[r].type = q.type /\ entry[r] = "live"
      /\ TextSearch(Entries[r], q.term)
      /\ \A f \in Applied(q) : Compare(Entries[r].col[f.field], f.op, f.value)
  BY DEF Selected
<1>2. q.type \in Types /\ \A f \in q.filters : f.op \in {"eq", "gte", "lte", "gt", "lt"}
  BY DEF AskedQuery
<1>3. Resource(Entries[r].type).text \subseteq DOMAIN Entries[r].text
  BY <1>1 DEF SearchAssumption
<1>4. q.term => \E f \in DOMAIN Entries[r].text : Matching(Entries[r].text[f])
  BY <1>1, <1>3 DEF TextSearch
<1>5. Made(Resource(q.type).filters)
  BY <1>2, MadeCompares
<1>6. ASSUME NEW f \in q.filters, f.field = "created_at", f.op # "eq"
      PROVE  f \in Applied(q)
  BY <1>2, <1>5, <1>6 DEF Applied, OperatorAllowed, Made
<1> QED BY <1>1, <1>4, <1>6

-----------------------------------------------------------------------------
\* Which fields the spotlight goes by.
LEMMA FewInARow ==
  ASSUME NEW S, NEW a \in S, NEW b \in S, NEW c \in S
  PROVE  <<>> \in Seq(S) /\ <<a>> \in Seq(S) /\ <<a, b>> \in Seq(S) /\ <<a, b, c>> \in Seq(S)
  OBVIOUS

LEMMA SpotFields ==
  ASSUME NEW type \in Types
  PROVE  \E S : Resource(type).primary \in Seq(S) /\ Resource(type).secondary \in Seq(S)
<1> DEFINE Ordered(t, S) == Resource(t).primary \in Seq(S) /\ Resource(t).secondary \in Seq(S)
<1>1. Ordered("contact", {"first_name", "last_name", "email", "document_number", "phone"})
  BY FewInARow DEF Resource, ContactResource
<1>2. Ordered("order", {"identifier", "payment_method", "realm"})
  BY FewInARow DEF Resource, OrderResource
<1>3. Ordered("product", {"sku"})
  BY FewInARow DEF Resource, ProductResource
<1>4. Ordered("category", {"name", "slug", "description"})
  BY FewInARow DEF Resource, CategoryResource
<1>5. Ordered("variation", {"name", "value"})
  BY FewInARow DEF Resource, VariationResource
<1>6. Ordered("tag", {"name"})
  BY FewInARow DEF Resource, TagResource
<1>7. Ordered("shipping_mark", {"tracking_number", "order_id"})
  BY FewInARow DEF Resource, MarkResource
<1> QED
  <2>1. CASE type = "contact"
    BY <1>1, <2>1
  <2>2. CASE type = "order"
    BY <1>2, <2>2
  <2>3. CASE type = "product"
    BY <1>3, <2>3
  <2>4. CASE type = "category"
    BY <1>4, <2>4
  <2>5. CASE type = "variation"
    BY <1>5, <2>5
  <2>6. CASE type = "tag"
    BY <1>6, <2>6
  <2>7. CASE type = "shipping_mark"
    BY <1>7, <2>7
  <2> QED BY <2>1, <2>2, <2>3, <2>4, <2>5, <2>6, <2>7 DEF Types

LEMMA TogetherOf ==
  ASSUME NEW S, NEW p \in Seq(S), NEW s \in Seq(S)
  PROVE  ToSet(p \o s) = ToSet(p) \cup ToSet(s)
<1>1. PICK m \in Nat, n \in Nat : m = Len(p) /\ n = Len(s) /\ DOMAIN p = 1..m /\ DOMAIN s = 1..n
  BY LenProperties
<1>2. /\ DOMAIN (p \o s) = 1..(m + n)
      /\ \A i \in 1..(m + n) : (p \o s)[i] = IF i <= m THEN p[i] ELSE s[i - m]
  <2>1. p \o s \in Seq(S) /\ Len(p \o s) = m + n
    BY <1>1, ConcatProperties
  <2>2. \A i \in 1..(m + n) : (p \o s)[i] = IF i <= m THEN p[i] ELSE s[i - m]
    BY <1>1, ConcatProperties
  <2> QED BY <2>1, <2>2, LenProperties
<1>3. ASSUME NEW x \in ToSet(p \o s)
      PROVE  x \in ToSet(p) \cup ToSet(s)
  <2>1. PICK i \in 1..(m + n) : x = IF i <= m THEN p[i] ELSE s[i - m]
    BY <1>2 DEF ToSet
  <2>2. CASE i <= m
    BY <1>1, <2>1, <2>2 DEF ToSet
  <2>3. CASE ~(i <= m)
    <3>1. i - m \in 1..n
      BY <2>3
    <3> QED BY <1>1, <2>1, <2>3, <3>1 DEF ToSet
  <2> QED BY <2>2, <2>3
<1>4. ASSUME NEW x \in ToSet(p)
      PROVE  x \in ToSet(p \o s)
  <2>1. PICK i \in 1..m : x = p[i]
    BY <1>1 DEF ToSet
  <2>2. i \in 1..(m + n) /\ i <= m
    OBVIOUS
  <2>3. (p \o s)[i] = x
    BY <1>2, <2>1, <2>2
  <2> QED BY <1>2, <2>2, <2>3 DEF ToSet
<1>5. ASSUME NEW x \in ToSet(s)
      PROVE  x \in ToSet(p \o s)
  <2>1. PICK i \in 1..n : x = s[i]
    BY <1>1 DEF ToSet
  <2>2. m + i \in 1..(m + n) /\ ~(m + i <= m) /\ (m + i) - m = i
    OBVIOUS
  <2>3. (p \o s)[m + i] = x
    BY <1>2, <2>1, <2>2
  <2> QED BY <1>2, <2>2, <2>3 DEF ToSet
<1> QED BY <1>3, <1>4, <1>5

\* A score tells the grade of the best field.
Told(score) == IF score >= 11 THEN 3 ELSE IF score >= 8 THEN 2 ELSE IF score >= 5 THEN 1 ELSE 0

Scored(grade, boost) == IF grade = "empty" THEN 0 ELSE FieldScore(grade) + boost

LEMMA FieldsScore ==
  ASSUME NEW grade, NEW boost \in {1, 3}
  PROVE  /\ Scored(grade, boost) \in 0..13
         /\ grade = "exact" => Scored(grade, boost) \in 11..13
         /\ grade = "prefix" => Scored(grade, boost) \in 8..10
         /\ grade = "contains" => Scored(grade, boost) \in 5..7
         /\ grade \notin {"exact", "prefix", "contains"} => Scored(grade, boost) \in 0..3
<1>1. CASE grade = "exact"
  BY <1>1 DEF Scored, FieldScore
<1>2. CASE grade = "prefix"
  BY <1>2 DEF Scored, FieldScore
<1>3. CASE grade = "contains"
  BY <1>3 DEF Scored, FieldScore
<1>4. CASE grade \notin {"exact", "prefix", "contains"}
  BY <1>4 DEF Scored, FieldScore
<1> QED BY <1>1, <1>2, <1>3, <1>4

-----------------------------------------------------------------------------
\* What a row's fields score, and the grades they have.
Scores(row) ==
    {0} \cup {Scored(row.text[f], BoostPrimary) : f \in ToSet(Resource(row.type).primary)}
        \cup {Scored(row.text[f], BoostOther) : f \in ToSet(Resource(row.type).secondary)}

Grades(row) ==
    {row.text[f] : f \in ToSet(Resource(row.type).primary) \cup ToSet(Resource(row.type).secondary)}

LEMMA BestOf ==
  ASSUME NEW all \in SUBSET (0..13), 0 \in all
  PROVE  \E s \in all : \A z \in all : z <= s
<1>1. \/ 13 \in all \/ 12 \in all \/ 11 \in all \/ 10 \in all \/ 9 \in all \/ 8 \in all \/ 7 \in all
      \/ 6 \in all \/ 5 \in all \/ 4 \in all \/ 3 \in all \/ 2 \in all \/ 1 \in all \/ 0 \in all
  OBVIOUS
<1> QED OBVIOUS

LEMMA ScoreIsBest ==
  ASSUME NEW row
  PROVE  Score(row) \in Scores(row) /\ \A z \in Scores(row) : z <= Score(row)
<1> DEFINE all == Scores(row)
<1>1. Score(row) = CHOOSE s \in all : \A z \in all : z <= s
  BY DEF Score, Scores, Scored
<1>2. all \in SUBSET (0..13) /\ 0 \in all
  BY FieldsScore DEF Scores, BoostPrimary, BoostOther
<1> HIDE DEF all
<1>3. \E s \in all : \A z \in all : z <= s
  BY <1>2, BestOf
<1> QED BY <1>1, <1>3 DEF all

LEMMA ScoreTells ==
  ASSUME NEW row, row.type \in Types
  PROVE  BestGrade(row) = Told(Score(row)) /\ Score(row) \in Nat
<1>1. BestGrade(row) = IF "exact" \in Grades(row) THEN 3
                       ELSE IF "prefix" \in Grades(row) THEN 2
                       ELSE IF "contains" \in Grades(row) THEN 1 ELSE 0
  <2>1. ToSet(Resource(row.type).primary \o Resource(row.type).secondary)
          = ToSet(Resource(row.type).primary) \cup ToSet(Resource(row.type).secondary)
    BY SpotFields, TogetherOf
  <2> QED BY <2>1 DEF BestGrade, Grades
<1>2. \A g \in Grades(row) : \E b \in {1, 3} : Scored(g, b) \in Scores(row)
  BY DEF Grades, Scores, BoostPrimary, BoostOther
<1>3. \A s \in Scores(row) : s = 0 \/ \E g \in Grades(row), b \in {1, 3} : s = Scored(g, b)
  BY DEF Grades, Scores, BoostPrimary, BoostOther
<1>4. PICK best : best = Score(row)
  OBVIOUS
<1>5. best \in Scores(row) /\ \A z \in Scores(row) : z <= best
  BY <1>4, ScoreIsBest
<1>6. best \in 0..13
  BY <1>3, <1>5, FieldsScore
<1>7. "exact" \in Grades(row) => best >= 11
  <2> HAVE "exact" \in Grades(row)
  <2>1. PICK b \in {1, 3} : Scored("exact", b) \in Scores(row)
    BY <1>2
  <2>2. Scored("exact", b) \in 11..13
    BY FieldsScore
  <2> QED BY <2>1, <2>2, <1>5, <1>6
<1>8. "prefix" \in Grades(row) => best >= 8
  <2> HAVE "prefix" \in Grades(row)
  <2>1. PICK b \in {1, 3} : Scored("prefix", b) \in Scores(row)
    BY <1>2
  <2>2. Scored("prefix", b) \in 8..10
    BY FieldsScore
  <2> QED BY <2>1, <2>2, <1>5, <1>6
<1>9. "contains" \in Grades(row) => best >= 5
  <2> HAVE "contains" \in Grades(row)
  <2>1. PICK b \in {1, 3} : Scored("contains", b) \in Scores(row)
    BY <1>2
  <2>2. Scored("contains", b) \in 5..7
    BY FieldsScore
  <2> QED BY <2>1, <2>2, <1>5, <1>6
<1>10. Score(row) \in Nat
  BY <1>4, <1>6
<1>11. CASE best = 0
  BY <1>1, <1>4, <1>7, <1>8, <1>9, <1>10, <1>11 DEF Told
<1>12. CASE best # 0
  <2>1. PICK g \in Grades(row) : \E b \in {1, 3} : best = Scored(g, b)
    BY <1>3, <1>5, <1>12
  <2>2. PICK b \in {1, 3} : best = Scored(g, b)
    BY <2>1
  <2>3. CASE g = "exact"
    <3>1. best \in 11..13
      BY <2>2, <2>3, FieldsScore
    <3>2. Told(best) = 3
      BY <3>1 DEF Told
    <3> QED BY <1>1, <1>4, <1>10, <2>3, <3>2
  <2>4. CASE g = "prefix"
    <3>1. best \in 8..10
      BY <2>2, <2>4, FieldsScore
    <3>2. "exact" \notin Grades(row)
      BY <1>7, <3>1
    <3>3. Told(best) = 2
      BY <3>1 DEF Told
    <3> QED BY <1>1, <1>4, <1>10, <2>4, <3>2, <3>3
  <2>5. CASE g = "contains"
    <3>1. best \in 5..7
      BY <2>2, <2>5, FieldsScore
    <3>2. "exact" \notin Grades(row) /\ "prefix" \notin Grades(row)
      BY <1>7, <1>8, <3>1
    <3>3. Told(best) = 1
      BY <3>1 DEF Told
    <3> QED BY <1>1, <1>4, <1>10, <2>5, <3>2, <3>3
  <2>6. CASE g \notin {"exact", "prefix", "contains"}
    <3>1. best \in 0..3
      BY <2>2, <2>6, FieldsScore
    <3>2. "exact" \notin Grades(row) /\ "prefix" \notin Grades(row) /\ "contains" \notin Grades(row)
      BY <1>7, <1>8, <1>9, <3>1
    <3>3. Told(best) = 0
      BY <3>1 DEF Told
    <3> QED BY <1>1, <1>4, <1>10, <3>2, <3>3
  <2> QED BY <2>3, <2>4, <2>5, <2>6
<1> QED BY <1>11, <1>12

LEMMA ScoresInOrder ==
  ASSUME NEW r, NEW s, r.type \in Types, s.type \in Types, Score(r) >= Score(s)
  PROVE  BestGrade(r) >= BestGrade(s)
  BY ScoreTells DEF Told

-----------------------------------------------------------------------------
\* What was selected does not change while the rows do not.
LEMMA SelectedStays ==
  ASSUME UNCHANGED entry, NEW q
  PROVE  Selected(q)' = Selected(q)
  BY DEF Selected

LEMMA SearchStays ==
  ASSUME UNCHANGED <<entry, search>>, CountedAll, PagesAreWhole, FindsWhatWasAsked
  PROVE  CountedAll' /\ PagesAreWhole' /\ FindsWhatWasAsked'
<1>1. entry' = entry /\ search' = search
  OBVIOUS
<1>2. ASSUME NEW q
      PROVE  Selected(q)' = Selected(q)
  BY <1>1, SelectedStays
<1>3. CountedAll'
  BY <1>1, <1>2 DEF CountedAll
<1>4. PagesAreWhole'
  BY <1>1, <1>2 DEF PagesAreWhole
<1>5. FindsWhatWasAsked'
  BY <1>1 DEF FindsWhatWasAsked
<1> QED BY <1>3, <1>4, <1>5

LEMMA SpotStays ==
  ASSUME UNCHANGED <<entry, spot>>, AnsweredAll, SpotlightRanks
  PROVE  AnsweredAll' /\ SpotlightRanks'
<1>1. entry' = entry /\ spot' = spot
  OBVIOUS
<1>2. ASSUME NEW q
      PROVE  Selected(q)' = Selected(q)
  BY <1>1, SelectedStays
<1>3. AnsweredAll'
  BY <1>1, <1>2 DEF AnsweredAll
<1>4. SpotlightRanks'
  BY ONLY <1>1, <1>2, SpotlightRanks DEF SpotlightRanks
<1> QED BY <1>3, <1>4

SearchRecord ==
    [phase : {"count", "find", "found"}, q : AskedQuery, total : Nat,
     data : Seq(DOMAIN Entries), steady : BOOLEAN]

LEMMA SearchBegins ==
  ASSUME SearchAssumption, SearchInit
  PROVE  SearchInv
<1>1. search = NoSearch /\ spot = NoSpot /\ entry \in [DOMAIN Entries -> {"absent", "live", "deleted"}]
  BY DEF SearchInit
<1>2. SearchTypes
  <2>1. NoSpot \in SpotType({})
    <3>1. [type \in {} |-> 0] \in [{} -> Nat] /\ <<>> \in Seq(DOMAIN Entries)
      OBVIOUS
    <3> QED BY <3>1 DEF NoSpot, SpotType
  <2> QED BY <1>1, <2>1 DEF SearchTypes
<1>3. CountedAll /\ AnsweredAll
  BY <1>1 DEF NoSearch, NoSpot, CountedAll, AnsweredAll
<1>4. SearchSafety
  BY <1>1 DEF NoSearch, NoSpot, SearchSafety, FindsWhatWasAsked, PagesAreWhole, SpotlightRanks
<1> QED BY <1>2, <1>3, <1>4 DEF SearchInv

\* What is listed is in order, and as much as was counted.
Ranked(results, counts) ==
    /\ \A i, j \in DOMAIN results :
          i < j => BestGrade(Entries[results[i]]) >= BestGrade(Entries[results[j]])
    /\ \A type \in DOMAIN counts :
          Cardinality({i \in DOMAIN results : Entries[results[i]].type = type}) = counts[type]

\* A row that is made or goes: what is on its way is not steady any more.
LEMMA ChangeKeeps ==
  ASSUME SearchInv, NEW r \in DOMAIN Entries, ChangeEntry(r)
  PROVE  SearchInv'
<1>1. /\ search' = [search EXCEPT !.steady = search.phase = "idle"]
      /\ spot' = [spot EXCEPT !.steady = spot.phase = "idle"]
  BY DEF ChangeEntry
<1>2. /\ entry \in [DOMAIN Entries -> {"absent", "live", "deleted"}]
      /\ search = NoSearch \/ search \in SearchRecord
      /\ CountedAll /\ AnsweredAll /\ FindsWhatWasAsked /\ PagesAreWhole /\ SpotlightRanks
  BY DEF SearchInv, SearchTypes, SearchSafety, SearchRecord
<1>3. PICK answered \in SUBSET Types : spot \in SpotType(answered)
  BY DEF SearchInv, SearchTypes
<1>4. entry' \in [DOMAIN Entries -> {"absent", "live", "deleted"}]
  BY <1>2 DEF ChangeEntry
<1>5. search' = NoSearch \/ search' \in SearchRecord
  <2>1. CASE search = NoSearch
    BY <1>1, <2>1 DEF NoSearch
  <2>2. CASE search \in SearchRecord
    BY <1>1, <2>2 DEF SearchRecord
  <2> QED BY <1>2, <2>1, <2>2
<1>6. search'.phase = search.phase /\ search'.steady = (search.phase = "idle")
  BY <1>1, <1>2 DEF SearchRecord, NoSearch
<1>7. /\ spot' \in SpotType(answered)
      /\ spot'.phase = spot.phase /\ spot'.limit = spot.limit /\ spot'.waits = spot.waits
      /\ spot'.hits = spot.hits /\ spot'.counts = spot.counts /\ spot'.results = spot.results
      /\ spot'.steady = (spot.phase = "idle")
  BY <1>1, <1>3 DEF SpotType
<1>8. SearchTypes'
  BY <1>3, <1>4, <1>5, <1>7 DEF SearchTypes, SearchRecord
<1>9. CountedAll' /\ FindsWhatWasAsked' /\ PagesAreWhole'
  BY <1>2, <1>6 DEF CountedAll, FindsWhatWasAsked, PagesAreWhole
<1>10. AnsweredAll'
  BY <1>2, <1>7 DEF AnsweredAll, HitsOf
<1>11. SpotlightRanks'
  <2>1. spot.phase = "ranked" => Ranked(spot.results, spot.counts)
    BY <1>2 DEF SpotlightRanks, Ranked
  <2>2. spot'.phase = "ranked" => Ranked(spot'.results, spot'.counts) /\ ~spot'.steady
    BY <2>1, <1>7
  <2> QED BY <2>2 DEF SpotlightRanks, Ranked
<1> QED BY <1>8, <1>9, <1>10, <1>11 DEF SearchInv, SearchSafety

-----------------------------------------------------------------------------
\* The three steps of a search leave the spotlight as it is.
LEMMA Assembled ==
  ASSUME SearchInv, UNCHANGED <<entry, spot>>, search' \in SearchRecord,
         CountedAll', FindsWhatWasAsked', PagesAreWhole'
  PROVE  SearchInv'
<1>1. SearchTypes'
  BY DEF SearchInv, SearchTypes, SearchRecord
<1>2. AnsweredAll' /\ SpotlightRanks'
  BY SpotStays DEF SearchInv, SearchSafety
<1> QED BY <1>1, <1>2 DEF SearchInv, SearchSafety

LEMMA ParsedQuery ==
  ASSUME SearchAssumption, NEW request \in Searches
  PROVE  ParseQuery(request) \in AskedQuery
<1>1. request \in
         [type : Types, term : BOOLEAN, filters : SUBSET [field : STRING, op : STRING, value : Int],
          sort : Seq([field : STRING, dir : STRING]), page : Int, size : Int]
  BY DEF SearchAssumption
<1>2. Atoi(request.page) \in Int /\ Atoi(request.size) \in Int
  BY <1>1 DEF SearchAssumption, Atoi
<1>3. ParseFilters(request.filters) \in
        SUBSET [field : STRING, op : {"eq", "gte", "lte", "gt", "lt"}, value : Int]
  BY <1>1 DEF ParseFilters
<1> QED BY <1>1, <1>2, <1>3 DEF ParseQuery, AskedQuery

LEMMA BeginKeeps ==
  ASSUME SearchAssumption, SearchInv, BeginSearch
  PROVE  SearchInv'
<1>1. PICK request \in Searches :
        search' = [phase |-> "count", q |-> ParseQuery(request), total |-> 0, data |-> <<>>, steady |-> TRUE]
  BY DEF BeginSearch
<1>2. <<>> \in Seq(DOMAIN Entries) /\ ParseQuery(request) \in AskedQuery
  BY ParsedQuery
<1>3. search' \in SearchRecord /\ search'.phase = "count"
  BY <1>1, <1>2 DEF SearchRecord
<1>4. CountedAll' /\ FindsWhatWasAsked' /\ PagesAreWhole'
  BY <1>3 DEF CountedAll, FindsWhatWasAsked, PagesAreWhole
<1> QED BY <1>3, <1>4, Assembled DEF BeginSearch

LEMMA CountKeeps ==
  ASSUME SearchAssumption, SearchInv, CountMatches
  PROVE  SearchInv'
<1>1. search.phase = "count" /\ UNCHANGED <<entry, spot>>
  BY DEF CountMatches
<1>2. search' = [search EXCEPT !.phase = "find", !.total = Cardinality(Selected(search.q))]
  BY AlwaysWellFormed DEF CountMatches
<1>3. search \in SearchRecord
  BY <1>1 DEF SearchInv, SearchTypes, SearchRecord, NoSearch
<1>4. Cardinality(Selected(search.q)) \in Nat
  BY Chosen, FS_CardinalityType
<1>5. /\ search' \in SearchRecord /\ search'.phase = "find" /\ search'.q = search.q
      /\ search'.total = Cardinality(Selected(search.q))
  BY <1>2, <1>3, <1>4 DEF SearchRecord
<1>6. ASSUME NEW q
      PROVE  Selected(q)' = Selected(q)
  BY <1>1, SelectedStays
<1>7. CountedAll'
  BY <1>5, <1>6 DEF CountedAll
<1>8. FindsWhatWasAsked' /\ PagesAreWhole'
  BY <1>5 DEF FindsWhatWasAsked, PagesAreWhole
<1> QED BY <1>1, <1>5, <1>7, <1>8, Assembled

LEMMA FindKeeps ==
  ASSUME SearchAssumption, SearchInv, FindRows
  PROVE  SearchInv'
<1>1. search.phase = "find" /\ UNCHANGED <<entry, spot>>
  BY DEF FindRows
<1>2. search \in SearchRecord
  BY <1>1 DEF SearchInv, SearchTypes, SearchRecord, NoSearch
<1>3. PICK q \in AskedQuery : q = search.q
  BY <1>2 DEF SearchRecord
<1>4. PICK o \in Orderings(q, Selected(q)) :
        search' = [search EXCEPT !.phase = "found",
                     !.data = SearchPage(o, Offset(NormalPage(q.page), NormalSize(q.size)), NormalSize(q.size))]
  BY <1>3, Zenon DEF FindRows
<1>5. PICK data : data = SearchPage(o, Offset(NormalPage(q.page), NormalSize(q.size)), NormalSize(q.size))
  OBVIOUS
<1>6. /\ data \in Seq(DOMAIN Entries) /\ ToSet(data) \subseteq Selected(q)
      /\ WholePage(q, Cardinality(Selected(q)), data)
  BY <1>5, PageIsWhole
<1>7. /\ search' \in SearchRecord /\ search'.phase = "found" /\ search'.q = q
      /\ search'.total = search.total /\ search'.data = data /\ search'.steady = search.steady
  BY <1>2, <1>3, <1>4, <1>5, <1>6 DEF SearchRecord
<1>8. search.steady => search.total = Cardinality(Selected(q))
  BY <1>1, <1>3 DEF SearchInv, CountedAll
<1>9. Selected(q)' = Selected(q)
  BY <1>1, SelectedStays
<1>10. CountedAll'
  BY <1>7 DEF CountedAll
<1>11. FindsWhatWasAsked'
  <2>1. \A i \in DOMAIN data : data[i] \in Selected(q)
    BY <1>6 DEF ToSet
  <2>2. ASSUME NEW i \in DOMAIN data
        PROVE  LET row == Entries[data[i]]
               IN  /\ entry'[data[i]] = "live" /\ row.type = q.type
                   /\ q.term => \E f \in DOMAIN row.text : Matching(row.text[f])
                   /\ \A f \in q.filters :
                       (f.field = "created_at" /\ f.op # "eq") => Compare(row.col[f.field], f.op, f.value)
    BY <1>1, <2>1, FoundFits
  <2> QED BY <1>7, <2>2 DEF FindsWhatWasAsked
<1>12. PagesAreWhole'
  <2>1. search.steady => WholePage(q, search.total, data)
    BY <1>6, <1>8
  <2> QED BY <1>7, <1>9, <2>1 DEF PagesAreWhole, WholePage
<1> QED BY <1>1, <1>7, <1>10, <1>11, <1>12, Assembled

-----------------------------------------------------------------------------
LEMMA AssembledSpot ==
  ASSUME SearchInv, UNCHANGED <<entry, search>>, NEW answered \in SUBSET Types,
         spot' \in SpotType(answered), AnsweredAll', SpotlightRanks'
  PROVE  SearchInv'
<1>1. SearchTypes'
  BY DEF SearchInv, SearchTypes
<1>2. CountedAll' /\ FindsWhatWasAsked' /\ PagesAreWhole'
  BY SearchStays DEF SearchInv, SearchSafety
<1> QED BY <1>1, <1>2 DEF SearchInv, SearchSafety

LEMMA SpotLimits ==
  ASSUME SearchAssumption, NEW limit \in Int
  PROVE  SpotLimit(limit) \in 1..SpotMost
  BY DEF SearchAssumption, SpotLimit

LEMMA SpotBeginKeeps ==
  ASSUME SearchAssumption, SearchInv, BeginSpotlight
  PROVE  SearchInv'
<1>1. PICK request \in Spotlights :
        spot' = [NoSpot EXCEPT !.phase = "ask", !.limit = SpotLimit(request.limit),
                               !.waits = IF request.types = {} THEN Types
                                         ELSE request.types \cap Types]
  BY Zenon DEF BeginSpotlight
<1>2. UNCHANGED <<entry, search>>
  BY DEF BeginSpotlight
<1>3. request.limit \in Int
  BY DEF SearchAssumption
<1>4. PICK limit \in 1..SpotMost : limit = SpotLimit(request.limit)
  BY <1>3, SpotLimits
<1>5. PICK waits \in SUBSET Types : waits = IF request.types = {} THEN Types ELSE request.types \cap Types
  OBVIOUS
<1>6. /\ spot'.phase = "ask" /\ spot'.limit = limit /\ spot'.waits = waits /\ spot'.hits = {}
      /\ spot'.counts = [type \in {} |-> 0] /\ DOMAIN spot'.counts = {}
  BY <1>1, <1>4, <1>5 DEF NoSpot
<1>7. spot' \in SpotType({})
  <2>1. [type \in {} |-> 0] \in [{} -> Nat] /\ <<>> \in Seq(DOMAIN Entries)
    OBVIOUS
  <2>2. limit \in Nat
    BY DEF SearchAssumption
  <2>3. spot' = [phase |-> "ask", limit |-> limit, waits |-> waits, hits |-> {},
                 counts |-> [type \in {} |-> 0], results |-> <<>>, steady |-> TRUE]
    BY <1>1, <1>4, <1>5 DEF NoSpot
  <2> QED BY ONLY <2>1, <2>2, <2>3, <1>5 DEF SpotType
<1>8. AnsweredAll'
  BY <1>6 DEF AnsweredAll
<1>9. SpotlightRanks'
  BY ONLY <1>6 DEF SpotlightRanks
<1>10. {} \in SUBSET Types
  OBVIOUS
<1> QED BY ONLY SearchInv, <1>2, <1>7, <1>8, <1>9, <1>10, AssembledSpot

LEMMA MissKeeps ==
  ASSUME SearchInv, NEW type \in Types, MissSpotlight(type)
  PROVE  SearchInv'
<1>1. /\ spot.phase = "ask" /\ spot' = [spot EXCEPT !.waits = @ \ {type}]
      /\ UNCHANGED <<entry, search>>
  BY DEF MissSpotlight
<1>2. PICK answered \in SUBSET Types : spot \in SpotType(answered)
  BY DEF SearchInv, SearchTypes
<1>3. /\ spot' \in SpotType(answered) /\ spot'.phase = "ask" /\ spot'.limit = spot.limit
      /\ spot'.waits = spot.waits \ {type} /\ spot'.hits = spot.hits
      /\ spot'.counts = spot.counts /\ spot'.steady = spot.steady
  BY <1>1, <1>2 DEF SpotType
<1>4. ASSUME NEW q
      PROVE  Selected(q)' = Selected(q)
  BY <1>1, SelectedStays
<1>5. AnsweredAll'
  BY <1>1, <1>3, <1>4 DEF SearchInv, AnsweredAll, HitsOf
<1>6. SpotlightRanks'
  BY <1>3 DEF SpotlightRanks
<1> QED BY <1>1, <1>3, <1>5, <1>6, AssembledSpot

\* A resource gives all it has, up to the limit.
LEMMA GivesAll ==
  ASSUME SearchAssumption, NEW type \in Types, NEW limit \in 1..SpotMost,
         NEW o \in Orderings(SpotQuery(type, limit), Selected(SpotQuery(type, limit))),
         NEW hits, hits = ToSet(SearchPage(o, 0, NormalSize(limit)))
  PROVE  /\ hits \subseteq DOMAIN Entries /\ \A r \in hits : Entries[r].type = type
         /\ Cardinality(hits) \in Nat
         /\ LET all == Cardinality(Selected(SpotQuery(type, 1)))
            IN  Cardinality(hits) = IF all < limit THEN all ELSE limit
<1>1. PICK S : S = Selected(SpotQuery(type, limit))
  OBVIOUS
<1>2. S = Selected(SpotQuery(type, 1))
  BY <1>1 DEF Selected, SpotQuery, Applied, OperatorAllowed
<1>3. S \subseteq DOMAIN Entries /\ IsFiniteSet(S) /\ \A r \in S : Entries[r].type = type
  BY <1>1, Chosen DEF SpotQuery
<1>4. PICK n \in Nat : n = Cardinality(S)
  BY <1>3, FS_CardinalityType
<1>5. NormalSize(limit) = limit /\ limit \in Nat
  BY DEF NormalSize, SearchAssumption
<1>6. o \in SetToSeqs(S)
  BY <1>1 DEF Orderings
<1>7. PICK data : data = SearchPage(o, 0, limit)
  OBVIOUS
<1>8. IsPageOf(data, o, n, 0, limit, S) /\ ToSet(data) \subseteq S /\ Cardinality(ToSet(data)) = Len(data)
  <2>1. limit \in Nat /\ 0 \in Nat /\ IsFiniteSet(S)
    BY <1>3, <1>5
  <2> QED BY ONLY <2>1, <1>4, <1>6, <1>7, PageOnce
<1>9. hits = ToSet(data)
  BY <1>5, <1>7
<1>10. Len(data) = IF n < limit THEN n ELSE limit
  BY <1>5, <1>8 DEF IsPageOf
<1>11. hits \subseteq DOMAIN Entries /\ \A r \in hits : Entries[r].type = type
  BY <1>3, <1>8, <1>9
<1> QED BY <1>2, <1>4, <1>5, <1>8, <1>9, <1>10, <1>11

LEMMA AnswerKeeps ==
  ASSUME SearchAssumption, SearchInv, NEW type \in Types, AnswerSpotlight(type)
  PROVE  SearchInv'
<1>1. spot.phase = "ask" /\ type \in spot.waits /\ UNCHANGED <<entry, search>>
  BY DEF AnswerSpotlight
<1>2. PICK answered \in SUBSET Types : spot \in SpotType(answered)
  BY Zenon DEF SearchInv, SearchTypes
<1>3. PICK o \in Orderings(SpotQuery(type, spot.limit), Selected(SpotQuery(type, spot.limit))) :
        LET hits == ToSet(SearchPage(o, 0, NormalSize(spot.limit)))
        IN  spot' = [spot EXCEPT !.waits = @ \ {type}, !.hits = @ \cup hits,
                                 !.counts = [t \in DOMAIN @ \cup {type} |->
                                                IF t = type THEN Cardinality(hits) ELSE @[t]]]
  BY Zenon DEF AnswerSpotlight
<1>4. PICK hits : hits = ToSet(SearchPage(o, 0, NormalSize(spot.limit)))
  OBVIOUS
<1>5. /\ spot.limit \in 1..SpotMost /\ spot.waits \cap DOMAIN spot.counts = {}
      /\ \A r \in spot.hits : Entries[r].type \in DOMAIN spot.counts
      /\ \A t \in DOMAIN spot.counts :
            LET all == Cardinality(Selected(SpotQuery(t, 1)))
            IN  /\ Cardinality(HitsOf(spot.hits, t)) = spot.counts[t]
                /\ spot.steady => spot.counts[t] = IF all < spot.limit THEN all ELSE spot.limit
  BY <1>1 DEF SearchInv, AnsweredAll
<1>6. /\ hits \subseteq DOMAIN Entries /\ \A r \in hits : Entries[r].type = type
      /\ Cardinality(hits) \in Nat
      /\ LET all == Cardinality(Selected(SpotQuery(type, 1)))
         IN  Cardinality(hits) = IF all < spot.limit THEN all ELSE spot.limit
  BY <1>4, <1>5, GivesAll
<1>7. PICK n \in Nat : n = Cardinality(hits)
  BY <1>6
<1>8. PICK counts : counts = [t \in DOMAIN spot.counts \cup {type} |-> IF t = type THEN n ELSE spot.counts[t]]
  OBVIOUS
<1>9. spot' = [spot EXCEPT !.waits = @ \ {type}, !.hits = @ \cup hits, !.counts = counts]
  BY <1>3, <1>4, <1>7, <1>8
<1>10. spot.counts \in [answered -> Nat] /\ DOMAIN spot.counts = answered
  BY <1>2 DEF SpotType
<1>11. counts \in [answered \cup {type} -> Nat] /\ DOMAIN counts = answered \cup {type}
  BY <1>8, <1>10
<1>12. /\ spot' \in SpotType(answered \cup {type}) /\ spot'.phase = "ask" /\ spot'.limit = spot.limit
       /\ spot'.waits = spot.waits \ {type} /\ spot'.hits = spot.hits \cup hits
       /\ spot'.counts = counts /\ spot'.steady = spot.steady
  BY <1>1, <1>2, <1>6, <1>9, <1>11 DEF SpotType
<1>13. type \notin answered
  BY <1>1, <1>5, <1>10
<1>14. HitsOf(spot'.hits, type) = hits /\ \A t \in answered : HitsOf(spot'.hits, t) = HitsOf(spot.hits, t)
  BY <1>5, <1>6, <1>10, <1>12, <1>13 DEF HitsOf
<1>15. counts[type] = n /\ \A t \in answered : counts[t] = spot.counts[t]
  BY <1>8, <1>10, <1>13
<1>16. ASSUME NEW q
       PROVE  Selected(q)' = Selected(q)
  BY <1>1, SelectedStays
<1>17. AnsweredAll'
  <2>1. spot'.limit \in 1..SpotMost /\ spot'.waits \cap DOMAIN spot'.counts = {}
    BY <1>5, <1>10, <1>11, <1>12
  <2>2. \A r \in spot'.hits : Entries[r].type \in DOMAIN spot'.counts
    BY <1>5, <1>6, <1>10, <1>11, <1>12
  <2>3. ASSUME NEW t \in DOMAIN counts
        PROVE  /\ Cardinality(HitsOf(spot'.hits, t)) = counts[t]
               /\ spot.steady => counts[t] = IF Cardinality(Selected(SpotQuery(t, 1))) < spot.limit
                                             THEN Cardinality(Selected(SpotQuery(t, 1))) ELSE spot.limit
    <3>1. CASE t = type
      BY <3>1, <1>6, <1>7, <1>14, <1>15
    <3>2. CASE t \in answered
      BY <3>2, <1>5, <1>10, <1>14, <1>15
    <3> QED BY <3>1, <3>2, <1>11
  <2> QED BY <2>1, <2>2, <2>3, <1>12, <1>16 DEF AnsweredAll
<1>18. SpotlightRanks'
  BY <1>12 DEF SpotlightRanks
<1>19. answered \cup {type} \in SUBSET Types
  OBVIOUS
<1> QED BY <1>1, <1>12, <1>17, <1>18, <1>19, AssembledSpot

\* In a list of what is there, as many are of a kind as are there.
LEMMA AsManyOf ==
  ASSUME NEW S, IsFiniteSet(S), NEW o \in SetToSeqs(S), NEW T \in SUBSET S
  PROVE  Cardinality({i \in DOMAIN o : o[i] \in T}) = Cardinality(T)
<1>1. PICK n \in Nat : n = Cardinality(S)
  BY FS_CardinalityType
<1>2. o \in [1..n -> S] /\ (\A i, j \in 1..n : o[i] = o[j] => i = j) /\ \A x \in S : \E i \in 1..n : o[i] = x
  BY <1>1, InARow, InARowOnce
<1>3. PICK I : I = {i \in 1..n : o[i] \in T}
  OBVIOUS
<1>4. PICK f : f = [i \in I |-> o[i]]
  OBVIOUS
<1>5. f \in Bijection(I, T)
  <2>1. f \in [I -> T]
    BY <1>3, <1>4
  <2>2. \A i, j \in I : f[i] = f[j] => i = j
    BY <1>2, <1>3, <1>4
  <2>3. \A t \in T : \E i \in I : f[i] = t
    BY <1>2, <1>3, <1>4
  <2> QED BY <2>1, <2>2, <2>3 DEF Bijection, Injection, Surjection, IsInjective
<1>6. IsFiniteSet(I)
  BY <1>3, FS_Interval, FS_Subset
<1>7. Cardinality(T) = Cardinality(I)
  BY <1>5, <1>6, FS_Bijection DEF ExistsBijection
<1> QED BY <1>2, <1>3, <1>7

LEMMA RankKeeps ==
  ASSUME SearchAssumption, SearchInv, RankSpotlight
  PROVE  SearchInv'
<1>1. spot.phase = "ask" /\ UNCHANGED <<entry, search>>
  BY DEF RankSpotlight
<1>2. PICK answered \in SUBSET Types : spot \in SpotType(answered)
  BY DEF SearchInv, SearchTypes
<1>3. PICK o \in SetToSeqs(spot.hits) :
        /\ \A i, j \in DOMAIN o : i < j => Score(Entries[o[i]]) >= Score(Entries[o[j]])
        /\ spot' = [spot EXCEPT !.phase = "ranked", !.results = o, !.hits = {}]
  BY Zenon DEF RankSpotlight
<1>4. spot.hits \subseteq DOMAIN Entries /\ IsFiniteSet(spot.hits)
  <2>1. spot.hits \subseteq DOMAIN Entries
    BY <1>2 DEF SpotType
  <2> QED BY <2>1, FS_Subset DEF SearchAssumption
<1>5. o \in Seq(spot.hits) /\ \A i \in DOMAIN o : o[i] \in spot.hits
  <2>1. o \in Seq(spot.hits)
    BY <1>4, InARow
  <2> QED BY <2>1, ElementOfSeq, LenProperties
<1>6. o \in Seq(DOMAIN Entries)
  BY <1>4, <1>5
<1>7. /\ spot' \in SpotType(answered) /\ spot'.phase = "ranked" /\ spot'.limit = spot.limit
      /\ spot'.counts = spot.counts /\ spot'.results = o /\ spot'.steady = spot.steady
  BY <1>2, <1>3, <1>6 DEF SpotType
<1>8. \A i, j \in DOMAIN o : i < j => BestGrade(Entries[o[i]]) >= BestGrade(Entries[o[j]])
  <2>1. \A i \in DOMAIN o : Entries[o[i]].type \in Types
    BY <1>4, <1>5 DEF SearchAssumption
  <2> QED BY <2>1, <1>3, ScoresInOrder
<1>9. \A type \in DOMAIN spot.counts :
        LET all == Cardinality(Selected(SpotQuery(type, 1)))
        IN  /\ Cardinality(HitsOf(spot.hits, type)) = spot.counts[type]
            /\ spot.steady => spot.counts[type] = IF all < spot.limit THEN all ELSE spot.limit
  BY <1>1 DEF SearchInv, AnsweredAll
<1>10. \A type \in DOMAIN spot.counts :
         Cardinality({i \in DOMAIN o : Entries[o[i]].type = type}) = spot.counts[type]
  <2> TAKE type \in DOMAIN spot.counts
  <2>1. {i \in DOMAIN o : Entries[o[i]].type = type} = {i \in DOMAIN o : o[i] \in HitsOf(spot.hits, type)}
    BY <1>5 DEF HitsOf
  <2>2. HitsOf(spot.hits, type) \in SUBSET spot.hits
    BY DEF HitsOf
  <2> QED BY <2>1, <2>2, <1>4, <1>9, AsManyOf
<1>11. ASSUME NEW q
       PROVE  Selected(q)' = Selected(q)
  BY <1>1, SelectedStays
<1>12. SpotlightRanks'
  <2>1. Ranked(spot'.results, spot'.counts)
    BY <1>7, <1>8, <1>10 DEF Ranked
  <2> QED BY <2>1, <1>7, <1>9, <1>11 DEF SpotlightRanks, Ranked
<1>13. AnsweredAll'
  BY <1>7 DEF AnsweredAll
<1> QED BY <1>1, <1>7, <1>12, <1>13, AssembledSpot

THEOREM SearchIsSafe == SearchSpec => []SearchSafety
<1>1. SearchInit => SearchInv
  BY SearchAssumption, SearchBegins
<1>2. SearchInv /\ [SearchNext]_searchVars => SearchInv'
  <2> SUFFICES ASSUME SearchInv, [SearchNext]_searchVars
               PROVE  SearchInv'
    OBVIOUS
  <2>1. ASSUME NEW r \in DOMAIN Entries, ChangeEntry(r)
        PROVE  SearchInv'
    BY <2>1, ChangeKeeps
  <2>2. CASE BeginSearch
    BY <2>2, SearchAssumption, BeginKeeps
  <2>3. CASE CountMatches
    BY <2>3, SearchAssumption, CountKeeps
  <2>4. CASE FindRows
    BY <2>4, SearchAssumption, FindKeeps
  <2>5. CASE BeginSpotlight
    BY <2>5, SearchAssumption, SpotBeginKeeps
  <2>6. CASE RankSpotlight
    BY <2>6, SearchAssumption, RankKeeps
  <2>7. ASSUME NEW type \in Types, AnswerSpotlight(type)
        PROVE  SearchInv'
    BY <2>7, SearchAssumption, AnswerKeeps
  <2>8. ASSUME NEW type \in Types, MissSpotlight(type)
        PROVE  SearchInv'
    BY <2>8, MissKeeps
  <2>9. CASE UNCHANGED searchVars
    <3>1. UNCHANGED <<entry, search, spot>>
      BY <2>9 DEF searchVars
    <3>2. CountedAll' /\ PagesAreWhole' /\ FindsWhatWasAsked' /\ AnsweredAll' /\ SpotlightRanks'
      BY <3>1, SearchStays, SpotStays DEF SearchInv, SearchSafety
    <3>3. SearchTypes'
      BY <3>1 DEF SearchInv, SearchTypes
    <3> QED BY <3>2, <3>3 DEF SearchInv, SearchSafety
  <2> QED BY <2>1, <2>2, <2>3, <2>4, <2>5, <2>6, <2>7, <2>8, <2>9 DEF SearchNext, FindNext, SpotNext
<1>3. SearchInv => SearchSafety
  BY DEF SearchInv
<1> QED BY <1>1, <1>2, <1>3, PTL DEF SearchSpec
===============================================================================
