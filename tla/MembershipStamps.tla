--------------------------- MODULE MembershipStamps ---------------------------
(***************************************************************************)
(* Consent: stamps are only ever added, the status of a channel is the     *)
(* action of the newest stamp that speaks for it, and a stamp that would   *)
(* not change the status is not stored.  Stamps carry the time at which    *)
(* the person acted and arrive in any order.                               *)
(***************************************************************************)
EXTENDS Integers, Sequences

CONSTANTS
    Members,     \* contacts
    Channels,    \* channels other than "all"
    StampTasks,  \* requests under way
    MaxTime,     \* bound on the times of stamps; every request has its own
    NoMember     \* no contact

ASSUME MembershipAssumption ==
    /\ "all" \notin Channels
    /\ MaxTime \in Nat
    /\ NoMember \notin Members

VARIABLES
    asked,      \* contact -> what was asked for and confirmed, in that order,
                \* and whether it was stored
    stampTask   \* the requests

stampVars == <<asked, stampTask>>

AllChannels == Channels \cup {"all"}
Actions == {"opt_in", "opt_out"}
Stamp == [channel : AllChannels, action : Actions, time : 1..MaxTime, kept : {"no", "yes"}]

StampTask == [at : {"idle", "save", "insert"}, contact : Members \cup {NoMember},
              channel : AllChannels, action : Actions, time : 0..MaxTime]
IdleStampTask == [at |-> "idle", contact |-> NoMember, channel |-> "all",
                  action |-> "opt_in", time |-> 0]

\* membership_stamps
Stamps(c) == {asked[c][i] : i \in {j \in DOMAIN asked[c] : asked[c][j].kept = "yes"}}

\* A channel is spoken for by its own stamps and those for all; "all" by its
\* own only.
SpeaksFor(stamp, channel) == stamp.channel \in {channel, "all"}

Newest(S) == CHOOSE s \in S : \A r \in S : r.time <= s.time
StampsFor(c, channel) == {s \in Stamps(c) : SpeaksFor(s, channel)}
LatestStatus(c, channel) == Newest(StampsFor(c, channel)).action

TimesTaken ==
    {stampTask[t].time : t \in StampTasks}
        \cup UNION {{asked[c][i].time : i \in DOMAIN asked[c]} : c \in Members}

------------------------------------------------------------------------------

\* Stamp: by a person, an import, a complaint; the time may be any.
RequestStamp(t) ==
    /\ stampTask[t].at = "idle"
    /\ \E c \in Members, ch \in AllChannels, a \in Actions, w \in (1..MaxTime) \ TimesTaken :
         stampTask' = [stampTask EXCEPT ![t] =
                         [at |-> "save", contact |-> c, channel |-> ch, action |-> a, time |-> w]]
    /\ UNCHANGED asked

Confirm(t, kept) ==
    LET k == stampTask[t]
    IN  /\ asked' = [asked EXCEPT ![k.contact] =
                       Append(@, [channel |-> k.channel, action |-> k.action,
                                  time |-> k.time, kept |-> kept])]
        /\ stampTask' = [stampTask EXCEPT ![t] = IdleStampTask]

\* Mutant: a stamp is taken for known when its action has been seen before.
SeenBefore(k) == \E s \in StampsFor(k.contact, k.channel) : s.action = k.action

\* The status is what the stamp asks for already.
ChangesNothing(k) == LatestStatus(k.contact, k.channel) = k.action

\* SaveStamp: the latest stamp is read and locked, and held to the end of the
\* transaction.
SaveStamp(t) ==
    LET k == stampTask[t]
    IN  /\ k.at = "save"
        /\ StampsFor(k.contact, k.channel) # {}
        /\ Confirm(t, IF ChangesNothing(k) THEN "no" ELSE "yes")

\* Without a stamp there is nothing to lock.
FindNoStamp(t) ==
    /\ stampTask[t].at = "save"
    /\ StampsFor(stampTask[t].contact, stampTask[t].channel) = {}
    /\ stampTask' = [stampTask EXCEPT ![t].at = "insert"]
    /\ UNCHANGED asked

InsertFirstStamp(t) ==
    /\ stampTask[t].at = "insert"
    /\ Confirm(t, "yes")

\* A statement fails, or a deadlock ends the transaction.
FailStamp(t) ==
    /\ stampTask[t].at # "idle"
    /\ stampTask' = [stampTask EXCEPT ![t] = IdleStampTask]
    /\ UNCHANGED asked

StampInit ==
    /\ asked = [c \in Members |-> <<>>]
    /\ stampTask = [t \in StampTasks |-> IdleStampTask]

StampNext ==
    \E t \in StampTasks :
        \/ RequestStamp(t) \/ SaveStamp(t) \/ FindNoStamp(t)
        \/ InsertFirstStamp(t) \/ FailStamp(t)

StampSpec == StampInit /\ [][StampNext]_stampVars

------------------------------------------------------------------------------
(* Properties *)

StampTypes ==
    /\ asked \in [Members -> Seq(Stamp)]
    /\ stampTask \in [StampTasks -> StampTask]

AskedFor(c, channel) == {asked[c][i] : i \in {j \in DOMAIN asked[c] : SpeaksFor(asked[c][j], channel)}}

\* Nothing older arrived after a stamp that was not stored, and none for all
\* channels was dropped: it is compared with stamps for all only.
Orderly(c) ==
    \A i \in DOMAIN asked[c] : asked[c][i].kept = "no" =>
        /\ asked[c][i].channel # "all"
        /\ \A j \in DOMAIN asked[c] : i < j => asked[c][i].time < asked[c][j].time

\* The status of a channel is what the person asked for last by his own clock,
\* in whatever order the stamps arrived, overlapped or were dropped as known,
\* except behind a dropped stamp that an older one or another channel's outdoes
\* (repository.go, SaveStamp).
StatusIsNewest ==
    \A c \in Members : Orderly(c) =>
        \A ch \in AllChannels : AskedFor(c, ch) # {} =>
            /\ StampsFor(c, ch) # {}
            /\ LatestStatus(c, ch) = Newest(AskedFor(c, ch)).action

\* No stamp is dropped as known that was the first to speak for its channel.
FirstIsKept ==
    \A c \in Members : asked[c] # <<>> => asked[c][1].kept = "yes"

StampSafety == StampTypes /\ StatusIsNewest /\ FirstIsKept

------------------------------------------------------------------------------
(* The inductive invariant behind StampSafety. *)

\* Stamps with one time are one stamp, and no request under way has its time.
OwnTimes ==
    /\ \A c \in Members : \A i, j \in DOMAIN asked[c] :
         asked[c][i].time = asked[c][j].time => i = j
    /\ \A t \in StampTasks : stampTask[t].at # "idle" =>
         /\ stampTask[t].contact \in Members /\ stampTask[t].time \in 1..MaxTime
         /\ \A c \in Members : \A i \in DOMAIN asked[c] : asked[c][i].time # stampTask[t].time
         /\ \A u \in StampTasks :
              stampTask[u].at # "idle" /\ stampTask[u].time = stampTask[t].time => u = t

HasNewest(S) == S # {} => \E s \in S : \A r \in S : r.time <= s.time

StampInv ==
    /\ StampSafety /\ OwnTimes
    /\ \A c \in Members, ch \in AllChannels :
         HasNewest(AskedFor(c, ch)) /\ HasNewest(StampsFor(c, ch))
==============================================================================
