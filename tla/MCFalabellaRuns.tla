---------------------------- MODULE MCFalabellaRuns ----------------------------
(* The Falabella integration and the run records its synchronisations write.   *)
(* Neither reads the other's state, so interleaving their steps would add      *)
(* nothing but states: one of them, the focus, is picked at the start and runs. *)
EXTENDS FalabellaSync, SyncRuns

VARIABLE focus

allVars == <<falabellaVars, runVars, focus>>

FeedStep(A) == focus = "feeds" /\ A /\ UNCHANGED <<runVars, focus>>
RunStep(A) == focus = "runs" /\ A /\ UNCHANGED <<falabellaVars, focus>>

Init == FalabellaInit /\ RunsInit /\ focus \in {"feeds", "runs"}

Next == FeedStep(FalabellaNext) \/ RunStep(RunsNext)

\* Seller Center works its feeds off, cron keeps ticking, a tick gets to read
\* the status of a feed now and then, and retention is run.
Fairness ==
    /\ \A f \in FeedIds : WF_allVars(FeedStep(FinishFeed(f)))
    /\ \A r \in Ticks :
         /\ WF_allVars(FeedStep(Tick(r)))
         /\ \A f \in FeedIds :
              /\ SF_allVars(FeedStep(ReadStatus(r, f)))
              /\ WF_allVars(FeedStep(WriteStatus(r, f)))
    /\ WF_allVars(RunStep(CleanupBefore(MaxRuns)))

Spec == Init /\ [][Next]_allVars /\ Fairness
===============================================================================
