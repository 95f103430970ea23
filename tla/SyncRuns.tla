------------------------------- MODULE SyncRuns -------------------------------
(***************************************************************************)
(* The run records of the synchronisations: what a sync writes about       *)
(* itself before and after its work, and the cron job that deletes old     *)
(* records.  The recorder's statements are steps of their own: a run may   *)
(* be deleted, or the process may die, between any two of them.            *)
(***************************************************************************)
EXTENDS Integers, Sequences

CONSTANTS
    Syncs,         \* goroutines that run synchronisations
    MaxRuns,       \* bound on the runs started
    MaxRunCrashes  \* bound on the crashes of the process

RunIds == 1..MaxRuns
NoRun == 0

ASSUME RunsAssumption == MaxRuns \in Nat /\ MaxRunCrashes \in Nat

VARIABLES
    runs,      \* sync_runs and sync_run_errors, by the order of started_at
    sync,      \* the goroutines
    runCrashes \* crashes so far

runVars == <<runs, sync, runCrashes>>

------------------------------------------------------------------------------
(* The store *)

RunStatuses == {"running", "completed", "failed", "deleted"}

\* A run with its error rows, the derived error_count, and what became of the
\* work it stands for (known to the goroutine, not to the table).
Run == [status : RunStatuses, errors : {0, 1}, errorCount : {0, 1},
        work : {"unknown", "ok", "bad"}]

CreateRun ==
    runs' = Append(runs, [status |-> "running", errors |-> 0, errorCount |-> 0,
                          work |-> "unknown"])

\* An error row needs its run.
AddRunErrors(r) ==
    /\ runs[r].status # "deleted"
    /\ runs' = [runs EXCEPT ![r].errors = 1]

CompleteInput(w) == IF sync[w].outcome = "ok" THEN "completed" ELSE "failed"

\* UPDATE ... WHERE status = 'running'.
CompleteRun(r, status) ==
    /\ runs[r].status = "running"
    /\ runs' = [runs EXCEPT ![r].status = status]

RecalculateErrorCount(r) ==
    runs' = [runs EXCEPT ![r].errorCount =
               IF runs[r].status = "deleted" THEN 0 ELSE runs[r].errors]

------------------------------------------------------------------------------
(* Goroutines *)

SyncStages == {"idle", "work", "errors", "finish", "recount"}
SyncState == [at : SyncStages, run : RunIds \cup {NoRun},
              outcome : {"unknown", "ok", "bad"}]
IdleSync == [at |-> "idle", run |-> NoRun, outcome |-> "unknown"]

EndRun(w) == sync' = [sync EXCEPT ![w] = IdleSync]

\* A kind or trigger that is not known, or a failed insert, leaves a sync
\* without a run; it works all the same.
StartRun(w) ==
    /\ sync[w].at = "idle"
    /\ \/ /\ Len(runs) < MaxRuns
          /\ CreateRun
          /\ sync' = [sync EXCEPT ![w].at = "work", ![w].run = Len(runs) + 1]
       \/ /\ sync' = [sync EXCEPT ![w].at = "work"]
          /\ UNCHANGED runs
    /\ UNCHANGED runCrashes

\* The work ends; without a run there is nothing to record.
Work(w) ==
    /\ sync[w].at = "work"
    /\ \E o \in {"ok", "bad"} :
         IF sync[w].run = NoRun
         THEN EndRun(w) /\ UNCHANGED runs
         ELSE /\ sync' = [sync EXCEPT ![w].outcome = o,
                                      ![w].at = IF o = "ok" THEN "finish" ELSE "errors"]
              /\ runs' = [runs EXCEPT ![sync[w].run].work = o]
    /\ UNCHANGED runCrashes

\* Mutant: the run is failed even if its errors could not be inserted.
InsertErrorsAnyhow(w) ==
    /\ sync[w].at = "errors"
    /\ sync' = [sync EXCEPT ![w].at = "finish"]
    /\ AddRunErrors(sync[w].run) \/ UNCHANGED runs
    /\ UNCHANGED runCrashes

\* FailRun inserts the error rows first and gives up if it cannot.
InsertErrors(w) ==
    /\ sync[w].at = "errors"
    /\ \/ /\ AddRunErrors(sync[w].run)
          /\ sync' = [sync EXCEPT ![w].at = "finish"]
       \/ EndRun(w) /\ UNCHANGED runs
    /\ UNCHANGED runCrashes

\* The terminal status; ErrRunNotFound, ErrRunAlreadyFinished, a failed
\* statement or an expired context end it, and the caller ignores the error.
FinishRun(w) ==
    /\ sync[w].at = "finish"
    /\ \/ /\ CompleteRun(sync[w].run, CompleteInput(w))
          /\ sync' = [sync EXCEPT ![w].at = "recount"]
       \/ EndRun(w) /\ UNCHANGED runs
    /\ UNCHANGED runCrashes

Recount(w) ==
    /\ sync[w].at = "recount"
    /\ RecalculateErrorCount(sync[w].run) \/ UNCHANGED runs
    /\ EndRun(w)
    /\ UNCHANGED runCrashes

------------------------------------------------------------------------------
(* Retention *)

\* Mutant: only finished runs are deleted.
CleanupFinished(cut) ==
    /\ \E r \in 1..cut : r \in DOMAIN runs /\ runs[r].status \in {"completed", "failed"}
    /\ runs' = [r \in DOMAIN runs |->
                  IF r <= cut /\ runs[r].status # "running"
                  THEN [runs[r] EXCEPT !.status = "deleted", !.errors = 0, !.errorCount = 0]
                  ELSE runs[r]]
    /\ UNCHANGED <<sync, runCrashes>>

\* Every run started before the cutoff is deleted, its error rows with it,
\* whatever its status.
CleanupBefore(cut) ==
    /\ \E r \in 1..cut : r \in DOMAIN runs /\ runs[r].status # "deleted"
    /\ runs' = [r \in DOMAIN runs |->
                  IF r <= cut
                  THEN [runs[r] EXCEPT !.status = "deleted", !.errors = 0, !.errorCount = 0]
                  ELSE runs[r]]
    /\ UNCHANGED <<sync, runCrashes>>

CrashRuns ==
    /\ runCrashes < MaxRunCrashes
    /\ runCrashes' = runCrashes + 1
    /\ sync' = [w \in Syncs |-> IdleSync]
    /\ UNCHANGED runs

------------------------------------------------------------------------------

RunsInit ==
    /\ runs = <<>>
    /\ sync = [w \in Syncs |-> IdleSync]
    /\ runCrashes = 0

RunsNext ==
    \/ \E w \in Syncs :
         StartRun(w) \/ Work(w) \/ InsertErrors(w) \/ FinishRun(w) \/ Recount(w)
    \/ \E cut \in RunIds : CleanupBefore(cut)
    \/ CrashRuns

RunsSpec == RunsInit /\ [][RunsNext]_runVars

------------------------------------------------------------------------------
(* Properties *)

RunTypes ==
    /\ runs \in Seq(Run) /\ Len(runs) <= MaxRuns
    /\ sync \in [Syncs -> SyncState]
    /\ runCrashes \in 0..MaxRunCrashes

\* A record never says more than what happened: a run is completed only if its
\* work succeeded, failed only if it failed and its error rows are in, and
\* error_count never counts a row that is not there, although status, rows and
\* count are written by separate statements between which the run may be
\* deleted (service.go, repository.go).
RunsTellTheTruth ==
    \A r \in DOMAIN runs :
        /\ runs[r].status = "completed" => runs[r].work = "ok" /\ runs[r].errors = 0
        /\ runs[r].status = "failed" => runs[r].work = "bad" /\ runs[r].errors = 1
        /\ runs[r].errors = 1 => runs[r].work = "bad"
        /\ runs[r].errorCount <= runs[r].errors

\* Each run is written by the goroutine that started it and no other.
OneWriter ==
    \A v, w \in Syncs :
        sync[v].run = sync[w].run /\ sync[v].run # NoRun => v = w

RunLedger == RunTypes /\ RunsTellTheTruth /\ OneWriter

StillRunning(r) == r \in DOMAIN runs /\ runs[r].status = "running"

\* A run whose process died, or whose last statement failed, stays running
\* until retention deletes it; none stays running for ever (service_cleanup.go).
RunsEnd == \A r \in RunIds : StillRunning(r) ~> ~StillRunning(r)
==============================================================================
