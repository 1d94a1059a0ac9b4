-------------------------- MODULE ScheduledRunStore --------------------------
(***************************************************************************)
(* The job_runs table and the job's row of jobs/store.go, as operators on  *)
(* their values.  Every method is one transaction on one connection.       *)
(*                                                                         *)
(* A run is named by its execution and its attempt.  Times are logical:    *)
(* only their order, and that the runs of one fan-out share theirs,        *)
(* matters to the store.                                                   *)
(***************************************************************************)
EXTENDS Naturals, FiniteSets, FiniteSetsExt

ActiveStatuses == {"queued", "pending", "running"}
TerminalStatuses == {"success", "failed", "canceled", "denied"}

\* "none": not inserted yet; "gone": deleted together with its job.
RunStatuses == ActiveStatuses \cup TerminalStatuses \cup {"none", "gone"}

JobStates == {"enabled", "disabled", "deleted"}

NoRun == [status |-> "none", startedAt |-> 0]

\* The first status of this sequence that a run of the batch has is the batch's.
StatusOrder == <<"running", "pending", "queued", "failed", "denied", "canceled", "success">>

\* Mutant: one success is enough.
BatchStatusOptimistic(runs, t) ==
    LET seen == {runs[r].status : r \in {q \in DOMAIN runs : runs[q].startedAt = t}}
    IN  IF "success" \in seen THEN "success" ELSE "failed"

BatchStatus(runs, t) ==
    LET seen == {runs[r].status : r \in {q \in DOMAIN runs : runs[q].startedAt = t}}
    IN  StatusOrder[Min({i \in 1..7 : StatusOrder[i] \in seen \/ i = 7})]

\* updateJobStatusForLatestBatch: only a run of the latest batch has a say, and only
\* while last_run_at is that batch.
UpdateJobStatus(runs, job, t) ==
    LET latest == Max({runs[r].startedAt : r \in DOMAIN runs})
    IN  IF t = latest /\ job.lastRunAt = latest
        THEN [job EXCEPT !.lastStatus = BatchStatus(runs, latest)]
        ELSE job

\* Mutant: the row's present status is not compared.
CanTransitionAny(runs, r, from) == runs[r].status # "none"

CanTransition(runs, r, from) == runs[r].status \in from

MovedRuns(runs, r, to) == [runs EXCEPT ![r].status = to]

\* RecordRunStart sets last_run_at and last_status whatever they are.
RecordedRuns(runs, r, t, status) == [runs EXCEPT ![r] = [status |-> status, startedAt |-> t]]
RecordedJob(job, t, status) == [job EXCEPT !.lastRunAt = t, !.lastStatus = status]

ListActiveRunsByJob(runs) == {r \in DOMAIN runs : runs[r].status \in ActiveStatuses}

\* DELETE FROM jobs cascades to job_runs.
DeletedRuns(runs) ==
    [r \in DOMAIN runs |-> IF runs[r].status = "none" THEN runs[r]
                           ELSE [status |-> "gone", startedAt |-> 0]]
=============================================================================
