---------------------------- MODULE JobDefinitions ----------------------------
(***************************************************************************)
(* The definitions of scheduled jobs: the handlers of jobs/handlers.go for *)
(* /api/v1/jobs and the jobs table of jobs/store.go, with the runs that    *)
(* write to the same rows.                                                 *)
(*                                                                         *)
(* Every handler that names a job first reads it (GetJobCheckWorkspace)    *)
(* and then acts in a second statement; between the two, other handlers    *)
(* and runs go on.  How runs are dispatched, retried and canceled is       *)
(* JobScheduler's; here a run starts, ends and sets the job's last_status. *)
(***************************************************************************)
EXTENDS ScheduledRunStore, Integers

CONSTANTS
    Jobs,           \* ids, never used twice
    Clients,        \* requests of one client are made one after the other
    Workspace(_),   \* the scope the server gave a client's requests, or ""
    Forms,          \* bodies: [valid, command, policy, enabled]
    Limits,         \* values of ?limit=; 0 is none
    DefaultLimit, MaxLimit,
    MaxRuns,        \* bound: runs of one job
    MaxRestarts     \* bound

VARIABLES
    jobs,       \* the jobs table
    jobRuns,    \* job -> run number -> row of job_runs
    handler,    \* client -> what its request has read
    asked,      \* job -> the last explicit enabled
    raced,      \* <<job, column>> an update wrote back after it had changed
    touched,    \* <<client, workspace>> of what the last step wrote or showed
    reloads

jobVars == <<jobs, jobRuns, handler, asked, raced, touched, reloads>>

NoJob == [there |-> FALSE, workspace |-> "", command |-> "", policy |-> "none",
          enabled |-> FALSE, lastRunAt |-> 0, lastStatus |-> ""]

DeletedJob == [NoJob EXCEPT !.lastStatus = "deleted"]

Ops == {"get", "update", "delete", "enable", "disable", "run", "runs"}

NoRequest == [step |-> "idle", op |-> "get", id |-> CHOOSE j \in Jobs : TRUE, seen |-> NoJob]

NoRuns == [n \in 1..MaxRuns |-> NoRun]

Init ==
    /\ jobs = [j \in Jobs |-> NoJob]
    /\ jobRuns = [j \in Jobs |-> NoRuns]
    /\ handler = [c \in Clients |-> NoRequest]
    /\ asked = [j \in Jobs |-> FALSE]
    /\ raced = {} /\ touched = {} /\ reloads = 0

-----------------------------------------------------------------------------
(* The store.                                                              *)

\* A policy with nothing in it is stored as four NULLs and read back as none.
Stored(policy) == IF policy = "empty" THEN "none" ELSE policy

CreateJob(scope, form, enabled) ==
    [NoJob EXCEPT !.there = TRUE, !.workspace = scope, !.command = form.command,
                  !.policy = Stored(form.policy), !.enabled = enabled]

\* Mutant: the row takes the workspace of whoever updates it.
UpdateJobClaims(row, new, scope) ==
    [row EXCEPT !.command = new.command, !.policy = Stored(new.policy), !.enabled = new.enabled,
                !.lastStatus = new.lastStatus, !.workspace = IF scope = "" THEN @ ELSE scope]

\* UPDATE jobs: neither the workspace nor last_run_at is among the columns.
UpdateJob(row, new, scope) ==
    [row EXCEPT !.command = new.command, !.policy = Stored(new.policy), !.enabled = new.enabled,
                !.lastStatus = new.lastStatus]

SetEnabled(row, enabled) == [row EXCEPT !.enabled = enabled]

ListJobsByWorkspace(scope) == {j \in Jobs : jobs[j].there /\ (scope = "" \/ jobs[j].workspace = scope)}

\* A job without a workspace is everyone's.
GetJobCheckWorkspace(j, scope) ==
    IF ~jobs[j].there THEN "not_found"
    ELSE IF scope # "" /\ jobs[j].workspace \notin {"", scope} THEN "workspace_forbidden" ELSE "ok"

NormalizeRunLimit(limit) == IF limit <= 0 THEN DefaultLimit ELSE Min({limit, MaxLimit})

Rows(runs) == {n \in DOMAIN runs : runs[n].status \notin {"none", "gone"}}

\* A run has its job's workspace.
ListRuns(j, scope, limit) ==
    LET rows == IF scope \in {"", jobs[j].workspace} THEN Rows(jobRuns[j]) ELSE {}
    IN  {n \in rows : Cardinality({m \in rows : m > n}) < NormalizeRunLimit(limit)}

-----------------------------------------------------------------------------
(* The handlers.                                                           *)

Touch(c, js) == touched' = {<<c, jobs'[j].workspace>> : j \in js}

\* A new job is enabled unless the body says otherwise.
HandleCreateJob(c, j, form) ==
    LET enabled == form.enabled # "false"
    IN  /\ handler[c].step = "idle" /\ jobs[j] = NoJob
        /\ form.valid
        /\ jobs' = [jobs EXCEPT ![j] = CreateJob(Workspace(c), form, enabled)]
        /\ asked' = [asked EXCEPT ![j] = enabled]
        /\ Touch(c, {j})
        /\ UNCHANGED <<jobRuns, handler, raced, reloads>>

HandleListJobs(c) ==
    /\ handler[c].step = "idle"
    /\ UNCHANGED jobs
    /\ Touch(c, ListJobsByWorkspace(Workspace(c)))
    /\ UNCHANGED <<jobRuns, handler, asked, raced, reloads>>

\* The look-up every handler of one job begins with.
Check(c, op, j) ==
    /\ handler[c].step = "idle"
    /\ GetJobCheckWorkspace(j, Workspace(c)) = "ok"
    /\ handler' = [handler EXCEPT ![c] = [step |-> "checked", op |-> op, id |-> j,
                                        seen |-> IF op \in {"get", "update"} THEN jobs[j] ELSE NoJob]]
    /\ touched' = {}
    /\ UNCHANGED <<jobs, jobRuns, asked, raced, reloads>>

\* The second statement begins; the request is over with it.
Act(c, op) ==
    /\ handler[c].step = "checked" /\ handler[c].op = op
    /\ handler' = [handler EXCEPT ![c] = NoRequest]
    /\ UNCHANGED reloads

\* HandleGetJob answers with the row it has read.
HandleGetJob(c) ==
    /\ Act(c, "get")
    /\ touched' = {<<c, handler[c].seen.workspace>>}
    /\ UNCHANGED <<jobs, jobRuns, asked, raced>>

\* Mutant: as in HandleCreateJob, a body that does not say enables the job.
EnabledByDefault(form, existing) == form.enabled # "false"

\* What the body does not say stays as it was read.
EnabledFor(form, existing) == IF form.enabled = "unset" THEN existing.enabled ELSE form.enabled = "true"

PolicyFor(form, existing) == IF form.policy = "nil" THEN existing.policy ELSE form.policy

\* Columns that the update puts back although they changed after it read them.
WrittenBack(j, form, seen) ==
    (IF seen.lastStatus # jobs[j].lastStatus THEN {<<j, "status">>} ELSE {})
    \cup (IF form.enabled = "unset" /\ seen.enabled # jobs[j].enabled THEN {<<j, "enabled">>} ELSE {})

HandleUpdateJob(c, form) ==
    LET j == handler[c].id
        seen == handler[c].seen
        new == [command |-> form.command, policy |-> PolicyFor(form, seen),
                enabled |-> EnabledFor(form, seen), lastStatus |-> seen.lastStatus]
    IN  /\ Act(c, "update")
        /\ IF jobs[j].there /\ form.valid
           THEN /\ jobs' = [jobs EXCEPT ![j] = UpdateJob(@, new, Workspace(c))]
                /\ asked' = [asked EXCEPT ![j] = IF form.enabled = "unset" THEN @ ELSE form.enabled = "true"]
                /\ raced' = (raced \ (IF form.enabled = "unset" THEN {} ELSE {<<j, "enabled">>}))
                            \cup WrittenBack(j, form, seen)
                /\ touched' = {<<c, jobs[j].workspace>>}
           ELSE UNCHANGED <<jobs, asked, raced>> /\ touched' = {}
        /\ UNCHANGED jobRuns

\* DELETE FROM jobs, which takes the runs along.
HandleDeleteJob(c) ==
    LET j == handler[c].id
    IN  /\ Act(c, "delete")
        /\ jobs' = [jobs EXCEPT ![j] = DeletedJob]
        /\ jobRuns' = [jobRuns EXCEPT ![j] = [n \in 1..MaxRuns |-> [status |-> "gone", startedAt |-> 0]]]
        /\ touched' = IF jobs[j].there THEN {<<c, jobs[j].workspace>>} ELSE {}
        /\ raced' = {r \in raced : r[1] # j}
        /\ UNCHANGED asked

HandleToggleJob(c, op) ==
    LET j == handler[c].id
    IN  /\ op \in {"enable", "disable"} /\ Act(c, op)
        /\ IF jobs[j].there
           THEN /\ jobs' = [jobs EXCEPT ![j] = SetEnabled(@, op = "enable")]
                /\ asked' = [asked EXCEPT ![j] = op = "enable"]
                /\ raced' = raced \ {<<j, "enabled">>}
                /\ touched' = {<<c, jobs[j].workspace>>}
           ELSE UNCHANGED <<jobs, asked, raced>> /\ touched' = {}
        /\ UNCHANGED jobRuns

\* RecordRunStart of the job's next run.
RecordRunStart(j) ==
    \E n \in 1..MaxRuns :
        /\ jobRuns[j][n].status = "none" /\ \A m \in 1..n-1 : jobRuns[j][m].status # "none"
        /\ jobRuns' = [jobRuns EXCEPT ![j] = RecordedRuns(@, n, n, "running")]
        /\ jobs' = [jobs EXCEPT ![j] = RecordedJob(@, n, "running")]
        /\ raced' = raced \ {<<j, "status">>}

\* HandleRunJob: TriggerNow reads the job again and asks nothing but that it exists.
HandleRunJob(c) ==
    LET j == handler[c].id
    IN  /\ Act(c, "run")
        /\ IF jobs[j].there
           THEN RecordRunStart(j) /\ touched' = {<<c, jobs[j].workspace>>}
           ELSE UNCHANGED <<jobs, jobRuns, raced>> /\ touched' = {}
        /\ UNCHANGED asked

HandleListRuns(c, limit) ==
    LET j == handler[c].id
    IN  /\ Act(c, "runs")
        /\ touched' = {<<c, jobs[j].workspace>> : n \in ListRuns(j, Workspace(c), limit)}
        /\ UNCHANGED <<jobs, jobRuns, asked, raced>>

-----------------------------------------------------------------------------
(* Runs, and a restart.                                                    *)

StartRun(j) ==
    /\ jobs[j].there /\ jobs[j].enabled
    /\ RecordRunStart(j)
    /\ touched' = {}
    /\ UNCHANGED <<handler, asked, reloads>>

\* CompleteRun; only the latest run has a say in the job's last_status.
EndRun(j, n, status) ==
    /\ jobRuns[j][n].status = "running" /\ jobs[j].there
    /\ LET runs == MovedRuns(jobRuns[j], n, status)
           row == UpdateJobStatus(runs, jobs[j], n)
       IN  /\ jobRuns' = [jobRuns EXCEPT ![j] = runs]
           /\ jobs' = [jobs EXCEPT ![j] = row]
           /\ raced' = IF n = Max(Rows(runs)) THEN raced \ {<<j, "status">>} ELSE raced
    /\ touched' = {}
    /\ UNCHANGED <<handler, asked, reloads>>

\* NewStore deletes the runs that began before the retention period; requests are lost.
Restart ==
    /\ reloads < MaxRestarts
    /\ \E first \in 1..MaxRuns :
           jobRuns' = [j \in Jobs |-> [n \in 1..MaxRuns |->
                           IF n < first /\ jobRuns[j][n].status # "none"
                           THEN [status |-> "gone", startedAt |-> 0] ELSE jobRuns[j][n]]]
    /\ handler' = [c \in Clients |-> NoRequest]
    /\ reloads' = reloads + 1
    /\ touched' = {}
    /\ UNCHANGED <<jobs, asked, raced>>

Next ==
    \/ \E c \in Clients :
           \/ \E j \in Jobs, form \in Forms : HandleCreateJob(c, j, form)
           \/ HandleListJobs(c) \/ HandleGetJob(c) \/ HandleDeleteJob(c) \/ HandleRunJob(c)
           \/ \E j \in Jobs, op \in Ops : Check(c, op, j)
           \/ \E form \in Forms : HandleUpdateJob(c, form)
           \/ \E op \in Ops : HandleToggleJob(c, op)
           \/ \E limit \in Limits : HandleListRuns(c, limit)
    \/ \E j \in Jobs :
           \/ StartRun(j)
           \/ \E n \in 1..MaxRuns, status \in {"success", "failed"} : EndRun(j, n, status)
    \/ Restart

Spec == Init /\ [][Next]_jobVars

-----------------------------------------------------------------------------
(* Properties.                                                             *)

\* A job is enabled exactly as the last request that said so left it, and its
\* last_status is that of its latest run, through any mix of edits, toggles, runs and
\* restarts - except for a column that changed between an update's read of the row and
\* its write, which the update puts back.
RowsFollowTheirHistory ==
    \A j \in Jobs : jobs[j].there =>
        /\ <<j, "enabled">> \notin raced => jobs[j].enabled = asked[j]
        /\ (<<j, "status">> \notin raced /\ Rows(jobRuns[j]) # {})
           => jobs[j].lastStatus = jobRuns[j][Max(Rows(jobRuns[j]))].status

\* What a request with a workspace writes or shows belongs to that workspace, or to
\* none, at the moment it does so: the look-up that decides this comes a statement
\* earlier, and stays right because nothing moves a job.
RequestsStayInTheirWorkspace ==
    \A t \in touched : Workspace(t[1]) = "" \/ t[2] \in {"", Workspace(t[1])}
=============================================================================
