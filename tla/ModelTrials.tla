----------------------------- MODULE ModelTrials ----------------------------
(***************************************************************************)
(* Trials of the model dock (modeldock/trial*.go): definitions, runs that  *)
(* send every prompt to every model in a goroutine of its own with retries *)
(* and one deadline per task, and the comparison of a run's results.       *)
(*                                                                         *)
(* A response is "good" or "bad"; a criterion asks for a good one or for   *)
(* nothing.  Profiles that a run resolves are constant here.               *)
(***************************************************************************)
EXTENDS Naturals, Sequences, FiniteSets

CONSTANTS
    Forms,        \* bodies of trials: [prompts, models]; prompts have [id, strict]
    Known,        \* profiles that exist
    Runs,         \* run ids (uuids)
    Retries,      \* RetryCount of the trials
    MaxRestarts

VARIABLES
    trials,     \* definitions stored
    runs,       \* run -> [status, trial, handled]; handled: its handler is alive
    tasks,      \* run -> task -> [state, attempt, resp]
    results,    \* rows of trial_results, each with its task
    lost,       \* tasks whose row could not be saved
    restarts

trialVars == <<trials, runs, tasks, results, lost, restarts>>

NoTrial == [prompts |-> <<>>, models |-> <<>>]
NoRun == [status |-> "none", trial |-> NoTrial, handled |-> FALSE]
Fresh == [state |-> "calling", attempt |-> 0, resp |-> ""]

\* HandleCreateTrial: prompts without an id are called p1, p2, ... by position.
WithIDs(form) ==
    [form EXCEPT !.prompts = [i \in DOMAIN @ |->
        IF @[i].id = "" THEN [@[i] EXCEPT !.id = <<"p1", "p2", "p3">>[i]] ELSE @[i]]]

\* CreateTrial, after the checks for prompts and models.
CreateTrial(form) ==
    /\ form.prompts # <<>> /\ form.models # <<>>
    /\ WithIDs(form) \notin trials
    /\ trials' = trials \cup {WithIDs(form)}
    /\ UNCHANGED <<runs, tasks, results, lost, restarts>>

\* Execute's task list: prompts x models, by position.
Tasks(t) == (DOMAIN t.prompts) \X (DOMAIN t.models)

\* HandleRunTrial up to Execute: buildProviderMap refuses a trial with an
\* unknown profile; CreateRun, then running.
CreateRun(r, t) ==
    /\ runs[r] = NoRun /\ t \in trials
    /\ \A i \in DOMAIN t.models : t.models[i] \in Known
    /\ runs' = [runs EXCEPT ![r] = [status |-> "pending", trial |-> t, handled |-> TRUE]]
    /\ UNCHANGED <<trials, tasks, results, lost, restarts>>

\* UpdateRunStatus to running; Execute starts every task.
StartRun(r) ==
    /\ runs[r].status = "pending" /\ runs[r].handled
    /\ runs' = [runs EXCEPT ![r].status = "running"]
    /\ tasks' = [tasks EXCEPT ![r] = [k \in Tasks(runs[r].trial) |-> Fresh]]
    /\ UNCHANGED <<trials, results, lost, restarts>>

\* Mutant: the loop makes one attempt too few.
MayRetryOnceLess(task) == task.attempt + 1 < Retries

\* The condition of runTask's loop for another attempt.
MayRetry(task) == task.attempt < Retries

\* runTask: the model answers, fails, or the task's deadline passes while it is
\* called or before the next attempt.
RunTask(r, k) ==
    /\ runs[r].status = "running" /\ runs[r].handled /\ k \in DOMAIN tasks[r] /\ tasks[r][k].state = "calling"
    /\ LET task == tasks[r][k]
       IN  \/ \E resp \in {"good", "bad"} :
                  tasks' = [tasks EXCEPT ![r][k] = [task EXCEPT !.state = "answered", !.resp = resp]]
           \/ tasks' = [tasks EXCEPT ![r][k] =
                  IF MayRetry(task) THEN [task EXCEPT !.attempt = @ + 1]
                  ELSE [task EXCEPT !.state = "failed"]]
           \/ tasks' = [tasks EXCEPT ![r][k] = [task EXCEPT !.state = "expired"]]
    /\ UNCHANGED <<trials, runs, results, lost, restarts>>

Ended(r) == \A k \in DOMAIN tasks[r] : tasks[r][k].state # "calling"
Saved(r) == {row.task : row \in {x \in results : x.run = r}}

\* ScoreQuality against the first prompt of the same id.
Score(t, id, resp) ==
    LET i == CHOOSE j \in DOMAIN t.prompts :
                 t.prompts[j].id = id /\ \A h \in DOMAIN t.prompts : t.prompts[h].id = id => j <= h
    IN  IF t.prompts[i].strict /\ resp # "good" THEN 0 ELSE 1

\* The result that Execute makes of a task.
ResultOf(r, k) ==
    LET t == runs[r].trial
        task == tasks[r][k]
        id == t.prompts[k[1]].id
    IN  [run |-> r, task |-> k, profile |-> t.models[k[2]], prompt |-> id,
         error |-> task.state # "answered", score |-> Score(t, id, task.resp)]

\* HandleRunTrial's loop over the results; an error of SaveResult is dropped.
SaveResult(r, k) ==
    /\ runs[r].status = "running" /\ runs[r].handled /\ tasks[r] # <<>> /\ Ended(r)
    /\ k \in DOMAIN tasks[r] /\ k \notin Saved(r) /\ <<r, k>> \notin lost
    /\ \/ results' = results \cup {ResultOf(r, k)} /\ UNCHANGED lost
       \/ lost' = lost \cup {<<r, k>>} /\ UNCHANGED results
    /\ UNCHANGED <<trials, runs, tasks, restarts>>

\* UpdateRunStatus to completed.
CompleteRun(r) ==
    /\ runs[r].status = "running" /\ runs[r].handled /\ tasks[r] # <<>> /\ Ended(r)
    /\ \A k \in DOMAIN tasks[r] : k \in Saved(r) \/ <<r, k>> \in lost
    /\ runs' = [runs EXCEPT ![r].status = "completed"]
    /\ UNCHANGED <<trials, tasks, results, lost, restarts>>

\* Nothing resumes a run after a restart: it stays as its row says.
Restart ==
    /\ restarts < MaxRestarts /\ restarts' = restarts + 1
    /\ tasks' = [r \in Runs |-> IF runs[r].status = "completed" THEN tasks[r] ELSE <<>>]
    /\ runs' = [r \in Runs |-> [runs[r] EXCEPT !.handled = FALSE]]
    /\ UNCHANGED <<trials, results, lost>>

\* aggregateResults for one model of a run.
AggregateByModel(r, p) ==
    LET of == {row \in results : row.run = r /\ row.profile = p}
    IN  [prompts |-> Cardinality(of), errors |-> Cardinality({row \in of : row.error})]

Init ==
    /\ trials = {} /\ results = {} /\ lost = {} /\ restarts = 0
    /\ runs = [r \in Runs |-> NoRun]
    /\ tasks = [r \in Runs |-> <<>>]

Next ==
    \/ \E form \in Forms : CreateTrial(form)
    \/ \E r \in Runs :
           \/ \E t \in trials : CreateRun(r, t)
           \/ StartRun(r) \/ CompleteRun(r)
           \/ \E k \in DOMAIN tasks[r] : RunTask(r, k) \/ SaveResult(r, k)
    \/ Restart

Spec == Init /\ [][Next]_trialVars

\* The comparison of a completed run counts every prompt for every model, once
\* for each time the trial names the model, less the rows that could not be
\* saved; and a task counts as an error only after all its attempts or at its
\* deadline.
ComparisonsCountEverything ==
    \A r \in Runs : runs[r].status = "completed" =>
        LET t == runs[r].trial
            Of(p) == {k \in Tasks(t) : t.models[k[2]] = p /\ <<r, k>> \notin lost}
            GaveUp(k) == \/ tasks[r][k].state = "expired"
                         \/ tasks[r][k].state = "failed" /\ tasks[r][k].attempt = Retries
        IN  \A p \in Known :
                /\ AggregateByModel(r, p).prompts = Cardinality(Of(p))
                /\ AggregateByModel(r, p).errors = Cardinality({k \in Of(p) : GaveUp(k)})
=============================================================================
