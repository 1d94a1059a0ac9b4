----------------------------- MODULE JobScheduler -----------------------------
(***************************************************************************)
(* The scheduler of recurring jobs (jobs/scheduler.go) for one job: the    *)
(* ticker loop and POST /jobs/{id}/run fan the job out to its targets,     *)
(* admission allows, defers or denies an attempt, a command is sent and    *)
(* awaited, a failed attempt is retried by a timer, and the cancel         *)
(* endpoints race all of it.                                               *)
(*                                                                         *)
(* One execution is the work that starts with one claim of a target: its   *)
(* attempts follow one another, so it has one thread at a time, first the  *)
(* dispatcher's, later a timer's or an awaiting goroutine's.               *)
(***************************************************************************)
EXTENDS ScheduledRunStore, Sequences

CONSTANTS
    Probes,         \* probes the job's target resolves to
    Dispatchers,    \* "loop" is the ticker's goroutine, the others are API calls
    MaxAttempts,    \* the resolved retry policy's limit
    Admissions,     \* what the admission evaluator may answer
    CancelKinds,    \* cancel endpoints in use: "job", "run"
    MaxExecutions,  \* bound: claims; a dispatcher tries no more once they are used up
    MaxTime,        \* bound: no dispatch starts later
    MaxCancels,     \* bound: cancel requests
    MaxEdits,       \* bound: edits of the job
    MaxRestarts,    \* bound: restarts of the process
    MaxEvents       \* bound: cancel requests, edits and restarts together

\* A list of all targets; there is one, as they are finitely many.
ListsTargets(order) == \A p \in Probes : \E i \in DOMAIN order : order[i] = p

ASSUME JobSchedulerAssumption ==
    /\ Probes # {} /\ Cardinality(Probes) \in Nat
    /\ \E order \in [1..Cardinality(Probes) -> Probes] : ListsTargets(order)
    /\ MaxAttempts \in Nat \ {0}
    /\ MaxExecutions \in Nat \ {0} /\ MaxTime \in Nat
    /\ MaxCancels \in Nat /\ MaxEdits \in Nat /\ MaxRestarts \in Nat
    /\ MaxEvents \in Nat
    /\ Admissions \subseteq {"allow", "queue", "deny"}
    /\ CancelKinds \subseteq {"job", "run"}

Executions == 1..MaxExecutions
Attempts == 1..MaxAttempts
RunIds == Executions \X Attempts

VARIABLES
    runs,           \* job_runs: run id -> row
    job,            \* the job's row
    activeTargets,  \* claimed targets
    inFlight,       \* runs with a request in inFlight, runRequest and requestTarget
    pendingRetry,   \* target -> execution whose timer can be cancelled, 0 for none
    exec,           \* execution -> where its thread is
    result,         \* execution -> what the result channel of its request holds
    dispatcher,     \* dispatcher -> the targets it has left and its "now"
    operator,       \* the cancel request being served
    clock,
    stopped,        \* Stop was called
    spent           \* what is used of the bounds

storeVars == <<runs, job>>
mapVars == <<activeTargets, inFlight, pendingRetry>>
vars == <<runs, job, activeTargets, inFlight, pendingRetry, exec, result, dispatcher,
          operator, clock, stopped, spent>>

\* Where the thread of an execution is:
\*   none      not started                  online   run is running, probe not looked up yet
\*   admit     before dispatchAttempt       send     registered, about to SendTo
\*   arm       about to start a timer       await    waits for the result
\*   timer     waits for its timer          finish   about to complete its run
\*   check     its timer fired              clear    about to clearInFlight
\*   mark      its run is pending           release  about to releaseTarget
\*   done      returned
Places == {"none", "admit", "arm", "timer", "check", "mark", "online", "send", "await",
           "finish", "clear", "release", "done"}

Events == {"cancels", "edits", "restarts"}

NoOwner == "none"
NoRound == [left |-> <<>>, now |-> 0]
Idle == [at |-> "idle", left |-> {}, all |-> FALSE, run |-> <<1, 1>>]
NotStarted == [at |-> "none", probe |-> CHOOSE p \in Probes : TRUE, attempt |-> 1,
               owner |-> NoOwner, now |-> 0, cancelled |-> FALSE, queued |-> FALSE,
               registered |-> FALSE, ok |-> FALSE]

Init ==
    /\ runs = [r \in RunIds |-> NoRun]
    /\ job = [state |-> "enabled", lastRunAt |-> 0, lastStatus |-> "none"]
    /\ activeTargets = {}
    /\ inFlight = {}
    /\ pendingRetry = [p \in Probes |-> 0]
    /\ exec = [e \in Executions |-> NotStarted]
    /\ result = [e \in Executions |-> "none"]
    /\ dispatcher = [d \in Dispatchers |-> NoRound]
    /\ operator = Idle
    /\ clock = 0
    /\ stopped = FALSE
    /\ spent = [what \in Events |-> 0]

Spend(what) ==
    /\ spent["cancels"] + spent["edits"] + spent["restarts"] < MaxEvents
    /\ spent' = [spent EXCEPT ![what] = @ + 1]

Run(e) == <<e, exec[e].attempt>>
Returned(e) == [NotStarted EXCEPT !.at = "done", !.probe = exec[e].probe]
At(e, place) == exec' = [exec EXCEPT ![e].at = place]

\* transitionRun, with the job's status that follows from it.
Transition(r, to) ==
    /\ runs' = MovedRuns(runs, r, to)
    /\ job' = UpdateJobStatus(runs', job, runs[r].startedAt)

\* RecordRunStart fails when the job is gone.
CanRecord == job.state # "deleted"
Record(r, t, status) ==
    /\ runs' = RecordedRuns(runs, r, t, status)
    /\ job' = RecordedJob(job, t, status)

----------------------------------------------------------------------------
Free == {e \in Executions : exec[e].at = "none"}

\* resolveTargets: each probe once, in an order that is the same in every round.
TargetOrder == CHOOSE order \in [1..Cardinality(Probes) -> Probes] : ListsTargets(order)

\* dispatchJob up to its loop: the targets are resolved and the round has its time.
DispatchJob(d) ==
    /\ dispatcher[d].left = <<>>
    /\ \A e \in Executions : exec[e].owner # d
    /\ clock < MaxTime
    /\ dispatcher' = [dispatcher EXCEPT ![d] = [left |-> TargetOrder, now |-> clock + 1]]
    /\ clock' = clock + 1
    /\ UNCHANGED <<storeVars, mapVars, exec, result, operator, stopped, spent>>

\* A tick at which the job is enabled and due.  The schedule is an input: any tick later
\* than last_run_at may be due.
RunOnce == ~stopped /\ job.state = "enabled" /\ DispatchJob("loop")

\* POST /jobs/{id}/run, whether the job is enabled or not.
TriggerNow(d) == d # "loop" /\ job.state # "deleted" /\ DispatchJob(d)

\* POST /jobs/{id}/runs/{runId}/retry triggers the whole job.
RetryRun(d, r) ==
    /\ d # "loop" /\ job.state # "deleted"
    /\ runs[r].status \in {"failed", "canceled", "denied"}
    /\ DispatchJob(d)

\* A tick that finds nothing due.
IdleTick ==
    /\ ~stopped /\ dispatcher["loop"].left = <<>>
    /\ UNCHANGED vars

\* Mutant: the claim is not looked at.
ClaimedNever(p) == FALSE

Claimed(p) == p \in activeTargets

\* One round of dispatchJob's loop: claimTarget, then the attempt in the same goroutine.
ClaimTarget(d) ==
    LET left == dispatcher[d].left
        p == Head(left)
        e == CHOOSE x \in Free : TRUE
    IN
    /\ left # <<>>
    /\ \A x \in Executions : exec[x].owner # d
    /\ dispatcher' = [dispatcher EXCEPT ![d] = IF Tail(left) = <<>> THEN NoRound
                                               ELSE [dispatcher[d] EXCEPT !.left = Tail(left)]]
    /\ IF Claimed(p) \/ Free = {}
       THEN UNCHANGED <<activeTargets, exec>>
       ELSE /\ activeTargets' = activeTargets \cup {p}
            /\ exec' = [exec EXCEPT ![e] = [NotStarted EXCEPT !.at = "admit", !.probe = p,
                                              !.owner = d, !.now = dispatcher[d].now]]
    /\ UNCHANGED <<storeVars, inFlight, pendingRetry, result, operator, clock, stopped, spent>>

----------------------------------------------------------------------------
\* dispatchAttempt: the evaluator answers and the run is prepared.  queued says that the
\* attempt has a run, deferred earlier.

Prepared(e, place) == exec' = [exec EXCEPT ![e].at = place, ![e].now = 0]

\* MarkRunPending, or an insert.
EnsurePendingRun(e) ==
    \/ exec[e].queued /\ CanTransition(runs, Run(e), {"queued"}) /\ Transition(Run(e), "pending")
    \/ ~exec[e].queued /\ CanRecord /\ Record(Run(e), exec[e].now, "pending")

\* The row of a run deferred before only gets a new rationale and time.
EnsureQueuedRun(e) ==
    \/ exec[e].queued /\ CanTransition(runs, Run(e), {"queued"}) /\ UNCHANGED storeVars
    \/ ~exec[e].queued /\ CanRecord /\ Record(Run(e), exec[e].now, "queued")

EnsureDeniedRun(e) ==
    \/ exec[e].queued /\ CanTransition(runs, Run(e), ActiveStatuses) /\ Transition(Run(e), "denied")
    \/ ~exec[e].queued /\ CanRecord /\ Record(Run(e), exec[e].now, "denied")

\* The error of the three: the deferred run has moved on, or the job is gone.
EnsureFails(e, from) ==
    /\ IF exec[e].queued THEN ~CanTransition(runs, Run(e), from) ELSE ~CanRecord
    /\ UNCHANGED storeVars

Allow(e) ==
    /\ exec[e].at = "admit" /\ "allow" \in Admissions
    /\ \/ EnsurePendingRun(e) /\ Prepared(e, "mark")
       \/ EnsureFails(e, {"queued"}) /\ Prepared(e, "release")
    /\ UNCHANGED <<mapVars, result, dispatcher, operator, clock, stopped, spent>>

Defer(e) ==
    /\ exec[e].at = "admit" /\ "queue" \in Admissions
    /\ \/ /\ EnsureQueuedRun(e)
          /\ exec' = [exec EXCEPT ![e].at = "arm", ![e].now = 0, ![e].queued = TRUE]
       \/ EnsureFails(e, {"queued"}) /\ Prepared(e, "release")
    /\ UNCHANGED <<mapVars, result, dispatcher, operator, clock, stopped, spent>>

\* The target is released on success and on error alike.
Deny(e) ==
    /\ exec[e].at = "admit" /\ "deny" \in Admissions
    /\ EnsureDeniedRun(e) \/ EnsureFails(e, ActiveStatuses)
    /\ Prepared(e, "release")
    /\ UNCHANGED <<mapVars, result, dispatcher, operator, clock, stopped, spent>>

\* MarkRunRunning; a run that was canceled meanwhile ends the execution.
MarkRunRunning(e) ==
    /\ exec[e].at = "mark"
    /\ IF CanTransition(runs, Run(e), {"pending"})
       THEN Transition(Run(e), "running") /\ At(e, "online")
       ELSE At(e, "release") /\ UNCHANGED storeVars
    /\ UNCHANGED <<mapVars, result, dispatcher, operator, clock, stopped, spent>>

ProbeOffline(e) ==
    /\ exec[e].at = "online"
    /\ exec' = [exec EXCEPT ![e].at = "finish", ![e].ok = FALSE, ![e].registered = FALSE]
    /\ UNCHANGED <<storeVars, mapVars, result, dispatcher, operator, clock, stopped, spent>>

\* The command is tracked and entered in the three request maps.
Register(e) ==
    /\ exec[e].at = "online"
    /\ result' = [result EXCEPT ![e] = "open"]
    /\ inFlight' = inFlight \cup {Run(e)}
    /\ exec' = [exec EXCEPT ![e].at = "send", ![e].registered = TRUE]
    /\ UNCHANGED <<storeVars, activeTargets, pendingRetry, dispatcher, operator, clock, stopped, spent>>

\* SendTo; an error cancels the tracked command.
Send(e) ==
    /\ exec[e].at = "send"
    /\ \/ /\ exec' = [exec EXCEPT ![e].at = "await", ![e].owner = NoOwner]
          /\ UNCHANGED result
       \/ /\ exec' = [exec EXCEPT ![e].at = "finish", ![e].ok = FALSE]
          /\ result' = [result EXCEPT ![e] = "none"]
    /\ UNCHANGED <<storeVars, mapVars, dispatcher, operator, clock, stopped, spent>>

\* The probe's answer, or the tracker's own when the command is older than its TTL.
CommandResult(e) ==
    /\ exec[e].at = "await" /\ result[e] = "open"
    /\ \E answer \in {"ok", "fail"} : result' = [result EXCEPT ![e] = answer]
    /\ UNCHANGED <<storeVars, mapVars, exec, dispatcher, operator, clock, stopped, spent>>

\* awaitRunResult: a closed channel cancels the run, a result completes it.
AwaitRunResult(e) ==
    /\ exec[e].at = "await" /\ result[e] \in {"ok", "fail", "closed"}
    /\ IF result[e] = "closed"
       THEN /\ IF CanTransition(runs, Run(e), ActiveStatuses)
               THEN Transition(Run(e), "canceled") ELSE UNCHANGED storeVars
            /\ At(e, "clear")
       ELSE /\ exec' = [exec EXCEPT ![e].at = "finish", ![e].ok = (result[e] = "ok")]
            /\ UNCHANGED storeVars
    /\ result' = [result EXCEPT ![e] = "none"]
    /\ UNCHANGED <<mapVars, dispatcher, operator, clock, stopped, spent>>

RetryAllowed(e) == ~exec[e].ok /\ exec[e].attempt < MaxAttempts

\* Mutant: the retry is decided before it is known whether the run could be completed.
FinishAttemptRetriesAnyway(e) ==
    /\ exec[e].at = "finish"
    /\ IF CanTransition(runs, Run(e), {"running"})
       THEN Transition(Run(e), IF exec[e].ok THEN "success" ELSE "failed")
       ELSE UNCHANGED storeVars
    /\ exec' = [exec EXCEPT ![e].queued = FALSE,
                 ![e].at = IF RetryAllowed(e) THEN "arm"
                           ELSE IF exec[e].registered THEN "clear" ELSE "release"]
    /\ UNCHANGED <<mapVars, result, dispatcher, operator, clock, stopped, spent>>

\* finishAttempt up to scheduleRetry, clearInFlight or releaseTarget.
FinishAttempt(e) ==
    /\ exec[e].at = "finish"
    /\ IF CanTransition(runs, Run(e), {"running"})
       THEN /\ Transition(Run(e), IF exec[e].ok THEN "success" ELSE "failed")
            /\ exec' = [exec EXCEPT ![e].queued = FALSE,
                         ![e].at = IF RetryAllowed(e) THEN "arm"
                                   ELSE IF exec[e].registered THEN "clear" ELSE "release"]
       ELSE /\ At(e, IF exec[e].registered THEN "clear" ELSE "release")
            /\ UNCHANGED storeVars
    /\ UNCHANGED <<mapVars, result, dispatcher, operator, clock, stopped, spent>>

\* scheduleRetry and scheduleAdmissionRetry: a timer already there is cancelled, the new
\* one is entered and started.  A retry also clears its request, without the target: its
\* command is answered, so nobody who reads the request before that can tell.
Arm(e) ==
    LET p == exec[e].probe
        before == pendingRetry[p]
        armed == [exec EXCEPT ![e].at = "timer", ![e].owner = NoOwner, ![e].cancelled = FALSE,
                              ![e].registered = FALSE,
                              ![e].attempt = IF exec[e].queued THEN @ ELSE @ + 1]
    IN
    /\ exec[e].at = "arm"
    /\ pendingRetry' = [pendingRetry EXCEPT ![p] = e]
    /\ exec' = IF before \in Executions \ {e} THEN [armed EXCEPT ![before].cancelled = TRUE] ELSE armed
    /\ inFlight' = inFlight \ {Run(e)}
    /\ UNCHANGED <<storeVars, activeTargets, result, dispatcher, operator, clock, stopped, spent>>

\* The select takes the timer, also when the context is done by then; the entry of the
\* target is deleted, whoever's it is.
TimerFires(e) ==
    /\ exec[e].at = "timer"
    /\ pendingRetry' = [pendingRetry EXCEPT ![exec[e].probe] = 0]
    /\ At(e, "check")
    /\ UNCHANGED <<storeVars, activeTargets, inFlight, result, dispatcher, operator, clock, stopped, spent>>

TimerCancelled(e) ==
    /\ exec[e].at = "timer" /\ exec[e].cancelled
    /\ exec' = [exec EXCEPT ![e] = Returned(e)]
    /\ UNCHANGED <<storeVars, mapVars, result, dispatcher, operator, clock, stopped, spent>>

\* The timer's goroutine reads the job again, and the run of a deferred attempt.  The time
\* of a retry is the start of its run; a deferred run has its start already.
CheckJob(e) ==
    /\ exec[e].at = "check"
    /\ \/ /\ job.state = "enabled" /\ ~exec[e].queued
          /\ exec' = [exec EXCEPT ![e].at = "admit", ![e].now = clock + 1]
          /\ clock' = clock + 1
       \/ /\ job.state = "enabled" /\ exec[e].queued /\ CanTransition(runs, Run(e), {"queued"})
          /\ At(e, "admit") /\ UNCHANGED clock
       \/ /\ job.state # "enabled" \/ (exec[e].queued /\ ~CanTransition(runs, Run(e), {"queued"}))
          /\ At(e, "release") /\ UNCHANGED clock
    /\ UNCHANGED <<storeVars, mapVars, result, dispatcher, operator, stopped, spent>>

\* clearInFlight with releaseTarget: the target is found through the request.
ClearInFlight(e) ==
    /\ exec[e].at = "clear"
    /\ activeTargets' = IF Run(e) \in inFlight THEN activeTargets \ {exec[e].probe} ELSE activeTargets
    /\ inFlight' = inFlight \ {Run(e)}
    /\ exec' = [exec EXCEPT ![e] = Returned(e)]
    /\ UNCHANGED <<storeVars, pendingRetry, result, dispatcher, operator, clock, stopped, spent>>

ReleaseTarget(e) ==
    /\ exec[e].at = "release"
    /\ activeTargets' = activeTargets \ {exec[e].probe}
    /\ exec' = [exec EXCEPT ![e] = Returned(e)]
    /\ UNCHANGED <<storeVars, inFlight, pendingRetry, result, dispatcher, operator, clock, stopped, spent>>

----------------------------------------------------------------------------
\* The cancel endpoints.  operator.left is the runs, later the targets, still to be done.

CancelJob ==
    /\ operator = Idle /\ "job" \in CancelKinds /\ job.state # "deleted"
    /\ spent["cancels"] < MaxCancels /\ Spend("cancels")
    /\ operator' = [Idle EXCEPT !.at = "runs", !.left = ListActiveRunsByJob(runs), !.all = TRUE]
    /\ UNCHANGED <<storeVars, mapVars, exec, result, dispatcher, clock, stopped>>

\* CancelRun, up to the store; a run that has ended is refused and nothing happens.
CancelRun(r) ==
    /\ operator = Idle /\ "run" \in CancelKinds
    /\ spent["cancels"] < MaxCancels /\ Spend("cancels")
    /\ CanTransition(runs, r, ActiveStatuses)
    /\ Transition(r, "canceled")
    /\ operator' = [Idle EXCEPT !.at = "track", !.run = r]
    /\ UNCHANGED <<mapVars, exec, result, dispatcher, clock, stopped>>

\* CancelJob's next run; one that has ended since is only counted.
CancelNextRun ==
    /\ operator.at = "runs"
    /\ \E r \in operator.left :
         IF CanTransition(runs, r, ActiveStatuses)
         THEN /\ Transition(r, "canceled")
              /\ operator' = [operator EXCEPT !.at = "track", !.run = r, !.left = @ \ {r}]
         ELSE /\ operator' = [operator EXCEPT !.left = @ \ {r}]
              /\ UNCHANGED storeVars
    /\ UNCHANGED <<mapVars, exec, result, dispatcher, clock, stopped, spent>>

\* Mutant: the command is forgotten and its channel left open.
CancelTrackedSilently ==
    LET e == operator.run[1] IN
    /\ operator.at = "track"
    /\ result' = IF operator.run \in inFlight /\ result[e] = "open"
                 THEN [result EXCEPT ![e] = "none"] ELSE result
    /\ operator' = IF operator.all THEN [operator EXCEPT !.at = "runs"]
                   ELSE [operator EXCEPT !.at = "retries", !.left = {exec[e].probe}]
    /\ UNCHANGED <<storeVars, mapVars, exec, dispatcher, clock, stopped, spent>>

\* requestIDForRun and Tracker.Cancel.
CancelTracked ==
    LET e == operator.run[1] IN
    /\ operator.at = "track"
    /\ result' = IF operator.run \in inFlight /\ result[e] = "open"
                 THEN [result EXCEPT ![e] = "closed"] ELSE result
    /\ operator' = IF operator.all THEN [operator EXCEPT !.at = "runs"]
                   ELSE [operator EXCEPT !.at = "retries", !.left = {exec[e].probe}]
    /\ UNCHANGED <<storeVars, mapVars, exec, dispatcher, clock, stopped, spent>>

\* cancelScheduledRetriesForJob collects the targets under the lock ...
CollectRetries ==
    /\ operator.at = "runs" /\ operator.left = {}
    /\ operator' = [operator EXCEPT !.at = "retries", !.left = {p \in Probes : pendingRetry[p] # 0}]
    /\ UNCHANGED <<storeVars, mapVars, exec, result, dispatcher, clock, stopped, spent>>

\* Mutant: the entry is cancelled, the target stays claimed.
CancelScheduledRetryOnly ==
    /\ operator.at = "retries"
    /\ \E p \in operator.left :
         /\ operator' = [operator EXCEPT !.left = @ \ {p}]
         /\ IF pendingRetry[p] = 0
            THEN UNCHANGED <<pendingRetry, exec>>
            ELSE /\ pendingRetry' = [pendingRetry EXCEPT ![p] = 0]
                 /\ exec' = [exec EXCEPT ![pendingRetry[p]].cancelled = TRUE]
    /\ UNCHANGED <<storeVars, activeTargets, inFlight, result, dispatcher, clock, stopped, spent>>

\* ... and cancelScheduledRetry takes it again for each: the timer's owner never releases
\* its target, so it is released here.
CancelScheduledRetry ==
    /\ operator.at = "retries"
    /\ \E p \in operator.left :
         /\ operator' = [operator EXCEPT !.left = @ \ {p}]
         /\ IF pendingRetry[p] = 0
            THEN UNCHANGED <<pendingRetry, activeTargets, exec>>
            ELSE /\ pendingRetry' = [pendingRetry EXCEPT ![p] = 0]
                 /\ activeTargets' = activeTargets \ {p}
                 /\ exec' = [exec EXCEPT ![pendingRetry[p]].cancelled = TRUE]
    /\ UNCHANGED <<storeVars, inFlight, result, dispatcher, clock, stopped, spent>>

CancelAnswered ==
    /\ operator.at = "retries" /\ operator.left = {}
    /\ operator' = Idle
    /\ UNCHANGED <<storeVars, mapVars, exec, result, dispatcher, clock, stopped, spent>>

\* The enable, disable and delete endpoints do not look at the scheduler.
SetEnabled(s) ==
    /\ job.state \notin {s, "deleted"}
    /\ spent["edits"] < MaxEdits /\ Spend("edits")
    /\ job' = [job EXCEPT !.state = s]
    /\ UNCHANGED <<runs, mapVars, exec, result, dispatcher, operator, clock, stopped>>

DeleteJob ==
    /\ job.state # "deleted"
    /\ spent["edits"] < MaxEdits /\ Spend("edits")
    /\ job' = [job EXCEPT !.state = "deleted"]
    /\ runs' = DeletedRuns(runs)
    /\ UNCHANGED <<mapVars, exec, result, dispatcher, operator, clock, stopped>>

----------------------------------------------------------------------------
\* Stop cancels the tracked requests and the timers and empties the maps; the goroutines
\* go on until they return.
Stop ==
    /\ ~stopped /\ spent["restarts"] < MaxRestarts /\ Spend("restarts")
    /\ stopped' = TRUE
    /\ result' = [e \in Executions |->
                    IF Run(e) \in inFlight /\ result[e] = "open" THEN "closed" ELSE result[e]]
    /\ exec' = [e \in Executions |->
                  IF pendingRetry[exec[e].probe] = e THEN [exec[e] EXCEPT !.cancelled = TRUE] ELSE exec[e]]
    /\ activeTargets' = {} /\ inFlight' = {} /\ pendingRetry' = [p \in Probes |-> 0]
    /\ UNCHANGED <<storeVars, dispatcher, operator, clock>>

\* The process ends, after Stop or by a crash, and starts again: only the store survives,
\* and nothing looks at the runs it holds.
Restart ==
    /\ IF stopped THEN UNCHANGED spent ELSE spent["restarts"] < MaxRestarts /\ Spend("restarts")
    /\ stopped' = FALSE
    /\ activeTargets' = {} /\ inFlight' = {} /\ pendingRetry' = [p \in Probes |-> 0]
    /\ exec' = [e \in Executions |-> IF exec[e].at = "none" THEN exec[e] ELSE Returned(e)]
    /\ result' = [e \in Executions |-> "none"]
    /\ dispatcher' = [d \in Dispatchers |-> NoRound]
    /\ operator' = Idle
    /\ UNCHANGED <<storeVars, clock>>

----------------------------------------------------------------------------
\* What the thread of an execution does by itself.
Thread(e) ==
    \/ Allow(e) \/ Defer(e) \/ Deny(e)
    \/ MarkRunRunning(e) \/ ProbeOffline(e) \/ Register(e) \/ Send(e)
    \/ AwaitRunResult(e) \/ FinishAttempt(e)
    \/ Arm(e) \/ TimerFires(e) \/ TimerCancelled(e) \/ CheckJob(e)
    \/ ClearInFlight(e) \/ ReleaseTarget(e)

Operator == CancelNextRun \/ CancelTracked \/ CollectRetries \/ CancelScheduledRetry \/ CancelAnswered

Next ==
    \/ RunOnce \/ IdleTick
    \/ \E d \in Dispatchers : TriggerNow(d) \/ ClaimTarget(d) \/ \E r \in RunIds : RetryRun(d, r)
    \/ \E e \in Executions : Thread(e) \/ CommandResult(e)
    \/ CancelJob \/ (\E r \in RunIds : CancelRun(r)) \/ Operator
    \/ \E s \in {"enabled", "disabled"} : SetEnabled(s)
    \/ DeleteJob
    \/ Stop \/ Restart

Spec == Init /\ [][Next]_vars

\* Goroutines that run go on, timers fire, and the tracker answers a command the probe
\* does not answer.  Nothing is assumed of the ticks, the clients and the evaluator.
Fairness ==
    /\ \A d \in Dispatchers : WF_vars(ClaimTarget(d))
    /\ \A e \in Executions : WF_vars(Thread(e)) /\ WF_vars(CommandResult(e))
    /\ WF_vars(Operator)

FairSpec == Spec /\ Fairness

----------------------------------------------------------------------------
\* Properties

Rows == [status : RunStatuses, startedAt : Nat]
JobRows == [state : JobStates, lastRunAt : Nat, lastStatus : RunStatuses]
Threads ==
    [at : Places, probe : Probes, attempt : Attempts, owner : Dispatchers \cup {NoOwner}, now : Nat,
     cancelled : BOOLEAN, queued : BOOLEAN, registered : BOOLEAN, ok : BOOLEAN]
Rounds == [left : Seq(Probes), now : Nat]
Cancels ==
    [at : {"idle", "runs", "track", "retries"}, left : SUBSET (RunIds \cup Probes), all : BOOLEAN, run : RunIds]

\* The type of the state.
TypeOK ==
    /\ runs \in [RunIds -> Rows]
    /\ job \in JobRows
    /\ activeTargets \subseteq Probes
    /\ inFlight \subseteq RunIds
    /\ pendingRetry \in [Probes -> Executions \cup {0}]
    /\ exec \in [Executions -> Threads]
    /\ result \in [Executions -> {"none", "open", "ok", "fail", "closed"}]
    /\ dispatcher \in [Dispatchers -> Rounds]
    /\ operator \in Cancels
    /\ clock \in Nat
    /\ stopped \in BOOLEAN
    /\ spent \in [Events -> Nat]

Live(e) == exec[e].at \notin {"none", "done"}

\* A claimed target has an execution that will release it: whatever cancels, timers, errors
\* and deletions meet, no path leaves an entry in activeTargets that keeps the job from
\* its probe until the next restart.
TargetsAreOwned ==
    \A p \in activeTargets : \E e \in Executions : Live(e) /\ exec[e].probe = p

\* docs/releases/v1.0.0-alpha.17.md: "overlap guards for in-flight (job,probe) dispatches";
\* jobs_scheduler_test.go: "expected one in-flight run".
OneInFlightRunPerTarget ==
    \A r \in RunIds, q \in RunIds :
        r # q /\ {runs[r].status, runs[q].status} \subseteq {"pending", "running"}
            => exec[r[1]].probe # exec[q[1]].probe

\* claimTarget keeps the runs of a target apart as long as nothing is canceled and
\* the scheduler is not stopped: a retry keeps the claim of the attempt before it.
NoOverlapUnlessCanceled ==
    spent["cancels"] = 0 /\ spent["restarts"] = 0 => OneInFlightRunPerTarget

\* finishAttempt retries a failed attempt and nothing else: not one that succeeded, was
\* denied, or was canceled while its result was on the way.
RetriesFollowFailures ==
    \A e \in Executions, k \in Attempts \ {1} :
        runs[<<e, k>>].status # "none" => runs[<<e, k - 1>>].status \in {"failed", "gone"}

\* updateJobStatusForLatestBatch: the job reads "success" only when every run of its last
\* batch succeeded, however the fan-out, retries and cancels were ordered.
SuccessIsEarned ==
    job.lastStatus = "success" =>
        \A r \in RunIds : runs[r].startedAt = job.lastRunAt => runs[r].status = "success"

\* The life of an attempt.  A run may be deleted with its job at any time; nothing else leaves
\* a final status.
Successors(s) ==
    CASE s = "none" -> {"queued", "pending", "denied"}
      [] s = "queued" -> {"pending", "denied", "canceled", "gone"}
      [] s = "pending" -> {"running", "denied", "canceled", "gone"}
      [] s = "running" -> {"success", "failed", "denied", "canceled", "gone"}
      [] s \in {"success", "failed", "canceled", "denied"} -> {"gone"}
      [] OTHER -> {}

Lifecycle == INSTANCE StatusLifecycle WITH
    Items <- RunIds, Statuses <- RunStatuses, First <- "none",
    After <- [s \in RunStatuses |-> Successors(s)], status <- [r \in RunIds |-> runs[r].status]

\* transitionRun and RecordRunStart keep every run on its life cycle (StatusLifecycle),
\* whichever of the threads and endpoints gets to a run first.
LifecycleImplemented == Lifecycle!Spec

\* Every execution comes to its end, and with it its runs and its claim, unless the
\* evaluator defers its attempt over and over.
ExecutionsEnd ==
    \A e \in Executions : []<>(~Live(e)) \/ []<>(exec[e].at = "arm" /\ exec[e].queued)

\* docs/releases/v1.0.0-alpha.19.md: "Queued runs are re-evaluated and drained without
\* requiring manual intervention."  A restart refutes it.
QueuedRunsAreReevaluated ==
    \A r \in RunIds :
        runs[r].status = "queued" ~> runs[r].status # "queued" \/ exec[r[1]].at = "admit"
=============================================================================
