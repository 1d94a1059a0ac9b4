------------------------------ MODULE AsyncJobs ------------------------------
(***************************************************************************)
(* The life of an asynchronous command: the dispatch handler that creates  *)
(* the job (server/routes.go), the worker scheduler that drains the queue  *)
(* (jobs/async_scheduler.go), the endpoints and the timeout checker that   *)
(* resolve a job held for approval (server/async_jobs_approval.go,         *)
(* core/approvalpolicy), the probe's answer, and a restart.                *)
(*                                                                         *)
(* A call c of the dispatch endpoint stands for everything it creates: its *)
(* job, its approval request and its command on the wire.  One store call, *)
(* one method of the approval queue and one send are each one atomic step; *)
(* handlers, the schedMu holder, the checker and the spawned goroutines    *)
(* interleave between them.  Clients may choose request ids, so two calls  *)
(* may share one (RequestOf); request_id is UNIQUE in the table.           *)
(***************************************************************************)
EXTENDS ApprovalQueueOps, Sequences, FiniteSets

CONSTANTS
    Calls,            \* calls of POST /probes/{id}/command (or POST /jobs)
    NoCall,           \* marks the idle processes
    RequestOf,        \* the request id of a call
    ProbeOf,          \* the probe of a call
    ReadOnly,         \* calls whose level is observe or diagnose
    Operators,        \* people using the approval and cancel endpoints
    System,           \* decided_by of the timeout checker
    Outcomes,         \* what policy evaluation may answer: subset of PolicyOutcomes
    WaitModes,        \* values of ?wait the clients use
    SecondModes,      \* whether two-person approval may be required
    Endpoints,        \* endpoints the operators use: subset of AllEndpoints
    TimeoutBehavior,  \* "cancel", "reads_only" or "escalate"
    Extension,        \* how long an escalation extends the window
    MaxInFlight, MaxPerProbe, FetchBatchSize,   \* AsyncWorkerConfig; MaxPerProbe = 0: no limit
    MaxQueueDepth,    \* AsyncManager's bound on queued jobs
    SendResults,      \* whether a send may succeed (TRUE), may fail (FALSE)
    Polling,          \* whether the drain loop polls during the behaviour
    MaxTime,          \* bound of the clock
    MaxRestarts       \* bound on restarts

\* "direct" is POST /jobs, which inserts a job without policy evaluation.
PolicyOutcomes == {"allow", "queue", "deny", "direct"}
AllEndpoints == {"approve", "reject", "decide", "cancel"}

ASSUME AsyncAssumption ==
    /\ NoCall \notin Calls
    /\ ReadOnly \subseteq Calls
    /\ Operators \cup {System} \subseteq Actors
    /\ Outcomes \subseteq PolicyOutcomes
    /\ WaitModes \subseteq BOOLEAN
    /\ SecondModes \subseteq BOOLEAN
    /\ Endpoints \subseteq AllEndpoints
    /\ TimeoutBehavior \in {"cancel", "reads_only", "escalate"}
    /\ Extension \in Nat \ {0}
    /\ MaxInFlight \in Nat \ {0}
    /\ MaxPerProbe \in Nat
    /\ FetchBatchSize \in Nat \ {0}
    /\ MaxQueueDepth \in Nat
    /\ SendResults \subseteq BOOLEAN
    /\ Polling \in BOOLEAN
    /\ MaxTime \in Nat
    /\ MaxRestarts \in Nat

VARIABLES
    jobs,        \* the async_jobs table
    created,     \* the calls whose job was inserted, in that order
    requests,    \* the approval queue (in memory)
    now,         \* the clock
    handler,     \* the dispatch handler of each call
    operator,    \* the endpoint call each operator has in progress
    sched,       \* what the holder of schedMu is doing
    goroutines,  \* dispatch goroutines that have not sent yet
    checker,     \* processTimedOutApprovalJobs
    wire,        \* copies of the command the probe has and has not answered
    sent,        \* history: how often the command was sent
    restarts     \* restarts so far

vars == <<jobs, created, requests, now, handler, operator, sched, goroutines, checker,
          wire, sent, restarts>>

storeVars == <<jobs, created>>
queueVars == <<requests, now>>
workerVars == <<sched, goroutines>>
probeVars == <<wire, sent>>

Probes == {ProbeOf[c] : c \in Calls}

(***************************************************************************)
(* The async_jobs table (jobs/async_store.go, jobs/async_types.go) as       *)
(* operators over the map from jobs to rows.  The store runs on one pooled  *)
(* SQLite connection, so one store call is one atomic step.  A row keeps    *)
(* the columns that the control flow reads: state, whether approval_id is   *)
(* set, expires_at and whether started_at is set.  A job that was never     *)
(* inserted has state "absent".                                             *)
(***************************************************************************)
TerminalStates == {"succeeded", "failed", "expired", "cancelled"}
AsyncJobStates == {"queued", "waiting_approval", "running"} \cup TerminalStates

NoExpiry == -1    \* expires_at IS NULL

JobRow ==
    [state : AsyncJobStates \cup {"absent"}, approval : BOOLEAN,
     expires : Nat \cup {NoExpiry}, started : BOOLEAN]

AbsentRow == [state |-> "absent", approval |-> FALSE, expires |-> NoExpiry, started |-> FALSE]
QueuedRow == [AbsentRow EXCEPT !.state = "queued"]

\* Mutant: terminal states are reachable from everywhere.
CanTransitionToTerminal(from, to) ==
    \/ from = "queued" /\ to \in {"running", "waiting_approval"}
    \/ from = "waiting_approval" /\ to = "running"
    \/ from # "absent" /\ from # to /\ to \in TerminalStates

\* canTransitionAsyncJob for two different states
CanTransitionAsyncJob(from, to) ==
    \/ from = "queued" /\ to \in {"running", "waiting_approval", "cancelled", "expired", "failed"}
    \/ from = "waiting_approval" /\ to \in {"running", "cancelled", "expired", "failed"}
    \/ from = "running" /\ to \in TerminalStates

\* Whether TransitionAsyncJob returns without error: a job that already is in the
\* target state counts as a success.
TransitionSucceeds(tbl, j, to) ==
    tbl[j].state = to \/ CanTransitionAsyncJob(tbl[j].state, to)

\* The UPDATE of TransitionAsyncJob without an expiry: expires_at is cleared, started_at
\* is set on running.
TransitionRow(row, to) ==
    IF CanTransitionAsyncJob(row.state, to)
    THEN [row EXCEPT !.state = to, !.expires = NoExpiry, !.started = @ \/ to = "running"]
    ELSE row

TransitionAsyncJob(tbl, j, to) == [tbl EXCEPT ![j] = TransitionRow(@, to)]

\* Mutant: the expiry is not stored.
MarkWaitingNoExpiry(tbl, j, expiresAt) ==
    IF CanTransitionAsyncJob(tbl[j].state, "waiting_approval")
    THEN [tbl EXCEPT ![j].state = "waiting_approval", ![j].approval = TRUE]
    ELSE tbl

\* TransitionAsyncJob to waiting_approval, with approval id and expiry
MarkWaitingApproval(tbl, j, expiresAt) ==
    IF CanTransitionAsyncJob(tbl[j].state, "waiting_approval")
    THEN [tbl EXCEPT ![j] = [@ EXCEPT !.state = "waiting_approval", !.approval = TRUE,
                                       !.expires = expiresAt]]
    ELSE tbl

\* The guard of ApproveAsyncJob and RejectAsyncJob: UPDATE ... WHERE state = waiting_approval
IsWaiting(tbl, j) == tbl[j].state = "waiting_approval"

\* Mutant: UPDATE without started_at.
ApproveUnstarted(tbl, j) ==
    IF IsWaiting(tbl, j) THEN [tbl EXCEPT ![j].state = "running"] ELSE tbl

\* ApproveAsyncJob does not go through TransitionAsyncJob and leaves expires_at alone.
ApproveAsyncJob(tbl, j) ==
    IF IsWaiting(tbl, j)
    THEN [tbl EXCEPT ![j] = [@ EXCEPT !.state = "running", !.started = TRUE]]
    ELSE tbl

RejectAsyncJob(tbl, j) ==
    IF IsWaiting(tbl, j) THEN [tbl EXCEPT ![j] = [@ EXCEPT !.state = "failed"]] ELSE tbl

ExtendApprovalExpiry(tbl, j, t) ==
    IF IsWaiting(tbl, j) THEN [tbl EXCEPT ![j] = [@ EXCEPT !.expires = t]] ELSE tbl

\* The WHERE clause shared by ListExpiredWaitingApprovalJobs and ExpireWaitingApprovalAsyncJobs
ApprovalWindowClosed(tbl, j, t) ==
    IsWaiting(tbl, j) /\ tbl[j].expires # NoExpiry /\ tbl[j].expires <= t

\* ExpireStale: what start-up does to the tbl a crashed control plane left behind.
ExpireStale(tbl, t) ==
    [j \in DOMAIN tbl |->
        IF tbl[j].state = "running" \/ ApprovalWindowClosed(tbl, j, t)
        THEN [tbl[j] EXCEPT !.state = "expired"]
        ELSE tbl[j]]

InState(tbl, s) == {j \in DOMAIN tbl : tbl[j].state = s}

----------------------------------------------------------------------------
\* The records of the processes

\* owned: the call inserted a job; second and expires: requireSecondApprover and ExpiresAt of
\* its approval request; ok: the result its waiter received was exit code 0.
Handlers ==
    [at : {"idle", "evaluated", "submitted", "now", "send", "await", "answered", "done"},
     outcome : PolicyOutcomes, wait : BOOLEAN, owned : BOOLEAN,
     second : BOOLEAN, expires : Nat, ok : BOOLEAN]

IdleHandler ==
    [at |-> "idle", outcome |-> "allow", wait |-> FALSE, owned |-> FALSE,
     second |-> FALSE, expires |-> 0, ok |-> FALSE]

\* approval: the approve handler read a job row with its approval_id set
OperatorSteps ==
    [at : {"idle", "read", "late", "approved", "rejected", "cancelled", "decided", "send", "mark"},
     call : Calls \cup {NoCall}, approval : BOOLEAN]

\* total and per: the running counts the schedMu holder took; batch: the listed jobs
Schedulers ==
    [at : {"free", "list", "drain", "claim", "send"}, call : Calls \cup {NoCall},
     batch : Seq(Calls), total : Nat, per : [Probes -> Nat]]

\* tick: the time of the timer tick being processed
Checkers ==
    [at : {"idle", "jobs", "sync"}, left : SUBSET Calls, call : Calls \cup {NoCall},
     approve : BOOLEAN, tick : Nat]

Goroutines == Calls \X {"drain", "approve", "timeout"}

IdleOperator == [at |-> "idle", call |-> NoCall, approval |-> FALSE]
FreeSched ==
    [at |-> "free", call |-> NoCall, batch |-> <<>>, total |-> 0, per |-> [p \in Probes |-> 0]]
IdleChecker == [at |-> "idle", left |-> {}, call |-> NoCall, approve |-> FALSE, tick |-> 0]

Init ==
    /\ jobs = [c \in Calls |-> AbsentRow]
    /\ created = <<>>
    /\ requests = EmptyQueue
    /\ now = 0
    /\ handler = [c \in Calls |-> IdleHandler]
    /\ operator = [o \in Operators |-> IdleOperator]
    /\ sched = FreeSched
    /\ goroutines = {}
    /\ checker = IdleChecker
    /\ wire = [c \in Calls |-> 0]
    /\ sent = [c \in Calls |-> 0]
    /\ restarts = 0

----------------------------------------------------------------------------
\* Helpers

\* transitionByRequestID: the lookup by request id finds the job of whichever call owns it.
TransitionByRequestID(c, to) ==
    [j \in Calls |-> IF RequestOf[j] = RequestOf[c] THEN TransitionRow(jobs[j], to) ELSE jobs[j]]

\* completeAsyncJobByRequestID
CompleteByRequestID(c, ok) == TransitionByRequestID(c, IF ok THEN "succeeded" ELSE "failed")

RequestTaken(c) == \E j \in Calls : RequestOf[j] = RequestOf[c] /\ jobs[j].state # "absent"

\* Mutant: off by one.
SaturatedLate == MaxQueueDepth > 0 /\ Cardinality(InState(jobs, "queued")) > MaxQueueDepth

Saturated == MaxQueueDepth > 0 /\ Cardinality(InState(jobs, "queued")) >= MaxQueueDepth

\* RunningAsyncJobsByProbe
RunningByProbe == [p \in Probes |-> Cardinality({c \in InState(jobs, "running") : ProbeOf[c] = p})]

\* The command reaches the probe, or SendTo fails.
Send(c) ==
    /\ wire' = [wire EXCEPT ![c] = @ + 1]
    /\ sent' = [sent EXCEPT ![c] = @ + 1]

HandlerAt(c, at) == handler' = [handler EXCEPT ![c].at = at]
OperatorAt(o, at) ==
    operator' = [operator EXCEPT ![o] = IF at = "idle" THEN IdleOperator ELSE [@ EXCEPT !.at = at]]

----------------------------------------------------------------------------
\* handleDispatchCommand

\* Policy evaluation and createAsyncCommandJob.  A saturated queue ends the request; any
\* other insert error (the request id is taken) leaves asyncJob nil and the handler goes on.
\* POST /jobs ("direct") only inserts.
Dispatch(c, outcome, wait) ==
    /\ handler[c].at = "idle"
    /\ LET inserts == ~Saturated /\ ~RequestTaken(c)
           at == IF Saturated \/ outcome = "direct" THEN "done" ELSE "evaluated"
       IN  /\ handler' = [handler EXCEPT ![c] = [IdleHandler EXCEPT
                 !.at = at, !.outcome = outcome, !.wait = wait, !.owned = inserts]]
           /\ jobs' = IF inserts THEN [jobs EXCEPT ![c] = QueuedRow] ELSE jobs
           /\ created' = IF inserts THEN Append(created, c) ELSE created
    /\ UNCHANGED <<queueVars, operator, workerVars, checker, probeVars, restarts>>

Deny(c) ==
    /\ handler[c].at = "evaluated" /\ handler[c].outcome = "deny"
    /\ jobs' = TransitionByRequestID(c, "failed")
    /\ HandlerAt(c, "done")
    /\ UNCHANGED <<created, queueVars, operator, workerVars, checker, probeVars, restarts>>

\* SubmitWithWorkspaceAndOptions; a full queue fails the job.  The bound on the clock keeps
\* every approval window inside the modelled time.
SubmitApproval(c, second) ==
    /\ handler[c].at = "evaluated" /\ handler[c].outcome = "queue"
    /\ now + TTL < MaxTime
    /\ IF IsFull(requests, now)
       THEN /\ requests' = EvictExpired(requests, now)
            /\ jobs' = TransitionByRequestID(c, "failed")
            /\ HandlerAt(c, "done")
       ELSE /\ requests' = AfterSubmit(requests, c, second, now)
            /\ handler' = [handler EXCEPT ![c] = [@ EXCEPT !.expires = now + TTL, !.second = second,
                             !.at = IF handler[c].owned THEN "submitted" ELSE "done"]]
            /\ UNCHANGED jobs
    /\ UNCHANGED <<created, now, operator, workerVars, checker, probeVars, restarts>>

MarkWaiting(c) ==
    /\ handler[c].at = "submitted"
    /\ jobs' = MarkWaitingApproval(jobs, c, handler[c].expires)
    /\ HandlerAt(c, "done")
    /\ UNCHANGED <<created, queueVars, operator, workerVars, checker, probeVars, restarts>>

\* The path of ?wait and of a call without a job: markAsyncJobRunning, if there is a job.
MarkRunning(c) ==
    /\ handler[c].at = "evaluated" /\ handler[c].outcome = "allow"
    /\ handler[c].wait \/ ~handler[c].owned
    /\ jobs' = IF handler[c].owned THEN TransitionAsyncJob(jobs, c, "running") ELSE jobs
    /\ HandlerAt(c, "send")
    /\ UNCHANGED <<created, queueVars, operator, workerVars, checker, probeVars, restarts>>

\* Mutant: the failed send is not reported to the job.
InvokeCommandUnreported(c, ok) ==
    /\ handler[c].at = "send"
    /\ IF ok THEN Send(c) ELSE UNCHANGED probeVars
    /\ HandlerAt(c, IF ok /\ handler[c].wait THEN "await" ELSE "done")
    /\ UNCHANGED <<storeVars, queueVars, operator, workerVars, checker, restarts>>

InvokeCommand(c, ok) ==
    /\ handler[c].at = "send"
    /\ IF ok THEN /\ Send(c)
                  /\ HandlerAt(c, IF handler[c].wait THEN "await" ELSE "done")
                  /\ UNCHANGED jobs
             ELSE /\ jobs' = TransitionByRequestID(c, "failed")
                  /\ HandlerAt(c, "done")
                  /\ UNCHANGED probeVars
    /\ UNCHANGED <<created, queueVars, operator, workerVars, checker, restarts>>

\* Mutant: no timeout.
FinishWaitOnlyAnswered(c) ==
    /\ handler[c].at = "answered"
    /\ jobs' = CompleteByRequestID(c, handler[c].ok)
    /\ HandlerAt(c, "done")
    /\ UNCHANGED <<created, queueVars, operator, workerVars, checker, probeVars, restarts>>

\* waitForResult gives up (timeout, or the client is gone), or its channel delivered
\* something: a result, or the close of a cancelled command.
FinishWait(c) ==
    /\ handler[c].at \in {"await", "answered"}
    /\ jobs' = CompleteByRequestID(c, handler[c].at = "answered" /\ handler[c].ok)
    /\ HandlerAt(c, "done")
    /\ UNCHANGED <<created, queueVars, operator, workerVars, checker, probeVars, restarts>>

----------------------------------------------------------------------------
\* AsyncWorkerScheduler: everything here happens under schedMu, held while sched.at # "free".

\* claimQueuedJob up to the limits.  The counts are the holder's own, taken earlier.
WithinLimits(c) ==
    /\ sched.total < MaxInFlight
    /\ MaxPerProbe = 0 \/ sched.per[ProbeOf[c]] < MaxPerProbe

\* claimQueuedJob asks for the transition to running, which also succeeds for a job that
\* left "queued" for waiting_approval, or for running, after it was listed.
Claims(c) == WithinLimits(c) /\ TransitionSucceeds(jobs, c, "running")

\* Mutant: the claimed job is not counted.
NotCounted(s, c) == s
Counted(s, c) == [s EXCEPT !.total = @ + 1, !.per[ProbeOf[c]] = @ + 1]

\* DispatchNow takes schedMu, reads the job and the counts.
DispatchNow(c) ==
    /\ handler[c].at = "evaluated" /\ handler[c].outcome = "allow"
    /\ ~handler[c].wait /\ handler[c].owned
    /\ sched.at = "free"
    /\ IF jobs[c].state # "queued"
       THEN HandlerAt(c, "done") /\ UNCHANGED sched
       ELSE /\ HandlerAt(c, "now")
            /\ sched' = [FreeSched EXCEPT !.at = "claim", !.call = c, !.per = RunningByProbe,
                                          !.total = Cardinality(InState(jobs, "running"))]
    /\ UNCHANGED <<storeVars, queueVars, operator, goroutines, checker, probeVars, restarts>>

\* Mutant: the claimed job is handed to a goroutine and also sent under the lock.
ClaimNowSpawnsToo ==
    LET c == sched.call IN
    /\ sched.at = "claim"
    /\ IF Claims(c)
       THEN /\ jobs' = TransitionAsyncJob(jobs, c, "running")
            /\ sched' = [Counted(sched, c) EXCEPT !.at = "send"]
            /\ goroutines' = goroutines \cup {<<c, "drain">>}
            /\ UNCHANGED handler
       ELSE /\ sched' = FreeSched
            /\ HandlerAt(c, "done")
            /\ UNCHANGED <<jobs, goroutines>>
    /\ UNCHANGED <<created, queueVars, operator, checker, probeVars, restarts>>

ClaimNow ==
    LET c == sched.call IN
    /\ sched.at = "claim"
    /\ IF Claims(c)
       THEN /\ jobs' = TransitionAsyncJob(jobs, c, "running")
            /\ sched' = [Counted(sched, c) EXCEPT !.at = "send"]
            /\ UNCHANGED handler
       ELSE /\ sched' = FreeSched
            /\ HandlerAt(c, "done")
            /\ UNCHANGED jobs
    /\ UNCHANGED <<created, queueVars, operator, goroutines, checker, probeVars, restarts>>

\* dispatchClaimedSync under the lock; a failed send fails the job.
SendNow(ok) ==
    LET c == sched.call IN
    /\ sched.at = "send"
    /\ IF ok THEN Send(c) /\ UNCHANGED jobs
             ELSE jobs' = TransitionByRequestID(c, "failed") /\ UNCHANGED probeVars
    /\ sched' = FreeSched
    /\ HandlerAt(c, "done")
    /\ UNCHANGED <<created, queueVars, operator, goroutines, checker, restarts>>

\* Mutant: off by one, the last slot is never used.
DrainCountKeepsOneSlot ==
    /\ Polling
    /\ sched.at = "free"
    /\ Cardinality(InState(jobs, "running")) + 1 < MaxInFlight
    /\ sched' = [FreeSched EXCEPT !.at = "list", !.per = RunningByProbe,
                                  !.total = Cardinality(InState(jobs, "running"))]
    /\ UNCHANGED <<storeVars, queueVars, handler, operator, goroutines, checker, probeVars, restarts>>

\* drainQueued: count the running jobs; return when there is no free slot.
DrainCount ==
    /\ Polling
    /\ sched.at = "free"
    /\ Cardinality(InState(jobs, "running")) < MaxInFlight
    /\ sched' = [FreeSched EXCEPT !.at = "list", !.per = RunningByProbe,
                                  !.total = Cardinality(InState(jobs, "running"))]
    /\ UNCHANGED <<storeVars, queueVars, handler, operator, goroutines, checker, probeVars, restarts>>

Older(c, d) == \E i, j \in DOMAIN created : i < j /\ created[i] = c /\ created[j] = d

\* ListAsyncJobsByState(queued, FetchBatchSize): the oldest queued jobs, oldest first
DrainList ==
    LET queued == InState(jobs, "queued")
        size   == IF Cardinality(queued) < FetchBatchSize THEN Cardinality(queued) ELSE FetchBatchSize
    IN
    /\ sched.at = "list"
    /\ IF queued = {} THEN sched' = FreeSched
       ELSE \E batch \in [1..size -> queued] :
               /\ \A i, j \in 1..size : i < j => Older(batch[i], batch[j])
               /\ \A c \in queued : Older(c, batch[size]) => \E i \in 1..size : batch[i] = c
               /\ sched' = [sched EXCEPT !.at = "drain", !.batch = batch]
    /\ UNCHANGED <<storeVars, queueVars, handler, operator, goroutines, checker, probeVars, restarts>>

\* One round of the loop.  started >= available is sched.total >= MaxInFlight.
DrainClaim ==
    LET c    == Head(sched.batch)
        rest == IF Claims(c) THEN Counted(sched, c) ELSE sched
    IN
    /\ sched.at = "drain"
    /\ jobs' = IF Claims(c) THEN TransitionAsyncJob(jobs, c, "running") ELSE jobs
    /\ goroutines' = IF Claims(c) THEN goroutines \cup {<<c, "drain">>} ELSE goroutines
    /\ sched' = IF Tail(sched.batch) = <<>> \/ rest.total >= MaxInFlight THEN FreeSched
                ELSE [rest EXCEPT !.batch = Tail(sched.batch)]
    /\ UNCHANGED <<created, queueVars, handler, operator, checker, probeVars, restarts>>

\* dispatchQueuedAsyncJob in its goroutine.  The scheduler's goroutine fails the job when the
\* send fails; those of the approve endpoint and of the checker only log it.
RunGoroutine(g, ok) ==
    LET c == g[1] IN
    /\ g \in goroutines
    /\ goroutines' = goroutines \ {g}
    /\ IF ok THEN Send(c) ELSE UNCHANGED probeVars
    /\ jobs' = IF ~ok /\ g[2] = "drain" THEN TransitionAsyncJob(jobs, c, "failed") ELSE jobs
    /\ UNCHANGED <<created, queueVars, handler, operator, sched, checker, restarts>>

----------------------------------------------------------------------------
\* The probe, the clock, the queue's reaper, a restart

Awaiting(c) == {h \in Calls : RequestOf[h] = RequestOf[c] /\ handler[h].at = "await"}

\* A waiter of the request, if there is one, finds its channel filled or closed.
WakeWaiter(c, ok) ==
    IF Awaiting(c) = {} THEN UNCHANGED handler
    ELSE \E h \in Awaiting(c) : handler' = [handler EXCEPT ![h] = [@ EXCEPT !.at = "answered", !.ok = ok]]

\* command_result: tracker.Complete and completeAsyncJobByRequestID
ProbeResult(c, ok) ==
    /\ wire[c] > 0
    /\ wire' = [wire EXCEPT ![c] = @ - 1]
    /\ WakeWaiter(c, ok)
    /\ jobs' = CompleteByRequestID(c, ok)
    /\ UNCHANGED <<created, queueVars, operator, workerVars, checker, sent, restarts>>

Sweep ==
    /\ requests' = EvictExpired(requests, now)
    /\ UNCHANGED <<storeVars, now, handler, operator, workerVars, checker, probeVars, restarts>>

Tick ==
    /\ now < MaxTime
    /\ now' = now + 1
    /\ UNCHANGED <<storeVars, requests, handler, operator, workerVars, checker, probeVars, restarts>>

\* The process dies and starts again: handlers, goroutines and the approval queue are gone,
\* initJobs expires the stale jobs.  Probes keep the commands they have.
Restart ==
    /\ restarts < MaxRestarts
    /\ restarts' = restarts + 1
    /\ jobs' = ExpireStale(jobs, now)
    /\ requests' = EmptyQueue
    /\ handler' = [c \in Calls |-> IF handler[c].at = "idle" THEN handler[c]
                                   ELSE [handler[c] EXCEPT !.at = "done"]]
    /\ operator' = [o \in Operators |-> IdleOperator]
    /\ sched' = FreeSched
    /\ goroutines' = {}
    /\ checker' = IdleChecker
    /\ UNCHANGED <<created, now, probeVars>>

----------------------------------------------------------------------------
\* The endpoints operators use on a job or on its approval request

Starts(o, verb, c) ==
    /\ verb \in Endpoints
    /\ operator[o].at = "idle"
    /\ jobs[c].state # "absent"

\* syncApprovalDecision: no approval id, or no such request, is not an error.
Synced(c, approval, d, by) ==
    IF approval THEN AfterDecide(requests, c, d, by, now) ELSE requests

\* handleApproveAsyncJob: GetJob
ApproveRead(o, c) ==
    /\ Starts(o, "approve", c)
    /\ operator' = [operator EXCEPT ![o] = [at |-> "read", call |-> c, approval |-> jobs[c].approval]]
    /\ UNCHANGED <<storeVars, queueVars, handler, workerVars, checker, probeVars, restarts>>

\* Its syncApprovalDecision.  "already decided" takes the branch that leaves the job to the
\* job manager; a duplicate or expired approval is refused.
ApproveSync(o) ==
    LET c == operator[o].call
        outcome == IF operator[o].approval THEN DecideOutcome(requests, c, "approved", o, now)
                                           ELSE "not found"
    IN
    /\ operator[o].at = "read"
    /\ requests' = Synced(c, operator[o].approval, "approved", o)
    /\ OperatorAt(o, CASE outcome = "already decided" -> "late"
                       [] outcome \in {"ok", "not found"} -> "approved"
                       [] outcome \in {"duplicate", "expired"} -> "idle")
    /\ UNCHANGED <<storeVars, now, handler, workerVars, checker, probeVars, restarts>>

\* The request is re-read through its pointer; without the quorum the job is left alone.
\* Otherwise ApproveJob, and the dispatch goroutine.
ApproveJob(o) ==
    LET c == operator[o].call
        short == operator[o].approval /\ c \in DOMAIN requests /\ requests[c].decision = "pending"
    IN
    /\ operator[o].at = "approved"
    /\ OperatorAt(o, "idle")
    /\ IF ~short /\ IsWaiting(jobs, c)
       THEN /\ jobs' = ApproveAsyncJob(jobs, c)
            /\ goroutines' = goroutines \cup {<<c, "approve">>}
       ELSE UNCHANGED <<jobs, goroutines>>
    /\ UNCHANGED <<created, queueVars, handler, sched, checker, probeVars, restarts>>

\* The branch for an approval that is already decided: ApproveJob and no dispatch.
ApproveLate(o) ==
    /\ operator[o].at = "late"
    /\ OperatorAt(o, "idle")
    /\ jobs' = ApproveAsyncJob(jobs, operator[o].call)
    /\ UNCHANGED <<created, queueVars, handler, workerVars, checker, probeVars, restarts>>

\* handleRejectAsyncJob: RejectJob, then the queue
Reject(o, c) ==
    /\ Starts(o, "reject", c)
    /\ IsWaiting(jobs, c)
    /\ jobs' = RejectAsyncJob(jobs, c)
    /\ operator' = [operator EXCEPT ![o] = [at |-> "rejected", call |-> c, approval |-> TRUE]]
    /\ UNCHANGED <<created, queueVars, handler, workerVars, checker, probeVars, restarts>>

RejectSync(o) ==
    /\ operator[o].at = "rejected"
    /\ requests' = Synced(operator[o].call, TRUE, "denied", o)
    /\ OperatorAt(o, "idle")
    /\ UNCHANGED <<storeVars, now, handler, workerVars, checker, probeVars, restarts>>

\* DecideAndDispatch (POST /approvals/{id}/decide): Queue.Decide
Decide(o, c, d) ==
    /\ "decide" \in Endpoints /\ operator[o].at = "idle"
    /\ DecideOutcome(requests, c, d, o, now) \in {"ok", "expired"}
    /\ requests' = AfterDecide(requests, c, d, o, now)
    /\ operator' = IF DecideOutcome(requests, c, d, o, now) = "expired" THEN operator
                   ELSE [operator EXCEPT ![o] = [at |-> "decided", call |-> c, approval |-> TRUE]]
    /\ UNCHANGED <<storeVars, now, handler, workerVars, checker, probeVars, restarts>>

\* Mutant: the dispatch requires only that the request was not denied.
DecisionRecordedAnyApproval(o) ==
    LET c == operator[o].call
        decision == IF c \in DOMAIN requests THEN requests[c].decision ELSE "expired"
    IN
    /\ operator[o].at = "decided"
    /\ jobs' = IF decision = "denied" THEN TransitionByRequestID(c, "failed") ELSE jobs
    /\ OperatorAt(o, IF decision # "denied" THEN "send" ELSE "idle")
    /\ UNCHANGED <<created, queueVars, handler, workerVars, checker, probeVars, restarts>>

\* RequiresDispatch and OnDecisionRecorded read the decision through the request's pointer,
\* outside the queue's lock.
DecisionRecorded(o) ==
    LET c == operator[o].call
        decision == IF c \in DOMAIN requests THEN requests[c].decision ELSE "expired"
    IN
    /\ operator[o].at = "decided"
    /\ jobs' = IF decision = "denied" THEN TransitionByRequestID(c, "failed") ELSE jobs
    /\ OperatorAt(o, IF decision = "approved" THEN "send" ELSE "idle")
    /\ UNCHANGED <<created, queueVars, handler, workerVars, checker, probeVars, restarts>>

\* DispatchApprovedCommand; when it fails the job is left as it is.
DispatchApproved(o, ok) ==
    /\ operator[o].at = "send"
    /\ IF ok THEN Send(operator[o].call) ELSE UNCHANGED probeVars
    /\ OperatorAt(o, IF ok THEN "mark" ELSE "idle")
    /\ UNCHANGED <<storeVars, queueVars, handler, workerVars, checker, restarts>>

\* OnApprovedDispatch: markAsyncJobRunningByRequestID
ApprovedDispatch(o) ==
    /\ operator[o].at = "mark"
    /\ jobs' = TransitionByRequestID(operator[o].call, "running")
    /\ OperatorAt(o, "idle")
    /\ UNCHANGED <<created, queueVars, handler, workerVars, checker, probeVars, restarts>>

\* handleCancelAsyncJob: CancelJob, then tracker.Cancel
Cancel(o, c) ==
    /\ Starts(o, "cancel", c)
    /\ TransitionSucceeds(jobs, c, "cancelled")
    /\ jobs' = TransitionAsyncJob(jobs, c, "cancelled")
    /\ operator' = [operator EXCEPT ![o] = [at |-> "cancelled", call |-> c, approval |-> FALSE]]
    /\ UNCHANGED <<created, queueVars, handler, workerVars, checker, probeVars, restarts>>

CancelTracked(o) ==
    /\ operator[o].at = "cancelled"
    /\ WakeWaiter(operator[o].call, FALSE)
    /\ OperatorAt(o, "idle")
    /\ UNCHANGED <<storeVars, queueVars, workerVars, checker, probeVars, restarts>>

----------------------------------------------------------------------------
\* processTimedOutApprovalJobs

Remaining(left) ==
    IF left = {} THEN IdleChecker
    ELSE [checker EXCEPT !.at = "jobs", !.left = left, !.call = NoCall, !.approve = FALSE]

CheckTimeouts ==
    LET expired == {c \in Calls : ApprovalWindowClosed(jobs, c, now)} IN
    /\ checker.at = "idle"
    /\ expired # {}
    /\ checker' = [IdleChecker EXCEPT !.at = "jobs", !.left = expired, !.tick = now]
    /\ UNCHANGED <<storeVars, queueVars, handler, operator, workerVars, probeVars, restarts>>

\* Mutant: the duration is stored as if it were the new expiry.
EscalateToDuration(c) ==
    /\ checker.at = "jobs" /\ c \in checker.left
    /\ TimeoutBehavior = "escalate"
    /\ jobs' = ExtendApprovalExpiry(jobs, c, Extension - 1)
    /\ checker' = Remaining(checker.left \ {c})
    /\ UNCHANGED <<created, queueVars, handler, operator, workerVars, probeVars, restarts>>

Escalate(c) ==
    /\ checker.at = "jobs" /\ c \in checker.left
    /\ TimeoutBehavior = "escalate"
    /\ checker.tick + Extension < MaxTime
    /\ jobs' = ExtendApprovalExpiry(jobs, c, checker.tick + Extension)
    /\ checker' = Remaining(checker.left \ {c})
    /\ UNCHANGED <<created, queueVars, handler, operator, workerVars, probeVars, restarts>>

\* reads_only approves a read-only job; everything else is cancelled.  A job that is no
\* longer in a state that allows it is skipped.
TimeOut(c) ==
    LET approve == TimeoutBehavior = "reads_only" /\ c \in ReadOnly
        applies == IF approve THEN IsWaiting(jobs, c) ELSE TransitionSucceeds(jobs, c, "cancelled")
    IN
    /\ checker.at = "jobs" /\ c \in checker.left
    /\ TimeoutBehavior # "escalate"
    /\ jobs' = IF approve THEN ApproveAsyncJob(jobs, c) ELSE TransitionAsyncJob(jobs, c, "cancelled")
    /\ checker' = IF applies THEN [checker EXCEPT !.at = "sync", !.call = c, !.approve = approve]
                             ELSE Remaining(checker.left \ {c})
    /\ UNCHANGED <<created, queueVars, handler, operator, workerVars, probeVars, restarts>>

TimeOutSync ==
    LET c == checker.call IN
    /\ checker.at = "sync"
    /\ requests' = Synced(c, TRUE, IF checker.approve THEN "approved" ELSE "denied", System)
    /\ goroutines' = IF checker.approve THEN goroutines \cup {<<c, "timeout">>} ELSE goroutines
    /\ checker' = Remaining(checker.left \ {c})
    /\ UNCHANGED <<storeVars, now, handler, operator, sched, probeVars, restarts>>

----------------------------------------------------------------------------
\* The specification

HandlerStep(c) ==
    \/ Deny(c)
    \/ \E second \in SecondModes : SubmitApproval(c, second)
    \/ MarkWaiting(c)
    \/ MarkRunning(c)
    \/ \E ok \in SendResults : InvokeCommand(c, ok)
    \/ FinishWait(c)
    \/ DispatchNow(c)

SchedStep ==
    \/ ClaimNow
    \/ \E ok \in SendResults : SendNow(ok)
    \/ DrainList
    \/ DrainClaim

\* The rest of an endpoint call an operator has started
OperatorStep(o) ==
    \/ ApproveSync(o)
    \/ ApproveJob(o)
    \/ ApproveLate(o)
    \/ RejectSync(o)
    \/ DecisionRecorded(o)
    \/ \E ok \in SendResults : DispatchApproved(o, ok)
    \/ ApprovedDispatch(o)
    \/ CancelTracked(o)

CheckerStep ==
    \/ CheckTimeouts
    \/ \E c \in Calls : Escalate(c)
    \/ \E c \in Calls : TimeOut(c)
    \/ TimeOutSync

Next ==
    \/ \E c \in Calls, outcome \in Outcomes, wait \in WaitModes : Dispatch(c, outcome, wait)
    \/ \E c \in Calls : HandlerStep(c)
    \/ DrainCount
    \/ SchedStep
    \/ \E g \in Goroutines, ok \in SendResults : RunGoroutine(g, ok)
    \/ \E o \in Operators, c \in Calls :
          \/ ApproveRead(o, c)
          \/ Reject(o, c)
          \/ Cancel(o, c)
          \/ \E d \in {"approved", "denied"} : Decide(o, c, d)
    \/ \E o \in Operators : OperatorStep(o)
    \/ CheckerStep
    \/ \E c \in Calls, ok \in BOOLEAN : ProbeResult(c, ok)
    \/ Sweep
    \/ Tick
    \/ Restart

Spec == Init /\ [][Next]_vars

\* Goroutines that have started keep running, the tickers keep firing and time passes.
\* A goroutine blocked on schedMu gets it at last (sync.Mutex serves waiters in order once
\* one has waited for a millisecond).  Nothing is assumed of clients, operators and probes.
Fairness ==
    /\ WF_vars(Tick)
    /\ WF_vars(DrainCount)
    /\ WF_vars(SchedStep)
    /\ WF_vars(CheckerStep)
    /\ \A g \in Goroutines : WF_vars(\E ok \in SendResults : RunGoroutine(g, ok))
    /\ \A c \in Calls : WF_vars(HandlerStep(c)) /\ SF_vars(DispatchNow(c))
    /\ \A o \in Operators : WF_vars(OperatorStep(o))

FairSpec == Spec /\ Fairness

----------------------------------------------------------------------------
\* Properties

\* The type of the state.
TypeOK ==
    /\ jobs \in [Calls -> JobRow]
    /\ created \in Seq(Calls)
    /\ DOMAIN requests \subseteq Calls
    /\ \A c \in DOMAIN requests : requests[c] \in Request
    /\ now \in 0..MaxTime
    /\ handler \in [Calls -> Handlers]
    /\ operator \in [Operators -> OperatorSteps]
    /\ sched \in Schedulers
    /\ goroutines \subseteq Goroutines
    /\ checker \in Checkers
    /\ wire \in [Calls -> Nat]
    /\ sent \in [Calls -> Nat]
    /\ restarts \in 0..MaxRestarts

\* The life of a job: it starts queued, may be held for approval once, runs at most once, and
\* a terminal state is final.
Successors(s) ==
    CASE s = "absent" -> {"queued"}
      [] s = "queued" -> {"waiting_approval", "running", "failed", "expired", "cancelled"}
      [] s = "waiting_approval" -> {"running", "failed", "expired", "cancelled"}
      [] s = "running" -> {"succeeded", "failed", "expired", "cancelled"}
      [] OTHER -> {}

Lifecycle == INSTANCE StatusLifecycle WITH
    Items <- Calls, Statuses <- AsyncJobStates \cup {"absent"}, First <- "absent",
    After <- [s \in AsyncJobStates \cup {"absent"} |-> Successors(s)],
    status <- [c \in Calls |-> jobs[c].state]

\* The states of the jobs move only along their life cycle (StatusLifecycle): no step of
\* any handler, the scheduler, the checker, a probe or a restart skips or reverses a transition.
LifecycleRespected == Lifecycle!Spec

\* CreateJob counts and inserts under m.mu: the table never holds more queued jobs than
\* async_max_queue_depth, whatever the scheduler and restarts do meanwhile.
QueueDepthBounded == MaxQueueDepth = 0 \/ Cardinality(InState(jobs, "queued")) <= MaxQueueDepth

\* The scheduler keeps the in-flight limits, global and per probe, although the counts it
\* compares with are taken before it lists, and claims, the jobs one by one.
InFlightBounded ==
    /\ Cardinality(InState(jobs, "running")) <= MaxInFlight
    /\ MaxPerProbe = 0 \/ \A p \in Probes : RunningByProbe[p] <= MaxPerProbe

\* Where commands are not held for approval and no client waits for a result, a command is
\* sent to its probe at most once, although DispatchNow, the drain loop, its goroutines and a
\* restarted control plane may all pick up its job, and cancels and answers cross them.  (A
\* ?wait=true handler sends whatever became of its job, and so may send a second time.)
SentAtMostOnce == \A c \in Calls : sent[c] <= 1

\* A command is sent only after its job was moved to running, so that the probe's answer
\* finds a job that it can complete.
SentOnlyOnceStarted == \A c \in Calls : sent[c] > 0 => jobs[c].started

Requested(c, d) == RequestOf[d] = RequestOf[c]

\* Somebody is going to send the command of job c, or to hear from the probe about it.
InWork(c) ==
    \/ \E g \in goroutines : g[1] = c
    \/ sched.at = "send" /\ sched.call = c
    \/ checker.at = "sync" /\ checker.approve /\ checker.call = c
    \/ \E h \in Calls : Requested(c, h) /\ (handler[h].at \in {"send", "await", "answered"} \/ wire[h] > 0)
    \/ \E o \in Operators : operator[o].at = "send" /\ Requested(c, operator[o].call)

\* Where commands are not held for approval, a running job has somebody who is about to send
\* it, a probe that has its command, or a client that waits.  Running jobs have no timeout:
\* one that nobody will send any more holds its in-flight slot until the next restart, as does
\* one whose probe never answers, which this does not exclude.
RunningJobsAreInWork == \A c \in Calls : jobs[c].state = "running" => InWork(c)

\* DecideAndDispatch and the checker's escalation: a command held for approval is sent only
\* while its request is approved in the queue, and while its job waits, the approval window
\* is only ever extended.
HeldCommandsNeedApproval ==
    [][\A c \in Calls :
          /\ sent'[c] # sent[c] /\ handler[c].outcome = "queue"
                => c \in DOMAIN requests /\ requests[c].decision = "approved"
          /\ jobs[c].state = "waiting_approval" /\ jobs'[c].state = "waiting_approval"
                => jobs'[c].expires >= jobs[c].expires]_vars

\* A job held for approval does not stay in waiting_approval: somebody decides, or the timeout
\* checker or a restart resolves it once its window has closed.
WaitingJobsAreResolved ==
    \A c \in Calls : jobs[c].state = "waiting_approval" ~> jobs[c].state # "waiting_approval"

HasSlot(c) ==
    /\ Cardinality(InState(jobs, "running")) < MaxInFlight
    /\ MaxPerProbe = 0 \/ RunningByProbe[ProbeOf[c]] < MaxPerProbe

\* drainQueued does not forget a queued job: if it stays queued for good, then again and
\* again there is no free slot for it, globally or on its probe.
QueuedJobsAreServed ==
    \A c \in Calls : <>[](jobs[c].state = "queued") => []<>(~HasSlot(c))

\* Every dispatch request is answered: its handler does not hang on schedMu, on a lost result
\* or on a cancelled command.
RequestsAreAnswered ==
    \A c \in Calls : handler[c].at # "idle" ~> handler[c].at = "done"

----------------------------------------------------------------------------
\* Statements of the repository's tests and documents that the code does not keep

\* async_jobs_test.go: "expected no dispatch while pending approval".
NoDispatchWhilePending ==
    \A c \in Calls : c \in DOMAIN requests /\ requests[c].decision = "pending" => sent[c] = 0

\* CHANGELOG.md: "approval requests require two distinct approvers before dispatch", here of
\* the commands sent after a restart.
TwoApproversAfterRestart ==
    [][\A c \in Calls : restarts > 0 /\ sent'[c] # sent[c] /\ handler[c].second
          => c \in DOMAIN requests /\ Len(requests[c].approvals) >= 2]_vars
=============================================================================
