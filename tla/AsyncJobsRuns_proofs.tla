------------------------- MODULE AsyncJobsRuns_proofs -------------------------
(***************************************************************************)
(* Proofs about the life of an async job: the life cycle, the length of    *)
(* the queue, who works on a running job, the limits on running jobs, and  *)
(* that a job is started before its command is sent.                       *)
(***************************************************************************)
EXTENDS AsyncJobs_proofs

----------------------------------------------------------------------------
\* The life cycle and the length of the queue

\* The table of jobs implements the promised life cycle: canTransitionAsyncJob, and the
\* UPDATEs of the approval endpoints, the timeout checker and the start-up, which bypass it,
\* together never skip or reverse a transition, under any interleaving.
THEOREM LifecycleImplemented == Spec => LifecycleRespected
  <1> USE DEF JobStates
  <1> DEFINE status == [c \in Calls |-> jobs[c].state]
  <1>1. Init => Lifecycle!Init
    BY DEF Init, Lifecycle!Init, AbsentRow
  <1>2. TInv /\ [Next]_vars => [Lifecycle!Step]_status
    <2> SUFFICES ASSUME TInv, [Next]_vars
                 PROVE  Lifecycle!Step
      OBVIOUS
    <2>1. Rows(jobs) /\ Rows(jobs')
      BY JobsType DEF TInv, TypeOK, Rows
    <2>2. ASSUME NEW c \in Calls
          PROVE  /\ jobs'[c].state \in JobStates
                 /\ jobs'[c].state = jobs[c].state
                      \/ jobs'[c].state \in Successors(jobs[c].state)
      <3>1. jobs'[c].state \in JobStates
        BY <2>1 DEF Rows, JobRow
      <3>2. ASSUME NEW d \in Calls, Inserts(jobs, d, jobs')
            PROVE  jobs'[c].state = jobs[c].state
                     \/ jobs'[c].state \in Successors(jobs[c].state)
        <4>1. "queued" \in Successors("absent")
          BY DEF Successors
        <4>2. CASE c = d
          <5>1. jobs'[c] = QueuedRow /\ jobs[c].state = "absent"
            BY <2>1, <3>2, <4>2 DEF Inserts, Rows
          <5> QED BY <4>1, <5>1, NewRows
        <4>3. CASE c # d
          BY <2>1, <3>2, <4>3 DEF Inserts, Rows
        <4> QED BY <4>2, <4>3
      <3>3. CASE Moves(jobs, jobs')
        <4>1. RowMoves(jobs[c], jobs'[c])
          BY <3>3, Zenon DEF Moves
        <4> QED BY <3>1, <4>1, Zenon DEF RowMoves
      <3> QED BY <3>1, <3>2, <3>3, StepMoves
    <2>3. ASSUME NEW c \in Calls PROVE jobs[c].state \in JobStates
      BY <2>1 DEF Rows, JobRow
    <2> QED BY <2>2, <2>3 DEF Lifecycle!Step
  <1> QED BY <1>1, <1>2, TypeInvariant, PTL DEF Spec, LifecycleRespected, Lifecycle!Spec

\* CreateJob's count and insert keep the queued jobs within async_max_queue_depth: no other
\* step of any process puts a job (back) into the queue.
THEOREM QueueDepth == Spec => []QueueDepthBounded
  <1> USE DEF JobStates
  <1> DEFINE Queued == InState(jobs, "queued")
  <1>1. Init => QueueDepthBounded
    <2> SUFFICES ASSUME Init PROVE QueueDepthBounded
      OBVIOUS
    <2>1. Queued = {}
      BY NewRows DEF Init, InState
    <2> QED BY <2>1, FS_EmptySet, AsyncAssumption DEF QueueDepthBounded
  <1>2. TInv /\ QueueDepthBounded /\ [Next]_vars => QueueDepthBounded'
    <2> SUFFICES ASSUME TInv, QueueDepthBounded, [Next]_vars PROVE QueueDepthBounded'
      OBVIOUS
    <2>1. Rows(jobs) /\ Rows(jobs')
      BY JobsType DEF TInv, TypeOK, Rows
    <2>2. DOMAIN jobs = Calls /\ DOMAIN jobs' = Calls
      BY <2>1 DEF Rows
    <2>3. IsFiniteSet(Queued) /\ Cardinality(Queued) \in Nat
      <3>1. Queued \subseteq Present /\ IsFiniteSet(Present)
        BY <2>2 DEF Present, InState, TInv, Shapes
      <3> QED BY <3>1, FS_Subset, FS_CardinalityType
    <2>4. CASE Moves(jobs, jobs')
      <3>1. Queued' \subseteq Queued
        <4> SUFFICES ASSUME NEW c \in Calls, jobs'[c].state = "queued"
                     PROVE  jobs[c].state = "queued"
          BY <2>2 DEF InState
        <4>1. jobs[c].state \in JobStates
          BY <2>1 DEF Rows, JobRow
        <4>2. jobs[c].state # "absent" => "queued" \notin Successors(jobs[c].state)
          BY <4>1 DEF Successors, AsyncJobStates, TerminalStates
        <4> QED BY <2>4, <4>2 DEF Moves, RowMoves
      <3>2. IsFiniteSet(Queued') /\ Cardinality(Queued') <= Cardinality(Queued)
        BY <2>3, <3>1, FS_Subset
      <3>3. Cardinality(Queued') \in Nat
        BY <3>2, FS_CardinalityType
      <3> QED BY <2>3, <3>2, <3>3, AsyncAssumption DEF QueueDepthBounded
    <2>5. ASSUME NEW c \in Calls, Inserts(jobs, c, jobs')
          PROVE  QueueDepthBounded'
      <3>1. Queued' = Queued \cup {c}
        BY <2>1, <2>2, <2>5, NewRows DEF Inserts, InState
      <3>2. c \notin Queued
        BY <2>5 DEF Inserts, InState
      <3> HIDE DEF Queued
      <3>3. IsFiniteSet(Queued \cup {c}) /\ Cardinality(Queued \cup {c}) = Cardinality(Queued) + 1
        BY <2>3, <3>2, FS_AddElement
      <3>4. MaxQueueDepth > 0 => ~(Cardinality(Queued) >= MaxQueueDepth)
        BY <2>5 DEF Inserts, Saturated, Queued
      <3>5. Cardinality(Queued') = Cardinality(Queued) + 1
        BY <3>1, <3>3
      <3>6. MaxQueueDepth = 0 \/ Cardinality(Queued') <= MaxQueueDepth
        BY <2>3, <3>4, <3>5, AsyncAssumption
      <3> QED BY <3>6 DEF QueueDepthBounded, Queued
    <2> QED BY <2>4, <2>5, StepMoves
  <1> QED BY <1>1, <1>2, TypeInvariant, PTL DEF Spec

----------------------------------------------------------------------------
\* Which jobs start to run, and which stop

\* A transition to a terminal state ends the job or leaves it.
LEMMA EndedRow ==
    ASSUME NEW r \in JobRow, NEW to \in TerminalStates
    PROVE  LET s == TransitionRow(r, to) IN
           s.state # "running" /\ (s.state = r.state \/ s.state = to)
  <1>1. TransitionRow(r, to).state = IF CanTransitionAsyncJob(r.state, to) THEN to ELSE r.state
    BY TransitionRowMoves, Zenon DEF JobStates, AsyncJobStates
  <1> QED BY <1>1 DEF CanTransitionAsyncJob, TerminalStates

\* The same for the table,
LEMMA OneEnds ==
    ASSUME Rows(jobs), NEW d, NEW to \in TerminalStates, NEW c \in Calls
    PROVE  LET k == TransitionAsyncJob(jobs, d, to)[c] IN
           /\ k.state = "running" => jobs[c].state = "running" /\ c # d
           /\ k.state = jobs[c].state \/ k.state = to
  <1>1. TransitionAsyncJob(jobs, d, to)[c] = IF c = d THEN TransitionRow(jobs[c], to) ELSE jobs[c]
    BY DEF TransitionAsyncJob, Rows
  <1>2. jobs[c] \in JobRow
    BY DEF Rows
  <1> QED BY <1>1, <1>2, EndedRow

\* for the lookup by request id,
LEMMA RequestEnds ==
    ASSUME Rows(jobs), NEW d, NEW to \in TerminalStates, NEW c \in Calls
    PROVE  LET k == TransitionByRequestID(d, to)[c] IN
           /\ k.state = "running" => jobs[c].state = "running" /\ ~Requested(c, d)
           /\ k.state = jobs[c].state \/ k.state = to
  <1>1. TransitionByRequestID(d, to)[c] = IF Requested(c, d) THEN TransitionRow(jobs[c], to) ELSE jobs[c]
    BY DEF TransitionByRequestID, Requested
  <1>2. jobs[c] \in JobRow
    BY DEF Rows
  <1> QED BY <1>1, <1>2, EndedRow

\* for the result of a command
LEMMA CompletionEnds ==
    ASSUME Rows(jobs), NEW d, NEW ok, NEW c \in Calls
    PROVE  LET k == CompleteByRequestID(d, ok)[c] IN
           /\ k.state = "running" => jobs[c].state = "running" /\ ~Requested(c, d)
           /\ k.state = jobs[c].state \/ k.state \in TerminalStates
  BY RequestEnds DEF CompleteByRequestID, TerminalStates

\* and for the start-up.
LEMMA RestartEnds ==
    ASSUME Rows(jobs), NEW c \in Calls, NEW t
    PROVE  LET k == ExpireStale(jobs, t)[c] IN
           k.state # "running" /\ (k.state = jobs[c].state \/ k.state = "expired")
  <1>1. jobs[c] \in JobRow /\ ExpireStale(jobs, t)[c] =
           IF jobs[c].state = "running" \/ ApprovalWindowClosed(jobs, c, t)
           THEN [jobs[c] EXCEPT !.state = "expired"] ELSE jobs[c]
    BY DEF ExpireStale, Rows
  <1>2. [jobs[c] EXCEPT !.state = "expired"].state = "expired"
    BY <1>1, Zenon DEF JobRow
  <1> QED BY <1>1, <1>2

\* The five ways in which a job starts to run
StartsBy(c) ==
    \/ MarkRunning(c) /\ handler[c].owned
    \/ ClaimNow /\ sched.call = c /\ Claims(c)
    \/ DrainClaim /\ Head(sched.batch) = c /\ Claims(c)
    \/ IsWaiting(jobs, c)
    \/ \E o \in Operators : ApprovedDispatch(o)

\* The jobs TransitionAsyncJob starts
LEMMA OneStarts ==
    ASSUME Rows(jobs), NEW d, NEW c \in Calls, TransitionAsyncJob(jobs, d, "running")[c].state # jobs[c].state
    PROVE  c = d /\ TransitionAsyncJob(jobs, d, "running")[c].state = "running"
  <1>1. TransitionAsyncJob(jobs, d, "running")[c] = IF c = d THEN TransitionRow(jobs[c], "running") ELSE jobs[c]
    BY DEF TransitionAsyncJob, Rows
  <1>2. jobs[c] \in JobRow
    BY DEF Rows
  <1> QED BY <1>1, <1>2, TransitionRowMoves DEF JobStates, AsyncJobStates

\* One step of the system, seen by one job
JobGoes(c) ==
    LET next == jobs'[c].state IN
    \/ next = jobs[c].state
    \/ next \in TerminalStates
    \/ next = "running" /\ StartsBy(c)
    \/ next = "waiting_approval" /\ MarkWaiting(c)
    \/ next = "queued" /\ \E outcome \in Outcomes, wait \in WaitModes : Dispatch(c, outcome, wait)

\* Every step moves every job as JobGoes says.
LEMMA JobsStep ==
    ASSUME TInv, [Next]_vars, NEW c \in Calls
    PROVE  JobGoes(c)
  <1> SUFFICES ASSUME ~JobGoes(c)
               PROVE  FALSE
    OBVIOUS
  <1>0. Rows(jobs)
    BY DEF TInv, TypeOK, Rows
  <1>1. jobs' # jobs /\ jobs'[c].state # jobs[c].state /\ jobs'[c].state \notin TerminalStates
    BY Zenon DEF JobGoes
  <1>2. ASSUME NEW d, NEW to \in TerminalStates,
               jobs' = TransitionAsyncJob(jobs, d, to) \/ jobs' = TransitionByRequestID(d, to)
        PROVE  FALSE
    BY <1>0, <1>1, <1>2, OneEnds, RequestEnds
  <1>3. ASSUME NEW d \in Calls, HandlerStep(d)
        PROVE  FALSE
    <2>1. ~Deny(d) /\ ~\E ok \in SendResults : InvokeCommand(d, ok)
      BY <1>1, <1>2, Zenon DEF Deny, InvokeCommand, TerminalStates
    <2>2. ~\E second \in SecondModes : SubmitApproval(d, second)
      BY <1>1, <1>2, Zenon DEF SubmitApproval, TerminalStates
    <2>3. ~MarkWaiting(d)
      <3>1. SUFFICES ASSUME MarkWaiting(d), jobs' = MarkWaitingApproval(jobs, d, handler[d].expires) PROVE FALSE
        BY DEF MarkWaiting
      <3> DEFINE s == [jobs[d] EXCEPT !.state = "waiting_approval", !.approval = TRUE, !.expires = handler[d].expires]
      <3>2. jobs[d] \in JobRow
        BY <1>0 DEF Rows
      <3>3. s.state = "waiting_approval"
        BY <3>2, Zenon DEF JobRow
      <3>4. jobs' = [jobs EXCEPT ![d] = s]
        BY <1>1, <3>1, Zenon DEF MarkWaitingApproval
      <3> HIDE DEF s
      <3>5. c = d /\ jobs'[c].state = "waiting_approval"
        BY <1>0, <1>1, <3>3, <3>4 DEF Rows
      <3> QED BY <3>1, <3>5, Zenon DEF JobGoes
    <2>4. ~MarkRunning(d)
      <3>1. SUFFICES ASSUME MarkRunning(d) PROVE FALSE
        OBVIOUS
      <3>2. handler[d].owned /\ jobs' = TransitionAsyncJob(jobs, d, "running")
        BY <1>1, <3>1 DEF MarkRunning
      <3>3. c = d /\ jobs'[c].state = "running"
        BY <1>0, <1>1, <3>2, OneStarts
      <3> QED BY <3>1, <3>2, <3>3, Zenon DEF JobGoes, StartsBy
    <2>5. ~FinishWait(d) /\ ~DispatchNow(d)
      BY <1>1, <1>2 DEF FinishWait, CompleteByRequestID, DispatchNow, storeVars, TerminalStates
    <2> QED BY <1>3, <2>1, <2>2, <2>3, <2>4, <2>5 DEF HandlerStep
  <1>4. ~SchedStep /\ ~DrainCount
    <2>1. ~\E ok \in SendResults : SendNow(ok)
      BY <1>1, <1>2 DEF SendNow, TerminalStates
    <2>2. ~ClaimNow
      <3>1. SUFFICES ASSUME ClaimNow PROVE FALSE
        OBVIOUS
      <3>2. Claims(sched.call) /\ jobs' = TransitionAsyncJob(jobs, sched.call, "running")
        BY <1>1, <3>1, Zenon DEF ClaimNow
      <3>3. c = sched.call /\ jobs'[c].state = "running"
        BY <1>0, <1>1, <3>2, OneStarts
      <3> QED BY <3>1, <3>2, <3>3, Zenon DEF JobGoes, StartsBy
    <2>3. ~DrainClaim
      <3>1. SUFFICES ASSUME DrainClaim PROVE FALSE
        OBVIOUS
      <3> DEFINE d == Head(sched.batch)
      <3>2. Claims(d) /\ jobs' = TransitionAsyncJob(jobs, d, "running")
        BY <1>1, <3>1, Zenon DEF DrainClaim
      <3>3. c = d /\ jobs'[c].state = "running"
        BY <1>0, <1>1, <3>2, OneStarts
      <3> QED BY <3>1, <3>2, <3>3, Zenon DEF JobGoes, StartsBy
    <2>4. ~DrainList /\ ~DrainCount
      BY <1>1, Zenon DEF DrainList, DrainCount, storeVars
    <2> QED BY <2>1, <2>2, <2>3, <2>4 DEF SchedStep
  <1>5. ~\E g \in Goroutines, ok \in SendResults : RunGoroutine(g, ok)
    BY <1>1, <1>2 DEF RunGoroutine, TerminalStates
  <1>6. ASSUME NEW d, jobs' = ApproveAsyncJob(jobs, d)
        PROVE  FALSE
    <2> DEFINE s == [jobs[d] EXCEPT !.state = "running", !.started = TRUE]
    <2>1. IsWaiting(jobs, d) /\ jobs' = [jobs EXCEPT ![d] = s]
      BY <1>1, <1>6, Zenon DEF ApproveAsyncJob
    <2>2. d \in Calls => s.state = "running"
      <3> SUFFICES ASSUME d \in Calls PROVE s.state = "running"
        OBVIOUS
      <3>1. jobs[d] \in JobRow
        BY <1>0 DEF Rows
      <3> QED BY <3>1, Zenon DEF JobRow
    <2> HIDE DEF s
    <2>3. c = d /\ jobs'[c].state = "running"
      BY <1>0, <1>1, <2>1, <2>2 DEF Rows
    <2> QED BY <2>1, <2>3, Zenon DEF JobGoes, StartsBy
  <1>7. ASSUME NEW o \in Operators, OperatorStep(o)
        PROVE  FALSE
    <2>1. jobs' = ApproveAsyncJob(jobs, operator[o].call) \/ ApprovedDispatch(o)
          \/ jobs' = TransitionByRequestID(operator[o].call, "failed")
      BY <1>1, <1>7, Zenon DEF OperatorStep, ApproveSync, ApproveJob, ApproveLate, RejectSync, DecisionRecorded,
                                DispatchApproved, CancelTracked, storeVars
    <2>2. ~ApprovedDispatch(o)
      <3>1. SUFFICES ASSUME ApprovedDispatch(o) PROVE FALSE
        OBVIOUS
      <3>2. jobs'[c] = TransitionRow(jobs[c], "running") \/ jobs'[c] = jobs[c]
        BY <3>1 DEF ApprovedDispatch, TransitionByRequestID
      <3>3. jobs[c] \in JobRow
        BY <1>0 DEF Rows
      <3>4. jobs'[c].state = "running"
        BY <1>1, <3>2, <3>3, TransitionRowMoves, SMTT(30) DEF JobStates, AsyncJobStates
      <3> QED BY <3>1, <3>4, Zenon DEF JobGoes, StartsBy
    <2> QED BY <1>2, <1>6, <2>1, <2>2 DEF TerminalStates
  <1>8. ASSUME NEW o \in Operators, NEW d \in Calls,
               \/ ApproveRead(o, d) \/ Reject(o, d) \/ Cancel(o, d)
               \/ \E dec \in {"approved", "denied"} : Decide(o, d, dec)
        PROVE  FALSE
    <2>1. CASE Reject(o, d)
      <3> DEFINE s == [jobs[d] EXCEPT !.state = "failed"]
      <3>1. jobs[d] \in JobRow /\ jobs' = [jobs EXCEPT ![d] = s]
        BY <1>0, <2>1 DEF Reject, RejectAsyncJob, Rows
      <3>2. s.state = "failed"
        BY <3>1, Zenon DEF JobRow
      <3> HIDE DEF s
      <3> QED BY <1>0, <1>1, <3>1, <3>2 DEF Rows, TerminalStates
    <2> QED BY <1>1, <1>2, <1>8, <2>1 DEF ApproveRead, Cancel, Decide, storeVars, TerminalStates
  <1>9. ~CheckerStep
    <2>1. ASSUME NEW d \in Calls, Escalate(d)
          PROVE  FALSE
      <3> DEFINE t == checker.tick + Extension  s == [jobs[d] EXCEPT !.expires = t]
      <3>0. jobs' = ExtendApprovalExpiry(jobs, d, t)
        BY <2>1, Zenon DEF Escalate
      <3> HIDE DEF t
      <3>1. jobs[d] \in JobRow /\ jobs' = [jobs EXCEPT ![d] = s]
        BY <1>0, <1>1, <3>0 DEF ExtendApprovalExpiry, Rows
      <3>2. s.state = jobs[d].state
        BY <3>1, Zenon DEF JobRow
      <3> HIDE DEF s
      <3> QED BY <1>0, <1>1, <3>1, <3>2 DEF Rows, TerminalStates
    <2>2. ASSUME NEW d \in Calls, TimeOut(d)
          PROVE  FALSE
      <3>1. jobs' = ApproveAsyncJob(jobs, d) \/ jobs' = TransitionAsyncJob(jobs, d, "cancelled")
        BY <2>2, Zenon DEF TimeOut
      <3> QED BY <1>2, <1>6, <3>1 DEF TerminalStates
    <2> QED BY <1>1, <2>1, <2>2, Zenon DEF CheckerStep, CheckTimeouts, TimeOutSync, storeVars
  <1>10. ~Restart
    <2> SUFFICES ASSUME Restart PROVE FALSE
      OBVIOUS
    <2>1. jobs'[c].state = jobs[c].state \/ jobs'[c].state = "expired"
      BY <1>0, RestartEnds DEF Restart
    <2> QED BY <1>1, <2>1 DEF TerminalStates
  <1>11. ~\E d \in Calls, ok \in BOOLEAN : ProbeResult(d, ok)
    BY <1>2 DEF ProbeResult, CompleteByRequestID, TerminalStates
  <1>12. ~\E d \in Calls, outcome \in Outcomes, wait \in WaitModes : Dispatch(d, outcome, wait)
    <2> SUFFICES ASSUME NEW d \in Calls, NEW outcome \in Outcomes, NEW wait \in WaitModes, Dispatch(d, outcome, wait)
                 PROVE  FALSE
      OBVIOUS
    <2>1. jobs' = [jobs EXCEPT ![d] = QueuedRow]
      BY <1>1 DEF Dispatch
    <2>2. c = d /\ jobs'[c].state = "queued"
      BY <1>0, <1>1, <2>1, NewRows DEF Rows
    <2> QED BY <2>2, Zenon DEF JobGoes
  <1>13. ~Sweep /\ ~Tick /\ ~UNCHANGED vars
    BY <1>1 DEF Sweep, Tick, vars, storeVars
  <1> QED BY <1>3, <1>4, <1>5, <1>7, <1>8, <1>9, <1>10, <1>11, <1>12, <1>13, Zenon DEF Next

----------------------------------------------------------------------------
\* A server whose policy holds no command for approval

NoHolds ==
    /\ DOMAIN requests = {}
    /\ \A c \in Calls : /\ jobs[c].state # "waiting_approval"
                        /\ handler[c].outcome # "queue" /\ handler[c].at # "submitted"
    /\ \A o \in Operators : operator[o].at \notin {"decided", "send", "mark"}
    /\ checker.at = "idle"
    /\ \A g \in goroutines : g[2] = "drain"

\* Nothing is held at first,
LEMMA NothingHeldInit == Init => NoHolds
  <1> SUFFICES ASSUME Init PROVE NoHolds
    OBVIOUS
  <1>1. DOMAIN requests = {} /\ goroutines = {}
    BY DEF Init, EmptyQueue
  <1>2. \A c \in Calls : jobs[c].state # "waiting_approval"
    BY NewRows DEF Init
  <1>3. \A c \in Calls : handler[c].outcome # "queue" /\ handler[c].at # "submitted"
    BY DEF Init, IdleHandler
  <1>4. checker.at = "idle" /\ \A o \in Operators : operator[o].at = "idle"
    BY IdleOperatorFacts, IdleCheckerFacts DEF Init
  <1> QED BY <1>1, <1>2, <1>3, <1>4 DEF NoHolds

\* and nothing comes to be held when the policy never asks for approval.
LEMMA NothingHeldStep ==
    ASSUME "queue" \notin Outcomes, TInv, NoHolds, [Next]_vars
    PROVE  NoHolds'
  <1>1. DOMAIN requests' = {}
    <2>1. CASE requests' = requests
      BY <2>1 DEF NoHolds
    <2>2. ASSUME NEW t, requests' = EvictExpired(requests, t)
          PROVE  DOMAIN requests' = {}
      BY <2>2 DEF EvictExpired, NoHolds
    <2>3. ASSUME NEW c, NEW a, NEW d, NEW by, requests' = Synced(c, a, d, by)
          PROVE  requests' = requests
      BY <2>3, Zenon DEF Synced, AfterDecide, DecideOutcome, NoHolds
    <2>4. ~\E c \in Calls, second \in SecondModes : SubmitApproval(c, second)
      BY Zenon DEF SubmitApproval, NoHolds
    <2>5. ~\E o \in Operators, c \in Calls, d \in {"approved", "denied"} : Decide(o, c, d)
      BY DEF Decide, DecideOutcome, NoHolds
    <2>6. ASSUME NEW o \in Operators, ApproveSync(o) \/ RejectSync(o)
          PROVE  requests' = requests
      BY <2>3, <2>6, Zenon DEF ApproveSync, RejectSync
    <2>7. ~TimeOutSync
      BY DEF TimeOutSync, NoHolds
    <2>8. CASE Sweep
      BY <2>2, <2>8 DEF Sweep
    <2>9. CASE Restart
      BY <2>9 DEF Restart, EmptyQueue
    <2> QED BY <2>1, <2>4, <2>5, <2>6, <2>7, <2>8, <2>9, QueueFrame
  <1>2. ASSUME NEW c \in Calls
        PROVE  jobs'[c].state # "waiting_approval"
    <2>1. ~MarkWaiting(c)
      BY DEF MarkWaiting, NoHolds
    <2> QED BY <2>1, JobsStep DEF JobGoes, TerminalStates, NoHolds
  <1>3. ASSUME NEW c \in Calls
        PROVE  handler'[c].outcome # "queue" /\ handler'[c].at # "submitted"
    <2>0. handler \in [Calls -> Handlers] /\ handler[c].outcome # "queue" /\ handler[c].at # "submitted"
      BY DEF TInv, TypeOK, NoHolds
    <2>1. ASSUME NEW outcome \in Outcomes, NEW wait \in WaitModes, Dispatch(c, outcome, wait)
          PROVE  handler'[c].outcome # "queue" /\ handler'[c].at # "submitted"
      BY <2>0, <2>1, DispatchFacts
    <2>2. HandlerGoes(c)
      BY HandlersStep
    <2> QED BY <2>0, <2>1, <2>2, Zenon DEF HandlerGoes, SameCall
  <1>4. ASSUME NEW o \in Operators
        PROVE  operator'[o].at \notin {"decided", "send", "mark"}
    <2>1. ~\E c \in Calls, d \in {"approved", "denied"} : Decide(o, c, d)
      BY DEF Decide, DecideOutcome, NoHolds
    <2>2. operator[o].at \notin {"decided", "send", "mark"} /\ ~DecisionRecorded(o)
      BY DEF DecisionRecorded, NoHolds
    <2>3. OperatorGoes(o)
      BY OperatorsStep
    <2> QED BY <2>1, <2>2, <2>3 DEF OperatorGoes
  <1>5. checker'.at = "idle"
    <2>1. ~CheckTimeouts /\ checker.at = "idle"
      BY DEF CheckTimeouts, ApprovalWindowClosed, IsWaiting, NoHolds
    <2>2. ~CheckerStep
      BY <2>1, Zenon DEF CheckerStep, Escalate, TimeOut, TimeOutSync
    <2> QED BY <2>1, <2>2, CheckerFrame, IdleCheckerFacts DEF Restart
  <1>6. ASSUME NEW g \in goroutines'
        PROVE  g[2] = "drain"
    <2>1. ~TimeOutSync
      BY DEF TimeOutSync, NoHolds
    <2>2. ASSUME NEW o \in Operators, ApproveJob(o)
          PROVE  goroutines' = goroutines
      <3>1. ~IsWaiting(jobs, operator[o].call)
        <4>1. operator[o].call \in Calls
          BY <2>2 DEF ApproveJob, TInv, Shapes
        <4> QED BY <4>1 DEF IsWaiting, NoHolds
      <3> QED BY <2>2, <3>1, Zenon DEF ApproveJob
    <2>3. CASE DrainClaim
      BY <2>3 DEF DrainClaim, NoHolds
    <2>4. CASE (\E h \in Goroutines, ok \in SendResults : RunGoroutine(h, ok)) \/ Restart
      BY <2>4 DEF RunGoroutine, Restart, NoHolds
    <2> QED BY <2>1, <2>2, <2>3, <2>4, GoroutineFrame DEF NoHolds
  <1> QED BY <1>1, <1>2, <1>3, <1>4, <1>5, <1>6 DEF NoHolds

----------------------------------------------------------------------------
\* DispatchNow holds schedMu until it has sent the command or given up

NowHolds == sched.at \in {"claim", "send"} => handler[sched.call].at = "now"

\* No other step takes the handler from under the scheduler.
LEMMA NowHoldsStep ==
    ASSUME TInv, NowHolds, [Next]_vars
    PROVE  NowHolds'
  <1> SUFFICES ASSUME sched'.at \in {"claim", "send"}
               PROVE  handler'[sched'.call].at = "now"
    BY DEF NowHolds
  <1>0. handler \in [Calls -> Handlers] /\ sched' # FreeSched
    BY FreeSchedFacts DEF TInv, TypeOK
  <1>1. CASE sched' = sched
    <2> DEFINE c == sched.call
    <2>1. c \in Calls /\ handler[c].at = "now"
      BY <1>1 DEF NowHolds, TInv, Shapes
    <2>2. HandlerGoes(c) /\ ~Restart
      BY <1>0, <2>1, HandlersStep DEF Restart
    <2>3. handler'[c] = handler[c]
      BY <1>0, <2>1, <2>2, Zenon
         DEF HandlerGoes, Dispatch, Deny, MarkWaiting, MarkRunning, InvokeCommand, FinishWait, DispatchNow
    <2> QED BY <1>1, <2>1, <2>3
  <1>2. ASSUME NEW c \in Calls, DispatchNow(c), sched' # sched
        PROVE  handler'[sched'.call].at = "now"
    <2>1. HandlerAt(c, "now") /\ jobs[c].state = "queued"
      BY <1>2, Zenon DEF DispatchNow
    <2> QED BY <1>0, <1>2, <2>1, SchedTaken, HandlerAtFacts DEF HandlerPlaces
  <1>3. CASE ClaimNow
    <2>1. sched.at = "claim" /\ Claims(sched.call) /\ handler' = handler
      BY <1>0, <1>3, Zenon DEF ClaimNow
    <2> QED BY <1>3, <2>1, ClaimNowFacts DEF NowHolds
  <1>4. ~DrainCount /\ ~DrainList /\ ~DrainClaim
    BY <1>0, SchedCounted, ListedFacts, DrainClaimFacts
  <1>5. ~Restart /\ ~\E ok \in SendResults : SendNow(ok)
    BY <1>0, Zenon DEF Restart, SendNow
  <1> QED BY <1>1, <1>2, <1>3, <1>4, <1>5, SchedFrame DEF SchedStep

----------------------------------------------------------------------------
\* No running job is forgotten

\* Whoever starts a job is about to send its command.
LEMMA WorkStartsWithJob ==
    ASSUME NoHolds, TInv, [Next]_vars, NEW c \in Calls, StartsBy(c)
    PROVE  InWork(c)'
  <1>1. ~IsWaiting(jobs, c) /\ ~\E o \in Operators : ApprovedDispatch(o)
    BY DEF IsWaiting, ApprovedDispatch, NoHolds
  <1>2. CASE MarkRunning(c)
    <2>1. handler'[c].at = "send"
      BY <1>2, HandlerAtFacts DEF MarkRunning, HandlerPlaces, TInv, TypeOK
    <2> QED BY <2>1 DEF InWork, Requested
  <1>3. CASE ClaimNow /\ sched.call = c /\ Claims(c)
    BY <1>3, ClaimNowFacts DEF InWork
  <1>4. CASE DrainClaim /\ Head(sched.batch) = c /\ Claims(c)
    <2>1. <<c, "drain">> \in goroutines'
      BY <1>4 DEF DrainClaim
    <2> QED BY <2>1 DEF InWork
  <1> QED BY <1>1, <1>2, <1>3, <1>4 DEF StartsBy

\* A running job stays in work until it ends.
LEMMA WorkGoesOn ==
    ASSUME NoHolds, NowHolds, TInv, [Next]_vars, NEW c \in Calls, InWork(c), jobs'[c].state = "running"
    PROVE  InWork(c)'
  <1>0. /\ Rows(jobs) /\ wire \in [Calls -> Nat] /\ sent \in [Calls -> Nat]
        /\ SendResults \subseteq BOOLEAN
    BY AsyncAssumption DEF TInv, TypeOK, Rows
  <1>1. ~Restart
    BY <1>0, RestartEnds DEF Restart
  <1>2. ASSUME NEW d, jobs' = TransitionByRequestID(d, "failed") PROVE ~Requested(c, d)
    BY <1>0, <1>2, RequestEnds DEF TerminalStates
  <1>3. ASSUME NEW d \in Calls, Requested(c, d), Send(d)
        PROVE  InWork(c)'
    <2>1. wire'[d] > 0
      BY <1>0, <1>3, SendFacts
    <2> QED BY <1>3, <2>1 DEF InWork, Requested
  <1>4. ASSUME NEW g \in goroutines, g[1] = c
        PROVE  InWork(c)'
    <2>1. CASE g \in goroutines'
      BY <1>4, <2>1 DEF InWork
    <2>2. CASE g \notin goroutines'
      <3>1. PICK h \in Goroutines, ok \in SendResults : RunGoroutine(h, ok)
        BY <1>1, <2>2, GoroutineFrame, Zenon DEF DrainClaim, ApproveJob, TimeOutSync
      <3>2. h = g /\ g[2] = "drain"
        BY <2>2, <3>1 DEF RunGoroutine, NoHolds
      <3>3. ok
        BY <1>0, <1>4, <3>1, <3>2, OneEnds DEF RunGoroutine, TerminalStates
      <3>4. Send(c)
        BY <1>4, <3>1, <3>2, <3>3 DEF RunGoroutine
      <3> QED BY <1>3, <3>4 DEF Requested
    <2> QED BY <2>1, <2>2
  <1>5. CASE sched.at = "send" /\ sched.call = c
    <2>1. CASE sched' = sched
      BY <1>5, <2>1 DEF InWork
    <2>2. CASE sched' # sched
      <3>1. SchedStep
        BY <1>1, <1>5, <2>2, SchedFrame DEF DispatchNow, DrainCount
      <3>2. PICK ok \in SendResults : SendNow(ok)
        BY <1>5, <3>1, Zenon DEF SchedStep, ClaimNow, DrainList, DrainClaim
      <3>3. ok
        BY <1>2, <1>5, <3>2 DEF SendNow, Requested
      <3>4. Send(c)
        BY <1>5, <3>2, <3>3 DEF SendNow
      <3> QED BY <1>3, <3>4 DEF Requested
    <2> QED BY <2>1, <2>2
  <1>6. ASSUME NEW h \in Calls, Requested(c, h), handler[h].at \in {"send", "await", "answered"}
        PROVE  InWork(c)'
    <2>1. CASE handler'[h].at \in {"send", "await", "answered"}
      BY <1>6, <2>1, Zenon DEF InWork, Requested
    <2>2. CASE handler'[h].at \notin {"send", "await", "answered"}
      <3>1. HandlerGoes(h)
        BY HandlersStep
      <3>2. ~FinishWait(h)
        BY <1>0, <1>6, CompletionEnds DEF FinishWait
      <3>3. ~InvokeCommand(h, FALSE)
        BY <1>2, <1>6 DEF InvokeCommand
      <3>4. ~(sched.at \in {"claim", "send"} /\ sched.call = h)
        BY <1>6 DEF NowHolds
      <3>5. InvokeCommand(h, TRUE)
        BY <1>1, <1>6, <2>2, <3>1, <3>2, <3>3, <3>4, Zenon
           DEF HandlerGoes, Dispatch, Deny, MarkWaiting, MarkRunning, DispatchNow
      <3> QED BY <1>3, <1>6, <3>5 DEF InvokeCommand
    <2> QED BY <2>1, <2>2
  <1>7. ASSUME NEW h \in Calls, Requested(c, h), wire[h] > 0
        PROVE  InWork(c)'
    <2>1. ProbeGoes(h)
      BY ProbeStep
    <2>2. ~\E ok \in BOOLEAN : ProbeResult(h, ok)
      BY <1>0, <1>7, CompletionEnds DEF ProbeResult
    <2>3. wire'[h] > 0
      <3>1. wire[h] \in Nat
        BY <1>0
      <3>2. wire'[h] = wire[h] \/ wire'[h] = wire[h] + 1
        BY <2>1, <2>2, Zenon DEF ProbeGoes
      <3> QED BY <1>7, <3>1, <3>2
    <2> QED BY <1>7, <2>3 DEF InWork, Requested
  <1>8. checker.at # "sync" /\ ~\E o \in Operators : operator[o].at = "send"
    BY DEF NoHolds
  <1> QED BY <1>4, <1>5, <1>6, <1>7, <1>8, Zenon DEF InWork

\* A running job always has somebody who is going to send its command, or a probe that has the
\* command, or a client waiting for the result: for any calls, request ids, limits, clients and
\* number of restarts, as long as no policy holds commands for approval.
THEOREM RunningJobsInWork ==
    ASSUME "queue" \notin Outcomes
    PROVE  Spec => []RunningJobsAreInWork
  <1> DEFINE Inv == NoHolds /\ NowHolds /\ RunningJobsAreInWork
  <1>1. Init => Inv
    <2> SUFFICES ASSUME Init PROVE NowHolds /\ RunningJobsAreInWork
      BY NothingHeldInit
    <2>1. sched.at = "free"
      BY FreeSchedFacts DEF Init
    <2>2. \A c \in Calls : jobs[c].state = "absent"
      BY NewRows DEF Init
    <2> QED BY <2>1, <2>2 DEF NowHolds, RunningJobsAreInWork
  <1>2. TInv /\ Inv /\ [Next]_vars => Inv'
    <2> SUFFICES ASSUME TInv, Inv, [Next]_vars PROVE Inv'
      OBVIOUS
    <2>1. ASSUME NEW c \in Calls, jobs'[c].state = "running"
          PROVE  InWork(c)'
      <3>1. jobs[c].state = "running" \/ StartsBy(c)
        BY <2>1, JobsStep DEF JobGoes, TerminalStates
      <3> QED BY <2>1, <3>1, WorkStartsWithJob, WorkGoesOn DEF RunningJobsAreInWork
    <2>2. RunningJobsAreInWork'
      BY <2>1 DEF RunningJobsAreInWork
    <2> QED BY <2>2, NothingHeldStep, NowHoldsStep
  <1> QED BY <1>1, <1>2, TypeInvariant, PTL DEF Spec

----------------------------------------------------------------------------
\* The in-flight limits

NoWaits == \A c \in Calls : ~handler[c].wait

\* No handler waits at first,
LEMMA NoWaitsInit == Init => NoWaits
  BY DEF Init, IdleHandler, NoWaits

\* nor later, when no caller asks for ?wait.
LEMMA NoWaitsStep ==
    ASSUME TRUE \notin WaitModes, TInv, NoWaits, [Next]_vars
    PROVE  NoWaits'
  <1> SUFFICES ASSUME NEW c \in Calls PROVE ~handler'[c].wait
    BY DEF NoWaits
  <1>0. handler \in [Calls -> Handlers] /\ ~handler[c].wait
    BY DEF TInv, TypeOK, NoWaits
  <1>1. ASSUME NEW outcome \in Outcomes, NEW wait \in WaitModes, Dispatch(c, outcome, wait)
        PROVE  ~handler'[c].wait
    <2>1. wait = FALSE
      BY AsyncAssumption, Zenon
    <2>2. handler'[c].wait = wait
      BY <1>0, <1>1, DispatchFacts
    <2> QED BY <2>1, <2>2
  <1>2. HandlerGoes(c)
    BY HandlersStep
  <1>3. SameCall(handler[c], handler'[c]) => handler'[c].wait = handler[c].wait
    BY Zenon DEF SameCall
  <1> QED BY <1>0, <1>1, <1>2, <1>3, Zenon DEF HandlerGoes

\* The scheduler claims job c, under schedMu.
ClaimsJob(c) ==
    /\ (ClaimNow /\ sched.call = c) \/ (DrainClaim /\ Head(sched.batch) = c)
    /\ Claims(c)

\* Then only a claim under schedMu starts a job.
LEMMA OnlyClaimsStart ==
    ASSUME NoHolds, NoWaits, TInv, [Next]_vars, NEW c \in Calls, jobs'[c].state = "running"
    PROVE  jobs[c].state = "running" \/ ClaimsJob(c)
  <1>1. jobs[c].state = "running" \/ StartsBy(c)
    BY JobsStep DEF JobGoes, TerminalStates
  <1>2. ~IsWaiting(jobs, c) /\ ~\E o \in Operators : ApprovedDispatch(o)
    BY DEF IsWaiting, ApprovedDispatch, NoHolds
  <1>3. ~(MarkRunning(c) /\ handler[c].owned)
    BY DEF MarkRunning, NoWaits
  <1> QED BY <1>1, <1>2, <1>3, Zenon DEF StartsBy, ClaimsJob

\* Counting a part of a finite set
LEMMA SizeOfSubset ==
    ASSUME NEW S, NEW T, IsFiniteSet(S), T \subseteq S
    PROVE  Cardinality(T) \in Nat /\ Cardinality(T) <= Cardinality(S)
  BY FS_Subset, FS_CardinalityType

\* Counting one element more
LEMMA SizeOfOneMore ==
    ASSUME NEW S, NEW T, NEW x, IsFiniteSet(S), T \subseteq S \cup {x}
    PROVE  Cardinality(T) \in Nat /\ Cardinality(T) <= Cardinality(S) + 1
  <1>1. IsFiniteSet(S \cup {x}) /\ Cardinality(S) \in Nat /\ Cardinality(S \cup {x}) <= Cardinality(S) + 1
    <2>1. Cardinality(S) \in Nat
      BY FS_CardinalityType
    <2>2. IsFiniteSet(S \cup {x}) /\ Cardinality(S \cup {x}) = IF x \in S THEN Cardinality(S) ELSE Cardinality(S) + 1
      BY FS_AddElement
    <2> QED BY <2>1, <2>2
  <1>2. Cardinality(T) \in Nat /\ Cardinality(T) <= Cardinality(S \cup {x}) /\ Cardinality(S \cup {x}) \in Nat
    BY <1>1, SizeOfSubset, FS_CardinalityType
  <1> QED BY <1>1, <1>2

\* The counts the holder of schedMu took cover the jobs that run.
CountsCover ==
    sched.at \in {"list", "drain", "claim"} =>
       /\ Cardinality(InState(jobs, "running")) <= sched.total
       /\ \A p \in Probes : Cardinality(RunningOn(p)) <= sched.per[p]

Bounded == NoHolds /\ NoWaits /\ CountsCover /\ InFlightBounded

\* A claim adds one job, which the limits had room for.
LEMMA ClaimKeepsLimits ==
    ASSUME TInv, Bounded, [Next]_vars, NEW c \in Calls, ClaimsJob(c)
    PROVE  InFlightBounded' /\ CountsCover'
  <1> DEFINE R == InState(jobs, "running")
  <1>0. /\ sched \in Schedulers /\ sched.at \in {"drain", "claim"}
        /\ Rows(jobs) /\ Rows(jobs') /\ MaxInFlight \in Nat /\ MaxPerProbe \in Nat
    BY JobsType, AsyncAssumption DEF TInv, TypeOK, ClaimsJob, ClaimNow, DrainClaim, Rows
  <1>1. sched.total \in Nat /\ sched.per \in [Probes -> Nat] /\ ProbeOf[c] \in Probes
    BY <1>0, Zenon DEF Schedulers, Probes
  <1>2. R' \subseteq R \cup {c}
    <2> SUFFICES ASSUME NEW d \in R' PROVE d \in R \/ d = c
      OBVIOUS
    <2>1. d \in Calls /\ jobs'[d].state = "running"
      BY <1>0 DEF InState, Rows
    <2>2. jobs[d].state = "running" \/ ClaimsJob(d)
      BY <2>1, OnlyClaimsStart DEF Bounded
    <2>3. ClaimsJob(d) => d = c
      BY DEF ClaimsJob, ClaimNow, DrainClaim
    <2> QED BY <1>0, <2>1, <2>2, <2>3 DEF InState, Rows
  <1>3. \A p : RunningOn(p)' \subseteq RunningOn(p) \cup {c}
    BY <1>2 DEF RunningOn
  <1>4. \A p : p # ProbeOf[c] => RunningOn(p)' \subseteq RunningOn(p)
    BY <1>2 DEF RunningOn
  <1>5. /\ Cardinality(R') \in Nat /\ Cardinality(R') <= sched.total + 1
        /\ \A p \in Probes : /\ Cardinality(RunningOn(p)') \in Nat
                             /\ Cardinality(RunningOn(p)') <= sched.per[p] + (IF p = ProbeOf[c] THEN 1 ELSE 0)
    <2>1. /\ IsFiniteSet(R) /\ Cardinality(R) \in Nat
          /\ \A p : IsFiniteSet(RunningOn(p)) /\ Cardinality(RunningOn(p)) \in Nat
      BY CountFacts
    <2>2. Cardinality(R) <= sched.total /\ \A p \in Probes : Cardinality(RunningOn(p)) <= sched.per[p]
      BY <1>0 DEF Bounded, CountsCover
    <2>3. Cardinality(R') \in Nat /\ Cardinality(R') <= Cardinality(R) + 1
      BY <1>2, <2>1, SizeOfOneMore, Zenon
    <2> HIDE DEF R
    <2>4. ASSUME NEW p \in Probes
          PROVE  /\ Cardinality(RunningOn(p)') \in Nat
                 /\ Cardinality(RunningOn(p)') <= sched.per[p] + (IF p = ProbeOf[c] THEN 1 ELSE 0)
      <3>1. sched.per[p] \in Nat
        BY <1>1
      <3>2. CASE p = ProbeOf[c]
        <4>1. Cardinality(RunningOn(p)') \in Nat /\ Cardinality(RunningOn(p)') <= Cardinality(RunningOn(p)) + 1
          BY <1>3, <2>1, SizeOfOneMore, Zenon
        <4> QED BY <2>1, <2>2, <3>1, <3>2, <4>1
      <3>3. CASE p # ProbeOf[c]
        <4>1. Cardinality(RunningOn(p)') \in Nat /\ Cardinality(RunningOn(p)') <= Cardinality(RunningOn(p))
          BY <1>4, <2>1, <3>3, SizeOfSubset
        <4> QED BY <2>1, <2>2, <3>1, <3>3, <4>1
      <3> QED BY <3>2, <3>3
    <2> QED BY <1>1, <2>1, <2>2, <2>3, <2>4, SMTT(30)
  <1>6. sched.total < MaxInFlight /\ (MaxPerProbe = 0 \/ sched.per[ProbeOf[c]] < MaxPerProbe)
    BY DEF ClaimsJob, Claims, WithinLimits
  <1>7. RunningByProbe' = [p \in Probes |-> Cardinality(RunningOn(p)')]
    BY DEF RunningByProbe, RunningOn
  <1> HIDE DEF R
  <1>8. ASSUME MaxPerProbe # 0, NEW p \in Probes
        PROVE  RunningByProbe'[p] <= MaxPerProbe
    <2>1. RunningByProbe'[p] = Cardinality(RunningOn(p)') /\ sched.per[p] \in Nat
      BY <1>1, <1>7
    <2>2. CASE p = ProbeOf[c]
      BY <1>0, <1>1, <1>5, <1>6, <1>8, <2>1, <2>2
    <2>3. CASE p # ProbeOf[c]
      <3>1. Cardinality(RunningOn(p)') \in Nat /\ Cardinality(RunningOn(p)') <= Cardinality(RunningOn(p))
        BY <1>4, <2>3, CountFacts, SizeOfSubset
      <3>2. Cardinality(RunningOn(p)) \in Nat /\ Cardinality(RunningOn(p)) <= MaxPerProbe
        BY <1>8, CountFacts DEF Bounded, InFlightBounded
      <3> QED BY <1>0, <2>1, <3>1, <3>2
    <2> QED BY <2>2, <2>3
  <1>9. InFlightBounded'
    BY <1>0, <1>1, <1>5, <1>6, <1>8 DEF InFlightBounded, R
  <1>10. CountsCover'
    <2>1. CASE ClaimNow
      BY <2>1, ClaimNowFacts DEF ClaimsJob, ClaimNow, DrainClaim, CountsCover
    <2>2. CASE DrainClaim
      <3>1. CASE sched' = FreeSched
        BY <3>1, FreeSchedFacts DEF CountsCover
      <3>2. CASE sched' # FreeSched
        <4>1. /\ sched'.total = sched.total + 1
              /\ sched'.per = [sched.per EXCEPT ![ProbeOf[c]] = sched.per[ProbeOf[c]] + 1]
          BY <2>2, <3>2, DrainClaimFacts, Zenon DEF ClaimsJob, ClaimNow, DrainClaim
        <4>2. \A p \in Probes : sched'.per[p] = sched.per[p] + (IF p = ProbeOf[c] THEN 1 ELSE 0)
          BY <1>1, <4>1
        <4> QED BY <1>5, <4>1, <4>2, Zenon DEF CountsCover, R
      <3> QED BY <3>1, <3>2
    <2> QED BY <2>1, <2>2 DEF ClaimsJob
  <1> QED BY <1>9, <1>10

\* No other step adds a running job.
LEMMA OthersKeepLimits ==
    ASSUME TInv, Bounded, [Next]_vars, ~\E c \in Calls : ClaimsJob(c)
    PROVE  InFlightBounded' /\ CountsCover'
  <1> DEFINE R == InState(jobs, "running")
  <1>0. Rows(jobs) /\ Rows(jobs') /\ MaxInFlight \in Nat /\ MaxPerProbe \in Nat /\ sched \in Schedulers
    BY JobsType, AsyncAssumption DEF TInv, TypeOK, Rows
  <1>1. R' \subseteq R
    BY <1>0, OnlyClaimsStart DEF Bounded, InState, Rows
  <1>2. \A p : RunningOn(p)' \subseteq RunningOn(p)
    BY <1>1 DEF RunningOn
  <1>3. /\ IsFiniteSet(R) /\ Cardinality(R) \in Nat
        /\ \A p : IsFiniteSet(RunningOn(p)) /\ Cardinality(RunningOn(p)) \in Nat
        /\ \A p \in Probes : RunningByProbe[p] = Cardinality(RunningOn(p))
    BY CountFacts
  <1>4. /\ Cardinality(R') \in Nat /\ Cardinality(R') <= Cardinality(R)
        /\ \A p : Cardinality(RunningOn(p)') \in Nat /\ Cardinality(RunningOn(p)') <= Cardinality(RunningOn(p))
    BY <1>1, <1>2, <1>3, SizeOfSubset
  <1>5. RunningByProbe' = [p \in Probes |-> Cardinality(RunningOn(p)')]
    BY DEF RunningByProbe, RunningOn
  <1>6. InFlightBounded'
    <2>1. Cardinality(R) <= MaxInFlight
          /\ (MaxPerProbe = 0 \/ \A p \in Probes : Cardinality(RunningOn(p)) <= MaxPerProbe)
      BY <1>3 DEF Bounded, InFlightBounded
    <2>2. \A p \in Probes : RunningByProbe'[p] = Cardinality(RunningOn(p)')
      BY <1>5
    <2>3. Cardinality(R') <= MaxInFlight
      BY <1>0, <1>3, <1>4, <2>1
    <2> HIDE DEF R
    <2>4. MaxPerProbe = 0 \/ \A p \in Probes : RunningByProbe'[p] <= MaxPerProbe
      BY <1>0, <1>3, <1>4, <2>1, <2>2, SMTT(30)
    <2> QED BY <2>3, <2>4 DEF InFlightBounded, R
  <1>7. ASSUME sched.at \in {"list", "drain", "claim"},
               sched'.total = sched.total, sched'.per = sched.per
        PROVE  CountsCover'
    <2>1. sched.total \in Nat /\ sched.per \in [Probes -> Nat]
      BY <1>0, Zenon DEF Schedulers
    <2>2. Cardinality(R) <= sched.total /\ \A p \in Probes : Cardinality(RunningOn(p)) <= sched.per[p]
      BY <1>7 DEF Bounded, CountsCover
    <2>3. Cardinality(R') <= sched'.total
      BY <1>3, <1>4, <1>7, <2>1, <2>2, SMTT(30)
    <2> HIDE DEF R
    <2>4. \A p \in Probes : Cardinality(RunningOn(p)') <= sched'.per[p]
      BY <1>3, <1>4, <1>7, <2>1, <2>2
    <2> QED BY <2>3, <2>4 DEF CountsCover, R
  <1>8. ASSUME jobs' = jobs, sched'.total = Cardinality(R), sched'.per = RunningByProbe
        PROVE  CountsCover'
    <2>1. R' = R /\ \A p : RunningOn(p)' = RunningOn(p)
      BY <1>8 DEF InState, RunningOn
    <2> QED BY <1>3, <1>8, <2>1 DEF CountsCover
  <1> HIDE DEF R
  <1> SUFFICES CountsCover'
    BY <1>6
  <1>9. CASE sched' = sched
    BY <1>7, <1>9 DEF CountsCover
  <1>10. CASE sched' = FreeSched
    BY <1>10, FreeSchedFacts, Zenon DEF CountsCover
  <1>11. ASSUME NEW c \in Calls, DispatchNow(c), sched' # sched
         PROVE  CountsCover'
    BY <1>8, <1>11, SchedTaken, Zenon DEF DispatchNow, storeVars, R
  <1>12. CASE DrainCount
    BY <1>8, <1>12, SchedCounted, Zenon DEF DrainCount, storeVars, R
  <1>13. CASE DrainList /\ sched' # FreeSched
    BY <1>7, <1>13, ListedFacts, Zenon DEF DrainList
  <1>14. CASE DrainClaim /\ sched' # FreeSched
    <2>1. ~Claims(Head(sched.batch))
      BY <1>14, DrainClaimFacts DEF ClaimsJob
    <2> QED BY <1>7, <1>14, <2>1, DrainClaimFacts, Zenon DEF DrainClaim
  <1>15. CASE ClaimNow
    <2>1. ~Claims(sched.call)
      BY <1>15 DEF ClaimsJob, ClaimNow, TInv, Shapes
    <2> QED BY <1>10, <1>15, <2>1, ClaimNowFacts
  <1>16. Restart \/ (\E ok \in SendResults : SendNow(ok)) => sched' = FreeSched
    BY Zenon DEF Restart, SendNow
  <1> QED BY <1>9, <1>10, <1>11, <1>12, <1>13, <1>14, <1>15, <1>16, SchedFrame DEF SchedStep

\* The scheduler keeps the in-flight limits, global and per probe, for any calls, limits, queue
\* and batch sizes and number of restarts, as long as no command is held for approval and no
\* client asks for the synchronous path, both of which start jobs without asking the scheduler.
THEOREM InFlightLimits ==
    ASSUME "queue" \notin Outcomes, TRUE \notin WaitModes
    PROVE  Spec => []InFlightBounded
  <1>1. Init => Bounded
    <2> SUFFICES ASSUME Init PROVE CountsCover /\ InFlightBounded
      BY NothingHeldInit, NoWaitsInit DEF Bounded
    <2>1. sched.at = "free"
      BY FreeSchedFacts DEF Init
    <2>2. InState(jobs, "running") = {}
      BY NewRows DEF Init, InState
    <2>3. Cardinality(InState(jobs, "running")) = 0
      BY <2>2, FS_EmptySet
    <2>4. \A p \in Probes : RunningByProbe[p] = 0
      <3>1. \A p : {c \in InState(jobs, "running") : ProbeOf[c] = p} = {}
        BY <2>2
      <3> QED BY <3>1, FS_EmptySet DEF RunningByProbe
    <2> QED BY <2>1, <2>3, <2>4, AsyncAssumption DEF CountsCover, InFlightBounded
  <1>2. TInv /\ Bounded /\ [Next]_vars => Bounded'
    BY NothingHeldStep, NoWaitsStep, ClaimKeepsLimits, OthersKeepLimits DEF Bounded
  <1>3. Bounded => InFlightBounded
    BY DEF Bounded
  <1> QED BY <1>1, <1>2, <1>3, TypeInvariant, PTL DEF Spec

----------------------------------------------------------------------------
\* A command is sent once its job has started

\* Jobs are never deleted, and appear only when they are created.
LEMMA AbsentRows ==
    ASSUME TInv, [Next]_vars, NEW c \in Calls
    PROVE  /\ jobs[c].state # "absent" => jobs'[c].state # "absent"
           /\ jobs[c].state = "absent" /\ jobs'[c].state # "absent" =>
                 /\ jobs'[c].state = "queued"
                 /\ \E outcome \in Outcomes, wait \in WaitModes : Dispatch(c, outcome, wait)
  <1>0. Rows(jobs) /\ JobGoes(c)
    BY JobsStep DEF TInv, TypeOK, Rows
  <1>1. jobs[c].state # "absent" => jobs'[c].state # "absent"
    BY <1>0, Zenon DEF JobGoes, TerminalStates
  <1>2. ASSUME jobs[c].state = "absent", jobs'[c].state # "absent"
        PROVE  jobs'[c].state = "queued"
    <2>1. ~Moves(jobs, jobs')
      BY <1>2 DEF Moves, RowMoves
    <2>2. PICK d \in Calls : Inserts(jobs, d, jobs')
      BY <2>1, StepMoves
    <2> QED BY <1>0, <1>2, <2>2, NewRows, Zenon DEF Inserts, Rows
  <1>3. jobs'[c].state = "queued" /\ jobs[c].state = "absent" =>
           \E outcome \in Outcomes, wait \in WaitModes : Dispatch(c, outcome, wait)
    BY <1>0, Zenon DEF JobGoes, TerminalStates
  <1> QED BY <1>1, <1>2, <1>3

Sending(c) == sched.at = "send" /\ sched.call = c

\* DispatchNow sends what it has claimed.
LEMMA SendingStarts ==
    ASSUME TInv, [Next]_vars, NEW c \in Calls, Sending(c)'
    PROVE  (Sending(c) /\ sched' = sched) \/ ClaimsJob(c)
  <1>0. sched' # FreeSched /\ sched'.at = "send"
    BY FreeSchedFacts DEF Sending
  <1>1. CASE sched' = sched
    BY <1>1, Zenon DEF Sending
  <1>2. ASSUME NEW d \in Calls, DispatchNow(d), sched' # sched PROVE FALSE
    BY <1>0, <1>2, SchedTaken, Zenon DEF DispatchNow
  <1>3. ~DrainCount /\ ~DrainList /\ ~DrainClaim
    BY <1>0, SchedCounted, ListedFacts, DrainClaimFacts
  <1>4. ~Restart /\ ~\E ok \in SendResults : SendNow(ok)
    BY <1>0, Zenon DEF Restart, SendNow
  <1>5. CASE ClaimNow
    BY <1>0, <1>5, ClaimNowFacts, Zenon DEF ClaimsJob, Sending
  <1> QED BY <1>1, <1>2, <1>3, <1>4, <1>5, SchedFrame DEF SchedStep

\* Every call has a job of its own and waits for no result, and whoever is about to send a command
\* has seen its job started.
StartedFirst ==
    /\ \A c \in Calls : /\ ~handler[c].wait /\ handler[c].at \notin {"send", "await", "answered"}
                        /\ handler[c].at = "idle" => jobs[c].state = "absent"
                        /\ handler[c].at = "evaluated" => handler[c].owned
                        /\ jobs[c].state = "running" => jobs[c].started
                        /\ jobs[c].started => jobs[c].state # "absent"
    /\ \A o \in Operators : operator[o].at \notin {"decided", "send", "mark"}
    /\ \A g \in goroutines : jobs[g[1]].started
    /\ sched.at = "send" => jobs[sched.call].started
    /\ checker.at = "sync" /\ checker.approve => jobs[checker.call].started
    /\ SentOnlyOnceStarted

\* started_at, once set, stays.
LEMMA StartedStays ==
    ASSUME TInv, StartedFirst, [Next]_vars, NEW c \in Calls
    PROVE  /\ jobs[c].started => jobs'[c].started
           /\ jobs'[c].state = "running" => jobs'[c].started
           /\ jobs'[c].started => jobs'[c].state # "absent"
  <1>0. Rows(jobs) /\ (jobs[c].state = "running" => jobs[c].started) /\ (jobs[c].started => jobs[c].state # "absent")
    BY DEF TInv, TypeOK, Rows, StartedFirst
  <1>1. CASE Moves(jobs, jobs')
    <2>1. RowMoves(jobs[c], jobs'[c])
      BY <1>1 DEF Moves
    <2> QED BY <1>0, <2>1 DEF RowMoves, Successors
  <1>2. ASSUME NEW d \in Calls, Inserts(jobs, d, jobs')
        PROVE  /\ jobs[c].started => jobs'[c].started
               /\ jobs'[c].state = "running" => jobs'[c].started
               /\ jobs'[c].started => jobs'[c].state # "absent"
    <2>1. jobs'[c] = IF c = d THEN QueuedRow ELSE jobs[c]
      BY <1>0, <1>2 DEF Inserts, Rows
    <2> QED BY <1>0, <1>2, <2>1, NewRows DEF Inserts
  <1> QED BY <1>1, <1>2, StepMoves

\* A claim sets started_at.
LEMMA ClaimStarts ==
    ASSUME Rows(jobs), NEW c \in Calls, TransitionSucceeds(jobs, c, "running")
    PROVE  TransitionAsyncJob(jobs, c, "running")[c].state = "running"
  <1>1. TransitionAsyncJob(jobs, c, "running")[c] = TransitionRow(jobs[c], "running") /\ jobs[c] \in JobRow
    BY DEF TransitionAsyncJob, Rows
  <1> QED BY <1>1, TransitionRowMoves DEF TransitionSucceeds, JobStates, AsyncJobStates

\* So does an approval.
LEMMA ApprovalStarts ==
    ASSUME Rows(jobs), NEW c \in Calls, IsWaiting(jobs, c)
    PROVE  ApproveAsyncJob(jobs, c)[c].state = "running"
  <1> DEFINE s == [jobs[c] EXCEPT !.state = "running", !.started = TRUE]
  <1>1. ApproveAsyncJob(jobs, c) = [jobs EXCEPT ![c] = s] /\ jobs[c] \in JobRow
    BY DEF ApproveAsyncJob, Rows
  <1>2. s.state = "running"
    BY <1>1, Zenon DEF JobRow
  <1> HIDE DEF s
  <1> QED BY <1>1, <1>2 DEF Rows

\* A handler that sends for its own job has started it.
LEMMA OwnJobsStep ==
    ASSUME \A c, d \in Calls : RequestOf[c] = RequestOf[d] => c = d, TRUE \notin WaitModes,
           TInv, StartedFirst, [Next]_vars, NEW c \in Calls
    PROVE  /\ ~handler'[c].wait /\ handler'[c].at \notin {"send", "await", "answered"}
           /\ handler'[c].at = "idle" => jobs'[c].state = "absent"
           /\ handler'[c].at = "evaluated" => handler'[c].owned
  <1>0. /\ handler \in [Calls -> Handlers] /\ HandlerGoes(c)
        /\ ~handler[c].wait /\ handler[c].at \notin {"send", "await", "answered"}
        /\ handler[c].at = "idle" => jobs[c].state = "absent"
        /\ handler[c].at = "evaluated" => handler[c].owned
    BY HandlersStep DEF TInv, TypeOK, StartedFirst
  <1>1. ASSUME NEW outcome \in Outcomes, NEW wait \in WaitModes, Dispatch(c, outcome, wait)
        PROVE  /\ ~handler'[c].wait /\ handler'[c].at \in {"evaluated", "done"}
               /\ handler'[c].at = "evaluated" => handler'[c].owned
    <2>1. wait = FALSE
      BY AsyncAssumption, Zenon
    <2>2. ~RequestTaken(c)
      BY <1>0, <1>1 DEF RequestTaken, Dispatch
    <2>3. /\ handler'[c].at = IF Saturated \/ outcome = "direct" THEN "done" ELSE "evaluated"
          /\ handler'[c].wait = wait
          /\ handler'[c].owned <=> ~Saturated /\ ~RequestTaken(c)
      BY <1>0, <1>1, DispatchFacts
    <2> QED BY <2>1, <2>2, <2>3
  <1>2. ASSUME ~\E outcome \in Outcomes, wait \in WaitModes : Dispatch(c, outcome, wait)
        PROVE  /\ ~handler'[c].wait /\ handler'[c].at \notin {"send", "await", "answered"}
               /\ handler'[c].at = "idle" => jobs'[c].state = "absent"
               /\ handler'[c].at = "evaluated" => handler'[c].owned
    <2>1. ~MarkRunning(c) /\ ~InvokeCommand(c, TRUE)
      BY <1>0, Zenon DEF MarkRunning, InvokeCommand
    <2>2. \/ handler'[c] = handler[c]
          \/ handler'[c].wait = handler[c].wait /\ handler'[c].at \in {"submitted", "now", "done"}
      BY <1>0, <1>2, <2>1, Zenon DEF HandlerGoes, SameCall
    <2>3. jobs[c].state = "absent" => jobs'[c].state = "absent"
      BY <1>2, AbsentRows, Zenon
    <2> QED BY <1>0, <2>2, <2>3, Zenon
  <1> QED BY <1>1, <1>2, Zenon

\* Every way to send starts the job first.
LEMMA StartedFirstStep ==
    ASSUME \A c, d \in Calls : RequestOf[c] = RequestOf[d] => c = d, TRUE \notin WaitModes, "decide" \notin Endpoints,
           TInv, StartedFirst, [Next]_vars
    PROVE  StartedFirst'
  <1>0. /\ Rows(jobs) /\ goroutines \subseteq Goroutines
        /\ sent \in [Calls -> Nat]
    BY Zenon DEF TInv, TypeOK, Rows
  <1>1. ASSUME NEW o \in Operators
        PROVE  operator'[o].at \notin {"decided", "send", "mark"}
    <2>1. ~\E c \in Calls, d \in {"approved", "denied"} : Decide(o, c, d)
      BY Zenon DEF Decide
    <2>2. operator[o].at \notin {"decided", "send", "mark"} /\ ~DecisionRecorded(o)
      BY DEF DecisionRecorded, StartedFirst
    <2>3. OperatorGoes(o)
      BY OperatorsStep
    <2> QED BY <2>1, <2>2, <2>3, Zenon DEF OperatorGoes
  <1>2. ASSUME NEW g \in goroutines'
        PROVE  jobs'[g[1]].started
    <2>1. CASE g \in goroutines
      <3>1. g[1] \in Calls /\ jobs[g[1]].started
        BY <1>0, <2>1 DEF Goroutines, StartedFirst
      <3> QED BY <3>1, StartedStays
    <2>2. CASE g \notin goroutines
      <3>1. ~Restart /\ ~\E h \in Goroutines, ok \in SendResults : RunGoroutine(h, ok)
        BY <2>2 DEF Restart, RunGoroutine
      <3>2. CASE DrainClaim
        <4> DEFINE c == Head(sched.batch)
        <4>1. c \in Calls /\ g[1] = c /\ TransitionSucceeds(jobs, c, "running")
              /\ jobs' = TransitionAsyncJob(jobs, c, "running")
          BY <2>2, <3>2, DrainClaimFacts, SMTT(30) DEF DrainClaim, Claims
        <4> HIDE DEF c
        <4> QED BY <1>0, <4>1, ClaimStarts, StartedStays, Zenon
      <3>3. ASSUME NEW o \in Operators, ApproveJob(o)
            PROVE  jobs'[g[1]].started
        <4> DEFINE c == operator[o].call
        <4>1. c \in Calls
          BY <3>3, Zenon DEF ApproveJob, TInv, Shapes
        <4>2. g[1] = c /\ IsWaiting(jobs, c) /\ jobs' = ApproveAsyncJob(jobs, c)
          BY <2>2, <3>3 DEF ApproveJob
        <4> HIDE DEF c
        <4> QED BY <1>0, <4>1, <4>2, ApprovalStarts, StartedStays
      <3>4. CASE TimeOutSync
        <4>1. g[1] = checker.call /\ checker.at = "sync" /\ checker.approve
          BY <2>2, <3>4, SMTT(30) DEF TimeOutSync
        <4>2. checker.call \in Calls /\ jobs[checker.call].started
          BY <4>1 DEF TInv, Shapes, StartedFirst
        <4> QED BY <4>1, <4>2, StartedStays, Zenon
      <3> QED BY <2>2, <3>1, <3>2, <3>3, <3>4, GoroutineFrame
    <2> QED BY <2>1, <2>2
  <1>3. ASSUME sched'.at = "send"
        PROVE  jobs'[sched'.call].started
    <2>9. PICK c \in Calls : sched'.call = c
      BY <1>3, SchedType DEF SchedOK
    <2>0. sched'.call = c /\ Sending(c)'
      BY <1>3, <2>9, Zenon DEF Sending
    <2>1. CASE Sending(c) /\ sched' = sched
      BY <2>0, <2>1, StartedStays, Zenon DEF Sending, StartedFirst
    <2>2. CASE ClaimsJob(c)
      <3>1. TransitionSucceeds(jobs, c, "running") /\ jobs' = TransitionAsyncJob(jobs, c, "running")
        BY <2>2 DEF ClaimsJob, ClaimNow, DrainClaim, Claims
      <3> QED BY <1>0, <2>0, <3>1, ClaimStarts, StartedStays, Zenon
    <2> QED BY <2>0, <2>1, <2>2, SendingStarts, Zenon
  <1>4. ASSUME checker'.at = "sync", checker'.approve
        PROVE  jobs'[checker'.call].started
    <2>1. CASE checker' = checker
      BY <1>4, <2>1, StartedStays, Zenon DEF TInv, Shapes, StartedFirst
    <2>2. CASE checker' # checker
      <3>1. checker' # IdleChecker
        BY <1>4, IdleCheckerFacts
      <3>2. PICK c \in checker.left :
               /\ TimeOut(c) /\ checker'.call = c
               /\ checker'.approve <=> (TimeoutBehavior = "reads_only" /\ c \in ReadOnly)
               /\ IF TimeoutBehavior = "reads_only" /\ c \in ReadOnly THEN IsWaiting(jobs, c)
                                                                     ELSE TransitionSucceeds(jobs, c, "cancelled")
        BY <1>4, <2>2, <3>1, CheckerStepFacts, Zenon DEF CheckerGoes
      <3>3. c \in Calls
        BY <1>4, <3>2, CheckerStepFacts, Zenon DEF CheckerOK
      <3>4. IsWaiting(jobs, c) /\ jobs' = ApproveAsyncJob(jobs, c)
        BY <1>4, <3>2 DEF TimeOut
      <3> QED BY <1>0, <3>2, <3>3, <3>4, ApprovalStarts, StartedStays
    <2> QED BY <2>1, <2>2, Zenon
  <1>5. ASSUME NEW c \in Calls, sent'[c] > 0
        PROVE  jobs'[c].started
    <2>1. CASE sent'[c] = sent[c]
      BY <1>5, <2>1, StartedStays, Zenon DEF StartedFirst, SentOnlyOnceStarted
    <2>2. CASE sent'[c] # sent[c]
      <3>1. \/ InvokeCommand(c, TRUE)
            \/ SendNow(TRUE) /\ sched.call = c
            \/ \E g \in goroutines : RunGoroutine(g, TRUE) /\ g[1] = c
            \/ \E o \in Operators : DispatchApproved(o, TRUE) /\ operator[o].call = c
        BY <2>2, ProbeStep, Zenon DEF ProbeGoes
      <3>2. jobs[c].started
        BY <3>1, Zenon DEF InvokeCommand, SendNow, DispatchApproved, StartedFirst
      <3> QED BY <3>2, StartedStays
    <2> QED BY <2>1, <2>2, Zenon
  <1>6. SentOnlyOnceStarted'
    BY <1>5 DEF SentOnlyOnceStarted
  <1> QED BY <1>1, <1>2, <1>3, <1>4, <1>6, OwnJobsStep, StartedStays, Zenon DEF StartedFirst

\* A command is sent only after its job was moved to running: for any policy, timeout behaviour,
\* limits and number of restarts, when clients do not share request ids or use ?wait and approvals
\* go through the job's own endpoints.
THEOREM StartedBeforeSent ==
    ASSUME \A c, d \in Calls : RequestOf[c] = RequestOf[d] => c = d, TRUE \notin WaitModes, "decide" \notin Endpoints
    PROVE  Spec => []SentOnlyOnceStarted
  <1>1. Init => StartedFirst
    <2> SUFFICES ASSUME Init PROVE StartedFirst
      OBVIOUS
    <2>1. \A c \in Calls : jobs[c].state = "absent" /\ ~jobs[c].started /\ sent[c] = 0
      BY NewRows DEF Init
    <2>2. \A c \in Calls : ~handler[c].wait /\ handler[c].at = "idle"
      BY DEF Init, IdleHandler
    <2>3. goroutines = {} /\ sched.at = "free" /\ checker.at = "idle" /\ \A o \in Operators : operator[o].at = "idle"
      BY FreeSchedFacts, IdleCheckerFacts, IdleOperatorFacts DEF Init
    <2> QED BY <2>1, <2>2, <2>3 DEF StartedFirst, SentOnlyOnceStarted
  <1>2. TInv /\ StartedFirst /\ [Next]_vars => StartedFirst'
    BY StartedFirstStep
  <1>3. StartedFirst => SentOnlyOnceStarted
    BY DEF StartedFirst
  <1> QED BY <1>1, <1>2, <1>3, TypeInvariant, PTL DEF Spec
=============================================================================
