--------------------------- MODULE AsyncJobs_proofs ---------------------------
(***************************************************************************)
(* Proofs about async jobs, for every set of calls, operators and probes,  *)
(* every sharing of request ids, every limit and timeout behaviour.  A     *)
(* theorem about a configuration names it in its ASSUME.                   *)
(*                                                                         *)
(* Every variable has one lemma that says which steps change it (..Frame)  *)
(* and one that says how a step looks to one handler, operator, job or     *)
(* probe (..Goes, ..Step).  The invariants are proved from those.          *)
(***************************************************************************)
EXTENDS AsyncJobs, FiniteSetTheorems, TLAPS

----------------------------------------------------------------------------
\* Tables of jobs and how one step may change them

JobStates == AsyncJobStates \cup {"absent"}
Expiries == Nat \cup {NoExpiry}

\* A row keeps its state, or takes a transition of the life cycle; no row appears.  A job that
\* starts to run has started_at set, and started_at is never cleared and not set otherwise.
RowMoves(r, s) ==
    /\ s \in JobRow
    /\ s.state = r.state \/ (r.state # "absent" /\ s.state \in Successors(r.state))
    /\ r.started => s.started
    /\ s.state = "running" => r.state = "running" \/ s.started
    /\ s.started => r.started \/ s.state = "running"

Rows(J) == J \in [Calls -> JobRow]
Moves(J, K) == Rows(K) /\ \A c \in Calls : RowMoves(J[c], K[c])

USE DEF JobStates

\* canTransitionAsyncJob allows only transitions of the life cycle.
LEMMA CanTransitionMoves ==
    ASSUME NEW from \in JobStates, NEW to \in JobStates, CanTransitionAsyncJob(from, to)
    PROVE  from # "absent" /\ to \in Successors(from)
  BY DEF CanTransitionAsyncJob, Successors, AsyncJobStates, TerminalStates

\* The types of the columns
LEMMA RowFields ==
    ASSUME NEW r \in JobRow
    PROVE  r.state \in JobStates /\ r.approval \in BOOLEAN /\ r.expires \in Expiries /\ r.started \in BOOLEAN
  BY DEF JobRow, Expiries

\* A row that stays as it is
LEMMA SameRow ==
    ASSUME NEW r \in JobRow
    PROVE RowMoves(r, r)
  BY DEF RowMoves

\* TransitionAsyncJob respects the life cycle, whatever state it finds the job in.
LEMMA TransitionRowMoves ==
    ASSUME NEW r \in JobRow, NEW to \in JobStates
    PROVE  /\ RowMoves(r, TransitionRow(r, to))
           /\ TransitionRow(r, to).state = IF CanTransitionAsyncJob(r.state, to) THEN to ELSE r.state
  <1>1. CASE CanTransitionAsyncJob(r.state, to)
    <2> DEFINE b == r.started \/ to = "running"
               s == [r EXCEPT !.state = to, !.expires = NoExpiry, !.started = b]
    <2>1. TransitionRow(r, to) = s
      BY <1>1, Zenon DEF TransitionRow
    <2>2. b \in BOOLEAN /\ (r.started => b) /\ (to = "running" => b) /\ (b => r.started \/ to = "running")
      BY RowFields, Zenon
    <2> HIDE DEF b
    <2>3. s \in JobRow /\ s.state = to /\ s.started = b
      BY <2>2, Zenon DEF JobRow, Expiries
    <2> HIDE DEF s
    <2>4. r.state # "absent" /\ to \in Successors(r.state)
      BY <1>1, RowFields, CanTransitionMoves
    <2>5. RowMoves(r, s)
      BY <2>2, <2>3, <2>4, Zenon DEF RowMoves
    <2> QED BY <1>1, <2>1, <2>3, <2>5, Zenon
  <1>2. CASE ~CanTransitionAsyncJob(r.state, to)
    BY <1>2, SameRow DEF TransitionRow
  <1> QED BY <1>1, <1>2

\* Updating one row along the life cycle moves the table along it.
LEMMA OneRowMoves ==
    ASSUME NEW J, Rows(J), NEW c, NEW s, c \notin Calls \/ RowMoves(J[c], s)
    PROVE  Moves(J, [J EXCEPT ![c] = s])
  <1> DEFINE K == [J EXCEPT ![c] = s]
  <1>1. Rows(K)
    BY Zenon DEF RowMoves, Rows
  <1>2. ASSUME NEW d \in Calls PROVE RowMoves(J[d], K[d])
    <2>1. K[d] = IF d = c THEN s ELSE J[d] BY DEF Rows
    <2>2. RowMoves(J[d], J[d]) BY SameRow DEF Rows
    <2> QED BY <2>1, <2>2
  <1> QED BY <1>1, <1>2 DEF Moves

\* A step that leaves the table alone
LEMMA StaysMoves ==
    ASSUME NEW J, Rows(J)
    PROVE  Moves(J, J)
  BY SameRow DEF Moves, Rows

\* TransitionAsyncJob on the table
LEMMA TransitionMoves ==
    ASSUME NEW J, Rows(J), NEW c, NEW to \in JobStates
    PROVE  Moves(J, TransitionAsyncJob(J, c, to))
  <1>1. c \notin Calls \/ RowMoves(J[c], TransitionRow(J[c], to))
    BY TransitionRowMoves DEF Rows
  <1> QED BY <1>1, OneRowMoves DEF TransitionAsyncJob

\* transitionByRequestID, which may find the job of another call
LEMMA TransitionByRequestMoves ==
    ASSUME Rows(jobs), NEW c, NEW to \in JobStates
    PROVE  Moves(jobs, TransitionByRequestID(c, to))
  <1> DEFINE K == TransitionByRequestID(c, to)
  <1>1. ASSUME NEW j \in Calls
        PROVE  RowMoves(jobs[j], K[j])
    <2>1. jobs[j] \in JobRow
      BY DEF Rows
    <2>2. K[j] = TransitionRow(jobs[j], to) \/ K[j] = jobs[j]
      BY DEF TransitionByRequestID
    <2> QED BY <2>1, <2>2, TransitionRowMoves, SameRow
  <1>2. K = [j \in Calls |-> K[j]]
    BY DEF TransitionByRequestID
  <1> HIDE DEF K
  <1>3. Moves(jobs, K)
    BY <1>1, <1>2 DEF Moves, Rows, RowMoves
  <1> QED BY <1>3 DEF K

\* completeAsyncJobByRequestID
LEMMA CompleteMoves ==
    ASSUME Rows(jobs), NEW c, NEW ok
    PROVE  Moves(jobs, CompleteByRequestID(c, ok))
  BY TransitionByRequestMoves DEF CompleteByRequestID, AsyncJobStates, TerminalStates

\* The UPDATEs that do not go through canTransitionAsyncJob
LEMMA MarkWaitingMoves ==
    ASSUME NEW J, Rows(J), NEW c, NEW t \in Nat
    PROVE  Moves(J, MarkWaitingApproval(J, c, t))
  <1>1. CASE CanTransitionAsyncJob(J[c].state, "waiting_approval")
    <2> DEFINE s == [J[c] EXCEPT !.state = "waiting_approval", !.approval = TRUE, !.expires = t]
    <2>1. MarkWaitingApproval(J, c, t) = [J EXCEPT ![c] = s]
      BY <1>1, Zenon DEF MarkWaitingApproval
    <2>2. ASSUME c \in Calls PROVE RowMoves(J[c], s)
      <3>1. J[c] \in JobRow
        BY <2>2 DEF Rows
      <3>2. s \in JobRow /\ s.state = "waiting_approval" /\ s.started = J[c].started
        BY <3>1, Zenon DEF JobRow, AsyncJobStates
      <3> HIDE DEF s
      <3>3. J[c].state # "absent" /\ "waiting_approval" \in Successors(J[c].state)
        BY <1>1, <3>1, RowFields, CanTransitionMoves, Zenon DEF AsyncJobStates
      <3> QED BY <3>2, <3>3, Zenon DEF RowMoves
    <2> HIDE DEF s
    <2>3. c \notin Calls \/ RowMoves(J[c], s)
      BY <2>2
    <2>4. Moves(J, [J EXCEPT ![c] = s])
      BY <2>3, OneRowMoves
    <2> QED BY <2>1, <2>4
  <1>2. CASE ~CanTransitionAsyncJob(J[c].state, "waiting_approval")
    BY <1>2, StaysMoves DEF MarkWaitingApproval
  <1> QED BY <1>1, <1>2

\* ApproveAsyncJob: waiting jobs start to run.
LEMMA ApproveMoves ==
    ASSUME NEW J, Rows(J), NEW c
    PROVE  Moves(J, ApproveAsyncJob(J, c))
  <1>1. CASE IsWaiting(J, c)
    <2> DEFINE s == [J[c] EXCEPT !.state = "running", !.started = TRUE]
    <2>1. ApproveAsyncJob(J, c) = [J EXCEPT ![c] = s]
      BY <1>1, Zenon DEF ApproveAsyncJob
    <2>2. ASSUME c \in Calls PROVE RowMoves(J[c], s)
      <3>1. J[c] \in JobRow
        BY <2>2 DEF Rows
      <3>2. s \in JobRow /\ s.state = "running" /\ s.started = TRUE
        BY <3>1, Zenon DEF JobRow, AsyncJobStates
      <3> HIDE DEF s
      <3>3. J[c].state = "waiting_approval" /\ "running" \in Successors("waiting_approval")
        BY <1>1 DEF Successors, IsWaiting
      <3>4. J[c].state # "absent" /\ "running" \in Successors(J[c].state)
        BY <3>3
      <3> QED BY <3>2, <3>4, Zenon DEF RowMoves
    <2> HIDE DEF s
    <2>3. c \notin Calls \/ RowMoves(J[c], s)
      BY <2>2
    <2>4. Moves(J, [J EXCEPT ![c] = s])
      BY <2>3, OneRowMoves
    <2> QED BY <2>1, <2>4
  <1>2. CASE ~IsWaiting(J, c)
    BY <1>2, StaysMoves DEF ApproveAsyncJob
  <1> QED BY <1>1, <1>2

\* An UPDATE that only changes the state, of a job that waits or runs
LEMMA EndedRowMoves ==
    ASSUME NEW r \in JobRow, r.state \in {"running", "waiting_approval"}, NEW to \in {"failed", "expired"}
    PROVE  RowMoves(r, [r EXCEPT !.state = to])
  <1> DEFINE s == [r EXCEPT !.state = to]
  <1>1. s \in JobRow /\ s.state = to /\ s.started = r.started
    BY Zenon DEF JobRow, AsyncJobStates, TerminalStates
  <1> HIDE DEF s
  <1>2. r.state # "absent" /\ to \in Successors(r.state) /\ to # "running"
    BY DEF Successors
  <1>3. RowMoves(r, s)
    BY <1>1, <1>2, Zenon DEF RowMoves
  <1> QED BY <1>3 DEF s

\* RejectAsyncJob: waiting jobs fail.
LEMMA RejectMoves ==
    ASSUME NEW J, Rows(J), NEW c
    PROVE  Moves(J, RejectAsyncJob(J, c))
  <1>1. CASE IsWaiting(J, c)
    <2>1. c \notin Calls \/ RowMoves(J[c], [J[c] EXCEPT !.state = "failed"])
      BY <1>1, EndedRowMoves, Zenon DEF Rows, IsWaiting
    <2> QED BY <1>1, <2>1, OneRowMoves DEF RejectAsyncJob
  <1>2. CASE ~IsWaiting(J, c)
    BY <1>2, StaysMoves DEF RejectAsyncJob
  <1> QED BY <1>1, <1>2

\* ExtendApprovalExpiry changes the window, not the state.
LEMMA ExtendMoves ==
    ASSUME NEW J, Rows(J), NEW c, NEW t \in Nat
    PROVE  Moves(J, ExtendApprovalExpiry(J, c, t))
  <1>1. CASE IsWaiting(J, c)
    <2> DEFINE s == [J[c] EXCEPT !.expires = t]
    <2>1. ASSUME c \in Calls PROVE RowMoves(J[c], s)
      <3>1. J[c] \in JobRow
        BY <2>1 DEF Rows
      <3>2. s \in JobRow /\ s.state = J[c].state /\ s.started = J[c].started
        BY <3>1, Zenon DEF JobRow
      <3> HIDE DEF s
      <3> QED BY <1>1, <3>2 DEF RowMoves, IsWaiting
    <2>2. ExtendApprovalExpiry(J, c, t) = [J EXCEPT ![c] = s]
      BY <1>1, Zenon DEF ExtendApprovalExpiry
    <2> HIDE DEF s
    <2>3. c \notin Calls \/ RowMoves(J[c], s)
      BY <2>1
    <2>4. Moves(J, [J EXCEPT ![c] = s])
      BY <2>3, OneRowMoves
    <2> QED BY <2>2, <2>4
  <1>2. CASE ~IsWaiting(J, c)
    BY <1>2, StaysMoves DEF ExtendApprovalExpiry
  <1> QED BY <1>1, <1>2

\* The start-up expires what a crash left running or waiting too long.
LEMMA ExpireStaleMoves ==
    ASSUME NEW J, Rows(J), NEW t
    PROVE  Moves(J, ExpireStale(J, t))
  <1> DEFINE K == ExpireStale(J, t)
  <1>1. K = [c \in Calls |-> K[c]]
    BY DEF ExpireStale, Rows
  <1>2. ASSUME NEW c \in Calls
        PROVE  RowMoves(J[c], K[c])
    <2>1. J[c] \in JobRow
      BY DEF Rows
    <2>2. \/ K[c] = J[c]
          \/ /\ J[c].state \in {"running", "waiting_approval"}
             /\ K[c] = [J[c] EXCEPT !.state = "expired"]
      BY DEF ExpireStale, Rows, ApprovalWindowClosed, IsWaiting
    <2> QED BY <2>1, <2>2, EndedRowMoves, SameRow, Zenon
  <1> HIDE DEF K
  <1>3. Moves(J, K)
    BY <1>1, <1>2 DEF Moves, Rows, RowMoves
  <1> QED BY <1>3 DEF K

HIDE DEF JobStates

----------------------------------------------------------------------------
\* Which steps change which variable

\* The steps that move an HTTP handler
LEMMA HandlerFrame ==
    ASSUME [Next]_vars, handler' # handler
    PROVE  \/ \E c \in Calls, outcome \in Outcomes, wait \in WaitModes : Dispatch(c, outcome, wait)
           \/ \E c \in Calls : HandlerStep(c)
           \/ ClaimNow
           \/ \E ok \in SendResults : SendNow(ok)
           \/ \E c \in Calls, ok \in BOOLEAN : ProbeResult(c, ok)
           \/ \E o \in Operators : CancelTracked(o)
           \/ Restart
  BY Zenon
     DEF Next, SchedStep, OperatorStep, CheckerStep, vars, DrainCount, DrainList, DrainClaim, RunGoroutine,
         ApproveRead, Reject, Cancel, Decide, ApproveSync, ApproveJob, ApproveLate, RejectSync, DecisionRecorded,
         DispatchApproved, ApprovedDispatch, CheckTimeouts, Escalate, TimeOut, TimeOutSync, Sweep, Tick

\* The steps that move an operator's call
LEMMA OperatorFrame ==
    ASSUME [Next]_vars, operator' # operator
    PROVE  \/ \E o \in Operators, c \in Calls :
                 \/ ApproveRead(o, c) \/ Reject(o, c) \/ Cancel(o, c)
                 \/ \E d \in {"approved", "denied"} : Decide(o, c, d)
           \/ \E o \in Operators : OperatorStep(o)
           \/ Restart
  BY Zenon
     DEF Next, SchedStep, CheckerStep, vars, DrainCount, DrainList, DrainClaim, RunGoroutine, ClaimNow, SendNow,
         HandlerStep, Deny, SubmitApproval, MarkWaiting, MarkRunning, InvokeCommand, FinishWait, DispatchNow,
         Dispatch, ProbeResult, CheckTimeouts, Escalate, TimeOut, TimeOutSync, Sweep, Tick

\* The steps that touch the approval queue
LEMMA QueueFrame ==
    ASSUME [Next]_vars, requests' # requests
    PROVE  \/ \E c \in Calls, second \in SecondModes : SubmitApproval(c, second)
           \/ \E o \in Operators, c \in Calls, d \in {"approved", "denied"} : Decide(o, c, d)
           \/ \E o \in Operators : ApproveSync(o) \/ RejectSync(o)
           \/ TimeOutSync
           \/ Sweep
           \/ Restart
  BY Zenon
     DEF Next, SchedStep, OperatorStep, CheckerStep, HandlerStep, vars, queueVars, DrainCount, DrainList, DrainClaim,
         RunGoroutine, ClaimNow, SendNow, Deny, MarkWaiting, MarkRunning, InvokeCommand, FinishWait, DispatchNow,
         Dispatch, ProbeResult, CheckTimeouts, Escalate, TimeOut, Tick,
         ApproveRead, Reject, Cancel, ApproveJob, ApproveLate, DecisionRecorded,
         DispatchApproved, ApprovedDispatch, CancelTracked

\* The steps that take, use or release schedMu
LEMMA SchedFrame ==
    ASSUME [Next]_vars, sched' # sched
    PROVE  (\E c \in Calls : DispatchNow(c)) \/ DrainCount \/ SchedStep \/ Restart
  BY Zenon
     DEF Next, OperatorStep, CheckerStep, HandlerStep, vars, workerVars,
         RunGoroutine, Deny, SubmitApproval, MarkWaiting, MarkRunning, InvokeCommand, FinishWait,
         Dispatch, ProbeResult, CheckTimeouts, Escalate, TimeOut, TimeOutSync, Sweep, Tick,
         ApproveRead, Reject, Cancel, Decide, ApproveSync, RejectSync, ApproveJob, ApproveLate, DecisionRecorded,
         DispatchApproved, ApprovedDispatch, CancelTracked

\* The steps that start or end a dispatch goroutine
LEMMA GoroutineFrame ==
    ASSUME [Next]_vars, goroutines' # goroutines
    PROVE  \/ DrainClaim
           \/ \E g \in Goroutines, ok \in SendResults : RunGoroutine(g, ok)
           \/ \E o \in Operators : ApproveJob(o)
           \/ TimeOutSync
           \/ Restart
  BY Zenon
     DEF Next, SchedStep, OperatorStep, CheckerStep, HandlerStep, vars, workerVars, DrainCount, DrainList,
         ClaimNow, SendNow, Deny, SubmitApproval, MarkWaiting, MarkRunning, InvokeCommand, FinishWait, DispatchNow,
         Dispatch, ProbeResult, CheckTimeouts, Escalate, TimeOut, Sweep, Tick,
         ApproveRead, Reject, Cancel, Decide, ApproveSync, RejectSync, ApproveLate, DecisionRecorded,
         DispatchApproved, ApprovedDispatch, CancelTracked

\* The steps that move the timeout checker
LEMMA CheckerFrame ==
    ASSUME [Next]_vars, checker' # checker
    PROVE  CheckerStep \/ Restart
  BY Zenon
     DEF Next, SchedStep, OperatorStep, HandlerStep, vars, DrainCount, DrainList, DrainClaim, RunGoroutine,
         ClaimNow, SendNow, Deny, SubmitApproval, MarkWaiting, MarkRunning, InvokeCommand, FinishWait, DispatchNow,
         Dispatch, ProbeResult, Sweep, Tick,
         ApproveRead, Reject, Cancel, Decide, ApproveSync, RejectSync, ApproveJob, ApproveLate, DecisionRecorded,
         DispatchApproved, ApprovedDispatch, CancelTracked

\* The steps that send to a probe or take a result from it
LEMMA ProbeFrame ==
    ASSUME [Next]_vars, wire' # wire \/ sent' # sent
    PROVE  \/ \E c \in Calls, ok \in SendResults : InvokeCommand(c, ok)
           \/ \E ok \in SendResults : SendNow(ok)
           \/ \E g \in Goroutines, ok \in SendResults : RunGoroutine(g, ok)
           \/ \E o \in Operators, ok \in SendResults : DispatchApproved(o, ok)
           \/ \E c \in Calls, ok \in BOOLEAN : ProbeResult(c, ok)
  BY Zenon
     DEF Next, SchedStep, OperatorStep, CheckerStep, HandlerStep, vars, probeVars, DrainCount, DrainList, DrainClaim,
         ClaimNow, Deny, SubmitApproval, MarkWaiting, MarkRunning, FinishWait, DispatchNow,
         Dispatch, CheckTimeouts, Escalate, TimeOut, TimeOutSync, Sweep, Tick, Restart,
         ApproveRead, Reject, Cancel, Decide, ApproveSync, RejectSync, ApproveJob, ApproveLate, DecisionRecorded,
         ApprovedDispatch, CancelTracked

\* Only a dispatch request inserts a job.
LEMMA CreatedFrame ==
    ASSUME [Next]_vars, created' # created
    PROVE  \E c \in Calls, outcome \in Outcomes, wait \in WaitModes : Dispatch(c, outcome, wait)
  BY Zenon
     DEF Next, SchedStep, OperatorStep, CheckerStep, HandlerStep, vars, storeVars, DrainCount, DrainList, DrainClaim,
         RunGoroutine, ClaimNow, SendNow, Deny, SubmitApproval, MarkWaiting, MarkRunning, InvokeCommand, FinishWait,
         DispatchNow, ProbeResult, CheckTimeouts, Escalate, TimeOut, TimeOutSync, Sweep, Tick, Restart,
         ApproveRead, Reject, Cancel, Decide, ApproveSync, RejectSync, ApproveJob, ApproveLate, DecisionRecorded,
         DispatchApproved, ApprovedDispatch, CancelTracked

\* Only Tick moves the clock, only Restart counts restarts.
LEMMA ClockFrame ==
    ASSUME [Next]_vars
    PROVE  (now' = now \/ Tick) /\ (restarts' = restarts \/ Restart)
  BY Zenon
     DEF Next, SchedStep, OperatorStep, CheckerStep, HandlerStep, vars, queueVars, DrainCount, DrainList, DrainClaim,
         RunGoroutine, ClaimNow, SendNow, Deny, SubmitApproval, MarkWaiting, MarkRunning, InvokeCommand, FinishWait,
         DispatchNow, Dispatch, ProbeResult, CheckTimeouts, Escalate, TimeOut, TimeOutSync, Sweep, Tick, Restart,
         ApproveRead, Reject, Cancel, Decide, ApproveSync, RejectSync, ApproveJob, ApproveLate, DecisionRecorded,
         DispatchApproved, ApprovedDispatch, CancelTracked

----------------------------------------------------------------------------
\* Types

Present == {c \in Calls : jobs[c].state # "absent"}

\* What TypeOK does not say: a process that is under way has a call, and at any time there
\* are only finitely many jobs, so that counting them gives a number.
Shapes ==
    /\ IsFiniteSet(Present)
    /\ sched.at = "drain" => sched.batch # <<>>
    /\ sched.at \in {"claim", "send"} => sched.call \in Calls
    /\ checker.at = "sync" => checker.call \in Calls
    /\ \A o \in Operators : operator[o].at # "idle" => operator[o].call \in Calls

TInv == TypeOK /\ Shapes

HandlerPlaces == {"idle", "evaluated", "submitted", "now", "send", "await", "answered", "done"}
OperatorPlaces == {"idle", "read", "late", "approved", "rejected", "cancelled", "decided", "send", "mark"}

\* Moving a handler changes nothing else of it.
LEMMA HandlerUpdates ==
    ASSUME NEW h \in Handlers, NEW at \in HandlerPlaces
    PROVE  LET k == [h EXCEPT !.at = at] IN
           /\ k \in Handlers /\ k.at = at
           /\ k.outcome = h.outcome /\ k.wait = h.wait /\ k.owned = h.owned /\ k.expires = h.expires
  BY Zenon DEF Handlers, HandlerPlaces

\* What a step does to the handler of a call: nothing, its first step, or a later one, which
\* keeps what the first one established.
SameCall(h, k) == k.outcome = h.outcome /\ k.wait = h.wait /\ k.owned = h.owned

\* HandlerAt moves one handler.
LEMMA HandlerAtFacts ==
    ASSUME handler \in [Calls -> Handlers], NEW c \in Calls, NEW at \in HandlerPlaces, HandlerAt(c, at)
    PROVE  /\ handler' \in [Calls -> Handlers]
           /\ handler'[c].at = at /\ SameCall(handler[c], handler'[c])
           /\ \A d \in Calls : d # c => handler'[d] = handler[d]
  <1> DEFINE k == [handler[c] EXCEPT !.at = at]
  <1>1. handler' = [handler EXCEPT ![c] = k]
    BY Zenon DEF HandlerAt
  <1>2. k \in Handlers /\ k.at = at /\ SameCall(handler[c], k)
    BY HandlerUpdates DEF SameCall
  <1> HIDE DEF k
  <1> QED BY <1>1, <1>2

\* A result or a cancellation wakes handlers that wait, and no others.
LEMMA WakeFacts ==
    ASSUME handler \in [Calls -> Handlers], NEW c, NEW ok \in BOOLEAN, WakeWaiter(c, ok)
    PROVE  /\ handler' \in [Calls -> Handlers]
           /\ \A d \in Calls : \/ handler'[d] = handler[d]
                               \/ /\ handler[d].at = "await" /\ handler'[d].at = "answered"
                                  /\ SameCall(handler[d], handler'[d])
  <1>1. CASE Awaiting(c) = {}
    BY <1>1 DEF WakeWaiter
  <1>2. CASE Awaiting(c) # {}
    <2>1. PICK h \in Awaiting(c) : handler' = [handler EXCEPT ![h] = [@ EXCEPT !.at = "answered", !.ok = ok]]
      BY <1>2, Zenon DEF WakeWaiter
    <2> DEFINE k == [handler[h] EXCEPT !.at = "answered", !.ok = ok]
    <2>2. h \in Calls /\ handler[h].at = "await" /\ handler[h] \in Handlers
      BY <2>1 DEF Awaiting
    <2>3. handler' = [handler EXCEPT ![h] = k]
      BY <2>1
    <2>4. k \in Handlers /\ k.at = "answered" /\ SameCall(handler[h], k)
      BY <2>2, Zenon DEF Handlers, SameCall
    <2> HIDE DEF k
    <2> QED BY <2>2, <2>3, <2>4, Zenon
  <1> QED BY <1>1, <1>2

\* What createAsyncCommandJob leaves in the handler
LEMMA DispatchFacts ==
    ASSUME handler \in [Calls -> Handlers], NEW c \in Calls, NEW outcome \in Outcomes, NEW wait \in WaitModes,
           Dispatch(c, outcome, wait)
    PROVE  LET inserts == ~Saturated /\ ~RequestTaken(c) IN
           /\ handler' \in [Calls -> Handlers]
           /\ handler[c].at = "idle"
           /\ handler'[c].at = IF Saturated \/ outcome = "direct" THEN "done" ELSE "evaluated"
           /\ handler'[c].outcome = outcome /\ handler'[c].wait = wait
           /\ handler'[c].owned <=> inserts
           /\ \A d \in Calls : d # c => handler'[d] = handler[d]
           /\ jobs' = IF inserts THEN [jobs EXCEPT ![c] = QueuedRow] ELSE jobs
           /\ created' = IF inserts THEN Append(created, c) ELSE created
  <1> DEFINE inserts == ~Saturated /\ ~RequestTaken(c)
             at == IF Saturated \/ outcome = "direct" THEN "done" ELSE "evaluated"
             k == [IdleHandler EXCEPT !.at = at, !.outcome = outcome, !.wait = wait, !.owned = inserts]
  <1>1. /\ handler[c].at = "idle" /\ handler' = [handler EXCEPT ![c] = k]
        /\ jobs' = IF inserts THEN [jobs EXCEPT ![c] = QueuedRow] ELSE jobs
        /\ created' = IF inserts THEN Append(created, c) ELSE created
    BY Zenon DEF Dispatch
  <1>2. inserts \in BOOLEAN /\ at \in HandlerPlaces /\ outcome \in PolicyOutcomes /\ wait \in BOOLEAN
    BY AsyncAssumption DEF HandlerPlaces
  <1>3. IdleHandler \in Handlers
    BY Zenon DEF IdleHandler, Handlers, PolicyOutcomes
  <1> HIDE DEF inserts, at
  <1>4. k \in Handlers /\ k.at = at /\ k.outcome = outcome /\ k.wait = wait /\ k.owned = inserts
    BY <1>2, <1>3, Zenon DEF Handlers, HandlerPlaces
  <1> HIDE DEF k
  <1>5. handler' \in [Calls -> Handlers] /\ handler'[c] = k /\ \A d \in Calls : d # c => handler'[d] = handler[d]
    BY <1>1, <1>4
  <1>6. handler'[c].owned <=> inserts
    BY <1>2, <1>4, <1>5, Zenon
  <1> QED BY <1>1, <1>4, <1>5, <1>6, Zenon DEF inserts, at

\* What the submission to the approval queue leaves in the handler
LEMMA SubmitFacts ==
    ASSUME TypeOK, NEW c \in Calls, NEW second \in SecondModes, SubmitApproval(c, second)
    PROVE  /\ handler' \in [Calls -> Handlers]
           /\ handler'[c].at \in {"submitted", "done"} /\ SameCall(handler[c], handler'[c])
           /\ \A d \in Calls : d # c => handler'[d] = handler[d]
  <1>0. handler \in [Calls -> Handlers] /\ now \in Nat
    BY DEF TypeOK
  <1>1. CASE IsFull(requests, now)
    BY <1>0, <1>1, HandlerAtFacts DEF SubmitApproval, HandlerPlaces
  <1>2. CASE ~IsFull(requests, now)
    <2> DEFINE at == IF handler[c].owned THEN "submitted" ELSE "done"
               until == now + TTL
               k == [handler[c] EXCEPT !.expires = until, !.second = second, !.at = at]
    <2>1. handler' = [handler EXCEPT ![c] = k]
      BY <1>2, Zenon DEF SubmitApproval
    <2>2. at \in {"submitted", "done"} /\ until \in Nat /\ second \in BOOLEAN /\ handler[c] \in Handlers
      BY <1>0, QueueAssumption, AsyncAssumption
    <2> HIDE DEF at, until
    <2>3. k \in Handlers /\ k.at = at /\ SameCall(handler[c], k)
      BY <2>2, Zenon DEF Handlers, SameCall
    <2> HIDE DEF k
    <2> QED BY <1>0, <2>1, <2>2, <2>3
  <1> QED BY <1>1, <1>2

\* One step of the system, seen by the handler of call c: a step of its own, the end of a step
\* it took under schedMu, a result for it to pick up, or a restart.
HandlerGoes(c) ==
    LET at == handler[c].at  next == handler'[c].at IN
    \/ handler'[c] = handler[c]
    \/ \E outcome \in Outcomes, wait \in WaitModes : Dispatch(c, outcome, wait)
    \/ /\ SameCall(handler[c], handler'[c])
       /\ \/ Restart /\ at # "idle" /\ next = "done"
          \/ Deny(c) /\ next = "done"
          \/ at = "evaluated" /\ handler[c].outcome = "queue" /\ next \in {"submitted", "done"}
          \/ MarkWaiting(c) /\ next = "done"
          \/ MarkRunning(c) /\ next = "send"
          \/ InvokeCommand(c, TRUE) /\ next = IF handler[c].wait THEN "await" ELSE "done"
          \/ InvokeCommand(c, FALSE) /\ next = "done"
          \/ FinishWait(c) /\ next = "done"
          \/ DispatchNow(c) /\ next \in {"now", "done"}
          \/ sched.at \in {"claim", "send"} /\ sched.call = c /\ sched' = FreeSched /\ next = "done"
          \/ at = "await" /\ next = "answered"

\* Every step moves every handler as HandlerGoes says.
LEMMA HandlersStep ==
    ASSUME TInv, [Next]_vars
    PROVE  handler' \in [Calls -> Handlers] /\ \A c \in Calls : HandlerGoes(c)
  <1> USE DEF HandlerPlaces
  <1>0. handler \in [Calls -> Handlers]
    BY DEF TInv, TypeOK
  <1>1. CASE handler' = handler
    BY <1>0, <1>1 DEF HandlerGoes
  <1>2. ASSUME NEW c \in Calls, NEW outcome \in Outcomes, NEW wait \in WaitModes, Dispatch(c, outcome, wait)
        PROVE  handler' \in [Calls -> Handlers] /\ \A d \in Calls : HandlerGoes(d)
    <2>1. handler' \in [Calls -> Handlers] /\ \A d \in Calls : d # c => handler'[d] = handler[d]
      BY <1>0, <1>2, DispatchFacts
    <2> QED BY <1>2, <2>1, Zenon DEF HandlerGoes
  <1>3. ASSUME NEW c \in Calls, HandlerStep(c)
        PROVE  handler' \in [Calls -> Handlers] /\ \A d \in Calls : HandlerGoes(d)
    <2>1. ASSUME NEW at \in HandlerPlaces, HandlerAt(c, at)
          PROVE  /\ handler' \in [Calls -> Handlers]
                 /\ handler'[c].at = at /\ SameCall(handler[c], handler'[c])
                 /\ \A d \in Calls : d # c => handler'[d] = handler[d]
      BY <1>0, <2>1, HandlerAtFacts
    <2>2. ASSUME NEW second \in SecondModes, SubmitApproval(c, second)
          PROVE  handler' \in [Calls -> Handlers] /\ \A d \in Calls : HandlerGoes(d)
      <3>1. handler[c].at = "evaluated" /\ handler[c].outcome = "queue"
        BY <2>2 DEF SubmitApproval
      <3> QED BY <2>2, <3>1, SubmitFacts, Zenon DEF TInv, HandlerGoes
    <2>3. CASE Deny(c) \/ MarkWaiting(c) \/ FinishWait(c)
      <3>1. HandlerAt(c, "done")
        BY <2>3 DEF Deny, MarkWaiting, FinishWait
      <3> QED BY <2>1, <2>3, <3>1, Zenon DEF HandlerGoes
    <2>4. CASE MarkRunning(c)
      <3>1. HandlerAt(c, "send")
        BY <2>4 DEF MarkRunning
      <3> QED BY <2>1, <2>4, <3>1, Zenon DEF HandlerGoes
    <2>5. ASSUME NEW ok \in SendResults, InvokeCommand(c, ok)
          PROVE  handler' \in [Calls -> Handlers] /\ \A d \in Calls : HandlerGoes(d)
      <3> DEFINE at == IF handler[c].wait THEN "await" ELSE "done"
      <3>1. at \in HandlerPlaces
        OBVIOUS
      <3>2. CASE ok = TRUE
        <4>1. HandlerAt(c, at) /\ InvokeCommand(c, TRUE)
          BY <2>5, <3>2, Zenon DEF InvokeCommand
        <4> HIDE DEF at
        <4>2. handler' \in [Calls -> Handlers] /\ HandlerGoes(c)
          BY <2>1, <3>1, <4>1, Zenon DEF HandlerGoes, at
        <4> QED BY <2>1, <3>1, <4>1, <4>2, Zenon DEF HandlerGoes
      <3>3. CASE ok = FALSE
        <4>1. HandlerAt(c, "done") /\ InvokeCommand(c, FALSE)
          BY <2>5, <3>3, Zenon DEF InvokeCommand
        <4> QED BY <2>1, <4>1, Zenon DEF HandlerGoes
      <3> QED BY <3>2, <3>3, AsyncAssumption, Zenon
    <2>6. CASE DispatchNow(c)
      <3>1. HandlerAt(c, "done") \/ HandlerAt(c, "now")
        BY <2>6 DEF DispatchNow
      <3> QED BY <2>1, <2>6, <3>1, Zenon DEF HandlerGoes
    <2> QED BY <1>3, <2>2, <2>3, <2>4, <2>5, <2>6 DEF HandlerStep
  <1>4. CASE ClaimNow \/ \E ok \in SendResults : SendNow(ok)
    <2>1. sched.call \in Calls
      BY <1>4 DEF ClaimNow, SendNow, TInv, Shapes
    <2>2. \/ handler' = handler
          \/ HandlerAt(sched.call, "done") /\ sched.at \in {"claim", "send"} /\ sched' = FreeSched
      BY <1>4, Zenon DEF ClaimNow, SendNow
    <2>3. CASE HandlerAt(sched.call, "done") /\ sched.at \in {"claim", "send"} /\ sched' = FreeSched
      BY <1>0, <2>1, <2>3, HandlerAtFacts, Zenon DEF HandlerGoes
    <2> QED BY <1>1, <2>2, <2>3
  <1>5. CASE (\E c \in Calls, ok \in BOOLEAN : ProbeResult(c, ok)) \/ \E o \in Operators : CancelTracked(o)
    <2>1. \E c, ok : ok \in BOOLEAN /\ WakeWaiter(c, ok)
      BY <1>5, Zenon DEF ProbeResult, CancelTracked
    <2> QED BY <1>0, <2>1, WakeFacts, Zenon DEF HandlerGoes
  <1>6. CASE Restart
    <2>1. ASSUME NEW c \in Calls
          PROVE  /\ handler'[c] \in Handlers
                 /\ \/ handler'[c] = handler[c]
                    \/ handler[c].at # "idle" /\ handler'[c].at = "done" /\ SameCall(handler[c], handler'[c])
      <3>1. handler'[c] = IF handler[c].at = "idle" THEN handler[c] ELSE [handler[c] EXCEPT !.at = "done"]
        BY <1>6 DEF Restart
      <3>2. handler[c] \in Handlers /\ "done" \in HandlerPlaces
        BY <1>0
      <3> DEFINE k == [handler[c] EXCEPT !.at = "done"]
      <3>3. k \in Handlers /\ k.at = "done" /\ SameCall(handler[c], k)
        BY <3>2, HandlerUpdates, Zenon DEF SameCall
      <3> HIDE DEF k
      <3> QED BY <3>1, <3>2, <3>3 DEF k
    <2>2. handler' = [c \in Calls |-> handler'[c]]
      BY <1>6 DEF Restart
    <2>3. handler' \in [Calls -> Handlers]
      BY <2>1, <2>2
    <2> QED BY <1>6, <2>1, <2>3, Zenon DEF HandlerGoes
  <1> QED BY <1>1, <1>2, <1>3, <1>4, <1>5, <1>6, HandlerFrame

OperatorsOK ==
    /\ operator \in [Operators -> OperatorSteps]
    /\ \A o \in Operators : operator[o].at # "idle" => operator[o].call \in Calls

\* The operator without a call
LEMMA IdleOperatorFacts == IdleOperator \in OperatorSteps /\ IdleOperator.at = "idle"
  BY Zenon DEF IdleOperator, OperatorSteps

\* OperatorAt moves one operator, who keeps the call.
LEMMA OperatorAtFacts ==
    ASSUME OperatorsOK, NEW o \in Operators, operator[o].at # "idle",
           NEW at \in OperatorPlaces, OperatorAt(o, at)
    PROVE  /\ OperatorsOK'
           /\ operator'[o].at = at
           /\ at # "idle" => operator'[o].call = operator[o].call
           /\ \A p \in Operators : p # o => operator'[p] = operator[p]
  <1> DEFINE k == [operator[o] EXCEPT !.at = at]
             n == IF at = "idle" THEN IdleOperator ELSE k
  <1>1. operator' = [operator EXCEPT ![o] = n]
    BY Zenon DEF OperatorAt
  <1>2. k \in OperatorSteps /\ k.at = at /\ k.call = operator[o].call
    BY Zenon DEF OperatorsOK, OperatorSteps, OperatorPlaces
  <1> HIDE DEF k
  <1>3. n \in OperatorSteps /\ n.at = at /\ (at # "idle" => n.call = operator[o].call)
    BY <1>2, IdleOperatorFacts
  <1> HIDE DEF n
  <1> QED BY <1>1, <1>3 DEF OperatorsOK

\* The step that starts an endpoint call
LEMMA OperatorStartFacts ==
    ASSUME OperatorsOK, NEW o \in Operators, NEW c \in Calls, NEW at \in OperatorPlaces, NEW a \in BOOLEAN,
           operator' = [operator EXCEPT ![o] = [at |-> at, call |-> c, approval |-> a]]
    PROVE  /\ OperatorsOK'
           /\ operator'[o].at = at /\ operator'[o].call = c
           /\ \A p \in Operators : p # o => operator'[p] = operator[p]
  <1> DEFINE n == [at |-> at, call |-> c, approval |-> a]
  <1>1. n \in OperatorSteps /\ n.at = at /\ n.call = c
    BY Zenon DEF OperatorSteps, OperatorPlaces
  <1> HIDE DEF n
  <1>2. operator' = [operator EXCEPT ![o] = n]
    BY DEF n
  <1> QED BY <1>1, <1>2 DEF OperatorsOK

\* One step of the system, seen by an operator: nothing, the end of the call or of the process, or
\* one step of one of the endpoints.
OperatorGoes(o) ==
    \/ operator'[o] = operator[o]
    \/ operator'[o].at = "idle"
    \/ \E c \in Calls : ApproveRead(o, c) /\ operator'[o].at = "read"
    \/ operator[o].at = "read" /\ operator'[o].at \in {"late", "approved"}
    \/ \E c \in Calls : Reject(o, c) /\ operator'[o].at = "rejected"
    \/ \E c \in Calls : Cancel(o, c) /\ operator'[o].at = "cancelled"
    \/ \E c \in Calls, d \in {"approved", "denied"} :
          /\ Decide(o, c, d) /\ operator'[o].at = "decided" /\ operator'[o].call = c
    \/ DecisionRecorded(o) /\ operator'[o].at = "send" /\ operator'[o].call = operator[o].call
    \/ operator[o].at = "send" /\ operator'[o].at = "mark" /\ operator'[o].call = operator[o].call

\* Where the approve endpoint goes on after it asked the queue
LEMMA ApproveSyncFacts ==
    ASSUME OperatorsOK, NEW o \in Operators, ApproveSync(o)
    PROVE  OperatorAt(o, "late") \/ OperatorAt(o, "approved") \/ OperatorAt(o, "idle")
  <1> DEFINE c == operator[o].call
             outcome == IF operator[o].approval THEN DecideOutcome(requests, c, "approved", o, now) ELSE "not found"
  <1>1. outcome \in {"not found", "already decided", "expired", "duplicate", "ok"}
    BY DEF DecideOutcome
  <1>2. OperatorAt(o, CASE outcome = "already decided" -> "late"
                       [] outcome \in {"ok", "not found"} -> "approved"
                       [] outcome \in {"duplicate", "expired"} -> "idle")
    BY Zenon DEF ApproveSync
  <1> HIDE DEF outcome
  <1>3. CASE outcome = "already decided" BY <1>2, <1>3, Zenon
  <1>4. CASE outcome \in {"ok", "not found"} BY <1>2, <1>4, Zenon
  <1>5. CASE outcome \in {"duplicate", "expired"} BY <1>2, <1>5
  <1> QED BY <1>1, <1>3, <1>4, <1>5, Zenon

\* Every step moves every operator as OperatorGoes says.
LEMMA OperatorsStep ==
    ASSUME TInv, [Next]_vars
    PROVE  OperatorsOK' /\ \A o \in Operators : OperatorGoes(o)
  <1> USE DEF OperatorPlaces
  <1>0. OperatorsOK /\ \A c \in Calls : jobs[c].approval \in BOOLEAN
    BY RowFields DEF TInv, TypeOK, Shapes, OperatorsOK
  <1>1. ASSUME UNCHANGED operator
        PROVE  OperatorsOK' /\ \A o \in Operators : OperatorGoes(o)
    BY <1>0, <1>1 DEF OperatorsOK, OperatorGoes
  <1>2. ASSUME NEW o \in Operators, OperatorsOK', \A p \in Operators : p # o => operator'[p] = operator[p],
               OperatorGoes(o)
        PROVE  OperatorsOK' /\ \A p \in Operators : OperatorGoes(p)
    BY <1>2 DEF OperatorGoes
  <1>3. ASSUME NEW o \in Operators, operator[o].at # "idle", OperatorAt(o, "idle")
        PROVE  OperatorsOK' /\ \A p \in Operators : OperatorGoes(p)
    BY <1>0, <1>2, <1>3, OperatorAtFacts DEF OperatorGoes
  <1>4. ASSUME NEW o \in Operators, OperatorStep(o)
        PROVE  OperatorsOK' /\ \A p \in Operators : OperatorGoes(p)
    <2>1. CASE ApproveSync(o)
      <3>1. operator[o].at = "read"
        BY <2>1, Zenon DEF ApproveSync
      <3>2. CASE OperatorAt(o, "late") \/ OperatorAt(o, "approved")
        BY <1>0, <1>2, <3>1, <3>2, OperatorAtFacts DEF OperatorGoes
      <3> QED BY <1>0, <1>3, <2>1, <3>1, <3>2, ApproveSyncFacts
    <2>2. CASE ApproveJob(o) \/ ApproveLate(o) \/ RejectSync(o) \/ ApprovedDispatch(o) \/ CancelTracked(o)
      <3>1. operator[o].at # "idle" /\ OperatorAt(o, "idle")
        BY <2>2, Zenon DEF ApproveJob, ApproveLate, RejectSync, ApprovedDispatch, CancelTracked
      <3> QED BY <1>3, <3>1
    <2>3. CASE DecisionRecorded(o)
      <3>1. operator[o].at = "decided" /\ (OperatorAt(o, "send") \/ OperatorAt(o, "idle"))
        BY <2>3, Zenon DEF DecisionRecorded
      <3>2. CASE OperatorAt(o, "send")
        BY <1>0, <1>2, <2>3, <3>1, <3>2, OperatorAtFacts DEF OperatorGoes
      <3> QED BY <1>3, <3>1, <3>2
    <2>4. ASSUME NEW ok \in SendResults, DispatchApproved(o, ok)
          PROVE  OperatorsOK' /\ \A p \in Operators : OperatorGoes(p)
      <3>1. operator[o].at = "send" /\ (OperatorAt(o, "mark") \/ OperatorAt(o, "idle"))
        BY <2>4, Zenon DEF DispatchApproved
      <3>2. CASE OperatorAt(o, "mark")
        BY <1>0, <1>2, <3>1, <3>2, OperatorAtFacts DEF OperatorGoes
      <3> QED BY <1>3, <3>1, <3>2
    <2> QED BY <1>4, <2>1, <2>2, <2>3, <2>4 DEF OperatorStep
  <1>5. ASSUME NEW o \in Operators, NEW c \in Calls,
               \/ ApproveRead(o, c) \/ Reject(o, c) \/ Cancel(o, c)
               \/ \E d \in {"approved", "denied"} : Decide(o, c, d)
        PROVE  OperatorsOK' /\ \A p \in Operators : OperatorGoes(p)
    <2>1. CASE ApproveRead(o, c)
      <3>1. operator' = [operator EXCEPT ![o] = [at |-> "read", call |-> c, approval |-> jobs[c].approval]]
        BY <2>1, Zenon DEF ApproveRead
      <3> QED BY <1>0, <1>2, <2>1, <3>1, OperatorStartFacts, Zenon DEF OperatorGoes
    <2>2. CASE Reject(o, c)
      <3>1. operator' = [operator EXCEPT ![o] = [at |-> "rejected", call |-> c, approval |-> TRUE]]
        BY <2>2, Zenon DEF Reject
      <3>2. OperatorsOK' /\ operator'[o].at = "rejected" /\ \A p \in Operators : p # o => operator'[p] = operator[p]
        BY <1>0, <3>1, OperatorStartFacts, Zenon
      <3> QED BY <1>2, <2>2, <3>2, Zenon DEF OperatorGoes
    <2>3. CASE Cancel(o, c)
      <3>1. operator' = [operator EXCEPT ![o] = [at |-> "cancelled", call |-> c, approval |-> FALSE]]
        BY <2>3, Zenon DEF Cancel
      <3>2. OperatorsOK' /\ operator'[o].at = "cancelled" /\ \A p \in Operators : p # o => operator'[p] = operator[p]
        BY <1>0, <3>1, OperatorStartFacts, Zenon
      <3> QED BY <1>2, <2>3, <3>2, Zenon DEF OperatorGoes
    <2>4. ASSUME NEW d \in {"approved", "denied"}, Decide(o, c, d)
          PROVE  OperatorsOK' /\ \A p \in Operators : OperatorGoes(p)
      <3>1. \/ operator' = operator
            \/ operator' = [operator EXCEPT ![o] = [at |-> "decided", call |-> c, approval |-> TRUE]]
        BY <2>4, Zenon DEF Decide
      <3>2. CASE operator' = [operator EXCEPT ![o] = [at |-> "decided", call |-> c, approval |-> TRUE]]
        <4>1. /\ OperatorsOK' /\ operator'[o].at = "decided" /\ operator'[o].call = c
              /\ \A p \in Operators : p # o => operator'[p] = operator[p]
          BY <1>0, <3>2, OperatorStartFacts, Zenon
        <4> QED BY <1>2, <2>4, <4>1, Zenon DEF OperatorGoes
      <3> QED BY <1>1, <3>1, <3>2
    <2> QED BY <1>5, <2>1, <2>2, <2>3, <2>4, Zenon
  <1>6. CASE Restart
    BY <1>6, IdleOperatorFacts DEF Restart, OperatorsOK, OperatorGoes
  <1> QED BY <1>1, <1>4, <1>5, <1>6, OperatorFrame

RunningOn(p) == {c \in InState(jobs, "running") : ProbeOf[c] = p}

\* The numbers of running jobs are numbers.
LEMMA CountFacts ==
    ASSUME TInv
    PROVE  /\ IsFiniteSet(InState(jobs, "running")) /\ Cardinality(InState(jobs, "running")) \in Nat
           /\ \A p : IsFiniteSet(RunningOn(p)) /\ Cardinality(RunningOn(p)) \in Nat
           /\ RunningByProbe \in [Probes -> Nat]
           /\ \A p \in Probes : RunningByProbe[p] = Cardinality(RunningOn(p))
  <1>1. InState(jobs, "running") \subseteq Present /\ IsFiniteSet(Present)
    BY DEF InState, Present, TInv, TypeOK, Shapes
  <1>2. IsFiniteSet(InState(jobs, "running"))
    BY <1>1, FS_Subset
  <1>3. \A p : IsFiniteSet(RunningOn(p))
    BY <1>2, FS_Subset DEF RunningOn
  <1>4. Cardinality(InState(jobs, "running")) \in Nat /\ \A p : Cardinality(RunningOn(p)) \in Nat
    BY <1>2, <1>3, FS_CardinalityType
  <1>5. RunningByProbe = [p \in Probes |-> Cardinality(RunningOn(p))]
    BY DEF RunningByProbe, RunningOn
  <1> QED BY <1>2, <1>3, <1>4, <1>5

SchedOK ==
    /\ sched \in Schedulers
    /\ sched.at = "drain" => sched.batch # <<>>
    /\ sched.at \in {"claim", "send"} => sched.call \in Calls

\* schedMu without a holder
LEMMA FreeSchedFacts == FreeSched \in Schedulers /\ FreeSched.at = "free"
  <1> DEFINE none == [p \in Probes |-> 0]  zero == 0
  <1>1. none \in [Probes -> Nat] /\ zero \in Nat /\ <<>> \in Seq(Calls)
    OBVIOUS
  <1>2. FreeSched = [at |-> "free", call |-> NoCall, batch |-> <<>>, total |-> zero, per |-> none]
    BY Zenon DEF FreeSched
  <1> HIDE DEF none, zero
  <1> QED BY <1>1, <1>2, Zenon DEF Schedulers

\* DispatchNow takes the counts once, when it takes schedMu.
LEMMA SchedTaken ==
    ASSUME TInv, NEW c \in Calls, DispatchNow(c), jobs[c].state = "queued"
    PROVE  /\ sched' \in Schedulers /\ sched'.at = "claim" /\ sched'.call = c
           /\ sched'.total = Cardinality(InState(jobs, "running")) /\ sched'.per = RunningByProbe
  <1> DEFINE n == Cardinality(InState(jobs, "running"))
             k == [FreeSched EXCEPT !.at = "claim", !.call = c, !.per = RunningByProbe, !.total = n]
  <1>1. sched' = k
    BY Zenon DEF DispatchNow
  <1>2. n \in Nat /\ RunningByProbe \in [Probes -> Nat]
    BY CountFacts
  <1> HIDE DEF n
  <1>3. /\ k \in Schedulers /\ k.at = "claim" /\ k.call = c /\ k.total = n /\ k.per = RunningByProbe
    BY <1>2, FreeSchedFacts, Zenon DEF Schedulers
  <1> HIDE DEF k
  <1> QED BY <1>1, <1>3 DEF n

\* So does drainQueued.
LEMMA SchedCounted ==
    ASSUME TInv, DrainCount
    PROVE  /\ sched' \in Schedulers /\ sched'.at = "list"
           /\ sched'.total = Cardinality(InState(jobs, "running")) /\ sched'.per = RunningByProbe
  <1> DEFINE n == Cardinality(InState(jobs, "running"))
             k == [FreeSched EXCEPT !.at = "list", !.per = RunningByProbe, !.total = n]
  <1>1. sched' = k
    BY Zenon DEF DrainCount
  <1>2. n \in Nat /\ RunningByProbe \in [Probes -> Nat]
    BY CountFacts
  <1> HIDE DEF n
  <1>3. /\ k \in Schedulers /\ k.at = "list" /\ k.total = n /\ k.per = RunningByProbe
    BY <1>2, FreeSchedFacts, Zenon DEF Schedulers
  <1> HIDE DEF k
  <1> QED BY <1>1, <1>3 DEF n

\* Counting a claimed job in
LEMMA CountedFacts ==
    ASSUME NEW s \in Schedulers, NEW c
    PROVE  /\ Counted(s, c) \in Schedulers
           /\ Counted(s, c).at = s.at /\ Counted(s, c).call = s.call /\ Counted(s, c).batch = s.batch
           /\ Counted(s, c).total = s.total + 1
           /\ Counted(s, c).per = [s.per EXCEPT ![ProbeOf[c]] = s.per[ProbeOf[c]] + 1]
  <1> DEFINE t == s.total + 1
             f == [s.per EXCEPT ![ProbeOf[c]] = s.per[ProbeOf[c]] + 1]
  <1>1. Counted(s, c) = [s EXCEPT !.total = t, !.per = f]
    BY DEF Counted
  <1>2. t \in Nat /\ f \in [Probes -> Nat]
    <2>1. s.total \in Nat /\ s.per \in [Probes -> Nat]
      BY Zenon DEF Schedulers
    <2>2. f \in [Probes -> Nat]
      <3> DEFINE g == s.per
      <3>1. g \in [Probes -> Nat]
        BY <2>1
      <3> HIDE DEF g
      <3>2. ASSUME NEW p PROVE [g EXCEPT ![p] = g[p] + 1] \in [Probes -> Nat]
        <4>1. CASE p \in Probes
          BY <3>1, <4>1
        <4>2. CASE p \notin Probes
          BY <3>1, <4>2, Zenon
        <4> QED BY <4>1, <4>2
      <3> QED BY <3>2 DEF g
    <2> QED BY <2>1, <2>2
  <1> HIDE DEF t, f
  <1>3. LET k == [s EXCEPT !.total = t, !.per = f] IN
        /\ k \in Schedulers /\ k.at = s.at /\ k.call = s.call /\ k.batch = s.batch /\ k.total = t /\ k.per = f
    BY <1>2, Zenon DEF Schedulers
  <1> QED BY <1>1, <1>3, Zenon DEF t, f

\* drainQueued lists queued jobs, oldest first.
LEMMA ListedFacts ==
    ASSUME TInv, DrainList, sched' # FreeSched
    PROVE  /\ sched' \in Schedulers /\ sched'.at = "drain" /\ sched'.batch # <<>>
           /\ sched'.total = sched.total /\ sched'.per = sched.per
           /\ \A i \in 1..Len(sched'.batch) : jobs[sched'.batch[i]].state = "queued"
           /\ \A i, j \in 1..Len(sched'.batch) : i < j => Older(sched'.batch[i], sched'.batch[j])
  <1> DEFINE queued == InState(jobs, "queued")
             size == IF Cardinality(queued) < FetchBatchSize THEN Cardinality(queued) ELSE FetchBatchSize
  <1>1. PICK batch \in [1..size -> queued] :
          /\ \A i, j \in 1..size : i < j => Older(batch[i], batch[j])
          /\ sched' = [sched EXCEPT !.at = "drain", !.batch = batch]
    BY Zenon  DEF DrainList
  <1>2. queued # {}
    BY Zenon DEF DrainList
  <1>3. queued \subseteq Present /\ queued \subseteq Calls /\ IsFiniteSet(Present)
    BY DEF InState, Present, TInv, TypeOK, Shapes
  <1>4. Cardinality(queued) \in Nat \ {0}
    BY <1>2, <1>3, FS_Subset, FS_CardinalityType, FS_EmptySet
  <1>5. size \in Nat \ {0}
    BY <1>4, AsyncAssumption
  <1>6. \A c \in queued : jobs[c].state = "queued"
    BY DEF InState
  <1> HIDE DEF size, queued
  <1>7. batch \in Seq(Calls) /\ Len(batch) = size /\ batch # <<>>
    BY <1>3, <1>5
  <1>8. sched \in Schedulers
    BY DEF TInv, TypeOK
  <1>9. /\ sched' \in Schedulers /\ sched'.at = "drain" /\ sched'.batch = batch
        /\ sched'.total = sched.total /\ sched'.per = sched.per
    BY <1>1, <1>7, <1>8, Zenon DEF Schedulers
  <1> QED BY <1>1, <1>6, <1>7, <1>9

\* One round of the claim loop
LEMMA DrainClaimFacts ==
    ASSUME TInv, DrainClaim
    PROVE  LET c == Head(sched.batch) IN
           /\ c \in Calls
           /\ sched' \in Schedulers
           /\ \/ sched' = FreeSched
              \/ /\ sched'.at = "drain" /\ sched'.batch = Tail(sched.batch) /\ sched'.batch # <<>>
                 /\ sched'.total = IF Claims(c) THEN sched.total + 1 ELSE sched.total
                 /\ sched'.per = IF Claims(c) THEN [sched.per EXCEPT ![ProbeOf[c]] = sched.per[ProbeOf[c]] + 1]
                                              ELSE sched.per
  <1> DEFINE c == Head(sched.batch)
             rest == IF Claims(c) THEN Counted(sched, c) ELSE sched
  <1>1. sched \in Schedulers /\ sched.at = "drain" /\ sched.batch # <<>>
    BY DEF TInv, TypeOK, Shapes, DrainClaim
  <1>2. sched.batch \in Seq(Calls)
    BY <1>1, Zenon DEF Schedulers
  <1>3. c \in Calls /\ Tail(sched.batch) \in Seq(Calls)
    BY <1>1, <1>2
  <1>4. sched' = FreeSched \/ (Tail(sched.batch) # <<>> /\ sched' = [rest EXCEPT !.batch = Tail(sched.batch)])
    BY Zenon DEF DrainClaim
  <1>5. /\ rest \in Schedulers /\ rest.at = "drain"
        /\ rest.total = IF Claims(c) THEN sched.total + 1 ELSE sched.total
        /\ rest.per = IF Claims(c) THEN [sched.per EXCEPT ![ProbeOf[c]] = sched.per[ProbeOf[c]] + 1] ELSE sched.per
    <2>1. CASE Claims(c)
      BY <1>1, <2>1, CountedFacts, Zenon
    <2>2. CASE ~Claims(c)
      BY <1>1, <2>2
    <2> QED BY <2>1, <2>2
  <1> HIDE DEF rest
  <1> DEFINE k == [rest EXCEPT !.batch = Tail(sched.batch)]
  <1>6. k \in Schedulers /\ k.at = rest.at /\ k.batch = Tail(sched.batch) /\ k.total = rest.total /\ k.per = rest.per
    BY <1>3, <1>5, Zenon DEF Schedulers
  <1> HIDE DEF k
  <1>7. sched' = FreeSched \/ (Tail(sched.batch) # <<>> /\ sched' = k)
    BY <1>4 DEF k
  <1> HIDE DEF c
  <1>8. CASE sched' = FreeSched
    BY <1>3, <1>8, FreeSchedFacts DEF c
  <1>9. CASE Tail(sched.batch) # <<>> /\ sched' = k
    BY <1>3, <1>5, <1>6, <1>9, Zenon DEF c
  <1> QED BY <1>7, <1>8, <1>9

\* DispatchNow goes on to send exactly when its claim succeeds.
LEMMA ClaimNowFacts ==
    ASSUME TInv, ClaimNow
    PROVE  /\ sched' \in Schedulers
           /\ IF Claims(sched.call) THEN sched'.at = "send" /\ sched'.call = sched.call ELSE sched' = FreeSched
  <1>1. sched \in Schedulers
    BY DEF TInv, TypeOK
  <1>2. CASE Claims(sched.call)
    <2> DEFINE r == Counted(sched, sched.call)
               k == [r EXCEPT !.at = "send"]
    <2>1. sched' = k
      BY <1>2, Zenon DEF ClaimNow
    <2>2. r \in Schedulers /\ r.call = sched.call
      BY <1>1, CountedFacts, Zenon
    <2> HIDE DEF r
    <2>3. k \in Schedulers /\ k.at = "send" /\ k.call = r.call
      BY <2>2, Zenon DEF Schedulers
    <2> HIDE DEF k
    <2> QED BY <1>2, <2>1, <2>2, <2>3
  <1>3. CASE ~Claims(sched.call)
    BY <1>3, FreeSchedFacts DEF ClaimNow
  <1> QED BY <1>2, <1>3

\* schedMu's holder always has a well-formed state.
LEMMA SchedType ==
    ASSUME TInv, [Next]_vars
    PROVE  SchedOK'
  <1>0. SchedOK
    BY DEF TInv, TypeOK, Shapes, SchedOK
  <1>1. CASE sched' = sched
    BY <1>0, <1>1 DEF SchedOK
  <1>2. CASE sched' = FreeSched
    BY <1>2, FreeSchedFacts DEF SchedOK
  <1>3. ASSUME NEW c \in Calls, DispatchNow(c)
        PROVE  SchedOK'
    <2>1. CASE jobs[c].state = "queued"
      BY <1>3, <2>1, SchedTaken DEF SchedOK
    <2>2. CASE jobs[c].state # "queued"
      BY <1>1, <1>3, <2>2 DEF DispatchNow
    <2> QED BY <2>1, <2>2
  <1>4. CASE DrainCount
    BY <1>4, SchedCounted DEF SchedOK
  <1>5. CASE DrainList
    BY <1>2, <1>5, ListedFacts DEF SchedOK
  <1>6. CASE DrainClaim
    BY <1>2, <1>6, DrainClaimFacts DEF SchedOK
  <1>7. CASE ClaimNow
    <2>1. sched.call \in Calls
      BY <1>0, <1>7 DEF SchedOK, ClaimNow
    <2> QED BY <1>2, <1>7, <2>1, ClaimNowFacts DEF SchedOK
  <1>8. CASE Restart \/ \E ok \in SendResults : SendNow(ok)
    BY <1>2, <1>8, Zenon DEF SendNow, Restart
  <1> QED BY <1>1, <1>3, <1>4, <1>5, <1>6, <1>7, <1>8, SchedFrame DEF SchedStep

CheckerOK == checker \in Checkers /\ (checker.at = "sync" => checker.call \in Calls)

\* The checker between two ticks
LEMMA IdleCheckerFacts == IdleChecker \in Checkers /\ IdleChecker.at = "idle"
  <1> DEFINE z == 0
  <1>1. z \in Nat OBVIOUS
  <1>2. IdleChecker = [at |-> "idle", left |-> {}, call |-> NoCall, approve |-> FALSE, tick |-> z]
    BY Zenon DEF IdleChecker
  <1> HIDE DEF z
  <1>3. {} \in SUBSET Calls OBVIOUS
  <1> QED BY <1>1, <1>2, <1>3, Zenon DEF Checkers

\* The checker goes on with the rest of its list, or is done.
LEMMA RemainingFacts ==
    ASSUME checker \in Checkers, NEW left \in SUBSET Calls
    PROVE  LET k == Remaining(left) IN
           /\ k \in Checkers
           /\ k = IdleChecker \/ (k.at = "jobs" /\ k.left = left /\ k.tick = checker.tick)
  <1>1. CASE left = {}
    BY <1>1, IdleCheckerFacts DEF Remaining
  <1>2. CASE left # {}
    <2> DEFINE k == [checker EXCEPT !.at = "jobs", !.left = left, !.call = NoCall, !.approve = FALSE]
    <2>1. Remaining(left) = k
      BY <1>2, Zenon DEF Remaining
    <2>2. k \in Checkers /\ k.at = "jobs" /\ k.left = left /\ k.tick = checker.tick
      BY Zenon DEF Checkers
    <2> HIDE DEF k
    <2> QED BY <2>1, <2>2
  <1> QED BY <1>1, <1>2

\* One step of the system, seen by the checker
CheckerGoes ==
    \/ checker' = checker
    \/ checker' = IdleChecker
    \/ CheckTimeouts /\ checker'.at = "jobs" /\ checker'.tick = now
          /\ checker'.left = {c \in Calls : ApprovalWindowClosed(jobs, c, now)}
    \/ checker'.at = "jobs" /\ checker'.left \subseteq checker.left /\ checker'.tick = checker.tick
    \/ \E c \in checker.left :
          /\ TimeOut(c) /\ checker'.at = "sync" /\ checker'.call = c
          /\ checker'.left = checker.left /\ checker'.tick = checker.tick
          /\ checker'.approve <=> (TimeoutBehavior = "reads_only" /\ c \in ReadOnly)
          /\ IF TimeoutBehavior = "reads_only" /\ c \in ReadOnly THEN IsWaiting(jobs, c)
                                                                ELSE TransitionSucceeds(jobs, c, "cancelled")

\* Every step moves the checker as CheckerGoes says.
LEMMA CheckerStepFacts ==
    ASSUME TInv, [Next]_vars
    PROVE  CheckerOK' /\ CheckerGoes
  <1>0. checker \in Checkers /\ now \in Nat /\ checker.left \in SUBSET Calls
    <2>1. checker \in Checkers /\ now \in Nat
      BY DEF TInv, TypeOK
    <2> QED BY <2>1, Zenon DEF Checkers
  <1>1. CASE checker' = checker
    BY <1>1 DEF TInv, TypeOK, Shapes, CheckerOK, CheckerGoes
  <1>2. CASE checker' = IdleChecker
    BY <1>2, IdleCheckerFacts DEF CheckerOK, CheckerGoes
  <1>3. ASSUME NEW c, checker' = Remaining(checker.left \ {c})
        PROVE  CheckerOK' /\ CheckerGoes
    <2> DEFINE left == checker.left \ {c}
    <2>1. left \in SUBSET Calls /\ left \subseteq checker.left
      BY <1>0
    <2> HIDE DEF left
    <2>2. checker' \in Checkers /\ (checker' = IdleChecker \/ (checker'.at = "jobs" /\ checker'.left = left /\ checker'.tick = checker.tick))
      BY <1>0, <1>3, <2>1, RemainingFacts DEF left
    <2> QED BY <1>2, <2>1, <2>2 DEF CheckerOK, CheckerGoes
  <1>4. CASE CheckTimeouts
    <2> DEFINE expired == {c \in Calls : ApprovalWindowClosed(jobs, c, now)}
               k == [IdleChecker EXCEPT !.at = "jobs", !.left = expired, !.tick = now]
    <2>1. checker' = k
      BY <1>4, Zenon DEF CheckTimeouts
    <2>2. expired \in SUBSET Calls
      OBVIOUS
    <2> HIDE DEF expired
    <2>3. k \in Checkers /\ k.at = "jobs" /\ k.left = expired /\ k.tick = now
      BY <1>0, <2>2, IdleCheckerFacts, Zenon DEF Checkers
    <2> HIDE DEF k
    <2> QED BY <1>4, <2>1, <2>3 DEF CheckerOK, CheckerGoes, expired
  <1>5. ASSUME NEW c \in Calls, Escalate(c)
        PROVE  CheckerOK' /\ CheckerGoes
    BY <1>3, <1>5 DEF Escalate
  <1>6. ASSUME NEW c \in Calls, TimeOut(c)
        PROVE  CheckerOK' /\ CheckerGoes
    <2> DEFINE approve == TimeoutBehavior = "reads_only" /\ c \in ReadOnly
               applies == IF approve THEN IsWaiting(jobs, c) ELSE TransitionSucceeds(jobs, c, "cancelled")
               k == [checker EXCEPT !.at = "sync", !.call = c, !.approve = approve]
    <2>1. /\ c \in checker.left
          /\ checker' = IF applies THEN k ELSE Remaining(checker.left \ {c})
      BY <1>6, Zenon DEF TimeOut
    <2>2. CASE applies
      <3>1. checker' = k /\ approve \in BOOLEAN
        BY <2>1, <2>2
      <3>2. IF approve THEN IsWaiting(jobs, c) ELSE TransitionSucceeds(jobs, c, "cancelled")
        BY <2>2
      <3> HIDE DEF approve, applies
      <3>3. k \in Checkers /\ k.at = "sync" /\ k.call = c /\ k.left = checker.left /\ k.tick = checker.tick /\ k.approve = approve
        BY <1>0, <3>1, Zenon DEF Checkers
      <3>4. k.approve <=> approve
        BY <3>1, <3>3, Zenon
      <3> HIDE DEF k
      <3> QED BY <1>6, <2>1, <3>1, <3>2, <3>3, <3>4, Zenon DEF CheckerOK, CheckerGoes, approve
    <2> QED BY <1>3, <2>1, <2>2
  <1>7. CASE TimeOutSync
    BY <1>3, <1>7 DEF TimeOutSync
  <1>8. CASE Restart
    BY <1>2, <1>8 DEF Restart
  <1> QED BY <1>1, <1>4, <1>5, <1>6, <1>7, <1>8, CheckerFrame DEF CheckerStep

\* The dispatch goroutines always carry calls.
LEMMA GoroutineType ==
    ASSUME TInv, [Next]_vars
    PROVE  goroutines' \subseteq Goroutines
  <1>0. goroutines \subseteq Goroutines
    BY DEF TInv, TypeOK
  <1>1. ASSUME NEW c \in Calls, NEW k \in {"drain", "approve", "timeout"},
               goroutines' = goroutines \cup {<<c, k>>} \/ goroutines' = goroutines
        PROVE  goroutines' \subseteq Goroutines
    BY <1>0, <1>1 DEF Goroutines
  <1>2. CASE DrainClaim
    <2> DEFINE c == Head(sched.batch)
    <2>1. goroutines' = goroutines \cup {<<c, "drain">>} \/ goroutines' = goroutines
      BY <1>2, Zenon DEF DrainClaim
    <2>2. c \in Calls
      BY <1>2, DrainClaimFacts
    <2> QED BY <1>1, <2>1, <2>2
  <1>3. ASSUME NEW o \in Operators, ApproveJob(o)
        PROVE  goroutines' \subseteq Goroutines
    <2>1. operator[o].call \in Calls
      BY <1>3 DEF ApproveJob, TInv, Shapes
    <2>2. goroutines' = goroutines \cup {<<operator[o].call, "approve">>} \/ goroutines' = goroutines
      BY <1>3, Zenon DEF ApproveJob
    <2> QED BY <1>1, <2>1, <2>2
  <1>4. CASE TimeOutSync
    <2>1. checker.call \in Calls
      BY <1>4 DEF TimeOutSync, TInv, Shapes
    <2>2. goroutines' = goroutines \cup {<<checker.call, "timeout">>} \/ goroutines' = goroutines
      BY <1>4, Zenon DEF TimeOutSync
    <2> QED BY <1>1, <2>1, <2>2, Zenon
  <1>5. CASE Restart \/ \E g \in Goroutines, ok \in SendResults : RunGoroutine(g, ok)
    BY <1>0, <1>5 DEF Restart, RunGoroutine
  <1> QED BY <1>0, <1>2, <1>3, <1>4, <1>5, GoroutineFrame

\* The approval queue always holds well-formed requests of calls.
LEMMA QueueType ==
    ASSUME TInv, [Next]_vars
    PROVE  IsQueue(requests', Calls)
  <1>0. /\ IsQueue(requests, Calls) /\ now \in Nat
        /\ \A o \in Operators : o \in Actors
        /\ System \in Actors /\ SecondModes \subseteq BOOLEAN
    BY AsyncAssumption DEF TInv, TypeOK, IsQueue
  <1>1. CASE requests' = requests
    BY <1>0, <1>1
  <1>2. ASSUME NEW c \in Calls, NEW a, NEW d \in {"approved", "denied"}, NEW by \in Actors,
               requests' = Synced(c, a, d, by)
        PROVE  IsQueue(requests', Calls)
    BY <1>0, <1>2, QueueOperations DEF Synced
  <1>3. ASSUME NEW o \in Operators, ApproveSync(o) \/ RejectSync(o)
        PROVE  IsQueue(requests', Calls)
    <2>1. operator[o].call \in Calls
      BY <1>3, Zenon DEF ApproveSync, RejectSync, TInv, Shapes
    <2>2. \E a, d : d \in {"approved", "denied"} /\ requests' = Synced(operator[o].call, a, d, o)
      BY <1>3, Zenon DEF ApproveSync, RejectSync
    <2> QED BY <1>0, <1>2, <2>1, <2>2
  <1>4. CASE TimeOutSync
    <2>1. checker.call \in Calls
      BY <1>4 DEF TimeOutSync, TInv, Shapes
    <2>2. \E d \in {"approved", "denied"} : requests' = Synced(checker.call, TRUE, d, System)
      BY <1>4, Zenon DEF TimeOutSync
    <2> QED BY <1>0, <1>2, <2>1, <2>2, Zenon
  <1>5. ASSUME NEW c \in Calls, NEW second \in SecondModes, SubmitApproval(c, second)
        PROVE  IsQueue(requests', Calls)
    BY <1>0, <1>5, QueueOperations DEF SubmitApproval
  <1>6. ASSUME NEW o \in Operators, NEW c \in Calls, NEW d \in {"approved", "denied"}, Decide(o, c, d)
        PROVE  IsQueue(requests', Calls)
    BY <1>0, <1>6, QueueOperations DEF Decide
  <1>7. CASE Sweep
    BY <1>0, <1>7, QueueOperations DEF Sweep
  <1>8. CASE Restart
    BY <1>8 DEF Restart, EmptyQueue, IsQueue
  <1> QED BY <1>1, <1>3, <1>4, <1>5, <1>6, <1>7, <1>8, QueueFrame

----------------------------------------------------------------------------
\* The table of jobs

Inserts(J, c, K) == J[c].state = "absent" /\ ~Saturated /\ K = [J EXCEPT ![c] = QueuedRow]

\* The handlers keep to the life cycle,
LEMMA HandlerMoves ==
    ASSUME TInv, NEW c \in Calls, HandlerStep(c)
    PROVE  Moves(jobs, jobs')
  <1> USE DEF JobStates, AsyncJobStates, TerminalStates
  <1>0. Rows(jobs) /\ handler[c].expires \in Nat
    <2>1. Rows(jobs) /\ handler[c] \in Handlers
      BY DEF TInv, TypeOK, Rows
    <2> QED BY <2>1, Zenon DEF Handlers
  <1>1. CASE Deny(c)
    BY <1>0, <1>1, TransitionByRequestMoves DEF Deny
  <1>2. ASSUME NEW second \in SecondModes, SubmitApproval(c, second)
        PROVE  Moves(jobs, jobs')
    BY <1>0, <1>2, TransitionByRequestMoves, StaysMoves DEF SubmitApproval
  <1>3. CASE MarkWaiting(c)
    BY <1>0, <1>3, MarkWaitingMoves DEF MarkWaiting
  <1>4. CASE MarkRunning(c)
    BY <1>0, <1>4, TransitionMoves, StaysMoves, Zenon DEF MarkRunning
  <1>5. ASSUME NEW ok \in SendResults, InvokeCommand(c, ok)
        PROVE  Moves(jobs, jobs')
    BY <1>0, <1>5, TransitionByRequestMoves, StaysMoves DEF InvokeCommand
  <1>6. CASE FinishWait(c)
    BY <1>0, <1>6, CompleteMoves DEF FinishWait
  <1>7. CASE DispatchNow(c)
    BY <1>0, <1>7, StaysMoves DEF DispatchNow, storeVars
  <1> QED BY <1>1, <1>2, <1>3, <1>4, <1>5, <1>6, <1>7, Zenon DEF HandlerStep

\* so do the scheduler and its goroutines,
LEMMA WorkerMoves ==
    ASSUME TInv,
           \/ SchedStep
           \/ \E g \in Goroutines, ok \in SendResults : RunGoroutine(g, ok)
    PROVE  Moves(jobs, jobs')
  <1> USE DEF JobStates, AsyncJobStates, TerminalStates
  <1>0. Rows(jobs)
    BY DEF TInv, TypeOK, Rows
  <1>1. CASE ClaimNow
    BY <1>0, <1>1, TransitionMoves, StaysMoves DEF ClaimNow
  <1>2. ASSUME NEW ok \in SendResults, SendNow(ok)
        PROVE  Moves(jobs, jobs')
    BY <1>0, <1>2, TransitionByRequestMoves, StaysMoves DEF SendNow
  <1>3. CASE DrainList
    BY <1>0, <1>3, StaysMoves, Zenon DEF DrainList, storeVars
  <1>4. CASE DrainClaim
    BY <1>0, <1>4, TransitionMoves, StaysMoves DEF DrainClaim
  <1>5. ASSUME NEW g \in Goroutines, NEW ok \in SendResults, RunGoroutine(g, ok)
        PROVE  Moves(jobs, jobs')
    BY <1>0, <1>5, TransitionMoves, StaysMoves, Zenon DEF RunGoroutine
  <1> QED BY <1>1, <1>2, <1>3, <1>4, <1>5 DEF SchedStep

\* the endpoints,
LEMMA OperatorMoves ==
    ASSUME TInv, NEW o \in Operators,
           \/ OperatorStep(o)
           \/ \E c \in Calls : \/ ApproveRead(o, c) \/ Reject(o, c) \/ Cancel(o, c)
                               \/ \E d \in {"approved", "denied"} : Decide(o, c, d)
    PROVE  Moves(jobs, jobs')
  <1> USE DEF JobStates, AsyncJobStates, TerminalStates
  <1>0. Rows(jobs)
    BY DEF TInv, TypeOK, Rows
  <1>1. CASE ApproveSync(o) \/ RejectSync(o) \/ CancelTracked(o)
             \/ \E ok \in SendResults : DispatchApproved(o, ok)
    BY <1>0, <1>1, StaysMoves, Zenon DEF ApproveSync, RejectSync, CancelTracked, DispatchApproved, storeVars
  <1>2. CASE ApproveJob(o)
    BY <1>0, <1>2, ApproveMoves, StaysMoves, Zenon DEF ApproveJob
  <1>3. CASE ApproveLate(o)
    BY <1>0, <1>3, ApproveMoves, Zenon DEF ApproveLate
  <1>4. CASE DecisionRecorded(o)
    BY <1>0, <1>4, TransitionByRequestMoves, StaysMoves, Zenon DEF DecisionRecorded
  <1>5. CASE ApprovedDispatch(o)
    BY <1>0, <1>5, TransitionByRequestMoves, Zenon DEF ApprovedDispatch
  <1>6. ASSUME NEW c \in Calls,
               ApproveRead(o, c) \/ \E d \in {"approved", "denied"} : Decide(o, c, d)
        PROVE  Moves(jobs, jobs')
    BY <1>0, <1>6, StaysMoves, Zenon DEF ApproveRead, Decide, storeVars
  <1>7. ASSUME NEW c \in Calls, Reject(o, c)
        PROVE  Moves(jobs, jobs')
    BY <1>0, <1>7, RejectMoves DEF Reject
  <1>8. ASSUME NEW c \in Calls, Cancel(o, c)
        PROVE  Moves(jobs, jobs')
    BY <1>0, <1>8, TransitionMoves DEF Cancel
  <1> QED BY <1>1, <1>2, <1>3, <1>4, <1>5, <1>6, <1>7, <1>8 DEF OperatorStep

\* and the timeout checker.
LEMMA CheckerMoves ==
    ASSUME TInv, CheckerStep
    PROVE  Moves(jobs, jobs')
  <1> USE DEF JobStates, AsyncJobStates, TerminalStates
  <1>0. Rows(jobs) /\ checker.tick + Extension \in Nat
    <2>1. Rows(jobs) /\ checker \in Checkers
      BY DEF TInv, TypeOK, Rows
    <2>2. checker.tick \in Nat
      BY <2>1, Zenon DEF Checkers
    <2> QED BY <2>1, <2>2, AsyncAssumption
  <1>1. CASE CheckTimeouts \/ TimeOutSync
    BY <1>0, <1>1, StaysMoves, Zenon DEF CheckTimeouts, TimeOutSync, storeVars
  <1>2. ASSUME NEW c \in Calls, Escalate(c)
        PROVE  Moves(jobs, jobs')
    BY <1>0, <1>2, ExtendMoves DEF Escalate
  <1>3. ASSUME NEW c \in Calls, TimeOut(c)
        PROVE  Moves(jobs, jobs')
    BY <1>0, <1>3, ApproveMoves, TransitionMoves DEF TimeOut
  <1> QED BY <1>1, <1>2, <1>3 DEF CheckerStep

\* A step inserts one job, within the limit on queued jobs, or moves jobs along the life cycle.
LEMMA StepMoves ==
    ASSUME TInv, [Next]_vars
    PROVE  Moves(jobs, jobs') \/ \E c \in Calls : Inserts(jobs, c, jobs')
  <1>0. Rows(jobs)
    BY DEF TInv, TypeOK, Rows
  <1>1. ASSUME NEW c \in Calls, NEW outcome \in Outcomes, NEW wait \in WaitModes,
               Dispatch(c, outcome, wait)
        PROVE  Moves(jobs, jobs') \/ Inserts(jobs, c, jobs')
    <2>1. jobs' = jobs \/ (~Saturated /\ ~RequestTaken(c) /\ jobs' = [jobs EXCEPT ![c] = QueuedRow])
      BY <1>1 DEF Dispatch
    <2> QED BY <1>0, <2>1, StaysMoves DEF Inserts, RequestTaken
  <1>2. CASE \E c \in Calls, ok \in BOOLEAN : ProbeResult(c, ok)
    BY <1>0, <1>2, CompleteMoves DEF ProbeResult
  <1>3. CASE Restart
    BY <1>0, <1>3, ExpireStaleMoves DEF Restart
  <1>4. CASE DrainCount \/ Sweep \/ Tick \/ UNCHANGED vars
    BY <1>0, <1>4, StaysMoves DEF DrainCount, Sweep, Tick, vars, storeVars
  <1> QED BY <1>1, <1>2, <1>3, <1>4, HandlerMoves, WorkerMoves, OperatorMoves, CheckerMoves
          DEF Next

\* The row of no job, and the row createAsyncCommandJob inserts
LEMMA NewRows ==
    /\ AbsentRow \in JobRow /\ AbsentRow.state = "absent" /\ ~AbsentRow.started
    /\ QueuedRow \in JobRow /\ QueuedRow.state = "queued" /\ ~QueuedRow.started
  <1>1. AbsentRow \in JobRow /\ AbsentRow.state = "absent" /\ ~AbsentRow.started
    BY Zenon DEF AbsentRow, JobRow
  <1>2. QueuedRow \in JobRow /\ QueuedRow.state = "queued" /\ QueuedRow.started = AbsentRow.started
    BY <1>1, Zenon DEF QueuedRow, JobRow, AsyncJobStates
  <1> QED BY <1>1, <1>2

\* The table keeps its type and stays finite.
LEMMA JobsType ==
    ASSUME TInv, [Next]_vars
    PROVE  Rows(jobs') /\ IsFiniteSet(Present')
  <1>0. Rows(jobs) /\ IsFiniteSet(Present)
    BY DEF TInv, TypeOK, Rows, Shapes
  <1>1. ASSUME NEW c \in Calls, Inserts(jobs, c, jobs')
        PROVE  Rows(jobs') /\ IsFiniteSet(Present')
    <2>1. Rows(jobs')
      BY <1>0, <1>1, NewRows DEF Inserts, Rows
    <2>2. Present' = Present \cup {c}
      BY <1>0, <1>1, NewRows DEF Inserts, Rows, Present
    <2>3. IsFiniteSet(Present \cup {c})
      BY <1>0, FS_AddElement, Zenon
    <2> QED BY <2>1, <2>2, <2>3
  <1>2. CASE Moves(jobs, jobs')
    <2>1. Present' \subseteq Present
      BY <1>2 DEF Moves, RowMoves, Present, Successors
    <2> QED BY <1>0, <1>2, <2>1, FS_Subset DEF Moves
  <1> QED BY <1>1, <1>2, StepMoves

\* Sending adds one command, to one probe.
LEMMA SendFacts ==
    ASSUME wire \in [Calls -> Nat], sent \in [Calls -> Nat], NEW c \in Calls, Send(c)
    PROVE  /\ wire' \in [Calls -> Nat] /\ sent' \in [Calls -> Nat]
           /\ wire'[c] = wire[c] + 1 /\ sent'[c] = sent[c] + 1
           /\ \A d \in Calls : d # c => wire'[d] = wire[d] /\ sent'[d] = sent[d]
  BY DEF Send

\* One step of the system, seen by the probe of a call
ProbeGoes(c) ==
    \/ wire'[c] = wire[c] /\ sent'[c] = sent[c]
    \/ /\ wire'[c] = wire[c] + 1 /\ sent'[c] = sent[c] + 1
       /\ \/ InvokeCommand(c, TRUE)
          \/ SendNow(TRUE) /\ sched.call = c
          \/ \E g \in goroutines : RunGoroutine(g, TRUE) /\ g[1] = c
          \/ \E o \in Operators : DispatchApproved(o, TRUE) /\ operator[o].call = c
    \/ /\ wire[c] > 0 /\ wire'[c] = wire[c] - 1 /\ sent'[c] = sent[c]
       /\ \E ok \in BOOLEAN : ProbeResult(c, ok)

\* Every step changes what a probe has and was sent as ProbeGoes says.
LEMMA ProbeStep ==
    ASSUME TInv, [Next]_vars
    PROVE  wire' \in [Calls -> Nat] /\ sent' \in [Calls -> Nat] /\ \A c \in Calls : ProbeGoes(c)
  <1>0. wire \in [Calls -> Nat] /\ sent \in [Calls -> Nat] /\ SendResults \subseteq BOOLEAN
    BY AsyncAssumption DEF TInv, TypeOK
  <1>1. CASE UNCHANGED <<wire, sent>>
    BY <1>0, <1>1 DEF ProbeGoes
  <1>2. ASSUME NEW c \in Calls, NEW ok \in SendResults, InvokeCommand(c, ok)
        PROVE  wire' \in [Calls -> Nat] /\ sent' \in [Calls -> Nat] /\ \A d \in Calls : ProbeGoes(d)
    <2>1. CASE ok
      <3>1. ok = TRUE /\ Send(c)
        BY <1>0, <1>2, <2>1 DEF InvokeCommand
      <3>2. InvokeCommand(c, TRUE)
        BY <1>2, <3>1, Zenon
      <3> QED BY <1>0, <3>1, <3>2, SendFacts, Zenon DEF ProbeGoes
    <2>2. CASE ~ok
      BY <1>1, <1>2, <2>2 DEF InvokeCommand, probeVars
    <2> QED BY <2>1, <2>2
  <1>3. ASSUME NEW ok \in SendResults, SendNow(ok)
        PROVE  wire' \in [Calls -> Nat] /\ sent' \in [Calls -> Nat] /\ \A d \in Calls : ProbeGoes(d)
    <2>1. sched.call \in Calls
      BY <1>3 DEF SendNow, TInv, Shapes
    <2>2. CASE ok
      <3>1. ok = TRUE /\ Send(sched.call)
        BY <1>0, <1>3, <2>2 DEF SendNow
      <3>2. SendNow(TRUE)
        BY <1>3, <3>1, Zenon
      <3> QED BY <1>0, <2>1, <3>1, <3>2, SendFacts, Zenon DEF ProbeGoes
    <2>3. CASE ~ok
      BY <1>1, <1>3, <2>3 DEF SendNow, probeVars
    <2> QED BY <2>2, <2>3
  <1>4. ASSUME NEW g \in Goroutines, NEW ok \in SendResults, RunGoroutine(g, ok)
        PROVE  wire' \in [Calls -> Nat] /\ sent' \in [Calls -> Nat] /\ \A d \in Calls : ProbeGoes(d)
    <2>1. g[1] \in Calls /\ g \in goroutines
      BY <1>4 DEF RunGoroutine, Goroutines
    <2>2. CASE ok
      <3>1. ok = TRUE /\ Send(g[1])
        BY <1>0, <1>4, <2>2 DEF RunGoroutine
      <3>2. RunGoroutine(g, TRUE)
        BY <1>4, <3>1, Zenon
      <3> QED BY <1>0, <2>1, <3>1, <3>2, SendFacts, Zenon DEF ProbeGoes
    <2>3. CASE ~ok
      BY <1>1, <1>4, <2>3 DEF RunGoroutine, probeVars
    <2> QED BY <2>2, <2>3
  <1>5. ASSUME NEW o \in Operators, NEW ok \in SendResults, DispatchApproved(o, ok)
        PROVE  wire' \in [Calls -> Nat] /\ sent' \in [Calls -> Nat] /\ \A d \in Calls : ProbeGoes(d)
    <2>1. operator[o].call \in Calls
      BY <1>5, Zenon DEF DispatchApproved, TInv, Shapes
    <2>2. CASE ok
      <3>1. ok = TRUE /\ Send(operator[o].call)
        BY <1>0, <1>5, <2>2 DEF DispatchApproved
      <3>2. DispatchApproved(o, TRUE)
        BY <1>5, <3>1, Zenon
      <3> QED BY <1>0, <2>1, <3>1, <3>2, SendFacts, Zenon DEF ProbeGoes
    <2>3. CASE ~ok
      BY <1>1, <1>5, <2>3 DEF DispatchApproved, probeVars
    <2> QED BY <2>2, <2>3
  <1>6. ASSUME NEW c \in Calls, NEW ok \in BOOLEAN, ProbeResult(c, ok)
        PROVE  wire' \in [Calls -> Nat] /\ sent' \in [Calls -> Nat] /\ \A d \in Calls : ProbeGoes(d)
    <2>1. wire[c] > 0 /\ wire' = [wire EXCEPT ![c] = wire[c] - 1] /\ sent' = sent
      BY <1>6 DEF ProbeResult
    <2>2. wire' \in [Calls -> Nat]
      BY <1>0, <2>1
    <2> QED BY <1>0, <1>6, <2>1, <2>2, Zenon DEF ProbeGoes
  <1> QED BY <1>1, <1>2, <1>3, <1>4, <1>5, <1>6, ProbeFrame, Zenon

\* Type correctness, with the shapes the other proofs need
LEMMA TypeInvariant == Spec => []TInv
  <1>1. Init => TInv
    <2> SUFFICES ASSUME Init PROVE TInv
      OBVIOUS
    <2>1. jobs \in [Calls -> JobRow] /\ Present = {}
      BY NewRows DEF Init, Present
    <2>2. handler \in [Calls -> Handlers]
      <3>1. IdleHandler \in Handlers
        BY Zenon DEF IdleHandler, Handlers, PolicyOutcomes
      <3> QED BY <3>1 DEF Init
    <2>3. operator \in [Operators -> OperatorSteps] /\ \A o \in Operators : operator[o].at = "idle"
      BY IdleOperatorFacts DEF Init
    <2>4. /\ sched \in Schedulers /\ sched.at = "free"
          /\ checker \in Checkers /\ checker.at = "idle"
      BY FreeSchedFacts, IdleCheckerFacts DEF Init
    <2>5. /\ created \in Seq(Calls) /\ goroutines \subseteq Goroutines /\ now \in 0..MaxTime
          /\ wire \in [Calls -> Nat] /\ sent \in [Calls -> Nat] /\ restarts \in 0..MaxRestarts
          /\ DOMAIN requests = {}
      BY AsyncAssumption DEF Init, EmptyQueue
    <2>6. Shapes
      BY <2>1, <2>3, <2>4, FS_EmptySet DEF Shapes
    <2> QED BY <2>1, <2>2, <2>3, <2>4, <2>5, <2>6 DEF TInv, TypeOK
  <1>2. TInv /\ [Next]_vars => TInv'
    <2> SUFFICES ASSUME TInv, [Next]_vars PROVE TInv'
      OBVIOUS
    <2>1. created' \in Seq(Calls)
      <3>1. created \in Seq(Calls)
        BY DEF TInv, TypeOK
      <3>2. ASSUME NEW c \in Calls, NEW outcome \in Outcomes, NEW wait \in WaitModes, Dispatch(c, outcome, wait)
            PROVE  created' \in Seq(Calls)
        BY <3>1, <3>2 DEF Dispatch
      <3> QED BY <3>1, <3>2, CreatedFrame
    <2>2. now' \in 0..MaxTime /\ restarts' \in 0..MaxRestarts
      BY ClockFrame, AsyncAssumption DEF TInv, TypeOK, Tick, Restart
    <2>3. Shapes'
      <3>1. IsFiniteSet(Present')
        BY JobsType
      <3>2. SchedOK' /\ CheckerOK' /\ OperatorsOK'
        BY SchedType, CheckerStepFacts, OperatorsStep
      <3> QED BY <3>1, <3>2 DEF Shapes, SchedOK, CheckerOK, OperatorsOK
    <2>4. TypeOK'
      <3>1. jobs' \in [Calls -> JobRow] /\ handler' \in [Calls -> Handlers]
        BY JobsType, HandlersStep DEF Rows
      <3>2. /\ operator' \in [Operators -> OperatorSteps] /\ sched' \in Schedulers /\ checker' \in Checkers
            /\ goroutines' \subseteq Goroutines
        BY SchedType, CheckerStepFacts, OperatorsStep, GoroutineType DEF SchedOK, CheckerOK, OperatorsOK
      <3>3. wire' \in [Calls -> Nat] /\ sent' \in [Calls -> Nat]
        BY ProbeStep
      <3>4. DOMAIN requests' \subseteq Calls /\ \A c \in DOMAIN requests' : requests'[c] \in Request
        BY QueueType DEF IsQueue
      <3> QED BY <2>1, <2>2, <3>1, <3>2, <3>3, <3>4 DEF TypeOK
    <2> QED BY <2>3, <2>4 DEF TInv
  <1> QED BY <1>1, <1>2, PTL DEF Spec

\* The table, the queue, the handlers, the scheduler, the endpoints, the checker and the probes keep
\* their types, for any calls and configuration.
THEOREM TypeCorrect == Spec => []TypeOK
  BY TypeInvariant, PTL DEF TInv
=============================================================================
