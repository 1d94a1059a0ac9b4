-------------------------- MODULE JobScheduler_proofs --------------------------
(***************************************************************************)
(* Proofs about JobScheduler, for any number of targets, dispatchers,      *)
(* executions, attempts, cancels, edits and restarts.                      *)
(*                                                                         *)
(* What the theorems need of a step is how it moves the rows (Moved) and   *)
(* how it moves the threads (Goes, Same); the lemmas bring every action    *)
(* into that form.                                                         *)
(***************************************************************************)
EXTENDS JobScheduler, TLAPS

Status(r) == runs[r].status
NewStatus(r) == runs'[r].status

\* The runs of an execution and how its last attempt ended, by the place of its thread: the
\* run of an attempt does not exist before the thread inserts it, and a thread that waits
\* for, or decides on, a new attempt has a failed one behind it.
ShapeOf(e) ==
    LET k == exec[e].attempt IN
    /\ exec[e].at = "none" => k = 1 /\ ~exec[e].queued /\ Status(<<e, k>>) = "none"
    /\ exec[e].at # "done" => \A j \in Attempts : j > k => Status(<<e, j>>) = "none"
    /\ exec[e].at \in {"admit", "timer", "check"} /\ ~exec[e].queued =>
         /\ Status(<<e, k>>) = "none"
         /\ k > 1 => Status(<<e, k - 1>>) \in {"failed", "gone"}
    /\ exec[e].at = "arm" /\ ~exec[e].queued =>
         k < MaxAttempts /\ Status(<<e, k>>) \in {"failed", "gone"}

OperatorShape ==
    /\ operator.at \in {"runs", "track"} => operator.left \subseteq RunIds
    /\ operator.at = "retries" => operator.left \subseteq Probes

IInv == TypeOK /\ OperatorShape /\ RetriesFollowFailures /\ \A e \in Executions : ShapeOf(e)

----------------------------------------------------------------------------
\* How threads and rows move

\* The fields of a thread that ShapeOf reads are as before.
Same(e) == exec'[e].at = exec[e].at /\ exec'[e].attempt = exec[e].attempt /\ exec'[e].queued = exec[e].queued

\* Only the thread of e moves.
Goes(e, place, k, q) ==
    /\ exec' \in [Executions -> Threads]
    /\ exec'[e].at = place /\ exec'[e].attempt = k /\ exec'[e].queued = q
    /\ \A x \in Executions \ {e} : Same(x)

\* A row that moves without an insert was active, or is deleted.
Moved ==
    /\ runs' \in [RunIds -> Rows]
    /\ \A r \in RunIds :
         \/ NewStatus(r) = Status(r)
         \/ Status(r) \in ActiveStatuses /\ NewStatus(r) \in Successors(Status(r))
         \/ Status(r) # "none" /\ NewStatus(r) = "gone"

\* The row r is inserted.
Inserted(r) ==
    /\ runs' \in [RunIds -> Rows]
    /\ NewStatus(r) \in {"queued", "pending", "denied"}
    /\ \A q \in RunIds \ {r} : NewStatus(q) = Status(q)

\* The run of a thread's attempt is one of the store's.
LEMMA RunInRunIds ==
    ASSUME TypeOK, NEW e \in Executions
    PROVE  Run(e) \in RunIds
  BY DEF TypeOK, Threads, Run, RunIds

LEMMA ThreadGoes ==
    ASSUME exec \in [Executions -> Threads], NEW e \in Executions, NEW t \in Threads,
           exec' = [exec EXCEPT ![e] = t]
    PROVE  Goes(e, t.at, t.attempt, t.queued)
  BY DEF Goes, Same

LEMMA AtGoes ==
    ASSUME TypeOK, NEW e \in Executions, NEW place \in Places, At(e, place)
    PROVE  Goes(e, place, exec[e].attempt, exec[e].queued)
  <1> DEFINE t == [exec[e] EXCEPT !.at = place]
  <1>1. exec \in [Executions -> Threads] BY DEF TypeOK
  <1>2. exec' = [exec EXCEPT ![e] = t] BY <1>1, Zenon DEF At
  <1>3. t \in Threads /\ t.at = place /\ t.attempt = exec[e].attempt /\ t.queued = exec[e].queued
    BY <1>1, Zenon DEF Threads
  <1> HIDE DEF t
  <1> QED BY <1>1, <1>2, <1>3, ThreadGoes, Zenon

LEMMA PreparedGoes ==
    ASSUME TypeOK, NEW e \in Executions, NEW place \in Places, Prepared(e, place)
    PROVE  Goes(e, place, exec[e].attempt, exec[e].queued)
  <1> DEFINE t == [exec[e] EXCEPT !.at = place, !.now = 0]
  <1>1. exec \in [Executions -> Threads] /\ 0 \in Nat BY DEF TypeOK
  <1>2. exec' = [exec EXCEPT ![e] = t] BY <1>1, Zenon DEF Prepared
  <1>3. t \in Threads /\ t.at = place /\ t.attempt = exec[e].attempt /\ t.queued = exec[e].queued
    BY <1>1, Zenon DEF Threads
  <1> HIDE DEF t
  <1> QED BY <1>1, <1>2, <1>3, ThreadGoes, Zenon

LEMMA NotStartedFacts ==
    /\ NotStarted \in Threads
    /\ NotStarted.attempt = 1 /\ ~NotStarted.queued /\ NotStarted.at = "none"
  <1>1. (CHOOSE p \in Probes : TRUE) \in Probes BY JobSchedulerAssumption
  <1>2. 1 \in Attempts /\ 0 \in Nat BY JobSchedulerAssumption DEF Attempts
  <1> QED BY <1>1, <1>2, Zenon DEF NotStarted, Threads, Places, NoOwner

LEMMA ReturnedFacts ==
    ASSUME TypeOK, NEW e \in Executions
    PROVE  Returned(e) \in Threads /\ Returned(e).at = "done"
  <1>1. exec[e].probe \in Probes /\ "done" \in Places BY DEF TypeOK, Threads, Places
  <1> QED BY <1>1, NotStartedFacts, Zenon DEF Returned, Threads

LEMMA ReturnedGoes ==
    ASSUME TypeOK, NEW e \in Executions, exec' = [exec EXCEPT ![e] = Returned(e)]
    PROVE  Goes(e, "done", Returned(e).attempt, Returned(e).queued)
  BY ReturnedFacts DEF Goes, Same, TypeOK

----------------------------------------------------------------------------
\* The store

\* transitionRun moves a row only along the life cycle.
LEMMA TransitionMoves ==
    ASSUME TypeOK, NEW r \in RunIds, NEW to \in RunStatuses, Transition(r, to),
           \/ Status(r) \in ActiveStatuses /\ to \in {"denied", "canceled"}
           \/ Status(r) = "queued" /\ to = "pending"
           \/ Status(r) = "pending" /\ to = "running"
           \/ Status(r) = "running" /\ to \in {"success", "failed"}
    PROVE  Moved /\ NewStatus(r) = to
  <1>1. runs \in [RunIds -> Rows] /\ runs' = [runs EXCEPT ![r].status = to]
    BY DEF TypeOK, Transition, MovedRuns
  <1>2. runs' \in [RunIds -> Rows]
    BY <1>1 DEF Rows
  <1>3. runs'[r].status = to /\ \A q \in RunIds \ {r} : runs'[q] = runs[q]
    BY <1>1 DEF Rows
  <1>4. to \in Successors(Status(r)) /\ Status(r) \in ActiveStatuses
    BY DEF Successors, ActiveStatuses
  <1> QED BY <1>2, <1>3, <1>4 DEF Moved, Status, NewStatus

LEMMA RecordInserts ==
    ASSUME TypeOK, NEW r \in RunIds, NEW t \in Nat, NEW s \in {"queued", "pending", "denied"}, Record(r, t, s)
    PROVE  Inserted(r)
  <1>1. runs \in [RunIds -> Rows] /\ runs' = [runs EXCEPT ![r] = [status |-> s, startedAt |-> t]]
    BY DEF TypeOK, Record, RecordedRuns
  <1>2. [status |-> s, startedAt |-> t] \in Rows
    BY DEF Rows, RunStatuses, ActiveStatuses, TerminalStatuses
  <1> QED BY <1>1, <1>2 DEF Inserted, Status, NewStatus

LEMMA UnchangedMoves ==
    ASSUME TypeOK, runs' = runs
    PROVE  Moved
  BY DEF TypeOK, Moved, Status, NewStatus

LEMMA DeleteMoves ==
    ASSUME TypeOK, runs' = DeletedRuns(runs)
    PROVE  Moved
  <1>1. runs \in [RunIds -> Rows] /\ [status |-> "gone", startedAt |-> 0] \in Rows
    BY DEF TypeOK, Rows, RunStatuses
  <1>2. runs' = [r \in RunIds |-> IF runs[r].status = "none" THEN runs[r]
                                 ELSE [status |-> "gone", startedAt |-> 0]]
    BY <1>1 DEF DeletedRuns
  <1>3. runs' \in [RunIds -> Rows]
    BY <1>1, <1>2
  <1> QED BY <1>2, <1>3 DEF Moved, Status, NewStatus

\* The status of the latest batch is one of the seven.
LEMMA BatchStatusType ==
    ASSUME NEW rs, NEW t
    PROVE  BatchStatus(rs, t) \in RunStatuses
  <1> DEFINE seen == {rs[r].status : r \in {q \in DOMAIN rs : rs[q].startedAt = t}}
             S == {i \in 1..7 : StatusOrder[i] \in seen \/ i = 7}
  <1>1. \E i \in S : \A j \in S : i <= j
    <2> HIDE DEF seen
    <2>1. S \subseteq 1..7 /\ 7 \in S
      OBVIOUS
    <2> HIDE DEF S
    <2> QED BY <2>1
  <1>2. Min(S) \in S
    BY <1>1, SMTT(20) DEF Min
  <1>3. \A i \in 1..7 : StatusOrder[i] \in RunStatuses
    BY DEF StatusOrder, RunStatuses, ActiveStatuses, TerminalStatuses
  <1> QED BY <1>2, <1>3 DEF BatchStatus

LEMMA UpdateJobStatusType ==
    ASSUME NEW j \in JobRows, NEW rs, NEW t
    PROVE  UpdateJobStatus(rs, j, t) \in JobRows /\ UpdateJobStatus(rs, j, t).state = j.state
  <1> DEFINE latest == Max({rs[r].startedAt : r \in DOMAIN rs})
             s == BatchStatus(rs, latest)
  <1>1. s \in RunStatuses BY BatchStatusType
  <1> HIDE DEF s
  <1>2. [j EXCEPT !.lastStatus = s] \in JobRows /\ [j EXCEPT !.lastStatus = s].state = j.state
    BY <1>1 DEF JobRows
  <1> QED BY <1>2 DEF UpdateJobStatus, s

LEMMA TransitionJob ==
    ASSUME TypeOK, NEW r, NEW to, Transition(r, to)
    PROVE  job' \in JobRows
  BY UpdateJobStatusType DEF TypeOK, Transition

LEMMA RecordJob ==
    ASSUME TypeOK, NEW r, NEW t \in Nat, NEW s \in RunStatuses, Record(r, t, s)
    PROVE  job' \in JobRows
  <1>1. job \in JobRows /\ job' = [job EXCEPT !.lastRunAt = t, !.lastStatus = s]
    BY DEF TypeOK, Record, RecordedJob
  <1> QED BY <1>1, Zenon DEF JobRows

----------------------------------------------------------------------------
\* What keeps the invariant

LEMMA FailuresKept ==
    ASSUME IInv, Moved
    PROVE  RetriesFollowFailures'
  <1> SUFFICES ASSUME NEW e \in Executions, NEW k \in Attempts \ {1}, NewStatus(<<e, k>>) # "none"
               PROVE  NewStatus(<<e, k - 1>>) \in {"failed", "gone"}
    BY DEF RetriesFollowFailures, Status, NewStatus
  <1>1. k - 1 \in Attempts
    BY JobSchedulerAssumption DEF Attempts
  <1>2. <<e, k>> \in RunIds /\ <<e, k - 1>> \in RunIds
    BY <1>1 DEF RunIds
  <1>3. Status(<<e, k>>) # "none"
    BY <1>2 DEF Moved, ActiveStatuses
  <1>4. Status(<<e, k - 1>>) \in {"failed", "gone"}
    BY <1>3 DEF IInv, RetriesFollowFailures, Status, NewStatus
  <1> QED BY <1>2, <1>4 DEF Moved, ActiveStatuses

LEMMA ShapeKept ==
    ASSUME IInv, Moved, NEW e \in Executions, Same(e)
    PROVE  ShapeOf(e)'
  <1>1. ShapeOf(e) /\ exec[e].attempt \in Attempts
    BY DEF IInv, TypeOK, Threads
  <1>2. \A j \in Attempts : <<e, j>> \in RunIds
    BY DEF RunIds
  <1>3. \A j \in Attempts :
          /\ Status(<<e, j>>) = "none" => NewStatus(<<e, j>>) = "none"
          /\ Status(<<e, j>>) \in {"failed", "gone"} => NewStatus(<<e, j>>) \in {"failed", "gone"}
    BY <1>2 DEF Moved, ActiveStatuses
  <1>4. exec[e].attempt > 1 => exec[e].attempt - 1 \in Attempts
    BY <1>1, JobSchedulerAssumption DEF Attempts
  <1> QED BY <1>1, <1>3, <1>4 DEF ShapeOf, Same, Status, NewStatus

\* A thread that goes to a place about which ShapeOf says nothing but that no later attempt
\* has a run.
Quiet == Places \ {"none", "admit", "timer", "check", "arm"}

LEMMA QuietKept ==
    ASSUME IInv, Moved, NEW e \in Executions, NEW place \in Quiet, NEW q,
           Goes(e, place, exec[e].attempt, q), exec[e].at # "done"
    PROVE  RetriesFollowFailures' /\ \A x \in Executions : ShapeOf(x)'
  <1>1. \A j \in Attempts : j > exec[e].attempt => NewStatus(<<e, j>>) = "none"
    <2> SUFFICES ASSUME NEW j \in Attempts, j > exec[e].attempt PROVE NewStatus(<<e, j>>) = "none"
      OBVIOUS
    <2>1. <<e, j>> \in RunIds /\ Status(<<e, j>>) = "none"
      BY Zenon DEF IInv, ShapeOf, RunIds
    <2> QED BY <2>1 DEF Moved, ActiveStatuses
  <1>2. ShapeOf(e)'
    BY <1>1 DEF ShapeOf, Goes, Quiet, Status, NewStatus
  <1> QED BY <1>2, ShapeKept, FailuresKept DEF Goes

LEMMA DoneKept ==
    ASSUME IInv, Moved, NEW e \in Executions, NEW k, NEW q, Goes(e, "done", k, q)
    PROVE  RetriesFollowFailures' /\ \A x \in Executions : ShapeOf(x)'
  <1>1. ShapeOf(e)'
    BY DEF ShapeOf, Goes
  <1> QED BY <1>1, ShapeKept, FailuresKept DEF Goes

\* An insert by the thread of the attempt.
LEMMA InsertKeeps ==
    ASSUME IInv, NEW e \in Executions, exec[e].at = "admit", ~exec[e].queued, Inserted(Run(e)),
           NEW place, NEW q, Goes(e, place, exec[e].attempt, q),
           place \in Quiet \/ (place = "arm" /\ q)
    PROVE  RetriesFollowFailures' /\ \A x \in Executions : ShapeOf(x)'
  <1> DEFINE k == exec[e].attempt
  <1>1. k \in Attempts /\ ShapeOf(e) /\ Run(e) = <<e, k>>
    BY DEF IInv, TypeOK, Threads, Run
  <1>2. /\ Status(<<e, k>>) = "none"
        /\ k > 1 => Status(<<e, k - 1>>) \in {"failed", "gone"}
        /\ \A j \in Attempts : j > k => Status(<<e, j>>) = "none"
    BY <1>1 DEF ShapeOf
  <1>3. \A x \in Executions, j \in Attempts : <<x, j>> # <<e, k>> => NewStatus(<<x, j>>) = Status(<<x, j>>)
    BY <1>1 DEF Inserted, RunIds
  <1> HIDE DEF k
  <1>4. \A x \in Executions \ {e} : ShapeOf(x)'
    <2> SUFFICES ASSUME NEW x \in Executions, x # e PROVE ShapeOf(x)'
      OBVIOUS
    <2>1. ShapeOf(x) /\ exec[x].attempt \in Attempts /\ Same(x)
      BY DEF IInv, TypeOK, Threads, Goes
    <2>2. \A j \in Attempts : NewStatus(<<x, j>>) = Status(<<x, j>>)
      BY <1>3
    <2>3. exec[x].attempt > 1 => exec[x].attempt - 1 \in Attempts
      BY <2>1, JobSchedulerAssumption DEF Attempts
    <2> QED BY <2>1, <2>2, <2>3 DEF ShapeOf, Same, Status, NewStatus
  <1>5. ShapeOf(e)'
    <2>1. exec'[e].attempt = k /\ exec'[e].at = place /\ exec'[e].queued = q
      BY DEF Goes, k
    <2>2. \A j \in Attempts : j > k => NewStatus(<<e, j>>) = "none"
      BY <1>1, <1>2, <1>3 DEF Attempts
    <2> QED BY <2>1, <2>2 DEF ShapeOf, Quiet, Status, NewStatus
  <1>6. RetriesFollowFailures'
    <2> SUFFICES ASSUME NEW x \in Executions, NEW j \in Attempts \ {1}, NewStatus(<<x, j>>) # "none"
                 PROVE  NewStatus(<<x, j - 1>>) \in {"failed", "gone"}
      BY DEF RetriesFollowFailures, Status, NewStatus
    <2>1. j - 1 \in Attempts /\ j - 1 # j /\ j > j - 1
      BY JobSchedulerAssumption DEF Attempts
    <2>2. CASE <<x, j>> = <<e, k>>
      <3>1. j > 1 BY JobSchedulerAssumption DEF Attempts
      <3>2. Status(<<e, k - 1>>) \in {"failed", "gone"} /\ x = e /\ j = k
        BY <1>2, <2>2, <3>1
      <3> QED BY <1>3, <2>1, <3>2
    <2>3. CASE <<x, j>> # <<e, k>>
      <3>1. Status(<<x, j>>) # "none" BY <1>3, <2>3
      <3>2. Status(<<x, j - 1>>) \in {"failed", "gone"}
        BY <3>1 DEF IInv, RetriesFollowFailures, Status, NewStatus
      <3>3. <<x, j - 1>> # <<e, k>>
        BY <1>2, <3>2
      <3> QED BY <1>3, <2>1, <3>2, <3>3
    <2> QED BY <2>2, <2>3
  <1> QED BY <1>4, <1>5, <1>6

----------------------------------------------------------------------------
\* The actions

\* The steps of a thread that touch the store and the thread only.
LEMMA ThreadInv ==
    ASSUME IInv, runs' \in [RunIds -> Rows], job' \in JobRows, exec' \in [Executions -> Threads],
           RetriesFollowFailures', \A x \in Executions : ShapeOf(x)',
           UNCHANGED <<mapVars, result, dispatcher, operator, clock, stopped, spent>>
    PROVE  IInv'
  <1>1. TypeOK' BY DEF IInv, TypeOK, mapVars
  <1>2. OperatorShape' BY DEF IInv, OperatorShape
  <1> QED BY <1>1, <1>2 DEF IInv

LEMMA AdmitInv ==
    ASSUME IInv, NEW e \in Executions, exec[e].at = "admit",
           UNCHANGED <<mapVars, result, dispatcher, operator, clock, stopped, spent>>,
           NEW place, NEW q, Goes(e, place, exec[e].attempt, q),
           \/ EnsurePendingRun(e) /\ place \in Quiet
           \/ EnsureQueuedRun(e) /\ place = "arm" /\ q
           \/ EnsureDeniedRun(e) /\ place \in Quiet
           \/ (\E from : EnsureFails(e, from)) /\ place \in Quiet
    PROVE  IInv'
  <1>0. TypeOK /\ Run(e) \in RunIds /\ exec[e].now \in Nat /\ exec' \in [Executions -> Threads]
    BY RunInRunIds DEF IInv, TypeOK, Threads, Goes
  <1>1. ASSUME NEW s \in {"pending", "queued", "denied"}, ~exec[e].queued, Record(Run(e), exec[e].now, s),
               place \in Quiet \/ (place = "arm" /\ q)
        PROVE  IInv'
    <2>1. Inserted(Run(e)) BY <1>0, <1>1, RecordInserts
    <2>2. job' \in JobRows
      BY <1>0, <1>1, RecordJob, SMTT(20) DEF RunStatuses, ActiveStatuses, TerminalStatuses
    <2> QED BY <1>0, <1>1, <2>1, <2>2, InsertKeeps, ThreadInv, Zenon DEF Inserted
  <1>2. ASSUME NEW s \in {"pending", "denied"}, Status(Run(e)) \in ActiveStatuses,
               s = "pending" => Status(Run(e)) = "queued", Transition(Run(e), s), place \in Quiet
        PROVE  IInv'
    <2>1. Moved
      BY <1>0, <1>2, TransitionMoves, SMTT(20) DEF RunStatuses, ActiveStatuses, TerminalStatuses
    <2>2. job' \in JobRows BY <1>0, <1>2, TransitionJob, SMTT(20)
    <2> QED BY <1>0, <1>2, <2>1, <2>2, QuietKept, ThreadInv, Zenon DEF Moved
  <1>3. ASSUME UNCHANGED storeVars, place \in Quiet PROVE IInv'
    <2>1. runs' = runs /\ job' = job BY <1>3, Zenon DEF storeVars
    <2>2. Moved BY <1>0, <2>1, UnchangedMoves
    <2> QED BY <1>0, <1>3, <2>1, <2>2, QuietKept, ThreadInv, Zenon DEF Moved, TypeOK
  <1>4. CASE EnsurePendingRun(e) /\ place \in Quiet
    BY <1>1, <1>2, <1>4, Zenon DEF EnsurePendingRun, CanTransition, Status, ActiveStatuses
  <1>5. CASE EnsureQueuedRun(e) /\ place = "arm" /\ q
    <2>1. CASE UNCHANGED storeVars
      <3>1. runs' = runs /\ job' = job BY <2>1 DEF storeVars
      <3>2. Moved BY <1>0, <3>1, UnchangedMoves, SMTT(20)
      <3>3. ShapeOf(e)'
        <4>1. \A j \in Attempts : j > exec[e].attempt => NewStatus(<<e, j>>) = "none"
          BY <3>1, Zenon DEF IInv, ShapeOf, Status, NewStatus
        <4> QED BY <1>5, <4>1 DEF ShapeOf, Goes, Status, NewStatus
      <3> QED BY <1>0, <3>1, <3>2, <3>3, ShapeKept, FailuresKept, ThreadInv DEF Goes, TypeOK
    <2>2. CASE ~exec[e].queued /\ Record(Run(e), exec[e].now, "queued")
      BY <1>1, <1>5, <2>2, SMTT(20)
    <2> QED BY <1>5, <2>1, <2>2, Zenon DEF EnsureQueuedRun
  <1>6. CASE EnsureDeniedRun(e) /\ place \in Quiet
    BY <1>1, <1>2, <1>6, Zenon DEF EnsureDeniedRun, CanTransition, Status, NewStatus
  <1>7. CASE (\E from : EnsureFails(e, from)) /\ place \in Quiet
    BY <1>3, <1>7 DEF EnsureFails
  <1> QED BY <1>4, <1>5, <1>6, <1>7

LEMMA AdmissionInv ==
    ASSUME IInv, NEW e \in Executions, Allow(e) \/ Defer(e) \/ Deny(e)
    PROVE  IInv'
  <1>0. TypeOK /\ "mark" \in Quiet /\ "release" \in Quiet /\ exec[e].at = "admit"
        /\ UNCHANGED <<mapVars, result, dispatcher, operator, clock, stopped, spent>>
    BY DEF IInv, Quiet, Places, Allow, Defer, Deny
  <1>1. \A place \in Quiet : Prepared(e, place) => Goes(e, place, exec[e].attempt, exec[e].queued)
    BY <1>0, PreparedGoes DEF Quiet
  <1>2. CASE Allow(e)
    BY <1>0, <1>1, <1>2, AdmitInv, Zenon DEF Allow
  <1>3. CASE Defer(e)
    <2>1. CASE EnsureQueuedRun(e) /\ exec' = [exec EXCEPT ![e].at = "arm", ![e].now = 0, ![e].queued = TRUE]
      <3>1. exec \in [Executions -> Threads] BY <1>0 DEF TypeOK
      <3>2. 0 \in Nat /\ "arm" \in Places BY DEF Places
      <3> DEFINE t == [exec[e] EXCEPT !.at = "arm", !.now = 0, !.queued = TRUE]
      <3>3. exec' = [exec EXCEPT ![e] = t]
        BY <2>1, <3>1, <3>2, Zenon
      <3>4. t \in Threads /\ t.at = "arm" /\ t.attempt = exec[e].attempt /\ t.queued = TRUE
        BY <3>1, <3>2, Zenon DEF Threads
      <3> HIDE DEF t
      <3>6. Goes(e, "arm", exec[e].attempt, TRUE)
        BY <3>1, <3>3, <3>4, ThreadGoes, Zenon
      <3> QED BY <1>0, <2>1, <3>6, AdmitInv, Zenon
    <2>2. CASE EnsureFails(e, {"queued"}) /\ Prepared(e, "release")
      BY <1>0, <1>1, <2>2, AdmitInv, Zenon
    <2> QED BY <1>3, <2>1, <2>2 DEF Defer
  <1>4. CASE Deny(e)
    BY <1>0, <1>1, <1>4, AdmitInv, Zenon DEF Deny
  <1> QED BY <1>2, <1>3, <1>4

\* What a step leaves to prove once rows and threads are known to be right.
Right ==
    /\ runs' \in [RunIds -> Rows] /\ job' \in JobRows /\ exec' \in [Executions -> Threads]
    /\ RetriesFollowFailures' /\ \A x \in Executions : ShapeOf(x)'

LEMMA StillRight ==
    ASSUME IInv, UNCHANGED storeVars, NEW e \in Executions, NEW place, NEW k, NEW q, Goes(e, place, k, q),
           \/ place \in Quiet /\ k = exec[e].attempt /\ exec[e].at # "done"
           \/ place = "done"
    PROVE  Right
  <1>1. TypeOK /\ runs' = runs /\ job' = job BY DEF IInv, storeVars
  <1>2. Moved BY <1>1, UnchangedMoves
  <1>3. RetriesFollowFailures' /\ \A x \in Executions : ShapeOf(x)'
    BY <1>2, QuietKept, DoneKept
  <1> QED BY <1>1, <1>3 DEF Right, TypeOK, Goes

LEMMA TransitionRight ==
    ASSUME IInv, NEW e \in Executions, NEW r \in RunIds, NEW to \in RunStatuses, Transition(r, to),
           \/ Status(r) \in ActiveStatuses /\ to \in {"denied", "canceled"}
           \/ Status(r) = "queued" /\ to = "pending"
           \/ Status(r) = "pending" /\ to = "running"
           \/ Status(r) = "running" /\ to \in {"success", "failed"},
           NEW place \in Quiet, NEW q, Goes(e, place, exec[e].attempt, q), exec[e].at # "done"
    PROVE  Right
  <1>1. TypeOK BY DEF IInv
  <1>2. Moved /\ job' \in JobRows BY <1>1, TransitionMoves, TransitionJob
  <1> QED BY <1>2, QuietKept DEF Right, Moved, Goes

LEMMA MarkRunRunningInv ==
    ASSUME IInv, NEW e \in Executions, MarkRunRunning(e)
    PROVE  IInv'
  <1>0. /\ TypeOK /\ {"online", "release"} \subseteq Quiet /\ exec[e].at = "mark" /\ Run(e) \in RunIds
        /\ UNCHANGED <<mapVars, result, dispatcher, operator, clock, stopped, spent>>
    BY RunInRunIds DEF IInv, Quiet, Places, MarkRunRunning
  <1>1. \A place \in Quiet : At(e, place) => Goes(e, place, exec[e].attempt, exec[e].queued)
    BY <1>0, AtGoes DEF Quiet
  <1>2. CASE CanTransition(runs, Run(e), {"pending"})
    <2>1. Transition(Run(e), "running") /\ At(e, "online") /\ Status(Run(e)) = "pending"
      BY <1>2 DEF MarkRunRunning, CanTransition, Status, NewStatus
    <2>2. Right
      BY <1>0, <1>1, <2>1, TransitionRight DEF RunStatuses, ActiveStatuses
    <2> QED BY <1>0, <2>2, ThreadInv, Zenon DEF Right
  <1>3. CASE ~CanTransition(runs, Run(e), {"pending"})
    <2>1. Right BY <1>0, <1>1, <1>3, StillRight, SMTT(20) DEF MarkRunRunning
    <2> QED BY <1>0, <2>1, ThreadInv DEF Right
  <1> QED BY <1>2, <1>3

LEMMA ProbeOfflineInv ==
    ASSUME IInv, NEW e \in Executions, ProbeOffline(e)
    PROVE  IInv'
  <1>1. exec \in [Executions -> Threads] /\ "finish" \in Places BY DEF IInv, TypeOK, Places
  <1>2. exec' = [exec EXCEPT ![e].at = "finish", ![e].ok = FALSE, ![e].registered = FALSE]
    BY DEF ProbeOffline
  <1> DEFINE t == [exec[e] EXCEPT !.at = "finish", !.ok = FALSE, !.registered = FALSE]
  <1>3. exec' = [exec EXCEPT ![e] = t]
    BY <1>1, <1>2, Zenon
  <1>4. t \in Threads /\ t.at = "finish" /\ t.attempt = exec[e].attempt /\ t.queued = exec[e].queued
    BY <1>1, Zenon DEF Threads
  <1> HIDE DEF t
  <1>6. Goes(e, "finish", exec[e].attempt, exec[e].queued)
    BY <1>1, <1>3, <1>4, ThreadGoes, Zenon
  <1>7. Right BY <1>6, StillRight DEF ProbeOffline, Quiet, Places
  <1> QED BY <1>7, ThreadInv DEF Right, ProbeOffline

LEMMA RegisterInv ==
    ASSUME IInv, NEW e \in Executions, Register(e)
    PROVE  IInv'
  <1>1. exec \in [Executions -> Threads] /\ "send" \in Places BY DEF IInv, TypeOK, Places
  <1>2. exec' = [exec EXCEPT ![e].at = "send", ![e].registered = TRUE]
    BY DEF Register
  <1> DEFINE t == [exec[e] EXCEPT !.at = "send", !.registered = TRUE]
  <1>3. exec' = [exec EXCEPT ![e] = t]
    BY <1>1, <1>2, Zenon
  <1>4. t \in Threads /\ t.at = "send" /\ t.attempt = exec[e].attempt /\ t.queued = exec[e].queued
    BY <1>1, Zenon DEF Threads
  <1> HIDE DEF t
  <1>6. Goes(e, "send", exec[e].attempt, exec[e].queued)
    BY <1>1, <1>3, <1>4, ThreadGoes, Zenon
  <1>7. Right BY <1>6, StillRight DEF Register, Quiet, Places
  <1>8. TypeOK' BY <1>7, RunInRunIds DEF Right, Register, IInv, TypeOK
  <1> QED BY <1>7, <1>8 DEF Right, Register, IInv, OperatorShape

LEMMA SendInv ==
    ASSUME IInv, NEW e \in Executions, Send(e)
    PROVE  IInv'
  <1>1. exec \in [Executions -> Threads] /\ "await" \in Places /\ "finish" \in Places
    BY DEF IInv, TypeOK, Places
  <1>2. Right
    <2>1. CASE exec' = [exec EXCEPT ![e].at = "await", ![e].owner = NoOwner]
      <3> DEFINE t == [exec[e] EXCEPT !.at = "await", !.owner = NoOwner]
      <3>1. exec' = [exec EXCEPT ![e] = t]
        BY <1>1, <2>1, Zenon
      <3>2. t \in Threads /\ t.at = "await" /\ t.attempt = exec[e].attempt /\ t.queued = exec[e].queued
        BY <1>1, Zenon DEF Threads
      <3> HIDE DEF t
      <3>4. Goes(e, "await", exec[e].attempt, exec[e].queued)
        BY <1>1, <3>1, <3>2, ThreadGoes, Zenon
      <3> QED BY <3>4, StillRight DEF Send, Quiet, Places
    <2>2. CASE exec' = [exec EXCEPT ![e].at = "finish", ![e].ok = FALSE]
      <3> DEFINE t == [exec[e] EXCEPT !.at = "finish", !.ok = FALSE]
      <3>1. exec' = [exec EXCEPT ![e] = t]
        BY <1>1, <2>2, Zenon
      <3>2. t \in Threads /\ t.at = "finish" /\ t.attempt = exec[e].attempt /\ t.queued = exec[e].queued
        BY <1>1, Zenon DEF Threads
      <3> HIDE DEF t
      <3>4. Goes(e, "finish", exec[e].attempt, exec[e].queued)
        BY <1>1, <3>1, <3>2, ThreadGoes, Zenon
      <3> QED BY <3>4, StillRight DEF Send, Quiet, Places
    <2>3. \/ exec' = [exec EXCEPT ![e].at = "await", ![e].owner = NoOwner]
          \/ exec' = [exec EXCEPT ![e].at = "finish", ![e].ok = FALSE]
      BY Zenon DEF Send
    <2> QED BY <2>1, <2>2, <2>3, Zenon
  <1>3. result' \in [Executions -> {"none", "open", "ok", "fail", "closed"}]
    <2>1. result' = result \/ result' = [result EXCEPT ![e] = "none"]
      BY Zenon DEF Send
    <2> QED BY <2>1 DEF IInv, TypeOK
  <1>4. UNCHANGED <<mapVars, dispatcher, operator, clock, stopped, spent>>
    BY Zenon DEF Send
  <1>5. TypeOK' BY <1>2, <1>3, <1>4 DEF Right, IInv, TypeOK, mapVars
  <1> QED BY <1>2, <1>4, <1>5, SMTT(20) DEF Right, IInv, OperatorShape

LEMMA AwaitRunResultInv ==
    ASSUME IInv, NEW e \in Executions, AwaitRunResult(e)
    PROVE  IInv'
  <1>1. /\ TypeOK /\ exec \in [Executions -> Threads] /\ "finish" \in Places /\ "clear" \in Quiet
        /\ exec[e].at = "await" /\ Run(e) \in RunIds
    BY RunInRunIds DEF IInv, TypeOK, Places, Quiet, AwaitRunResult
  <1>2. CASE result[e] = "closed"
    <2>1. Goes(e, "clear", exec[e].attempt, exec[e].queued)
      BY <1>1, <1>2, AtGoes DEF AwaitRunResult, Quiet
    <2>2. ASSUME CanTransition(runs, Run(e), ActiveStatuses) PROVE Right
      <3>1. Transition(Run(e), "canceled") /\ Status(Run(e)) \in ActiveStatuses
        BY <1>2, <2>2 DEF AwaitRunResult, CanTransition, Status, NewStatus
      <3> QED BY <1>1, <2>1, <3>1, TransitionRight DEF RunStatuses, TerminalStatuses
    <2>3. ASSUME ~CanTransition(runs, Run(e), ActiveStatuses) PROVE Right
      BY <1>1, <1>2, <2>1, <2>3, StillRight DEF AwaitRunResult
    <2>4. Right BY <2>2, <2>3
    <2>5. TypeOK' BY <2>4, Zenon DEF Right, AwaitRunResult, IInv, TypeOK, mapVars
    <2> QED BY <2>4, <2>5 DEF Right, AwaitRunResult, IInv, OperatorShape
  <1>3. CASE result[e] # "closed"
    <2> DEFINE ok == result[e] = "ok"
    <2>0. ok \in BOOLEAN OBVIOUS
    <2>1. exec' = [exec EXCEPT ![e].at = "finish", ![e].ok = ok]
      BY <1>3 DEF AwaitRunResult
    <2> HIDE DEF ok
    <2> DEFINE t == [exec[e] EXCEPT !.at = "finish", !.ok = ok]
    <2>2. exec' = [exec EXCEPT ![e] = t]
      BY <1>1, <2>0, <2>1, Zenon
    <2>3. t \in Threads /\ t.at = "finish" /\ t.attempt = exec[e].attempt /\ t.queued = exec[e].queued
      BY <1>1, <2>0, Zenon DEF Threads
    <2> HIDE DEF t
    <2>5. Goes(e, "finish", exec[e].attempt, exec[e].queued)
      BY <1>1, <2>2, <2>3, ThreadGoes, Zenon
    <2>6. UNCHANGED storeVars
      BY <1>3 DEF AwaitRunResult
    <2>7. Right BY <1>1, <2>5, <2>6, StillRight DEF Quiet, Places
    <2>8. TypeOK' BY <2>7, Zenon DEF Right, AwaitRunResult, IInv, TypeOK, mapVars
    <2> QED BY <2>7, <2>8 DEF Right, AwaitRunResult, IInv, OperatorShape
  <1> QED BY <1>2, <1>3

LEMMA FinishAttemptInv ==
    ASSUME IInv, NEW e \in Executions, FinishAttempt(e)
    PROVE  IInv'
  <1> DEFINE k == exec[e].attempt
             end == IF exec[e].registered THEN "clear" ELSE "release"
             place == IF RetryAllowed(e) THEN "arm" ELSE end
             s == IF exec[e].ok THEN "success" ELSE "failed"
  <1>1. /\ TypeOK /\ exec \in [Executions -> Threads] /\ end \in Quiet /\ place \in Places
        /\ exec[e].at = "finish" /\ Run(e) \in RunIds
        /\ UNCHANGED <<mapVars, result, dispatcher, operator, clock, stopped, spent>>
    BY RunInRunIds DEF IInv, TypeOK, Places, Quiet, FinishAttempt
  <1>2. CASE CanTransition(runs, Run(e), {"running"})
    <2>1. Transition(Run(e), s) /\ Status(Run(e)) = "running"
      BY <1>2 DEF FinishAttempt, CanTransition, Status, NewStatus
    <2>2. exec' = [exec EXCEPT ![e].queued = FALSE, ![e].at = place]
      BY <1>2, Zenon DEF FinishAttempt
    <2>3. s \in {"success", "failed"}
      OBVIOUS
    <2>4. RetryAllowed(e) => s = "failed" /\ k < MaxAttempts
      BY DEF RetryAllowed
    <2>5. ~RetryAllowed(e) => place \in Quiet
      BY <1>1
    <2>6. RetryAllowed(e) => place = "arm"
      OBVIOUS
    <2> HIDE DEF place, s, end
    <2> DEFINE t == [exec[e] EXCEPT !.queued = FALSE, !.at = place]
    <2>7. exec' = [exec EXCEPT ![e] = t]
      BY <1>1, <2>2, Zenon
    <2>8. t \in Threads /\ t.at = place /\ t.attempt = k /\ t.queued = FALSE
      BY <1>1, Zenon DEF Threads
    <2> HIDE DEF t
    <2>10. Goes(e, place, k, FALSE)
      BY <1>1, <2>7, <2>8, ThreadGoes, Zenon
    <2>11. CASE ~RetryAllowed(e)
      <3>1. Right
        BY <1>1, <2>1, <2>3, <2>5, <2>10, <2>11, TransitionRight, Zenon DEF RunStatuses, TerminalStatuses
      <3> QED BY <1>1, <3>1, ThreadInv DEF Right
    <2>12. CASE RetryAllowed(e)
      <3>1. Moved /\ job' \in JobRows /\ NewStatus(Run(e)) = "failed"
        BY <1>1, <2>1, <2>4, <2>12, TransitionMoves, TransitionJob DEF RunStatuses, TerminalStatuses
      <3>2. \A j \in Attempts : j > k => NewStatus(<<e, j>>) = "none"
        <4> SUFFICES ASSUME NEW j \in Attempts, j > k PROVE NewStatus(<<e, j>>) = "none"
          OBVIOUS
        <4>1. <<e, j>> \in RunIds /\ Status(<<e, j>>) = "none"
          BY <1>1, Zenon DEF IInv, ShapeOf, RunIds
        <4> QED BY <3>1, <4>1 DEF Moved, ActiveStatuses
      <3>3. NewStatus(<<e, k>>) = "failed" BY <3>1 DEF Run
      <3>4. exec'[e].at = "arm" /\ exec'[e].attempt = k /\ exec'[e].queued = FALSE
        BY <2>6, <2>10, <2>12 DEF Goes
      <3> HIDE DEF k
      <3>5. ShapeOf(e)'
        BY <2>4, <2>12, <3>2, <3>3, <3>4 DEF ShapeOf, Status, NewStatus
      <3> QED BY <1>1, <2>10, <3>1, <3>5, ShapeKept, FailuresKept, ThreadInv DEF Goes, Moved
    <2> QED BY <2>11, <2>12
  <1>3. CASE ~CanTransition(runs, Run(e), {"running"})
    <2>1. At(e, end) /\ UNCHANGED storeVars
      BY <1>3 DEF FinishAttempt
    <2> HIDE DEF end
    <2>2. Goes(e, end, exec[e].attempt, exec[e].queued)
      BY <1>1, <2>1, AtGoes DEF Quiet
    <2>3. Right BY <1>1, <2>1, <2>2, StillRight
    <2> QED BY <1>1, <2>3, ThreadInv DEF Right
  <1> QED BY <1>2, <1>3

LEMMA ArmInv ==
    ASSUME IInv, NEW e \in Executions, Arm(e)
    PROVE  IInv'
  <1> DEFINE p == exec[e].probe
             before == pendingRetry[p]
             k == IF exec[e].queued THEN exec[e].attempt ELSE exec[e].attempt + 1
             armed == [exec EXCEPT ![e].at = "timer", ![e].owner = NoOwner, ![e].cancelled = FALSE,
                                   ![e].registered = FALSE, ![e].attempt = k]
  <1>1. /\ TypeOK /\ exec \in [Executions -> Threads] /\ exec[e].attempt \in Attempts /\ ShapeOf(e)
        /\ exec[e].at = "arm" /\ p \in Probes
    BY SMTT(20) DEF IInv, TypeOK, Threads, Arm
  <1>2. k \in Attempts
    BY <1>1, JobSchedulerAssumption DEF ShapeOf, Attempts
  <1>3. /\ exec' = IF before \in Executions \ {e} THEN [armed EXCEPT ![before].cancelled = TRUE] ELSE armed
        /\ pendingRetry' = [pendingRetry EXCEPT ![p] = e]
        /\ inFlight' = inFlight \ {Run(e)}
        /\ UNCHANGED <<storeVars, activeTargets, result, dispatcher, operator, clock, stopped, spent>>
    BY Zenon DEF Arm
  <1>4. /\ exec[e].queued => k = exec[e].attempt
        /\ ~exec[e].queued => /\ k = exec[e].attempt + 1
                              /\ Status(<<e, k - 1>>) \in {"failed", "gone"}
                              /\ Status(<<e, k>>) = "none"
        /\ \A j \in Attempts : j > k => Status(<<e, j>>) = "none"
    BY <1>1, <1>2 DEF ShapeOf, Attempts
  <1> HIDE DEF k, p
  <1>5. "timer" \in Places BY DEF Places
  <1>6. PICK t \in Threads :
          armed = [exec EXCEPT ![e] = t] /\ t.at = "timer" /\ t.attempt = k /\ t.queued = exec[e].queued
    <2> DEFINE u == [exec[e] EXCEPT !.at = "timer", !.owner = NoOwner, !.cancelled = FALSE,
                                    !.registered = FALSE, !.attempt = k]
    <2>1. exec[e] \in Threads BY <1>1
    <2>2. u \in Threads
      BY <1>2, <1>5, <2>1, Zenon DEF Threads
    <2>3. u.at = "timer" /\ u.attempt = k /\ u.queued = exec[e].queued
      BY <2>1, Zenon DEF Threads
    <2>4. armed = [exec EXCEPT ![e] = u]
      BY <1>1, Zenon
    <2> HIDE DEF u
    <2> QED BY <2>2, <2>3, <2>4, Zenon
  <1>7. armed \in [Executions -> Threads] /\ armed[e] = t /\ \A x \in Executions \ {e} : armed[x] = exec[x]
    BY <1>1, <1>6
  <1> HIDE DEF armed, before
  <1>9. Goes(e, "timer", k, exec[e].queued)
    <2>1. CASE before \in Executions \ {e}
      <3>1. exec' = [armed EXCEPT ![before].cancelled = TRUE] BY <1>3, <2>1
      <3>2. armed[before] \in Threads BY <1>7, <2>1
      <3> DEFINE c == [armed[before] EXCEPT !.cancelled = TRUE]
      <3>3. /\ c \in Threads /\ c.at = armed[before].at /\ c.attempt = armed[before].attempt
            /\ c.queued = armed[before].queued
        BY <3>2, Zenon DEF Threads
      <3>4. exec' = [armed EXCEPT ![before] = c] BY <1>7, <2>1, <3>1, Zenon
      <3> HIDE DEF c
      <3>5. exec' \in [Executions -> Threads] /\ \A x \in Executions : exec'[x] = IF x = before THEN c ELSE armed[x]
        BY <1>7, <2>1, <3>3, <3>4
      <3> QED BY <1>6, <1>7, <2>1, <3>3, <3>5 DEF Goes, Same
    <2>2. CASE before \notin Executions \ {e}
      <3>1. exec' = armed BY <1>3, <2>2
      <3> QED BY <1>6, <1>7, <3>1 DEF Goes, Same
    <2> QED BY <2>1, <2>2
  <1>10. Right
    <2>1. runs' = runs /\ job' = job BY <1>3 DEF storeVars
    <2>2. Moved BY <1>1, <2>1, UnchangedMoves
    <2>3. ShapeOf(e)'
      BY <1>4, <1>9, <2>1, Zenon DEF ShapeOf, Goes, Status
    <2> QED BY <1>1, <1>9, <2>1, <2>2, <2>3, ShapeKept, FailuresKept DEF Right, Goes, TypeOK
  <1>11. TypeOK'
    BY <1>1, <1>3, <1>10 DEF TypeOK, Right
  <1> QED BY <1>3, <1>10, <1>11 DEF Right, IInv, OperatorShape

\* A thread that waits, or is about to be admitted, goes to another such place.
LEMMA WaitRight ==
    ASSUME IInv, UNCHANGED storeVars, NEW e \in Executions, NEW place \in {"admit", "timer", "check"},
           exec[e].at \in {"admit", "timer", "check"}, Goes(e, place, exec[e].attempt, exec[e].queued)
    PROVE  Right
  <1>1. TypeOK /\ runs' = runs /\ job' = job BY DEF IInv, storeVars
  <1>2. Moved BY <1>1, UnchangedMoves
  <1>3. ShapeOf(e)'
    BY <1>1, Zenon DEF IInv, ShapeOf, Goes, Status
  <1> QED BY <1>1, <1>2, <1>3, ShapeKept, FailuresKept DEF Right, Goes, TypeOK

LEMMA TimerFiresInv ==
    ASSUME IInv, NEW e \in Executions, TimerFires(e)
    PROVE  IInv'
  <1>1. TypeOK /\ "check" \in Places /\ exec[e].probe \in Probes BY DEF IInv, TypeOK, Threads, Places
  <1>2. Goes(e, "check", exec[e].attempt, exec[e].queued) BY <1>1, AtGoes, Zenon DEF TimerFires
  <1>3. Right BY <1>2, WaitRight, Zenon DEF TimerFires
  <1>4. TypeOK' BY <1>1, <1>3 DEF TypeOK, Right, TimerFires
  <1> QED BY <1>3, <1>4, Zenon DEF Right, IInv, OperatorShape, TimerFires

LEMMA TimerCancelledInv ==
    ASSUME IInv, NEW e \in Executions, TimerCancelled(e)
    PROVE  IInv'
  <1>1. TypeOK /\ exec' = [exec EXCEPT ![e] = Returned(e)] BY DEF IInv, TimerCancelled
  <1>2. Right BY <1>1, ReturnedGoes, StillRight, Zenon DEF TimerCancelled
  <1> QED BY <1>2, ThreadInv DEF Right, TimerCancelled

LEMMA CheckJobInv ==
    ASSUME IInv, NEW e \in Executions, CheckJob(e)
    PROVE  IInv'
  <1>1. /\ TypeOK /\ exec \in [Executions -> Threads] /\ clock \in Nat /\ clock + 1 \in Nat
        /\ "admit" \in Places /\ "release" \in Quiet /\ exec[e].at = "check"
        /\ UNCHANGED <<storeVars, mapVars, result, dispatcher, operator, stopped, spent>>
    BY DEF IInv, TypeOK, Places, Quiet, CheckJob
  <1>2. ASSUME exec' = [exec EXCEPT ![e].at = "admit", ![e].now = clock + 1] PROVE Right
    <2> DEFINE t == [exec[e] EXCEPT !.at = "admit", !.now = clock + 1]
    <2>1. exec' = [exec EXCEPT ![e] = t]
      BY <1>1, <1>2, Zenon
    <2>2. t \in Threads /\ t.at = "admit" /\ t.attempt = exec[e].attempt /\ t.queued = exec[e].queued
      BY <1>1, Zenon DEF Threads
    <2> HIDE DEF t
    <2>4. Goes(e, "admit", exec[e].attempt, exec[e].queued)
      BY <1>1, <2>1, <2>2, ThreadGoes, Zenon
    <2> QED BY <1>1, <2>4, WaitRight
  <1>3. ASSUME At(e, "admit") PROVE Right
    BY <1>1, <1>3, AtGoes, WaitRight
  <1>4. ASSUME At(e, "release") PROVE Right
    BY <1>1, <1>4, AtGoes, StillRight DEF Quiet
  <1>5. Right
    BY <1>2, <1>3, <1>4, Zenon DEF CheckJob
  <1>6. clock' = clock \/ clock' = clock + 1
    BY Zenon DEF CheckJob
  <1>7. TypeOK' BY <1>1, <1>5, <1>6 DEF TypeOK, Right, mapVars
  <1> QED BY <1>1, <1>5, <1>7, Zenon DEF Right, IInv, OperatorShape

LEMMA ReleaseInv ==
    ASSUME IInv, NEW e \in Executions, ClearInFlight(e) \/ ReleaseTarget(e)
    PROVE  IInv'
  <1>1. TypeOK /\ exec' = [exec EXCEPT ![e] = Returned(e)] /\ UNCHANGED storeVars
    BY DEF IInv, ClearInFlight, ReleaseTarget
  <1>2. Right BY <1>1, ReturnedGoes, StillRight, Zenon
  <1>3. /\ activeTargets' \subseteq activeTargets /\ inFlight' \subseteq inFlight
        /\ UNCHANGED <<pendingRetry, result, dispatcher, operator, clock, stopped, spent>>
    BY DEF ClearInFlight, ReleaseTarget
  <1>4. TypeOK' BY <1>1, <1>2, <1>3 DEF TypeOK, Right
  <1> QED BY <1>2, <1>3, <1>4, Zenon DEF Right, IInv, OperatorShape

LEMMA SameRight ==
    ASSUME IInv, Moved, job' \in JobRows, exec' \in [Executions -> Threads], \A x \in Executions : Same(x)
    PROVE  Right
  BY ShapeKept, FailuresKept DEF Right, Moved

LEMMA StutterRight ==
    ASSUME IInv, UNCHANGED <<storeVars, exec>>
    PROVE  Right
  <1>1. TypeOK /\ runs' = runs /\ job' = job /\ exec' = exec BY DEF IInv, storeVars
  <1>2. Moved BY <1>1, UnchangedMoves
  <1> QED BY <1>1, <1>2, SameRight DEF Same, TypeOK

\* resolveTargets returns a list of probes.
LEMMA OrderOfTargets == TargetOrder \in Seq(Probes)
  BY JobSchedulerAssumption DEF TargetOrder

LEMMA DispatchInv ==
    ASSUME IInv, NEW d, DispatchJob(d)
    PROVE  IInv'
  <1>1. TypeOK /\ Right BY StutterRight DEF IInv, DispatchJob
  <1>2. [left |-> TargetOrder, now |-> clock + 1] \in Rounds /\ clock + 1 \in Nat
    BY <1>1, OrderOfTargets DEF TypeOK, Rounds
  <1>3. dispatcher' \in [Dispatchers -> Rounds] /\ clock' \in Nat
    BY <1>1, <1>2, Zenon DEF TypeOK, DispatchJob
  <1>4. TypeOK' BY <1>1, <1>3 DEF TypeOK, Right, DispatchJob, mapVars
  <1> QED BY <1>1, <1>4, Zenon DEF Right, IInv, OperatorShape, DispatchJob

LEMMA ClaimTargetInv ==
    ASSUME IInv, NEW d \in Dispatchers, ClaimTarget(d)
    PROVE  IInv'
  <1> DEFINE p == Head(dispatcher[d].left)
             e == CHOOSE x \in Free : TRUE
             rest == IF Tail(dispatcher[d].left) = <<>> THEN NoRound
                     ELSE [dispatcher[d] EXCEPT !.left = Tail(dispatcher[d].left)]
             t == [NotStarted EXCEPT !.at = "admit", !.probe = p, !.owner = d, !.now = dispatcher[d].now]
  <1>1. /\ TypeOK /\ dispatcher \in [Dispatchers -> Rounds] /\ dispatcher[d] \in Rounds
        /\ dispatcher[d].left \in Seq(Probes) /\ dispatcher[d].left # <<>> /\ dispatcher[d].now \in Nat
    BY DEF IInv, TypeOK, Rounds, ClaimTarget
  <1>2. p \in Probes BY <1>1
  <1>3. dispatcher' \in [Dispatchers -> Rounds]
    <2>1. Tail(dispatcher[d].left) \in Seq(Probes) BY <1>1
    <2>2. rest \in Rounds
      <3>1. NoRound \in Rounds BY DEF NoRound, Rounds
      <3>2. [dispatcher[d] EXCEPT !.left = Tail(dispatcher[d].left)] \in Rounds
        BY <1>1, <2>1, Zenon DEF Rounds
      <3> QED BY <3>1, <3>2
    <2>3. dispatcher' = [dispatcher EXCEPT ![d] = rest]
      BY DEF ClaimTarget
    <2> HIDE DEF rest
    <2> QED BY <1>1, <2>2, <2>3
  <1>4. CASE UNCHANGED <<activeTargets, exec>>
    <2>1. Right BY <1>4, StutterRight DEF ClaimTarget
    <2>2. TypeOK' BY <1>1, <1>3, <1>4, <2>1 DEF TypeOK, Right, ClaimTarget
    <2> QED BY <2>1, <2>2 DEF Right, IInv, OperatorShape, ClaimTarget
  <1>5. CASE /\ Free # {} /\ activeTargets' = activeTargets \cup {p}
             /\ exec' = [exec EXCEPT ![e] = t]
    <2>1. \E x \in Executions : exec[x].at = "none" /\ exec' = [exec EXCEPT ![x] = t]
      <3>1. e \in Free BY <1>5
      <3> QED BY <1>5, <3>1, Zenon DEF Free
    <2>2. PICK x \in Executions : exec[x].at = "none" /\ exec' = [exec EXCEPT ![x] = t]
      BY <2>1, Zenon
    <2>3. t \in Threads /\ t.at = "admit" /\ t.attempt = 1 /\ t.queued = FALSE
      <3>1. "admit" \in Places BY DEF Places
      <3>2. NotStarted.queued = FALSE BY DEF NotStarted
      <3> HIDE DEF p
      <3> QED BY <1>1, <1>2, <3>1, <3>2, NotStartedFacts, Zenon DEF Threads
    <2> HIDE DEF t, e
    <2>4. Goes(x, "admit", 1, FALSE)
      BY <1>1, <2>2, <2>3, Zenon DEF Goes, Same, TypeOK
    <2>5. runs' = runs /\ job' = job BY DEF ClaimTarget, storeVars
    <2>6. Moved BY <1>1, <2>5, UnchangedMoves
    <2>7. ShapeOf(x)'
      <3>1. exec[x].attempt = 1 /\ Status(<<x, 1>>) = "none"
        BY <2>2, Zenon DEF IInv, ShapeOf
      <3>2. \A j \in Attempts : j > 1 => Status(<<x, j>>) = "none"
        BY <2>2, <3>1, Zenon DEF IInv, ShapeOf
      <3> QED BY <2>4, <2>5, <3>1, <3>2, SMTT(30) DEF ShapeOf, Goes, Status
    <2>8. Right
      BY <1>1, <2>2, <2>4, <2>5, <2>6, <2>7, ShapeKept, FailuresKept, Zenon DEF Right, Goes, TypeOK
    <2>9. TypeOK' BY <1>1, <1>2, <1>3, <1>5, <2>8 DEF TypeOK, Right, ClaimTarget
    <2> QED BY <2>8, <2>9 DEF Right, IInv, OperatorShape, ClaimTarget
  <1> QED BY <1>4, <1>5 DEF ClaimTarget

LEMMA CommandResultInv ==
    ASSUME IInv, NEW e \in Executions, CommandResult(e)
    PROVE  IInv'
  <1>1. TypeOK /\ Right BY StutterRight DEF IInv, CommandResult
  <1>2. result' \in [Executions -> {"none", "open", "ok", "fail", "closed"}]
    BY <1>1 DEF TypeOK, CommandResult
  <1>3. TypeOK' BY <1>1, <1>2 DEF TypeOK, Right, CommandResult, mapVars
  <1> QED BY <1>1, <1>3 DEF Right, IInv, OperatorShape, CommandResult

----------------------------------------------------------------------------
\* The cancel endpoints, edits, Stop and restarts

LEMMA SpendType ==
    ASSUME TypeOK, NEW what \in Events, Spend(what)
    PROVE  spent' \in [Events -> Nat]
  BY DEF TypeOK, Spend

LEMMA IdleType == Idle \in Cancels /\ Idle.at = "idle"
  <1>1. <<1, 1>> \in RunIds
    BY JobSchedulerAssumption DEF RunIds, Executions, Attempts
  <1> QED BY <1>1, Zenon DEF Idle, Cancels

\* What the steps of a cancel request leave alone, apart from the store and the threads.
LEMMA OperatorInv ==
    ASSUME IInv, Right, operator' \in Cancels, OperatorShape', spent' \in [Events -> Nat],
           UNCHANGED <<inFlight, dispatcher, clock, stopped>>, activeTargets' \subseteq activeTargets,
           pendingRetry' \in [Probes -> Executions \cup {0}],
           result' \in [Executions -> {"none", "open", "ok", "fail", "closed"}]
    PROVE  IInv'
  <1>1. TypeOK' BY DEF IInv, TypeOK, Right
  <1> QED BY <1>1 DEF IInv, Right

LEMMA CancelJobInv ==
    ASSUME IInv, CancelJob
    PROVE  IInv'
  <1> DEFINE L == ListActiveRunsByJob(runs)
  <1>1. TypeOK /\ Right BY StutterRight DEF IInv, CancelJob
  <1>2. L \subseteq RunIds BY <1>1 DEF TypeOK, ListActiveRunsByJob
  <1>3. operator' = [Idle EXCEPT !.at = "runs", !.left = L, !.all = TRUE]
    BY DEF CancelJob
  <1> HIDE DEF L
  <1>4. L \in SUBSET (RunIds \cup Probes) BY <1>2
  <1>5. operator' \in Cancels /\ operator'.at = "runs" /\ operator'.left = L
    BY <1>3, <1>4, IdleType, Zenon DEF Cancels
  <1>6. OperatorShape' BY <1>2, <1>5, SMTT(20) DEF OperatorShape
  <1>7. spent' \in [Events -> Nat] BY <1>1, SpendType DEF CancelJob, Events
  <1> QED BY <1>1, <1>5, <1>6, <1>7, OperatorInv DEF CancelJob, mapVars, IInv, TypeOK

LEMMA CanceledRight ==
    ASSUME IInv, NEW r \in RunIds, CanTransition(runs, r, ActiveStatuses), Transition(r, "canceled"), exec' = exec
    PROVE  Right
  <1>1. TypeOK /\ Status(r) \in ActiveStatuses BY DEF IInv, CanTransition, Status
  <1>2. Moved /\ job' \in JobRows
    BY <1>1, TransitionMoves, TransitionJob DEF RunStatuses, TerminalStatuses
  <1> QED BY <1>1, <1>2, SameRight DEF Same, TypeOK

LEMMA CancelRunInv ==
    ASSUME IInv, NEW r \in RunIds, CancelRun(r)
    PROVE  IInv'
  <1>1. TypeOK /\ Right BY CanceledRight DEF IInv, CancelRun
  <1>2. operator' = [Idle EXCEPT !.at = "track", !.run = r]
    BY DEF CancelRun
  <1>3. operator' \in Cancels /\ operator'.at = "track" /\ operator'.left = {}
    BY <1>2, IdleType, Zenon DEF Cancels, Idle
  <1>4. OperatorShape' BY <1>3 DEF OperatorShape
  <1>5. spent' \in [Events -> Nat] BY <1>1, SpendType DEF CancelRun, Events
  <1> QED BY <1>1, <1>3, <1>4, <1>5, OperatorInv DEF CancelRun, mapVars, IInv, TypeOK

LEMMA CancelNextRunInv ==
    ASSUME IInv, CancelNextRun
    PROVE  IInv'
  <1>1. TypeOK /\ operator \in Cancels /\ operator.at = "runs" /\ operator.left \subseteq RunIds
    BY DEF IInv, TypeOK, OperatorShape, CancelNextRun
  <1>2. PICK r \in operator.left :
          IF CanTransition(runs, r, ActiveStatuses)
          THEN /\ Transition(r, "canceled")
               /\ operator' = [operator EXCEPT !.at = "track", !.run = r, !.left = @ \ {r}]
          ELSE /\ operator' = [operator EXCEPT !.left = @ \ {r}]
               /\ UNCHANGED storeVars
    BY Zenon DEF CancelNextRun
  <1>3. r \in RunIds BY <1>1, <1>2
  <1>4. operator.left \ {r} \in SUBSET (RunIds \cup Probes) /\ operator.left \ {r} \subseteq RunIds
    BY <1>1
  <1>5. UNCHANGED <<mapVars, exec, result, dispatcher, clock, stopped, spent>>
    BY DEF CancelNextRun
  <1>6. CASE CanTransition(runs, r, ActiveStatuses)
    <2>1. operator' = [operator EXCEPT !.at = "track", !.run = r, !.left = operator.left \ {r}]
      BY <1>2, <1>6
    <2>2. operator' \in Cancels
      BY <1>1, <1>3, <1>4, <2>1, Zenon DEF Cancels
    <2>3. operator'.at = "track" /\ operator'.left = operator.left \ {r}
      BY <1>1, <2>1, Zenon DEF Cancels
    <2>4. OperatorShape' BY <1>4, <2>3 DEF OperatorShape
    <2>5. Right BY <1>2, <1>3, <1>5, <1>6, CanceledRight
    <2> QED BY <1>1, <1>5, <2>2, <2>4, <2>5, OperatorInv, Zenon DEF mapVars, TypeOK
  <1>7. CASE ~CanTransition(runs, r, ActiveStatuses)
    <2>1. operator' = [operator EXCEPT !.left = operator.left \ {r}] /\ UNCHANGED storeVars
      BY <1>2, <1>7
    <2>2. operator' \in Cancels
      BY <1>1, <1>4, <2>1, Zenon DEF Cancels
    <2>3. operator'.at = operator.at /\ operator'.left = operator.left \ {r}
      BY <1>1, <2>1, Zenon DEF Cancels
    <2>4. OperatorShape' BY <1>1, <1>4, <2>3 DEF OperatorShape
    <2>5. Right BY <1>5, <2>1, StutterRight
    <2> QED BY <1>1, <1>5, <2>2, <2>4, <2>5, OperatorInv, Zenon DEF mapVars, TypeOK
  <1> QED BY <1>6, <1>7

LEMMA CancelTrackedInv ==
    ASSUME IInv, CancelTracked
    PROVE  IInv'
  <1> DEFINE e == operator.run[1]
  <1>1. TypeOK /\ operator \in Cancels /\ operator.at = "track" /\ operator.left \subseteq RunIds
    BY DEF IInv, TypeOK, OperatorShape, CancelTracked
  <1>2. e \in Executions /\ exec[e].probe \in Probes
    BY <1>1 DEF TypeOK, Cancels, RunIds, Threads
  <1>3. result' \in [Executions -> {"none", "open", "ok", "fail", "closed"}]
    BY <1>1, <1>2 DEF TypeOK, CancelTracked
  <1>4. Right BY StutterRight DEF CancelTracked
  <1>5. operator' = IF operator.all THEN [operator EXCEPT !.at = "runs"]
                    ELSE [operator EXCEPT !.at = "retries", !.left = {exec[e].probe}]
    BY DEF CancelTracked
  <1>6. {exec[e].probe} \in SUBSET (RunIds \cup Probes) /\ {exec[e].probe} \subseteq Probes BY <1>2
  <1> HIDE DEF e
  <1>7. operator' \in Cancels /\ OperatorShape'
    <2>1. CASE operator.all
      <3>1. operator' = [operator EXCEPT !.at = "runs"] BY <1>5, <2>1
      <3>2. operator' \in Cancels BY <1>1, <3>1, Zenon DEF Cancels
      <3>3. operator'.at = "runs" /\ operator'.left = operator.left BY <1>1, <3>1, Zenon DEF Cancels
      <3> QED BY <1>1, <3>2, <3>3 DEF OperatorShape
    <2>2. CASE ~operator.all
      <3>1. operator' = [operator EXCEPT !.at = "retries", !.left = {exec[e].probe}] BY <1>5, <2>2
      <3>2. operator' \in Cancels BY <1>1, <1>6, <3>1, Zenon DEF Cancels
      <3>3. operator'.at = "retries" /\ operator'.left = {exec[e].probe}
        BY <1>1, <3>1, Zenon DEF Cancels
      <3> QED BY <1>6, <3>2, <3>3 DEF OperatorShape
    <2> QED BY <2>1, <2>2
  <1> QED BY <1>1, <1>3, <1>4, <1>7, OperatorInv DEF CancelTracked, mapVars, TypeOK

LEMMA CollectRetriesInv ==
    ASSUME IInv, CollectRetries
    PROVE  IInv'
  <1> DEFINE L == {p \in Probes : pendingRetry[p] # 0}
  <1>1. TypeOK /\ operator \in Cancels BY DEF IInv, TypeOK
  <1>2. L \in SUBSET (RunIds \cup Probes) /\ L \subseteq Probes OBVIOUS
  <1>3. operator' = [operator EXCEPT !.at = "retries", !.left = L] BY DEF CollectRetries
  <1> HIDE DEF L
  <1>4. operator' \in Cancels BY <1>1, <1>2, <1>3, Zenon DEF Cancels
  <1>5. operator'.at = "retries" /\ operator'.left = L BY <1>1, <1>3, Zenon DEF Cancels
  <1>6. OperatorShape' BY <1>2, <1>5 DEF OperatorShape
  <1>7. Right BY StutterRight DEF CollectRetries
  <1> QED BY <1>1, <1>4, <1>6, <1>7, OperatorInv DEF CollectRetries, mapVars, TypeOK

LEMMA CancelScheduledRetryInv ==
    ASSUME IInv, CancelScheduledRetry
    PROVE  IInv'
  <1>1. TypeOK /\ operator \in Cancels /\ operator.at = "retries" /\ operator.left \subseteq Probes
    BY DEF IInv, TypeOK, OperatorShape, CancelScheduledRetry
  <1>2. PICK p \in operator.left :
          /\ operator' = [operator EXCEPT !.left = @ \ {p}]
          /\ IF pendingRetry[p] = 0
             THEN UNCHANGED <<pendingRetry, activeTargets, exec>>
             ELSE /\ pendingRetry' = [pendingRetry EXCEPT ![p] = 0]
                  /\ activeTargets' = activeTargets \ {p}
                  /\ exec' = [exec EXCEPT ![pendingRetry[p]].cancelled = TRUE]
    BY Zenon DEF CancelScheduledRetry
  <1>3. UNCHANGED <<storeVars, inFlight, result, dispatcher, clock, stopped, spent>>
    BY DEF CancelScheduledRetry
  <1>4. operator' \in Cancels /\ OperatorShape'
    <2>1. operator.left \ {p} \in SUBSET (RunIds \cup Probes) /\ operator.left \ {p} \subseteq Probes
      BY <1>1
    <2>2. operator' = [operator EXCEPT !.left = operator.left \ {p}] BY <1>2
    <2>3. operator' \in Cancels BY <1>1, <2>1, <2>2, Zenon DEF Cancels
    <2>4. operator'.at = "retries" /\ operator'.left = operator.left \ {p}
      BY <1>1, <2>2, Zenon DEF Cancels
    <2> QED BY <2>1, <2>3, <2>4 DEF OperatorShape
  <1>5. Right /\ activeTargets' \subseteq activeTargets /\ pendingRetry' \in [Probes -> Executions \cup {0}]
    <2>1. ASSUME pendingRetry[p] = 0
          PROVE  Right /\ activeTargets' \subseteq activeTargets /\ pendingRetry' \in [Probes -> Executions \cup {0}]
      BY <1>1, <1>2, <1>3, <2>1, StutterRight DEF TypeOK
    <2>2. ASSUME pendingRetry[p] # 0
          PROVE  Right /\ activeTargets' \subseteq activeTargets /\ pendingRetry' \in [Probes -> Executions \cup {0}]
      <3> DEFINE e == pendingRetry[p]
      <3>1. e \in Executions /\ exec \in [Executions -> Threads] BY <1>1, <2>2 DEF TypeOK
      <3>2. exec' = [exec EXCEPT ![e].cancelled = TRUE] BY <1>2, <2>2
      <3> HIDE DEF e
      <3> DEFINE t == [exec[e] EXCEPT !.cancelled = TRUE]
      <3>3. t \in Threads /\ t.at = exec[e].at /\ t.attempt = exec[e].attempt /\ t.queued = exec[e].queued
        BY <3>1, Zenon DEF Threads
      <3>4. exec' \in [Executions -> Threads] /\ \A x \in Executions : Same(x)
        <4>1. exec' = [exec EXCEPT ![e] = t] BY <3>1, <3>2, Zenon
        <4> HIDE DEF t
        <4>2. Goes(e, t.at, t.attempt, t.queued) BY <3>1, <3>3, <4>1, ThreadGoes, Zenon
        <4> QED BY <3>3, <4>2, Zenon DEF Goes, Same
      <3>5. Moved /\ job' \in JobRows BY <1>1, <1>3, UnchangedMoves DEF storeVars, TypeOK
      <3>6. Right BY <3>4, <3>5, SameRight
      <3> QED BY <1>1, <1>2, <2>2, <3>6 DEF TypeOK
    <2> QED BY <2>1, <2>2
  <1> QED BY <1>1, <1>3, <1>4, <1>5, OperatorInv DEF TypeOK

LEMMA CancelAnsweredInv ==
    ASSUME IInv, CancelAnswered
    PROVE  IInv'
  <1>1. TypeOK /\ Right BY StutterRight DEF IInv, CancelAnswered
  <1>2. operator' \in Cancels /\ OperatorShape' BY IdleType DEF CancelAnswered, OperatorShape
  <1> QED BY <1>1, <1>2, OperatorInv, Zenon DEF CancelAnswered, mapVars, TypeOK

LEMMA EditInv ==
    ASSUME IInv, DeleteJob \/ \E s \in {"enabled", "disabled"} : SetEnabled(s)
    PROVE  IInv'
  <1>1. TypeOK /\ job \in JobRows BY DEF IInv, TypeOK
  <1>2. UNCHANGED <<mapVars, exec, result, dispatcher, operator, clock, stopped>>
    BY DEF DeleteJob, SetEnabled
  <1>3. spent' \in [Events -> Nat]
    BY <1>1, SpendType DEF DeleteJob, SetEnabled, Events
  <1>4. job' \in JobRows
    <2>1. PICK s \in JobStates : job' = [job EXCEPT !.state = s]
      BY DEF DeleteJob, SetEnabled, JobStates
    <2> QED BY <1>1, <2>1, Zenon DEF JobRows
  <1>5. Moved BY <1>1, UnchangedMoves, DeleteMoves DEF DeleteJob, SetEnabled
  <1>6. Right BY <1>1, <1>2, <1>4, <1>5, SameRight DEF Same, TypeOK
  <1>7. OperatorShape' /\ operator' \in Cancels BY <1>1, <1>2, Zenon DEF IInv, TypeOK, OperatorShape
  <1> QED BY <1>1, <1>2, <1>3, <1>6, <1>7, OperatorInv DEF mapVars, TypeOK

LEMMA StopInv ==
    ASSUME IInv, Stop
    PROVE  IInv'
  <1>1. TypeOK BY DEF IInv
  <1>2. exec \in [Executions -> Threads] BY <1>1 DEF TypeOK
  <1>3. exec' = [e \in Executions |->
                  IF pendingRetry[exec[e].probe] = e THEN [exec[e] EXCEPT !.cancelled = TRUE] ELSE exec[e]]
    BY DEF Stop
  <1>4. \A e \in Executions :
          LET t == [exec[e] EXCEPT !.cancelled = TRUE] IN
          t \in Threads /\ t.at = exec[e].at /\ t.attempt = exec[e].attempt /\ t.queued = exec[e].queued
    BY <1>2, Zenon DEF Threads
  <1>5. exec' \in [Executions -> Threads] BY <1>2, <1>3, <1>4
  <1>6. \A x \in Executions : Same(x) BY <1>3, <1>4 DEF Same
  <1>7. Moved /\ job' \in JobRows BY <1>1, UnchangedMoves DEF Stop, storeVars, TypeOK
  <1>8. Right BY <1>5, <1>6, <1>7, SameRight
  <1>9. spent' \in [Events -> Nat] BY <1>1, SpendType DEF Stop, Events
  <1>10. TypeOK' BY <1>1, <1>8, <1>9 DEF TypeOK, Right, Stop
  <1> QED BY <1>8, <1>10 DEF Right, IInv, OperatorShape, Stop

LEMMA RestartInv ==
    ASSUME IInv, Restart
    PROVE  IInv'
  <1>1. TypeOK /\ exec \in [Executions -> Threads] BY DEF IInv, TypeOK
  <1>2. exec' = [e \in Executions |-> IF exec[e].at = "none" THEN exec[e] ELSE Returned(e)]
    BY DEF Restart
  <1>3. exec' \in [Executions -> Threads] BY <1>1, <1>2, ReturnedFacts
  <1>4. \A x \in Executions : Same(x) \/ exec'[x].at = "done"
    BY <1>1, <1>2, ReturnedFacts DEF Same
  <1>5. Moved /\ job' \in JobRows BY <1>1, UnchangedMoves, Zenon DEF Restart, storeVars, TypeOK
  <1>6. \A x \in Executions : ShapeOf(x)'
    <2> SUFFICES ASSUME NEW x \in Executions PROVE ShapeOf(x)'
      OBVIOUS
    <2>1. CASE Same(x) BY <1>5, <2>1, ShapeKept
    <2>2. CASE exec'[x].at = "done" BY <2>2, SMTT(20) DEF ShapeOf
    <2> QED BY <1>4, <2>1, <2>2
  <1>7. Right BY <1>3, <1>5, <1>6, FailuresKept DEF Right, Moved
  <1>8. spent' \in [Events -> Nat] BY <1>1, SpendType, Zenon DEF Restart, Events, TypeOK
  <1>9. NoRound \in Rounds BY DEF NoRound, Rounds
  <1>10. TypeOK' BY <1>1, <1>7, <1>8, <1>9, IdleType, Zenon DEF TypeOK, Right, Restart
  <1> QED BY <1>7, <1>10, IdleType, Zenon DEF Right, IInv, OperatorShape, Restart

----------------------------------------------------------------------------
\* The invariant

LEMMA InitInv == Init => IInv
  <1> SUFFICES ASSUME Init PROVE IInv
    OBVIOUS
  <1>1. NoRun \in Rows /\ NoRun.status = "none"
    BY DEF NoRun, Rows, RunStatuses
  <1>2. [state |-> "enabled", lastRunAt |-> 0, lastStatus |-> "none"] \in JobRows
    BY DEF JobRows, JobStates, RunStatuses
  <1>3. NoRound \in Rounds BY DEF NoRound, Rounds
  <1>4. TypeOK BY <1>1, <1>2, <1>3, IdleType, NotStartedFacts, Zenon DEF Init, TypeOK
  <1>5. \A r \in RunIds : Status(r) = "none" BY <1>1 DEF Init, Status
  <1>6. \A e \in Executions : exec[e] = NotStarted BY DEF Init
  <1>7. \A e \in Executions, j \in Attempts : Status(<<e, j>>) = "none"
    BY <1>5 DEF RunIds
  <1>8. ASSUME NEW e \in Executions PROVE ShapeOf(e)
    <2>1. exec[e].at = "none" /\ exec[e].attempt = 1 /\ ~exec[e].queued BY <1>6, NotStartedFacts
    <2>2. 1 \in Attempts BY JobSchedulerAssumption DEF Attempts
    <2> QED BY <1>7, <2>1, <2>2, Zenon DEF ShapeOf
  <1>9. RetriesFollowFailures BY <1>7 DEF RetriesFollowFailures, Status
  <1>10. OperatorShape BY IdleType, Zenon DEF Init, OperatorShape
  <1> QED BY <1>4, <1>8, <1>9, <1>10 DEF IInv

LEMMA StutterInv ==
    ASSUME IInv, UNCHANGED vars
    PROVE  IInv'
  <1>1. Right BY StutterRight DEF vars, storeVars
  <1>2. TypeOK' BY DEF IInv, TypeOK, vars
  <1> QED BY <1>1, <1>2, Zenon DEF Right, IInv, OperatorShape, vars

LEMMA NextInv == IInv /\ [Next]_vars => IInv'
  <1> SUFFICES ASSUME IInv, [Next]_vars PROVE IInv'
    OBVIOUS
  <1>1. CASE RunOnce BY <1>1, DispatchInv DEF RunOnce
  <1>2. CASE IdleTick \/ UNCHANGED vars BY <1>2, StutterInv DEF IdleTick
  <1>3. ASSUME NEW d \in Dispatchers, TriggerNow(d) \/ ClaimTarget(d) \/ \E r \in RunIds : RetryRun(d, r)
        PROVE  IInv'
    BY <1>3, DispatchInv, ClaimTargetInv DEF TriggerNow, RetryRun
  <1>4. ASSUME NEW e \in Executions, Thread(e) \/ CommandResult(e)
        PROVE  IInv'
    BY <1>4, AdmissionInv, MarkRunRunningInv, ProbeOfflineInv, RegisterInv, SendInv, AwaitRunResultInv,
       FinishAttemptInv, ArmInv, TimerFiresInv, TimerCancelledInv, CheckJobInv, ReleaseInv, CommandResultInv
       DEF Thread
  <1>5. CASE CancelJob BY <1>5, CancelJobInv
  <1>6. CASE \E r \in RunIds : CancelRun(r) BY <1>6, CancelRunInv
  <1>7. CASE Operator
    BY <1>7, CancelNextRunInv, CancelTrackedInv, CollectRetriesInv, CancelScheduledRetryInv, CancelAnsweredInv
       DEF Operator
  <1>8. CASE DeleteJob \/ \E s \in {"enabled", "disabled"} : SetEnabled(s) BY <1>8, EditInv
  <1>9. CASE Stop \/ Restart BY <1>9, StopInv, RestartInv
  <1> QED BY <1>1, <1>2, <1>3, <1>4, <1>5, <1>6, <1>7, <1>8, <1>9 DEF Next

LEMMA InductiveInvariant == Spec => []IInv
  BY InitInv, NextInv, PTL DEF Spec

----------------------------------------------------------------------------
\* The theorems

\* Every variable of the scheduler keeps its type.
THEOREM TypeCorrect == Spec => []TypeOK
  BY InductiveInvariant, PTL DEF IInv

\* finishAttempt retries a failed attempt and nothing else, whatever the timers, the cancel
\* endpoints, edits of the job, Stop and restarts do meanwhile.
THEOREM RetriesAfterFailures == Spec => []RetriesFollowFailures
  BY InductiveInvariant, PTL DEF IInv

\* What a step does to the rows: an insert is of a run that was never there.
RowsStep == Moved \/ \E r \in RunIds : Status(r) = "none" /\ Inserted(r)

LEMMA AdmissionRows ==
    ASSUME IInv, NEW e \in Executions, Allow(e) \/ Defer(e) \/ Deny(e)
    PROVE  RowsStep
  <1>1. TypeOK /\ Run(e) \in RunIds /\ exec[e].now \in Nat /\ exec[e].at = "admit" /\ ShapeOf(e)
    BY RunInRunIds DEF IInv, TypeOK, Threads, Allow, Defer, Deny
  <1>2. ASSUME NEW s \in {"pending", "queued", "denied"}, ~exec[e].queued, Record(Run(e), exec[e].now, s)
        PROVE  RowsStep
    <2>1. Status(Run(e)) = "none" BY <1>1, <1>2, Zenon DEF ShapeOf, Run
    <2>2. Inserted(Run(e)) BY <1>1, <1>2, RecordInserts, Zenon
    <2> QED BY <1>1, <2>1, <2>2, Zenon DEF RowsStep
  <1>3. ASSUME NEW s \in {"pending", "denied"}, Status(Run(e)) \in ActiveStatuses,
               s = "pending" => Status(Run(e)) = "queued", Transition(Run(e), s)
        PROVE  RowsStep
    BY <1>1, <1>3, TransitionMoves, Zenon DEF RowsStep, RunStatuses, ActiveStatuses, TerminalStatuses
  <1>4. ASSUME UNCHANGED storeVars PROVE RowsStep
    BY <1>1, <1>4, UnchangedMoves DEF storeVars, RowsStep
  <1>5. CASE EnsurePendingRun(e)
    BY <1>2, <1>3, <1>5, Zenon DEF EnsurePendingRun, CanTransition, Status, ActiveStatuses
  <1>6. CASE EnsureQueuedRun(e)
    BY <1>2, <1>4, <1>6 DEF EnsureQueuedRun
  <1>7. CASE EnsureDeniedRun(e)
    BY <1>2, <1>3, <1>7, Zenon DEF EnsureDeniedRun, CanTransition, Status
  <1>8. ASSUME NEW from, EnsureFails(e, from) PROVE RowsStep
    BY <1>4, <1>8 DEF EnsureFails
  <1> QED BY <1>5, <1>6, <1>7, <1>8 DEF Allow, Defer, Deny

LEMMA TransitionRows ==
    ASSUME IInv,
           \/ \E e \in Executions : MarkRunRunning(e) \/ AwaitRunResult(e) \/ FinishAttempt(e)
           \/ \E r \in RunIds : CancelRun(r)
           \/ CancelNextRun
    PROVE  Moved
  <1>1. TypeOK BY DEF IInv
  <1>2. ASSUME NEW r \in RunIds, NEW to \in RunStatuses, Transition(r, to),
               \/ Status(r) \in ActiveStatuses /\ to = "canceled"
               \/ Status(r) = "pending" /\ to = "running"
               \/ Status(r) = "running" /\ to \in {"success", "failed"}
        PROVE  Moved
    BY <1>1, <1>2, TransitionMoves
  <1>3. ASSUME UNCHANGED storeVars PROVE Moved
    BY <1>1, <1>3, UnchangedMoves DEF storeVars
  <1>4. {"canceled", "running", "success", "failed"} \subseteq RunStatuses
    BY DEF RunStatuses, ActiveStatuses, TerminalStatuses
  <1>5. ASSUME NEW e \in Executions, MarkRunRunning(e) PROVE Moved
    BY <1>1, <1>2, <1>3, <1>4, <1>5, RunInRunIds, Zenon DEF MarkRunRunning, CanTransition, Status
  <1>6. ASSUME NEW e \in Executions, AwaitRunResult(e) PROVE Moved
    BY <1>1, <1>2, <1>3, <1>4, <1>6, RunInRunIds DEF AwaitRunResult, CanTransition, Status
  <1>7. ASSUME NEW e \in Executions, FinishAttempt(e) PROVE Moved
    <2> DEFINE to == IF exec[e].ok THEN "success" ELSE "failed"
    <2>1. to \in {"success", "failed"} /\ to \in RunStatuses BY <1>4
    <2>2. \/ CanTransition(runs, Run(e), {"running"}) /\ Transition(Run(e), to)
          \/ UNCHANGED storeVars
      BY <1>7 DEF FinishAttempt
    <2> HIDE DEF to
    <2> QED BY <1>1, <1>2, <1>3, <2>1, <2>2, RunInRunIds, Zenon DEF CanTransition, Status
  <1>8. ASSUME NEW r \in RunIds, CancelRun(r) PROVE Moved
    BY <1>2, <1>4, <1>8, Zenon DEF CancelRun, CanTransition, Status
  <1>9. ASSUME CancelNextRun PROVE Moved
    <2>1. operator.left \subseteq RunIds BY <1>9, Zenon DEF IInv, OperatorShape, CancelNextRun
    <2>2. \/ UNCHANGED storeVars
          \/ \E r \in operator.left : CanTransition(runs, r, ActiveStatuses) /\ Transition(r, "canceled")
      BY <1>9, Zenon DEF CancelNextRun
    <2> QED BY <1>2, <1>3, <1>4, <2>1, <2>2, Zenon DEF CanTransition, Status
  <1> QED BY <1>5, <1>6, <1>7, <1>8, <1>9

LEMMA NextRows ==
    ASSUME IInv, [Next]_vars
    PROVE  RowsStep
  <1>1. TypeOK BY DEF IInv
  <1>2. CASE runs' = runs BY <1>1, <1>2, UnchangedMoves DEF RowsStep
  <1>3. CASE DeleteJob BY <1>1, <1>3, DeleteMoves DEF DeleteJob, RowsStep
  <1>4. ASSUME NEW e \in Executions, Thread(e) \/ CommandResult(e) PROVE RowsStep
    <2>1. CASE Allow(e) \/ Defer(e) \/ Deny(e) BY <2>1, AdmissionRows
    <2>2. CASE MarkRunRunning(e) \/ AwaitRunResult(e) \/ FinishAttempt(e)
      BY <2>2, TransitionRows DEF RowsStep
    <2>3. CASE ProbeOffline(e) \/ Register(e) \/ Send(e) BY <1>2, <2>3 DEF ProbeOffline, Register, Send, storeVars
    <2>4. CASE Arm(e) \/ TimerFires(e) \/ TimerCancelled(e) \/ CheckJob(e)
      BY <1>2, <2>4, Zenon DEF Arm, TimerFires, TimerCancelled, CheckJob, storeVars
    <2>5. CASE ClearInFlight(e) \/ ReleaseTarget(e) \/ CommandResult(e)
      BY <1>2, <2>5, Zenon DEF ClearInFlight, ReleaseTarget, CommandResult, storeVars
    <2> QED BY <1>4, <2>1, <2>2, <2>3, <2>4, <2>5 DEF Thread
  <1>5. ASSUME NEW d, DispatchJob(d) \/ ClaimTarget(d) PROVE RowsStep
    BY <1>2, <1>5 DEF DispatchJob, ClaimTarget, storeVars
  <1>6. CASE Operator \/ CancelJob \/ \E r \in RunIds : CancelRun(r)
    BY <1>2, <1>6, TransitionRows
       DEF RowsStep, Operator, CancelTracked, CollectRetries, CancelScheduledRetry, CancelAnswered, CancelJob,
           storeVars
  <1>7. CASE Stop \/ Restart \/ (\E s \in {"enabled", "disabled"} : SetEnabled(s)) \/ IdleTick \/ UNCHANGED vars
    BY <1>2, <1>7 DEF Stop, Restart, SetEnabled, IdleTick, vars, storeVars
  <1> QED BY <1>3, <1>4, <1>5, <1>6, <1>7, Zenon DEF Next, RunOnce, TriggerNow, RetryRun

\* Every run of the store keeps to its life cycle (StatusLifecycle): whichever thread,
\* timer or endpoint comes first, no run leaves a final status, starts twice, or is inserted
\* over another one.
THEOREM RunLifecycle == Spec => LifecycleImplemented
  <1> DEFINE status == [r \in RunIds |-> runs[r].status]
  <1>1. Init => Lifecycle!Init
    BY SMTT(30) DEF Init, Lifecycle!Init, NoRun
  <1>2. IInv /\ IInv' /\ [Next]_vars => [Lifecycle!Step]_status
    <2> SUFFICES ASSUME IInv, IInv', [Next]_vars PROVE Lifecycle!Step
      OBVIOUS
    <2>0. \A r \in RunIds : Status(r) \in RunStatuses /\ NewStatus(r) \in RunStatuses
      BY DEF IInv, TypeOK, Rows, Status, NewStatus
    <2> SUFFICES ASSUME NEW r \in RunIds
                 PROVE  NewStatus(r) = Status(r) \/ NewStatus(r) \in Successors(Status(r))
      BY <2>0 DEF Lifecycle!Step, Status, NewStatus
    <2>1. Status(r) \in RunStatuses BY <2>0
    <2>2. CASE Moved
      <3>1. CASE Status(r) # "none" /\ NewStatus(r) = "gone"
        BY <2>1, <3>1 DEF Successors, RunStatuses, ActiveStatuses, TerminalStatuses
      <3> QED BY <2>2, <3>1 DEF Moved
    <2>3. CASE \E q \in RunIds : Status(q) = "none" /\ Inserted(q)
      BY <2>3 DEF Inserted, Successors
    <2> QED BY <2>2, <2>3, NextRows, Zenon DEF RowsStep
  <1> QED BY <1>1, <1>2, InductiveInvariant, PTL DEF Spec, LifecycleImplemented, Lifecycle!Spec
=============================================================================
