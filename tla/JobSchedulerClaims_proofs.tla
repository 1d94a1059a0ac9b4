----------------------- MODULE JobSchedulerClaims_proofs -----------------------
(***************************************************************************)
(* Proofs about the claims of JobScheduler: a claimed target has a thread  *)
(* that releases it, and undisturbed executions of a target do not overlap.*)
(* The lemmas say of every action what it does to the two maps and to the  *)
(* threads that share a target.                                            *)
(***************************************************************************)
EXTENDS JobScheduler_proofs

----------------------------------------------------------------------------
\* Claims: who releases a target, and who else may work on it

\* The thread of e will find its target through its request.
Requests(e) == exec[e].at \in {"send", "await", "clear"} \/ (exec[e].at = "finish" /\ exec[e].registered)

\* The thread of e works on p and will release it: its timer is not cancelled, and the
\* request it needs for the release is there.
Owner(e, p) ==
    /\ Live(e) /\ exec[e].probe = p
    /\ ~(exec[e].at = "timer" /\ exec[e].cancelled)
    /\ Requests(e) => Run(e) \in inFlight

Owners == \A p \in activeTargets : \E e \in Executions : Owner(e, p)

\* An entry for a target is the timer of an execution of that target.
Timers ==
    \A p \in Probes : pendingRetry[p] # 0 =>
        exec[pendingRetry[p]].probe = p /\ exec[pendingRetry[p]].at # "none"

Working == {"online", "send", "await", "finish"}

\* A run is pending or running only while the thread of its attempt is at work on it.
Busy ==
    \A e \in Executions, k \in Attempts :
        /\ Status(<<e, k>>) = "pending" => exec[e].at = "mark" /\ exec[e].attempt = k
        /\ Status(<<e, k>>) = "running" =>
             exec[e].at \in Working /\ exec[e].attempt = k

\* One execution at a time has a target, and it has claimed it.
Exclusive ==
    \A e \in Executions : Live(e) =>
        /\ exec[e].probe \in activeTargets
        /\ \A f \in Executions : Live(f) /\ exec[f].probe = exec[e].probe => f = e

Undisturbed == spent["cancels"] = 0 /\ spent["restarts"] = 0

\* What is counted before it does something.
Counted ==
    /\ operator.at # "idle" => spent["cancels"] > 0
    /\ stopped => spent["restarts"] > 0

ClaimInv ==
    /\ Owners /\ Timers /\ Counted
    /\ spent["restarts"] = 0 => Busy
    /\ Undisturbed => Exclusive

----------------------------------------------------------------------------
\* How a thread moves, with all that the claims read of it

StepTo(e, place, k, registered, cancelled) ==
    /\ exec'[e].at = place /\ exec'[e].probe = exec[e].probe /\ exec'[e].attempt = k
    /\ exec'[e].registered = registered /\ exec'[e].cancelled = cancelled
    /\ \A x \in Executions \ {e} : exec'[x] = exec[x]

\* The step keeps the attempt and the timer's state.
GoesTo(e, place, registered) == StepTo(e, place, exec[e].attempt, registered, exec[e].cancelled)

LEMMA RecordSteps ==
    ASSUME TypeOK, NEW e \in Executions, NEW t, exec' = [exec EXCEPT ![e] = t], t.probe = exec[e].probe
    PROVE  StepTo(e, t.at, t.attempt, t.registered, t.cancelled)
  BY DEF TypeOK, StepTo

LEMMA AtSteps ==
    ASSUME TypeOK, NEW e \in Executions, NEW place, At(e, place)
    PROVE  GoesTo(e, place, exec[e].registered)
  <1> DEFINE t == [exec[e] EXCEPT !.at = place]
  <1>1. exec \in [Executions -> Threads] BY DEF TypeOK
  <1>2. exec' = [exec EXCEPT ![e] = t] BY <1>1, Zenon DEF At
  <1>3. /\ t.at = place /\ t.probe = exec[e].probe /\ t.attempt = exec[e].attempt
        /\ t.registered = exec[e].registered /\ t.cancelled = exec[e].cancelled
    BY <1>1, Zenon DEF Threads
  <1> HIDE DEF t
  <1> QED BY <1>2, <1>3, RecordSteps, Zenon DEF GoesTo

LEMMA PreparedSteps ==
    ASSUME TypeOK, NEW e \in Executions, NEW place, Prepared(e, place)
    PROVE  GoesTo(e, place, exec[e].registered)
  <1> DEFINE t == [exec[e] EXCEPT !.at = place, !.now = 0]
  <1>1. exec \in [Executions -> Threads] BY DEF TypeOK
  <1>2. exec' = [exec EXCEPT ![e] = t] BY <1>1, Zenon DEF Prepared
  <1>3. /\ t.at = place /\ t.probe = exec[e].probe /\ t.attempt = exec[e].attempt
        /\ t.registered = exec[e].registered /\ t.cancelled = exec[e].cancelled
    BY <1>1, Zenon DEF Threads
  <1> HIDE DEF t
  <1> QED BY <1>2, <1>3, RecordSteps, Zenon DEF GoesTo

LEMMA ReturnedSteps ==
    ASSUME TypeOK, NEW e \in Executions, exec' = [exec EXCEPT ![e] = Returned(e)]
    PROVE  /\ exec'[e].at = "done" /\ exec'[e].probe = exec[e].probe
           /\ \A x \in Executions \ {e} : exec'[x] = exec[x]
  <1>1. Returned(e).at = "done" /\ Returned(e).probe = exec[e].probe
    BY NotStartedFacts, Zenon DEF Returned, Threads
  <1> QED BY <1>1 DEF TypeOK

----------------------------------------------------------------------------
\* What keeps the parts of the invariant

\* A thread that goes on keeps its target.
LEMMA OwnersGoOn ==
    ASSUME Owners, NEW e \in Executions, NEW place, NEW k, NEW r, NEW c, StepTo(e, place, k, r, c),
           place \notin {"none", "done"}, ~(place = "timer" /\ c),
           activeTargets' \subseteq activeTargets,
           \A x \in Executions \ {e} : Run(x) \in inFlight => Run(x) \in inFlight',
           Requests(e)' => <<e, k>> \in inFlight' \/ (Requests(e) /\ Run(e) \notin inFlight)
    PROVE  Owners'
  <1> SUFFICES ASSUME NEW p \in activeTargets' PROVE \E x \in Executions : Owner(x, p)'
    BY DEF Owners
  <1>1. PICK x \in Executions : Owner(x, p) BY DEF Owners
  <1>2. CASE x = e
    <2>1. exec'[e].probe = p /\ Live(e)' /\ ~(exec'[e].at = "timer" /\ exec'[e].cancelled)
      BY <1>1, <1>2 DEF Owner, StepTo, Live
    <2>2. Requests(e)' => Run(e)' \in inFlight'
      BY <1>1, <1>2 DEF Owner, StepTo, Run
    <2> QED BY <2>1, <2>2, SMTT(20) DEF Owner
  <1>3. CASE x # e
    <2>1. exec'[x] = exec[x] BY <1>3 DEF StepTo
    <2>2. Run(x)' = Run(x) /\ (Requests(x)' <=> Requests(x)) /\ (Live(x)' <=> Live(x))
      BY <2>1 DEF Run, Requests, Live
    <2> QED BY <1>1, <1>3, <2>1, <2>2, SMTT(20) DEF Owner
  <1> QED BY <1>2, <1>3

\* A thread that returns has released its target, or was not its owner.
LEMMA OwnersReturn ==
    ASSUME Owners, NEW e \in Executions,
           \A x \in Executions \ {e} : exec'[x] = exec[x] /\ (Run(x) \in inFlight => Run(x) \in inFlight'),
           activeTargets' \subseteq activeTargets,
           exec[e].probe \notin activeTargets' \/ ~Owner(e, exec[e].probe)
    PROVE  Owners'
  <1> SUFFICES ASSUME NEW p \in activeTargets' PROVE \E x \in Executions : Owner(x, p)'
    BY DEF Owners
  <1>1. PICK x \in Executions : Owner(x, p) BY DEF Owners
  <1>2. x # e BY <1>1, SMTT(20) DEF Owner
  <1>3. exec'[x] = exec[x] BY <1>2
  <1>4. Run(x)' = Run(x) /\ (Requests(x)' <=> Requests(x)) /\ (Live(x)' <=> Live(x))
    BY <1>3 DEF Run, Requests, Live
  <1> QED BY <1>1, <1>2, <1>3, <1>4, SMTT(20) DEF Owner

LEMMA TimersKept ==
    ASSUME TypeOK, Timers,
           \A p \in Probes : pendingRetry'[p] \in {0, pendingRetry[p]},
           \A x \in Executions : exec'[x].probe = exec[x].probe /\ (exec[x].at # "none" => exec'[x].at # "none")
    PROVE  Timers'
  <1> SUFFICES ASSUME NEW p \in Probes, pendingRetry'[p] # 0
               PROVE  exec'[pendingRetry'[p]].probe = p /\ exec'[pendingRetry'[p]].at # "none"
    BY DEF Timers
  <1>1. pendingRetry'[p] = pendingRetry[p] /\ pendingRetry[p] \in Executions
    BY DEF TypeOK
  <1> QED BY <1>1 DEF Timers

LEMMA ExclusiveKept ==
    ASSUME Exclusive,
           \A x \in Executions : exec'[x].probe = exec[x].probe /\ (Live(x)' => Live(x)),
           \A x \in Executions : Live(x)' => exec[x].probe \in activeTargets' \/ exec[x].probe \notin activeTargets
    PROVE  Exclusive'
  BY SMTT(20) DEF Exclusive

\* The rows of an execution after a step, against the place of its thread after it.
BusyAt(e, place, k) ==
    \A j \in Attempts :
        /\ NewStatus(<<e, j>>) = "pending" => place = "mark" /\ k = j
        /\ NewStatus(<<e, j>>) = "running" => place \in Working /\ k = j

\* No row of another execution moves.
OthersKept(e) ==
    \A x \in Executions \ {e}, j \in Attempts : NewStatus(<<x, j>>) = Status(<<x, j>>)

\* The row of e's attempt gets a status, and no other row moves.
RowSet(e, to) ==
    /\ OthersKept(e) /\ NewStatus(Run(e)) = to
    /\ \A j \in Attempts : j # exec[e].attempt => NewStatus(<<e, j>>) = Status(<<e, j>>)

LEMMA TransitionSets ==
    ASSUME TypeOK, NEW e \in Executions, NEW to, Transition(Run(e), to)
    PROVE  RowSet(e, to)
  <1>1. Run(e) \in RunIds BY RunInRunIds
  <1>2. runs \in [RunIds -> Rows] /\ runs' = [runs EXCEPT ![Run(e)].status = to]
    BY DEF TypeOK, Transition, MovedRuns
  <1>3. runs'[Run(e)].status = to /\ \A q \in RunIds \ {Run(e)} : runs'[q] = runs[q]
    BY <1>1, <1>2 DEF Rows
  <1>4. \A x \in Executions, j \in Attempts :
          <<x, j>> \in RunIds /\ (x # e \/ j # exec[e].attempt => <<x, j>> # Run(e))
    BY DEF RunIds, Run
  <1> QED BY <1>3, <1>4 DEF RowSet, OthersKept, Status, NewStatus

LEMMA RecordSets ==
    ASSUME TypeOK, NEW e \in Executions, NEW t, NEW to, Record(Run(e), t, to)
    PROVE  RowSet(e, to)
  <1>1. Run(e) \in RunIds BY RunInRunIds
  <1>2. runs \in [RunIds -> Rows] /\ runs' = [runs EXCEPT ![Run(e)] = [status |-> to, startedAt |-> t]]
    BY DEF TypeOK, Record, RecordedRuns
  <1>3. runs'[Run(e)].status = to /\ \A q \in RunIds \ {Run(e)} : runs'[q] = runs[q]
    BY <1>1, <1>2
  <1>4. \A x \in Executions, j \in Attempts :
          <<x, j>> \in RunIds /\ (x # e \/ j # exec[e].attempt => <<x, j>> # Run(e))
    BY DEF RunIds, Run
  <1> QED BY <1>3, <1>4 DEF RowSet, OthersKept, Status, NewStatus

LEMMA RowSetBusy ==
    ASSUME Busy, NEW e \in Executions, NEW to, RowSet(e, to), NEW place,
           to = "pending" => place = "mark", to = "running" => place \in Working
    PROVE  BusyAt(e, place, exec[e].attempt)
  <1> SUFFICES ASSUME NEW j \in Attempts, NewStatus(<<e, j>>) \in {"pending", "running"}
               PROVE  /\ exec[e].attempt = j
                      /\ NewStatus(<<e, j>>) = "pending" => place = "mark"
                      /\ NewStatus(<<e, j>>) = "running" => place \in Working
    BY DEF BusyAt
  <1>1. exec[e].attempt = j BY DEF RowSet, Busy
  <1> QED BY <1>1 DEF RowSet, Run

\* A thread that goes on with the same rows: it stays at work, or its run is not pending or
\* running any more.
LEMMA SameBusy ==
    ASSUME Busy, NEW e \in Executions, runs' = runs, NEW place, NEW k,
           \/ exec[e].at \in Working /\ place \in Working /\ k = exec[e].attempt
           \/ exec[e].at \notin Working \cup {"mark"}
           \/ exec[e].at \in Working /\ Status(Run(e)) # "running"
           \/ exec[e].at = "mark" /\ Status(Run(e)) # "pending"
    PROVE  BusyAt(e, place, k)
  <1> SUFFICES ASSUME NEW j \in Attempts, Status(<<e, j>>) \in {"pending", "running"}
               PROVE  /\ k = j
                      /\ Status(<<e, j>>) = "pending" => place = "mark"
                      /\ Status(<<e, j>>) = "running" => place \in Working
    BY DEF BusyAt, Status, NewStatus
  <1>1. /\ exec[e].attempt = j
        /\ Status(<<e, j>>) = "pending" => exec[e].at = "mark"
        /\ Status(<<e, j>>) = "running" => exec[e].at \in Working
    BY DEF Busy
  <1>2. "mark" \notin Working BY DEF Working
  <1> QED BY <1>1, <1>2 DEF Run

LEMMA BusyKept ==
    ASSUME Busy, NEW e \in Executions, OthersKept(e), BusyAt(e, exec'[e].at, exec'[e].attempt),
           \A x \in Executions \ {e} : exec'[x].at = exec[x].at /\ exec'[x].attempt = exec[x].attempt
    PROVE  Busy'
  <1> SUFFICES ASSUME NEW x \in Executions, NEW k \in Attempts
               PROVE  /\ NewStatus(<<x, k>>) = "pending" => exec'[x].at = "mark" /\ exec'[x].attempt = k
                      /\ NewStatus(<<x, k>>) = "running" => exec'[x].at \in Working /\ exec'[x].attempt = k
    BY Zenon DEF Busy, Status, NewStatus
  <1>1. CASE x = e BY <1>1 DEF BusyAt
  <1>2. CASE x # e BY <1>2 DEF Busy, OthersKept
  <1> QED BY <1>1, <1>2

----------------------------------------------------------------------------
\* The threads

LEMMA SameRows ==
    ASSUME runs' = runs, NEW e
    PROVE  OthersKept(e)
  BY DEF OthersKept, Status, NewStatus

LEMMA RowSetOthers ==
    ASSUME NEW e, NEW to, RowSet(e, to)
    PROVE  OthersKept(e)
  BY DEF RowSet

\* A thread that goes on.
LEMMA GoesOn ==
    ASSUME TypeOK, ClaimInv, NEW e \in Executions, NEW place, NEW k, NEW r, NEW c, StepTo(e, place, k, r, c),
           Live(e), place \notin {"none", "done", "timer"},
           UNCHANGED <<activeTargets, operator, stopped, spent>>,
           \A p \in Probes : pendingRetry'[p] \in {0, pendingRetry[p]},
           \A x \in Executions \ {e} : Run(x) \in inFlight => Run(x) \in inFlight',
           Requests(e)' => <<e, k>> \in inFlight' \/ (Requests(e) /\ Run(e) \notin inFlight),
           OthersKept(e), Busy => BusyAt(e, place, k)
    PROVE  ClaimInv'
  <1>1. Owners' BY OwnersGoOn, SMTT(20) DEF ClaimInv
  <1>2. \A x \in Executions : exec'[x].probe = exec[x].probe /\ (Live(x)' <=> Live(x))
                               /\ (exec[x].at # "none" => exec'[x].at # "none")
    BY DEF StepTo, Live
  <1>3. Timers' BY <1>2, TimersKept, SMTT(20) DEF ClaimInv
  <1>4. Counted' BY Zenon DEF ClaimInv, Counted
  <1>5. Exclusive => Exclusive' BY <1>2, ExclusiveKept, SMTT(20)
  <1>6. Busy => Busy' BY BusyKept, SMTT(20) DEF StepTo
  <1> QED BY <1>1, <1>3, <1>4, <1>5, <1>6, SMTT(20) DEF ClaimInv, Undisturbed

\* The same with the maps as they were.
LEMMA GoesOnPlainly ==
    ASSUME TypeOK, ClaimInv, NEW e \in Executions, NEW place, NEW r, NEW c,
           StepTo(e, place, exec[e].attempt, r, c),
           Live(e), place \notin {"none", "done", "timer"},
           UNCHANGED <<mapVars, operator, stopped, spent>>,
           Requests(e)' => Requests(e),
           OthersKept(e), Busy => BusyAt(e, place, exec[e].attempt)
    PROVE  ClaimInv'
  <1>1. UNCHANGED <<activeTargets, inFlight, pendingRetry, operator, stopped, spent>> BY DEF mapVars
  <1>2. \A p \in Probes : pendingRetry'[p] \in {0, pendingRetry[p]} BY <1>1
  <1>3. \A x \in Executions \ {e} : Run(x) \in inFlight => Run(x) \in inFlight' BY <1>1
  <1>4. Requests(e)' => <<e, exec[e].attempt>> \in inFlight' \/ (Requests(e) /\ Run(e) \notin inFlight)
    BY <1>1 DEF Run
  <1> QED BY <1>1, <1>2, <1>3, <1>4, GoesOn

LEMMA AdmissionClaims ==
    ASSUME TypeOK, ClaimInv, NEW e \in Executions, Allow(e) \/ Defer(e) \/ Deny(e)
    PROVE  ClaimInv'
  <1>0. /\ exec[e].at = "admit" /\ Live(e) /\ "admit" \notin Working \cup {"mark"}
        /\ UNCHANGED <<mapVars, operator, stopped, spent>>
    BY DEF Allow, Defer, Deny, Live, Working
  <1>1. ASSUME NEW place \in {"mark", "release", "arm"}, NEW r, NEW c,
               StepTo(e, place, exec[e].attempt, r, c),
               \/ UNCHANGED storeVars
               \/ \E to \in {"queued", "denied"} : RowSet(e, to)
               \/ place = "mark" /\ RowSet(e, "pending")
        PROVE  ClaimInv'
    <2>1. OthersKept(e)
      BY <1>1, SameRows, RowSetOthers DEF storeVars
    <2>2. Busy => BusyAt(e, place, exec[e].attempt)
      BY <1>0, <1>1, SameBusy, RowSetBusy, SMTT(20) DEF storeVars
    <2>3. ~Requests(e)' BY <1>1 DEF Requests, StepTo
    <2> QED BY <1>0, <1>1, <2>1, <2>2, <2>3, GoesOnPlainly, Zenon
  <1>2. ASSUME NEW place, Prepared(e, place)
        PROVE  StepTo(e, place, exec[e].attempt, exec[e].registered, exec[e].cancelled)
    BY <1>2, PreparedSteps DEF GoesTo
  <1>3. \A from : EnsureFails(e, from) => UNCHANGED storeVars BY DEF EnsureFails
  <1>4. CASE Allow(e)
    <2>1. EnsurePendingRun(e) => RowSet(e, "pending")
      BY TransitionSets, RecordSets DEF EnsurePendingRun
    <2> QED BY <1>1, <1>2, <1>3, <1>4, <2>1, SMTT(20) DEF Allow
  <1>5. CASE Defer(e)
    <2>1. EnsureQueuedRun(e) => UNCHANGED storeVars \/ RowSet(e, "queued")
      BY RecordSets DEF EnsureQueuedRun
    <2>2. ASSUME exec' = [exec EXCEPT ![e].at = "arm", ![e].now = 0, ![e].queued = TRUE]
          PROVE  StepTo(e, "arm", exec[e].attempt, exec[e].registered, exec[e].cancelled)
      <3> DEFINE t == [exec[e] EXCEPT !.at = "arm", !.now = 0, !.queued = TRUE]
      <3>1. exec \in [Executions -> Threads] BY DEF TypeOK
      <3>2. exec' = [exec EXCEPT ![e] = t] BY <2>2, <3>1, Zenon
      <3>3. /\ t.at = "arm" /\ t.probe = exec[e].probe /\ t.attempt = exec[e].attempt
            /\ t.registered = exec[e].registered /\ t.cancelled = exec[e].cancelled
        BY <3>1, Zenon DEF Threads
      <3> HIDE DEF t
      <3> QED BY <3>2, <3>3, RecordSteps, Zenon
    <2> QED BY <1>1, <1>2, <1>3, <1>5, <2>1, <2>2 DEF Defer
  <1>6. CASE Deny(e)
    <2>1. EnsureDeniedRun(e) => RowSet(e, "denied")
      BY TransitionSets, RecordSets DEF EnsureDeniedRun
    <2> QED BY <1>1, <1>2, <1>3, <1>6, <2>1, SMTT(20) DEF Deny
  <1> QED BY <1>4, <1>5, <1>6

LEMMA MarkRunRunningClaims ==
    ASSUME TypeOK, ClaimInv, NEW e \in Executions, MarkRunRunning(e)
    PROVE  ClaimInv'
  <1>0. /\ exec[e].at = "mark" /\ Live(e) /\ UNCHANGED <<mapVars, operator, stopped, spent>>
    BY DEF MarkRunRunning, Live
  <1>1. CASE CanTransition(runs, Run(e), {"pending"})
    <2>1. RowSet(e, "running") /\ At(e, "online") BY <1>1, TransitionSets DEF MarkRunRunning
    <2>2. StepTo(e, "online", exec[e].attempt, exec[e].registered, exec[e].cancelled)
      BY <2>1, AtSteps DEF GoesTo
    <2>3. Busy => BusyAt(e, "online", exec[e].attempt) BY <2>1, RowSetBusy DEF Working
    <2>4. ~Requests(e)' BY <2>2 DEF Requests, StepTo
    <2> QED BY <1>0, <2>1, <2>2, <2>3, <2>4, RowSetOthers, GoesOnPlainly, SMTT(20)
  <1>2. CASE ~CanTransition(runs, Run(e), {"pending"})
    <2>1. runs' = runs /\ At(e, "release") /\ Status(Run(e)) # "pending"
      BY <1>2 DEF MarkRunRunning, CanTransition, storeVars, Status
    <2>2. StepTo(e, "release", exec[e].attempt, exec[e].registered, exec[e].cancelled)
      BY <2>1, AtSteps DEF GoesTo
    <2>3. Busy => BusyAt(e, "release", exec[e].attempt) BY <1>0, <2>1, SameBusy
    <2>4. ~Requests(e)' BY <2>2 DEF Requests, StepTo
    <2> QED BY <1>0, <2>1, <2>2, <2>3, <2>4, SameRows, GoesOnPlainly, SMTT(20)
  <1> QED BY <1>1, <1>2

LEMMA ProbeOfflineClaims ==
    ASSUME TypeOK, ClaimInv, NEW e \in Executions, ProbeOffline(e)
    PROVE  ClaimInv'
  <1>0. /\ exec[e].at = "online" /\ Live(e) /\ runs' = runs
        /\ UNCHANGED <<mapVars, operator, stopped, spent>>
    BY DEF ProbeOffline, Live, storeVars
  <1> DEFINE t == [exec[e] EXCEPT !.at = "finish", !.ok = FALSE, !.registered = FALSE]
  <1>1. exec \in [Executions -> Threads] BY DEF TypeOK
  <1>2. exec' = [exec EXCEPT ![e] = t] BY <1>1, Zenon DEF ProbeOffline
  <1>3. /\ t.at = "finish" /\ t.probe = exec[e].probe /\ t.attempt = exec[e].attempt
        /\ t.registered = FALSE /\ t.cancelled = exec[e].cancelled
    BY <1>1, Zenon DEF Threads
  <1> HIDE DEF t
  <1>4. StepTo(e, "finish", exec[e].attempt, FALSE, exec[e].cancelled)
    BY <1>2, <1>3, RecordSteps, Zenon
  <1>5. ~Requests(e)' BY <1>4 DEF Requests, StepTo
  <1>6. Busy => BusyAt(e, "finish", exec[e].attempt) BY <1>0, SameBusy DEF Working
  <1>7. OthersKept(e) /\ "finish" \notin {"none", "done", "timer"} BY <1>0, SameRows
  <1> QED BY <1>0, <1>4, <1>5, <1>6, <1>7, GoesOnPlainly, Zenon

LEMMA RegisterClaims ==
    ASSUME TypeOK, ClaimInv, NEW e \in Executions, Register(e)
    PROVE  ClaimInv'
  <1>0. /\ exec[e].at = "online" /\ Live(e) /\ runs' = runs /\ inFlight' = inFlight \cup {Run(e)}
        /\ UNCHANGED <<activeTargets, pendingRetry, operator, stopped, spent>>
    BY DEF Register, Live, storeVars
  <1> DEFINE t == [exec[e] EXCEPT !.at = "send", !.registered = TRUE]
  <1>1. exec \in [Executions -> Threads] BY DEF TypeOK
  <1>2. exec' = [exec EXCEPT ![e] = t] BY <1>1, Zenon DEF Register
  <1>3. /\ t.at = "send" /\ t.probe = exec[e].probe /\ t.attempt = exec[e].attempt
        /\ t.registered = TRUE /\ t.cancelled = exec[e].cancelled
    BY <1>1, Zenon DEF Threads
  <1> HIDE DEF t
  <1>4. StepTo(e, "send", exec[e].attempt, TRUE, exec[e].cancelled)
    BY <1>2, <1>3, RecordSteps, Zenon
  <1>5. Busy => BusyAt(e, "send", exec[e].attempt) BY <1>0, SameBusy DEF Working
  <1>6. <<e, exec[e].attempt>> \in inFlight' BY <1>0 DEF Run
  <1>7. \A p \in Probes : pendingRetry'[p] \in {0, pendingRetry[p]} BY <1>0
  <1>8. \A x \in Executions \ {e} : Run(x) \in inFlight => Run(x) \in inFlight' BY <1>0
  <1>9. OthersKept(e) /\ "send" \notin {"none", "done", "timer"} BY <1>0, SameRows
  <1> QED BY <1>0, <1>4, <1>5, <1>6, <1>7, <1>8, <1>9, GoesOn, Zenon

LEMMA SendClaims ==
    ASSUME TypeOK, ClaimInv, NEW e \in Executions, Send(e)
    PROVE  ClaimInv'
  <1>0. /\ exec[e].at = "send" /\ Live(e) /\ Requests(e) /\ runs' = runs
        /\ UNCHANGED <<mapVars, operator, stopped, spent>>
    BY DEF Send, Live, storeVars, Requests
  <1>1. exec \in [Executions -> Threads] BY DEF TypeOK
  <1>2. ASSUME NEW place \in {"await", "finish"},
               StepTo(e, place, exec[e].attempt, exec[e].registered, exec[e].cancelled)
        PROVE  ClaimInv'
    <2>1. Busy => BusyAt(e, place, exec[e].attempt) BY <1>0, SameBusy DEF Working
    <2> QED BY <1>0, <1>2, <2>1, SameRows, GoesOnPlainly, Zenon
  <1>3. CASE exec' = [exec EXCEPT ![e].at = "await", ![e].owner = NoOwner]
    <2> DEFINE t == [exec[e] EXCEPT !.at = "await", !.owner = NoOwner]
    <2>1. exec' = [exec EXCEPT ![e] = t] BY <1>1, <1>3, Zenon
    <2>2. /\ t.at = "await" /\ t.probe = exec[e].probe /\ t.attempt = exec[e].attempt
          /\ t.registered = exec[e].registered /\ t.cancelled = exec[e].cancelled
      BY <1>1, Zenon DEF Threads
    <2> HIDE DEF t
    <2>3. StepTo(e, "await", exec[e].attempt, exec[e].registered, exec[e].cancelled)
      BY <2>1, <2>2, RecordSteps, Zenon
    <2> QED BY <1>2, <2>3
  <1>4. CASE exec' = [exec EXCEPT ![e].at = "finish", ![e].ok = FALSE]
    <2> DEFINE t == [exec[e] EXCEPT !.at = "finish", !.ok = FALSE]
    <2>1. exec' = [exec EXCEPT ![e] = t] BY <1>1, <1>4, Zenon
    <2>2. /\ t.at = "finish" /\ t.probe = exec[e].probe /\ t.attempt = exec[e].attempt
          /\ t.registered = exec[e].registered /\ t.cancelled = exec[e].cancelled
      BY <1>1, Zenon DEF Threads
    <2> HIDE DEF t
    <2>3. StepTo(e, "finish", exec[e].attempt, exec[e].registered, exec[e].cancelled)
      BY <2>1, <2>2, RecordSteps, Zenon
    <2> QED BY <1>2, <2>3
  <1> QED BY <1>3, <1>4, Zenon DEF Send

LEMMA AwaitRunResultClaims ==
    ASSUME TypeOK, ClaimInv, NEW e \in Executions, AwaitRunResult(e)
    PROVE  ClaimInv'
  <1>0. /\ exec[e].at = "await" /\ Live(e) /\ Requests(e) /\ "await" \in Working
        /\ UNCHANGED <<mapVars, operator, stopped, spent>>
    BY DEF AwaitRunResult, Live, Requests, Working
  <1>1. exec \in [Executions -> Threads] BY DEF TypeOK
  <1>2. CASE result[e] = "closed"
    <2>1. StepTo(e, "clear", exec[e].attempt, exec[e].registered, exec[e].cancelled)
      BY <1>2, AtSteps DEF AwaitRunResult, GoesTo
    <2>2. CASE CanTransition(runs, Run(e), ActiveStatuses)
      <3>1. RowSet(e, "canceled") BY <1>2, <2>2, TransitionSets DEF AwaitRunResult
      <3>2. Busy => BusyAt(e, "clear", exec[e].attempt) BY <3>1, RowSetBusy
      <3> QED BY <1>0, <2>1, <3>1, <3>2, RowSetOthers, GoesOnPlainly, SMTT(20)
    <2>3. CASE ~CanTransition(runs, Run(e), ActiveStatuses)
      <3>1. runs' = runs /\ Status(Run(e)) # "running"
        BY <1>2, <2>3 DEF AwaitRunResult, CanTransition, ActiveStatuses, storeVars, Status
      <3>2. Busy => BusyAt(e, "clear", exec[e].attempt) BY <1>0, <3>1, SameBusy, SMTT(20)
      <3> QED BY <1>0, <2>1, <3>1, <3>2, SameRows, GoesOnPlainly, SMTT(20)
    <2> QED BY <2>2, <2>3
  <1>3. CASE result[e] # "closed"
    <2> DEFINE ok == result[e] = "ok"
    <2>1. exec' = [exec EXCEPT ![e].at = "finish", ![e].ok = ok] /\ runs' = runs
      BY <1>3 DEF AwaitRunResult, storeVars
    <2> HIDE DEF ok
    <2> DEFINE t == [exec[e] EXCEPT !.at = "finish", !.ok = ok]
    <2>2. exec' = [exec EXCEPT ![e] = t] BY <1>1, <2>1, Zenon
    <2>3. /\ t.at = "finish" /\ t.probe = exec[e].probe /\ t.attempt = exec[e].attempt
          /\ t.registered = exec[e].registered /\ t.cancelled = exec[e].cancelled
      BY <1>1, Zenon DEF Threads
    <2> HIDE DEF t
    <2>4. StepTo(e, "finish", exec[e].attempt, exec[e].registered, exec[e].cancelled)
      BY <2>2, <2>3, RecordSteps, Zenon
    <2>5. Busy => BusyAt(e, "finish", exec[e].attempt) BY <1>0, <2>1, SameBusy DEF Working
    <2> QED BY <1>0, <2>1, <2>4, <2>5, SameRows, GoesOnPlainly
  <1> QED BY <1>2, <1>3

LEMMA FinishAttemptClaims ==
    ASSUME TypeOK, ClaimInv, NEW e \in Executions, FinishAttempt(e)
    PROVE  ClaimInv'
  <1> DEFINE end == IF exec[e].registered THEN "clear" ELSE "release"
             place == IF RetryAllowed(e) THEN "arm" ELSE end
             s == IF exec[e].ok THEN "success" ELSE "failed"
  <1>0. /\ exec[e].at = "finish" /\ Live(e) /\ "finish" \in Working
        /\ UNCHANGED <<mapVars, operator, stopped, spent>>
    BY DEF FinishAttempt, Live, Working
  <1>1. exec \in [Executions -> Threads] BY DEF TypeOK
  <1>2. ASSUME NEW to \in {"clear", "release", "arm"}, to = "clear" => exec[e].registered,
               StepTo(e, to, exec[e].attempt, exec[e].registered, exec[e].cancelled)
        PROVE  Requests(e)' => Requests(e)
    BY <1>0, <1>2, SMTT(20) DEF Requests, StepTo
  <1>3. CASE CanTransition(runs, Run(e), {"running"})
    <2>1. RowSet(e, s) /\ exec' = [exec EXCEPT ![e].queued = FALSE, ![e].at = place]
      BY <1>3, TransitionSets, Zenon DEF FinishAttempt
    <2>2. place \in {"clear", "release", "arm"} /\ (place = "clear" => exec[e].registered) /\ s \in {"success", "failed"}
      OBVIOUS
    <2> HIDE DEF place, s
    <2> DEFINE t == [exec[e] EXCEPT !.queued = FALSE, !.at = place]
    <2>3. exec' = [exec EXCEPT ![e] = t] BY <1>1, <2>1, Zenon
    <2>4. /\ t.at = place /\ t.probe = exec[e].probe /\ t.attempt = exec[e].attempt
          /\ t.registered = exec[e].registered /\ t.cancelled = exec[e].cancelled
      BY <1>1, Zenon DEF Threads
    <2> HIDE DEF t
    <2>5. StepTo(e, place, exec[e].attempt, exec[e].registered, exec[e].cancelled)
      BY <2>3, <2>4, RecordSteps, Zenon
    <2>6. Busy => BusyAt(e, place, exec[e].attempt) BY <2>1, <2>2, RowSetBusy, Zenon
    <2> QED BY <1>0, <1>2, <2>1, <2>2, <2>5, <2>6, RowSetOthers, GoesOnPlainly, Zenon
  <1>4. CASE ~CanTransition(runs, Run(e), {"running"})
    <2>1. At(e, end) /\ runs' = runs /\ Status(Run(e)) # "running"
      BY <1>4 DEF FinishAttempt, CanTransition, storeVars, Status
    <2>2. end \in {"clear", "release", "arm"} /\ (end = "clear" => exec[e].registered)
      OBVIOUS
    <2> HIDE DEF end
    <2>3. StepTo(e, end, exec[e].attempt, exec[e].registered, exec[e].cancelled)
      BY <2>1, AtSteps DEF GoesTo
    <2>4. Busy => BusyAt(e, end, exec[e].attempt) BY <1>0, <2>1, SameBusy
    <2> QED BY <1>0, <1>2, <2>1, <2>2, <2>3, <2>4, SameRows, GoesOnPlainly, SMTT(20)
  <1> QED BY <1>3, <1>4

\* The timer that Arm cancels belongs to an execution of the same target, which from then on
\* is the new timer's.
LEMMA ArmClaims ==
    ASSUME TypeOK, ClaimInv, NEW e \in Executions, Arm(e)
    PROVE  ClaimInv'
  <1> DEFINE p == exec[e].probe
             before == pendingRetry[p]
             k == IF exec[e].queued THEN exec[e].attempt ELSE exec[e].attempt + 1
             armed == [exec EXCEPT ![e].at = "timer", ![e].owner = NoOwner, ![e].cancelled = FALSE,
                                   ![e].registered = FALSE, ![e].attempt = k]
  <1>1. exec \in [Executions -> Threads] /\ exec[e].at = "arm" /\ p \in Probes /\ p = exec[e].probe
    BY SMTT(20) DEF TypeOK, Threads, Arm
  <1>2. /\ exec' = IF before \in Executions \ {e} THEN [armed EXCEPT ![before].cancelled = TRUE] ELSE armed
        /\ pendingRetry' = [pendingRetry EXCEPT ![p] = e]
        /\ inFlight' = inFlight \ {Run(e)}
        /\ UNCHANGED <<storeVars, activeTargets, operator, stopped, spent>>
    BY Zenon DEF Arm
  <1>3. before \in Executions => exec[before].probe = p
    BY <1>1, JobSchedulerAssumption DEF ClaimInv, Timers, Executions
  <1> HIDE DEF k, p
  <1>4. PICK t : /\ armed = [exec EXCEPT ![e] = t] /\ t.at = "timer" /\ t.probe = exec[e].probe
                 /\ t.cancelled = FALSE
    <2> DEFINE u == [exec[e] EXCEPT !.at = "timer", !.owner = NoOwner, !.cancelled = FALSE,
                                    !.registered = FALSE, !.attempt = k]
    <2>1. u.at = "timer" /\ u.probe = exec[e].probe /\ u.cancelled = FALSE
      BY <1>1, Zenon DEF Threads
    <2>2. armed = [exec EXCEPT ![e] = u] BY <1>1, Zenon
    <2> HIDE DEF u
    <2> QED BY <2>1, <2>2, Zenon
  <1>5. armed[e] = t /\ DOMAIN armed = Executions /\ \A x \in Executions \ {e} : armed[x] = exec[x]
    BY <1>1, <1>4, Zenon
  <1> HIDE DEF armed, before
  <1>6. /\ exec'[e].at = "timer" /\ exec'[e].probe = p /\ exec'[e].cancelled = FALSE
        /\ \A x \in Executions \ {e} :
             /\ x # before => exec'[x] = exec[x]
             /\ exec'[x].at = exec[x].at /\ exec'[x].probe = exec[x].probe /\ exec'[x].attempt = exec[x].attempt
    <2>1. CASE before \in Executions \ {e}
      <3> DEFINE c == [exec[before] EXCEPT !.cancelled = TRUE]
      <3>1. c.at = exec[before].at /\ c.probe = exec[before].probe /\ c.attempt = exec[before].attempt
        BY <1>1, <2>1, Zenon DEF Threads
      <3>2. exec' = [armed EXCEPT ![before] = c]
        <4>1. exec' = [armed EXCEPT ![before].cancelled = TRUE] /\ armed[before] = exec[before]
          BY <1>2, <1>5, <2>1
        <4> QED BY <4>1, Zenon
      <3> HIDE DEF c
      <3>3. \A x \in Executions : exec'[x] = IF x = before THEN c ELSE armed[x]
        BY <1>5, <2>1, <3>2
      <3> QED BY <1>1, <1>4, <1>5, <2>1, <3>1, <3>3
    <2>2. CASE before \notin Executions \ {e}
      <3>1. exec' = armed BY <1>2, <2>2
      <3> QED BY <1>1, <1>4, <1>5, <3>1
    <2> QED BY <2>1, <2>2, Zenon
  <1>7. Owners'
    <2> SUFFICES ASSUME NEW q \in activeTargets PROVE \E x \in Executions : Owner(x, q)'
      BY <1>2 DEF Owners
    <2>1. CASE q = p
      <3>1. Live(e)' /\ ~Requests(e)' BY <1>6 DEF Live, Requests
      <3> QED BY <1>6, <2>1, <3>1, SMTT(20) DEF Owner
    <2>2. CASE q # p
      <3>1. PICK x \in Executions : Owner(x, q) BY DEF ClaimInv, Owners
      <3>2. x # e /\ x # before BY <1>1, <1>3, <2>2, <3>1 DEF Owner
      <3>3. exec'[x] = exec[x] BY <1>6, <3>2
      <3>4. Run(x)' = Run(x) /\ (Requests(x)' <=> Requests(x)) /\ (Live(x)' <=> Live(x)) /\ Run(x) # Run(e)
        BY <3>2, <3>3 DEF Run, Requests, Live
      <3> QED BY <1>2, <3>1, <3>3, <3>4, Zenon DEF Owner
    <2> QED BY <2>1, <2>2
  <1>8. Timers'
    <2> SUFFICES ASSUME NEW q \in Probes, pendingRetry'[q] # 0
                 PROVE  exec'[pendingRetry'[q]].probe = q /\ exec'[pendingRetry'[q]].at # "none"
      BY DEF Timers
    <2>1. pendingRetry \in [Probes -> Executions \cup {0}] BY DEF TypeOK
    <2>2. CASE q = p BY <1>1, <1>2, <1>6, <2>1, <2>2
    <2>3. CASE q # p
      <3>1. pendingRetry'[q] = pendingRetry[q] /\ pendingRetry[q] \in Executions BY <1>1, <1>2, <2>1, <2>3
      <3>2. exec[pendingRetry[q]].probe = q /\ exec[pendingRetry[q]].at # "none"
        BY <3>1 DEF ClaimInv, Timers
      <3> QED BY <1>1, <1>6, <2>3, <3>1, <3>2
    <2> QED BY <2>2, <2>3
  <1>9. runs' = runs /\ UNCHANGED <<activeTargets, operator, stopped, spent>> BY <1>2 DEF storeVars
  <1>10. \A x \in Executions : exec'[x].probe = exec[x].probe /\ (Live(x)' => Live(x))
    BY <1>1, <1>6 DEF Live
  <1>11. Exclusive => Exclusive' BY <1>9, <1>10, ExclusiveKept
  <1>12. Busy => Busy'
    <2>1. "arm" \notin Working \cup {"mark"} BY DEF Working
    <2>2. Busy => BusyAt(e, exec'[e].at, exec'[e].attempt) BY <1>1, <1>9, <2>1, SameBusy, SMTT(20)
    <2> QED BY <1>6, <1>9, <2>2, SameRows, BusyKept, Zenon
  <1> QED BY <1>7, <1>8, <1>9, <1>11, <1>12 DEF ClaimInv, Counted, Undisturbed

LEMMA TimerFiresClaims ==
    ASSUME TypeOK, ClaimInv, NEW e \in Executions, TimerFires(e)
    PROVE  ClaimInv'
  <1>0. /\ exec[e].at = "timer" /\ Live(e) /\ runs' = runs /\ exec[e].probe \in Probes
        /\ pendingRetry' = [pendingRetry EXCEPT ![exec[e].probe] = 0]
        /\ UNCHANGED <<activeTargets, inFlight, operator, stopped, spent>>
    BY DEF TimerFires, Live, storeVars, TypeOK, Threads
  <1>1. StepTo(e, "check", exec[e].attempt, exec[e].registered, exec[e].cancelled)
    BY AtSteps, SMTT(20) DEF TimerFires, GoesTo
  <1>2. \A p \in Probes : pendingRetry'[p] \in {0, pendingRetry[p]} BY <1>0 DEF TypeOK
  <1>3. ~Requests(e)' BY <1>1 DEF Requests, StepTo
  <1>4. Busy => BusyAt(e, "check", exec[e].attempt) BY <1>0, SameBusy, SMTT(20) DEF Working
  <1>5. OthersKept(e) /\ "check" \notin {"none", "done", "timer"} BY <1>0, SameRows
  <1>6. \A x \in Executions \ {e} : Run(x) \in inFlight => Run(x) \in inFlight' BY <1>0
  <1> QED BY <1>0, <1>1, <1>2, <1>3, <1>4, <1>5, <1>6, GoesOn, Zenon

LEMMA CheckJobClaims ==
    ASSUME TypeOK, ClaimInv, NEW e \in Executions, CheckJob(e)
    PROVE  ClaimInv'
  <1>0. /\ exec[e].at = "check" /\ Live(e) /\ runs' = runs
        /\ UNCHANGED <<mapVars, operator, stopped, spent>>
    BY DEF CheckJob, Live, storeVars
  <1>1. ASSUME NEW place \in {"admit", "release"},
               StepTo(e, place, exec[e].attempt, exec[e].registered, exec[e].cancelled)
        PROVE  ClaimInv'
    <2>1. ~Requests(e)' BY <1>1 DEF Requests, StepTo
    <2>2. Busy => BusyAt(e, place, exec[e].attempt) BY <1>0, SameBusy DEF Working
    <2> QED BY <1>0, <1>1, <2>1, <2>2, SameRows, GoesOnPlainly, Zenon
  <1>2. ASSUME NEW place, At(e, place)
        PROVE  StepTo(e, place, exec[e].attempt, exec[e].registered, exec[e].cancelled)
    BY <1>2, AtSteps DEF GoesTo
  <1>3. ASSUME exec' = [exec EXCEPT ![e].at = "admit", ![e].now = clock + 1]
        PROVE  StepTo(e, "admit", exec[e].attempt, exec[e].registered, exec[e].cancelled)
    <2> DEFINE now == clock + 1
               t == [exec[e] EXCEPT !.at = "admit", !.now = now]
    <2>1. exec \in [Executions -> Threads] BY DEF TypeOK
    <2> HIDE DEF now
    <2>2. exec' = [exec EXCEPT ![e] = t] BY <1>3, <2>1, Zenon DEF now
    <2>3. /\ t.at = "admit" /\ t.probe = exec[e].probe /\ t.attempt = exec[e].attempt
          /\ t.registered = exec[e].registered /\ t.cancelled = exec[e].cancelled
      BY <2>1, Zenon DEF Threads
    <2> HIDE DEF t
    <2> QED BY <2>2, <2>3, RecordSteps, Zenon
  <1> QED BY <1>1, <1>2, <1>3, Zenon DEF CheckJob

\* A thread that returns.
LEMMA Returns ==
    ASSUME TypeOK, ClaimInv, NEW e \in Executions, Live(e), exec[e].at \notin Working \cup {"mark"},
           exec' = [exec EXCEPT ![e] = Returned(e)], runs' = runs,
           UNCHANGED <<pendingRetry, operator, stopped, spent>>,
           activeTargets' \in {activeTargets, activeTargets \ {exec[e].probe}},
           inFlight \ {Run(e)} \subseteq inFlight',
           exec[e].probe \notin activeTargets' \/ ~Owner(e, exec[e].probe)
    PROVE  ClaimInv'
  <1>1. /\ exec'[e].at = "done" /\ exec'[e].probe = exec[e].probe
        /\ \A x \in Executions \ {e} : exec'[x] = exec[x]
    BY ReturnedSteps, Zenon
  <1>2. \A x \in Executions \ {e} : Run(x) # Run(e) BY DEF Run
  <1>3. Owners' BY <1>1, <1>2, OwnersReturn DEF ClaimInv
  <1>4. Timers' BY <1>1, TimersKept DEF ClaimInv
  <1>5. Exclusive => Exclusive'
    <2>1. \A x \in Executions : exec'[x].probe = exec[x].probe /\ (Live(x)' => x # e /\ Live(x))
      BY <1>1 DEF Live
    <2>2. Exclusive => \A x \in Executions : Live(x)' => exec[x].probe # exec[e].probe
      BY <2>1 DEF Exclusive
    <2> QED BY <2>1, <2>2, ExclusiveKept
  <1>6. Busy => Busy'
    <2>1. Busy => BusyAt(e, exec'[e].at, exec'[e].attempt) BY SameBusy
    <2> QED BY <1>1, <2>1, SameRows, BusyKept
  <1> QED BY <1>3, <1>4, <1>5, <1>6 DEF ClaimInv, Counted, Undisturbed

LEMMA TimerCancelledClaims ==
    ASSUME TypeOK, ClaimInv, NEW e \in Executions, TimerCancelled(e)
    PROVE  ClaimInv'
  <1>1. /\ Live(e) /\ exec[e].at \notin Working \cup {"mark"} /\ ~Owner(e, exec[e].probe)
    BY DEF TimerCancelled, Live, Working, Owner
  <1>2. /\ exec' = [exec EXCEPT ![e] = Returned(e)] /\ runs' = runs
        /\ UNCHANGED <<activeTargets, inFlight, pendingRetry, operator, stopped, spent>>
    BY DEF TimerCancelled, storeVars, mapVars
  <1> QED BY <1>1, <1>2, Returns, Zenon

LEMMA ReleaseClaims ==
    ASSUME TypeOK, ClaimInv, NEW e \in Executions, ClearInFlight(e) \/ ReleaseTarget(e)
    PROVE  ClaimInv'
  <1>1. Live(e) /\ exec[e].at \notin Working \cup {"mark"}
    BY DEF ClearInFlight, ReleaseTarget, Live, Working
  <1>2. /\ exec' = [exec EXCEPT ![e] = Returned(e)] /\ runs' = runs
        /\ UNCHANGED <<pendingRetry, operator, stopped, spent>>
        /\ activeTargets' \in {activeTargets, activeTargets \ {exec[e].probe}}
        /\ inFlight \ {Run(e)} \subseteq inFlight'
    BY DEF ClearInFlight, ReleaseTarget, storeVars
  <1>3. exec[e].probe \notin activeTargets' \/ ~Owner(e, exec[e].probe)
    BY DEF ClearInFlight, ReleaseTarget, Owner, Requests
  <1> QED BY <1>1, <1>2, <1>3, Returns, Zenon

----------------------------------------------------------------------------
\* Dispatchers, endpoints, Stop and restarts

LEMMA SpendCounts ==
    ASSUME TypeOK, NEW what \in Events, Spend(what)
    PROVE  spent'[what] > 0 /\ \A w \in Events : spent[w] > 0 => spent'[w] > 0
  BY DEF TypeOK, Spend

\* The threads and the maps are as before, and no row becomes pending or running.
LEMMA SameThreads ==
    ASSUME TypeOK, ClaimInv, UNCHANGED <<exec, mapVars>>, Counted', spent' \in [Events -> Nat],
           \A w \in Events : spent[w] > 0 => spent'[w] > 0,
           \A r \in RunIds : NewStatus(r) = Status(r) \/ NewStatus(r) \notin {"pending", "running"}
    PROVE  ClaimInv'
  <1>1. exec' = exec /\ UNCHANGED <<activeTargets, inFlight, pendingRetry>> BY DEF mapVars
  <1>2. Owners' /\ Timers' /\ (Exclusive => Exclusive')
    BY <1>1, SMTT(20) DEF ClaimInv, Owners, Timers, Exclusive, Owner, Live, Requests, Run
  <1>3. ASSUME Busy PROVE Busy'
    <2> SUFFICES ASSUME NEW x \in Executions, NEW j \in Attempts
                 PROVE  /\ NewStatus(<<x, j>>) = "pending" => exec'[x].at = "mark" /\ exec'[x].attempt = j
                        /\ NewStatus(<<x, j>>) = "running" => exec'[x].at \in Working /\ exec'[x].attempt = j
      BY Zenon DEF Busy, Status, NewStatus
    <2>1. <<x, j>> \in RunIds BY DEF RunIds
    <2> QED BY <1>1, <1>3, <2>1 DEF Busy
  <1>4. /\ spent'["restarts"] = 0 => spent["restarts"] = 0
        /\ spent'["cancels"] = 0 => spent["cancels"] = 0
    BY DEF TypeOK, Events
  <1> QED BY <1>2, <1>3, <1>4 DEF ClaimInv, Undisturbed

LEMMA StutterClaims ==
    ASSUME TypeOK, ClaimInv, UNCHANGED <<runs, exec, mapVars, operator, stopped, spent>>
    PROVE  ClaimInv'
  <1>1. Counted' BY DEF ClaimInv, Counted
  <1>2. \A r \in RunIds : NewStatus(r) = Status(r) BY DEF Status, NewStatus
  <1> QED BY <1>1, <1>2, SameThreads DEF TypeOK

LEMMA DispatchClaims ==
    ASSUME TypeOK, ClaimInv, NEW d, DispatchJob(d)
    PROVE  ClaimInv'
  BY StutterClaims DEF DispatchJob, storeVars

\* A claimed target had no claim before.
LEMMA ClaimTargetClaims ==
    ASSUME TypeOK, ClaimInv, NEW d \in Dispatchers, ClaimTarget(d)
    PROVE  ClaimInv'
  <1> DEFINE p == Head(dispatcher[d].left)
             e == CHOOSE x \in Free : TRUE
             t == [NotStarted EXCEPT !.at = "admit", !.probe = p, !.owner = d, !.now = dispatcher[d].now]
  <1>1. runs' = runs /\ UNCHANGED <<inFlight, pendingRetry, operator, stopped, spent>>
    BY DEF ClaimTarget, storeVars
  <1>2. CASE UNCHANGED <<activeTargets, exec>>
    BY <1>1, <1>2, StutterClaims DEF mapVars
  <1>3. CASE /\ Free # {} /\ p \notin activeTargets /\ activeTargets' = activeTargets \cup {p}
             /\ exec' = [exec EXCEPT ![e] = t]
    <2>1. PICK x \in Executions : exec[x].at = "none" /\ exec' = [exec EXCEPT ![x] = t]
      <3>1. e \in Free BY <1>3
      <3> QED BY <1>3, <3>1, Zenon DEF Free
    <2>2. t.at = "admit" /\ t.probe = p
      <3> HIDE DEF p
      <3> QED BY NotStartedFacts, Zenon DEF Threads
    <2> HIDE DEF t, e, p
    <2>3. /\ exec'[x].at = "admit" /\ exec'[x].probe = p
          /\ \A y \in Executions \ {x} : exec'[y] = exec[y]
      BY <2>1, <2>2 DEF TypeOK
    <2>4. Live(x)' /\ ~Live(x) /\ ~Requests(x)' BY <2>1, <2>3 DEF Live, Requests
    <2>5. \A y \in Executions \ {x} :
            Run(y)' = Run(y) /\ (Requests(y)' <=> Requests(y)) /\ (Live(y)' <=> Live(y))
      BY <2>3 DEF Run, Requests, Live
    <2>6. Owners'
      <3> SUFFICES ASSUME NEW q \in activeTargets' PROVE \E y \in Executions : Owner(y, q)'
        BY DEF Owners
      <3>1. CASE q = p BY <2>3, <2>4, <3>1, SMTT(20) DEF Owner
      <3>2. CASE q # p
        <4>1. PICK y \in Executions : Owner(y, q) BY <1>3, <3>2 DEF ClaimInv, Owners
        <4>2. y # x BY <2>4, <4>1 DEF Owner
        <4> QED BY <1>1, <2>3, <2>5, <4>1, <4>2, SMTT(20) DEF Owner
      <3> QED BY <3>1, <3>2
    <2>7. Timers'
      <3> SUFFICES ASSUME NEW q \in Probes, pendingRetry[q] # 0
                   PROVE  exec'[pendingRetry[q]].probe = q /\ exec'[pendingRetry[q]].at # "none"
        BY <1>1, SMTT(20) DEF Timers
      <3>1. /\ pendingRetry[q] \in Executions /\ exec[pendingRetry[q]].probe = q
            /\ exec[pendingRetry[q]].at # "none"
        BY DEF TypeOK, ClaimInv, Timers
      <3> QED BY <2>1, <2>3, <3>1
    <2>8. Exclusive => Exclusive'
      <3> SUFFICES ASSUME Exclusive, NEW y \in Executions, Live(y)'
                   PROVE  /\ exec'[y].probe \in activeTargets'
                          /\ \A f \in Executions : Live(f)' /\ exec'[f].probe = exec'[y].probe => f = y
        BY Zenon DEF Exclusive
      <3>1. \A f \in Executions \ {x} : Live(f)' => exec'[f].probe \in activeTargets /\ exec'[f].probe # p
        BY <1>3, <2>3, <2>5, SMTT(20) DEF Exclusive
      <3>2. CASE y = x BY <1>3, <2>3, <3>1, <3>2
      <3>3. CASE y # x
        <4>1. exec'[y].probe \in activeTargets' BY <1>3, <3>1, <3>3
        <4>2. ASSUME NEW f \in Executions, Live(f)', exec'[f].probe = exec'[y].probe PROVE f = y
          <5>1. f # x BY <2>3, <3>1, <3>3, <4>2
          <5> QED BY <2>3, <2>5, <3>3, <4>2, <5>1 DEF Exclusive
        <4> QED BY <4>1, <4>2
      <3> QED BY <3>2, <3>3
    <2>9. Busy => Busy'
      <3>1. Busy => BusyAt(x, exec'[x].at, exec'[x].attempt) BY <1>1, <2>1, SameBusy DEF Working
      <3> QED BY <1>1, <2>3, <3>1, SameRows, BusyKept
    <2> QED BY <1>1, <2>6, <2>7, <2>8, <2>9 DEF ClaimInv, Counted, Undisturbed
  <1> QED BY <1>2, <1>3 DEF ClaimTarget, Claimed

LEMMA CancelRows ==
    ASSUME TypeOK, NEW r \in RunIds, Transition(r, "canceled")
    PROVE  \A q \in RunIds : NewStatus(q) = Status(q) \/ NewStatus(q) = "canceled"
  <1>1. runs \in [RunIds -> Rows] /\ runs' = [runs EXCEPT ![r].status = "canceled"]
    BY DEF TypeOK, Transition, MovedRuns
  <1>2. runs'[r].status = "canceled" /\ \A q \in RunIds \ {r} : runs'[q] = runs[q]
    BY <1>1 DEF Rows
  <1> QED BY <1>2 DEF Status, NewStatus

LEMMA CancelStartClaims ==
    ASSUME TypeOK, ClaimInv, TypeOK', CancelJob \/ \E r \in RunIds : CancelRun(r)
    PROVE  ClaimInv'
  <1>1. "cancels" \in Events /\ Spend("cancels") /\ UNCHANGED <<exec, mapVars, stopped>>
    BY Zenon DEF CancelJob, CancelRun, Events
  <1>2. spent'["cancels"] > 0 /\ \A w \in Events : spent[w] > 0 => spent'[w] > 0
    BY <1>1, SpendCounts
  <1>3. Counted' BY <1>1, <1>2 DEF ClaimInv, Counted, Events
  <1>4. \A q \in RunIds : NewStatus(q) = Status(q) \/ NewStatus(q) = "canceled"
    BY CancelRows, Zenon DEF CancelJob, CancelRun, storeVars, Status, NewStatus
  <1> QED BY <1>1, <1>2, <1>3, <1>4, SameThreads DEF TypeOK

LEMMA CancelStepClaims ==
    ASSUME IInv, ClaimInv, CancelNextRun \/ CancelTracked \/ CollectRetries \/ CancelAnswered
    PROVE  ClaimInv'
  <1>1. TypeOK /\ operator.at # "idle" /\ UNCHANGED <<exec, mapVars, stopped, spent>>
    BY Zenon DEF IInv, CancelNextRun, CancelTracked, CollectRetries, CancelAnswered
  <1>2. Counted' BY <1>1 DEF ClaimInv, Counted
  <1>3. \A q \in RunIds : NewStatus(q) = Status(q) \/ NewStatus(q) = "canceled"
    <2>1. CASE CancelNextRun
      <3>1. operator.left \subseteq RunIds BY <2>1, Zenon DEF IInv, OperatorShape, CancelNextRun
      <3>2. runs' = runs \/ \E r \in RunIds : Transition(r, "canceled")
        BY <2>1, <3>1, Zenon DEF CancelNextRun, storeVars
      <3> QED BY <1>1, <3>2, CancelRows DEF Status, NewStatus
    <2>2. CASE CancelTracked \/ CollectRetries \/ CancelAnswered
      BY <2>2 DEF CancelTracked, CollectRetries, CancelAnswered, storeVars, Status, NewStatus
    <2> QED BY <2>1, <2>2
  <1> QED BY <1>1, <1>2, <1>3, SameThreads DEF TypeOK

\* The target of the timer that is cancelled is released with it.
LEMMA CancelScheduledRetryClaims ==
    ASSUME IInv, ClaimInv, CancelScheduledRetry
    PROVE  ClaimInv'
  <1>1. TypeOK /\ operator.left \subseteq Probes /\ spent["cancels"] > 0
    BY DEF IInv, OperatorShape, CancelScheduledRetry, ClaimInv, Counted
  <1>2. runs' = runs /\ UNCHANGED <<inFlight, stopped, spent>>
    BY DEF CancelScheduledRetry, storeVars
  <1>3. Counted' /\ ~Undisturbed' BY <1>1, <1>2 DEF ClaimInv, Counted, Undisturbed
  <1>4. PICK p \in operator.left :
          IF pendingRetry[p] = 0
          THEN UNCHANGED <<pendingRetry, activeTargets, exec>>
          ELSE /\ pendingRetry' = [pendingRetry EXCEPT ![p] = 0]
               /\ activeTargets' = activeTargets \ {p}
               /\ exec' = [exec EXCEPT ![pendingRetry[p]].cancelled = TRUE]
    BY Zenon DEF CancelScheduledRetry
  <1>5. CASE pendingRetry[p] = 0
    <2>1. UNCHANGED <<exec, mapVars>> BY <1>2, <1>4, <1>5 DEF mapVars
    <2>2. \A r \in RunIds : NewStatus(r) = Status(r) BY <1>2 DEF Status, NewStatus
    <2> QED BY <1>1, <1>2, <1>3, <2>1, <2>2, SameThreads, SMTT(20) DEF TypeOK
  <1>6. CASE pendingRetry[p] # 0
    <2> DEFINE e == pendingRetry[p]
    <2>1. /\ p \in Probes /\ e \in Executions /\ exec \in [Executions -> Threads] /\ exec[e].probe = p
      BY <1>1, <1>4, <1>6 DEF TypeOK, ClaimInv, Timers
    <2>2. /\ exec' = [exec EXCEPT ![e].cancelled = TRUE] /\ pendingRetry' = [pendingRetry EXCEPT ![p] = 0]
          /\ activeTargets' = activeTargets \ {p}
      BY <1>4, <1>6
    <2> HIDE DEF e
    <2> DEFINE t == [exec[e] EXCEPT !.cancelled = TRUE]
    <2>3. t.at = exec[e].at /\ t.probe = exec[e].probe /\ t.attempt = exec[e].attempt
      BY <2>1, Zenon DEF Threads
    <2>4. exec' = [exec EXCEPT ![e] = t] BY <2>1, <2>2, Zenon
    <2> HIDE DEF t
    <2>5. /\ exec'[e].at = exec[e].at /\ exec'[e].probe = exec[e].probe /\ exec'[e].attempt = exec[e].attempt
          /\ \A x \in Executions \ {e} : exec'[x] = exec[x]
      BY <2>1, <2>3, <2>4
    <2>6. Owners'
      <3>1. p \notin activeTargets' /\ activeTargets' \subseteq activeTargets BY <2>2
      <3> QED BY <1>2, <2>1, <2>5, <3>1, OwnersReturn, SMTT(20) DEF ClaimInv
    <2>7. \A q \in Probes : pendingRetry'[q] \in {0, pendingRetry[q]}
      BY <1>1, <2>1, <2>2 DEF TypeOK
    <2>8. Timers' BY <1>1, <2>5, <2>7, TimersKept DEF ClaimInv
    <2>9. Busy => Busy'
      <3>1. Busy => BusyAt(e, exec'[e].at, exec'[e].attempt)
        BY <1>2, <2>1, <2>5 DEF Busy, BusyAt, Status, NewStatus
      <3> QED BY <1>2, <2>1, <2>5, <3>1, SameRows, BusyKept
    <2> QED BY <1>2, <1>3, <2>6, <2>8, <2>9 DEF ClaimInv
  <1> QED BY <1>5, <1>6

LEMMA EditClaims ==
    ASSUME TypeOK, ClaimInv, TypeOK', DeleteJob \/ \E s \in {"enabled", "disabled"} : SetEnabled(s)
    PROVE  ClaimInv'
  <1>1. "edits" \in Events /\ Spend("edits") /\ UNCHANGED <<exec, mapVars, operator, stopped>>
    BY DEF DeleteJob, SetEnabled, Events
  <1>2. \A w \in Events : spent[w] > 0 => spent'[w] > 0 BY <1>1, SpendCounts
  <1>3. Counted' BY <1>1, <1>2 DEF ClaimInv, Counted, Events
  <1>4. \A r \in RunIds : NewStatus(r) = Status(r) \/ NewStatus(r) = "gone"
    BY DEF TypeOK, DeleteJob, SetEnabled, DeletedRuns, Status, NewStatus
  <1> QED BY <1>1, <1>2, <1>3, <1>4, SameThreads DEF TypeOK

\* After Stop and a restart nothing is claimed and no timer is entered.
LEMMA EndClaims ==
    ASSUME TypeOK, ClaimInv, TypeOK', Stop \/ Restart
    PROVE  ClaimInv'
  <1>1. Owners' BY DEF Stop, Restart, Owners
  <1>2. Timers'
    <2>1. \A p \in Probes : pendingRetry'[p] = 0 BY DEF Stop, Restart
    <2> QED BY <2>1 DEF Timers
  <1>3. spent'["restarts"] > 0 /\ (spent["cancels"] > 0 => spent'["cancels"] > 0)
    <2>1. CASE Spend("restarts") BY <2>1, SpendCounts DEF Events
    <2>2. CASE stopped /\ UNCHANGED spent BY <2>2 DEF ClaimInv, Counted
    <2> QED BY <2>1, <2>2 DEF Stop, Restart
  <1>4. Counted' BY <1>3, IdleType DEF Stop, Restart, ClaimInv, Counted
  <1> QED BY <1>1, <1>2, <1>3, <1>4 DEF ClaimInv, Undisturbed

----------------------------------------------------------------------------
\* The claims

LEMMA InitClaims == Init => ClaimInv
  <1> SUFFICES ASSUME Init PROVE ClaimInv
    OBVIOUS
  <1>1. Owners BY DEF Init, Owners
  <1>2. Timers BY DEF Init, Timers
  <1>3. Counted BY IdleType DEF Init, Counted
  <1>4. \A e \in Executions : ~Live(e) BY NotStartedFacts DEF Init, Live
  <1>5. Exclusive BY <1>4 DEF Exclusive
  <1>6. Busy
    <2>1. \A e \in Executions, k \in Attempts : Status(<<e, k>>) = "none"
      BY DEF Init, Status, RunIds, NoRun
    <2> QED BY <2>1, Zenon DEF Busy
  <1> QED BY <1>1, <1>2, <1>3, <1>5, <1>6 DEF ClaimInv

LEMMA NextClaims == IInv /\ ClaimInv /\ IInv' /\ [Next]_vars => ClaimInv'
  <1> SUFFICES ASSUME IInv, ClaimInv, IInv', [Next]_vars PROVE ClaimInv'
    OBVIOUS
  <1>0. TypeOK /\ TypeOK' BY DEF IInv
  <1>1. CASE RunOnce BY <1>0, <1>1, DispatchClaims DEF RunOnce
  <1>2. CASE IdleTick \/ UNCHANGED vars
    <2>1. UNCHANGED <<runs, exec, mapVars, operator, stopped, spent>>
      BY <1>2, Zenon DEF IdleTick, vars, mapVars
    <2> QED BY <1>0, <2>1, StutterClaims, Zenon
  <1>3. ASSUME NEW d \in Dispatchers, TriggerNow(d) \/ ClaimTarget(d) \/ \E r \in RunIds : RetryRun(d, r)
        PROVE  ClaimInv'
    BY <1>0, <1>3, DispatchClaims, ClaimTargetClaims DEF TriggerNow, RetryRun
  <1>4. ASSUME NEW e \in Executions, Thread(e)
        PROVE  ClaimInv'
    BY <1>0, <1>4, AdmissionClaims, MarkRunRunningClaims, ProbeOfflineClaims, RegisterClaims, SendClaims,
       AwaitRunResultClaims, FinishAttemptClaims, ArmClaims, TimerFiresClaims, TimerCancelledClaims,
       CheckJobClaims, ReleaseClaims
       DEF Thread
  <1>5. ASSUME NEW e \in Executions, CommandResult(e) PROVE ClaimInv'
    BY <1>0, <1>5, StutterClaims, Zenon DEF CommandResult, storeVars
  <1>6. CASE CancelJob \/ \E r \in RunIds : CancelRun(r) BY <1>0, <1>6, CancelStartClaims
  <1>7. CASE Operator BY <1>7, CancelStepClaims, CancelScheduledRetryClaims DEF Operator
  <1>8. CASE DeleteJob \/ \E s \in {"enabled", "disabled"} : SetEnabled(s) BY <1>0, <1>8, EditClaims
  <1>9. CASE Stop \/ Restart BY <1>0, <1>9, EndClaims
  <1> QED BY <1>1, <1>2, <1>3, <1>4, <1>5, <1>6, <1>7, <1>8, <1>9 DEF Next

LEMMA ClaimsInvariant == Spec => []ClaimInv
  BY InitClaims, NextClaims, InductiveInvariant, PTL DEF Spec

\* Every claimed target has a live execution of it: whatever cancels, timers, errors,
\* deletions and Stop meet, no path of the scheduler leaves an entry in activeTargets that
\* nobody will remove.
THEOREM ClaimsAreReleased == Spec => []TargetsAreOwned
  <1>1. ClaimInv => TargetsAreOwned BY DEF ClaimInv, Owners, Owner, TargetsAreOwned
  <1> QED BY <1>1, ClaimsInvariant, PTL

\* As long as nothing is canceled and the scheduler is not stopped, two runs of one target
\* are never pending or running together: claimTarget keeps the executions apart, and the
\* attempts of one execution follow one another.
THEOREM RunsDoNotOverlap == Spec => []NoOverlapUnlessCanceled
  <1>1. ASSUME ClaimInv PROVE NoOverlapUnlessCanceled
    <2> SUFFICES ASSUME spent["cancels"] = 0, spent["restarts"] = 0, NEW r \in RunIds, NEW q \in RunIds, r # q,
                        Status(r) \in {"pending", "running"}, Status(q) \in {"pending", "running"}
                 PROVE  exec[r[1]].probe # exec[q[1]].probe
      BY SMTT(20) DEF NoOverlapUnlessCanceled, OneInFlightRunPerTarget, Status
    <2>1. Busy /\ Exclusive BY <1>1 DEF ClaimInv, Undisturbed
    <2>2. ASSUME NEW x \in RunIds, Status(x) \in {"pending", "running"}
          PROVE  x[1] \in Executions /\ Live(x[1]) /\ x[2] = exec[x[1]].attempt
      <3>1. x = <<x[1], x[2]>> /\ x[1] \in Executions /\ x[2] \in Attempts BY DEF RunIds
      <3> QED BY <2>1, <2>2, <3>1 DEF Busy, Live, Working
    <2>3. r[1] # q[1]
      <3>1. r = <<r[1], r[2]>> /\ q = <<q[1], q[2]>> BY DEF RunIds
      <3> QED BY <2>2, <3>1
    <2> QED BY <2>1, <2>2, <2>3, SMTT(20) DEF Exclusive
  <1> QED BY <1>1, ClaimsInvariant, PTL
=============================================================================
