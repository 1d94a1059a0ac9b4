------------------------- MODULE AsyncJobsSends_proofs -------------------------
(***************************************************************************)
(* Proofs about the commands async jobs send: none twice, and none that is *)
(* held without an approval.                                               *)
(***************************************************************************)
EXTENDS AsyncJobsRuns_proofs

----------------------------------------------------------------------------
\* A command is sent once

Spawned(c) == <<c, "drain">> \in goroutines

\* Whoever is about to send the command of call c is the only one, and has not sent it yet: a
\* goroutine of the drain loop or DispatchNow, once the job was claimed, or the handler of a call
\* that has no job.  The holder of schedMu has not yet claimed the job it is about to claim.
OneSender(c) ==
    LET state == jobs[c].state  jobless == handler[c].at = "evaluated" /\ ~handler[c].owned IN
    /\ sent[c] <= 1
    /\ Spawned(c) => sent[c] = 0 /\ state \notin {"absent", "queued"} /\ ~Sending(c)
    /\ Sending(c) => sent[c] = 0 /\ state \notin {"absent", "queued"}
    /\ handler[c].at \in {"idle", "send"} \/ jobless => sent[c] = 0 /\ state = "absent"
    /\ state = "queued" => sent[c] = 0
    /\ sched.at = "claim" /\ sched.call = c => state # "running"

\* A job is inserted once, so the drain loop lists it once; it lists no running job.
Listed ==
    /\ \A i \in DOMAIN created : jobs[created[i]].state # "absent"
    /\ \A i, j \in DOMAIN created : created[i] = created[j] => i = j
    /\ sched.at = "drain" =>
          /\ \A i \in DOMAIN sched.batch : jobs[sched.batch[i]].state # "running"
          /\ \A i, j \in DOMAIN sched.batch : sched.batch[i] = sched.batch[j] => i = j

Once == NoHolds /\ NoWaits /\ Listed /\ \A c \in Calls : OneSender(c)

\* The batch of the drain loop, and what is left of it after one round
LEMMA BatchFacts ==
    ASSUME TInv, sched.at = "drain"
    PROVE  /\ sched.batch \in Seq(Calls) /\ 1 \in DOMAIN sched.batch /\ Head(sched.batch) = sched.batch[1]
           /\ Tail(sched.batch) # sched.batch
           /\ DOMAIN Tail(sched.batch) = 1..(Len(sched.batch) - 1)
           /\ \A i \in DOMAIN Tail(sched.batch) : /\ i + 1 \in DOMAIN sched.batch
                                                  /\ Tail(sched.batch)[i] = sched.batch[i + 1]
  <1>1. sched \in Schedulers /\ sched.batch # <<>>
    BY DEF TInv, TypeOK, Shapes
  <1>2. sched.batch \in Seq(Calls)
    BY <1>1, Zenon DEF Schedulers
  <1>3. Len(sched.batch) \in Nat /\ Len(sched.batch) > 0 /\ Len(Tail(sched.batch)) = Len(sched.batch) - 1
    BY <1>1, <1>2
  <1>4. Tail(sched.batch) # sched.batch
    <2> SUFFICES ASSUME Tail(sched.batch) = sched.batch PROVE FALSE
      OBVIOUS
    <2>1. Len(Tail(sched.batch)) = Len(sched.batch)
      BY Zenon
    <2> QED BY <1>3, <2>1
  <1> QED BY <1>1, <1>2, <1>3, <1>4

\* What the scheduler claims was queued.
LEMMA ClaimedWasQueued ==
    ASSUME TInv, Once, NEW c \in Calls, ClaimsJob(c)
    PROVE  jobs[c].state = "queued"
  <1>1. jobs[c].state # "running"
    <2>1. CASE ClaimNow /\ sched.call = c
      BY <2>1 DEF ClaimNow, Once, OneSender
    <2>2. CASE DrainClaim /\ Head(sched.batch) = c
      BY <2>2, BatchFacts DEF DrainClaim, Once, Listed
    <2> QED BY <2>1, <2>2 DEF ClaimsJob
  <1>2. jobs[c].state # "waiting_approval"
    BY DEF Once, NoHolds
  <1> QED BY <1>1, <1>2 DEF ClaimsJob, Claims, TransitionSucceeds, CanTransitionAsyncJob, TerminalStates

\* A command is sent once, by the handler, the scheduler or the goroutine that claimed it.
LEMMA WhoSends ==
    ASSUME TInv, Once, [Next]_vars, NEW c \in Calls, sent'[c] # sent[c]
    PROVE  /\ sent[c] = 0 /\ sent'[c] = 1
           /\ \/ InvokeCommand(c, TRUE)
              \/ Sending(c) /\ sched' = FreeSched
              \/ Spawned(c) /\ ~Spawned(c)'
  <1>0. sent[c] \in Nat /\ goroutines \subseteq Goroutines /\ OneSender(c)
    BY DEF TInv, TypeOK, Once
  <1>1. /\ sent'[c] = sent[c] + 1
        /\ \/ InvokeCommand(c, TRUE)
           \/ SendNow(TRUE) /\ sched.call = c
           \/ \E g \in goroutines : RunGoroutine(g, TRUE) /\ g[1] = c
           \/ \E o \in Operators : DispatchApproved(o, TRUE) /\ operator[o].call = c
    BY ProbeStep, Zenon DEF ProbeGoes
  <1>2. ~\E o \in Operators : DispatchApproved(o, TRUE)
    BY DEF DispatchApproved, Once, NoHolds
  <1>3. CASE InvokeCommand(c, TRUE)
    BY <1>0, <1>1, <1>3 DEF OneSender, InvokeCommand
  <1>4. CASE SendNow(TRUE) /\ sched.call = c
    <2>1. Sending(c) /\ sched' = FreeSched
      BY <1>4 DEF SendNow, Sending
    <2> QED BY <1>0, <1>1, <2>1 DEF OneSender
  <1>5. ASSUME NEW g \in goroutines, RunGoroutine(g, TRUE), g[1] = c
        PROVE  sent[c] = 0 /\ sent'[c] = 1 /\ Spawned(c) /\ ~Spawned(c)'
    <2>1. g[2] = "drain" /\ g \in Goroutines
      BY <1>0 DEF Once, NoHolds
    <2>2. g = <<c, "drain">>
      BY <1>5, <2>1 DEF Goroutines
    <2>3. Spawned(c) /\ ~Spawned(c)'
      BY <1>5, <2>2 DEF RunGoroutine, Spawned
    <2> QED BY <1>0, <1>1, <2>3 DEF OneSender
  <1> QED BY <1>1, <1>2, <1>3, <1>4, <1>5, Zenon

\* A job that was claimed stays claimed.
LEMMA ClaimedStays ==
    ASSUME TInv, Once, [Next]_vars, NEW c \in Calls, jobs[c].state \notin {"absent", "queued"}
    PROVE  jobs'[c].state \notin {"absent", "queued"}
  <1>1. JobGoes(c) /\ jobs'[c].state # "absent"
    BY JobsStep, AbsentRows, Zenon
  <1>2. ~\E outcome \in Outcomes, wait \in WaitModes : Dispatch(c, outcome, wait)
    BY Zenon DEF Dispatch, Once, OneSender
  <1> QED BY <1>1, <1>2 DEF JobGoes, TerminalStates

\* A claim finds a queued job whose command has not been sent, and starts it.
LEMMA ClaimedRuns ==
    ASSUME TInv, Once, [Next]_vars, NEW c \in Calls, ClaimsJob(c)
    PROVE  jobs'[c].state = "running" /\ sent'[c] = 0 /\ ~Spawned(c)
  <1>1. jobs[c].state = "queued" /\ Rows(jobs)
    BY ClaimedWasQueued DEF TInv, TypeOK, Rows
  <1>2. sent[c] = 0 /\ ~Spawned(c) /\ sent' = sent
    BY <1>1 DEF Once, OneSender, ClaimsJob, ClaimNow, DrainClaim, probeVars
  <1>3. jobs' = TransitionAsyncJob(jobs, c, "running")
    BY DEF ClaimsJob, ClaimNow, DrainClaim
  <1>4. jobs'[c] = TransitionRow(jobs[c], "running") /\ jobs[c] \in JobRow
    BY <1>1, <1>3 DEF TransitionAsyncJob, Rows
  <1>5. jobs'[c].state = "running"
    BY <1>1, <1>4, TransitionRowMoves DEF CanTransitionAsyncJob, JobStates, AsyncJobStates
  <1> QED BY <1>2, <1>5

\* A goroutine that was started has not sent, and nobody else is about to.
LEMMA SpawnedStep ==
    ASSUME TInv, Once, [Next]_vars, NEW c \in Calls, Spawned(c)'
    PROVE  sent'[c] = 0 /\ jobs'[c].state \notin {"absent", "queued"} /\ ~Sending(c)'
  <1>1. CASE ~Spawned(c)
    <2>1. ~TimeOutSync /\ ~Restart /\ ~\E g \in Goroutines, ok \in SendResults : RunGoroutine(g, ok)
      BY <1>1 DEF TimeOutSync, Restart, RunGoroutine, Spawned, Once, NoHolds
    <2>2. ~\E o \in Operators : ApproveJob(o)
      BY <1>1 DEF ApproveJob, Spawned
    <2>3. DrainClaim
      BY <1>1, <2>1, <2>2, GoroutineFrame DEF Spawned
    <2>4. ClaimsJob(c)
      BY <1>1, <2>3 DEF DrainClaim, ClaimsJob, Spawned
    <2>5. ~Sending(c)'
      BY <2>3, DrainClaimFacts, FreeSchedFacts DEF Sending
    <2> QED BY <2>4, <2>5, ClaimedRuns
  <1>2. CASE Spawned(c)
    <2>1. sent[c] = 0 /\ jobs[c].state \notin {"absent", "queued"} /\ ~Sending(c) /\ handler[c].at # "send"
      BY <1>2 DEF Once, OneSender
    <2>2. sent'[c] = sent[c]
      BY <2>1, WhoSends DEF InvokeCommand
    <2>3. ~Sending(c)'
      <3> SUFFICES ASSUME Sending(c)' PROVE FALSE
        OBVIOUS
      <3>1. ClaimsJob(c)
        BY <2>1, SendingStarts
      <3> QED BY <2>1, <3>1, ClaimedWasQueued
    <2> QED BY <2>1, <2>2, <2>3, ClaimedStays
  <1> QED BY <1>1, <1>2

\* DispatchNow has not sent when it is about to send.
LEMMA SendingStep ==
    ASSUME TInv, Once, [Next]_vars, NEW c \in Calls, Sending(c)'
    PROVE  sent'[c] = 0 /\ jobs'[c].state \notin {"absent", "queued"}
  <1>1. CASE ClaimsJob(c)
    BY <1>1, ClaimedRuns
  <1>2. CASE Sending(c) /\ sched' = sched
    <2>1. sent[c] = 0 /\ jobs[c].state \notin {"absent", "queued"} /\ ~Spawned(c) /\ handler[c].at # "send"
      BY <1>2 DEF Once, OneSender
    <2>2. sched' # FreeSched
      BY <1>2, FreeSchedFacts DEF Sending
    <2>3. sent'[c] = sent[c]
      BY <2>1, <2>2, WhoSends DEF InvokeCommand
    <2> QED BY <2>1, <2>3, ClaimedStays
  <1> QED BY <1>1, <1>2, SendingStarts

Jobless(c) == handler[c].at \in {"idle", "send"} \/ (handler[c].at = "evaluated" /\ ~handler[c].owned)

\* A call without a job has sent nothing before its handler does.
LEMMA JoblessStep ==
    ASSUME TInv, Once, [Next]_vars, NEW c \in Calls, Jobless(c)'
    PROVE  sent'[c] = 0 /\ jobs'[c].state = "absent"
  <1>0. handler \in [Calls -> Handlers] /\ HandlerGoes(c) /\ Rows(jobs)
    BY HandlersStep DEF TInv, TypeOK, Rows
  <1>1. ASSUME NEW outcome \in Outcomes, NEW wait \in WaitModes, Dispatch(c, outcome, wait)
        PROVE  sent'[c] = 0 /\ jobs'[c].state = "absent"
    <2>1. handler[c].at = "idle" /\ ~handler'[c].owned
      BY <1>0, <1>1, DispatchFacts, Zenon DEF Jobless
    <2>2. jobs' = jobs /\ sent' = sent
      BY <1>0, <1>1, <2>1, DispatchFacts, Zenon DEF Dispatch, probeVars
    <2> QED BY <2>1, <2>2 DEF Once, OneSender
  <1>2. ASSUME ~\E outcome \in Outcomes, wait \in WaitModes : Dispatch(c, outcome, wait)
        PROVE  sent'[c] = 0 /\ jobs'[c].state = "absent"
    <2>1. Jobless(c) /\ ~InvokeCommand(c, TRUE)
      <3>1. CASE MarkRunning(c)
        BY <3>1 DEF MarkRunning, InvokeCommand, Jobless, Once, NoWaits
      <3>2. CASE handler'[c] = handler[c]
        <4>1. Jobless(c)
          BY <3>2 DEF Jobless
        <4>2. ~InvokeCommand(c, TRUE)
          <5> SUFFICES ASSUME InvokeCommand(c, TRUE) PROVE FALSE
            BY Zenon
          <5>1. handler[c].at = "send" /\ HandlerAt(c, "done")
            BY DEF InvokeCommand, Once, NoWaits
          <5> QED BY <1>0, <3>2, <5>1, HandlerAtFacts DEF HandlerPlaces
        <4> QED BY <4>1, <4>2, Zenon
      <3>3. CASE handler'[c] # handler[c] /\ ~MarkRunning(c)
        <4>1. handler'[c].at \notin {"idle", "send", "evaluated"}
          BY <1>0, <1>2, <3>3, Zenon DEF HandlerGoes
        <4> QED BY <4>1 DEF Jobless
      <3> QED BY <3>1, <3>2, <3>3, Zenon
    <2>2. sent[c] = 0 /\ jobs[c].state = "absent" /\ ~Sending(c) /\ ~Spawned(c)
      BY <2>1 DEF Once, OneSender, Jobless
    <2>3. sent'[c] = sent[c]
      BY <2>1, <2>2, WhoSends, Zenon
    <2> QED BY <1>2, <2>2, <2>3, AbsentRows
  <1> QED BY <1>1, <1>2

\* The command of a queued job has not been sent.
LEMMA QueuedStep ==
    ASSUME TInv, Once, [Next]_vars, NEW c \in Calls, jobs'[c].state = "queued"
    PROVE  sent'[c] = 0
  <1>1. CASE jobs[c].state = "queued"
    <2>1. sent[c] = 0 /\ ~Spawned(c) /\ ~Sending(c) /\ handler[c].at # "send"
      BY <1>1 DEF Once, OneSender
    <2> QED BY <2>1, WhoSends DEF InvokeCommand
  <1>2. CASE \E outcome \in Outcomes, wait \in WaitModes : Dispatch(c, outcome, wait)
    BY <1>2 DEF Dispatch, probeVars, Once, OneSender
  <1> QED BY <1>1, <1>2, JobsStep DEF JobGoes, TerminalStates

\* The job DispatchNow is about to claim does not run yet.
LEMMA ClaimingStep ==
    ASSUME TInv, Once, [Next]_vars, NEW c \in Calls, sched'.at = "claim", sched'.call = c
    PROVE  jobs'[c].state # "running"
  <1>0. sched' # FreeSched
    BY FreeSchedFacts
  <1>1. CASE sched' = sched
    <2>1. jobs[c].state # "running"
      BY <1>1 DEF Once, OneSender
    <2>2. ~ClaimsJob(c)
      <3>1. ~DrainClaim
        BY <1>1 DEF DrainClaim
      <3>2. ~(ClaimNow /\ sched.call = c /\ Claims(c))
        BY ClaimNowFacts
      <3> QED BY <3>1, <3>2 DEF ClaimsJob
    <2> QED BY <2>1, <2>2, OnlyClaimsStart DEF Once
  <1>2. ASSUME NEW d \in Calls, DispatchNow(d), sched' # sched
        PROVE  jobs'[c].state # "running"
    <2>1. jobs[d].state = "queued" /\ jobs' = jobs
      BY <1>2 DEF DispatchNow, storeVars
    <2>2. sched'.call = d
      BY <1>2, <2>1, SchedTaken
    <2> QED BY <2>1, <2>2
  <1>3. ~DrainCount /\ ~DrainList /\ ~DrainClaim
    BY <1>0, SchedCounted, ListedFacts, DrainClaimFacts
  <1>4. ~Restart /\ ~\E ok \in SendResults : SendNow(ok)
    BY <1>0, Zenon DEF Restart, SendNow
  <1>5. ~ClaimNow
    BY <1>0, ClaimNowFacts
  <1> QED BY <1>1, <1>2, <1>3, <1>4, <1>5, SchedFrame DEF SchedStep

\* So there is one sender for every call.
LEMMA SenderStep ==
    ASSUME TInv, Once, [Next]_vars, NEW c \in Calls
    PROVE  OneSender(c)'
  <1>1. sent'[c] <= 1
    <2>1. sent[c] <= 1 /\ (sent'[c] = sent[c] \/ sent'[c] = 1)
      BY WhoSends, Zenon DEF Once, OneSender
    <2> QED BY <2>1
  <1>2. Jobless(c)' <=> handler'[c].at \in {"idle", "send"} \/ (handler'[c].at = "evaluated" /\ ~handler'[c].owned)
    BY DEF Jobless
  <1> QED BY <1>1, <1>2, SpawnedStep, SendingStep, JoblessStep, QueuedStep, ClaimingStep DEF OneSender

\* The jobs in creation order are jobs, each once.
LEMMA CreatedStep ==
    ASSUME TInv, Once, [Next]_vars
    PROVE  /\ \A i \in DOMAIN created' : jobs'[created'[i]].state # "absent"
           /\ \A i, j \in DOMAIN created' : created'[i] = created'[j] => i = j
  <1>0. created \in Seq(Calls)
    BY DEF TInv, TypeOK
  <1>1. \A i \in DOMAIN created : created[i] \in Calls
    BY <1>0
  <1>2. /\ \A i \in DOMAIN created : jobs[created[i]].state # "absent" /\ jobs'[created[i]].state # "absent"
        /\ \A i, j \in DOMAIN created : created[i] = created[j] => i = j
    BY <1>1, AbsentRows DEF Once, Listed
  <1>3. CASE created' = created
    BY <1>2, <1>3
  <1>4. ASSUME NEW c \in Calls, NEW outcome \in Outcomes, NEW wait \in WaitModes, Dispatch(c, outcome, wait),
               created' # created
        PROVE  /\ \A i \in DOMAIN created' : jobs'[created'[i]].state # "absent"
               /\ \A i, j \in DOMAIN created' : created'[i] = created'[j] => i = j
    <2>1. created' = Append(created, c) /\ jobs' = [jobs EXCEPT ![c] = QueuedRow] /\ ~RequestTaken(c)
      BY <1>4 DEF Dispatch
    <2>2. jobs[c].state = "absent" /\ jobs'[c].state # "absent"
      BY <2>1, NewRows DEF RequestTaken, TInv, TypeOK
    <2>3. /\ Len(created) \in Nat /\ DOMAIN created = 1..Len(created) /\ DOMAIN created' = 1..(Len(created) + 1)
          /\ \A i \in 1..Len(created) : created'[i] = created[i]
          /\ created'[Len(created) + 1] = c
      BY <1>0, <2>1
    <2>4. \A i \in 1..Len(created) : created[i] # c
      BY <1>2, <2>2, <2>3
    <2> QED BY <1>2, <2>2, <2>3, <2>4
  <1> QED BY <1>3, <1>4, CreatedFrame

\* The jobs still to be claimed do not run, and are listed once.
LEMMA BatchStep ==
    ASSUME TInv, Once, [Next]_vars, sched'.at = "drain"
    PROVE  /\ \A i \in DOMAIN sched'.batch : jobs'[sched'.batch[i]].state # "running"
           /\ \A i, j \in DOMAIN sched'.batch : sched'.batch[i] = sched'.batch[j] => i = j
  <1>0. sched' # FreeSched
    BY FreeSchedFacts
  <1>1. CASE sched' = sched
    <2>1. ~\E c \in Calls : ClaimsJob(c)
      <3>1. ~ClaimNow
        BY <1>1 DEF ClaimNow
      <3>2. ~DrainClaim
        BY <1>0, <1>1, BatchFacts, DrainClaimFacts, Zenon
      <3> QED BY <3>1, <3>2 DEF ClaimsJob
    <2>2. \A i \in DOMAIN sched.batch : sched.batch[i] \in Calls /\ jobs[sched.batch[i]].state # "running"
      BY <1>1, BatchFacts DEF Once, Listed
    <2>3. \A i \in DOMAIN sched.batch : jobs'[sched.batch[i]].state # "running"
      BY <2>1, <2>2, OnlyClaimsStart DEF Once
    <2> QED BY <1>1, <2>3 DEF Once, Listed
  <1>2. CASE DrainList
    <2> DEFINE batch == sched'.batch
    <2>1. /\ \A i \in 1..Len(batch) : jobs[batch[i]].state = "queued"
          /\ \A i, j \in 1..Len(batch) : i < j => Older(batch[i], batch[j])
          /\ jobs' = jobs
      BY <1>0, <1>2, ListedFacts, Zenon DEF DrainList, storeVars
    <2>2. DOMAIN batch = 1..Len(batch) /\ Len(batch) \in Nat
      <3>1. sched' \in Schedulers
        BY <1>0, <1>2, ListedFacts
      <3>2. batch \in Seq(Calls)
        BY <3>1, Zenon DEF Schedulers
      <3> QED BY <3>2
    <2>3. \A c : ~Older(c, c)
      <3>1. created \in Seq(Calls) /\ \A i, j \in DOMAIN created : created[i] = created[j] => i = j
        BY DEF TInv, TypeOK, Once, Listed
      <3> QED BY <3>1 DEF Older
    <2> HIDE DEF batch
    <2>4. \A i, j \in DOMAIN batch : batch[i] = batch[j] => i = j
      <3> SUFFICES ASSUME NEW i \in DOMAIN batch, NEW j \in DOMAIN batch, batch[i] = batch[j], i # j
                   PROVE  FALSE
        OBVIOUS
      <3>1. i < j \/ j < i
        BY <2>2
      <3> QED BY <2>1, <2>2, <2>3, <3>1
    <2>5. \A i \in DOMAIN batch : jobs'[batch[i]].state # "running"
      BY <2>1, <2>2
    <2> QED BY <2>4, <2>5, Zenon DEF batch
  <1>3. CASE DrainClaim
    <2> DEFINE batch == Tail(sched.batch)
    <2>1. sched.at = "drain" /\ sched'.batch = batch
      BY <1>0, <1>3, DrainClaimFacts DEF DrainClaim
    <2>2. /\ DOMAIN batch = 1..(Len(sched.batch) - 1) /\ sched.batch \in Seq(Calls)
          /\ \A i \in DOMAIN batch : i + 1 \in DOMAIN sched.batch /\ batch[i] = sched.batch[i + 1]
          /\ Head(sched.batch) = sched.batch[1] /\ 1 \in DOMAIN sched.batch
      BY <2>1, BatchFacts
    <2> HIDE DEF batch
    <2>3. \A i, j \in DOMAIN batch : batch[i] = batch[j] => i = j
      BY <2>1, <2>2 DEF Once, Listed
    <2>4. ASSUME NEW i \in DOMAIN batch
          PROVE  jobs'[batch[i]].state # "running"
      <3>1. i \in Nat /\ i + 1 # 1 /\ batch[i] \in Calls
        BY <2>2
      <3>2. batch[i] # Head(sched.batch) /\ jobs[batch[i]].state # "running"
        BY <2>1, <2>2, <3>1 DEF Once, Listed
      <3>3. ~ClaimsJob(batch[i])
        BY <1>3, <3>2, Zenon DEF ClaimsJob, DrainClaim, ClaimNow
      <3> QED BY <3>1, <3>2, <3>3, OnlyClaimsStart DEF Once
    <2> QED BY <2>1, <2>3, <2>4, Zenon
  <1>4. ASSUME NEW c \in Calls, DispatchNow(c), sched' # sched
        PROVE  FALSE
    BY <1>4, SchedTaken, Zenon DEF DispatchNow
  <1>5. ~DrainCount /\ ~ClaimNow /\ ~Restart /\ ~\E ok \in SendResults : SendNow(ok)
    <2>1. ~DrainCount /\ ~ClaimNow
      BY <1>0, SchedCounted, ClaimNowFacts
    <2>2. ~Restart /\ ~\E ok \in SendResults : SendNow(ok)
      BY <1>0, Zenon DEF Restart, SendNow
    <2> QED BY <2>1, <2>2
  <1> QED BY <1>1, <1>2, <1>3, <1>4, <1>5, SchedFrame DEF SchedStep

\* A command goes to its probe at most once, although the drain loop and DispatchNow compete for
\* its job and a restarted control plane finds it in the table: for any calls, limits, request
\* ids and restarts, as long as no command is held for approval and no client uses ?wait.
THEOREM SentOnce ==
    ASSUME "queue" \notin Outcomes, TRUE \notin WaitModes
    PROVE  Spec => []SentAtMostOnce
  <1>1. Init => Once
    <2> SUFFICES ASSUME Init PROVE Listed /\ \A c \in Calls : OneSender(c)
      BY NothingHeldInit, NoWaitsInit DEF Once
    <2>1. sched.at = "free" /\ goroutines = {} /\ \A c \in Calls : sent[c] = 0 /\ jobs[c].state = "absent"
      BY NewRows, FreeSchedFacts DEF Init
    <2>2. Listed
      BY <2>1 DEF Init, Listed
    <2> QED BY <2>1, <2>2 DEF OneSender, Spawned, Sending
  <1>2. TInv /\ Once /\ [Next]_vars => Once'
    <2> SUFFICES ASSUME TInv, Once, [Next]_vars PROVE Once'
      OBVIOUS
    <2>1. Listed'
      BY CreatedStep, BatchStep DEF Listed
    <2>2. \A c \in Calls : OneSender(c)'
      BY SenderStep
    <2>3. NoHolds' /\ NoWaits'
      BY NothingHeldStep, NoWaitsStep DEF Once
    <2> QED BY <2>1, <2>2, <2>3 DEF Once
  <1>3. Once => SentAtMostOnce
    BY DEF Once, OneSender, SentAtMostOnce
  <1> QED BY <1>1, <1>2, <1>3, TypeInvariant, PTL DEF Spec

----------------------------------------------------------------------------
\* Commands held for approval

Approved(c) == c \in DOMAIN requests /\ requests[c].decision = "approved"

\* An operator who dispatches does so on an approval.
ActsOnApproval(o) ==
    /\ operator[o].at \notin {"read", "late", "approved"}
    /\ operator[o].at = "send" => Approved(operator[o].call)

\* Nobody but the decide endpoint sends a held command, and it does so on an approval that is
\* still in the queue; the jobs the timeout checker is about to escalate have closed windows.
HeldSafely ==
    /\ goroutines = {} /\ sched.at \notin {"list", "drain"}
    /\ sched.at \in {"claim", "send"} => handler[sched.call].outcome = "allow"
    /\ \A c \in Calls : /\ handler[c].at = "send" => handler[c].outcome = "allow"
                        /\ handler[c].at \in {"idle", "evaluated"} => c \notin DOMAIN requests
    /\ \A o \in Operators : ActsOnApproval(o)
    /\ checker.at = "sync" => ~checker.approve
    /\ \A c \in checker.left : /\ jobs[c].state \notin {"absent", "queued"}
                               /\ jobs[c].state = "waiting_approval" => jobs[c].expires <= checker.tick

\* The approval window of a job that goes on waiting changes only when the checker escalates it.
LEMMA WindowStep ==
    ASSUME TInv, [Next]_vars, NEW c \in Calls, IsWaiting(jobs, c), IsWaiting(jobs', c)
    PROVE  jobs'[c] = jobs[c] \/ Escalate(c)
  <1> SUFFICES ASSUME jobs'[c] # jobs[c], ~Escalate(c)
               PROVE  FALSE
    OBVIOUS
  <1>0. Rows(jobs) /\ jobs[c] \in JobRow /\ jobs[c].state = "waiting_approval" /\ jobs'[c].state = "waiting_approval"
    BY DEF TInv, TypeOK, Rows, IsWaiting
  <1>1. jobs' # jobs
    OBVIOUS
  <1>2. ASSUME NEW d, NEW to \in TerminalStates \cup {"running"},
               jobs' = TransitionAsyncJob(jobs, d, to) \/ jobs' = TransitionByRequestID(d, to)
        PROVE  FALSE
    <2>1. jobs'[c] = TransitionRow(jobs[c], to) \/ jobs'[c] = jobs[c]
      BY <1>0, <1>2, Zenon DEF TransitionAsyncJob, TransitionByRequestID, Rows
    <2>2. TransitionRow(jobs[c], to) = jobs[c] \/ TransitionRow(jobs[c], to).state = to
      BY <1>0, TransitionRowMoves, Zenon DEF TransitionRow, JobStates, AsyncJobStates
    <2> QED BY <1>0, <2>1, <2>2 DEF TerminalStates
  <1>3. ASSUME NEW d, NEW s, jobs' = [jobs EXCEPT ![d] = s]
        PROVE  d = c /\ jobs'[c] = s /\ s.state = "waiting_approval"
    BY <1>0, <1>3 DEF Rows
  <1>4. ASSUME NEW d, jobs' = ApproveAsyncJob(jobs, d)
        PROVE  FALSE
    <2> DEFINE s == [jobs[d] EXCEPT !.state = "running", !.started = TRUE]
    <2>1. jobs' = [jobs EXCEPT ![d] = s]
      BY <1>1, <1>4, Zenon DEF ApproveAsyncJob
    <2> HIDE DEF s
    <2>2. d = c /\ s.state = "waiting_approval"
      BY <1>3, <2>1, Zenon
    <2>3. s.state = "running"
      BY <1>0, <2>2, Zenon DEF JobRow, s
    <2> QED BY <2>2, <2>3
  <1>5. ASSUME NEW d \in Calls, HandlerStep(d)
        PROVE  FALSE
    <2>1. ~MarkWaiting(d)
      <3> SUFFICES ASSUME MarkWaiting(d) PROVE FALSE
        OBVIOUS
      <3> DEFINE s == [jobs[d] EXCEPT !.state = "waiting_approval", !.approval = TRUE, !.expires = handler[d].expires]
      <3>1. CanTransitionAsyncJob(jobs[d].state, "waiting_approval") /\ jobs' = [jobs EXCEPT ![d] = s]
        BY <1>1, Zenon DEF MarkWaiting, MarkWaitingApproval
      <3> HIDE DEF s
      <3>2. d = c
        BY <1>3, <3>1
      <3> QED BY <1>0, <3>1, <3>2 DEF CanTransitionAsyncJob, TerminalStates
    <2>2. jobs' = TransitionByRequestID(d, "failed") \/ jobs' = TransitionByRequestID(d, "succeeded")
          \/ jobs' = TransitionAsyncJob(jobs, d, "running")
      BY <1>1, <1>5, <2>1, Zenon DEF HandlerStep, Deny, SubmitApproval, MarkRunning, InvokeCommand, FinishWait,
            CompleteByRequestID, DispatchNow, storeVars
    <2> QED BY <1>2, <2>2 DEF TerminalStates
  <1>6. ~SchedStep /\ ~DrainCount
    <2>1. SchedStep \/ DrainCount => \E d : jobs' = TransitionByRequestID(d, "failed") \/ jobs' = TransitionAsyncJob(jobs, d, "running")
      BY <1>1, Zenon DEF SchedStep, SendNow, ClaimNow, DrainClaim, DrainList, DrainCount, storeVars
    <2> QED BY <1>2, <2>1 DEF TerminalStates
  <1>7. ~\E g \in Goroutines, ok \in SendResults : RunGoroutine(g, ok)
    BY <1>1, <1>2 DEF RunGoroutine, TerminalStates
  <1>8. ASSUME NEW o \in Operators, OperatorStep(o)
        PROVE  FALSE
    <2>1. jobs' = ApproveAsyncJob(jobs, operator[o].call)
          \/ jobs' = TransitionByRequestID(operator[o].call, "failed")
          \/ jobs' = TransitionByRequestID(operator[o].call, "running")
      BY <1>1, <1>8, Zenon DEF OperatorStep, ApproveSync, ApproveJob, ApproveLate, RejectSync, DecisionRecorded,
                                DispatchApproved, ApprovedDispatch, CancelTracked, storeVars
    <2> QED BY <1>2, <1>4, <2>1 DEF TerminalStates
  <1>9. ASSUME NEW o \in Operators, NEW d \in Calls,
               \/ ApproveRead(o, d) \/ Reject(o, d) \/ Cancel(o, d)
               \/ \E dec \in {"approved", "denied"} : Decide(o, d, dec)
        PROVE  FALSE
    <2>1. CASE Reject(o, d)
      <3> DEFINE s == [jobs[d] EXCEPT !.state = "failed"]
      <3>1. jobs[d] \in JobRow /\ jobs' = [jobs EXCEPT ![d] = s]
        BY <1>0, <2>1 DEF Reject, RejectAsyncJob, Rows
      <3>2. s.state = "failed"
        BY <3>1, Zenon DEF JobRow
      <3> HIDE DEF s
      <3> QED BY <1>3, <3>1, <3>2, Zenon
    <2> QED BY <1>1, <1>2, <1>9, <2>1 DEF ApproveRead, Cancel, Decide, storeVars, TerminalStates
  <1>10. ~CheckerStep
    <2>1. ASSUME NEW d \in Calls, Escalate(d)
          PROVE  FALSE
      <3> DEFINE t == checker.tick + Extension  s == [jobs[d] EXCEPT !.expires = t]
      <3>0. jobs' = ExtendApprovalExpiry(jobs, d, t)
        BY <2>1, Zenon DEF Escalate
      <3> HIDE DEF t
      <3>1. jobs' = [jobs EXCEPT ![d] = s]
        BY <1>1, <3>0 DEF ExtendApprovalExpiry
      <3> HIDE DEF s
      <3> QED BY <1>3, <2>1, <3>1
    <2>2. ASSUME NEW d \in Calls, TimeOut(d)
          PROVE  FALSE
      <3>1. jobs' = ApproveAsyncJob(jobs, d) \/ jobs' = TransitionAsyncJob(jobs, d, "cancelled")
        BY <2>2, Zenon DEF TimeOut
      <3> QED BY <1>2, <1>4, <3>1 DEF TerminalStates
    <2> QED BY <1>1, <2>1, <2>2, Zenon DEF CheckerStep, CheckTimeouts, TimeOutSync, storeVars
  <1>11. ~Restart
    <2> SUFFICES ASSUME Restart PROVE FALSE
      OBVIOUS
    <2>1. jobs'[c] = [jobs[c] EXCEPT !.state = "expired"]
      BY <1>0 DEF Restart, ExpireStale, Rows
    <2>2. [jobs[c] EXCEPT !.state = "expired"].state = "expired"
      BY <1>0, Zenon DEF JobRow
    <2> QED BY <1>0, <2>1, <2>2
  <1>12. ~\E d \in Calls, ok \in BOOLEAN : ProbeResult(d, ok)
    BY <1>2 DEF ProbeResult, CompleteByRequestID, TerminalStates
  <1>13. ~\E d \in Calls, outcome \in Outcomes, wait \in WaitModes : Dispatch(d, outcome, wait)
    <2> SUFFICES ASSUME NEW d \in Calls, NEW outcome \in Outcomes, NEW wait \in WaitModes, Dispatch(d, outcome, wait)
                 PROVE  FALSE
      OBVIOUS
    <2>1. jobs' = [jobs EXCEPT ![d] = QueuedRow]
      BY <1>1 DEF Dispatch
    <2> QED BY <1>3, <2>1, NewRows, Zenon
  <1>14. ~Sweep /\ ~Tick /\ ~UNCHANGED vars
    BY <1>1 DEF Sweep, Tick, vars, storeVars
  <1> QED BY <1>5, <1>6, <1>7, <1>8, <1>9, <1>10, <1>11, <1>12, <1>13, <1>14, Zenon DEF Next

\* Within the retention an approval stays in the queue, whatever happens to other requests.
LEMMA EvictKeepsApproved ==
    ASSUME NEW q, NEW t \in Nat, t <= Retention, NEW c \in DOMAIN q, q[c] \in Request, q[c].decision = "approved"
    PROVE  c \in DOMAIN EvictExpired(q, t) /\ EvictExpired(q, t)[c] = q[c]
  <1>1. ExpireIfLate(q[c], t) = q[c]
    BY DEF ExpireIfLate
  <1>2. q[c].createdAt \in Nat /\ Retention \in Nat
    BY QueueAssumption DEF Request
  <1>3. q[c].createdAt >= t - Retention
    BY <1>2
  <1> QED BY <1>1, <1>3 DEF EvictExpired

\* A decision leaves approved requests alone, the one it is about included.
LEMMA DecideKeepsApproved ==
    ASSUME NEW q, NEW t, NEW c \in DOMAIN q, q[c].decision = "approved", NEW d, NEW dec, NEW by
    PROVE  c \in DOMAIN AfterDecide(q, d, dec, by, t) /\ AfterDecide(q, d, dec, by, t)[c] = q[c]
  <1>1. CASE d = c
    BY <1>1 DEF AfterDecide, DecideOutcome
  <1>2. CASE d # c
    BY <1>2 DEF AfterDecide
  <1> QED BY <1>1, <1>2

\* No step but a restart takes an approval back.
LEMMA ApprovalsStay ==
    ASSUME MaxTime <= Retention, TInv, HeldSafely, [Next]_vars, ~Restart, NEW c, Approved(c)
    PROVE  Approved(c)'
  <1>0. /\ c \in DOMAIN requests /\ requests[c] \in Request /\ requests[c].decision = "approved"
        /\ now \in Nat /\ now <= Retention /\ c \in Calls
    BY AsyncAssumption, QueueAssumption DEF TInv, TypeOK, Approved
  <1>1. CASE requests' = requests
    BY <1>1 DEF Approved
  <1>2. c \in DOMAIN EvictExpired(requests, now) /\ EvictExpired(requests, now)[c] = requests[c]
    BY <1>0, EvictKeepsApproved
  <1>3. ASSUME NEW d \in Calls, NEW second \in SecondModes, SubmitApproval(d, second)
        PROVE  Approved(c)'
    <2>1. c # d
      BY <1>0, <1>3 DEF SubmitApproval, HeldSafely
    <2>2. requests' = EvictExpired(requests, now) \/ requests' = AfterSubmit(requests, d, second, now)
      BY <1>3 DEF SubmitApproval
    <2> QED BY <1>0, <1>2, <2>1, <2>2 DEF AfterSubmit, Approved
  <1>4. ASSUME NEW d, NEW dec, NEW by, requests' = AfterDecide(requests, d, dec, by, now) \/ requests' = requests
        PROVE  Approved(c)'
    BY <1>0, <1>1, <1>4, DecideKeepsApproved DEF Approved
  <1>5. ASSUME NEW o \in Operators, ApproveSync(o) \/ RejectSync(o)
        PROVE  Approved(c)'
    BY <1>4, <1>5, Zenon DEF ApproveSync, RejectSync, Synced
  <1>6. CASE TimeOutSync
    BY <1>4, <1>6, Zenon DEF TimeOutSync, Synced
  <1>7. ASSUME NEW o \in Operators, NEW d \in Calls, NEW dec \in {"approved", "denied"}, Decide(o, d, dec)
        PROVE  Approved(c)'
    BY <1>4, <1>7, Zenon DEF Decide
  <1>8. CASE Sweep
    BY <1>0, <1>2, <1>8, Zenon DEF Sweep, Approved
  <1> QED BY <1>1, <1>3, <1>5, <1>6, <1>7, <1>8, QueueFrame

\* Requests enter the queue only through Submit.
LEMMA SubmittedOnly ==
    ASSUME TInv, [Next]_vars, NEW c \in DOMAIN requests', c \notin DOMAIN requests
    PROVE  \E second \in SecondModes : SubmitApproval(c, second)
  <1>1. requests' # requests
    OBVIOUS
  <1>2. ASSUME NEW d, NEW dec, NEW by, requests' = AfterDecide(requests, d, dec, by, now)
        PROVE  FALSE
    BY <1>2 DEF AfterDecide
  <1>3. ~Sweep /\ ~Restart
    BY EvictFacts DEF Sweep, Restart, EmptyQueue
  <1>4. ~TimeOutSync /\ ~\E o \in Operators : ApproveSync(o) \/ RejectSync(o)
    BY <1>1, <1>2, Zenon DEF TimeOutSync, ApproveSync, RejectSync, Synced
  <1>5. ~\E o \in Operators, d \in Calls, dec \in {"approved", "denied"} : Decide(o, d, dec)
    BY <1>2 DEF Decide
  <1>6. PICK d \in Calls, second \in SecondModes : SubmitApproval(d, second)
    BY <1>1, <1>3, <1>4, <1>5, QueueFrame
  <1>7. c = d
    BY <1>6, EvictFacts DEF SubmitApproval, AfterSubmit
  <1> QED BY <1>6, <1>7

\* The checker between two ticks has no list.
LEMMA NoCallLeft == IdleChecker.left = {}
  BY DEF IdleChecker

\* Who is on the checker's list after a step
LEMMA LeftStep ==
    ASSUME TInv, [Next]_vars, NEW c \in checker'.left
    PROVE  /\ c \in Calls
           /\ \/ c \in checker.left /\ checker'.tick = checker.tick /\ ~Escalate(c)
              \/ CheckTimeouts /\ ApprovalWindowClosed(jobs, c, now) /\ checker'.tick = now
  <1>0. checker \in Checkers /\ checker.left \in SUBSET Calls /\ CheckerGoes
    <2>1. checker \in Checkers /\ CheckerGoes
      BY CheckerStepFacts DEF TInv, TypeOK
    <2> QED BY <2>1, Zenon DEF Checkers
  <1>1. checker' # IdleChecker
    BY NoCallLeft
  <1>2. ~Escalate(c)
    <2> SUFFICES ASSUME Escalate(c) PROVE FALSE
      OBVIOUS
    <2> DEFINE left == checker.left \ {c}
    <2>1. left \in SUBSET Calls /\ c \notin left /\ checker' = Remaining(left)
      BY <1>0, Zenon DEF Escalate
    <2> HIDE DEF left
    <2> QED BY <1>0, <1>1, <2>1, RemainingFacts
  <1>3. CASE CheckTimeouts /\ checker'.tick = now /\ checker'.left = {d \in Calls : ApprovalWindowClosed(jobs, d, now)}
    BY <1>3
  <1>4. CASE checker'.left \subseteq checker.left /\ checker'.tick = checker.tick
    BY <1>0, <1>2, <1>4
  <1>5. \/ CheckTimeouts /\ checker'.tick = now /\ checker'.left = {d \in Calls : ApprovalWindowClosed(jobs, d, now)}
        \/ checker'.left \subseteq checker.left /\ checker'.tick = checker.tick
    BY <1>0, <1>1, Zenon DEF CheckerGoes
  <1> QED BY <1>3, <1>4, <1>5

\* A job the checker listed does not go back to the queue and does not start to wait again.
LEMMA ListedStays ==
    ASSUME TInv, [Next]_vars, NEW c \in Calls, jobs[c].state \notin {"absent", "queued"}
    PROVE  /\ jobs'[c].state \notin {"absent", "queued"}
           /\ IsWaiting(jobs', c) => IsWaiting(jobs, c)
  <1>0. Rows(jobs) /\ JobGoes(c) /\ jobs'[c].state # "absent"
    BY JobsStep, AbsentRows DEF TInv, TypeOK, Rows
  <1>1. CASE jobs'[c].state = jobs[c].state
    BY <1>1 DEF IsWaiting
  <1>2. ASSUME NEW outcome \in Outcomes, NEW wait \in WaitModes, Dispatch(c, outcome, wait)
        PROVE  jobs' = jobs
    BY <1>2 DEF Dispatch, RequestTaken
  <1>3. ASSUME MarkWaiting(c), jobs[c].state # "waiting_approval"
        PROVE  jobs' = jobs
    BY <1>3 DEF MarkWaiting, MarkWaitingApproval, CanTransitionAsyncJob, TerminalStates
  <1> QED BY <1>0, <1>1, <1>2, <1>3, Zenon DEF JobGoes, IsWaiting, TerminalStates

\* At first nobody is about to send anything.
LEMMA HeldSafelyInit == Init => HeldSafely /\ NowHolds
  <1> SUFFICES ASSUME Init PROVE HeldSafely /\ NowHolds
    OBVIOUS
  <1>1. goroutines = {} /\ sched.at = "free" /\ DOMAIN requests = {} /\ checker.at = "idle" /\ checker.left = {}
    BY FreeSchedFacts, IdleCheckerFacts, NoCallLeft DEF Init, EmptyQueue
  <1>2. \A c \in Calls : handler[c].at = "idle"
    BY DEF Init, IdleHandler
  <1>3. \A o \in Operators : operator[o].at = "idle"
    BY DEF Init, IdleOperator
  <1> QED BY <1>1, <1>2, <1>3 DEF HeldSafely, ActsOnApproval, NowHolds

\* The decide endpoint is the only way to an approved command.
DecideOnly == ~Polling /\ "approve" \notin Endpoints /\ TimeoutBehavior # "reads_only" /\ MaxTime <= Retention

\* Without the poll loop and the approve endpoint no goroutine dispatches.
LEMMA NoWorkersStep ==
    ASSUME DecideOnly, TInv, HeldSafely, [Next]_vars
    PROVE  goroutines' = {} /\ sched'.at \notin {"list", "drain"}
  <1>1. goroutines' = {}
    <2>1. ~DrainClaim /\ ~\E o \in Operators : ApproveJob(o)
      BY DEF DrainClaim, ApproveJob, HeldSafely, ActsOnApproval
    <2>2. TimeOutSync => goroutines' = {}
      BY DEF TimeOutSync, HeldSafely
    <2>3. ~\E g \in Goroutines, ok \in SendResults : RunGoroutine(g, ok)
      BY DEF RunGoroutine, HeldSafely
    <2> QED BY <2>1, <2>2, <2>3, GoroutineFrame, Zenon DEF Restart, HeldSafely
  <1>2. sched'.at \notin {"list", "drain"}
    <2>1. ~DrainCount /\ ~DrainList /\ ~DrainClaim
      BY Zenon DEF DrainCount, DrainList, DrainClaim, HeldSafely, DecideOnly
    <2>2. CASE sched' = sched
      BY <2>2 DEF HeldSafely
    <2>3. CASE sched' = FreeSched
      BY <2>3, FreeSchedFacts
    <2>4. ASSUME NEW c \in Calls, DispatchNow(c), sched' # sched
          PROVE  sched'.at \notin {"list", "drain"}
      <3>1. jobs[c].state = "queued"
        BY <2>4 DEF DispatchNow
      <3> QED BY <2>4, <3>1, SchedTaken
    <2>5. CASE ClaimNow
      BY <2>3, <2>5, ClaimNowFacts
    <2>6. SchedStep => ClaimNow \/ sched' = FreeSched
      BY <2>1, Zenon DEF SchedStep, SendNow
    <2> QED BY <2>1, <2>2, <2>3, <2>4, <2>5, <2>6, SchedFrame DEF Restart
  <1> QED BY <1>1, <1>2

\* The handlers and DispatchNow send only what the policy allows.
LEMMA AllowedStep ==
    ASSUME TInv, HeldSafely, NowHolds, [Next]_vars
    PROVE  /\ \A c \in Calls : handler'[c].at = "send" => handler'[c].outcome = "allow"
           /\ sched'.at \in {"claim", "send"} => handler'[sched'.call].outcome = "allow"
  <1>0. handler \in [Calls -> Handlers] /\ \A c \in Calls : HandlerGoes(c)
    BY HandlersStep DEF TInv, TypeOK
  <1>d. ASSUME NEW c \in Calls, NEW outcome \in Outcomes, NEW wait \in WaitModes, Dispatch(c, outcome, wait)
        PROVE  handler[c].at = "idle" /\ handler'[c].at \in {"evaluated", "done"}
    BY <1>0, <1>d, DispatchFacts, Zenon
  <1>1. ASSUME NEW c \in Calls, handler'[c].at = "send"
        PROVE  handler'[c].outcome = "allow"
    <2>1. CASE handler'[c] = handler[c]
      BY <1>1, <2>1, Zenon DEF HeldSafely
    <2>2. CASE MarkRunning(c) /\ SameCall(handler[c], handler'[c])
      BY <2>2, Zenon DEF MarkRunning, SameCall
    <2> QED BY <1>0, <1>1, <1>d, <2>1, <2>2, Zenon DEF HandlerGoes
  <1>2. ASSUME NEW c \in Calls, handler[c].at # "idle"
        PROVE  handler'[c].outcome = handler[c].outcome
    BY <1>0, <1>2, <1>d, Zenon DEF HandlerGoes, SameCall
  <1>3. ASSUME sched'.at \in {"claim", "send"}
        PROVE  handler'[sched'.call].outcome = "allow"
    <2>0. sched' # FreeSched
      BY <1>3, FreeSchedFacts
    <2>1. CASE sched'.call = sched.call /\ sched.at \in {"claim", "send"}
      <3>1. sched.call \in Calls /\ handler[sched.call].at = "now" /\ handler[sched.call].outcome = "allow"
        BY <2>1 DEF TInv, Shapes, HeldSafely, NowHolds
      <3> QED BY <1>2, <2>1, <3>1, Zenon
    <2>2. CASE sched' = sched
      BY <1>3, <2>1, <2>2, Zenon
    <2>3. ASSUME NEW c \in Calls, DispatchNow(c), sched' # sched
          PROVE  handler'[sched'.call].outcome = "allow"
      <3>1. jobs[c].state = "queued"
        BY <2>3, Zenon DEF DispatchNow
      <3>2. sched'.call = c /\ handler[c].at = "evaluated" /\ handler[c].outcome = "allow"
        BY <2>3, <3>1, SchedTaken, Zenon DEF DispatchNow
      <3> QED BY <1>2, <3>2
    <2>4. CASE ClaimNow
      BY <2>0, <2>1, <2>4, ClaimNowFacts, Zenon DEF ClaimNow
    <2>5. ~DrainCount /\ ~DrainList /\ ~DrainClaim
      BY <1>3, <2>0, SchedCounted, ListedFacts, Zenon DEF DrainList, DrainClaim, HeldSafely
    <2>6. SchedStep => ClaimNow \/ sched' = FreeSched
      BY <2>5, Zenon DEF SchedStep, SendNow
    <2> QED BY <2>0, <2>2, <2>3, <2>4, <2>5, <2>6, SchedFrame DEF Restart
  <1> QED BY <1>1, <1>3

\* A call has no request before its handler submits one.
LEMMA UnsubmittedStep ==
    ASSUME TInv, HeldSafely, [Next]_vars, NEW c \in Calls, handler'[c].at \in {"idle", "evaluated"}
    PROVE  c \notin DOMAIN requests'
  <1>0. handler \in [Calls -> Handlers] /\ HandlerGoes(c)
    BY HandlersStep, Zenon DEF TInv, TypeOK
  <1>1. handler[c].at \in {"idle", "evaluated"} /\ (handler'[c] = handler[c] \/ handler[c].at = "idle")
    <2>1. ASSUME NEW outcome \in Outcomes, NEW wait \in WaitModes, Dispatch(c, outcome, wait)
          PROVE  handler[c].at = "idle"
      BY <2>1, Zenon DEF Dispatch
    <2> QED BY <1>0, <2>1, Zenon DEF HandlerGoes
  <1>2. c \notin DOMAIN requests
    BY <1>1 DEF HeldSafely
  <1>3. ASSUME NEW second \in SecondModes, SubmitApproval(c, second)
        PROVE  FALSE
    <2>1. handler'[c].at \in {"submitted", "done"}
      BY <1>3, SubmitFacts, Zenon DEF TInv
    <2> QED BY <2>1
  <1> QED BY <1>2, <1>3, SubmittedOnly

\* An operator comes to send only by reading an approval.
LEMMA ApproversStep ==
    ASSUME DecideOnly, TInv, HeldSafely, [Next]_vars, NEW o \in Operators
    PROVE  ActsOnApproval(o)'
  <1> USE DEF ActsOnApproval
  <1>0. OperatorGoes(o) /\ operator[o].at \notin {"read", "late", "approved"}
        /\ (operator[o].at = "send" => Approved(operator[o].call))
    BY OperatorsStep DEF HeldSafely
  <1>1. ~\E c \in Calls : ApproveRead(o, c)
    BY DEF ApproveRead, Starts, DecideOnly
  <1>2. CASE Restart
    BY <1>2 DEF Restart, IdleOperator
  <1>3. CASE operator'[o] = operator[o] /\ ~Restart
    BY <1>0, <1>3, ApprovalsStay, Zenon DEF DecideOnly
  <1>4. CASE DecisionRecorded(o) /\ operator'[o].at = "send" /\ operator'[o].call = operator[o].call
    <2> DEFINE c == operator[o].call
               decision == IF c \in DOMAIN requests THEN requests[c].decision ELSE "expired"
    <2>1. requests' = requests /\ OperatorAt(o, IF decision = "approved" THEN "send" ELSE "idle")
      BY <1>4, Zenon DEF DecisionRecorded, queueVars
    <2>2. decision = "approved"
      <3> SUFFICES ASSUME decision # "approved" PROVE FALSE
        OBVIOUS
      <3>1. OperatorAt(o, "idle")
        BY <2>1
      <3>2. operator \in [Operators -> OperatorSteps]
        BY DEF TInv, TypeOK
      <3>3. operator'[o] = IdleOperator
        BY <3>1, <3>2 DEF OperatorAt
      <3> QED BY <1>4, <3>3 DEF IdleOperator
    <2>3. Approved(c)
      BY <2>2 DEF Approved
    <2> QED BY <1>4, <2>1, <2>3 DEF Approved
  <1>5. CASE operator'[o].at \in {"idle", "rejected", "cancelled", "decided", "mark"}
    BY <1>5
  <1> QED BY <1>0, <1>1, <1>2, <1>3, <1>4, <1>5, Zenon DEF OperatorGoes

\* The windows of the jobs on the checker's list stay closed until it gets to them.
LEMMA CheckedStep ==
    ASSUME DecideOnly, TInv, HeldSafely, [Next]_vars
    PROVE  /\ checker'.at = "sync" => ~checker'.approve
           /\ \A c \in checker'.left :
                 /\ jobs'[c].state \notin {"absent", "queued"}
                 /\ jobs'[c].state = "waiting_approval" => jobs'[c].expires <= checker'.tick
  <1>1. ASSUME checker'.at = "sync"
        PROVE  ~checker'.approve
    <2>1. CheckerGoes
      BY CheckerStepFacts
    <2>2. ~(TimeoutBehavior = "reads_only")
      BY DEF DecideOnly
    <2>3. CASE checker' = checker
      BY <1>1, <2>3 DEF HeldSafely
    <2>4. CASE \E c \in checker.left : checker'.approve <=> (TimeoutBehavior = "reads_only" /\ c \in ReadOnly)
      BY <2>2, <2>4
    <2> QED BY <1>1, <2>1, <2>3, <2>4, IdleCheckerFacts DEF CheckerGoes
  <1>2. ASSUME NEW c \in checker'.left
        PROVE  /\ jobs'[c].state \notin {"absent", "queued"}
               /\ jobs'[c].state = "waiting_approval" => jobs'[c].expires <= checker'.tick
    <2>0. c \in Calls
      BY <1>2, LeftStep
    <2>1. CASE c \in checker.left /\ checker'.tick = checker.tick /\ ~Escalate(c)
      <3>1. /\ jobs[c].state \notin {"absent", "queued"}
            /\ jobs[c].state = "waiting_approval" => jobs[c].expires <= checker.tick
        BY <2>1 DEF HeldSafely
      <3>2. jobs'[c].state \notin {"absent", "queued"} /\ (IsWaiting(jobs', c) => IsWaiting(jobs, c))
        BY <2>0, <3>1, ListedStays
      <3>3. IsWaiting(jobs', c) => jobs'[c] = jobs[c]
        BY <2>0, <2>1, <3>2, WindowStep
      <3> QED BY <2>1, <3>1, <3>2, <3>3 DEF IsWaiting
    <2>2. CASE CheckTimeouts /\ ApprovalWindowClosed(jobs, c, now) /\ checker'.tick = now
      BY <2>2, Zenon DEF CheckTimeouts, ApprovalWindowClosed, IsWaiting, storeVars
    <2> QED BY <1>2, <2>1, <2>2, LeftStep
  <1> QED BY <1>1, <1>2

\* All of it is kept by every step.
LEMMA HeldSafelyStep ==
    ASSUME DecideOnly, TInv, HeldSafely, NowHolds, [Next]_vars
    PROVE  HeldSafely'
  <1>1. \A c \in Calls : handler'[c].at \in {"idle", "evaluated"} => c \notin DOMAIN requests'
    BY UnsubmittedStep
  <1>2. \A o \in Operators : ActsOnApproval(o)'
    BY ApproversStep
  <1> QED BY <1>1, <1>2, NoWorkersStep, AllowedStep, CheckedStep DEF HeldSafely

\* DecideAndDispatch is the only way from a held command to its probe, and it takes the way
\* only on an approval: where approvals go through the decide endpoint (no poll loop, no job
\* approve endpoint, no approval of reads by timeout) and requests are not purged within the
\* modelled time, no interleaving of handlers, operators, checker, sweeps and restarts sends a
\* held command without an approved request, and none shortens an approval window.
THEOREM HeldNeedApproval ==
    ASSUME ~Polling, "approve" \notin Endpoints, TimeoutBehavior # "reads_only", MaxTime <= Retention
    PROVE  Spec => HeldCommandsNeedApproval
  <1> DEFINE Good(c) ==
          /\ sent'[c] # sent[c] /\ handler[c].outcome = "queue"
                => c \in DOMAIN requests /\ requests[c].decision = "approved"
          /\ jobs[c].state = "waiting_approval" /\ jobs'[c].state = "waiting_approval"
                => jobs'[c].expires >= jobs[c].expires
  <1>0. DecideOnly
    BY DEF DecideOnly
  <1>1. Init => HeldSafely /\ NowHolds
    BY HeldSafelyInit
  <1>2. TInv /\ HeldSafely /\ NowHolds /\ [Next]_vars => HeldSafely' /\ NowHolds'
    BY <1>0, HeldSafelyStep, NowHoldsStep
  <1>3. TInv /\ HeldSafely /\ [Next]_vars => \A c \in Calls : Good(c)
    <2> SUFFICES ASSUME TInv, HeldSafely, [Next]_vars, NEW c \in Calls PROVE Good(c)
      OBVIOUS
    <2>1. ASSUME sent'[c] # sent[c], handler[c].outcome = "queue"
          PROVE  c \in DOMAIN requests /\ requests[c].decision = "approved"
      <3>1. ~InvokeCommand(c, TRUE) /\ ~(SendNow(TRUE) /\ sched.call = c) /\ goroutines = {}
        BY <2>1 DEF InvokeCommand, SendNow, HeldSafely
      <3>2. PICK o \in Operators : DispatchApproved(o, TRUE) /\ operator[o].call = c
        <4>1. ProbeGoes(c)
          BY ProbeStep
        <4> QED BY <2>1, <3>1, <4>1, Zenon DEF ProbeGoes
      <3> QED BY <3>2, Zenon DEF DispatchApproved, HeldSafely, ActsOnApproval, Approved
    <2>2. ASSUME jobs[c].state = "waiting_approval", jobs'[c].state = "waiting_approval"
          PROVE  jobs'[c].expires >= jobs[c].expires
      <3>0. Rows(jobs) /\ checker \in Checkers /\ jobs[c] \in JobRow
        BY DEF TInv, TypeOK, Rows
      <3>1. jobs[c].expires \in Int /\ checker.tick \in Nat /\ Extension \in Nat
        <4>1. checker.tick \in Nat /\ jobs[c].expires \in Nat \cup {NoExpiry}
          BY <3>0, Zenon DEF Checkers, JobRow
        <4> QED BY <4>1, AsyncAssumption DEF NoExpiry
      <3>2. CASE jobs'[c] = jobs[c]
        BY <3>1, <3>2
      <3>3. CASE Escalate(c)
        <4> DEFINE t == checker.tick + Extension  s == [jobs[c] EXCEPT !.expires = t]
        <4>1. t \in Nat /\ jobs[c].expires <= t
          BY <2>2, <3>1, <3>3 DEF HeldSafely, Escalate
        <4>2. jobs' = ExtendApprovalExpiry(jobs, c, t)
          BY <3>3, Zenon DEF Escalate
        <4> HIDE DEF t
        <4>3. jobs'[c] = s
          BY <2>2, <3>0, <4>2 DEF ExtendApprovalExpiry, IsWaiting, Rows
        <4>4. s.expires = t
          BY <3>0, <4>1, Zenon DEF JobRow
        <4> HIDE DEF s
        <4> QED BY <4>1, <4>3, <4>4, Zenon
      <3> QED BY <2>2, <3>2, <3>3, WindowStep, Zenon DEF IsWaiting
    <2> QED BY <2>1, <2>2
  <1>4. TInv /\ HeldSafely /\ [Next]_vars => [\A c \in Calls : Good(c)]_vars
    BY <1>3
  <1> HIDE DEF Good
  <1> QED BY <1>1, <1>2, <1>4, TypeInvariant, PTL DEF Spec, HeldCommandsNeedApproval, Good
=============================================================================
