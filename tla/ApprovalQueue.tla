---------------------------- MODULE ApprovalQueue ----------------------------
(***************************************************************************)
(* The approval queue as a component: clients submit, decide and poll for  *)
(* a decision, readers and the reaper sweep, and the clock advances.       *)
(***************************************************************************)
EXTENDS ApprovalQueueOps, FiniteSetTheorems, TLAPS

CONSTANTS
    Ids,         \* the request ids (UUIDs) that may be drawn
    Waiters,     \* callers blocked in WaitForDecision
    WaitTimeout, \* the timeout they pass (LEGATOR_TASK_APPROVAL_WAIT)
    MaxTime      \* bound on the clock; calls start early enough for it to pass their deadlines

ASSUME WaitAssumption == WaitTimeout \in Nat /\ MaxTime \in Nat

VARIABLES
    requests,    \* Queue.requests
    issued,      \* ids drawn so far: a UUID is never drawn twice
    now,         \* time.Now()
    waiter       \* the state of each WaitForDecision call

vars == <<requests, issued, now, waiter>>

Idle == [phase |-> "idle"]

WaiterState ==
    {Idle}
      \cup [phase : {"polling"}, id : Ids, deadline : Nat]
      \cup [phase : {"returned"}, id : Ids, result : Decisions \cup {"not found"}]

\* The type of the state; every stored request was issued an id.
TypeOK ==
    /\ issued \subseteq Ids
    /\ DOMAIN requests \subseteq issued
    /\ \A id \in DOMAIN requests : requests[id] \in Request
    /\ now \in Nat
    /\ waiter \in [Waiters -> WaiterState]

Init ==
    /\ requests = EmptyQueue
    /\ issued = {}
    /\ now = 0
    /\ waiter = [w \in Waiters |-> Idle]

-----------------------------------------------------------------------------

\* SubmitWithPolicyDetailsAndOptions, success
Submit(id, second) ==
    /\ id \notin issued
    /\ now + TTL < MaxTime
    /\ ~IsFull(requests, now)
    /\ requests' = AfterSubmit(requests, id, second, now)
    /\ issued' = issued \cup {id}
    /\ UNCHANGED <<now, waiter>>

\* The same method on a full queue: the sweep has happened, the caller gets an error.
SubmitRefused ==
    /\ IsFull(requests, now)
    /\ requests' = EvictExpired(requests, now)
    /\ UNCHANGED <<issued, now, waiter>>

Decide(id, d, by) ==
    /\ requests' = AfterDecide(requests, id, d, by, now)
    /\ UNCHANGED <<issued, now, waiter>>

\* Pending, PendingByWorkspace, PendingCount and the reaper's tick all start with a sweep.
Sweep ==
    /\ requests' = EvictExpired(requests, now)
    /\ UNCHANGED <<issued, now, waiter>>

WaitForDecision(w, id) ==
    /\ waiter[w] = Idle
    /\ now + WaitTimeout < MaxTime
    /\ waiter' = [waiter EXCEPT ![w] =
                    [phase |-> "polling", id |-> id, deadline |-> now + WaitTimeout]]
    /\ UNCHANGED <<requests, issued, now>>

\* What one turn of the polling loop finds, in the order of its tests.
PollResult(w) ==
    CASE waiter[w].id \notin DOMAIN requests -> "not found"
      [] waiter[w].id \in DOMAIN requests -> requests[waiter[w].id].decision

\* Mutant: the loop waits for a decision only, past its deadline and for a purged request.
PollForever(w) ==
    /\ waiter[w].phase = "polling"
    /\ PollResult(w) \notin {"pending", "not found"}
    /\ waiter' = [waiter EXCEPT ![w] =
                    [phase |-> "returned", id |-> waiter[w].id, result |-> PollResult(w)]]
    /\ UNCHANGED <<requests, issued, now>>

\* The loop returns on a decision or a missing request, and on "pending" once it is late.
Poll(w) ==
    /\ waiter[w].phase = "polling"
    /\ PollResult(w) # "pending" \/ now > waiter[w].deadline
    /\ waiter' = [waiter EXCEPT ![w] =
                    [phase |-> "returned", id |-> waiter[w].id, result |-> PollResult(w)]]
    /\ UNCHANGED <<requests, issued, now>>

Tick ==
    /\ now < MaxTime
    /\ now' = now + 1
    /\ UNCHANGED <<requests, issued, waiter>>

Next ==
    \/ \E id \in Ids, second \in BOOLEAN : Submit(id, second)
    \/ SubmitRefused
    \/ \E id \in Ids, d \in {"approved", "denied"}, by \in Actors : Decide(id, d, by)
    \/ Sweep
    \/ \E w \in Waiters, id \in issued : WaitForDecision(w, id)
    \/ \E w \in Waiters : Poll(w)
    \/ Tick

Spec == Init /\ [][Next]_vars

\* The reaper is a ticker loop, the polling loop sleeps and retries, and time passes.
Fairness ==
    /\ WF_vars(Sweep)
    /\ WF_vars(Tick)
    /\ \A w \in Waiters : WF_vars(Poll(w))

FairSpec == Spec /\ Fairness

-----------------------------------------------------------------------------
(* Properties *)

\* A request is approved only by a quorum of different people, each of whom
\* approved while the request was open: Decide compares approvers with EqualFold,
\* counts them against RequiredApprovalCount and refuses late decisions.
ApprovedByQuorum ==
    \A id \in DOMAIN requests :
        LET r == requests[id] IN
        /\ r.decision = "approved" => Len(r.approvals) >= RequiredApprovalCount(r)
        /\ \A i \in 1..Len(r.approvals) : r.approvals[i].at <= r.expiresAt
        /\ \A i, j \in 1..Len(r.approvals) :
              Person[r.approvals[i].actor] = Person[r.approvals[j].actor] => i = j

\* The queue never holds more than maxSize requests, whatever mix of pending and
\* decided ones it holds: Submit sweeps first and then counts what is left.
QueueBounded == Cardinality(DOMAIN requests) <= MaxSize

\* A decision, once taken, is never revised, and an open request is never dropped:
\* it leaves the map only after its deadline passed (the purge of evictExpiredLocked).
DecisionsAreFinal ==
    [][\A id \in DOMAIN requests :
          IF id \in DOMAIN requests'
          THEN requests[id].decision # "pending"
                 => requests'[id].decision = requests[id].decision
          ELSE requests[id].decision = "pending" => now > requests[id].expiresAt]_vars

\* What WaitForDecision reported is still true of the request: the poll reads a
\* decision that no later sweep or second decision changes.
WaitersWereToldTheTruth ==
    \A w \in Waiters :
        /\ waiter[w].phase = "returned"
        /\ waiter[w].result \in {"approved", "denied", "expired"}
        /\ waiter[w].id \in DOMAIN requests
        => requests[waiter[w].id].decision = waiter[w].result

\* Every open request is eventually decided or expired ("unanswered requests expire
\* and are rejected", approval/queue.go:3), because the reaper keeps sweeping.
EveryRequestIsResolved ==
    \A id \in Ids :
        (id \in DOMAIN requests /\ requests[id].decision = "pending")
          ~> (id \notin DOMAIN requests \/ requests[id].decision # "pending")

\* Every WaitForDecision call returns: the loop tests its deadline on every turn.
EveryWaiterReturns ==
    \A w \in Waiters : waiter[w].phase = "polling" ~> waiter[w].phase = "returned"

----------------------------------------------------------------------------
\* Type correctness

LEMMA InitTypeOK == Init => TypeOK
  BY DEF Init, TypeOK, EmptyQueue, WaiterState, Idle

\* What one Decide by an actor may do to a request.
DecidedBy(by, r, s) ==
    \/ s = r
    \/ /\ r.decision = "pending"
       /\ \/ now > r.expiresAt /\ s = [r EXCEPT !.decision = "expired"]
          \/ s = [r EXCEPT !.decision = "denied"]
          \/ now <= r.expiresAt /\ ~HasApproved(r, by) /\ s = Approve(r, by, now)

\* What Decide leaves in the map, request by request.
LEMMA DecideFacts ==
    ASSUME TypeOK, NEW id, NEW d \in {"approved", "denied"}, NEW by \in Actors, Decide(id, d, by)
    PROVE  /\ DOMAIN requests' = DOMAIN requests
           /\ \A i \in DOMAIN requests : DecidedBy(by, requests[i], requests'[i])
  <1> DEFINE outcome == DecideOutcome(requests, id, d, by, now)
  <1>0. /\ now \in Nat /\ \A i \in DOMAIN requests : requests[i] \in Request
        /\ requests' = AfterDecide(requests, id, d, by, now)
    BY DEF TypeOK, Decide
  <1>1. CASE outcome = "expired"
    <2>1. id \in DOMAIN requests /\ requests[id].decision = "pending" /\ now > requests[id].expiresAt
      BY <1>1 DEF DecideOutcome
    <2>2. requests' = [requests EXCEPT ![id].decision = "expired"]
      BY <1>0, <1>1 DEF AfterDecide
    <2> QED BY <2>1, <2>2 DEF DecidedBy
  <1>2. CASE outcome = "ok" /\ d = "denied"
    <2>1. id \in DOMAIN requests /\ requests[id].decision = "pending"
      BY <1>2 DEF DecideOutcome
    <2>2. requests' = [requests EXCEPT ![id].decision = "denied"]
      BY <1>0, <1>2 DEF AfterDecide
    <2> QED BY <2>1, <2>2 DEF DecidedBy
  <1>3. CASE outcome = "ok" /\ d # "denied"
    <2>1. /\ id \in DOMAIN requests /\ requests[id].decision = "pending"
          /\ ~(now > requests[id].expiresAt) /\ ~HasApproved(requests[id], by)
      BY <1>3 DEF DecideOutcome
    <2>2. requests' = [requests EXCEPT ![id] = Approve(requests[id], by, now)]
      BY <1>0, <1>3 DEF AfterDecide
    <2>3. now <= requests[id].expiresAt
      BY <1>0, <2>1 DEF Request
    <2> QED BY <2>1, <2>2, <2>3 DEF DecidedBy
  <1>4. CASE outcome \notin {"expired", "ok"}
    BY <1>0, <1>4 DEF AfterDecide, DecidedBy
  <1> QED BY <1>1, <1>2, <1>3, <1>4

----------------------------------------------------------------------------
\* What one step does to the map

\* How one request may change in one step
Evolves(r, s) ==
    \/ s = r
    \/ s = ExpireIfLate(r, now)
    \/ r.decision = "pending" /\ s = [r EXCEPT !.decision = "denied"]
    \/ /\ r.decision = "pending"
       /\ \E by \in Actors : now <= r.expiresAt /\ ~HasApproved(r, by) /\ s = Approve(r, by, now)

RequestsEvolve ==
    /\ \A id \in DOMAIN requests' :
          \/ id \notin DOMAIN requests /\ \E second \in BOOLEAN : requests'[id] = NewRequest(second, now)
          \/ id \in DOMAIN requests /\ Evolves(requests[id], requests'[id])
    /\ \A id \in DOMAIN requests \ DOMAIN requests' :
          ExpireIfLate(requests[id], now).decision # "pending"

\* Every action changes the map only by adding new requests, evolving the ones it has, and
\* dropping decided or late ones.
LEMMA StepEvolves ==
    ASSUME TypeOK, [Next]_vars
    PROVE  RequestsEvolve
  <1>0. now \in Nat /\ DOMAIN requests \subseteq issued /\ \A i \in DOMAIN requests : requests[i] \in Request
    BY DEF TypeOK
  <1>1. ASSUME requests' = EvictExpired(requests, now)
        PROVE  RequestsEvolve
    BY <1>1, EvictFacts DEF RequestsEvolve, Evolves
  <1>2. ASSUME NEW id \in Ids, NEW second \in BOOLEAN, Submit(id, second)
        PROVE  RequestsEvolve
    <2> DEFINE swept == EvictExpired(requests, now)
    <2>1. /\ DOMAIN requests' = DOMAIN swept \cup {id}
          /\ requests'[id] = NewRequest(second, now)
          /\ \A i \in DOMAIN swept : i # id => requests'[i] = swept[i]
      BY <1>2 DEF Submit, AfterSubmit
    <2>2. id \notin DOMAIN requests
      BY <1>0, <1>2 DEF Submit
    <2> HIDE DEF swept
    <2>3. /\ DOMAIN swept \subseteq DOMAIN requests
          /\ \A i \in DOMAIN swept : swept[i] = ExpireIfLate(requests[i], now)
          /\ \A i \in DOMAIN requests \ DOMAIN swept : ExpireIfLate(requests[i], now).decision # "pending"
      BY EvictFacts DEF swept
    <2> QED BY <2>1, <2>2, <2>3 DEF RequestsEvolve, Evolves
  <1>3. ASSUME NEW id \in Ids, NEW d \in {"approved", "denied"}, NEW by \in Actors, Decide(id, d, by)
        PROVE  RequestsEvolve
    <2>1. DOMAIN requests' = DOMAIN requests
      BY <1>3, DecideFacts
    <2>2. SUFFICES ASSUME NEW i \in DOMAIN requests
                   PROVE  Evolves(requests[i], requests'[i])
      BY <2>1 DEF RequestsEvolve
    <2>3. DecidedBy(by, requests[i], requests'[i])
      BY <1>3, DecideFacts
    <2> QED BY <2>3 DEF DecidedBy, Evolves, ExpireIfLate
  <1>4. ASSUME UNCHANGED requests
        PROVE  RequestsEvolve
    BY <1>4 DEF RequestsEvolve, Evolves
  <1>5. CASE SubmitRefused
    BY <1>1, <1>5 DEF SubmitRefused
  <1>6. CASE Sweep
    BY <1>1, <1>6 DEF Sweep
  <1>7. CASE \E w \in Waiters, id \in issued : WaitForDecision(w, id)
    BY <1>4, <1>7 DEF WaitForDecision
  <1>8. CASE \E w \in Waiters : Poll(w)
    BY <1>4, <1>8 DEF Poll
  <1>9. CASE Tick
    BY <1>4, <1>9 DEF Tick
  <1>10. CASE UNCHANGED vars
    BY <1>4, <1>10 DEF vars
  <1> QED BY <1>2, <1>3, <1>5, <1>6, <1>7, <1>8, <1>9, <1>10 DEF Next

\* The request a step leaves behind is again a request.
LEMMA EvolvesType ==
    ASSUME now \in Nat, NEW r \in Request, NEW s, Evolves(r, s)
    PROVE  s \in Request
  <1>1. CASE s = ExpireIfLate(r, now)
    BY <1>1, ExpireFacts
  <1>2. CASE s = [r EXCEPT !.decision = "denied"]
    BY <1>2 DEF Request, Decisions
  <1>3. CASE \E by \in Actors : s = Approve(r, by, now)
    BY <1>3, ApproveFacts, Zenon
  <1> QED BY <1>1, <1>2, <1>3 DEF Evolves

LEMMA NextTypeOK == TypeOK /\ [Next]_vars => TypeOK'
  <1> SUFFICES ASSUME TypeOK, [Next]_vars PROVE TypeOK'
    OBVIOUS
  <1>1. \A id \in DOMAIN requests' : requests'[id] \in Request
    <2>1. now \in Nat /\ \A i \in DOMAIN requests : requests[i] \in Request
      BY DEF TypeOK
    <2> QED BY <2>1, StepEvolves, EvolvesType, NewRequestFacts DEF RequestsEvolve
  <1>2. issued' \subseteq Ids /\ DOMAIN requests' \subseteq issued'
    <2>1. CASE \E id \in Ids, second \in BOOLEAN : Submit(id, second)
      BY <2>1, EvictFacts DEF Submit, AfterSubmit, TypeOK
    <2>2. CASE issued' = issued /\ DOMAIN requests' \subseteq DOMAIN requests
      BY <2>2 DEF TypeOK
    <2>3. CASE SubmitRefused \/ Sweep
      BY <2>2, <2>3, EvictFacts DEF SubmitRefused, Sweep
    <2>4. CASE \E id \in Ids, d \in {"approved", "denied"}, by \in Actors : Decide(id, d, by)
      BY <2>2, <2>4, DecideFacts DEF Decide
    <2> QED BY <2>1, <2>2, <2>3, <2>4 DEF Next, WaitForDecision, Poll, Tick, vars
  <1>3. now' \in Nat
    BY DEF TypeOK, Next, Submit, SubmitRefused, Decide, Sweep, WaitForDecision, Poll, Tick, vars
  <1>4. waiter' \in [Waiters -> WaiterState]
    <2>1. CASE \E w \in Waiters, id \in issued : WaitForDecision(w, id)
      <3>1. PICK w \in Waiters, id \in issued : WaitForDecision(w, id)
        BY <2>1
      <3>2. id \in Ids /\ now + WaitTimeout \in Nat
        BY WaitAssumption DEF TypeOK
      <3>3. [phase |-> "polling", id |-> id, deadline |-> now + WaitTimeout] \in WaiterState
        BY <3>2 DEF WaiterState
      <3> QED BY <3>1, <3>3 DEF WaitForDecision, TypeOK
    <2>2. CASE \E w \in Waiters : Poll(w)
      <3>1. PICK w \in Waiters : Poll(w)
        BY <2>2
      <3>2. waiter[w].id \in Ids
        <4>1. waiter[w] \in WaiterState /\ waiter[w].phase = "polling"
          BY <3>1 DEF Poll, TypeOK
        <4>2. waiter[w] \in [phase : {"polling"}, id : Ids, deadline : Nat]
          <5>1. Idle.phase # "polling"
            BY DEF Idle
          <5>2. \A x \in [phase : {"returned"}, id : Ids, result : Decisions \cup {"not found"}] :
                    x.phase # "polling"
            BY Zenon
          <5> QED BY <4>1, <5>1, <5>2, Zenon DEF WaiterState
        <4> QED BY <4>2
      <3>3. PollResult(w) \in Decisions \cup {"not found"}
        BY Zenon DEF PollResult, TypeOK, Request
      <3>4. [phase |-> "returned", id |-> waiter[w].id, result |-> PollResult(w)] \in WaiterState
        BY <3>2, <3>3, Zenon DEF WaiterState
      <3> QED BY <3>1, <3>4 DEF Poll, TypeOK
    <2>3. CASE waiter' = waiter
      BY <2>3 DEF TypeOK
    <2> QED BY <2>1, <2>2, <2>3 DEF Next, Submit, SubmitRefused, Decide, Sweep, Tick, vars
  <1> QED BY <1>1, <1>2, <1>3, <1>4 DEF TypeOK

\* The queue, its clock and its waiters keep their types, whatever is submitted and decided.
THEOREM TypeCorrect == Spec => []TypeOK
  BY InitTypeOK, NextTypeOK, PTL DEF Spec

----------------------------------------------------------------------------
\* The quorum

\* The part of ApprovedByQuorum that is about one request
GoodRequest(r) ==
    /\ r.decision = "approved" => Len(r.approvals) >= RequiredApprovalCount(r)
    /\ \A i \in 1..Len(r.approvals) : r.approvals[i].at <= r.expiresAt
    /\ \A i, j \in 1..Len(r.approvals) :
          Person[r.approvals[i].actor] = Person[r.approvals[j].actor] => i = j

\* Decide appends an approval only of somebody who has not approved yet, and in time.
LEMMA ApproveGood ==
    ASSUME NEW r \in Request, NEW by \in Actors, NEW t \in Nat,
           GoodRequest(r), t <= r.expiresAt, ~HasApproved(r, by)
    PROVE  GoodRequest(Approve(r, by, t))
  <1> DEFINE a == Approve(r, by, t)
             entry == [actor |-> by, at |-> t]
             n == Len(r.approvals)
  <1>1. /\ a.approvals = Append(r.approvals, entry) /\ a.expiresAt = r.expiresAt
        /\ a.decision = "approved" => Len(a.approvals) >= RequiredApprovalCount(a)
    BY ApproveFacts
  <1> HIDE DEF a
  <1>2. /\ n \in Nat /\ Len(a.approvals) = n + 1
        /\ a.approvals[n + 1] = entry
        /\ \A i \in 1..n : a.approvals[i] = r.approvals[i]
    BY <1>1 DEF Request
  <1>3. \A i \in 1..n : Person[r.approvals[i].actor] # Person[by]
    BY DEF HasApproved
  <1>4. \A i \in 1..n + 1 : a.approvals[i].at <= a.expiresAt
    BY <1>1, <1>2 DEF GoodRequest
  <1>5. ASSUME NEW i \in 1..n + 1, NEW j \in 1..n + 1,
               Person[a.approvals[i].actor] = Person[a.approvals[j].actor]
        PROVE  i = j
    <2> DEFINE who(m) == Person[a.approvals[m].actor]
    <2>1. who(n + 1) = Person[by]
      <3>1. a.approvals[n + 1] = entry /\ entry.actor = by BY <1>2
      <3> HIDE DEF entry, n
      <3> QED BY <3>1, Zenon
    <2>2. \A m \in 1..n : who(m) = Person[r.approvals[m].actor]
      BY <1>2, Zenon
    <2>3. who(i) = who(j) BY <1>5
    <2> HIDE DEF who
    <2>4. CASE i \in 1..n /\ j \in 1..n
      BY <2>2, <2>3, <2>4, Zenon DEF GoodRequest
    <2>5. CASE i \in 1..n /\ j = n + 1
      BY <1>3, <2>1, <2>2, <2>3, <2>5, Zenon
    <2>6. CASE i = n + 1 /\ j \in 1..n
      BY <1>3, <2>1, <2>2, <2>3, <2>6, Zenon
    <2> QED BY <1>2, <2>4, <2>5, <2>6
  <1>6. GoodRequest(a)
    BY <1>1, <1>2, <1>4, <1>5, Zenon DEF GoodRequest
  <1> QED BY <1>6 DEF a

LEMMA EvolvesGood ==
    ASSUME now \in Nat, NEW r \in Request, GoodRequest(r), NEW s, Evolves(r, s)
    PROVE  GoodRequest(s)
  <1>1. CASE s = r
    BY <1>1
  <1>2. CASE s = ExpireIfLate(r, now)
    <2>1. /\ s.second = r.second /\ s.approvals = r.approvals /\ s.expiresAt = r.expiresAt
          /\ s.decision = "approved" => r.decision = "approved"
      BY <1>2, ExpireFacts
    <2> QED BY <2>1 DEF GoodRequest, RequiredApprovalCount
  <1>3. CASE s = [r EXCEPT !.decision = "denied"]
    BY <1>3 DEF GoodRequest, Request
  <1>4. CASE \E by \in Actors : now <= r.expiresAt /\ ~HasApproved(r, by) /\ s = Approve(r, by, now)
    BY <1>4, ApproveGood
  <1> QED BY <1>1, <1>2, <1>3, <1>4 DEF Evolves

\* A request is approved only by enough different people who all approved in time, however
\* many requests, spellings and concurrent decisions there are.
THEOREM QuorumHolds == Spec => []ApprovedByQuorum
  <1> DEFINE Inv == \A id \in DOMAIN requests : GoodRequest(requests[id])
  <1>1. Init => Inv
    BY DEF Init, EmptyQueue
  <1>2. TypeOK /\ Inv /\ [Next]_vars => Inv'
    <2> SUFFICES ASSUME TypeOK, Inv, [Next]_vars, NEW id \in DOMAIN requests'
                 PROVE  GoodRequest(requests'[id])
      OBVIOUS
    <2>1. now \in Nat /\ \A i \in DOMAIN requests : requests[i] \in Request
      BY DEF TypeOK
    <2>2. CASE id \in DOMAIN requests /\ Evolves(requests[id], requests'[id])
      BY <2>1, <2>2, EvolvesGood
    <2>3. CASE \E second \in BOOLEAN : requests'[id] = NewRequest(second, now)
      BY <2>1, <2>3, NewRequestFacts DEF GoodRequest
    <2> QED BY <2>2, <2>3, StepEvolves DEF RequestsEvolve
  <1>3. Inv => ApprovedByQuorum
    BY DEF GoodRequest, ApprovedByQuorum
  <1> QED BY <1>1, <1>2, <1>3, TypeCorrect, PTL DEF Spec

----------------------------------------------------------------------------
\* Decisions are final

LEMMA StepKeepsDecisions ==
    ASSUME TypeOK, [Next]_vars, NEW id \in DOMAIN requests
    PROVE  IF id \in DOMAIN requests'
           THEN requests[id].decision # "pending" => requests'[id].decision = requests[id].decision
           ELSE requests[id].decision = "pending" => now > requests[id].expiresAt
  <1>1. now \in Nat /\ requests[id] \in Request
    BY DEF TypeOK
  <1>2. RequestsEvolve
    BY StepEvolves
  <1>3. CASE id \in DOMAIN requests'
    BY <1>1, <1>2, <1>3, ExpireFacts DEF RequestsEvolve, Evolves
  <1>4. CASE id \notin DOMAIN requests'
    BY <1>1, <1>2, <1>4, ExpireFacts DEF RequestsEvolve
  <1> QED BY <1>3, <1>4

\* No step revises a decision or drops a request that is still open.
THEOREM DecisionsStay == Spec => DecisionsAreFinal
  <1> DEFINE Final ==
        \A id \in DOMAIN requests :
          IF id \in DOMAIN requests'
          THEN requests[id].decision # "pending" => requests'[id].decision = requests[id].decision
          ELSE requests[id].decision = "pending" => now > requests[id].expiresAt
  <1>1. TypeOK /\ [Next]_vars => Final
    BY StepKeepsDecisions
  <1> QED BY <1>1, TypeCorrect, PTL DEF Spec, DecisionsAreFinal

----------------------------------------------------------------------------
\* What a waiter was told

\* A waiter asks about a request that was issued, and was told what is still in the map.
Told(w) ==
    waiter[w].phase # "idle" =>
        /\ waiter[w].id \in issued
        /\ /\ waiter[w].phase = "returned"
           /\ waiter[w].result \in {"approved", "denied", "expired"}
           /\ waiter[w].id \in DOMAIN requests
           => requests[waiter[w].id].decision = waiter[w].result

\* A step that leaves a waiter alone does not make what it was told false: the request keeps
\* its decision or is purged, and its id is not issued again.
LEMMA ToldKept ==
    ASSUME TypeOK, [Next]_vars, NEW w, Told(w), waiter'[w] = waiter[w]
    PROVE  Told(w)'
  <1>1. issued \subseteq issued' /\ DOMAIN requests \subseteq issued
    BY DEF TypeOK, Next, Submit, SubmitRefused, Decide, Sweep, WaitForDecision, Poll, Tick, vars
  <1>2. ASSUME NEW id \in issued, id \in DOMAIN requests'
        PROVE  id \in DOMAIN requests
    <2>1. CASE \E i \in Ids, second \in BOOLEAN : Submit(i, second)
      BY <1>1, <1>2, <2>1, EvictFacts DEF Submit, AfterSubmit
    <2>2. CASE SubmitRefused \/ Sweep
      BY <1>2, <2>2, EvictFacts DEF SubmitRefused, Sweep
    <2>3. CASE \E i \in Ids, d \in {"approved", "denied"}, by \in Actors : Decide(i, d, by)
      BY <1>2, <2>3, DecideFacts
    <2>4. CASE UNCHANGED requests
      BY <1>2, <2>4
    <2> QED BY <2>1, <2>2, <2>3, <2>4 DEF Next, WaitForDecision, Poll, Tick, vars
  <1>3. ASSUME NEW id \in DOMAIN requests, id \in DOMAIN requests', requests[id].decision # "pending"
        PROVE  requests'[id].decision = requests[id].decision
    BY <1>3, StepKeepsDecisions
  <1> QED BY <1>1, <1>2, <1>3 DEF Told

\* WaitForDecision reports a decision that is still the request's, as long as the request is
\* in the map: neither a sweep nor a second decision contradicts what the waiter acted on.
THEOREM WaitersToldTruth == Spec => []WaitersWereToldTheTruth
  <1> DEFINE Inv == \A w \in Waiters : Told(w)
  <1>1. Init => Inv
    BY DEF Init, Told, Idle
  <1>2. TypeOK /\ Inv /\ [Next]_vars => Inv'
    <2> SUFFICES ASSUME TypeOK, Inv, [Next]_vars, NEW w \in Waiters PROVE Told(w)'
      OBVIOUS
    <2>1. CASE waiter'[w] = waiter[w]
      BY <2>1, ToldKept
    <2>2. ASSUME NEW id \in issued, WaitForDecision(w, id)
          PROVE  Told(w)'
      BY <2>2 DEF WaitForDecision, TypeOK, Told
    <2>3. CASE Poll(w)
      <3>1. waiter[w].phase = "polling" /\ waiter[w].id \in issued
        BY <2>3 DEF Poll, Told
      <3>2. /\ waiter'[w].phase = "returned" /\ waiter'[w].id = waiter[w].id
            /\ waiter'[w].result = PollResult(w)
            /\ requests' = requests /\ issued' = issued
        BY <2>3 DEF Poll, TypeOK
      <3>3. waiter[w].id \in DOMAIN requests => PollResult(w) = requests[waiter[w].id].decision
        BY DEF PollResult
      <3> QED BY <3>1, <3>2, <3>3 DEF Told
    <2>4. waiter'[w] = waiter[w] \/ Poll(w) \/ \E id \in issued : WaitForDecision(w, id)
      BY DEF Next, Submit, SubmitRefused, Decide, Sweep, WaitForDecision, Poll, Tick, vars, TypeOK
    <2> QED BY <2>1, <2>2, <2>3, <2>4
  <1>3. Inv => WaitersWereToldTheTruth
    BY DEF Told, WaitersWereToldTheTruth
  <1> QED BY <1>1, <1>2, <1>3, TypeCorrect, PTL DEF Spec

----------------------------------------------------------------------------
\* The size of the queue

\* Submit sweeps and counts before it adds: the map never holds more than maxSize requests.
THEOREM SizeBounded == Spec => []QueueBounded
  <1> DEFINE Inv == IsFiniteSet(DOMAIN requests) /\ QueueBounded
  <1>1. Init => Inv
    BY QueueAssumption, FS_EmptySet DEF Init, EmptyQueue, QueueBounded
  <1>2. TypeOK /\ Inv /\ [Next]_vars => Inv'
    <2> SUFFICES ASSUME TypeOK, Inv, [Next]_vars PROVE Inv'
      OBVIOUS
    <2>1. ASSUME DOMAIN requests' \subseteq DOMAIN requests
          PROVE  Inv'
      BY <2>1, FS_Subset, FS_CardinalityType, QueueAssumption DEF QueueBounded
    <2>2. ASSUME NEW id \in Ids, NEW second \in BOOLEAN, Submit(id, second)
          PROVE  Inv'
      <3> DEFINE D == DOMAIN EvictExpired(requests, now)
      <3>1. DOMAIN requests' = D \cup {id}
        BY <2>2 DEF Submit, AfterSubmit
      <3>2. IsFiniteSet(D)
        BY EvictFacts, FS_Subset
      <3>3. ~(Cardinality(D) >= MaxSize)
        BY <2>2 DEF Submit, IsFull
      <3>4. Cardinality(D) \in Nat
        BY <3>2, FS_CardinalityType
      <3> HIDE DEF D
      <3>5. IsFiniteSet(D \cup {id}) /\ Cardinality(D \cup {id}) <= Cardinality(D) + 1
        <4>1. /\ IsFiniteSet(D \cup {id})
              /\ Cardinality(D \cup {id}) = IF id \in D THEN Cardinality(D) ELSE Cardinality(D) + 1
          BY <3>2, FS_AddElement, Zenon
        <4> QED BY <3>4, <4>1
      <3>6. Cardinality(D \cup {id}) \in Nat
        BY <3>5, FS_CardinalityType
      <3> QED BY <3>1, <3>3, <3>4, <3>5, <3>6, QueueAssumption DEF QueueBounded
    <2>3. CASE SubmitRefused \/ Sweep
      BY <2>1, <2>3, EvictFacts DEF SubmitRefused, Sweep
    <2>4. CASE \E id \in Ids, d \in {"approved", "denied"}, by \in Actors : Decide(id, d, by)
      BY <2>1, <2>4, DecideFacts
    <2>5. CASE UNCHANGED requests
      BY <2>1, <2>5
    <2> QED BY <2>2, <2>3, <2>4, <2>5 DEF Next, WaitForDecision, Poll, Tick, vars
  <1>3. Inv => QueueBounded
    OBVIOUS
  <1> QED BY <1>1, <1>2, <1>3, TypeCorrect, PTL DEF Spec
=============================================================================
