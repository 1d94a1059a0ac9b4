-------------------------- MODULE ApprovalQueueOps --------------------------
(***************************************************************************)
(* The operations of the risk-gated approval queue, approval/queue.go, as  *)
(* operators over the map q.requests.  Every method of Queue runs under    *)
(* q.mu, so one method is one atomic step of whichever module uses it.     *)
(*                                                                         *)
(* A request keeps what the control flow reads: whether a second approver  *)
(* is required, the recorded approvals, the decision, and the two          *)
(* timestamps.  Probe, command, risk level and rationale are payload.      *)
(***************************************************************************)
EXTENDS Integers, Sequences, FiniteSets, TLAPS

CONSTANTS
    Actors,      \* spellings that may appear as decided_by
    Person,      \* the identity behind a spelling: equal iff EqualFold/TrimSpace agree
    TTL,         \* Queue.ttl (15 minutes in initApprovals)
    Retention,   \* age after which decided requests are purged (24 hours)
    MaxSize      \* Queue.maxSize (500 in initApprovals)

ASSUME QueueAssumption ==
    /\ TTL \in Nat
    /\ Retention \in Nat
    /\ MaxSize \in Nat

Decisions == {"pending", "approved", "denied", "expired"}

Request ==
    [second : BOOLEAN, approvals : Seq([actor : Actors, at : Nat]),
     decision : Decisions, createdAt : Nat, expiresAt : Nat]

NewRequest(second, t) ==
    [second |-> second, approvals |-> <<>>, decision |-> "pending",
     createdAt |-> t, expiresAt |-> t + TTL]

EmptyQueue == [id \in {} |-> NewRequest(FALSE, 0)]

\* The quorum of a request: Submit stores 2 exactly when a second approver is required.
RequiredApprovalCount(r) == IF r.second THEN 2 ELSE 1

\* Mutants: decided requests expire too; nothing ever expires.
ExpireEvenDecided(r, t) == IF t > r.expiresAt THEN [r EXCEPT !.decision = "expired"] ELSE r
ExpireNever(r, t) == r

ExpireIfLate(r, t) ==
    IF r.decision = "pending" /\ t > r.expiresAt
    THEN [r EXCEPT !.decision = "expired"]
    ELSE r

\* evictExpiredLocked: first expire what is late, then purge old decided requests.
EvictExpired(q, t) ==
    LET swept == [id \in DOMAIN q |-> ExpireIfLate(q[id], t)]
        kept  == {id \in DOMAIN q : swept[id].decision = "pending"
                                      \/ swept[id].createdAt >= t - Retention}
    IN  [id \in kept |-> swept[id]]

\* Mutant: off by one.
IsFullLate(q, t) == Cardinality(DOMAIN EvictExpired(q, t)) > MaxSize

\* The queue-full test of Submit runs after the sweep and counts decided requests too.
IsFull(q, t) == Cardinality(DOMAIN EvictExpired(q, t)) >= MaxSize

AfterSubmit(q, id, second, t) ==
    LET swept == EvictExpired(q, t)
    IN  [i \in DOMAIN swept \cup {id} |->
            IF i = id THEN NewRequest(second, t) ELSE swept[i]]

\* Mutant: approvers are compared by spelling.
HasApprovedVerbatim(r, by) == \E i \in 1..Len(r.approvals) : r.approvals[i].actor = by

HasApproved(r, by) ==
    \E i \in 1..Len(r.approvals) : Person[r.approvals[i].actor] = Person[by]

\* Mutant: a decided request may be decided again.
DecideOutcomeReopens(q, id, d, by, t) ==
    IF id \notin DOMAIN q THEN "not found"
    ELSE IF t > q[id].expiresAt THEN "expired"
    ELSE IF d = "approved" /\ HasApproved(q[id], by) THEN "duplicate"
    ELSE "ok"

\* How Decide answers: its error returns in the order of its tests, or "ok".
DecideOutcome(q, id, d, by, t) ==
    IF id \notin DOMAIN q THEN "not found"
    ELSE IF q[id].decision # "pending" THEN "already decided"
    ELSE IF t > q[id].expiresAt THEN "expired"
    ELSE IF d = "approved" /\ HasApproved(q[id], by) THEN "duplicate"
    ELSE "ok"

Approve(r, by, t) ==
    LET recorded == Append(r.approvals, [actor |-> by, at |-> t])
    IN  [r EXCEPT !.approvals = recorded,
                  !.decision  = IF Len(recorded) < RequiredApprovalCount(r)
                                THEN "pending" ELSE "approved"]

\* What Decide does to the request; a late decision marks the request expired.
AfterDecide(q, id, d, by, t) ==
    LET outcome == DecideOutcome(q, id, d, by, t)
    IN  IF outcome = "expired" THEN [q EXCEPT ![id].decision = "expired"]
        ELSE IF outcome # "ok" THEN q
        ELSE IF d = "denied" THEN [q EXCEPT ![id].decision = "denied"]
        ELSE [q EXCEPT ![id] = Approve(q[id], by, t)]

----------------------------------------------------------------------------
\* What the operations keep, whatever the queue

\* evictExpiredLocked drops only requests that it has expired or that were decided before,
\* and changes the others only by expiring them.
LEMMA EvictFacts ==
    ASSUME NEW q, NEW t
    PROVE  /\ DOMAIN EvictExpired(q, t) \subseteq DOMAIN q
           /\ \A id \in DOMAIN EvictExpired(q, t) : EvictExpired(q, t)[id] = ExpireIfLate(q[id], t)
           /\ \A id \in DOMAIN q \ DOMAIN EvictExpired(q, t) : ExpireIfLate(q[id], t).decision # "pending"
  BY DEF EvictExpired

\* Expiring a request changes nothing but a pending decision, and only after the deadline.
LEMMA ExpireFacts ==
    ASSUME NEW r \in Request, NEW t \in Nat
    PROVE  LET e == ExpireIfLate(r, t) IN
           /\ e \in Request
           /\ e.second = r.second /\ e.approvals = r.approvals /\ e.expiresAt = r.expiresAt
           /\ e.decision = r.decision \/ (r.decision = "pending" /\ t > r.expiresAt /\ e.decision = "expired")
  BY DEF ExpireIfLate, Request, Decisions

\* A new request is pending, without approvals.
LEMMA NewRequestFacts ==
    ASSUME NEW second \in BOOLEAN, NEW t \in Nat
    PROVE  /\ NewRequest(second, t) \in Request
           /\ NewRequest(second, t).decision = "pending"
           /\ NewRequest(second, t).approvals = <<>>
  BY QueueAssumption DEF NewRequest, Request, Decisions

\* Recording an approval appends it and leaves the rest of the request alone.
LEMMA ApproveFacts ==
    ASSUME NEW r \in Request, NEW by \in Actors, NEW t \in Nat
    PROVE  LET a == Approve(r, by, t) IN
           /\ a \in Request
           /\ a.second = r.second /\ a.expiresAt = r.expiresAt
           /\ a.approvals = Append(r.approvals, [actor |-> by, at |-> t])
           /\ a.decision = "approved" => Len(a.approvals) >= RequiredApprovalCount(a)
  <1> DEFINE entry == [actor |-> by, at |-> t]
             recorded == Append(r.approvals, entry)
             a == Approve(r, by, t)
  <1>1. /\ recorded \in Seq([actor : Actors, at : Nat])
        /\ Len(recorded) \in Nat
    BY DEF Request
  <1>2. a = [r EXCEPT !.approvals = recorded,
                      !.decision = IF Len(recorded) < RequiredApprovalCount(r)
                                   THEN "pending" ELSE "approved"]
    BY DEF Approve
  <1>3. a.second = r.second /\ a.expiresAt = r.expiresAt /\ a.approvals = recorded
    BY <1>2 DEF Request
  <1> HIDE DEF recorded
  <1>4. a \in Request
    BY <1>1, <1>2, Zenon DEF Request, Decisions
  <1>5. a.decision = "approved" => Len(a.approvals) >= RequiredApprovalCount(a)
    BY <1>1, <1>2, <1>3 DEF RequiredApprovalCount, Request
  <1> QED BY <1>3, <1>4, <1>5 DEF recorded

\* A queue of well-formed requests, all of them with ids of a given set
IsQueue(q, ids) == DOMAIN q \subseteq ids /\ \A id \in DOMAIN q : q[id] \in Request

\* Every operation of the queue leaves a queue of well-formed requests.
LEMMA QueueOperations ==
    ASSUME NEW ids, NEW q, IsQueue(q, ids), NEW t \in Nat
    PROVE  /\ IsQueue(EvictExpired(q, t), ids)
           /\ \A id \in ids, second \in BOOLEAN : IsQueue(AfterSubmit(q, id, second, t), ids)
           /\ \A id \in ids, d \in {"approved", "denied"}, by \in Actors : IsQueue(AfterDecide(q, id, d, by, t), ids)
  <1>1. IsQueue(EvictExpired(q, t), ids)
    BY EvictFacts, ExpireFacts DEF IsQueue
  <1>2. ASSUME NEW id \in ids, NEW second \in BOOLEAN
        PROVE  IsQueue(AfterSubmit(q, id, second, t), ids)
    BY <1>1, NewRequestFacts DEF IsQueue, AfterSubmit
  <1>3. ASSUME NEW id \in ids, NEW d \in {"approved", "denied"}, NEW by \in Actors
        PROVE  IsQueue(AfterDecide(q, id, d, by, t), ids)
    <2>1. CASE id \notin DOMAIN q
      BY <2>1 DEF AfterDecide, DecideOutcome
    <2>2. CASE id \in DOMAIN q
      <3>1. q[id] \in Request BY <2>2 DEF IsQueue
      <3>2. ASSUME NEW s \in Request PROVE IsQueue([q EXCEPT ![id] = s], ids)
        BY <3>2 DEF IsQueue
      <3>3. [q[id] EXCEPT !.decision = "expired"] \in Request /\ [q[id] EXCEPT !.decision = "denied"] \in Request
        BY <3>1 DEF Request, Decisions
      <3>4. Approve(q[id], by, t) \in Request
        BY <3>1, ApproveFacts
      <3>5. \/ AfterDecide(q, id, d, by, t) = q
            \/ AfterDecide(q, id, d, by, t) = [q EXCEPT ![id] = [q[id] EXCEPT !.decision = "expired"]]
            \/ AfterDecide(q, id, d, by, t) = [q EXCEPT ![id] = [q[id] EXCEPT !.decision = "denied"]]
            \/ AfterDecide(q, id, d, by, t) = [q EXCEPT ![id] = Approve(q[id], by, t)]
        BY DEF AfterDecide
      <3> QED BY <3>2, <3>3, <3>4, <3>5
    <2> QED BY <2>1, <2>2
  <1> QED BY <1>1, <1>2, <1>3
=============================================================================
