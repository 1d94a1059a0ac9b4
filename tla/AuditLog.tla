------------------------------- MODULE AuditLog -------------------------------
(***************************************************************************)
(* The audit store (audit/store.go, audit/chain.go, audit/audit.go): rows  *)
(* in SQLite signed as a hash chain, a bounded log in memory, the purge,   *)
(* and VerifyChain.                                                        *)
(*                                                                         *)
(* A hash is the sequence of the ids it is computed over: HMAC-SHA256 is   *)
(* taken to be free of collisions, and <<>> is the genesis hash.  An event *)
(* takes its id and timestamp before Record takes writeMu.  Times are in   *)
(* half seconds and are compared as stored, as RFC 3339 text.              *)
(***************************************************************************)
EXTENDS Integers, Sequences, SequencesExt, FiniteSetsExt

CONSTANTS
    Ids,           \* event ids, positive: random, so their order says nothing
    Writers,       \* goroutines that record events
    MemoryLimit,   \* events kept in memory
    Step,          \* half seconds per tick of the clock
    Editable,      \* rows may be edited or removed behind the store's back
    MaxTime,       \* bound on the clock, in half seconds
    MaxRestarts    \* bound on restarts

VARIABLES
    now,       \* the clock
    rows,      \* audit_events by id: [at, prev, hash, intact], or Absent
    chainMode, \* whether this process signs rows
    lastHash,  \* Store.lastEntryHash
    memory,    \* ids in the in-memory log, oldest first
    writer,    \* each Record in progress
    purger,    \* the Purge in progress
    used,      \* ids given out
    order,     \* history: the ids of the rows as they were inserted, since a purge left none
    restarts

auditVars == <<now, rows, chainMode, lastHash, memory, writer, purger, used, order, restarts>>

Unsigned == <<0>>
Genesis == <<>>
Absent == [there |-> FALSE, at |-> 0, prev |-> Unsigned, hash |-> Unsigned, intact |-> TRUE]
NoEvent == [pc |-> "idle", id |-> 0, at |-> 0]
NoPurge == [pc |-> "idle", recent |-> <<>>, hash |-> Genesis]

Stored == {i \in Ids : rows[i].there}

\* "05.5Z" sorts before "05Z".
TextKey(t) == 2 * (t \div 2) + (IF t % 2 = 1 THEN 0 ELSE 1)

\* ORDER BY timestamp ASC, id ASC
Ordered(ids) ==
    SetToSortSeq(ids, LAMBDA i, j : \/ TextKey(rows[i].at) < TextKey(rows[j].at)
                                    \/ TextKey(rows[i].at) = TextKey(rows[j].at) /\ i < j)

LastOf(s, n) == SubSeq(s, Max({1, Len(s) - n + 1}), Len(s))

\* loadRecent: the newest rows, oldest first.
Recent == LastOf(Ordered(Stored), MemoryLimit)

LatestPersistedEntryHash ==
    LET signed == Ordered({i \in Stored : rows[i].hash # Unsigned})
    IN  IF signed = <<>> THEN Genesis ELSE rows[Last(signed)].hash

ComputeEntryHash(prev, id) == Append(prev, id)
-----------------------------------------------------------------------------
\* enrichEvent.  The clock counts nanoseconds: no two events read the same time.
Enrich(w, id) ==
    /\ writer[w].pc = "idle"
    /\ \A i \in Stored : rows[i].at # now
    /\ \A v \in Writers : writer[v].pc # "idle" => writer[v].at # now
    /\ id \notin used
    /\ used' = used \union {id}
    /\ writer' = [writer EXCEPT ![w] = [pc |-> "stamped", id |-> id, at |-> now]]
    /\ UNCHANGED <<now, rows, chainMode, lastHash, memory, purger, restarts, order>>

\* The row of an event that is signed after prev.
SignedAfter(e, prev) ==
    [there |-> TRUE, at |-> e.at, intact |-> TRUE,
     prev |-> IF chainMode THEN prev ELSE Unsigned,
     hash |-> IF chainMode THEN ComputeEntryHash(prev, e.id) ELSE Unsigned]

\* A row inserted while a purge runs: 0 spoils the order until a later purge leaves none.
InsertedAfter(ids, id) == IF purger.pc = "idle" THEN Append(ids, id) ELSE <<0, id>>

\* Mutant: the chain moves on also when the insert failed.
PersistMovesOn(w, inserted) ==
    LET e == writer[w]
        row == SignedAfter(e, lastHash)
    IN  /\ e.pc = "stamped"
        /\ rows' = IF inserted THEN [rows EXCEPT ![e.id] = row] ELSE rows
        /\ order' = IF inserted THEN InsertedAfter(order, e.id) ELSE order
        /\ lastHash' = IF chainMode THEN row.hash ELSE lastHash
        /\ writer' = [writer EXCEPT ![w].pc = "persisted"]
        /\ UNCHANGED <<now, chainMode, memory, purger, used, restarts>>

\* Under writeMu; a failed insert leaves the chain where it was.
Persist(w, inserted) ==
    LET e == writer[w]
        row == SignedAfter(e, lastHash)
    IN  /\ e.pc = "stamped"
        /\ rows' = IF inserted THEN [rows EXCEPT ![e.id] = row] ELSE rows
        /\ order' = IF inserted THEN InsertedAfter(order, e.id) ELSE order
        /\ lastHash' = IF inserted /\ chainMode THEN row.hash ELSE lastHash
        /\ writer' = [writer EXCEPT ![w].pc = "persisted"]
        /\ UNCHANGED <<now, chainMode, memory, purger, used, restarts>>

\* Log.Record, whether the row was inserted or not.
Remember(w) ==
    /\ writer[w].pc = "persisted"
    /\ memory' = LastOf(Append(memory, writer[w].id), MemoryLimit)
    /\ writer' = [writer EXCEPT ![w] = NoEvent]
    /\ UNCHANGED <<now, rows, chainMode, lastHash, purger, used, restarts, order>>

\* Purge deletes, rebuilds the memory log and then moves the end of the chain.
PurgeDelete(olderThan) ==
    LET old == {i \in Stored : TextKey(rows[i].at) < TextKey(now - olderThan)}
    IN  /\ purger.pc = "idle"
        /\ old # {}
        /\ rows' = [i \in Ids |-> IF i \in old THEN Absent ELSE rows[i]]
        /\ order' = IF old = Stored THEN <<>> ELSE order
        /\ purger' = [NoPurge EXCEPT !.pc = "query"]
        /\ UNCHANGED <<now, chainMode, lastHash, memory, writer, used, restarts>>

PurgeQuery ==
    /\ purger.pc = "query"
    /\ purger' = [purger EXCEPT !.pc = "swap", !.recent = Recent]
    /\ UNCHANGED <<now, rows, chainMode, lastHash, memory, writer, used, restarts, order>>

PurgeSwap ==
    /\ purger.pc = "swap"
    /\ memory' = purger.recent
    /\ purger' = IF chainMode THEN [NoPurge EXCEPT !.pc = "hash"] ELSE NoPurge
    /\ UNCHANGED <<now, rows, chainMode, lastHash, writer, used, restarts, order>>

PurgeReadHash ==
    /\ purger.pc = "hash"
    /\ purger' = [purger EXCEPT !.pc = "set", !.hash = LatestPersistedEntryHash]
    /\ UNCHANGED <<now, rows, chainMode, lastHash, memory, writer, used, restarts, order>>

PurgeSetHash ==
    /\ purger.pc = "set"
    /\ lastHash' = purger.hash
    /\ purger' = NoPurge
    /\ UNCHANGED <<now, rows, chainMode, memory, writer, used, restarts, order>>

\* NewStoreWithOptions, with chain mode on or off and the same configured key.
Restart(mode) ==
    /\ restarts < MaxRestarts
    /\ restarts' = restarts + 1
    /\ chainMode' = mode
    /\ memory' = Recent
    /\ lastHash' = IF mode THEN LatestPersistedEntryHash ELSE Genesis
    /\ writer' = [w \in Writers |-> NoEvent]
    /\ purger' = NoPurge
    /\ UNCHANGED <<now, rows, used, order>>

\* A row edited or deleted directly in the database (store_test.go:302).
EditRow(id) ==
    /\ Editable
    /\ rows[id].there
    /\ rows' = [rows EXCEPT ![id] = [@ EXCEPT !.intact = FALSE]]
    /\ UNCHANGED <<now, chainMode, lastHash, memory, writer, purger, used, restarts, order>>

RemoveRow(id) ==
    /\ Editable
    /\ rows[id].there
    /\ rows' = [rows EXCEPT ![id] = Absent]
    /\ UNCHANGED <<now, chainMode, lastHash, memory, writer, purger, used, restarts, order>>

Tick ==
    /\ now < MaxTime
    /\ now' = now + Step
    /\ UNCHANGED <<rows, chainMode, lastHash, memory, writer, purger, used, restarts, order>>

Init ==
    /\ now = 0
    /\ rows = [i \in Ids |-> Absent]
    /\ chainMode \in BOOLEAN
    /\ lastHash = Genesis
    /\ memory = <<>>
    /\ writer = [w \in Writers |-> NoEvent]
    /\ purger = NoPurge
    /\ used = {}
    /\ order = <<>>
    /\ restarts = 0

Next ==
    \/ Tick
    \/ \E w \in Writers : Remember(w) \/ \E id \in Ids : Enrich(w, id)
    \/ \E w \in Writers, inserted \in BOOLEAN : Persist(w, inserted)
    \/ \E olderThan \in 0..MaxTime : PurgeDelete(olderThan)
    \/ PurgeQuery \/ PurgeSwap \/ PurgeReadHash \/ PurgeSetHash
    \/ \E mode \in BOOLEAN : Restart(mode)
    \/ \E id \in Ids : EditRow(id) \/ RemoveRow(id)

Spec == Init /\ [][Next]_auditVars
-----------------------------------------------------------------------------
\* Mutant: only the hashes are recomputed, and the links are not followed.
LinkedByHashOnly(i, expectedPrev) ==
    rows[i].intact /\ rows[i].hash = ComputeEntryHash(rows[i].prev, i)

\* A signed row continues the chain from expectedPrev, and its hash is that of its content.
Linked(i, expectedPrev) ==
    /\ rows[i].prev = expectedPrev
    /\ rows[i].intact
    /\ rows[i].hash = ComputeEntryHash(rows[i].prev, i)

\* VerifyChain: without chain mode every log is valid.  With it, unsigned rows come only
\* before the first signed one, and the signed rows, in the order of their timestamps, are
\* linked from the genesis hash on.
VerifyChain ==
    LET all == Ordered(Stored)
        IsSigned(k) == rows[all[k]].hash # Unsigned
        signed == SelectSeq(all, LAMBDA i : rows[i].hash # Unsigned)
    IN  chainMode =>
        /\ \A k, l \in DOMAIN all : k < l /\ IsSigned(k) => IsSigned(l)
        /\ \A k \in DOMAIN signed :
              Linked(signed[k], IF k = 1 THEN Genesis ELSE rows[signed[k - 1]].hash)

\* In chain mode, when VerifyChain finds the log valid, no signed row in it was edited and
\* every event that one of them was chained onto is still there.  Rows missing at the end and
\* unsigned rows are not covered, and without chain mode nothing is.
ValidLogsAreWhole ==
    chainMode /\ VerifyChain =>
        \A i \in Stored : rows[i].hash # Unsigned =>
            /\ rows[i].intact
            /\ \A k \in DOMAIN rows[i].hash : rows[i].hash[k] \in Stored

\* No false alarm: a log that no one edited, and that no purge shortened unless it left no
\* row, verifies across concurrent writers, failed inserts and restarts, provided that its
\* rows were inserted in the order of their timestamps (as text), none of them while a purge
\* was running, and that unsigned ones are older than chain mode.
UntouchedLogsVerify ==
    LET UnsignedFirst == \A k, l \in DOMAIN order :
                            k < l /\ rows[order[l]].hash = Unsigned => rows[order[k]].hash = Unsigned
    IN  order = Ordered(Stored) /\ (\A i \in Stored : rows[i].intact) /\ UnsignedFirst => VerifyChain
=============================================================================
