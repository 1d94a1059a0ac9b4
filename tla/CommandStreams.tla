--------------------------- MODULE CommandStreams ---------------------------
(***************************************************************************)
(* The recorded timeline of one command (cmdtracker/stream_recorder.go):    *)
(* markers of the control plane and output chunks of the probe, persisted   *)
(* with a sequence number, pruned by retention, and read by clients that    *)
(* replay a page and then follow live events (server/routes.go              *)
(* handleSSEStream).  Every operation of the recorder holds its mutex.      *)
(*                                                                          *)
(* Chunks may arrive out of order and twice, or never; an insertion may     *)
(* fail.  The recorder's state is lost by a restart and rebuilt from the    *)
(* table, so numbers begin again when retention has emptied it.             *)
(***************************************************************************)
EXTENDS Integers, Sequences, FiniteSets, SequencesExt

CONSTANTS
    Clients,       \* readers of the stream
    Chunks,        \* number of output chunks of the command
    MaxMarkers,    \* bound on markers
    MaxRestarts,   \* bound on restarts
    Keep,          \* MaxEventsPerRequest
    AgeOut,        \* whether events grow older than MaxAge
    PageLimit,     \* replay limit
    BufSize        \* capacity of a subscriber's channel

VARIABLES
    table,         \* command_stream_events of this request, ascending seq
    state,         \* streamState, or NotLoaded
    client,        \* per client: its subscription and what it was sent
    markers, restarts

vars == <<table, state, client, markers, restarts>>

\* "numbering" tells apart events that have one sequence number (history only).
NotLoaded(numbering) ==
    [loaded |-> FALSE, nextSeq |-> 1, nextOutput |-> 1, held |-> {}, numbering |-> numbering]
NoClient == [on |-> FALSE, after |-> 0, buf |-> <<>>, got |-> <<>>, excused |-> {}, ended |-> FALSE]

Init ==
    /\ table = <<>> /\ state = NotLoaded(0)
    /\ client = [c \in Clients |-> NoClient]
    /\ markers = 0 /\ restarts = 0

MaxOf(S) == CHOOSE x \in S : \A y \in S : y <= x
OutputsOf(t) == {t[i].chunk : i \in DOMAIN t} \ {0}
SeqsOf(t) == {t[i].seq : i \in DOMAIN t}

\* loadStateLocked: the counters continue after what the table still holds.
LoadState(st, t) ==
    IF st.loaded THEN st
    ELSE [loaded |-> TRUE, nextSeq |-> IF t = <<>> THEN 1 ELSE MaxOf(SeqsOf(t)) + 1,
          nextOutput |-> IF OutputsOf(t) = {} THEN 1 ELSE MaxOf(OutputsOf(t)) + 1, held |-> {},
          numbering |-> IF t = <<>> THEN st.numbering + 1 ELSE st.numbering]

\* pruneLocked: age and the total limit may remove any prefix of events that are not "new".
Pruned(t, new) ==
    LET first == IF Len(t) > Keep THEN Len(t) - Keep + 1 ELSE 1
    IN {SubSeq(t, k, Len(t)) : k \in first .. (IF AgeOut THEN Len(t) + 1 - new ELSE first)}

\* dispatchLocked: a full channel drops the event.
Dispatch(cl, e) ==
    [c \in Clients |->
        IF ~cl[c].on \/ e.seq <= cl[c].after THEN cl[c]
        ELSE IF Len(cl[c].buf) < BufSize THEN [cl[c] EXCEPT !.buf = Append(@, e)]
        ELSE [cl[c] EXCEPT !.excused = @ \cup {<<e.of, e.seq>>}]]

\* insertEventLocked: the event just inserted is too young to be pruned.
Inserts(r, chunk) ==
    LET e == [seq |-> r.state.nextSeq, chunk |-> chunk, of |-> r.state.numbering]
    IN {[table |-> t, state |-> [r.state EXCEPT !.nextSeq = @ + 1], client |-> Dispatch(r.client, e)]
          : t \in Pruned(Append(r.table, e), 1)}

Now == [table |-> table, state |-> LoadState(state, table), client |-> client]

Becomes(r) == table' = r.table /\ state' = r.state /\ client' = r.client

\* A marker that cannot be inserted is gone; the state has been loaded.
AppendMarker ==
    /\ markers < MaxMarkers
    /\ markers' = markers + 1
    /\ \E r \in Inserts(Now, 0) \cup {Now} : Becomes(r)
    /\ UNCHANGED restarts

\* Emits the held chunks in order, up to an insertion that fails: its chunk is no longer held.
EmitHeld(r) ==
    LET Unheld(q) == [q EXCEPT !.state.held = @ \ {q.state.nextOutput}]
        emit[n \in 0 .. Chunks] ==
          IF n = 0 THEN {r}
          ELSE UNION {{[x EXCEPT !.state.nextOutput = @ + 1] : x \in Inserts(Unheld(q), q.state.nextOutput)}
                        : q \in {y \in emit[n - 1] : y.state.nextOutput \in y.state.held}}
        reached == UNION {emit[n] : n \in 0 .. Chunks}
    IN {IF q.state.nextOutput \in q.state.held THEN Unheld(q) ELSE q : q \in reached}

\* Mutant: chunks are stored as they arrive.
AcceptChunkAnyOrder(st, n) == [st EXCEPT !.nextOutput = n, !.held = {n}]

\* A chunk below nextOutput is a duplicate; any other is held.
AcceptChunk(st, n) == IF n < st.nextOutput THEN st ELSE [st EXCEPT !.held = @ \cup {n}]

AppendOutputChunk(n) ==
    /\ \E r \in EmitHeld([Now EXCEPT !.state = AcceptChunk(Now.state, n)]) : Becomes(r)
    /\ UNCHANGED <<markers, restarts>>

(***************************************************************************)
(* Clients.  A client resumes after the last event it was sent.             *)
(***************************************************************************)
Cursor(c) == IF client[c].got = <<>> THEN 0 ELSE Last(client[c].got).seq

\* Mutant: the page starts with the event the client already has.
ReplayInclusive(c) ==
    LET last == Cursor(c)
        later == SelectSeq(table, LAMBDA e : e.seq >= last)
        page == SubSeq(later, 1, IF Len(later) > PageLimit THEN PageLimit ELSE Len(later))
    IN [events |-> page, more |-> Len(later) > PageLimit,
        next |-> IF page # <<>> THEN Last(page).seq ELSE last, missed |-> {}]

\* replayLocked: a page, where it ends, and what it reports as missing.
Replay(c) ==
    LET last == Cursor(c)
        later == SelectSeq(table, LAMBDA e : e.seq > last)
        page == SubSeq(later, 1, IF Len(later) > PageLimit THEN PageLimit ELSE Len(later))
        latest == IF table = <<>> THEN 0 ELSE Last(table).seq
    IN [events |-> page, more |-> Len(later) > PageLimit,
        next |-> IF page # <<>> THEN Last(page).seq
                 ELSE IF latest > 0 /\ last > latest THEN latest ELSE last,
        missed |-> IF table # <<>> /\ last + 1 < table[1].seq THEN (last + 1) .. (table[1].seq - 1) ELSE {}]

\* The stream ends for the client with the final chunk.
UpToFinal(events) ==
    LET final == {i \in DOMAIN events : events[i].chunk = Chunks}
    IN IF final = {} THEN events ELSE SubSeq(events, 1, CHOOSE i \in final : \A j \in final : i <= j)

Numbers(events) == [i \in DOMAIN events |-> [seq |-> events[i].seq, of |-> events[i].of]]
HasFinal(events) == \E i \in DOMAIN events : events[i].chunk = Chunks

\* With no row left nothing is reported as missing, whatever was pruned.
Untold(c) == IF table = <<>> THEN (Cursor(c) + 1) .. (state.nextSeq - 1) ELSE {}

\* handleSSEStream: replay, subscribe after the page's last event, write the page.
ReplayAndSubscribe(c) ==
    /\ ~client[c].on /\ ~client[c].ended
    /\ LET p == Replay(c)
           sent == UpToFinal(p.events)
       IN client' = [client EXCEPT ![c] =
              [on |-> ~HasFinal(sent), after |-> p.next, buf |-> <<>>,
               got |-> @.got \o Numbers(sent), ended |-> HasFinal(sent),
               excused |-> @.excused
                    \cup {state.numbering} \X
                         (p.missed \cup Untold(c)
                          \cup (IF p.more THEN SeqsOf(table) \ SeqsOf(p.events) ELSE {}))]]
    /\ UNCHANGED <<table, state, markers, restarts>>

WriteLive(c) ==
    /\ client[c].on /\ client[c].buf # <<>>
    /\ LET e == Head(client[c].buf) IN
       client' = [client EXCEPT ![c] = [@ EXCEPT !.buf = Tail(@), !.got = @ \o Numbers(<<e>>),
                                                 !.on = e.chunk # Chunks, !.ended = e.chunk = Chunks]]
    /\ UNCHANGED <<table, state, markers, restarts>>

\* The request ends; what the channel still held will be replayed.
Hangup(c) ==
    /\ client[c].on
    /\ client' = [client EXCEPT ![c].on = FALSE, ![c].buf = <<>>]
    /\ UNCHANGED <<table, state, markers, restarts>>

\* NewStreamRecorder prunes before it serves; the states are loaded when they are needed.
Restart ==
    /\ restarts < MaxRestarts
    /\ restarts' = restarts + 1
    /\ state' = NotLoaded(state.numbering)
    /\ table' \in Pruned(table, 0)
    /\ client' = [c \in Clients |-> [client[c] EXCEPT !.on = FALSE, !.buf = <<>>]]
    /\ UNCHANGED markers

\* An event of another request is inserted: the pruning takes in this one's.
OtherRequestInserts ==
    /\ table' \in Pruned(table, 0) \ {table}
    /\ UNCHANGED <<state, client, markers, restarts>>

Next ==
    \/ AppendMarker \/ Restart \/ OtherRequestInserts
    \/ \E n \in 1 .. Chunks : AppendOutputChunk(n)
    \/ \E c \in Clients : ReplayAndSubscribe(c) \/ WriteLive(c) \/ Hangup(c)

Spec == Init /\ [][Next]_vars

\* The stored timeline is in order: sequence numbers rise one by one and so do the
\* output chunks, although chunks arrive out of order, twice, and around restarts, insertions
\* fail, and retention may take every row (the numbers then begin again after a restart).
\* That every chunk gets into the timeline is not claimed: a chunk that never arrives holds
\* back the later ones.
TimelineInOrder ==
    LET outputs == SelectSeq(table, LAMBDA e : e.chunk # 0) IN
    /\ \A i \in 1 .. Len(table) - 1 :
          table[i + 1].seq = table[i].seq + 1 /\ table[i + 1].of = table[i].of
    /\ \A i \in 1 .. Len(outputs) - 1 : outputs[i + 1].chunk = outputs[i].chunk + 1

\* What a client was sent rises strictly, also across reconnections, and an event is missing
\* between two it was sent only if that was reported to it (retention or a further page), its
\* channel was full, or it reconnected when retention had left no row.  Of two events the
\* client was sent before and after the numbers began again nothing is claimed.
ClientsMissOnlyWhatIsReported ==
    \A c \in Clients : \A i \in 1 .. Len(client[c].got) - 1 :
        LET e == client[c].got[i]  f == client[c].got[i + 1] IN
        e.of = f.of =>
           /\ e.seq < f.seq
           /\ {e.of} \X ((e.seq + 1) .. (f.seq - 1)) \subseteq client[c].excused
=============================================================================
