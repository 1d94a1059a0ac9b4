--------------------------- MODULE SandboxStream ---------------------------
(***************************************************************************)
(* Output of a sandbox: chunks are ingested in batches, stored, and fanned *)
(* out by StreamHub to the WebSocket clients of the sandbox; a client      *)
(* first gets what is stored, then what is broadcast.  The replay timeline *)
(* reads the chunks page by page.  The sequence number of a chunk is the   *)
(* one the probe gave it: a batch sent again is stored and shown twice.    *)
(***************************************************************************)
EXTENDS Integers, SequencesExt, FiniteSetsExt

CONSTANTS
    TaskIds,      \* tasks of the sandbox, each with at most one ingest request under way
    MaxSeq,       \* bound on sequence numbers
    MaxChunks,    \* bound on chunks stored
    Clients,      \* WebSocket clients
    BufferSize,   \* hubChannelBuffer
    ReplayLimit,  \* chunks a client is sent from the store
    PageSize      \* chunks per page of the timeline

VARIABLES
    running,      \* the session is in state running
    chunks,       \* sandbox_output_chunks
    ingest,       \* per task: chunks stored by its request under way, still to be broadcast
    sub,          \* per client: the subscription and what the handler does
    got,          \* per client: the chunks it was sent
    dropped       \* history, per client: chunks a full buffer lost, past the replay limit, or not read

streamVars == <<running, chunks, ingest, sub, got, dropped>>

NoClient == [pc |-> "gone"]

\* ListChunksBySandbox: ordered by sequence, rows of one sequence as they were inserted.
Before(c, d) == c.seq < d.seq \/ (c.seq = d.seq /\ c.id < d.id)

ListChunksBySandbox(set, since, limit) ==
    LET all == SetToSortSeq({c \in set : c.seq > since}, Before)
    IN SubSeq(all, 1, IF limit < Len(all) THEN limit ELSE Len(all))

\* HandleIngestOutput: the batch is stored in one transaction under the probe's own sequence
\* numbers, then broadcast chunk by chunk.
HandleIngestOutput(t, seqs) ==
    /\ running
    /\ ingest[t] = <<>>
    /\ Cardinality(chunks) + Len(seqs) <= MaxChunks
    /\ LET batch == [i \in DOMAIN seqs |-> [task |-> t, seq |-> seqs[i], id |-> Cardinality(chunks) + i]]
       IN chunks' = chunks \cup ToSet(batch) /\ ingest' = [ingest EXCEPT ![t] = batch]
    /\ UNCHANGED <<running, sub, got, dropped>>

\* A full buffer loses its oldest chunk, or the new one when another broadcast takes the place.
Pushes(t, k) ==
    LET c == Head(ingest[t])  buf == sub[k].buf  contended == \E u \in TaskIds \ {t} : ingest[u] # <<>>
    IN IF sub[k].pc = "gone" THEN {[sub |-> NoClient, lost |-> {}]}
       ELSE IF Len(buf) < BufferSize THEN {[sub |-> [sub[k] EXCEPT !.buf = Append(@, c)], lost |-> {}]}
       ELSE {[sub |-> [sub[k] EXCEPT !.buf = Append(Tail(@), c)], lost |-> {Head(buf)}]}
            \cup IF contended THEN {[sub |-> sub[k], lost |-> {c}]} ELSE {}

Broadcast(t) ==
    /\ ingest[t] # <<>>
    /\ \E push \in [Clients -> UNION {Pushes(t, k) : k \in Clients}] :
          /\ \A k \in Clients : push[k] \in Pushes(t, k)
          /\ sub' = [k \in Clients |-> push[k].sub]
          /\ dropped' = [k \in Clients |-> dropped[k] \cup push[k].lost]
    /\ ingest' = [ingest EXCEPT ![t] = Tail(@)]
    /\ UNCHANGED <<running, chunks, got>>

\* HandleStreamOutput: "Subscribe before replaying so we don't miss chunks that arrive
\* between the replay query and the subscription."
Subscribe(k, since) ==
    /\ sub[k].pc = "gone"
    /\ sub' = [sub EXCEPT ![k] = [pc |-> "replay", buf |-> <<>>, since |-> since]]
    /\ UNCHANGED <<running, chunks, ingest, got, dropped>>

\* Mutant: the replay query asks for chunks from the one after the next.
ReplayedLate(since) == ListChunksBySandbox(chunks, since + 1, ReplayLimit)

Replayed(since) == ListChunksBySandbox(chunks, since, ReplayLimit)

Replay(k) ==
    /\ sub[k].pc = "replay"
    /\ LET sent == ToSet(Replayed(sub[k].since))
       IN /\ got' = [got EXCEPT ![k] = @ \cup sent]
          /\ dropped' = [dropped EXCEPT ![k] =
                @ \cup IF Cardinality(sent) = ReplayLimit
                       THEN {c \in chunks : c.seq > sub[k].since} \ sent ELSE {}]
    /\ sub' = [sub EXCEPT ![k].pc = "live"]
    /\ UNCHANGED <<running, chunks, ingest>>

\* "Non-fatal: continue with live stream only."
ReplayFails(k) ==
    /\ sub[k].pc = "replay"
    /\ dropped' = [dropped EXCEPT ![k] = @ \cup chunks]
    /\ sub' = [sub EXCEPT ![k].pc = "live"]
    /\ UNCHANGED <<running, chunks, ingest, got>>

Deliver(k) ==
    /\ sub[k].pc = "live" /\ sub[k].buf # <<>>
    /\ got' = [got EXCEPT ![k] = @ \cup {Head(sub[k].buf)}]
    /\ sub' = [sub EXCEPT ![k].buf = Tail(@)]
    /\ UNCHANGED <<running, chunks, ingest, dropped>>

ClientGone(k) ==
    /\ sub[k].pc # "gone"
    /\ sub' = [sub EXCEPT ![k] = NoClient]
    /\ got' = [got EXCEPT ![k] = {}]
    /\ dropped' = [dropped EXCEPT ![k] = {}]
    /\ UNCHANGED <<running, chunks, ingest>>

\* The session fails or is destroyed: no more output; the subscribers stay.
SessionEnds == running /\ running' = FALSE /\ UNCHANGED <<chunks, ingest, sub, got, dropped>>

Init ==
    /\ running = TRUE
    /\ chunks = {} /\ ingest = [t \in TaskIds |-> <<>>]
    /\ sub = [k \in Clients |-> NoClient]
    /\ got = [k \in Clients |-> {}] /\ dropped = [k \in Clients |-> {}]

\* Batches of one chunk, or of two that count on.
Batches == {<<n>> : n \in 0 .. MaxSeq} \cup {<<n, n + 1>> : n \in 0 .. MaxSeq - 1}

Next ==
    \/ \E t \in TaskIds : Broadcast(t) \/ \E seqs \in Batches : HandleIngestOutput(t, seqs)
    \/ SessionEnds
    \/ \E k \in Clients :
          \/ \E s \in {0, 1} : Subscribe(k, s)
          \/ Replay(k) \/ ReplayFails(k) \/ Deliver(k) \/ ClientGone(k)

Spec == Init /\ [][Next]_streamVars

(***************************************************************************)
(* BuildTimeline: the pages of output, each starting after the largest     *)
(* sequence number seen.                                                   *)
(***************************************************************************)
RECURSIVE TimelinePages(_)
TimelinePages(since) ==
    LET page == ListChunksBySandbox(chunks, since, PageSize)
    IN IF Len(page) < PageSize THEN page ELSE page \o TimelinePages(page[Len(page)].seq)

BuildTimeline == TimelinePages(0)

\* Subscribing before the stored chunks are read loses nothing: whatever the numbers, and
\* whatever is ingested and broadcast meanwhile, a client that was sent the stored chunks
\* misses no chunk after "since" except those that a full buffer lost, those past the replay
\* limit, all that were stored when its query failed, and those still under way.
ClientsMissNothingElse ==
    \A k \in Clients : sub[k].pc = "live" =>
       \A c \in chunks : c.seq > sub[k].since =>
          c \in got[k] \cup dropped[k] \cup ToSet(sub[k].buf) \cup UNION {ToSet(ingest[t]) : t \in TaskIds}
=============================================================================
