------------------------------ MODULE Incidents ------------------------------
(***************************************************************************)
(* Incident records, their timelines and the postmortem export             *)
(* (reliability/incident_store.go, reliability/incident.go,                *)
(* server/incidents_handler.go).                                           *)
(*                                                                         *)
(* Every handler that names an incident looks it up first and acts on the  *)
(* database in a second statement, so another handler can come in between. *)
(* Times are in half seconds.  They are stored as RFC 3339 text with the   *)
(* trailing zeros of the fraction removed, and compared as text.           *)
(***************************************************************************)
EXTENDS Integers, FiniteSets, Sequences, SequencesExt

CONSTANTS
    Ids,          \* incident ids
    Callers,      \* concurrent API requests
    Titles,       \* titles an update may set
    Times,        \* times a caller may give, in half seconds
    MaxEntries    \* bound on the timeline entries

VARIABLES
    incidents,  \* rows of the incidents table
    timeline,   \* rows of the incident_timeline table, by entry id
    caller,     \* each API request between its look-up and its write
    bundle      \* the last postmortem bundle written

incidentVars == <<incidents, timeline, caller, bundle>>

Statuses == {"open", "resolved", "closed"}
Null == -1
Absent == [row |-> FALSE, deleted |-> FALSE, status |-> "open", title |-> "", start |-> Null, end |-> Null]
Free == [pc |-> "idle", id |-> "", given |-> Null]
NoBundle == [id |-> "", incident |-> Absent, timeline |-> <<>>]

\* The order of the stored text: within one second "05.5Z" comes before "05Z",
\* since '.' comes before 'Z'.
TextKey(t) == 2 * (t \div 2) + (IF t % 2 = 1 THEN 0 ELSE 1)

Get(id) == incidents[id].row /\ ~incidents[id].deleted

\* ORDER BY timestamp ASC, id ASC
Timeline(id) ==
    LET of == {i \in DOMAIN timeline : timeline[i].incident = id}
        Before(i, j) == \/ TextKey(timeline[i].at) < TextKey(timeline[j].at)
                        \/ TextKey(timeline[i].at) = TextKey(timeline[j].at) /\ i < j
    IN  SetToSortSeq(of, Before)
-----------------------------------------------------------------------------
\* Create; without a start time the incident starts now.
NewIncident(title, start, now) ==
    [Absent EXCEPT !.row = TRUE, !.title = title, !.start = IF start = Null THEN now ELSE start]

HandleCreateIncident(id, title, start, now) ==
    /\ ~incidents[id].row
    /\ title # ""
    /\ incidents' = [incidents EXCEPT ![id] = NewIncident(title, start, now)]
    /\ UNCHANGED <<timeline, caller, bundle>>

\* The look-up of handleUpdateIncident, handleAddTimelineEntry,
\* handleDeleteIncident and handleExportIncident; an absent incident is a 404.
LookUp(c, id, operation) ==
    /\ caller[c].pc = "idle"
    /\ Get(id)
    /\ caller' = [caller EXCEPT ![c] = [Free EXCEPT !.pc = operation, !.id = id]]
    /\ UNCHANGED <<incidents, timeline, bundle>>

\* Mutant: the update does not ask for deleted_at IS NULL.
UpdateDeleted(id, change) ==
    IF incidents[id].row
    THEN [incidents EXCEPT ![id] = change]
    ELSE incidents

\* UPDATE ... WHERE id = ? AND deleted_at IS NULL
Update(id, change) ==
    IF Get(id) THEN [incidents EXCEPT ![id] = change] ELSE incidents

HandleUpdateIncident(c, status, title, end) ==
    LET id == caller[c].id
        row == incidents[id]
    IN  /\ caller[c].pc = "update"
        /\ incidents' = Update(id, [row EXCEPT !.status = IF status = "" THEN @ ELSE status,
                                               !.title = IF title = "" THEN @ ELSE title,
                                               !.end = IF end = Null THEN @ ELSE end])
        /\ caller' = [caller EXCEPT ![c] = Free]
        /\ UNCHANGED <<timeline, bundle>>

SoftDelete(id) == IF Get(id) THEN [incidents EXCEPT ![id].deleted = TRUE] ELSE incidents

HandleDeleteIncident(c) ==
    /\ caller[c].pc = "delete"
    /\ incidents' = SoftDelete(caller[c].id)
    /\ caller' = [caller EXCEPT ![c] = Free]
    /\ UNCHANGED <<timeline, bundle>>

\* The entry is inserted whether or not the incident is still there.
AddTimelineEntry(id, at) == Append(timeline, [incident |-> id, at |-> at])

HandleAddTimelineEntry(c, at) ==
    /\ caller[c].pc = "add"
    /\ Len(timeline) < MaxEntries
    /\ timeline' = AddTimelineEntry(caller[c].id, at)
    /\ caller' = [caller EXCEPT ![c] = Free]
    /\ UNCHANGED <<incidents, bundle>>

\* handleExportIncident writes the incident it looked up with the timeline it
\* then reads; GeneratePostmortemBundle puts both into the archive.
GeneratePostmortemBundle(id, incident, entries) ==
    [id |-> id, incident |-> incident, timeline |-> [i \in DOMAIN entries |-> timeline[entries[i]].at]]

HandleExportIncident(id) ==
    /\ Get(id)
    /\ bundle' = GeneratePostmortemBundle(id, incidents[id], Timeline(id))
    /\ UNCHANGED <<incidents, timeline, caller>>

Init ==
    /\ incidents = [id \in Ids |-> Absent]
    /\ timeline = <<>>
    /\ caller = [c \in Callers |-> Free]
    /\ bundle = NoBundle

Next ==
    \/ \E id \in Ids, title \in Titles, start \in Times \union {Null}, now \in Times :
          HandleCreateIncident(id, title, start, now)
    \/ \E c \in Callers, id \in Ids, operation \in {"update", "add", "delete"} : LookUp(c, id, operation)
    \/ \E c \in Callers : HandleDeleteIncident(c)
    \/ \E c \in Callers, at \in Times : HandleAddTimelineEntry(c, at)
    \/ \E c \in Callers, status \in Statuses \union {""}, title \in Titles \union {""}, end \in Times \union {Null} :
          HandleUpdateIncident(c, status, title, end)
    \/ \E id \in Ids : HandleExportIncident(id)

Spec == Init /\ [][Next]_incidentVars
-----------------------------------------------------------------------------
\* A deleted incident stays as it was when it was deleted, although an update
\* may have looked it up before (Update and SoftDelete ask for deleted_at IS
\* NULL in the statement that writes).
DeletedIncidentsAreFrozen ==
    [][\A id \in Ids : incidents[id].deleted => incidents'[id] = incidents[id]]_incidentVars
=============================================================================
