------------------------------ MODULE Sandbox ------------------------------
(***************************************************************************)
(* Sandbox sessions, their tasks and their artifacts: the stores and the   *)
(* HTTP handlers of internal/controlplane/sandbox.                         *)
(*                                                                         *)
(* A handler reads a row, decides, and writes; only the write itself is    *)
(* one SQL statement, guarded by the state the handler saw.  A caller is a *)
(* request under way, kept between its reading and its writing.  Workspace *)
(* and runtime class of a session do not change.                           *)
(***************************************************************************)
EXTENDS Integers, FiniteSetsExt, Functions

CONSTANTS
    Sandboxes, Tasks, Artifacts,     \* row ids
    Workspaces,                      \* workspace ids; "" is none
    Runtimes, AllowedRuntimes,       \* requested runtime classes, the policy's list
    Callers,                         \* requests under way at once
    Moves, Notes,                    \* <<from, to>> of transitions that are asked for, with a note or not
    MaxConcurrent,                   \* policy: non-terminal sessions, 0 is unlimited
    CountMayFail,                    \* whether the query that counts them may fail
    MaxArtifact, MaxSandboxArtifacts,   \* per-file and per-sandbox limits
    Sizes                            \* sizes of uploaded files

VARIABLES session, task, artifact, caller

sandboxVars == <<session, task, artifact, caller>>

States == {"created", "provisioning", "ready", "running", "failed", "destroyed"}
Terminal == {"failed", "destroyed"}
NoSession == [state |-> "none", ws |-> "", note |-> FALSE, uncounted |-> FALSE]
NoTask == [state |-> "none", sandbox |-> ""]
NoArtifact == [size |-> 0, sandbox |-> ""]
Idle == [pc |-> "idle"]

(***************************************************************************)
(* Store.                                                                  *)
(***************************************************************************)
ValidTransitions ==
    {<<"created", "provisioning">>, <<"provisioning", "ready">>, <<"provisioning", "failed">>,
     <<"ready", "running">>, <<"ready", "destroyed">>,
     <<"running", "failed">>, <<"running", "destroyed">>}

ValidateTransition(from, to) == <<from, to>> \in ValidTransitions

\* Mutant: the statement does not compare the current state.
TransitionUnlocked(s, from, to) ==
    IF ValidateTransition(from, to) THEN [session EXCEPT ![s].state = to] ELSE session

Transition(s, from, to) ==
    IF ValidateTransition(from, to) /\ session[s].state = from
    THEN [session EXCEPT ![s].state = to] ELSE session

GetForWorkspace(s, ws) ==
    /\ session[s].state # "none"
    /\ ws = "" \/ session[s].ws = "" \/ session[s].ws = ws

Active == {s \in Sandboxes : session[s].state \notin Terminal \cup {"none"}}

\* Mutant: the session is admitted without counting the active ones.
AdmitsAny(counts) == TRUE

\* CountActive is 0 when its query fails.
Admits(counts) == MaxConcurrent <= 0 \/ (IF counts THEN Cardinality(Active) ELSE 0) < MaxConcurrent

SandboxTotalSize(s) ==
    FoldSet(LAMBDA a, sum : sum + artifact[a].size, 0, {a \in Artifacts : artifact[a].sandbox = s})

WithinQuota(s, size) == size <= MaxArtifact /\ SandboxTotalSize(s) + size <= MaxSandboxArtifacts

\* TransitionTask: queued or running to cancelled is the only transition the server asks for.
TransitionTask(t, from, to) ==
    IF from \in {"queued", "running"} /\ to = "cancelled" /\ task[t].state = from
    THEN [task EXCEPT ![t].state = to] ELSE task

Enters(c, r) == caller[c] = Idle /\ caller' = [caller EXCEPT ![c] = r]
Leaves(c) == caller' = [caller EXCEPT ![c] = Idle]

(***************************************************************************)
(* Sessions.                                                               *)
(***************************************************************************)
HandleCreate(c, s, ws, rt, counts) ==
    /\ session[s] = NoSession
    /\ rt # ""
    /\ AllowedRuntimes = {} \/ rt \in AllowedRuntimes
    /\ counts \/ CountMayFail
    /\ Admits(counts)
    /\ Enters(c, [pc |-> "create", sandbox |-> s, ws |-> ws, uncounted |-> ~counts])
    /\ UNCHANGED <<session, task, artifact>>

CreateInserts(c) ==
    /\ caller[c].pc = "create"
    /\ session[caller[c].sandbox] = NoSession
    /\ session' = [session EXCEPT ![caller[c].sandbox] =
                       [NoSession EXCEPT !.state = "created", !.ws = caller[c].ws, !.uncounted = caller[c].uncounted]]
    /\ Leaves(c)
    /\ UNCHANGED <<task, artifact>>

HandleDestroy(c, s, ws) ==
    /\ GetForWorkspace(s, ws)
    /\ session[s].state \notin Terminal
    /\ Enters(c, [pc |-> "destroy", sandbox |-> s, saw |-> session[s].state])
    /\ UNCHANGED <<session, task, artifact>>

DestroyTransitions(c) ==
    /\ caller[c].pc = "destroy"
    /\ session' = Transition(caller[c].sandbox, caller[c].saw, "destroyed")
    /\ Leaves(c)
    /\ UNCHANGED <<task, artifact>>

\* HandleTransition: the caller names both states; a note is written afterwards.  A
\* refused transition changes nothing and is no step.
HandleTransition(c, s, ws, from, to, note) ==
    /\ caller[c] = Idle
    /\ ValidateTransition(from, to)
    /\ GetForWorkspace(s, ws)
    /\ session' = Transition(s, from, to)
    /\ session' # session
    /\ caller' = IF note THEN [caller EXCEPT ![c] = [pc |-> "note", sandbox |-> s]] ELSE caller
    /\ UNCHANGED <<task, artifact>>

Update(c) ==
    /\ caller[c].pc = "note"
    /\ session' = [session EXCEPT ![caller[c].sandbox].note = TRUE]
    /\ Leaves(c)
    /\ UNCHANGED <<task, artifact>>

(***************************************************************************)
(* Tasks.                                                                  *)
(***************************************************************************)
HandleCreateTask(c, s, ws, t) ==
    /\ GetForWorkspace(s, ws)
    /\ session[s].state \in {"ready", "running"}
    /\ task[t] = NoTask
    /\ Enters(c, [pc |-> "task", sandbox |-> s, task |-> t, saw |-> session[s].state])
    /\ UNCHANGED <<session, task, artifact>>

CreateTask(c) ==
    LET t == caller[c].task IN
    /\ caller[c].pc = "task"
    /\ task[t] = NoTask
    /\ task' = [task EXCEPT ![t] = [state |-> "queued", sandbox |-> caller[c].sandbox]]
    /\ caller' = [caller EXCEPT ![c] = IF @.saw = "ready" THEN [@ EXCEPT !.pc = "run"] ELSE Idle]
    /\ UNCHANGED <<session, artifact>>

RunSandbox(c) ==
    /\ caller[c].pc = "run"
    /\ session' = Transition(caller[c].sandbox, "ready", "running")
    /\ Leaves(c)
    /\ UNCHANGED <<task, artifact>>

HandleCancelTask(c, s, ws, t) ==
    /\ GetForWorkspace(s, ws)
    /\ task[t].sandbox = s
    /\ task[t].state \in {"queued", "running"}
    /\ Enters(c, [pc |-> "cancel", task |-> t, saw |-> task[t].state])
    /\ UNCHANGED <<session, task, artifact>>

CancelTransitions(c) ==
    /\ caller[c].pc = "cancel"
    /\ task' = TransitionTask(caller[c].task, caller[c].saw, "cancelled")
    /\ Leaves(c)
    /\ UNCHANGED <<session, artifact>>

(***************************************************************************)
(* Artifacts: the total is read before the row is inserted.                *)
(***************************************************************************)
HandleUploadArtifact(c, s, ws, a, size) ==
    /\ GetForWorkspace(s, ws)
    /\ artifact[a] = NoArtifact
    /\ WithinQuota(s, size)
    /\ Enters(c, [pc |-> "upload", sandbox |-> s, artifact |-> a, size |-> size])
    /\ UNCHANGED <<session, task, artifact>>

CreateArtifact(c) ==
    /\ caller[c].pc = "upload"
    /\ artifact[caller[c].artifact] = NoArtifact
    /\ artifact' = [artifact EXCEPT ![caller[c].artifact] = [size |-> caller[c].size, sandbox |-> caller[c].sandbox]]
    /\ Leaves(c)
    /\ UNCHANGED <<session, task>>

(***************************************************************************)
\* A restart, or a client that goes away before the write: the request is gone.
RequestLost(c) == caller[c] # Idle /\ Leaves(c) /\ UNCHANGED <<session, task, artifact>>

Init ==
    /\ session = [s \in Sandboxes |-> NoSession]
    /\ task = [t \in Tasks |-> NoTask]
    /\ artifact = [a \in Artifacts |-> NoArtifact]
    /\ caller = [c \in Callers |-> Idle]

Next ==
    \E c \in Callers :
       \/ \E s \in Sandboxes, ws \in Workspaces :
             \/ \E rt \in Runtimes, counts \in BOOLEAN : HandleCreate(c, s, ws, rt, counts)
             \/ HandleDestroy(c, s, ws)
             \/ \E m \in Moves, note \in Notes : HandleTransition(c, s, ws, m[1], m[2], note)
             \/ \E t \in Tasks : HandleCreateTask(c, s, ws, t) \/ HandleCancelTask(c, s, ws, t)
             \/ \E a \in Artifacts, n \in Sizes : HandleUploadArtifact(c, s, ws, a, n)
       \/ CreateInserts(c) \/ DestroyTransitions(c) \/ Update(c)
       \/ CreateTask(c) \/ RunSandbox(c) \/ CancelTransitions(c)
       \/ CreateArtifact(c) \/ RequestLost(c)

Spec == Init /\ [][Next]_sandboxVars

\* What a step may do to the state of a session
MovesAlong ==
    \A s \in Sandboxes :
        session'[s].state # session[s].state =>
            \/ session[s].state = "none" /\ session'[s].state = "created"
            \/ <<session[s].state, session'[s].state>> \in ValidTransitions

\* "Terminal states: no outgoing transitions" (validTransitions): whatever requests race,
\* a session moves along the transitions of the state machine, so a destroyed session is
\* never run again by the task request that saw it ready.
SessionLifecycle == [][MovesAlong]_sandboxVars

\* The limits on sessions and on artifact bytes are compared before the row is inserted, so
\* they can be exceeded, by what the other requests under way insert and no more; a session
\* that was let in because the count failed is not held against it.
LimitsExceededOnlyByRaces ==
    /\ MaxConcurrent > 0 =>
          Cardinality({s \in Active : ~session[s].uncounted}) < MaxConcurrent + Cardinality(Callers)
    /\ \A s \in Sandboxes :
          SandboxTotalSize(s) <= MaxSandboxArtifacts + MaxArtifact * (Cardinality(Callers) - 1)
=============================================================================
