----------------------------- MODULE AgentTasks -----------------------------
(***************************************************************************)
(* Commands a language model asks for: the task runner (llm/llm_task.go)   *)
(* behind policy and approval (server/server.go, initLLM's dispatch), the  *)
(* fleet chat (llm/fleet_responder.go), which sends at once, and group     *)
(* commands (server/routes.go, handleGroupCommand), which an operator      *)
(* sends to a tag.                                                         *)
(*                                                                         *)
(* A worker is one task, one fleet question or one group command.  Its     *)
(* n-th command to probe p is known as <<w, n, p>>.  The probes connect,   *)
(* disconnect, change their tags, leave the fleet and come back meanwhile; *)
(* one that is deleted keeps its connection (see Fleet).                   *)
(***************************************************************************)
EXTENDS Naturals, Sequences, FiniteSets, SequencesExt

CONSTANTS
    Workers,
    Kind(_),       \* worker -> task, fleet or group
    Probes,
    Tags,
    Targets,       \* what a fleet command may name: all, tags, probes
    Outcomes,      \* what the command policy may decide
    MaxSteps,      \* calls of the model (10 for tasks, 5 for the fleet)
    MaxChanges     \* bound on changes of probes

VARIABLES
    probe,         \* probe -> [online, known, tags]
    worker,        \* worker -> its progress
    asks,          \* approval requests: <<w, n, p>> -> decision
    sends,         \* <<w, n, p>> -> times the command went to the probe: ghost
    late,          \* worker -> commands it sent after its client left: ghost
    changes

agentVars == <<probe, worker, asks, sends, late, changes>>

Unstarted == [step |-> "unstarted", seen |-> {}, tags |-> [p \in Probes |-> {}], left |-> <<>>, calls |-> 0, told |-> <<>>, gone |-> FALSE, failed |-> FALSE]
Commands == Workers \X (0..MaxSteps) \X Probes
Put(w, r) == worker' = [worker EXCEPT ![w] = r]

\* handleTask.
HandleTask(w, p) ==
    /\ worker[w] = Unstarted /\ Kind(w) = "task" /\ probe[p].known
    /\ Put(w, [Unstarted EXCEPT !.step = "ask", !.seen = {p}])
    /\ UNCHANGED <<probe, asks, sends, late, changes>>

\* FleetChatResponder.Respond up to its loop: the probes online now.
FleetRespond(w) ==
    /\ worker[w] = Unstarted /\ Kind(w) = "fleet"
    /\ Put(w, [Unstarted EXCEPT !.step = "ask", !.seen = {p \in Probes : probe[p].known /\ probe[p].online},
                            !.tags = [p \in Probes |-> probe[p].tags]])
    /\ UNCHANGED <<probe, asks, sends, late, changes>>

\* handleGroupCommand up to its loop: the probes with the tag, online or not; none
\* is refused.
GroupCommand(w, tag) ==
    LET tagged == {p \in Probes : tag \in probe[p].tags}
    IN  /\ worker[w] = Unstarted /\ Kind(w) = "group" /\ tagged # {}
        /\ \E order \in SetToSeqs(tagged) :
               Put(w, [Unstarted EXCEPT !.step = "send", !.seen = tagged, !.left = order])
        /\ UNCHANGED <<probe, asks, sends, late, changes>>

\* The client of a task closes its connection: the request's context ends.
ClientLeaves(w) ==
    /\ Kind(w) = "task" /\ worker[w].step \notin {"unstarted", "done"} /\ ~ worker[w].gone
    /\ Put(w, [worker[w] EXCEPT !.gone = TRUE])
    /\ UNCHANGED <<probe, asks, sends, late, changes>>

\* resolveTargets, on the inventory taken at the start.
ResolveTargets(w, target) ==
    IF target = "all" THEN worker[w].seen
    ELSE IF target \in Tags THEN {p \in worker[w].seen : target \in worker[w].tags[p]}
    ELSE worker[w].seen \cap {target}

Finish(w, failed) == Put(w, [worker[w] EXCEPT !.step = "done", !.failed = failed])

\* Mutant: an error of the model is an empty answer.
MayGoOnAfterAll(w) == TRUE

\* Whether a call of the model can succeed: it takes the request's context.
MayGoOn(w) == ~ worker[w].gone

\* The provider's answer, text or error, ends Run; so does the limit on its calls.
CompleteEnds(w) ==
    /\ worker[w].step = "ask"
    /\ \/ Finish(w, TRUE)
       \/ MayGoOn(w) /\ worker[w].calls < MaxSteps /\ Finish(w, FALSE)
    /\ UNCHANGED <<probe, asks, sends, late, changes>>

\* The provider asks a task for a command: it goes to its probe by way of the policy.
CompleteAsks(w) ==
    /\ worker[w].step = "ask" /\ MayGoOn(w) /\ worker[w].calls < MaxSteps
    /\ Kind(w) = "task"
    /\ \E p \in worker[w].seen : Put(w, [worker[w] EXCEPT !.step = "submit", !.left = <<p>>, !.calls = @ + 1])
    /\ UNCHANGED <<probe, asks, sends, late, changes>>

\* One round of the fleet's loop: the command goes to its targets, or back to the
\* model when there are none.
FleetCommand(w) ==
    /\ worker[w].step = "ask" /\ worker[w].calls < MaxSteps
    /\ Kind(w) = "fleet"
    /\ \E target \in Targets :
           LET found == ResolveTargets(w, target)
           IN  IF found = {} THEN Put(w, [worker[w] EXCEPT !.calls = @ + 1])
               ELSE \E order \in SetToSeqs(found) :
                        Put(w, [worker[w] EXCEPT !.step = "send", !.left = order, !.calls = @ + 1])
    /\ UNCHANGED <<probe, asks, sends, late, changes>>

Command(w) == <<w, worker[w].calls, Head(worker[w].left)>>

\* A step is recorded; the loop goes on with the next target, or with the model.
Tell(w, ok) ==
    LET rest == Tail(worker[w].left)
    IN  Put(w, [worker[w] EXCEPT !.left = rest, !.told = Append(@, <<Command(w), ok>>),
                                 !.step = IF rest # <<>> THEN "send" ELSE IF Kind(w) = "group" THEN "done" ELSE "ask"])

\* initLLM's dispatch: SubmitCommandApprovalWithContext.  Denied and refused
\* commands are told to the model.  A probe that is not in the fleet has no policy:
\* the command is sent at once.
SubmitCommandApproval(w) ==
    /\ worker[w].step = "submit"
    /\ IF ~ probe[Head(worker[w].left)].known
       THEN /\ Put(w, [worker[w] EXCEPT !.step = "send"])
            /\ asks' = [asks EXCEPT ![Command(w)] = "unasked"]
       ELSE \E outcome \in Outcomes :
           \/ /\ outcome = "allow" /\ Put(w, [worker[w] EXCEPT !.step = "send"])
              /\ asks' = [asks EXCEPT ![Command(w)] = "allowed"]
           \/ outcome = "deny" /\ Tell(w, FALSE) /\ UNCHANGED asks
           \/ /\ outcome = "queue" /\ Put(w, [worker[w] EXCEPT !.step = "wait"])
              /\ asks' = [asks EXCEPT ![Command(w)] = "pending"]
           \/ outcome = "queue" /\ Tell(w, FALSE) /\ UNCHANGED asks
    /\ UNCHANGED <<probe, sends, late, changes>>

Sent(c) == sends' = [sends EXCEPT ![c] = @ + 1]

\* DecideAndDispatch: an approved command goes to its probe here.
DecideAndDispatch(c, approved) ==
    /\ asks[c] = "pending"
    /\ asks' = [asks EXCEPT ![c] = IF approved THEN "approved" ELSE "denied"]
    /\ IF approved /\ probe[c[3]].online THEN Sent(c) ELSE UNCHANGED sends
    /\ UNCHANGED <<probe, worker, late, changes>>

\* The queue expires a request.
Expire(c) ==
    /\ asks[c] = "pending"
    /\ asks' = [asks EXCEPT ![c] = "expired"]
    /\ UNCHANGED <<probe, worker, sends, late, changes>>

\* Mutant: any decision will do.
ApprovedWhenDecided(decision) == decision # "pending"

Approved(decision) == decision = "approved"

\* WaitForDecision returns: decided, or approvalWait is over.
WaitForDecision(w) ==
    /\ worker[w].step = "wait"
    /\ \/ Approved(asks[Command(w)]) /\ Put(w, [worker[w] EXCEPT !.step = "send"])
       \/ ~ Approved(asks[Command(w)]) /\ Tell(w, FALSE)
    /\ UNCHANGED <<probe, asks, sends, late, changes>>

\* dispatchAndWait, dispatchFleetCommand, and SendTo of a group command: a probe that
\* is not connected is an error, and so is no answer (a group command waits for none).
Dispatch(w) ==
    /\ worker[w].step = "send"
    /\ IF probe[Head(worker[w].left)].online
       THEN /\ Sent(Command(w))
            /\ late' = IF worker[w].gone THEN [late EXCEPT ![w] = @ + 1] ELSE late
            /\ \E ok \in IF Kind(w) = "group" THEN {TRUE} ELSE BOOLEAN : Tell(w, ok)
       ELSE Tell(w, FALSE) /\ UNCHANGED <<sends, late>>
    /\ UNCHANGED <<probe, asks, changes>>

ProbeChanges(p) ==
    /\ changes < MaxChanges /\ changes' = changes + 1
    /\ \/ probe' = [probe EXCEPT ![p] = [@ EXCEPT !.online = ~ @]]
       \/ probe' = [probe EXCEPT ![p] = [@ EXCEPT !.known = ~ @, !.tags = {}]]
       \/ \E tags \in SUBSET Tags : probe[p].known /\ tags # probe[p].tags /\ probe' = [probe EXCEPT ![p] = [@ EXCEPT !.tags = tags]]
    /\ UNCHANGED <<worker, asks, sends, late>>

Init ==
    /\ probe = [p \in Probes |-> [online |-> TRUE, known |-> TRUE, tags |-> Tags]]
    /\ worker = [w \in Workers |-> Unstarted]
    /\ asks = [c \in Commands |-> ""]
    /\ sends = [c \in Commands |-> 0]
    /\ late = [w \in Workers |-> 0]
    /\ changes = 0

Next ==
    \/ \E w \in Workers :
           \/ \E p \in Probes : HandleTask(w, p)
           \/ \E tag \in Tags : GroupCommand(w, tag)
           \/ FleetRespond(w) \/ ClientLeaves(w) \/ CompleteEnds(w) \/ CompleteAsks(w) \/ FleetCommand(w)
           \/ SubmitCommandApproval(w) \/ WaitForDecision(w) \/ Dispatch(w)
    \/ \E c \in Commands : Expire(c) \/ \E approved \in BOOLEAN : DecideAndDispatch(c, approved)
    \/ \E p \in Probes : ProbeChanges(p)

Spec == Init /\ [][Next]_agentVars

\* initLLM's dispatch, WaitForDecision, DecideAndDispatch: a command of a task
\* reaches its probe only if the policy allowed it, it was approved, or its probe was
\* not in the fleet when it was submitted, however waiting, expiry, decisions,
\* deletions and disconnections fall.
TaskCommandsHaveConsent ==
    \A c \in Commands : Kind(c[1]) = "task" /\ sends[c] > 0 => asks[c] \in {"allowed", "approved", "unasked"}

\* dispatchAndWait, DecideAndDispatch: a command goes to its probe once, an approved
\* one at most twice: the decision sends it, and so does the task that waited for it.
SendsAreBounded ==
    \A c \in Commands : sends[c] <= IF asks[c] = "approved" THEN 2 ELSE 1

\* TaskRunner.Run passes the request's context to the model only: after its client
\* has left, a task sends at most the one command it was about to send.
TasksStopWithTheirClient ==
    \A w \in Workers : late[w] <= 1
=============================================================================
