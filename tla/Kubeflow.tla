------------------------------ MODULE Kubeflow ------------------------------
(***************************************************************************)
(* The Kubeflow adapter: reads and mutations of a cluster through kubectl  *)
(* (kubeflow/client.go, handlers.go), and the policy gate and the approval *)
(* in front of the mutations (server/kubeflow_actions.go).                 *)
(*                                                                         *)
(* Every kubectl call is a step of its own; the cluster changes in between *)
(* (other users, finished runs).  A call that times out may have had its   *)
(* effect.                                                                 *)
(***************************************************************************)
EXTENDS Naturals, Sequences, FiniteSets

CONSTANTS
    Requests,    \* submit and cancel requests
    Reads,       \* reads offered: status, inventory, refresh
    Objects,     \* run-like objects
    Kind(_),     \* object -> its kind
    Served,      \* defaultTrackedResources the cluster serves, in order
    Outcomes,    \* what the command policy may decide: allow, queue, deny
    MaxRestarts

VARIABLES
    cluster,     \* objects that exist
    enabled,     \* cfg.Kubeflow.ActionsEnabled
    request,     \* request -> its progress
    effects,     \* request -> kubectl mutations made for it: ghost
    reader,      \* a call of Status, Inventory or Refresh
    answer,      \* its last answer
    boots

kubeflowVars == <<cluster, enabled, request, effects, reader, answer, boots>>

Unsent == [step |-> "unsent", action |-> "", object |-> "", consent |-> "", before |-> "", canceled |-> FALSE]
Idle == [step |-> "idle", want |-> "", pass |-> 0, left |-> <<>>, found |-> {}, ok |-> FALSE,
         partial |-> FALSE, failedOnce |-> FALSE, always |-> {}, ever |-> {}]
NoAnswer == [want |-> "", ok |-> TRUE, connected |-> FALSE, partial |-> TRUE, lastError |-> FALSE,
             found |-> {}, always |-> {}, ever |-> {}]

Put(q, r) == request' = [request EXCEPT ![q] = r]
End(q, how) == Put(q, [request[q] EXCEPT !.step = how])

\* The objects change; a reader's bounds on what it may see follow.
Becomes(c) ==
    /\ cluster' = c
    /\ reader' = IF reader.step = "list" THEN [reader EXCEPT !.always = @ \cap c, !.ever = @ \cup c] ELSE reader

\* Mutant: the queued request is executed at once as well (the case does not return).
GateFallsThrough(outcome) == IF outcome = "deny" THEN "denied" ELSE "execute"

\* The switch on the decision in evaluateKubeflowMutationPolicy.
Gate(outcome) ==
    CASE outcome = "deny"  -> "denied"
      [] outcome = "queue" -> "queued"
      [] outcome = "allow" -> "execute"

\* evaluateKubeflowMutationPolicy up to the execution.  A full approval queue is an
\* error.
EvaluateKubeflowMutationPolicy(q, action, o) ==
    \E outcome \in Outcomes :
        \/ Put(q, [Unsent EXCEPT !.step = Gate(outcome), !.action = action, !.object = o,
                                 !.consent = IF outcome = "allow" THEN "allowed" ELSE ""])
        \/ outcome = "queue" /\ End(q, "failed")

\* handleKubeflowSubmitRun, mcpKubeflowSubmitRun: the API asks whether actions are
\* enabled, the MCP tool does not.
SubmitKubeflowRunWithPolicy(q, via, o) ==
    /\ request[q] = Unsent
    /\ via = "api" => enabled
    /\ EvaluateKubeflowMutationPolicy(q, "submit", o)
    /\ UNCHANGED <<cluster, enabled, effects, reader, answer, boots>>

\* handleKubeflowCancelRun, mcpKubeflowCancelRun.
CancelKubeflowRunWithPolicy(q, via, o) ==
    /\ request[q] = Unsent
    /\ via = "api" => enabled
    /\ EvaluateKubeflowMutationPolicy(q, "cancel", o)
    /\ UNCHANGED <<cluster, enabled, effects, reader, answer, boots>>

\* DecideAndDispatch: the decision is final before dispatchApprovedKubeflowMutation
\* asks whether actions are (still) enabled.
Decide(q, approved) ==
    /\ request[q].step = "queued"
    /\ IF approved
       THEN Put(q, [request[q] EXCEPT !.step = IF enabled THEN "execute" ELSE "failed", !.consent = "approved"])
       ELSE End(q, "denied")
    /\ UNCHANGED <<cluster, enabled, effects, reader, answer, boots>>

\* The queue's reaper.
Expire(q) ==
    /\ request[q].step = "queued"
    /\ End(q, "expired")
    /\ UNCHANGED <<cluster, enabled, effects, reader, answer, boots>>

\* SubmitRun: kubectl apply creates or updates.
SubmitRun(q) ==
    /\ request[q].step = "execute" /\ request[q].action = "submit"
    /\ \/ /\ Becomes(cluster \cup {request[q].object})
          /\ effects' = [effects EXCEPT ![q] = @ + 1]
          /\ \E end \in {"done", "failed"} : End(q, end)
       \/ End(q, "failed") /\ UNCHANGED <<cluster, effects, reader>>
    /\ UNCHANGED <<enabled, answer, boots>>

\* CancelRun's RunStatus: only a missing object lets it go on.
RunStatus(q) ==
    /\ request[q].step = "execute" /\ request[q].action = "cancel"
    /\ \/ Put(q, [request[q] EXCEPT !.step = "delete",
                                    !.before = IF request[q].object \in cluster THEN "found" ELSE "not_found"])
       \/ End(q, "failed")
    /\ UNCHANGED <<cluster, enabled, effects, reader, answer, boots>>

\* CancelRun's delete; canceled is derived from the status read before.
CancelRun(q) ==
    /\ request[q].step = "delete"
    /\ \/ /\ Becomes(cluster \ {request[q].object})
          /\ effects' = [effects EXCEPT ![q] = @ + 1]
          /\ \/ Put(q, [request[q] EXCEPT !.step = "done", !.canceled = (request[q].before = "found")])
             \/ End(q, "failed")
       \/ End(q, "failed") /\ UNCHANGED <<cluster, effects, reader>>
    /\ UNCHANGED <<enabled, answer, boots>>

\* HandleStatus, HandleInventory, HandleRefresh (which asks for enabled actions).
Read(want) ==
    /\ reader.step = "idle"
    /\ want = "refresh" => enabled
    /\ reader' = [Idle EXCEPT !.step = "prepare", !.want = want, !.pass = 1]
    /\ UNCHANGED <<cluster, enabled, request, effects, answer, boots>>

Failed(r) == [NoAnswer EXCEPT !.want = r.want, !.ok = FALSE]

\* Where a pass of Inventory ends: Status keeps its failure as LastError and goes
\* on; Refresh makes a second pass, which may not fail.
EndPass(r, ok) ==
    LET broken == r.want = "inventory" \/ (r.want = "refresh" /\ r.pass = 2)
        again == r.want = "refresh" /\ r.pass = 1
    IN  IF again
        THEN /\ reader' = [Idle EXCEPT !.step = "prepare", !.want = r.want, !.pass = 2, !.failedOnce = ~ ok]
             /\ UNCHANGED answer
        ELSE /\ reader' = Idle
             /\ answer' = IF ok
                          THEN [want |-> r.want, ok |-> TRUE, connected |-> TRUE, partial |-> r.partial,
                                lastError |-> r.failedOnce, found |-> r.found, always |-> r.always, ever |-> r.ever]
                          ELSE IF broken THEN Failed(r)
                          ELSE [NoAnswer EXCEPT !.want = r.want, !.lastError = TRUE]

\* clientVersion (an error of it ends Status too), ensureNamespaceReachable and
\* availableResources.
Prepare ==
    /\ reader.step = "prepare"
    /\ \/ /\ reader' = [reader EXCEPT !.step = "list", !.left = Served, !.always = cluster, !.ever = cluster]
          /\ UNCHANGED answer
       \/ reader' = Idle /\ answer' = Failed(reader)
       \/ EndPass(reader, FALSE)
    /\ UNCHANGED <<cluster, enabled, request, effects, boots>>

\* Mutant: a kind that could not be listed is passed over.
ListedSilently(r, items, ok) ==
    [r EXCEPT !.left = Tail(@), !.found = @ \cup items, !.ok = @ \/ ok]

\* One round of Inventory's loop.
Listed(r, items, ok) ==
    [r EXCEPT !.left = Tail(@), !.found = @ \cup items, !.ok = @ \/ ok, !.partial = @ \/ ~ ok]

\* listResource of the next kind.
ListResource ==
    /\ reader.step = "list" /\ reader.left # <<>>
    /\ \/ reader' = Listed(reader, {o \in cluster : Kind(o) = Head(reader.left)}, TRUE)
       \/ reader' = Listed(reader, {}, FALSE)
    /\ UNCHANGED <<cluster, enabled, request, effects, answer, boots>>

\* Inventory fails only when every listing did.
Inventory ==
    /\ reader.step = "list" /\ reader.left = <<>>
    /\ EndPass(reader, reader.ok \/ ~ reader.partial)
    /\ UNCHANGED <<cluster, enabled, request, effects, boots>>

\* Others create and delete objects.
ClusterChanges(o) ==
    /\ Becomes(IF o \in cluster THEN cluster \ {o} ELSE cluster \cup {o})
    /\ UNCHANGED <<enabled, request, effects, answer, boots>>

\* initKubeflow after a stop, with the flag as now configured.  The approval queue
\* keeps its requests, calls in progress are lost.
Restart ==
    /\ boots < MaxRestarts /\ boots' = boots + 1
    /\ enabled' \in BOOLEAN
    /\ request' = [q \in Requests |->
           IF request[q].step \in {"execute", "delete"} THEN [request[q] EXCEPT !.step = "lost"] ELSE request[q]]
    /\ reader' = Idle
    /\ UNCHANGED <<cluster, effects, answer>>

Init ==
    /\ cluster = {}
    /\ enabled = TRUE
    /\ request = [q \in Requests |-> Unsent]
    /\ effects = [q \in Requests |-> 0]
    /\ reader = Idle /\ answer = NoAnswer
    /\ boots = 0

Next ==
    \/ \E q \in Requests :
           \/ \E via \in {"api", "mcp"}, o \in Objects :
                  SubmitKubeflowRunWithPolicy(q, via, o) \/ CancelKubeflowRunWithPolicy(q, via, o)
           \/ \E approved \in BOOLEAN : Decide(q, approved)
           \/ Expire(q) \/ SubmitRun(q) \/ RunStatus(q) \/ CancelRun(q)
    \/ \E want \in Reads : Read(want)
    \/ Prepare \/ ListResource \/ Inventory \/ Restart
    \/ \E o \in Objects : ClusterChanges(o)

Spec == Init /\ [][Next]_kubeflowVars

\* evaluateKubeflowMutationPolicy and dispatchApprovedKubeflowMutation: a mutation
\* reaches the cluster at most once per request, and only for a request the policy
\* allowed or a person approved, however decisions, expiry and restarts fall; a
\* request reported denied or expired changed nothing.
MutationsHaveConsent ==
    \A q \in Requests :
        /\ effects[q] <= 1
        /\ effects[q] > 0 => request[q].consent \in {"allowed", "approved"}
        /\ request[q].step \in {"denied", "expired", "queued"} => effects[q] = 0

\* Inventory: an answer not marked partial holds every object of a served kind that
\* existed throughout the pass, and none that never existed in it, whatever changed
\* between the listings.
FullInventoriesAreTrue ==
    answer.ok /\ answer.connected /\ ~ answer.partial =>
        /\ \A o \in answer.always : (\E i \in DOMAIN Served : Served[i] = Kind(o)) => o \in answer.found
        /\ answer.found \subseteq answer.ever
=============================================================================
