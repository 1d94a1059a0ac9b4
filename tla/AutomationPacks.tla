-------------------------- MODULE AutomationPacks --------------------------
(***************************************************************************)
(* Automation packs (internal/controlplane/automationpacks): validated     *)
(* definitions, the dry run that predicts what policy and approvals will   *)
(* say, and the execution of the steps with retries, gates and the chain   *)
(* of rollbacks.                                                           *)
(*                                                                         *)
(* An execution runs inside its HTTP request and is stored when it ends.   *)
(* The action runner is an interface: an action succeeds, fails or times   *)
(* out, also after the client of the request is gone (the runner may       *)
(* ignore the context it is given).  The policy engine reads the capacity  *)
(* of the moment, so it may answer differently each time it is asked.  A   *)
(* value is a type and a size: the number, length or item count its        *)
(* constraints speak of.                                                   *)
(***************************************************************************)
EXTENDS Integers, SequencesExt, FiniteSetsExt

CONSTANTS
    Packs,        \* definitions that are submitted
    Provided,     \* input maps that are supplied: sets of [name, type, n]
    Decisions,    \* approval contexts: [workflow, step], each [approved, count]
    Executions,   \* executions
    Answers(_)    \* outcomes the policy simulator may give for an action ("" when it gives none)

VARIABLES
    stored,       \* automation_packs, oldest first
    exec,         \* executions under way
    finished      \* ExecutionRuntime.executions

packVars == <<stored, exec, finished>>

Idle == [pc |-> "idle"]

(***************************************************************************)
(* Definitions.                                                            *)
(***************************************************************************)
ValueMatchesType(v, type) == v.type = type \/ (type = "number" /\ v.type = "integer")

ValidateInputConstraints(in) ==
    /\ in.min <= in.max
    /\ \A v \in in.default : ValueMatchesType(v, in.type)

ValidateApproval(a) == a.min >= 0 /\ (a.required => a.min >= 1)

ValidateDefinition(d) ==
    /\ d.id # "" /\ d.version # ""
    /\ ValidateApproval(d.approval)
    /\ \A in \in d.inputs : ValidateInputConstraints(in)
    /\ \A in1, in2 \in d.inputs : in1.name = in2.name => in1 = in2
    /\ d.steps # <<>>
    /\ \A i \in DOMAIN d.steps :
          /\ d.steps[i].id # "" /\ d.steps[i].action # ""
          /\ ValidateApproval(d.steps[i].approval)
          /\ d.steps[i].retries >= 0
          /\ \A j \in DOMAIN d.steps : d.steps[j].id = d.steps[i].id => j = i

HandleCreateDefinition(d) ==
    /\ ValidateDefinition(d)
    /\ ~\E i \in DOMAIN stored : stored[i].id = d.id /\ stored[i].version = d.version
    /\ stored' = Append(stored, d)
    /\ UNCHANGED <<exec, finished>>

\* GetDefinition: the version asked for, or the one stored last.
Matching(id, version) == {i \in DOMAIN stored : stored[i].id = id /\ version \in {"", stored[i].version}}
GetDefinition(id, version) == stored[Max(Matching(id, version))]

(***************************************************************************)
(* Inputs.                                                                 *)
(***************************************************************************)
ValidateInputValue(in, v) == in.min <= v.n /\ v.n <= in.max

Supplied(in, given) == {[type |-> v.type, n |-> v.n] : v \in {w \in given : w.name = in.name}}
Chosen(in, given) == IF Supplied(in, given) # {} THEN Supplied(in, given) ELSE in.default

InputsResolve(d, given) ==
    /\ \A in \in d.inputs :
          /\ in.required => Chosen(in, given) # {}
          /\ \A v \in Chosen(in, given) : ValueMatchesType(v, in.type) /\ ValidateInputValue(in, v)
    /\ \A v \in given : \E in \in d.inputs : in.name = v.name

(***************************************************************************)
(* Policy and approvals.                                                   *)
(***************************************************************************)
ReadOnlyActions ==
    {"noop", "read", "read_file", "list", "list_files", "get", "describe", "status", "check", "inventory"}

\* commandLooksMutating is the field "command" of a step: "reads" or not.
InferStepMutating(s) ==
    \/ s.mutating = "yes"
    \/ /\ s.mutating = ""
       /\ IF s.action = "run_command" THEN s.command # "reads" ELSE s.action \notin ReadOnlyActions

\* What one evaluation of the policy may say of a step.
Simulate(s) == {IF a = "" THEN "allow" ELSE a : a \in Answers(s.action)}

Rank(outcome) ==
    CASE outcome = "allow" -> 1 [] outcome = "queue" -> 2 [] outcome = "deny" -> 3 [] OTHER -> 0

\* Mutant: the comparison is the wrong way round.
MergeLowest(current, candidate) == IF Rank(candidate) < Rank(current) THEN candidate ELSE current

MergePolicyOutcome(current, candidate) == IF Rank(candidate) > Rank(current) THEN candidate ELSE current

ApplyApprovalSimulation(outcome, a) == IF a.required THEN MergePolicyOutcome(outcome, "queue") ELSE outcome

\* runDryRun: the prediction for a step, and for the workflow, when the policy says "said".
PredictedStep(d, said, i) == ApplyApprovalSimulation(said[i], d.steps[i].approval)
PredictedWorkflow(d, said) ==
    ApplyApprovalSimulation(
       FoldLeft(LAMBDA acc, i : MergePolicyOutcome(acc, PredictedStep(d, said, i)), "allow",
                [i \in 1 .. Len(d.steps) |-> i]),
       d.approval)

\* evaluateApprovalCheckpoint: a count of zero stands for one unnamed approver.
CheckpointApproved(a, decision) ==
    \/ ~a.required
    \/ /\ decision.approved
       /\ decision.count = 0 => a.min <= 1
       /\ decision.count > 0 => decision.count >= a.min

(***************************************************************************)
(* Executions.                                                             *)
(***************************************************************************)
Start(e, id, version, given, decision) ==
    /\ exec[e] = Idle /\ finished[e] = Idle
    /\ Matching(id, version) # {}
    /\ InputsResolve(GetDefinition(id, version), given)
    /\ LET d == GetDefinition(id, version)
       IN exec' = [exec EXCEPT ![e] =
             [pc |-> "gate", def |-> d, given |-> given, decision |-> decision, i |-> 1, attempt |-> 1,
              step |-> [j \in DOMAIN d.steps |-> "pending"], said |-> [j \in DOMAIN d.steps |-> "unasked"],
              done |-> <<>>, undone |-> <<>>, status |-> "running", category |-> "",
              rollback |-> "not_required"]]
    /\ UNCHANGED <<stored, finished>>

\* markRemainingSkipped and the first step of the rollback chain.
Ends(x, status, category) ==
    [x EXCEPT !.pc = "rollback", !.status = status, !.category = category,
              !.step = [j \in DOMAIN @ |-> IF j > x.i /\ @[j] = "pending" THEN "skipped" ELSE @[j]],
              !.rollback = IF x.done = <<>> THEN "not_required" ELSE "completed"]

BlockExecution(x, category) == Ends([x EXCEPT !.step[x.i] = "blocked"], "blocked", category)

FailExecution(x, how) == Ends([x EXCEPT !.step[x.i] = how], "failed", "execution")

Runs(x) == [x EXCEPT !.pc = "attempt", !.step[x.i] = "running"]

\* Only a step that mutates asks the policy, then for the approvals.
Gated(x, outcome) ==
    LET s == x.def.steps[x.i]
        y == [x EXCEPT !.said[x.i] = outcome]
    IN IF outcome \in {"deny", "queue"} THEN BlockExecution(y, "policy")
       ELSE IF CheckpointApproved(x.def.approval, x.decision.workflow) /\ CheckpointApproved(s.approval, x.decision.step)
       THEN Runs(y)
       ELSE BlockExecution(y, "approval")

Gate(e) ==
    LET s == exec[e].def.steps[exec[e].i] IN
    /\ exec[e].pc = "gate"
    /\ \/ ~InferStepMutating(s) /\ exec' = [exec EXCEPT ![e] = Runs(@)]
       \/ InferStepMutating(s) /\ \E outcome \in Simulate(s) : exec' = [exec EXCEPT ![e] = Gated(@, outcome)]
    /\ UNCHANGED <<stored, finished>>

\* One attempt: the next step, another attempt, or the end.
Attempted(x, how) ==
    IF how = "succeeded"
    THEN LET y == [x EXCEPT !.step[x.i] = how, !.done = Append(@, x.i)]
         IN IF x.i < Len(x.def.steps) THEN [y EXCEPT !.pc = "gate", !.i = @ + 1, !.attempt = 1]
            ELSE [y EXCEPT !.pc = "end", !.status = "succeeded"]
    ELSE IF x.attempt <= x.def.steps[x.i].retries THEN [x EXCEPT !.attempt = @ + 1]
    ELSE FailExecution(x, how)

Attempt(e, how) ==
    /\ exec[e].pc = "attempt"
    /\ exec' = [exec EXCEPT ![e] = Attempted(@, how)]
    /\ UNCHANGED <<stored, finished>>

Hooked(x) == SelectSeq(x.done, LAMBDA j : x.def.steps[j].rollback)

\* Mutant: the chain runs from the first step on.
NextRollbackForward(x) == Hooked(x)[Len(x.undone) + 1]

NextRollback(x) == Reverse(Hooked(x))[Len(x.undone) + 1]

\* runRollbackChain: every hook of a succeeded step, the last one first, whatever fails.
RollbackStep(e, ok) ==
    /\ exec[e].pc = "rollback"
    /\ Len(exec[e].undone) < Len(Hooked(exec[e]))
    /\ exec' = [exec EXCEPT ![e].undone = Append(@, NextRollback(exec[e])),
                            ![e].rollback = IF ok THEN @ ELSE "partial"]
    /\ UNCHANGED <<stored, finished>>

RollbackEnds(e) ==
    /\ exec[e].pc = "rollback"
    /\ Len(exec[e].undone) = Len(Hooked(exec[e]))
    /\ exec' = [exec EXCEPT ![e].pc = "end",
                            ![e].rollback = IF exec[e].undone = <<>> THEN "not_required" ELSE @]
    /\ UNCHANGED <<stored, finished>>

PersistAndClone(e) ==
    /\ exec[e].pc = "end"
    /\ finished' = [finished EXCEPT ![e] = exec[e]]
    /\ exec' = [exec EXCEPT ![e] = Idle]
    /\ UNCHANGED stored

Restart ==
    /\ exec' = [e \in Executions |-> Idle]
    /\ finished' = [e \in Executions |-> IF exec[e] = Idle THEN finished[e] ELSE [pc |-> "lost"]]
    /\ UNCHANGED stored

Init == stored = <<>> /\ exec = [e \in Executions |-> Idle] /\ finished = [e \in Executions |-> Idle]

RunSteps(e) ==
    \/ Gate(e) \/ (\E how \in {"succeeded", "failed", "timed_out"} : Attempt(e, how))
    \/ (\E ok \in BOOLEAN : RollbackStep(e, ok)) \/ RollbackEnds(e) \/ PersistAndClone(e)

Next ==
    \/ \E d \in Packs : HandleCreateDefinition(d)
    \/ \E e \in Executions, d \in Packs, given \in Provided, c \in Decisions :
          \E v \in {"", d.version} : Start(e, d.id, v, given, c)
    \/ \E e \in Executions : RunSteps(e)
    \/ Restart

Spec == Init /\ [][Next]_packVars

(***************************************************************************)
Ended == {e \in Executions : finished[e].pc = "end"}

\* The dry run foretells blocks as far as the policy allows: whenever it gets the answers that
\* a later execution gets for the steps it asks about, whatever it is told of the others, it
\* does not predict "allow" for a workflow that is then blocked, nor for the step when policy
\* blocks it.  A policy that answers differently at the time of the run may block anything.
DryRunForetellsBlocks ==
    \A e \in Ended :
       LET x == finished[e]
           Asked == {i \in DOMAIN x.said : x.said[i] # "unasked"}
           DryRuns == {said \in [DOMAIN x.said -> {"allow", "queue", "deny"}] :
                          \A i \in Asked : said[i] = x.said[i]}
       IN x.status = "blocked" =>
             \A said \in DryRuns :
                /\ PredictedWorkflow(x.def, said) # "allow"
                /\ x.category = "policy" => PredictedStep(x.def, said, x.i) # "allow"

\* An execution that fails or is blocked has undone the steps that had succeeded, each once
\* and in reverse order, also when rollbacks fail or the policy changes its mind half way;
\* nothing ran after the step that ended it.
RollbackMirrorsSteps ==
    \A e \in Ended :
       LET x == finished[e] IN
       /\ x.status = "succeeded" => x.undone = <<>> /\ Len(x.done) = Len(x.def.steps)
       /\ x.status # "succeeded" =>
             /\ x.undone = Reverse(Hooked(x))
             /\ x.done = [j \in 1 .. x.i - 1 |-> j]
             /\ \A j \in DOMAIN x.step : j > x.i => x.step[j] = "skipped"
=============================================================================
