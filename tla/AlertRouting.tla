---------------------------- MODULE AlertRouting ----------------------------
(***************************************************************************)
(* Routing and escalation policies of the alerts package                   *)
(* (alerts/routing.go, routing_store.go, routing_handlers.go): the stored  *)
(* policies, and how Resolve picks the policy, hence the owner, of an      *)
(* alert.  Strings are members of Values; contains and prefix are the      *)
(* relations HasSubstring and HasPrefix.                                   *)
(***************************************************************************)
EXTENDS Integers, FiniteSets, Sequences, SequencesExt

CONSTANTS PolicyIds, EscalationIds,
          PolicyForms,      \* bodies of routing policy requests
          EscalationForms,  \* bodies of escalation policy requests
          Contexts,         \* routing contexts asked about
          HasSubstring, HasPrefix \* relations on the strings compared

VARIABLES policies, escalations

routingVars == <<policies, escalations>>

None == "none"

---------------------------------------------------------------------------
(* Matchers. *)

MatchOp(op, candidate, value) ==
    CASE op \in {"", "eq"} -> candidate = value
      [] op = "contains" -> <<candidate, value>> \in HasSubstring
      [] op = "prefix" -> <<candidate, value>> \in HasPrefix
      [] OTHER -> FALSE

MatchTagField(op, value, tags) == \E tag \in tags : MatchOp(op, tag, value)

MatcherMatches(m, ctx) ==
    CASE m.field \in {"severity", "condition_type", "rule_name"} ->
            MatchOp(m.op, ctx[m.field], m.value)
      [] m.field = "tag" -> MatchTagField(m.op, m.value, ctx.tags)
      [] OTHER -> FALSE


PolicyMatches(p, ctx) == \A m \in p.matchers : MatcherMatches(m, ctx)

---------------------------------------------------------------------------
(* The store; ListRoutingPolicies is kept in the order of its query:       *)
(* highest priority first, then latest update.                             *)

ValidateRoutingMatcher(m) ==
    /\ m.field \in {"severity", "condition_type", "rule_name", "tag"}
    /\ m.op \in {"", "eq", "contains", "prefix"}
    /\ m.value # ""

ValidateRoutingPolicy(p) ==
    p.name # "" /\ p.owner # "" /\ \A m \in p.matchers : ValidateRoutingMatcher(m)

ValidateEscalationPolicy(e) ==
    /\ e.name # ""
    /\ \A s \in ToSet(e.steps) : s.target # "" /\ s.targetType # "" /\ s.order >= 1

InsertByPriority(list, p) ==
    LET before == SelectSeq(list, LAMBDA q : q.priority > p.priority)
        after == SelectSeq(list, LAMBDA q : q.priority <= p.priority)
    IN before \o <<p>> \o after

Ids(list) == {list[i].id : i \in DOMAIN list}

Without(list, id) == SelectSeq(list, LAMBDA q : q.id # id)

CreateRoutingPolicy(id, p) == InsertByPriority(policies, [p EXCEPT !.id = id])

UpdateRoutingPolicy(id, p) ==
    InsertByPriority(Without(policies, id), [p EXCEPT !.id = id])

DeleteRoutingPolicy(id) == Without(policies, id)

CreateEscalationPolicy(id, e) == (id :> e.steps) @@ escalations

UpdateEscalationPolicy(id, e) == [escalations EXCEPT ![id] = e.steps]

DeleteEscalationPolicy(id) == Restrict(escalations, DOMAIN escalations \ {id})

---------------------------------------------------------------------------
(* Resolution. *)

BuildOutcome(p, fallback) ==
    [policy |-> p.id, fallback |-> fallback,
     steps |-> IF p.escalation \in DOMAIN escalations
               THEN escalations[p.escalation] ELSE <<>>]

Bare == [policy |-> None, fallback |-> TRUE, steps |-> <<>>]

FirstMatch(ctx) ==
    SelectInSeq(policies, LAMBDA p : ~p.isDefault /\ PolicyMatches(p, ctx))

FirstDefault == SelectInSeq(policies, LAMBDA p : p.isDefault)

Resolve(ctx) ==
    IF FirstMatch(ctx) # 0 THEN BuildOutcome(policies[FirstMatch(ctx)], FALSE)
    ELSE IF FirstDefault # 0 THEN BuildOutcome(policies[FirstDefault], TRUE)
    ELSE Bare

---------------------------------------------------------------------------
Init ==
    /\ policies = <<>>
    /\ escalations = <<>>

HandleCreateRoutingPolicy ==
    \E id \in PolicyIds \ Ids(policies), p \in PolicyForms :
        /\ ValidateRoutingPolicy(p)
        /\ policies' = CreateRoutingPolicy(id, p)
        /\ UNCHANGED escalations

HandleUpdateRoutingPolicy ==
    \E id \in Ids(policies), p \in PolicyForms :
        /\ ValidateRoutingPolicy(p)
        /\ policies' = UpdateRoutingPolicy(id, p)
        /\ UNCHANGED escalations

HandleDeleteRoutingPolicy ==
    \E id \in Ids(policies) :
        /\ policies' = DeleteRoutingPolicy(id)
        /\ UNCHANGED escalations

HandleCreateEscalationPolicy ==
    \E id \in EscalationIds \ DOMAIN escalations, e \in EscalationForms :
        /\ ValidateEscalationPolicy(e)
        /\ escalations' = CreateEscalationPolicy(id, e)
        /\ UNCHANGED policies

HandleUpdateEscalationPolicy ==
    \E id \in DOMAIN escalations, e \in EscalationForms :
        /\ ValidateEscalationPolicy(e)
        /\ escalations' = UpdateEscalationPolicy(id, e)
        /\ UNCHANGED policies

HandleDeleteEscalationPolicy ==
    \E id \in DOMAIN escalations :
        /\ escalations' = DeleteEscalationPolicy(id)
        /\ UNCHANGED policies

Next ==
    \/ HandleCreateRoutingPolicy \/ HandleUpdateRoutingPolicy
    \/ HandleDeleteRoutingPolicy
    \/ HandleCreateEscalationPolicy \/ HandleUpdateEscalationPolicy
    \/ HandleDeleteEscalationPolicy

---------------------------------------------------------------------------
(***************************************************************************)
(* The precedence that the comment of Resolve promises, whatever order the *)
(* policies were stored, updated and deleted in: the policy chosen is of   *)
(* the highest priority among the non-default policies all of whose        *)
(* matchers match, or, when there is none, among the defaults; the bare    *)
(* outcome is given only when neither exists.                              *)
(***************************************************************************)
ResolveFollowsPrecedence ==
    \A ctx \in Contexts :
        LET ps == ToSet(policies)
            specific == {p \in ps : ~p.isDefault
                            /\ \A m \in p.matchers : MatcherMatches(m, ctx)}
            defaults == {p \in ps : p.isDefault}
            rank == IF specific # {} THEN specific ELSE defaults
            got == Resolve(ctx)
        IN /\ got.fallback = (specific = {})
           /\ IF rank = {} THEN got.policy = None
              ELSE \E p \in rank :
                      /\ got.policy = p.id
                      /\ \A q \in rank : q.priority <= p.priority
                      /\ p.escalation \notin DOMAIN escalations => got.steps = <<>>
=============================================================================
