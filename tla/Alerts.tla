------------------------------- MODULE Alerts -------------------------------
(***************************************************************************)
(* The alert engine (internal/controlplane/alerts): rules and notification *)
(* channels kept in the store, the periodic evaluation that turns rules    *)
(* into firing and resolved events, and the goroutines that deliver them.  *)
(*                                                                         *)
(* Evaluate holds evalMu, so two evaluations never overlap, but the store  *)
(* is written by the HTTP handlers meanwhile: an evaluation is two steps,  *)
(* reading rules, channels' owners and the fleet, and applying them.  Of   *)
(* the event table only the rows with status "firing" are kept; a row's id *)
(* is a number.  Audit records of deliveries are left out.                 *)
(***************************************************************************)
EXTENDS Integers, FiniteSets, FiniteSetsExt, TLC

CONSTANTS RuleIds,      \* rule ids, each a fresh UUID when used
          Probes,       \* probe ids
          Channels,     \* notification channel ids
          Webhooks,     \* webhooks registered with the notifier
          RuleForms,    \* bodies of rule requests
          ChannelForms, \* bodies of channel requests
          Heartbeats,   \* heartbeat payloads the probes send
          MaxTime       \* bound on the clock

VARIABLES time, rules, channels, probes, open, firing, pending, pass,
          deleting, dropping, sending

vars == <<time, rules, channels, probes, open, firing, pending, pass,
          deleting, dropping, sending>>

Keys == RuleIds \X Probes

Unused == [state |-> "unused"]
Deleted == [state |-> "deleted"]
NoTime == -1
NoPass == [active |-> FALSE]
NoHeartbeat == [used |-> 0, total |-> 0, load |-> 0, cpus |-> 0, tags |-> {}]
NoProbe == [status |-> "none", seen |-> 0, hb |-> NoHeartbeat]

Stored(id) == rules[id].state = "stored"
ListRules == {id \in RuleIds : Stored(id)}
ListChannels == {c \in Channels : channels[c] # "none"}

---------------------------------------------------------------------------
(* Conditions.  No threshold is met before the first heartbeat (all zero). *)

ParseRuleDuration(raw) == raw >= 0

MatchTags(probeTags, ruleTags) == ruleTags \subseteq probeTags

ConditionMet(rule, probe, at) ==
    CASE rule.type = "probe_offline" ->
            /\ probe.status = "offline"
            /\ rule.dur > 0 => at - probe.seen >= rule.dur
      [] rule.type = "disk_threshold" ->
            /\ probe.hb.total # 0
            /\ probe.hb.used * 100 > rule.threshold * probe.hb.total
      [] rule.type = "cpu_threshold" ->
            /\ probe.hb.load * 100 > rule.threshold * Max({1, probe.hb.cpus})
      [] OTHER -> FALSE

---------------------------------------------------------------------------
(* Rule and channel requests. *)

ValidateAction(a) ==
    CASE a.type = "webhook" -> Webhooks = {} \/ a.id \in Webhooks
      [] a.type = "channel" -> ListChannels = {} \/ a.id \in ListChannels
      [] OTHER -> FALSE

ValidateRule(r) ==
    /\ r.named
    /\ r.type \in {"probe_offline", "disk_threshold", "cpu_threshold"}
    /\ ParseRuleDuration(r.dur)
    /\ r.type # "probe_offline" => r.threshold > 0 /\ r.threshold <= 1000
    /\ \A a \in r.actions : ValidateAction(a)

CreateRule(id, r) == [rules EXCEPT ![id] = r @@ [state |-> "stored"]]

UpdateRule(id, r) == [rules EXCEPT ![id] = r @@ [state |-> "stored"]]

DeleteRule(id) == [rules EXCEPT ![id] = Deleted]

NormalizeChannelInput(form) ==
    form.named /\ form.type \in {"slack", "email", "pagerduty"} /\ form.config

CreateChannel(c, form) ==
    [channels EXCEPT ![c] = IF form.enabled THEN "enabled" ELSE "disabled"]

UpdateChannel(c, form) ==
    [channels EXCEPT ![c] = IF form.enabled THEN "enabled" ELSE "disabled"]

DeleteChannel(c) == [channels EXCEPT ![c] = "none"]

RulesReferencingChannel(c) ==
    {id \in ListRules : [type |-> "channel", id |-> c] \in rules[id].actions}

---------------------------------------------------------------------------
(* The event table and the engine's start. *)

RecordEvent(table, k, id, status) ==
    [table EXCEPT ![k] = IF status = "firing" THEN @ \cup {id} ELSE @ \ {id}]

ActiveAlerts == [k \in Keys |-> open[k]]

\* Mutant: a new engine starts without the alerts that are open.
NewEngineEmpty ==
    [firing |-> [k \in Keys |-> 0], pending |-> [k \in Keys |-> NoTime]]

NewEngine ==
    [firing |-> [k \in Keys |-> IF ActiveAlerts[k] = {} THEN 0
                                ELSE Max(ActiveAlerts[k])],
     pending |-> [k \in Keys |-> NoTime]]

---------------------------------------------------------------------------
(* Delivery. *)

Message(k, kind, to) == [key |-> k, kind |-> kind, to |-> to]

DeliverNotificationChannels(actions, k, kind) ==
    {Message(k, kind, c) : c \in {x \in Channels :
        [type |-> "channel", id |-> x] \in actions /\ channels[x] = "enabled"}}

NotifierCalled(actions) ==
    \/ actions = {}
    \/ \E a \in actions : a.type = "webhook" /\ a.id \in Webhooks

Deliver(actions, k, kind) ==
    DeliverNotificationChannels(actions, k, kind)
        \cup (IF NotifierCalled(actions) THEN {Message(k, kind, "notifier")}
              ELSE {})

---------------------------------------------------------------------------
(* One pass over the enabled rules, read at pass.rules and pass.probes. *)

Enabled(id) == pass.rules[id].state = "stored" /\ pass.rules[id].enabled

Evaluated(k) ==
    /\ Enabled(k[1])
    /\ pass.probes[k[2]].status # "none"
    /\ MatchTags(pass.probes[k[2]].hb.tags, pass.rules[k[1]].tags)

Met(k) ==
    Evaluated(k) /\ ConditionMet(pass.rules[k[1]], pass.probes[k[2]], pass.at)

NeedsPersistence(k) ==
    pass.rules[k[1]].type # "probe_offline" /\ pass.rules[k[1]].dur > 0

Starts(k) == Met(k) /\ NeedsPersistence(k) /\ pending[k] = NoTime

Waits(k) ==
    /\ Met(k) /\ NeedsPersistence(k) /\ pending[k] # NoTime
    /\ pass.at - pending[k] < pass.rules[k[1]].dur

Matched(k) == Met(k) /\ ~Starts(k) /\ ~Waits(k)

FreshEvent(k) == Min((1 .. Cardinality(open[k]) + 1) \ open[k])

(***************************************************************************)
(* stored tells whether RecordEvent succeeds in this pass.                 *)
(***************************************************************************)
Fired(stored) == {k \in Keys : stored /\ Matched(k) /\ firing[k] = 0}

Resolved(stored) == {k \in Keys : stored /\ ~Matched(k) /\ firing[k] # 0}

ActionsOf(k) == IF Enabled(k[1]) THEN pass.rules[k[1]].actions ELSE {}

\* Mutant: an alert leaves the map although its resolution was not stored.
FiringUnrecorded(stored) ==
    [k \in Keys |-> IF k \in Fired(stored) THEN FreshEvent(k)
                    ELSE IF Matched(k) THEN firing[k] ELSE 0]

FiringAfter(stored) ==
    [k \in Keys |-> IF k \in Fired(stored) THEN FreshEvent(k)
                    ELSE IF k \in Resolved(stored) THEN 0 ELSE firing[k]]

EventsAfter(stored) ==
    [k \in Keys |->
        IF k \in Fired(stored) THEN RecordEvent(open, k, FreshEvent(k), "firing")[k]
        ELSE IF k \in Resolved(stored) THEN RecordEvent(open, k, firing[k], "resolved")[k]
        ELSE open[k]]

PendingAfter(stored) ==
    [k \in Keys |-> IF k \in Resolved(stored) \/ ~Enabled(k[1]) THEN NoTime
                    ELSE IF Starts(k) THEN pass.at
                    ELSE IF Evaluated(k) /\ ~Waits(k) THEN NoTime
                    ELSE pending[k]]

---------------------------------------------------------------------------
Init ==
    /\ time = 0
    /\ rules = [id \in RuleIds |-> Unused]
    /\ channels = [c \in Channels |-> "none"]
    /\ probes = [p \in Probes |-> NoProbe]
    /\ open = [k \in Keys |-> {}]
    /\ firing = [k \in Keys |-> 0]
    /\ pending = [k \in Keys |-> NoTime]
    /\ pass = NoPass
    /\ deleting = {} /\ dropping = {} /\ sending = {}

store == <<rules, channels>>
engine == <<open, firing, pending, pass>>
calls == <<deleting, dropping, sending>>

HandleCreateRule ==
    /\ \E id \in RuleIds, r \in RuleForms :
          /\ rules[id] = Unused
          /\ ValidateRule(r)
          /\ rules' = CreateRule(id, r)
    /\ UNCHANGED <<time, channels, probes, engine, calls>>

HandleUpdateRule ==
    /\ \E id \in ListRules, r \in RuleForms :
          /\ ValidateRule(r)
          /\ rules' = UpdateRule(id, r)
    /\ UNCHANGED <<time, channels, probes, engine, calls>>

(***************************************************************************)
(* DELETE /alerts/{id}: the row goes first, the engine's own entries once  *)
(* evalMu is free.  The row of a firing event stays.                       *)
(***************************************************************************)
HandleDeleteRule(id) ==
    /\ Stored(id)
    /\ rules' = DeleteRule(id)
    /\ deleting' = deleting \cup {id}
    /\ UNCHANGED <<time, channels, probes, engine, dropping, sending>>

HandleDeleteRulePurges(id) ==
    /\ id \in deleting
    /\ pass = NoPass
    /\ firing' = [k \in Keys |-> IF k[1] = id THEN 0 ELSE firing[k]]
    /\ pending' = [k \in Keys |-> IF k[1] = id THEN NoTime ELSE pending[k]]
    /\ deleting' = deleting \ {id}
    /\ UNCHANGED <<time, store, probes, open, pass, dropping, sending>>

HandleCreateChannel ==
    /\ \E c \in Channels, form \in ChannelForms :
          /\ channels[c] = "none"
          /\ NormalizeChannelInput(form)
          /\ channels' = CreateChannel(c, form)
    /\ UNCHANGED <<time, rules, probes, engine, calls>>

HandleUpdateChannel ==
    /\ \E c \in ListChannels, form \in ChannelForms :
          /\ NormalizeChannelInput(form)
          /\ channels' = UpdateChannel(c, form)
    /\ UNCHANGED <<time, rules, probes, engine, calls>>

(***************************************************************************)
(* DELETE /notification-channels/{id}: the rules are searched, then the    *)
(* row is deleted; a rule stored in between keeps a dangling reference.    *)
(***************************************************************************)
HandleDeleteChannel(c) ==
    /\ RulesReferencingChannel(c) = {}
    /\ dropping' = dropping \cup {c}
    /\ UNCHANGED <<time, store, probes, engine, deleting, sending>>

HandleDeleteChannelDeletes(c) ==
    /\ c \in dropping
    /\ channels' = DeleteChannel(c)
    /\ dropping' = dropping \ {c}
    /\ UNCHANGED <<time, rules, probes, engine, deleting, sending>>

(***************************************************************************)
(* Evaluate, run by the ticker, at the start and on probe.disconnected.    *)
(***************************************************************************)
EvaluateReads ==
    /\ pass = NoPass
    /\ pass' = [active |-> TRUE, at |-> time, rules |-> rules, probes |-> probes]
    /\ UNCHANGED <<time, store, probes, open, firing, pending, calls>>

Evaluate(stored) ==
    /\ pass # NoPass
    /\ open' = EventsAfter(stored)
    /\ firing' = FiringAfter(stored)
    /\ pending' = PendingAfter(stored)
    /\ sending' = sending
          \cup UNION {Deliver(ActionsOf(k), k, "fired") : k \in Fired(stored)}
          \cup UNION {Deliver(ActionsOf(k), k, "resolved") : k \in Resolved(stored)}
    /\ pass' = NoPass
    /\ UNCHANGED <<time, store, probes, deleting, dropping>>

(***************************************************************************)
(* The goroutine of one notification ends, delivered or failed; either way *)
(* it is not tried again.                                                  *)
(***************************************************************************)
SendToChannel ==
    /\ \E msg \in sending : sending' = sending \ {msg}
    /\ UNCHANGED <<time, store, probes, engine, deleting, dropping>>

Restart ==
    /\ firing' = NewEngine.firing
    /\ pending' = NewEngine.pending
    /\ pass' = NoPass /\ deleting' = {} /\ dropping' = {} /\ sending' = {}
    /\ UNCHANGED <<time, store, probes, open>>

(***************************************************************************)
(* The fleet, as the engine reads it.                                      *)
(***************************************************************************)
Heartbeat(p) ==
    /\ \E hb \in Heartbeats :
          probes' = [probes EXCEPT ![p] =
                        [status |-> "online", seen |-> time, hb |-> hb]]
    /\ UNCHANGED <<time, store, engine, calls>>

ProbeGone(p) ==
    /\ probes[p].status # "none"
    /\ \E s \in {"offline", "none"} :
          probes' = [probes EXCEPT ![p] =
                        IF s = "none" THEN NoProbe ELSE [@ EXCEPT !.status = s]]
    /\ UNCHANGED <<time, store, engine, calls>>

Tick ==
    /\ time < MaxTime
    /\ time' = time + 1
    /\ UNCHANGED <<store, probes, engine, calls>>

Next ==
    \/ HandleCreateRule \/ HandleUpdateRule
    \/ \E id \in RuleIds : HandleDeleteRule(id) \/ HandleDeleteRulePurges(id)
    \/ HandleCreateChannel \/ HandleUpdateChannel
    \/ \E c \in Channels : HandleDeleteChannel(c) \/ HandleDeleteChannelDeletes(c)
    \/ EvaluateReads
    \/ \E stored \in BOOLEAN : Evaluate(stored)
    \/ SendToChannel \/ Restart
    \/ \E p \in Probes : Heartbeat(p) \/ ProbeGone(p)
    \/ Tick

(***************************************************************************)
(* The ticker keeps evaluating, an evaluation ends, and the store does not *)
(* refuse every write.                                                     *)
(***************************************************************************)
Fairness ==
    /\ WF_vars(EvaluateReads)
    /\ SF_vars(Evaluate(TRUE))

Spec == Init /\ [][Next]_vars /\ Fairness

---------------------------------------------------------------------------
TypeOK ==
    /\ time \in 0 .. MaxTime
    /\ \A id \in RuleIds : rules[id] \in {Unused, Deleted} \/ Stored(id)
    /\ channels \in [Channels -> {"none", "enabled", "disabled"}]
    /\ open \in [Keys -> SUBSET (1 .. 3)]
    /\ firing \in [Keys -> 0 .. 3]
    /\ pending \in [Keys -> NoTime .. MaxTime]
    /\ deleting \subseteq RuleIds /\ dropping \subseteq Channels

(***************************************************************************)
(* The engine's firing map and the event table agree across failed writes, *)
(* concurrent requests and restarts: an entry of the map is an open row,   *)
(* and an open row that no entry would ever close belongs to a rule that   *)
(* was deleted.                                                            *)
(***************************************************************************)
OpenEventsAreTracked ==
    \A k \in Keys :
        /\ firing[k] # 0 => firing[k] \in open[k]
        /\ open[k] # {} => open[k] = {firing[k]} \/ rules[k[1]] = Deleted

(***************************************************************************)
(* An alert that fired is resolved, whatever is restarted meanwhile, unless *)
(* its rule is deleted or its condition keeps coming back.                 *)
(***************************************************************************)
AlertsResolve ==
    \A k \in Keys :
        []<>(\/ open[k] = {}
             \/ rules[k[1]] = Deleted
             \/ Stored(k[1]) /\ rules[k[1]].enabled
                  /\ ConditionMet(rules[k[1]], probes[k[2]], time))
=============================================================================
