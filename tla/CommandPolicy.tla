--------------------------- MODULE CommandPolicy ---------------------------
(***************************************************************************)
(* Policy templates (policy/) and the decision whether a command is        *)
(* allowed, queued for approval or denied (core/approvalpolicy/            *)
(* capacity_policy.go).  Templates are kept in memory and in SQLite; which *)
(* template was applied to a probe is kept in memory only, its level with  *)
(* the probe.  Coverages are percentages.                                  *)
(***************************************************************************)
EXTENDS Integers, FiniteSetsExt

CONSTANTS Probes,
          Forms,        \* bodies of POST /api/v1/policies
          Commands,     \* [line, level]: the command line and its declared level
          Signals,      \* what Grafana may report, NoSignals among them
          Thresholds,   \* as configured: [sources, dashboards, queries]
          Confirmations,      \* [reason, token] of a dispatch request; "" for none
          SandboxEnforcement, \* as configured
          MaxCreates, MaxRestarts

VARIABLES templates, disk, nextID, applied, level, restarts,
          last  \* the decision of the request being answered

policyVars == <<templates, disk, nextID, applied, level, last, restarts>>

FirstID == 101
PolicyIds == FirstID .. (FirstID + MaxCreates - 1)

Options(class, sandbox, mode) ==
  [class |-> class, sandbox |-> sandbox, mode |-> mode, second |-> FALSE,
   breakglass |-> FALSE, reasons |-> {}]

DefaultTemplateOptionsForLevel(l) ==
  CASE l = "diagnose"  -> Options("diagnose_sandbox", TRUE, "mutation_gate")
    [] l = "remediate" -> Options("remediate_sandbox", TRUE, "mutation_gate")
    [] OTHER           -> Options("observe_direct", FALSE, "none")

Given(v, default) == IF v = "" THEN default ELSE v

(* MergeTemplateOptions: a sandbox that the base requires stays required.  *)
MergeTemplateOptions(base, o) ==
  LET breakglass == IF o.breakglass \/ o.reasons # {} THEN o ELSE base IN
  [class      |-> Given(o.class, base.class),
   sandbox    |-> base.sandbox \/ o.sandbox,
   mode       |-> Given(o.mode, base.mode),
   second     |-> o.second,
   breakglass |-> breakglass.breakglass,
   reasons    |-> breakglass.reasons]

ValidateOptions(f) ==
  /\ f.class \in {"", "observe_direct", "diagnose_sandbox", "remediate_sandbox",
                  "breakglass_direct", "wasm_sandbox"}
  /\ f.mode \in {"", "none", "mutation_gate", "plan_first", "every_action", "two_person"}
  /\ f.breakglass => f.reasons # {}

(* handleCreatePolicy fills in the level's defaults, then Store.Create     *)
(* merges the result over them once more (applyOptions).                   *)
TemplateOf(f) ==
  LET d == DefaultTemplateOptionsForLevel(f.level)
      o == [class |-> Given(f.class, d.class), mode |-> Given(f.mode, d.mode),
            sandbox |-> IF f.sandbox = "" THEN d.sandbox ELSE f.sandbox = "yes",
            second |-> f.second, breakglass |-> f.breakglass, reasons |-> f.reasons]
  IN [kind |-> "template", level |-> f.level, options |-> MergeTemplateOptions(d, o)]

NoTemplate ==
  [kind |-> "none", level |-> "observe", options |-> DefaultTemplateOptionsForLevel("observe")]
-----------------------------------------------------------------------------
(* The two classifiers, on representatives of their tables.                *)

ClassifyCommandWithMetadata(line) ==
  LET class(l, known) == [level |-> l, known |-> known]
  IN CASE line \in {"rm -r", "cp", "systemctl restart", "kill", "kubeflow cancel"}
            -> class("remediate", TRUE)
       [] line \in {"ls", "find", "ip addr", "systemctl status"} -> class("observe", TRUE)
       [] line \in {"find -delete", "wget -o"} -> class("remediate", TRUE)
       [] line \in {"curl", "fdisk -l", "ping", "kubeflow submit"} -> class("diagnose", TRUE)
       [] OTHER -> class("remediate", FALSE)

ClassifyRisk(cmd) ==
  CASE cmd.line = "" -> "medium"
    [] cmd.line \in {"rm -r", "fdisk -l"} -> "critical"
    [] cmd.line \in {"systemctl restart", "cp"} -> "high"
    [] cmd.line \in {"find", "find -delete", "systemctl status", "ip addr"} -> "medium"
    [] cmd.line = "ls" -> "low"
    [] cmd.level = "observe" -> "low"
    [] cmd.level = "diagnose" -> "medium"
    [] OTHER -> "high"

LaneFromCapability(l) ==
  CASE l = "diagnose" -> "diagnose_sandbox" [] l = "remediate" -> "remediate_sandbox"
    [] OTHER -> "observe_direct"

LaneRank(lane) ==
  CASE lane = "observe_direct" -> 1 [] lane = "diagnose_sandbox" -> 2
    [] lane = "remediate_sandbox" -> 3 [] lane = "breakglass_direct" -> 4 [] OTHER -> 0

StricterLane(current, candidate) ==
  IF LaneRank(candidate) > LaneRank(current) THEN candidate ELSE current

SelectedLane(class, profile) ==
  StricterLane(LaneFromCapability(class.level), profile.class)

Resolution(lane, gate, reason) == [lane |-> lane, gate |-> gate, reason |-> reason]

\* Mutant: sandbox_required moves nothing off the host.
SandboxIgnored(lane, profile) == lane

(* Under sandbox_required a command for the host goes to a sandbox.        *)
SandboxedLane(lane, profile) ==
  IF profile.sandbox /\ lane = "observe_direct" THEN "diagnose_sandbox" ELSE lane

ApprovalGate(class, lane, profile) ==
  CASE profile.mode = "none" -> "allowed"
    [] profile.mode \in {"plan_first", "every_action", "two_person"} -> "pending_approval"
    [] OTHER -> IF class.level = "remediate" THEN "pending_approval" ELSE "allowed"

ResolveLaneDecision(class, profile) ==
  LET lane == SelectedLane(class, profile)
      mutates == class.level = "remediate"
      final == SandboxedLane(lane, profile)
  IN CASE mutates /\ ~class.known -> Resolution(lane, "blocked", "policy")
       [] mutates /\ lane = "breakglass_direct" /\ (~profile.breakglass \/ profile.sandbox)
            -> Resolution(lane, "blocked", "policy")
       [] mutates /\ lane = "breakglass_direct"
            -> Resolution(lane, "pending_approval", "approval")
       [] ~mutates /\ lane = "breakglass_direct" -> Resolution(lane, "blocked", "policy")
       [] OTHER -> Resolution(final, ApprovalGate(class, final, profile), "policy")

OutcomeRank(o) == CASE o = "allow" -> 1 [] o = "queue" -> 2 [] o = "deny" -> 3

MergeDecisionOutcome(current, candidate) ==
  IF OutcomeRank(candidate) > OutcomeRank(current) THEN candidate ELSE current

DecisionOutcomeFromGate(g) ==
  CASE g = "blocked" -> "deny" [] g = "pending_approval" -> "queue" [] OTHER -> "allow"

NormalizedThresholds ==
  LET coverage(v, default) == IF v <= 0 \/ v > 100 THEN default ELSE v
  IN [sources    |-> IF Thresholds.sources <= 0 THEN 1 ELSE Thresholds.sources,
      dashboards |-> coverage(Thresholds.dashboards, 50),
      queries    |-> coverage(Thresholds.queries, 25)]

NoSignals == [availability |-> "unavailable", sources |-> 0, dashboards |-> 0, queries |-> 0]

(* What each capacity indicator asks for; coverage 0 means not reported.   *)
CapacityEffects(s) ==
  LET t == NormalizedThresholds
  IN (IF s.availability = "degraded" THEN {"deny"} ELSE {})
     \cup (IF s.availability \in {"limited", "insufficient"} THEN {"queue"} ELSE {})
     \cup (IF s.sources < t.sources THEN {"deny"} ELSE {})
     \cup (IF s.dashboards \in 1 .. (t.dashboards - 1) THEN {"queue"} ELSE {})
     \cup (IF s.queries \in 1 .. (t.queries - 1) THEN {"queue"} ELSE {})

EvaluateCommandPolicy(cmd, profile, s) ==
  LET class == ClassifyCommandWithMetadata(cmd.line)
      lane == ResolveLaneDecision(class, profile)
      gate == DecisionOutcomeFromGate(lane.gate)
      risky == ClassifyRisk(cmd) \in {"high", "critical"}
      byRisk == IF risky /\ gate = "allow" THEN "queue" ELSE gate
      capacity == IF s = NoSignals THEN {} ELSE CapacityEffects(s)
      outcome == IF gate = "deny" THEN "deny"
                 ELSE FoldSet(MergeDecisionOutcome, byRisk, capacity)
  IN [outcome |-> outcome, lane |-> lane.lane, class |-> class.level]
-----------------------------------------------------------------------------
(* resolvePolicyProfile: the applied template, or the level's defaults.    *)
ResolvePolicyProfile(p) ==
  IF applied[p].kind = "none" THEN DefaultTemplateOptionsForLevel(level[p])
  ELSE applied[p].options

NoDecision == [kind |-> "none"]
NotAsked == [reason |-> "", token |-> ""]

Init ==
  /\ templates = [i \in PolicyIds |-> NoTemplate]
  /\ disk = templates
  /\ nextID = FirstID - 1
  /\ applied = [p \in Probes |-> NoTemplate]
  /\ level = [p \in Probes |-> "observe"]
  /\ last = NoDecision
  /\ restarts = 0

(* Store.Create takes the next ID; persist writes the row, over an older   *)
(* one with the same ID.                                                   *)
HandleCreatePolicy(f) ==
  /\ ValidateOptions(f)
  /\ nextID + 1 \in PolicyIds
  /\ nextID' = nextID + 1
  /\ templates' = [templates EXCEPT ![nextID + 1] = TemplateOf(f)]
  /\ disk' = [disk EXCEPT ![nextID + 1] = TemplateOf(f)]
  /\ UNCHANGED <<applied, level, last, restarts>>

HandleDeletePolicy(i) ==
  /\ templates[i].kind = "template"
  /\ templates' = [templates EXCEPT ![i] = NoTemplate]
  /\ disk' = [disk EXCEPT ![i] = NoTemplate]
  /\ UNCHANGED <<nextID, applied, level, last, restarts>>

(* ApplyPolicyTemplate: the level goes to the fleet, the options to the    *)
(* service's memory.                                                       *)
ApplyPolicyTemplate(p, i) ==
  /\ templates[i].kind = "template"
  /\ level' = [level EXCEPT ![p] = templates[i].level]
  /\ applied' = [applied EXCEPT ![p] = templates[i]]
  /\ UNCHANGED <<templates, disk, nextID, last, restarts>>

Evaluated(kind, profile, cmd, s) ==
  [kind |-> kind, profile |-> profile, signals |-> s, decision |-> EvaluateCommandPolicy(cmd, profile, s),
   confirmed |-> NotAsked]

EvaluateForProbe(p, cmd, s) ==
  /\ last = NoDecision
  /\ last' = Evaluated("decision", ResolvePolicyProfile(p), cmd, s)
  /\ UNCHANGED <<templates, disk, nextID, applied, level, restarts>>

HostLanes == {"observe_direct", "breakglass_direct"}

RequiresBreakglassConfirmation(d) == d.class = "remediate" /\ d.lane \in HostLanes

BreakglassReasonAllowed(reason, allowed) == allowed = {} \/ reason \in allowed

\* Mutant: any reason will do.
ConfirmsAny(b, profile) == b.reason # "" \/ b.token # ""

(* A reason goes before a token, and is not saved by it.                   *)
Confirms(b, profile) ==
  IF b.reason # "" THEN BreakglassReasonAllowed(b.reason, profile.reasons) ELSE b.token # ""

(* The start of handleDispatchCommand: under sandbox enforcement a         *)
(* mutation on the host needs a confirmation, or the request ends here.    *)
HandleDispatchCommand(p, cmd, s, b) ==
  /\ last = NoDecision
  /\ LET e == Evaluated("dispatch", ResolvePolicyProfile(p), cmd, s)
         asked == SandboxEnforcement /\ RequiresBreakglassConfirmation(e.decision)
     IN last' = CASE ~asked -> e
                  [] asked /\ Confirms(b, e.profile) -> [e EXCEPT !.confirmed = b]
                  [] OTHER -> NoDecision
  /\ UNCHANGED <<templates, disk, nextID, applied, level, restarts>>

(* handleSimulateCommandPolicy: the same evaluation with a template's      *)
(* options in place of the applied ones.                                   *)
HandleSimulateCommandPolicy(i, cmd, s) ==
  /\ last = NoDecision
  /\ templates[i].kind = "template"
  /\ LET profile == [templates[i].options EXCEPT !.second = FALSE]
     IN last' = Evaluated("decision", profile, cmd, s)
  /\ UNCHANGED <<templates, disk, nextID, applied, level, restarts>>

(* The decision goes to the client, or to the caller in the server.        *)
Respond ==
  /\ last # NoDecision
  /\ last' = NoDecision
  /\ UNCHANGED <<templates, disk, nextID, applied, level, restarts>>

(* A restart reads the templates back and numbers from the start again;    *)
(* applied templates are forgotten, the probes' levels are not.            *)
Restart ==
  /\ restarts < MaxRestarts
  /\ restarts' = restarts + 1
  /\ templates' = disk
  /\ nextID' = FirstID - 1
  /\ applied' = [p \in Probes |-> NoTemplate]
  /\ last' = NoDecision
  /\ UNCHANGED <<disk, level>>

Next ==
  \/ \E f \in Forms : HandleCreatePolicy(f)
  \/ \E i \in PolicyIds : HandleDeletePolicy(i)
  \/ \E p \in Probes, i \in PolicyIds : ApplyPolicyTemplate(p, i)
  \/ \E p \in Probes, cmd \in Commands, s \in Signals : EvaluateForProbe(p, cmd, s)
  \/ \E p \in Probes, cmd \in Commands, s \in Signals, b \in Confirmations : HandleDispatchCommand(p, cmd, s, b)
  \/ \E i \in PolicyIds, cmd \in Commands, s \in Signals : HandleSimulateCommandPolicy(i, cmd, s)
  \/ Respond
  \/ Restart

Spec == Init /\ [][Next]_policyVars
-----------------------------------------------------------------------------
(* Whatever template is in force, after restarts too: a decision that is   *)
(* not a denial keeps to a sandbox when the profile requires one, lets a   *)
(* mutation onto the host only through approval, and never skips the       *)
(* approval of a mode that asks for it for every command; degraded         *)
(* capacity denies.  The lane rules, the risk, the approval mode and the   *)
(* capacity each rewrite the outcome of the one before.  Under sandbox     *)
(* enforcement what the dispatch endpoint lets onto the host carries a     *)
(* token or one of the reasons of its template.                            *)
DecisionsRespectTheProfile ==
  last.kind # "none" /\ last.decision.outcome # "deny" =>
    /\ last.profile.sandbox => last.decision.lane \notin HostLanes
    /\ last.decision.class = "remediate" /\ last.decision.lane \in HostLanes
         => last.decision.outcome = "queue"
    /\ last.profile.mode \in {"plan_first", "every_action", "two_person"}
         => last.decision.outcome = "queue"
    /\ last.signals.availability # "degraded"
    /\ SandboxEnforcement /\ last.kind = "dispatch" /\ last.decision.class = "remediate"
         => \/ last.decision.lane \notin HostLanes
            \/ last.confirmed.reason \in last.profile.reasons
            \/ last.confirmed.reason = "" /\ last.confirmed.token # ""
=============================================================================
