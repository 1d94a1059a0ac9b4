-------------------------------- MODULE MCWork --------------------------------
(***************************************************************************)
(* What the control plane does for its clients and what it records and     *)
(* reports of it, on small instances: a behaviour is one of a single part, *)
(* chosen at the start.                                                    *)
(*                                                                         *)
(*   fan_out              JobScheduler: a job with two targets             *)
(*   tasks, fleet_tasks   AgentTasks: one task; a fleet and a group chat   *)
(*   actions, reads       Kubeflow: two mutations; status and inventory    *)
(*   policy               CommandPolicy                                    *)
(*   runner               Runner: tokens, spend and two sessions           *)
(*   sandboxes, limited,  Sandbox: two sessions, a task and two callers;   *)
(*   uploads              three sessions at the limit; three artifacts     *)
(*   stream, task_stream  CommandStreams, SandboxStream                    *)
(*   transfers, grants    RunnerArtifacts: three transfers of one file;    *)
(*                        scopes, paths and expiry                         *)
(*   audit, untouched     AuditLog: rows may be edited; three rows         *)
(*   packs, incidents, webhooks, trials, exports, routing, alerts          *)
(*   evidence, sources    EvidenceBundle: time windows; several records    *)
(*   cards, drills        Reliability                                      *)
(*   scans, rescans       Compliance: two probes; scans as time passes     *)
(***************************************************************************)
EXTENDS Integers, Sequences

VARIABLES
    part,
    runs, job, activeTargets, inFlight, pendingRetry, exec, result, dispatcher, canceler, clock, stopped, spent,
    probe, worker, asks, sends, late, changes,
    cluster, enabled, request, effects, reader, answer, boots,
    templates, disk, nextID, applied, level, last, policyRestarts,
    time, token, runner, call, running, box, made, watcher, spend, uses, leaked,
    session, task, artifact, caller,
    table, state, client, markers, streamRestarts,
    streaming, chunks, ingest, sub, got, dropped,
    halves, key, granted, files, transfer, origin, startsMade,
    stored, packExec, finished,
    auditClock, rows, chainMode, lastHash, memory, writer, purger, used, auditOrder, auditRestarts,
    incidents, timeline, editor, bundle,
    published, chans, hooks, hookTable, hookSends, hookHistory, outcome, notified, hookRestarts,
    evidenceClock, events, scans, approvals, export, evidence, exportsMade,
    cardClock, req, samples, recorded, scoring, card, drills,
    scanClock, online, complianceScans, scanWorker, current, history, after,
    hour, exports, loop, stopping, reports,
    trials, trialRuns, tasks, results, lost, trialRestarts,
    alertClock, rules, channels, probes, open, firing, pending, pass, deleting, dropping, sending,
    policies, escalations

schedulerVars == <<runs, job, activeTargets, inFlight, pendingRetry, exec, result, dispatcher, canceler, clock,
                   stopped, spent>>
agentVars == <<probe, worker, asks, sends, late, changes>>
kubeflowVars == <<cluster, enabled, request, effects, reader, answer, boots>>
policyVars == <<templates, disk, nextID, applied, level, last, policyRestarts>>
runnerVars == <<time, token, runner, call, running, box, made, watcher, spend, uses, leaked>>
sandboxVars == <<session, task, artifact, caller>>
streamVars == <<table, state, client, markers, streamRestarts>>
taskStreamVars == <<streaming, chunks, ingest, sub, got, dropped>>
artifactVars == <<halves, key, granted, files, transfer, origin, startsMade>>
packVars == <<stored, packExec, finished>>
auditVars == <<auditClock, rows, chainMode, lastHash, memory, writer, purger, used, auditOrder, auditRestarts>>
incidentVars == <<incidents, timeline, editor, bundle>>
webhookVars == <<published, chans, hooks, hookTable, hookSends, hookHistory, outcome, notified, hookRestarts>>
evidenceVars == <<evidenceClock, events, scans, approvals, export, evidence, exportsMade>>
cardVars == <<cardClock, req, samples, recorded, scoring, card, drills>>
complianceVars == <<scanClock, online, complianceScans, scanWorker, current, history, after>>
exportVars == <<hour, exports, loop, stopping, reports>>
trialVars == <<trials, trialRuns, tasks, results, lost, trialRestarts>>
alertVars == <<alertClock, rules, channels, probes, open, firing, pending, pass, deleting, dropping, sending>>
routingVars == <<policies, escalations>>

commandVars == <<schedulerVars, agentVars, kubeflowVars, policyVars>>
workVars == <<runnerVars, sandboxVars, streamVars, taskStreamVars, artifactVars, packVars>>
recordVars == <<auditVars, incidentVars, webhookVars, alertVars, routingVars>>
reportVars == <<evidenceVars, cardVars, complianceVars, exportVars, trialVars>>
mcVars == <<part, commandVars, workVars, recordVars, reportVars>>

-----------------------------------------------------------------------------
(* Commands.                                                               *)

FanOut == INSTANCE JobScheduler WITH
    Probes <- {"p1", "p2"}, Dispatchers <- {"loop"}, MaxAttempts <- 2,
    Admissions <- {"allow", "deny"}, CancelKinds <- {"run"}, MaxExecutions <- 2, MaxTime <- 2, MaxCancels <- 1,
    MaxEdits <- 0, MaxRestarts <- 0, MaxEvents <- 1, operator <- canceler

OneTask(w) == "task"
FleetAndGroup(w) == IF w = "w1" THEN "fleet" ELSE "group"

SingleTask == INSTANCE AgentTasks WITH
    Workers <- {"w1"}, Kind <- OneTask, Probes <- {"p1"}, Tags <- {}, Targets <- {},
    Outcomes <- {"allow", "queue", "deny"}, MaxSteps <- 3, MaxChanges <- 2

FleetTasks == INSTANCE AgentTasks WITH
    Workers <- {"w1", "w2"}, Kind <- FleetAndGroup, Probes <- {"p1", "p2"}, Tags <- {"t"},
    Targets <- {"all", "t", "p1"}, Outcomes <- {"allow", "queue", "deny"}, MaxSteps <- 2, MaxChanges <- 1

ObjectKind(o) == IF o = "o1" THEN "runs" ELSE "jobs"

Actions == INSTANCE Kubeflow WITH
    Requests <- {"q1", "q2"}, Objects <- {"o1"}, Kind <- ObjectKind, Served <- <<"runs", "jobs">>,
    Outcomes <- {"allow", "queue", "deny"}, MaxRestarts <- 1, Reads <- {}

Readings == INSTANCE Kubeflow WITH
    Requests <- {}, Objects <- {"o1", "o2"}, Kind <- ObjectKind, Served <- <<"runs", "jobs">>,
    Outcomes <- {"allow", "queue", "deny"}, MaxRestarts <- 0, Reads <- {"inventory", "refresh"}

Template(lvl, class, sandbox, mode, breakglass) ==
    [level |-> lvl, class |-> class, sandbox |-> sandbox, mode |-> mode, second |-> FALSE,
     breakglass |-> breakglass, reasons |-> IF breakglass THEN {"service_outage"} ELSE {}]
Signal(availability, sources, dashboards, queries) ==
    [availability |-> availability, sources |-> sources, dashboards |-> dashboards, queries |-> queries]

Policy == INSTANCE CommandPolicy WITH
    Probes <- {"p1"},
    Forms <- {Template("observe", "breakglass_direct", "no", "none", TRUE),
              Template("diagnose", "", "no", "every_action", FALSE),
              Template("observe", "wasm_sandbox", "yes", "none", FALSE),
              Template("remediate", "", "", "mutation_gate", FALSE),
              Template("observe", "bad", "", "", FALSE)},
    Commands <- [line : {"rm -r", "cp", "ls", "find -delete", "fdisk -l", "awk"}, level : {"observe"}]
                \cup [line : {"kill", "ping"}, level : {"remediate"}],
    Signals <- {Signal("unavailable", 0, 0, 0), Signal("available", 1, 60, 30), Signal("degraded", 1, 0, 0),
                Signal("limited", 1, 0, 0), Signal("available", 0, 0, 0), Signal("available", 1, 40, 0),
                Signal("available", 1, 0, 10)},
    Thresholds <- [sources |-> 0, dashboards |-> 200, queries |-> 0], SandboxEnforcement <- TRUE,
    Confirmations <- [reason : {"", "service_outage", "hurry"}, token : {"", "t"}],
    MaxCreates <- 1, MaxRestarts <- 1, restarts <- policyRestarts

-----------------------------------------------------------------------------
(* Work done for a client.                                                 *)

Containers == INSTANCE Runner WITH
    Runners <- {"r1"}, Backends <- {""}, Tokens <- {"t1", "t2", "t3"}, Sessions <- {"s1"},
    Audiences <- {"start", "stop", "provider-proxy"}, Calls <- {"c1", "c2"}, TTL <- 0, MaxTime <- 1, MaxBoxes <- 1,
    MaxTokensPerRun <- 2, Usage <- 2, RuntimeWraps <- FALSE

SandboxStates == {"created", "provisioning", "ready", "running", "failed", "destroyed"}
AllMoves == SandboxStates \X SandboxStates

SandboxSessions == INSTANCE Sandbox WITH
    Sandboxes <- {"s1", "s2"}, Tasks <- {"t1"}, Artifacts <- {}, Workspaces <- {""}, Runtimes <- {"runc"},
    AllowedRuntimes <- {"runc"}, Callers <- {"c1", "c2"}, MaxConcurrent <- 0, MaxArtifact <- 2,
    MaxSandboxArtifacts <- 3, Sizes <- {}, CountMayFail <- FALSE, Moves <- AllMoves, Notes <- BOOLEAN

Limited == INSTANCE Sandbox WITH
    Sandboxes <- {"s1", "s2", "s3"}, Tasks <- {}, Artifacts <- {}, Workspaces <- {""}, Runtimes <- {"runc"},
    AllowedRuntimes <- {"runc"}, Callers <- {"c1", "c2"}, MaxConcurrent <- 1, MaxArtifact <- 2,
    MaxSandboxArtifacts <- 3, Sizes <- {}, CountMayFail <- TRUE,
    Moves <- {<<"created", "provisioning">>, <<"provisioning", "failed">>}, Notes <- {FALSE}

Uploads == INSTANCE Sandbox WITH
    Sandboxes <- {"s1"}, Tasks <- {}, Artifacts <- {"a1", "a2", "a3"}, Workspaces <- {"", "w"},
    Runtimes <- {"", "runc", "x"}, AllowedRuntimes <- {"runc"}, Callers <- {"c1", "c2"}, MaxConcurrent <- 1,
    MaxArtifact <- 2, MaxSandboxArtifacts <- 3, Sizes <- {2, 3}, CountMayFail <- FALSE,
    Moves <- AllMoves, Notes <- {TRUE}

Stream == INSTANCE CommandStreams WITH
    Clients <- {"c1"}, Chunks <- 3, MaxMarkers <- 2, MaxRestarts <- 1, AgeOut <- TRUE, Keep <- 3, PageLimit <- 2,
    BufSize <- 2, restarts <- streamRestarts

TaskStream == INSTANCE SandboxStream WITH
    TaskIds <- {1, 2}, MaxSeq <- 2, MaxChunks <- 3, Clients <- {"k1"}, BufferSize <- 1, ReplayLimit <- 2, PageSize <- 2,
    running <- streaming

UploadLength(t) == IF t = "u1" THEN 2 ELSE 1

FileTransfers == INSTANCE RunnerArtifacts WITH
    Runs <- {"r"}, Paths <- {<<"a">>}, Scopes <- {<<>>}, TTLs <- {1}, DefaultTTL <- 1,
    Transfers <- {"u1", "u2", "d1"}, Length <- UploadLength, KeyConfigured <- TRUE, MaxTokens <- 2, MaxTime <- 0,
    MaxStarts <- 1

Grants == INSTANCE RunnerArtifacts WITH
    Runs <- {"r"}, Paths <- {<<"a">>, <<".", "a">>, <<"a", "b">>, <<"..">>}, Scopes <- {<<>>, <<"a">>},
    TTLs <- {0, 1}, DefaultTTL <- 2, Transfers <- {"u1", "u2"}, Length <- UploadLength, KeyConfigured <- FALSE,
    MaxTokens <- 1, MaxTime <- 4, MaxStarts <- 1

NoApproval == [required |-> FALSE, min |-> 0]
PackStep(id, action, mutating, retries, rollback, approval) ==
    [id |-> id, action |-> action, mutating |-> mutating, retries |-> retries, rollback |-> rollback,
     approval |-> approval, command |-> IF id = "d" THEN "reads" ELSE "changes"]
Pack(version, inputs, approval, steps) ==
    [id |-> "p", version |-> version, inputs |-> inputs, approval |-> approval, steps |-> steps]
Input(type, required, min, max, default) ==
    [name |-> "n", type |-> type, required |-> required, min |-> min, max |-> max, default |-> default]

PackForms ==
    {Pack("1", {Input("integer", TRUE, 1, 2, {})}, [required |-> TRUE, min |-> 2],
          <<PackStep("a", "noop", "", 0, TRUE, NoApproval), PackStep("b", "exec", "", 1, TRUE, NoApproval),
            PackStep("c", "deploy", "yes", 0, FALSE, [required |-> TRUE, min |-> 1]),
            PackStep("d", "run_command", "", 0, TRUE, NoApproval)>>),
     Pack("2", {Input("number", FALSE, 0, 1, {[type |-> "integer", n |-> 2]})}, NoApproval,
          <<PackStep("a", "exec", "", 0, TRUE, NoApproval), PackStep("b", "run_command", "", 0, TRUE, NoApproval),
            PackStep("c", "delete", "", 0, TRUE, NoApproval)>>),
     Pack("3", {}, [required |-> TRUE, min |-> 0], <<PackStep("a", "noop", "", 0, FALSE, NoApproval)>>),
     Pack("4", {}, NoApproval, <<PackStep("a", "noop", "", 0, FALSE, NoApproval), PackStep("a", "noop", "", 0, FALSE, NoApproval)>>)}

Given(name, type) == {[name |-> name, type |-> type, n |-> 1]}
Approvals(counts) == {[approved |-> c > 0, count |-> c \div 2] : c \in counts}
PolicyAnswers(a) == CASE a = "delete" -> {"deny"} [] a = "exec" -> {"allow", "queue", "deny"} [] OTHER -> {"", "queue"}

Workflows == INSTANCE AutomationPacks WITH
    Packs <- PackForms, Provided <- {{}, Given("n", "integer"), Given("n", "string"), Given("m", "integer")},
    Decisions <- [workflow : Approvals({0, 1, 4}), step : Approvals({0, 2})], Executions <- {"e1"},
    Answers <- PolicyAnswers, exec <- packExec

-----------------------------------------------------------------------------
(* Records and alerts.                                                     *)

Audit == INSTANCE AuditLog WITH
    Ids <- {1, 2}, Writers <- {"w1", "w2"}, MemoryLimit <- 1, Step <- 1, Editable <- TRUE, MaxTime <- 2,
    MaxRestarts <- 1, now <- auditClock, order <- auditOrder, restarts <- auditRestarts

Untouched == INSTANCE AuditLog WITH
    Ids <- {1, 2, 3}, Writers <- {"w1", "w2"}, MemoryLimit <- 1, Step <- 1, Editable <- FALSE, MaxTime <- 2,
    MaxRestarts <- 1, now <- auditClock, order <- auditOrder, restarts <- auditRestarts

Cases == INSTANCE Incidents WITH
    Ids <- {"i1"}, Callers <- {"c1", "c2"}, Titles <- {"t"}, Times <- {2}, MaxEntries <- 2, caller <- editor

Hooking == INSTANCE Notifications WITH
    Types <- {"a"}, Hooks <- {"h1"}, Clients <- {"c1"}, BufferSize <- 1, HistoryLimit <- 2, MaxEvents <- 3,
    MaxRestarts <- 1, table <- hookTable, sends <- hookSends, history <- hookHistory, restarts <- hookRestarts

Rule(on, type, threshold, dur, actions) ==
    [named |-> TRUE, enabled |-> on, type |-> type, threshold |-> threshold, dur |-> dur, tags |-> {},
     actions |-> actions]
Channel(type, on) == [named |-> TRUE, type |-> type, config |-> TRUE, enabled |-> on]

Alerting == INSTANCE Alerts WITH
    RuleIds <- {1}, Probes <- {"p1"}, Channels <- {"c1"}, Webhooks <- {},
    RuleForms <- {Rule(TRUE, "probe_offline", 0, 1, {[type |-> "channel", id |-> "c1"]}),
                  Rule(FALSE, "disk_threshold", 80, 1, {}), Rule(TRUE, "disk_threshold", 80, 1, {}),
                  Rule(TRUE, "cpu_threshold", 0, 0, {})},
    ChannelForms <- {Channel("slack", TRUE), Channel("sms", TRUE)},
    Heartbeats <- {[used |-> 90, total |-> 100, load |-> 0, cpus |-> 1, tags |-> {}]},
    MaxTime <- 1, time <- alertClock

Matcher(field, op, value) == [field |-> field, op |-> op, value |-> value]
Routing(name, priority, isDefault, matchers, escalation) ==
    [id |-> "", name |-> name, owner |-> "o", priority |-> priority, isDefault |-> isDefault, matchers |-> matchers,
     escalation |-> escalation]
Escalation(orders) ==
    [name |-> "e", steps |-> [i \in DOMAIN orders |-> [order |-> orders[i], target |-> "t", targetType |-> "team"]]]
Alert(severity, tags) ==
    [severity |-> severity, condition_type |-> "disk_threshold", rule_name |-> "r", tags |-> tags]

Routes == INSTANCE AlertRouting WITH
    PolicyIds <- {1, 2, 3}, EscalationIds <- {"e1"},
    PolicyForms <- {Routing("a", 1, FALSE, {Matcher("severity", "eq", "critical")}, "e1"),
                    Routing("b", 2, FALSE, {Matcher("tag", "prefix", "pr"), Matcher("severity", "", "critical")}, ""),
                    Routing("w", 0, FALSE, {}, ""), Routing("d", 1, TRUE, {}, "e1"), Routing("d2", 2, TRUE, {}, ""),
                    Routing("", 1, FALSE, {}, ""), Routing("x", 1, FALSE, {Matcher("rule_name", "regex", "r")}, "")},
    EscalationForms <- {Escalation(<<1>>), Escalation(<<0>>), Escalation(<<>>)},
    Contexts <- {Alert(s, t) : s \in {"critical", "info"}, t \in {{}, {"prod"}}},
    HasSubstring <- {}, HasPrefix <- {<<"prod", "pr">>}

-----------------------------------------------------------------------------
(* Reports.                                                                *)

Filter(since, until, framework, ids, ws) ==
    [since |-> since, until |-> until, framework |-> framework, probes |-> ids, workspace |-> ws]

Windows == INSTANCE EvidenceBundle WITH
    Probes <- {"p1"}, Categories <- {"cis"}, HistoryLimit <- 1, Window <- 2, MaxRecords <- 1, MaxTime <- 4,
    Workspaces <- {"", "w1"},
    Filters <- {Filter(0, 0, "", {}, ""), Filter(2, 3, "cis", {"p1"}, "w1"), Filter(4, 3, "", {}, ""),
                Filter(3, 0, "", {"p2"}, "w2")},
    clock <- evidenceClock, bundle <- evidence

Sources == INSTANCE EvidenceBundle WITH
    Probes <- {"p1"}, Categories <- {"cis"}, HistoryLimit <- 1, Window <- 2, MaxRecords <- 2, MaxTime <- 2,
    Workspaces <- {""}, Filters <- {Filter(0, 0, "", {}, "")}, clock <- evidenceClock, bundle <- evidence

Fleets == {<<>>, <<"online", "degraded">>, <<"online", "offline">>}

Cards == INSTANCE Reliability WITH
    Requests <- {"r1", "r2"}, MaxSamples <- 2, MaxAge <- 1, TickMillis <- 400, Fleets <- {<<"online", "degraded">>},
    Results <- {<<>>}, MaxTime <- 2, MaxRecords <- 2, MaxDrills <- 0, now <- cardClock

Drills == INSTANCE Reliability WITH
    Requests <- {"r1"}, MaxSamples <- 2, MaxAge <- 1, TickMillis <- 400, Fleets <- Fleets,
    Results <- {<<>>, <<"0", "none">>, <<"1">>}, MaxTime <- 1, MaxRecords <- 1, MaxDrills <- 1, now <- cardClock

ProbeKind(p) == IF p = "p1" THEN "agent" ELSE "remote"
ProbeTags(p) == IF p = "p1" THEN {} ELSE {"t1"}
ScanOf(ids, tags) == [ids |-> ids, tags |-> tags]

FleetScans == INSTANCE Compliance WITH
    Probes <- {"p1", "p2"}, Checks <- {"c1"}, Kind <- ProbeKind, Tags <- ProbeTags, Scans <- {"s1"},
    Requests <- {ScanOf({}, {}), ScanOf({"p1", "p3"}, {}), ScanOf({}, {"t1"})},
    Concurrent <- 1, MaxTime <- 1,
    now <- scanClock, scans <- complianceScans, worker <- scanWorker

Rescans == INSTANCE Compliance WITH
    Probes <- {"p1"}, Checks <- {"c1"}, Kind <- ProbeKind, Tags <- ProbeTags, Scans <- {"s1", "s2"},
    Requests <- {ScanOf({}, {})}, Concurrent <- 1, MaxTime <- 1,
    now <- scanClock, scans <- complianceScans, worker <- scanWorker

Schedule(format, period) == [format |-> format, period |-> period, enabled |-> TRUE]

Exports == INSTANCE ComplianceExports WITH
    Schedules <- <<Schedule("csv", 2), Schedule("pdf", 3)>>, Formats <- {"csv", "pdf"}, Retention <- 3,
    MaxExports <- 3, MaxTime <- 3,
    made <- reports

Prompt(id, strict) == [id |-> id, strict |-> strict]

Trials == INSTANCE ModelTrials WITH
    Forms <- {[prompts |-> <<Prompt("p2", TRUE), Prompt("", FALSE)>>, models |-> <<"m1">>],
              [prompts |-> <<Prompt("", TRUE)>>, models |-> <<"m1", "m1">>],
              [prompts |-> <<Prompt("", TRUE)>>, models |-> <<"m3">>]},
    Known <- {"m1", "m2"}, Runs <- {"r1"}, Retries <- 1, MaxRestarts <- 1,
    runs <- trialRuns, restarts <- trialRestarts

-----------------------------------------------------------------------------
Parts ==
    {"fan_out", "tasks", "fleet_tasks", "actions", "reads", "policy", "runner", "sandboxes", "limited", "uploads",
     "stream", "task_stream", "transfers", "grants", "packs", "audit", "untouched", "incidents", "webhooks", "alerts",
     "routing", "evidence", "sources", "cards", "drills", "scans", "rescans", "exports", "trials"}

Init ==
    /\ part \in Parts
    /\ FanOut!Init /\ Policy!Init /\ Containers!Init /\ Stream!Init /\ TaskStream!Init
    /\ Workflows!Init /\ Cases!Init /\ Hooking!Init /\ Alerting!Init /\ Routes!Init /\ Exports!Init /\ Trials!Init
    /\ IF part = "untouched" THEN Untouched!Init ELSE Audit!Init
    /\ part \notin {"audit", "untouched"} => chainMode = FALSE
    /\ IF part = "fleet_tasks" THEN FleetTasks!Init ELSE SingleTask!Init
    /\ IF part = "reads" THEN Readings!Init ELSE Actions!Init
    /\ CASE part = "uploads" -> Uploads!Init [] part = "limited" -> Limited!Init [] OTHER -> SandboxSessions!Init
    /\ IF part = "grants" THEN Grants!Init ELSE FileTransfers!Init
    /\ IF part = "sources" THEN Sources!Init ELSE Windows!Init
    /\ IF part = "drills" THEN Drills!Init ELSE Cards!Init
    /\ IF part = "rescans" THEN Rescans!Init ELSE FleetScans!Init

CommandSteps ==
    \/ part = "fan_out" /\ FanOut!Next /\ UNCHANGED <<agentVars, kubeflowVars, policyVars>>
    \/ /\ (part = "tasks" /\ SingleTask!Next) \/ (part = "fleet_tasks" /\ FleetTasks!Next)
       /\ UNCHANGED <<schedulerVars, kubeflowVars, policyVars>>
    \/ /\ (part = "actions" /\ Actions!Next) \/ (part = "reads" /\ Readings!Next)
       /\ UNCHANGED <<schedulerVars, agentVars, policyVars>>
    \/ part = "policy" /\ Policy!Next /\ UNCHANGED <<schedulerVars, agentVars, kubeflowVars>>

WorkSteps ==
    \/ /\ part = "runner" /\ Containers!Next
       /\ UNCHANGED <<sandboxVars, streamVars, taskStreamVars, artifactVars, packVars>>
    \/ /\ (part = "sandboxes" /\ SandboxSessions!Next) \/ (part = "uploads" /\ Uploads!Next)
          \/ (part = "limited" /\ Limited!Next)
       /\ UNCHANGED <<runnerVars, streamVars, taskStreamVars, artifactVars, packVars>>
    \/ /\ part = "stream" /\ Stream!Next
       /\ UNCHANGED <<runnerVars, sandboxVars, taskStreamVars, artifactVars, packVars>>
    \/ /\ part = "task_stream" /\ TaskStream!Next
       /\ UNCHANGED <<runnerVars, sandboxVars, streamVars, artifactVars, packVars>>
    \/ /\ (part = "transfers" /\ FileTransfers!Next) \/ (part = "grants" /\ Grants!Next)
       /\ UNCHANGED <<runnerVars, sandboxVars, streamVars, taskStreamVars, packVars>>
    \/ /\ part = "packs" /\ Workflows!Next
       /\ UNCHANGED <<runnerVars, sandboxVars, streamVars, taskStreamVars, artifactVars>>

RecordSteps ==
    \/ /\ (part = "audit" /\ Audit!Next) \/ (part = "untouched" /\ Untouched!Next)
       /\ UNCHANGED <<incidentVars, webhookVars, alertVars, routingVars>>
    \/ part = "incidents" /\ Cases!Next /\ UNCHANGED <<auditVars, webhookVars, alertVars, routingVars>>
    \/ part = "webhooks" /\ Hooking!Next /\ UNCHANGED <<auditVars, incidentVars, alertVars, routingVars>>
    \/ part = "alerts" /\ Alerting!Next /\ UNCHANGED <<auditVars, incidentVars, webhookVars, routingVars>>
    \/ part = "routing" /\ Routes!Next /\ UNCHANGED <<auditVars, incidentVars, webhookVars, alertVars>>

ReportSteps ==
    \/ /\ (part = "evidence" /\ Windows!Next) \/ (part = "sources" /\ Sources!Next)
       /\ UNCHANGED <<cardVars, complianceVars, exportVars, trialVars>>
    \/ /\ (part = "cards" /\ Cards!Next) \/ (part = "drills" /\ Drills!Next)
       /\ UNCHANGED <<evidenceVars, complianceVars, exportVars, trialVars>>
    \/ /\ (part = "scans" /\ FleetScans!Next) \/ (part = "rescans" /\ Rescans!Next)
       /\ UNCHANGED <<evidenceVars, cardVars, exportVars, trialVars>>
    \/ part = "exports" /\ Exports!Next /\ UNCHANGED <<evidenceVars, cardVars, complianceVars, trialVars>>
    \/ part = "trials" /\ Trials!Next /\ UNCHANGED <<evidenceVars, cardVars, complianceVars, exportVars>>

Next ==
    \/ CommandSteps /\ UNCHANGED <<part, workVars, recordVars, reportVars>>
    \/ WorkSteps /\ UNCHANGED <<part, commandVars, recordVars, reportVars>>
    \/ RecordSteps /\ UNCHANGED <<part, commandVars, workVars, reportVars>>
    \/ ReportSteps /\ UNCHANGED <<part, commandVars, workVars, recordVars>>

Spec == Init /\ [][Next]_mcVars

-----------------------------------------------------------------------------
(* Properties.                                                             *)

\* No change without consent: a command of an LLM task was allowed or approved, unless its
\* probe had left the fleet, goes out once or, when approved, at most twice, and is not
\* sent for a client that left (llm), a Kubeflow object is changed at most once and only
\* by a request that was let through (kubeflow), and the class and approval of a command
\* are never laxer than its policy profile (core/policy).
ConsentComesFirst ==
    /\ part = "tasks" => SingleTask!TaskCommandsHaveConsent /\ SingleTask!TasksStopWithTheirClient
                         /\ SingleTask!SendsAreBounded
    /\ part = "fleet_tasks" => FleetTasks!SendsAreBounded
    /\ part = "actions" => Actions!MutationsHaveConsent
    /\ part = "policy" => Policy!DecisionsRespectTheProfile

\* A runner token permits one step, the tokens of a run are spent up to the limit and what
\* was under way (runner), and sandboxes exceed their limits only by what raced or was not counted (sandbox).
BudgetsHold ==
    /\ part = "runner" => Containers!TokensPermitOneStep /\ Containers!SpendBounded
    /\ part = "limited" => Limited!LimitsExceededOnlyByRaces
    /\ part = "uploads" => Uploads!LimitsExceededOnlyByRaces

\* What has ended stays as it is: a sandbox session keeps to its state machine (sandbox), and
\* a deleted incident is not changed by an update that found it before (incidents).
LifecyclesHold ==
    /\ [][part \notin {"uploads", "limited"} => SandboxSessions!MovesAlong]_sandboxVars
    /\ [][part = "limited" => Limited!MovesAlong]_sandboxVars
    /\ [][part = "uploads" => Uploads!MovesAlong]_sandboxVars
    /\ Cases!DeletedIncidentsAreFrozen


\* Work of several steps ends as it says: a dry run that gets the policy's answers of the
\* run foretells what blocks it and a rollback mirrors the steps that were done
\* (automationpacks), and a job with several targets succeeds only when all of them did, each
\* target owned by one run (jobs).
PlansAreKept ==
    /\ part = "packs" => Workflows!DryRunForetellsBlocks /\ Workflows!RollbackMirrorsSteps
    /\ part = "fan_out" => FanOut!SuccessIsEarned /\ FanOut!TargetsAreOwned


\* Reports follow from the records: an evidence bundle has every record of its window
\* (compliance), a healthy score card has no failing indicator (reliability), the current
\* result of a check is of no earlier scan, scheduled reports keep their period
\* (compliance), a comparison counts every result (modellab), and an inventory that is
\* not marked partial is whole (kubeflow).
ReportsAreTrue ==
    /\ part = "evidence" => Windows!BundlesAreWhole
    /\ part = "sources" => Sources!BundlesAreWhole
    /\ part = "cards" => Cards!HealthyCardsAreRight
    /\ part = "drills" => Drills!HealthyCardsAreRight
    /\ part = "scans" => FleetScans!LaterScansPrevail
    /\ part = "rescans" => Rescans!LaterScansPrevail
    /\ part = "exports" => Exports!ScheduledReportsAreSpaced
    /\ part = "trials" => Trials!ComparisonsCountEverything
    /\ part = "reads" => Readings!FullInventoriesAreTrue
=============================================================================
