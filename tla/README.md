# A verification of legator's control plane

Legator has a control plane (`src/internal/controlplane`, started by
`src/cmd/control-plane`) that decides what may run on a fleet of hosts, and a
probe agent on each host (`src/internal/probe`) that runs it. This directory
holds TLA+ modules for the parts of both that keep state, TLC configurations that
check them on small instances, and TLAPS proofs of the properties that matter
most.

`PROJECT.json` lists the components, the runs, the source lines of every
definition, the hazards, the findings and the theorems. This file explains them.
Paths below are relative to `src/internal/controlplane`.

## 1. The system and the modules

Commands and jobs:

| Module | Part of the system | What is hard about it |
|---|---|---|
| `ApprovalQueueOps`, `ApprovalQueue` | `approval`: requests in memory, decisions, expiry, pollers | a quorum of people under several spellings, expiry racing a decision, a full queue |
| `AsyncJobs`, `StatusLifecycle` | `jobs/async_*`, the dispatch, approve, reject, decide and cancel endpoints of `server`, the timeout checker, restarts | a table on disk beside counts and requests in memory; steps of one request that others see half done |
| `ScheduledRunStore`, `JobScheduler`, `StatusLifecycle` | `jobs/scheduler.go`, `jobs/store.go` | claims that must not leak, retries racing cancels, rows deleted under running threads |
| `JobDefinitions` | `jobs/handlers.go` with workspaces | check and act in two statements, updates that write back what they read |
| `AgentTasks` | `llm` tasks, fleet chat, group commands and their routes | an approval that is waited for by a client that may leave |
| `CommandPolicy` | `core/approvalpolicy`, `policy` | lanes, risk, approval mode and capacity rewrite one outcome in turn |
| `Kubeflow` | `kubeflow` and its routes | approval, replay of an approved change, a cluster that changes meanwhile |
| `AutomationPacks` | `automationpacks` | gates, retries and rollbacks of several steps |

Probes and what is known of them:

| Module | Part of the system | What is hard about it |
|---|---|---|
| `ProbeChannel` | `websocket`, `cmdtracker/tracker.go`, `core/commanddispatch`, key rotation, policy push, the probe's `agent` and `connection` | an old connection that ends after its successor began; three parties on one result channel; lost messages |
| `Fleet` | `fleet`, `api`: registration, tokens, heartbeats, remote probes | memory and table changed one after the other; restarts |
| `ProbeCertificates` | `auth/probe_*.go`, `server/probe_mtls.go` | expiry, modes and a registry that is memory only |
| `CommandStreams` | `cmdtracker/stream_recorder.go` | reordered and duplicated chunks, resume, pruning |
| `Federation` | `fleet/federation_read_model.go` | sources that fail, cached answers, tenants |
| `Discovery`, `CloudConnectors`, `NetworkDevices` | `discovery`, `cloudconnectors`, `networkdevices` | scans that overlap with decisions, deletes and other scans |
| `Tenancy` | `tenant` | a tenant deleted while it is given probes |

Work on runners and sandboxes:

| Module | Part of the system | What is hard about it |
|---|---|---|
| `Runner` | `runner`, `tokenbroker`, `providerproxy` | a token is consumed before its step is known to be possible; spend checked before and recorded after a call; containers and their watchers |
| `RunnerArtifacts` | `artifacts` and its handlers | concurrent transfers under presigned tokens |
| `Sandbox`, `SandboxStream` | `sandbox` | versioned rows with several writers; limits counted before the insert; replay while output goes on |

Records, reports, people and models:

| Module | Part of the system | What is hard about it |
|---|---|---|
| `Alerts`, `AlertRouting` | `alerts` | firing alerts in memory beside events on disk |
| `Notifications` | `events`, `webhook`, SSE clients | full channels, retries, deregistration under a delivery |
| `AuditLog` | `audit` | a hash chain with two kinds of writers and purges |
| `Incidents`, `Reliability` | `reliability` | soft deletion under an update; samples out of order |
| `Compliance`, `ComplianceExports`, `EvidenceBundle` | `compliance`, `server/audit_evidence_bundle.go` | scans that overlap, periods, windows compared as text |
| `Access` | `auth`, `users`, `session`, `oidc` | one request reads three databases while administrators change them |
| `ModelDock`, `ModelTrials` | `modeldock` | the active profile in a table and in memory |
| `Chat` | `chat` | a conversation in memory and in a table, pruned and cleared under subscribers |

How the parts meet. `POST /probes/{id}/command` evaluates the policy
(`CommandPolicy`), inserts an async job, and then denies it, submits an approval
request and holds the job, or hands it to the scheduler (`AsyncJobs`, which
composes the operators of `ApprovalQueueOps` with the job table). The drain loop
looks at the same table the handler is still working on. The endpoints write the
approval queue and the job table one after the other. The command goes through
the tracker and the hub to the probe and back (`ProbeChannel`). Scheduled jobs
have their own table and threads (`JobScheduler`) and share tracker and hub; tasks
of the LLM (`AgentTasks`) and Kubeflow changes share the approval queue. One
SQL statement or transaction is one atomic step, and so is a store call that consists
of one; everything between two of them interleaves. (Only `jobs/store.go` and
`cmdtracker/stream_recorder.go` limit their pool to one connection.)

Conventions. Every module has its state as variables, one action per handler,
locked section or step of a goroutine, `Init`, `Next` and `Spec`. Where
another thread can come between the read and the write of a handler and a property
can tell, they are two actions; a handler that holds its lock, or whose parts touch
nothing shared in between, is one. A restart
(`Restart`) keeps tables and drops memory. Definitions whose comment begins with
"Mutant" are wrong variants of the definition after them; they are used to see
that a property notices the mistake, and nothing else refers to them.

## 2. How state and actions correspond to the code

The header of each module and the comments of its variables say what they stand
for, and `map` in `PROJECT.json` gives the lines of each definition. What is not
obvious from them:

- `ApprovalQueue`. `Sweep` stands for every reader and for the reaper, which all
  start with `evictExpiredLocked`. `Poll` is the turn of the polling loop that ends
  it. `Person` says which spellings `strings.EqualFold` takes for the same name.
- `AsyncJobs`. A call `c` stands for everything it creates: its job, its approval
  request, its command. `handler[c]` is its dispatch handler, `sched` the goroutine
  that holds `schedMu`, `goroutines` the sends that were spawned, `operator` the
  endpoint calls in progress, `checker` the timeout checker. Clients choose request
  ids, so two calls may share one (`RequestOf`). A probe may answer at any time or
  never, and answers a command that was sent twice twice.
- `JobScheduler`. One job. An *execution* is the work that begins with one claim of
  a target; its attempts follow one another, so it has one thread at a time. The
  maps `inFlight`, `runRequest` and `requestTarget` change together and are one set.
  A cancelled timer may still fire, as Go's `select` picks either branch when both
  are ready. No lock spans the steps of `CancelJob`. Whether a tick finds the job
  due is an input.
- `ProbeChannel`. `hub`, `conn` and `link` are the hub's map, the sockets and what
  the probe believes; `down` and `up` the messages on the way, which die with their
  connection. `Complete` is two steps, since the tracker sends on the channel after
  it has released its lock. A rotation reads the probe, sets the key and sends it, and
  a template is applied and then pushed: each is a step, so two rotations or two pushes
  may cross (`crossed`).
- `CommandStreams`, `SandboxStream`. The first numbers chunks itself; a table that was
  emptied by pruning starts the numbering again after a restart, so an event carries the
  numbering it belongs to. The second stores the sequence the probe sent, whatever it is.
- `AutomationPacks`. Every evaluation of the policy may give any of the outcomes that its
  capacity signals allow (`Answers`), so a dry run and a run need not agree.
- `Fleet`, `Chat`, `Alerts`. The memory and the table are separate variables. A write that
  fails leaves them different, and `Restart` loads memory from the table. In `Fleet` the
  write is a step of its own after the change of memory, and `HandleRegister` is the
  sequence of its calls: token, registration, key, tags, removal of what it replaces.
- `Runner`. `PrepareRunnerLifecycle` consumes the token and checks the transition under
  the lock; the runtime command and `CompleteRunnerLifecycle` are later steps. A
  container's watcher is a thread of its own.
- `Sandbox`, `JobDefinitions`, `Incidents`, `Access`, `Tenancy`. The request of a caller
  sits between its look-up and its write, with what it read.
- `Incidents`, `EvidenceBundle`. Times are half seconds, stored as text with trailing
  zeros removed; they are compared as the code compares them, as text.
- `AuditLog`. A hash is the record it was made of, so two different logs have
  different hashes.
- `CommandPolicy`. Commands, tags and signals are representatives of the tables of the
  classifiers, one for each row that leads to a different outcome.

## 3. The runs

The runs of one kind of question are grouped. `MCServices`, `MCInventory` and `MCWork`
hold instances of many modules side by side; the first state chooses the part, and a
behaviour is one of that part alone. Parts that never meet in the code need not
be multiplied with each other.

| Run | Question | Bounds |
|---|---|---|
| `async_scheduler` | in-flight limits, queue depth, at most one send per job, the life cycle of the table | three calls on two probes that nobody waits for, two slots, one per probe, depth 2, a restart: every limit is reached; calls are symmetric (no temporal property but a step property) |
| `async_live` | a running job has a sender, a probe or a waiting client, queued jobs are served, every request is answered | two calls with one request id, with and without `?wait=true`, one slot, a restart |
| `approve_endpoint` | approve and reject against the checker and a restart: only started jobs are sent, no job waits for good | one job, two operators, `reads_only` |
| `decide_endpoint` | the decide endpoint against the checker: a held command goes out only while its request is approved, escalation only extends | one job, two operators, `escalate`, a restart |
| `job_scheduler` | claims are not leaked, no overlap without a cancel, retries follow failures, life cycle, every execution ends | one target, two dispatchers, two attempts, two executions, every admission answer, one cancel, edit, Stop or crash |
| `services` | the approval queue, and what must happen by itself: requests, pollers, calls to probes, alerts, containers and deliveries come to an end | the header of `MCServices` |
| `inventory` | what the control plane stores about probes, people, jobs and models is true, in spite of overlapping requests, failing writes and restarts | the header of `MCInventory` |
| `work` | what it does for its clients, and what it records and reports of it | the header of `MCWork` |

The properties of the grouped runs are conjunctions of the properties of their
parts; the comment of each names the parts and packages.

Four runs refute what the repository says; the trace is the finding:

| Run | Statement | What happens |
|---|---|---|
| `drain_before_approval` | "expected no dispatch while pending approval" (`async_jobs_test.go`) | the job is inserted as queued before it is held, and the drain loop is faster |
| `quorum_after_restart` | "approval requests require two distinct approvers before dispatch" (`CHANGELOG.md`) | the queue is in memory; after a restart the approve endpoint finds no request and resumes the job for one approver |
| `queued_after_restart` | "Queued runs are re-evaluated and drained without requiring manual intervention" (release notes, alpha.19) | the timer is in memory and `Start` looks at no stored run |
| `cloud_delete` | "expected cascading delete to keep 1 asset" (`cloudconnectors/store_test.go`) | `PRAGMA foreign_keys` concerns one connection of the pool; a delete on another leaves the assets |

Bounds. The instances are small in the number of objects and large in the number of
threads: the properties relate the threads that work on one object or compete for
one limit, so one object (two or three where a limit, an id or a name is shared) and
all threads that can touch it is the case that matters. Every clock and counter is
bounded by a constant named in its module (`MaxTime`, `MaxRestarts`, `MaxExecutions`,
`MaxCancels`, `MaxEvents`, ...); each is large enough for the event it counts to happen
before and after any step of the threads. Where one instance cannot have all cases
within minutes, two instances of the module divide them (for example `SandboxSessions`,
`Limited` and `Uploads` in `MCWork`). `MaxEvents` allows one cancel, edit or restart per
behaviour of `job_scheduler`; two of them take much longer than the others together.

Fairness. Goroutines that have started go on (weak fairness of the steps of a handler,
the drain loop, an execution, a delivery, a watcher); tickers fire and time passes; a
handler that waits for `schedMu` gets it (strong fairness of `DispatchNow`: `sync.Mutex`
hands the lock to a waiter that starves); a tracked command that the probe does not answer
is ended by a timeout; the wait for a container ends at its timeout; the probe dials again
after a broken connection, since its loop never gives up; a POST to a webhook returns
within the client's timeout. `Alerts` assumes that the store does not refuse every write
(strong fairness of an evaluation whose writes succeed). Nothing is assumed of clients,
operators, the answers of probes, the admission evaluator, or the success of runtime
commands and deliveries: `ExecutionsEnd` says what happens if an evaluator defers for
good, and `ContainersEnd` excepts containers whose removal failed.

## 4. The proofs

Each theorem holds for every value of the constants that satisfies the assumption named
for its module. A theorem about `AsyncJobs` that needs more than that says so in its
`ASSUME`; what it asks for is a fact about the configuration (the policy, the endpoints
in use, the timeout behaviour), never about the sizes.

`ApprovalQueue`, at the end of the module (assumptions `QueueAssumption` and
`WaitAssumption`): `TypeCorrect`, `QuorumHolds`, `DecisionsStay`, `SizeBounded` and
`WaitersToldTruth`. The step from the actions to the properties goes through one lemma,
`StepEvolves`: whatever the step, each request evolves by expiring, being denied, getting
one approval, or not at all, and leaves the map only when it was decided. The quorum
itself is not inductive, as nothing in it says that an open request has fewer approvals
than it needs or that they are in time; `GoodRequest` adds what a request satisfies at
every moment. The bound on the size needs that the map is finite. What a waiter was told
stays true because decisions are final and ids are never drawn again. The lemmas about
the operators of the queue (what submitting, deciding, expiring and evicting do to the
map) are in `ApprovalQueueOps`, for `AsyncJobs` uses the same operators.

`AsyncJobs_proofs`, `AsyncJobsRuns_proofs` and `AsyncJobsSends_proofs`, each of which
extends the one before it (assumption `AsyncAssumption`). The state of `AsyncJobs` is
shared by seven kinds of processes, so the proofs go through one lemma per variable that
lists everything a step may do to it: `HandlerGoes`, `OperatorGoes`, `JobGoes`,
`CheckerGoes`, `ProbeGoes`. An invariant is then shown by these cases, not by the actions
one by one.

- `TypeCorrect`, with the inductive invariant `TInv`: the types, and `Shapes`, that a
  process that acts on a call has one.
- `LifecycleImplemented`: `AsyncJobs` implements `StatusLifecycle`, with the transitions
  of `canTransitionAsyncJob`. Each store operator moves rows only along the life cycle,
  and each action is one of them.
- `QueueDepth`: the queued jobs keep to the limit; only `CreateJob` adds one, and it counts
  first.
- `RunningJobsInWork`: a running job has somebody who is going to send it, a probe that
  has it or a waiting client, if no policy holds commands for approval (`NoHolds`). The
  assumption is needed: an approval moves the job to running in a request of its own.
- `InFlightLimits`: the global and the per-probe limit, if in addition no client uses
  `?wait=true`. The limits are not inductive: the scheduler counts once and then starts a
  batch. `CountsCover` says that its counters are at least what is running, as nobody else
  starts jobs and results only lower the real number.
- `SentOnce`: no command is sent twice, under the same assumptions. `OneSender` says of
  every call who is about to send its command, that there is at most one, and that the
  command has not gone out yet; `Listed` that the rest of the scheduler's batch has no
  duplicates and no running job.
- `StartedBeforeSent`: a command is sent only after its job was moved to running, for
  every policy, if request ids are not shared, no client uses `?wait=true` and approvals go
  through the job's own endpoints (`StartedFirst`).
- `HeldNeedApproval`, an action property: where approvals go through the decide endpoint
  (no poll loop, no job approve endpoint, no approval of reads by timeout, and no purge
  within the modelled time), no step sends a held command without an approved request,
  and none shortens an approval window. `HeldSafely` follows the approval from the
  decision to the send, and says that the jobs the checker is about to escalate have
  closed windows.

The conditions are the ones under which the code keeps these promises: without them the
runs and section 5 have counterexamples (a waiting handler and the drain loop send
twice, the poll loop starts a held job, a decided command is sent before its job is
marked).

`JobScheduler_proofs` (assumption `JobSchedulerAssumption`): `TypeCorrect`;
`RetriesAfterFailures`, that an attempt after the first exists only if the one before it
failed; and `RunLifecycle`, that `JobScheduler` implements `StatusLifecycle`.
Neither of the last two is inductive by itself: what makes `RecordRunStart` safe is that
the run of an attempt does not exist before its thread inserts it. So the inductive
invariant `IInv` has `ShapeOf(e)`, which says for every place of a thread which runs of
its execution exist and how the last one ended. Every action is brought into one of two
forms: rows move along the life cycle (`Moved`) or one is inserted (`Inserted`), and at
most one thread moves (`Goes`); the lemmas about these forms carry the invariant.

`JobSchedulerClaims_proofs`, which extends it, has two more theorems, about the maps and
the threads that share a target. `ClaimsAreReleased`: a target in `activeTargets` has a
thread that will give it back, after any cancels and restarts. `RunsDoNotOverlap`: a
target has at most one run in flight, as long as nothing was cancelled and the process was
not restarted. Neither follows from its own statement; `ClaimInv` says which thread will
release a claimed target, and that the request it needs for that is there (`Owners`), that
an entry of `pendingRetry` is the timer of an execution of that target (`Timers`), that
before a restart a pending or running row has its thread in the middle of the attempt
(`Busy`), and that two threads of a target are never both live while nothing was cancelled
or restarted (`Exclusive`).

`Runner`, at the end of the module: `TokensAreSingleUse`, that a token permits one step,
and `SpendStaysBounded`, that a run exceeds its limit by less than what the calls under
way may use (assumption `SpendAssumption`, stated in the theorem: finitely many calls,
and natural numbers). The single use follows from `TokensGood`: a token that is not
consumed has not been used, and validation and consumption are one step. The bound on the
spend is not inductive either, as nothing in it says how many calls have passed the
check; `SpendInv` counts them: what is spent plus what the calls under way may still use
stays below the limit plus what all calls may use.

Only model-checked: liveness (the prover handles neither fairness nor ENABLED); the
properties of `MCInventory` and `MCWork`, which are conjunctions over many components
whose modules have no theorem yet; and what recursive or folded functions compute
(rankings, hash chains, merges), as induction over data is out of the prover's reach.

## 5. Findings

See `findings` in `PROJECT.json` for the four statements that the code contradicts. The
models also show the following, for which the repository makes no contrary statement
that could be checked, or for which the statement is a word in a comment.

Commands and jobs:

- a `?wait=true` handler and the drain loop may both send a command
  (`server/routes.go:1090`); a decided command is sent before its job is marked running
  (`server/server.go:1235`);
- of two concurrent approvals the late one may move the job to running without
  dispatching it, and the one that would dispatch gets a conflict
  (`server/async_jobs_approval.go:84`);
- a cancel that meets a firing timer releases the target while the timer's thread goes
  on, so two runs of one target overlap (`jobs/scheduler.go:949`); a cancel between the
  completion of a failed run and its timer finds nothing to cancel (`:811`); a deferred run
  of a job that is disabled when its timer fires stays queued (`:723`);
- `HandleUpdateJob` writes back the `last_status` and `enabled` it read; `HandleRunJob` runs
  disabled jobs; a job without a workspace is reachable by id from any workspace and not
  listed there;
- an approved command of an LLM task is sent by the decision and by the task
  (`server/server.go:1541`); commands of chat and fleet chat are sent without the policy,
  and so are those of a task whose probe has left the fleet (`:1523`);
- a dry run of an automation pack asks the policy for every step, the run only for those
  that change something, and the capacity signals may differ between the two: a step
  foretold as allowed may be blocked. `DryRunForetellsBlocks` is about equal answers;
- an applied policy is lost by a restart, and ids of policies start again; an explicit
  `sandbox_required: false` is overridden by the template for diagnose and remediate;
- `SubmitRun` always reports `Before: new` and `Changed: true`.

Probes and inventories:

- a second call with the request id of one under way replaces its entry in the tracker: the
  first answer of the probe goes to the call tracked last (`cmdtracker/tracker.go:54`);
- two rotations of a probe's key that cross may leave the probe with the older key,
  although no message was lost, and two templates applied at a time may leave it with the
  policy the control plane applied first;
- `Fleet` changes memory first and discards the error of the write (`fleet/store.go:157`):
  a registration, a tag or a heartbeat may be gone after a restart, and a write that comes
  late may undo a newer one;
- the registry of client certificates is memory, so certificates issued before a restart
  are unknown after it, although the notice says they "remain valid until
  expiry/revocation" (`server/probe_mtls.go:203`);
- a federated search may leave out a source it could not read and still say complete;
  registering a source again keeps the snapshots of the old one;
- a discovery run is recorded as completed when the client left during the scan;
  disabled cloud connectors can be scanned; the NETCONF hello has no timeout;
- memberships and tokens may name a tenant that does not exist.

Records and reports:

- `Purge` of the audit log breaks verification of what is left, and a record written
  between its read and its lock forks the chain; two records may enter the chain in the
  other order than their timestamps; without chain mode every log is valid; a chain key
  that was generated at start is not stored; the first page of the log never has a cursor;
- `isDue` looks at the newest report of any format (`compliance/export_scheduler.go:186`),
  where its comments speak of the schedule's own: a pdf makes a daily csv due again. This is
  the exception of `ScheduledReportsAreSpaced`;
- the audit log is selected by the text of its timestamps, where a whole second sorts after
  its fractions: `BundlesAreWhole` exempts the events of the second of a bound that the text
  puts on the other side. A bundle for a workspace leaves out the events of none, takes the
  approvals of none, and does not narrow compliance results;
- `docs/alert-routing.md:131` says that routing policies decide on deliveries; delivery
  does not read them;
- a trial that was running when the process ended stays running; failed models rank first
  by latency and by cost; no code sets a candidate to deploying;
- a publish of chat may meet the channel of a subscriber that was just closed;
- a chunk that never arrives holds back the rest of a command's output; the numbers of a
  stream start again when a restart finds its table pruned empty, and a client that
  resumes is told of no gap when no row is left; a batch of sandbox output that the probe
  repeats is shown twice; nothing ends the streams of a sandbox that is destroyed;
- `CountActive` answers 0 when its query fails, and the sandbox is created
  (`sandbox/store.go:373`);
- a runner's start whose request is abandoned may leave a container: the errors of both
  clean-ups are ignored (`runner/container_backend.go:117`, `:129`);
- two uploads under one token mix their content; the expiry told to the client is rounded.

## 6. What is not modelled

`components` says for each part why. In short:

- formatting, projection, prompts, pages, record types and clients of other systems
  (Grafana, metrics, the MCP surface, SNMP and SSH output, mail and Slack payloads): they
  keep no state, and what they return is an input of the models;
- cryptography: signatures, certificates and hashes are values that are equal or not;
- start-up, configuration and migration, which run before anything is concurrent;
- operations of the host on the probe: executor, self-update, inventory;
- functions of stores that nothing calls (revocation of tokens and certificates,
  template updates, purges of history);
- schedules and back-off durations: a due tick and a firing timer are inputs, so the
  models allow every timing.

Parts that never interact in the code are not composed. The compositions that do
exist are `AsyncJobs` (approval queue, job table, scheduler, endpoints, probe),
`ProbeChannel` (tracker, hub, connection, agent, rotation, policy) and `Runner` (manager,
broker, proxy, runtime).
