------------------------------- MODULE Runner -------------------------------
(***************************************************************************)
(* Runners: the life cycle kept by runner/manager.go, the single-use run   *)
(* tokens of tokenbroker, the containers of runner/container_backend.go    *)
(* with the goroutine that watches each of them, and the provider proxy    *)
(* that a runner calls with a token (server/runner_handlers.go,            *)
(* providerproxy).                                                         *)
(*                                                                         *)
(* A lifecycle call consumes its token and checks the transition under the *)
(* manager's mutex, works on the container without it, and applies the     *)
(* transition under it again.  Tokens and spend are in SQLite; runners,    *)
(* calls and watchers are lost by a restart, containers are not.           *)
(***************************************************************************)
EXTENDS Integers, FiniteSets, FiniteSetTheorems, TLAPS

CONSTANTS
    Runners,       \* runner ids (UUIDs, used once)
    Backends,      \* backends that are asked for
    Tokens,        \* run tokens
    Sessions,      \* sessions
    Audiences,     \* audiences tokens are issued for
    Calls,         \* lifecycle and proxy calls under way at once
    TTL,           \* life of a token
    MaxTime,       \* bound on the clock
    MaxBoxes,      \* bound on containers per runner
    MaxTokensPerRun, Usage,    \* spend limit and the usage a call may report
    RuntimeWraps   \* whether the runtime's errors keep context.Canceled (podman: no)

VARIABLES
    time,
    token,         \* token_broker_tokens
    runner,        \* Manager.runners
    call,          \* per call: what it is about to do
    running,       \* ContainerBackend.running: the container tracked for a runner, 0 if none
    box,           \* the live container with the runner's name, 0 if none
    made,          \* containers made so far
    watcher,       \* per runner and container: phase of the monitor goroutine
    spend,         \* recorded usage of a run
    uses,          \* history: steps a token permitted
    leaked         \* history: runners whose container was left behind by an error or a restart

vars == <<time, token, runner, call, running, box, made, watcher, spend, uses, leaked>>
containers == <<running, box, made, watcher, leaked>>

Boxes == 1 .. MaxBoxes
NoToken == [issued |-> FALSE]
Idle == [pc |-> "idle"]
Lifecycle == {"start", "stop", "destroy"}
Proxy == "provider-proxy"

(***************************************************************************)
(* Manager.                                                                *)
(***************************************************************************)
CanTransition(current, target) ==
    \/ target = "running" /\ current \in {"created", "stopped"}
    \/ target = "stopped" /\ current = "running"
    \/ target = "destroyed" /\ current \in {"created", "running", "stopped"}

AudienceTarget == [start |-> "running", stop |-> "stopped", destroy |-> "destroyed"]

IsAllowedAudience(a) == a \in Lifecycle \cup {Proxy}

NormalizeBackend(b) == IF b = "" THEN "host" ELSE b

CreateRunner(r, backend) ==
    /\ runner[r].state = "unused"
    /\ NormalizeBackend(backend) \in {"host", "sandbox"}
    /\ runner' = [runner EXCEPT ![r] = [state |-> "created", backend |-> NormalizeBackend(backend)]]
    /\ UNCHANGED <<time, token, call, containers, spend, uses>>

Exists(r) == runner[r].state \notin {"unused", "forgotten"}

\* Issue: no check of the runner's state; the token is bound to runner, audience and session.
IssueRunToken(t, r, a, s) ==
    /\ token[t] = NoToken
    /\ Exists(r)
    /\ IsAllowedAudience(a)
    /\ token' = [token EXCEPT ![t] = [issued |-> TRUE, runner |-> r, audience |-> a, session |-> s,
                                      expires |-> time + TTL, consumed |-> FALSE]]
    /\ UNCHANGED <<time, runner, call, containers, spend, uses>>

(***************************************************************************)
(* Broker.Validate with Consume, as all callers ask: the answer, and the   *)
(* token after it.  An expired token is marked consumed as well.           *)
(***************************************************************************)
Accepts(t, r, a, s) ==
    /\ token[t].issued
    /\ ~token[t].consumed
    /\ time <= token[t].expires
    /\ token[t].audience = a
    /\ token[t].runner = r
    /\ token[t].session = s

\* Mutant: an accepted token is not marked consumed.
MarkConsumedExpired(t, r, a, s) ==
    IF ~token[t].issued \/ token[t].consumed THEN token
    ELSE IF time > token[t].expires THEN [token EXCEPT ![t].consumed = TRUE]
    ELSE token

MarkConsumed(t, r, a, s) ==
    IF ~token[t].issued \/ token[t].consumed THEN token
    ELSE IF time > token[t].expires \/ Accepts(t, r, a, s) THEN [token EXCEPT ![t].consumed = TRUE]
    ELSE token

Validated(t, r, a, s) ==
    /\ token' = MarkConsumed(t, r, a, s)
    /\ uses' = IF Accepts(t, r, a, s) THEN [uses EXCEPT ![t] = @ + 1] ELSE uses

\* PrepareRunnerLifecycle: the token is spent even when the transition is refused.
PrepareRunnerLifecycle(c, r, a, t, s) ==
    /\ call[c] = Idle
    /\ Exists(r)
    /\ Validated(t, r, a, s)
    /\ call' = IF Accepts(t, r, a, s) /\ CanTransition(runner[r].state, AudienceTarget[a])
               THEN [call EXCEPT ![c] = [pc |-> IF runner[r].backend = "sandbox" THEN a ELSE "complete",
                                         runner |-> r, audience |-> a, was |-> runner[r].state, box |-> 0]]
               ELSE call
    /\ UNCHANGED <<time, runner, containers, spend>>

\* CompleteRunnerLifecycle: the state may have changed since the token was checked.
Completed(r, target) ==
    IF CanTransition(runner[r].state, target) THEN [runner EXCEPT ![r].state = target] ELSE runner

CompleteRunnerLifecycle(c) ==
    /\ call[c].pc = "complete"
    /\ runner' = Completed(call[c].runner, AudienceTarget[call[c].audience])
    /\ call' = [call EXCEPT ![c] = Idle]
    /\ UNCHANGED <<time, token, containers, spend, uses>>

(***************************************************************************)
(* The container backend.  A runtime command may fail; a removal that      *)
(* fails leaves the container to nobody.                                   *)
(***************************************************************************)
\* Mutant: the wait has no timeout.
WatchingForever(r, b) == watcher[r][b] = "canceled" \/ (watcher[r][b] = "waiting" /\ box[r] # b)

Watching(r, b) == watcher[r][b] \in {"waiting", "canceled"}

CancelWait(w, r, b) == IF b # 0 /\ w[r][b] = "waiting" THEN [w EXCEPT ![r][b] = "canceled"] ELSE w

\* Start: whatever has the runner's name is removed, then a container is run.  Run fails
\* while the name is taken, and may fail having made one; what is there then is removed,
\* and an error of either Remove is ignored.
StartRuns(c) ==
    LET r == call[c].runner
        new == made[r] + 1
    IN
    /\ call[c].pc = "start"
    /\ made[r] < MaxBoxes
    /\ \E left \in {0, box[r], new}, ok \in BOOLEAN :
          /\ ok => left = new
          /\ box' = [box EXCEPT ![r] = left]
          /\ made' = IF left = new THEN [made EXCEPT ![r] = new] ELSE made
          /\ leaked' = IF left = new /\ ~ ok THEN leaked \cup {r} ELSE leaked
          /\ call' = [call EXCEPT ![c] = IF ok THEN [@ EXCEPT !.pc = "register", !.box = new] ELSE Idle]
    /\ UNCHANGED <<time, token, runner, running, watcher, spend, uses>>

\* Start, continued: the new container is tracked and watched, or removed again.
StartRegisters(c) ==
    LET r == call[c].runner
        b == call[c].box
        taken == running[r] # 0
    IN
    /\ call[c].pc = "register"
    /\ running' = IF taken THEN running ELSE [running EXCEPT ![r] = b]
    /\ watcher' = IF taken THEN CancelWait(watcher, r, running[r])
                  ELSE [watcher EXCEPT ![r][b] = "waiting"]
    /\ \E ok \in {TRUE, ~taken} :
          /\ box' = IF taken /\ ok /\ box[r] = b THEN [box EXCEPT ![r] = 0] ELSE box
          /\ leaked' = IF ok THEN leaked ELSE leaked \cup {r}
    /\ call' = [call EXCEPT ![c] = IF taken THEN Idle ELSE [@ EXCEPT !.pc = "complete"]]
    /\ UNCHANGED <<time, token, runner, made, spend, uses>>

\* Stop: the watcher is told first; podman removes a container that stops.
StopContainer(c) ==
    LET r == call[c].runner IN
    /\ call[c].pc = "stop" \/ (call[c].pc = "destroy" /\ call[c].was = "running")
    /\ watcher' = CancelWait(watcher, r, running[r])
    /\ \E ok \in BOOLEAN :
          /\ box' = IF ok THEN [box EXCEPT ![r] = IF running[r] \in {0, @} THEN 0 ELSE @] ELSE box
          /\ call' = [call EXCEPT ![c].pc = IF ok THEN "teardown" ELSE "teardown_failing"]
    /\ UNCHANGED <<time, token, runner, running, made, leaked, spend, uses>>

\* Teardown of runner r: the tracked entry, or by name when there is none.
Teardown(r, w, ok) ==
    /\ running' = [running EXCEPT ![r] = 0]
    /\ watcher' = CancelWait(w, r, running[r])
    /\ box' = IF ok THEN [box EXCEPT ![r] = IF running[r] \in {0, @} THEN 0 ELSE @] ELSE box
    /\ leaked' = IF ok \/ box[r] = 0 THEN leaked ELSE leaked \cup {r}

TeardownContainer(c) ==
    LET r == call[c].runner IN
    /\ call[c].pc \in {"teardown", "teardown_failing"} \/ (call[c].pc = "destroy" /\ call[c].was # "running")
    /\ \E ok \in BOOLEAN :
          /\ Teardown(r, watcher, ok)
          /\ call' = [call EXCEPT ![c] = IF ok /\ @.pc # "teardown_failing"
                                         THEN [@ EXCEPT !.pc = "complete"] ELSE Idle]
    /\ UNCHANGED <<time, token, runner, made, spend, uses>>

(***************************************************************************)
(* monitor: the wait ends because the container did, on its timeout, or    *)
(* because it was canceled.  The canceled branch leaves the clean-up to    *)
(* the caller, if the runtime's error says so.                             *)
(***************************************************************************)
WaitEnds(r, b) ==
    /\ Watching(r, b)
    /\ watcher' = [watcher EXCEPT ![r][b] =
                      IF @ = "canceled" /\ RuntimeWraps THEN "gone" ELSE "cleaning"]
    /\ UNCHANGED <<time, token, runner, call, running, box, made, leaked, spend, uses>>

MonitorTearsDown(r, b) ==
    /\ watcher[r][b] = "cleaning"
    /\ \E ok \in BOOLEAN : Teardown(r, [watcher EXCEPT ![r][b] = "gone"], ok)
    /\ UNCHANGED <<time, token, runner, call, made, spend, uses>>

ContainerExits(r) ==
    /\ box[r] # 0
    /\ box' = [box EXCEPT ![r] = 0]
    /\ UNCHANGED <<time, token, runner, call, running, made, watcher, leaked, spend, uses>>

(***************************************************************************)
(* The provider proxy: the token is spent, the total is read, the provider *)
(* is called, the usage is recorded.                                       *)
(***************************************************************************)
\* Mutant: the limit is compared after the call only.
UnderLimitUnchecked(r, requested) == TRUE

UnderLimit(r, requested) ==
    /\ spend[r] < MaxTokensPerRun
    /\ requested > 0 => spend[r] + requested <= MaxTokensPerRun

ProxyAdmits(c, r, t, s, requested) ==
    /\ call[c] = Idle
    /\ Validated(t, r, Proxy, s)
    /\ call' = IF Accepts(t, r, Proxy, s) /\ UnderLimit(r, requested)
               THEN [call EXCEPT ![c] = [pc |-> "provider", runner |-> r]] ELSE call
    /\ UNCHANGED <<time, runner, containers, spend>>

ProxyRecords(c, n) ==
    /\ call[c].pc = "provider"
    /\ spend' = [spend EXCEPT ![call[c].runner] = @ + n]
    /\ call' = [call EXCEPT ![c] = Idle]
    /\ UNCHANGED <<time, token, runner, containers, uses>>

(***************************************************************************)
Init ==
    /\ time = 0
    /\ token = [t \in Tokens |-> NoToken]
    /\ runner = [r \in Runners |-> [state |-> "unused", backend |-> "host"]]
    /\ call = [c \in Calls |-> Idle]
    /\ running = [r \in Runners |-> 0] /\ box = [r \in Runners |-> 0] /\ made = [r \in Runners |-> 0]
    /\ watcher = [r \in Runners |-> [b \in Boxes |-> "none"]]
    /\ spend = [r \in Runners |-> 0]
    /\ uses = [t \in Tokens |-> 0]
    /\ leaked = {}

Restart ==
    /\ runner' = [r \in Runners |-> IF Exists(r) THEN [runner[r] EXCEPT !.state = "forgotten"] ELSE runner[r]]
    /\ call' = [c \in Calls |-> Idle]
    /\ running' = [r \in Runners |-> 0]
    /\ watcher' = [r \in Runners |-> [b \in Boxes |-> IF watcher[r][b] = "none" THEN "none" ELSE "gone"]]
    /\ leaked' = leaked \cup {r \in Runners : box[r] # 0}
    /\ UNCHANGED <<time, token, box, made, spend, uses>>

Tick == time < MaxTime /\ time' = time + 1 /\ UNCHANGED <<token, runner, call, containers, spend, uses>>

CallSteps(c) ==
    CompleteRunnerLifecycle(c) \/ StartRuns(c) \/ StartRegisters(c) \/ StopContainer(c) \/ TeardownContainer(c)

Next ==
    \/ \E r \in Runners, b \in Backends : CreateRunner(r, b)
    \/ \E t \in Tokens, r \in Runners, a \in Audiences, s \in Sessions : IssueRunToken(t, r, a, s)
    \/ \E c \in Calls, r \in Runners, t \in Tokens, s \in Sessions :
          \/ \E a \in Audiences \cap Lifecycle : PrepareRunnerLifecycle(c, r, a, t, s)
          \/ Proxy \in Audiences /\ \E n \in 0 .. Usage : ProxyAdmits(c, r, t, s, n)
    \/ \E c \in Calls : CallSteps(c) \/ \E n \in 0 .. Usage : ProxyRecords(c, n)
    \/ \E r \in Runners : ContainerExits(r) \/ \E b \in Boxes : WaitEnds(r, b) \/ MonitorTearsDown(r, b)
    \/ Restart \/ Tick

(***************************************************************************)
(* Handlers run to their end; a wait ends at the latest on its timeout.    *)
(***************************************************************************)
Fairness ==
    /\ \A c \in Calls : WF_vars(CallSteps(c))
    /\ \A r \in Runners, b \in Boxes : WF_vars(WaitEnds(r, b)) /\ WF_vars(MonitorTearsDown(r, b))

Spec == Init /\ [][Next]_vars /\ Fairness

\* "single-use lifecycle token" (IssueRunToken): a token permits one step, whichever
\* calls race for it, whether the step is then refused, and after restarts; a step is
\* permitted only to the runner and session the token was issued to.
TokensPermitOneStep == \A t \in Tokens : uses[t] <= 1 /\ (uses[t] = 1 => token[t].issued /\ token[t].consumed)

\* Calls that passed the check before others spent the budget go on, so a run may exceed
\* its limit, by what the calls under way at that moment use and no more.
SpendBounded == \A r \in Runners : spend[r] < MaxTokensPerRun + Usage * Cardinality(Calls)

\* A container comes to its end, whichever start, stop and destroy calls race and fail,
\* unless removing it failed or the control plane restarted.
ContainersEnd ==
    \A r \in Runners, b \in Boxes : box[r] = b ~> (box[r] # b \/ r \in leaked)

-----------------------------------------------------------------------------
(* Proofs, for any number of runners, tokens and calls.                    *)

\* A stored token k has all its fields, and has permitted nothing before it is marked
\* consumed, n being the steps it has permitted.
Stored(k) ==
    \E expiry : k \in [issued : {TRUE}, runner : Runners, audience : Audiences, session : Sessions,
                       expires : expiry, consumed : BOOLEAN]

Good(k, n) ==
    \/ k = NoToken /\ n = 0
    \/ Stored(k) /\ (n = 0 \/ (n = 1 /\ k.consumed))

TokensGood ==
    /\ token = [t \in Tokens |-> token[t]] /\ uses = [t \in Tokens |-> uses[t]]
    /\ \A t \in Tokens : Good(token[t], uses[t])

LEMMA OneTokenChanges ==
    ASSUME TokensGood, NEW t \in Tokens, NEW k, NEW n, Good(k, n),
           token' = [token EXCEPT ![t] = k], uses' = [uses EXCEPT ![t] = n]
    PROVE  TokensGood'
  <1>1. token' = [x \in Tokens |-> token'[x]] /\ uses' = [x \in Tokens |-> uses'[x]]
    BY DEF TokensGood
  <1>2. \A x \in Tokens : Good(token'[x], uses'[x])
    BY DEF TokensGood
  <1> QED BY <1>1, <1>2 DEF TokensGood

\* Validate marks a token consumed in the step in which it accepts it.
LEMMA ConsumedGood ==
    ASSUME NEW k, Good(k, 0), k # NoToken
    PROVE  Good([k EXCEPT !.consumed = TRUE], 0) /\ Good([k EXCEPT !.consumed = TRUE], 1)
  <1> DEFINE w == [k EXCEPT !.consumed = TRUE]
             Records(expiry) == [issued : {TRUE}, runner : Runners, audience : Audiences, session : Sessions,
                                 expires : expiry, consumed : BOOLEAN]
  <1>1. PICK expiry : k \in Records(expiry)
    BY DEF Good, Stored
  <1>2. w \in Records(expiry) /\ w.consumed = TRUE
    BY <1>1
  <1>3. Stored(w)
    BY <1>2, Zenon DEF Stored
  <1>4. Good(w, 0) /\ Good(w, 1)
    <2> HIDE DEF w
    <2> QED BY <1>2, <1>3 DEF Good
  <1> QED BY <1>4

LEMMA ValidatedGood ==
    ASSUME TokensGood, NEW t \in Tokens, NEW r, NEW a, NEW s, Validated(t, r, a, s)
    PROVE  TokensGood'
  <1> DEFINE k == [token[t] EXCEPT !.consumed = TRUE]
  <1>1. CASE token' = token /\ uses' = uses
    BY <1>1 DEF TokensGood
  <1>2. CASE ~(token' = token /\ uses' = uses)
    <2>1. token[t].issued /\ ~token[t].consumed
      BY <1>2 DEF Validated, MarkConsumed, Accepts
    <2>2. token[t] # NoToken /\ Good(token[t], uses[t])
      BY <2>1 DEF NoToken, TokensGood
    <2>3. uses[t] = 0
      BY <2>1, <2>2 DEF Good
    <2>4. Good(k, 0) /\ Good(k, 1)
      BY <2>2, <2>3, ConsumedGood
    <2>5. token' = [token EXCEPT ![t] = k]
      BY <1>2, <2>1 DEF Validated, MarkConsumed
    <2>6. uses' = [uses EXCEPT ![t] = 0] \/ uses' = [uses EXCEPT ![t] = 1]
      BY <2>3 DEF Validated, TokensGood
    <2> HIDE DEF k
    <2> QED BY <2>4, <2>5, <2>6, OneTokenChanges
  <1> QED BY <1>1, <1>2

LEMMA IssueGood ==
    ASSUME TokensGood, NEW t \in Tokens, NEW r \in Runners, NEW a \in Audiences, NEW s \in Sessions,
           IssueRunToken(t, r, a, s)
    PROVE  TokensGood'
  <1> DEFINE k == [issued |-> TRUE, runner |-> r, audience |-> a, session |-> s,
                   expires |-> time + TTL, consumed |-> FALSE]
  <1>1. k \in [issued : {TRUE}, runner : Runners, audience : Audiences, session : Sessions,
               expires : {time + TTL}, consumed : BOOLEAN]
    OBVIOUS
  <1>3. token[t] = NoToken /\ ~NoToken.issued /\ Good(token[t], uses[t])
    BY DEF TokensGood, IssueRunToken, NoToken
  <1>4. uses[t] = 0
    BY <1>3 DEF Good, Stored
  <1>5. Good(k, uses[t])
    BY <1>1, <1>4, Zenon DEF Good, Stored
  <1>2. token' = [token EXCEPT ![t] = k] /\ uses' = [uses EXCEPT ![t] = uses[t]]
    BY DEF IssueRunToken, TokensGood
  <1> HIDE DEF k
  <1> QED BY <1>2, <1>5, OneTokenChanges

LEMMA TokensStayGood == TokensGood /\ [Next]_vars => TokensGood'
  <1> SUFFICES ASSUME TokensGood, [Next]_vars PROVE TokensGood'
    OBVIOUS
  <1>1. ASSUME UNCHANGED <<token, uses>> PROVE TokensGood'
    BY <1>1 DEF TokensGood
  <1>2. ASSUME NEW c \in Calls, NEW r \in Runners, NEW t \in Tokens, NEW s \in Sessions,
               \/ \E a \in Audiences \cap Lifecycle : PrepareRunnerLifecycle(c, r, a, t, s)
               \/ \E n \in 0 .. Usage : ProxyAdmits(c, r, t, s, n)
        PROVE  TokensGood'
    BY <1>2, ValidatedGood DEF PrepareRunnerLifecycle, ProxyAdmits
  <1>3. CASE \E t \in Tokens, r \in Runners, a \in Audiences, s \in Sessions : IssueRunToken(t, r, a, s)
    BY <1>3, IssueGood
  <1>4. CASE \E r \in Runners, b \in Backends : CreateRunner(r, b)
    BY <1>1, <1>4 DEF CreateRunner
  <1>5. CASE \E c \in Calls : CallSteps(c) \/ \E n \in 0 .. Usage : ProxyRecords(c, n)
    BY <1>1, <1>5 DEF CallSteps, CompleteRunnerLifecycle, StartRuns, StartRegisters, StopContainer,
                      TeardownContainer, ProxyRecords
  <1>6. CASE \E r \in Runners : ContainerExits(r) \/ \E b \in Boxes : WaitEnds(r, b) \/ MonitorTearsDown(r, b)
    BY <1>1, <1>6 DEF ContainerExits, WaitEnds, MonitorTearsDown
  <1>7. CASE Restart \/ Tick \/ UNCHANGED vars
    BY <1>1, <1>7 DEF Restart, Tick, vars
  <1> QED BY <1>2, <1>3, <1>4, <1>5, <1>6, <1>7 DEF Next

\* A run token permits one step (IssueRunToken, Broker.Validate), for any number of tokens,
\* runners, racing calls and restarts.
THEOREM TokensAreSingleUse == Spec => []TokensPermitOneStep
  <1>1. Init => TokensGood
    BY DEF Init, TokensGood, Good
  <1>2. TokensGood => TokensPermitOneStep
    <2> SUFFICES ASSUME TokensGood, NEW t \in Tokens
                 PROVE  uses[t] <= 1 /\ (uses[t] = 1 => token[t].issued /\ token[t].consumed)
      BY DEF TokensPermitOneStep
    <2>1. Good(token[t], uses[t])
      BY DEF TokensGood
    <2>2. Stored(token[t]) => token[t].issued
      BY DEF Stored
    <2> QED BY <2>1, <2>2 DEF Good
  <1> QED BY <1>1, <1>2, TokensStayGood, PTL DEF Spec

LifecycleCalls(states, numbers) ==
    [pc : Lifecycle \cup {"register", "teardown", "teardown_failing", "complete"}, runner : Runners,
     audience : Lifecycle, was : states, box : numbers]

\* What a call about to do something is: a lifecycle call or one of the proxy.
Shaped(k) ==
    \/ k = Idle
    \/ k \in [pc : {"provider"}, runner : Runners]
    \/ \E states, numbers : k \in LifecycleCalls(states, numbers)

CallsShaped == call = [c \in Calls |-> call[c]] /\ \A c \in Calls : Shaped(call[c])

Proxying(r) == {c \in Calls : call[c].pc = "provider" /\ call[c].runner = r}

\* What the calls of run r under way may still add is within the bound, so that the call
\* that ends adds nothing to it.
SpendInv ==
    /\ CallsShaped
    /\ spend \in [Runners -> Nat]
    /\ \A r \in Runners : spend[r] + Usage * Cardinality(Proxying(r)) < MaxTokensPerRun + Usage * Cardinality(Calls)

SpendAssumption == MaxTokensPerRun \in Nat \ {0} /\ Usage \in Nat /\ IsFiniteSet(Calls)

LEMMA Products ==
    ASSUME NEW u \in Nat, NEW m \in Nat, NEW n \in Nat
    PROVE  u * m \in Nat /\ u * (m + 1) = u * m + u /\ (m <= n => u * m <= u * n)
  OBVIOUS

LEMMA ProxyingFinite ==
    ASSUME SpendAssumption, NEW r
    PROVE  /\ IsFiniteSet(Proxying(r)) /\ Cardinality(Proxying(r)) \in Nat
           /\ Cardinality(Calls) \in Nat /\ Cardinality(Proxying(r)) <= Cardinality(Calls)
  BY FS_Subset, FS_CardinalityType DEF SpendAssumption, Proxying

LEMMA ProxyingFinitePrimed ==
    ASSUME SpendAssumption, NEW r
    PROVE  /\ IsFiniteSet(Proxying(r)') /\ Cardinality(Proxying(r)') \in Nat
           /\ Cardinality(Proxying(r)') <= Cardinality(Calls)
  BY FS_Subset, FS_CardinalityType DEF SpendAssumption, Proxying

\* A step that lets no further call through to the provider and records nothing.
LEMMA NoMoreSpent ==
    ASSUME SpendAssumption, SpendInv, spend' = spend, CallsShaped',
           \A c \in Calls : call'[c].pc = "provider" => call'[c] = call[c]
    PROVE  SpendInv'
  <1>1. SUFFICES ASSUME NEW r \in Runners
                 PROVE  spend[r] + Usage * Cardinality(Proxying(r)') < MaxTokensPerRun + Usage * Cardinality(Calls)
    BY DEF SpendInv
  <1>2. Proxying(r)' \subseteq Proxying(r)
    BY DEF Proxying
  <1>3. Cardinality(Proxying(r)') <= Cardinality(Proxying(r))
    BY <1>2, ProxyingFinite, FS_Subset
  <1>4. Usage * Cardinality(Proxying(r)') <= Usage * Cardinality(Proxying(r))
    BY <1>3, Products, ProxyingFinite, ProxyingFinitePrimed DEF SpendAssumption
  <1>5. /\ Usage * Cardinality(Proxying(r)') \in Nat /\ Usage * Cardinality(Proxying(r)) \in Nat
        /\ Usage * Cardinality(Calls) \in Nat
    BY Products, ProxyingFinite, ProxyingFinitePrimed DEF SpendAssumption
  <1>6. /\ spend[r] \in Nat /\ MaxTokensPerRun \in Nat
        /\ spend[r] + Usage * Cardinality(Proxying(r)) < MaxTokensPerRun + Usage * Cardinality(Calls)
    BY DEF SpendInv, SpendAssumption
  <1> QED BY <1>4, <1>5, <1>6

LEMMA CallMoves ==
    ASSUME SpendAssumption, SpendInv, spend' = spend, NEW c \in Calls, NEW k, Shaped(k),
           k.pc # "provider", call' = [call EXCEPT ![c] = k]
    PROVE  SpendInv'
  <1>1. CallsShaped'
    BY DEF SpendInv, CallsShaped
  <1>2. \A d \in Calls : call'[d].pc = "provider" => call'[d] = call[d]
    BY DEF SpendInv, CallsShaped
  <1> QED BY <1>1, <1>2, NoMoreSpent

LEMMA PreparedSpend ==
    ASSUME SpendAssumption, SpendInv, NEW c \in Calls, NEW r \in Runners, NEW a \in Lifecycle, NEW t, NEW s,
           PrepareRunnerLifecycle(c, r, a, t, s)
    PROVE  SpendInv'
  <1> DEFINE k == [pc |-> IF runner[r].backend = "sandbox" THEN a ELSE "complete",
                   runner |-> r, audience |-> a, was |-> runner[r].state, box |-> 0]
  <1>1. CASE call' = call
    BY <1>1, NoMoreSpent DEF PrepareRunnerLifecycle, SpendInv, CallsShaped
  <1>2. CASE call' = [call EXCEPT ![c] = k]
    <2>1. k \in LifecycleCalls({runner[r].state}, {0}) /\ k.pc # "provider"
      BY DEF LifecycleCalls, Lifecycle
    <2> HIDE DEF k
    <2>2. Shaped(k)
      BY <2>1, Zenon DEF Shaped
    <2> QED BY <1>2, <2>1, <2>2, CallMoves DEF PrepareRunnerLifecycle
  <1> QED BY <1>1, <1>2 DEF PrepareRunnerLifecycle

LEMMA IdleSpend ==
    ASSUME SpendAssumption, SpendInv, NEW c \in Calls, spend' = spend, call' = [call EXCEPT ![c] = Idle]
    PROVE  SpendInv'
  BY CallMoves DEF Shaped, Idle

\* A lifecycle call goes on.
LEMMA PlaceSpend ==
    ASSUME SpendAssumption, SpendInv, NEW c \in Calls, call[c] # Idle, call[c].pc # "provider", spend' = spend,
           NEW b, NEW pc \in {"register", "teardown", "teardown_failing", "complete"},
           \/ call' = [call EXCEPT ![c] = [call[c] EXCEPT !.pc = pc, !.box = b]]
           \/ call' = [call EXCEPT ![c] = [call[c] EXCEPT !.pc = pc]]
    PROVE  SpendInv'
  <1> DEFINE v == [call[c] EXCEPT !.pc = pc, !.box = b]
             w == [call[c] EXCEPT !.pc = pc]
  <1>1. PICK states, numbers : call[c] \in LifecycleCalls(states, numbers)
    BY DEF SpendInv, CallsShaped, Shaped
  <1>2. v \in LifecycleCalls(states, numbers \cup {b}) /\ w \in LifecycleCalls(states, numbers)
    BY <1>1 DEF LifecycleCalls
  <1>3. v.pc = pc /\ w.pc = pc
    BY <1>1 DEF LifecycleCalls
  <1>4. call' = [call EXCEPT ![c] = v] \/ call' = [call EXCEPT ![c] = w]
    OBVIOUS
  <1> HIDE DEF v, w
  <1>5. Shaped(v) /\ Shaped(w)
    BY <1>2, Zenon DEF Shaped
  <1> QED BY <1>3, <1>4, <1>5, CallMoves

LEMMA CallStepSpend ==
    ASSUME SpendAssumption, SpendInv, NEW c \in Calls, CallSteps(c)
    PROVE  SpendInv'
  <1>1. CASE CompleteRunnerLifecycle(c)
    BY <1>1, IdleSpend DEF CompleteRunnerLifecycle
  <1>2. CASE StartRuns(c)
    <2>1. call[c].pc # "idle" /\ call[c].pc # "provider" /\ spend' = spend
      BY <1>2 DEF StartRuns
    <2>3. call[c] # Idle
      BY <2>1 DEF Idle
    <2>2. \/ call' = [call EXCEPT ![c] = Idle]
          \/ \E b : call' = [call EXCEPT ![c] = [call[c] EXCEPT !.pc = "register", !.box = b]]
      BY <1>2 DEF StartRuns
    <2>4. CASE call' = [call EXCEPT ![c] = Idle] BY <2>1, <2>4, IdleSpend
    <2> QED BY <2>1, <2>2, <2>3, <2>4, PlaceSpend, Zenon
  <1>3. CASE StartRegisters(c)
    <2>1. call[c].pc # "idle" /\ call[c].pc # "provider" /\ spend' = spend
      BY <1>3 DEF StartRegisters
    <2>3. call[c] # Idle
      BY <2>1 DEF Idle
    <2>2. call' = [call EXCEPT ![c] = Idle] \/ call' = [call EXCEPT ![c] = [call[c] EXCEPT !.pc = "complete"]]
      BY <1>3 DEF StartRegisters
    <2>4. CASE call' = [call EXCEPT ![c] = Idle] BY <2>1, <2>4, IdleSpend
    <2> QED BY <2>1, <2>2, <2>3, <2>4, PlaceSpend, Zenon
  <1>4. CASE StopContainer(c)
    <2>1. call[c].pc # "idle" /\ call[c].pc # "provider" /\ spend' = spend
      BY <1>4 DEF StopContainer
    <2>3. call[c] # Idle
      BY <2>1 DEF Idle
    <2>2. \/ call' = [call EXCEPT ![c] = [call[c] EXCEPT !.pc = "teardown"]]
          \/ call' = [call EXCEPT ![c] = [call[c] EXCEPT !.pc = "teardown_failing"]]
      BY <1>4 DEF StopContainer
    <2> QED BY <2>1, <2>2, <2>3, PlaceSpend, Zenon
  <1>5. CASE TeardownContainer(c)
    <2>1. call[c].pc # "idle" /\ call[c].pc # "provider" /\ spend' = spend
      BY <1>5 DEF TeardownContainer
    <2>3. call[c] # Idle
      BY <2>1 DEF Idle
    <2>2. call' = [call EXCEPT ![c] = Idle] \/ call' = [call EXCEPT ![c] = [call[c] EXCEPT !.pc = "complete"]]
      BY <1>5 DEF TeardownContainer
    <2>4. CASE call' = [call EXCEPT ![c] = Idle] BY <2>1, <2>4, IdleSpend
    <2> QED BY <2>1, <2>2, <2>3, <2>4, PlaceSpend, Zenon
  <1> QED BY <1>1, <1>2, <1>3, <1>4, <1>5 DEF CallSteps

LEMMA SpentWithin ==
    ASSUME SpendAssumption, NEW m \in Nat, NEW n \in Nat, NEW x \in Nat, m <= n, x < MaxTokensPerRun
    PROVE  x + Usage * m < MaxTokensPerRun + Usage * n
  <1>1. Usage * m \in Nat /\ Usage * n \in Nat /\ Usage * m <= Usage * n
    BY Products DEF SpendAssumption
  <1> QED BY <1>1 DEF SpendAssumption

\* A call is let through to the provider: the run is below its limit.
LEMMA AdmittedSpend ==
    ASSUME SpendAssumption, SpendInv, NEW c \in Calls, NEW r \in Runners, NEW t, NEW s, NEW n,
           ProxyAdmits(c, r, t, s, n)
    PROVE  SpendInv'
  <1> DEFINE k == [pc |-> "provider", runner |-> r]
  <1>1. CASE call' = call
    BY <1>1, NoMoreSpent DEF ProxyAdmits, SpendInv, CallsShaped
  <1>2. CASE call' = [call EXCEPT ![c] = k] /\ UnderLimit(r, n)
    <2>1. CallsShaped'
      BY <1>2 DEF SpendInv, CallsShaped, Shaped
    <2>2. ASSUME NEW x \in Runners
          PROVE  spend[x] + Usage * Cardinality(Proxying(x)') < MaxTokensPerRun + Usage * Cardinality(Calls)
      <3>1. CASE x = r
        BY <1>2, <3>1, SpentWithin, ProxyingFinite, ProxyingFinitePrimed DEF UnderLimit, SpendInv
      <3>2. CASE x # r
        <4>1. call[c] = Idle /\ \A d \in Calls : call'[d] = IF d = c THEN k ELSE call[d]
          BY <1>2 DEF ProxyAdmits, SpendInv, CallsShaped
        <4>2. Proxying(x)' = Proxying(x)
          BY <3>2, <4>1 DEF Proxying, Idle
        <4> QED BY <4>2 DEF SpendInv
      <3> QED BY <3>1, <3>2
    <2>3. spend' = spend
      BY DEF ProxyAdmits
    <2> QED BY <2>1, <2>2, <2>3 DEF SpendInv
  <1> QED BY <1>1, <1>2 DEF ProxyAdmits

\* A call records what it used: one call less is under way.
LEMMA RecordedSpend ==
    ASSUME SpendAssumption, SpendInv, NEW c \in Calls, NEW n \in 0 .. Usage, ProxyRecords(c, n)
    PROVE  SpendInv'
  <1>1. PICK r \in Runners : r = call[c].runner /\ call[c].pc = "provider"
    BY DEF ProxyRecords, SpendInv, CallsShaped, Shaped, LifecycleCalls, Lifecycle, Idle
  <1> DEFINE m == Cardinality(Proxying(r)')
  <1>2. \A d \in Calls : call'[d] = IF d = c THEN Idle ELSE call[d]
    BY DEF ProxyRecords, SpendInv, CallsShaped
  <1>3. CallsShaped'
    BY DEF ProxyRecords, SpendInv, CallsShaped, Shaped
  <1>4. spend' \in [Runners -> Nat] /\ \A x \in Runners : spend'[x] = IF x = r THEN spend[r] + n ELSE spend[x]
    BY <1>1 DEF ProxyRecords, SpendInv, SpendAssumption
  <1>5. Proxying(r)' = Proxying(r) \ {c} /\ c \in Proxying(r)
    BY <1>1, <1>2 DEF Proxying, Idle
  <1>6. Cardinality(Proxying(r)) = m + 1 /\ m \in Nat
    <2>1. Cardinality(Proxying(r) \ {c}) = Cardinality(Proxying(r)) - 1
      BY <1>5, ProxyingFinite, FS_RemoveElement
    <2>2. m = Cardinality(Proxying(r) \ {c}) /\ m \in Nat
      BY <1>5, ProxyingFinitePrimed
    <2> HIDE DEF m
    <2> QED BY <2>1, <2>2, ProxyingFinite
  <1>7. spend'[r] + Usage * m < MaxTokensPerRun + Usage * Cardinality(Calls)
    <2>1. Usage * (m + 1) = Usage * m + Usage /\ Usage * m \in Nat /\ Usage * Cardinality(Calls) \in Nat
      BY <1>6, Products, ProxyingFinite DEF SpendAssumption
    <2>2. spend[r] + Usage * (m + 1) < MaxTokensPerRun + Usage * Cardinality(Calls)
      BY <1>1, <1>6 DEF SpendInv
    <2>3. spend'[r] = spend[r] + n /\ spend[r] \in Nat /\ n \in Nat /\ n <= Usage
      BY <1>1, <1>4 DEF SpendInv, SpendAssumption
    <2> HIDE DEF m
    <2> QED BY <2>1, <2>2, <2>3 DEF SpendAssumption
  <1>8. ASSUME NEW x \in Runners, x # r PROVE Proxying(x)' = Proxying(x)
    BY <1>1, <1>2, <1>8 DEF Proxying, Idle
  <1>9. ASSUME NEW x \in Runners
        PROVE  spend'[x] + Usage * Cardinality(Proxying(x)') < MaxTokensPerRun + Usage * Cardinality(Calls)
    BY <1>4, <1>7, <1>8 DEF SpendInv
  <1> QED BY <1>3, <1>4, <1>9 DEF SpendInv

LEMMA SpendStep == SpendAssumption /\ SpendInv /\ [Next]_vars => SpendInv'
  <1> SUFFICES ASSUME SpendAssumption, SpendInv, [Next]_vars PROVE SpendInv'
    OBVIOUS
  <1>1. ASSUME UNCHANGED <<call, spend>> PROVE SpendInv'
    BY <1>1, NoMoreSpent DEF SpendInv, CallsShaped
  <1>2. CASE \E c \in Calls, r \in Runners, t \in Tokens, s \in Sessions :
               \/ \E a \in Audiences \cap Lifecycle : PrepareRunnerLifecycle(c, r, a, t, s)
               \/ \E n \in 0 .. Usage : ProxyAdmits(c, r, t, s, n)
    BY <1>2, PreparedSpend, AdmittedSpend
  <1>3. CASE \E c \in Calls : CallSteps(c) \/ \E n \in 0 .. Usage : ProxyRecords(c, n)
    BY <1>3, CallStepSpend, RecordedSpend
  <1>4. CASE \/ \E r \in Runners, b \in Backends : CreateRunner(r, b)
             \/ \E t \in Tokens, r \in Runners, a \in Audiences, s \in Sessions : IssueRunToken(t, r, a, s)
             \/ Tick \/ UNCHANGED vars
    BY <1>1, <1>4 DEF CreateRunner, IssueRunToken, Tick, vars
  <1>5. CASE \E r \in Runners : ContainerExits(r) \/ \E b \in Boxes : WaitEnds(r, b) \/ MonitorTearsDown(r, b)
    BY <1>1, <1>5 DEF ContainerExits, WaitEnds, MonitorTearsDown
  <1>6. CASE Restart
    <2>1. CallsShaped' /\ spend' = spend
      BY <1>6 DEF Restart, CallsShaped, Shaped
    <2>2. \A c \in Calls : call'[c].pc # "provider"
      BY <1>6 DEF Restart, Idle
    <2> QED BY <2>1, <2>2, NoMoreSpent
  <1> QED BY <1>2, <1>3, <1>4, <1>5, <1>6 DEF Next

\* A run exceeds its token limit by less than what the calls under way at once may use
\* (providerproxy checks the total before the call and records the usage after it), for
\* any limit, any usage and any number of runs and calls.
THEOREM SpendStaysBounded ==
    ASSUME SpendAssumption
    PROVE  Spec => []SpendBounded
  <1>1. Init => SpendInv
    <2> SUFFICES ASSUME Init PROVE SpendInv
      OBVIOUS
    <2>1. CallsShaped /\ \A r : Proxying(r) = {}
      BY DEF Init, CallsShaped, Shaped, Proxying, Idle
    <2>2. spend \in [Runners -> Nat] /\ \A r \in Runners : spend[r] = 0
      BY DEF Init
    <2>3. Cardinality({}) = 0 /\ Cardinality(Calls) \in Nat
      BY FS_EmptySet, FS_CardinalityType DEF SpendAssumption
    <2>4. 0 + Usage * 0 < MaxTokensPerRun + Usage * Cardinality(Calls)
      BY <2>3, SpentWithin DEF SpendAssumption
    <2> QED BY <2>1, <2>2, <2>3, <2>4 DEF SpendInv
  <1>2. SpendInv => SpendBounded
    <2> SUFFICES ASSUME SpendInv, NEW r \in Runners
                 PROVE  spend[r] < MaxTokensPerRun + Usage * Cardinality(Calls)
      BY DEF SpendBounded
    <2>1. Usage * Cardinality(Proxying(r)) \in Nat /\ Usage * Cardinality(Calls) \in Nat
      BY Products, ProxyingFinite DEF SpendAssumption
    <2> QED BY <2>1 DEF SpendInv, SpendAssumption
  <1>3. SpendInv /\ [Next]_vars => SpendInv'
    BY SpendStep
  <1> QED BY <1>1, <1>2, <1>3, PTL DEF Spec
=============================================================================
