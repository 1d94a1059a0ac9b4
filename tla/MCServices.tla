------------------------------ MODULE MCServices ------------------------------
(***************************************************************************)
(* The goroutines that must come to an end, on small instances: a          *)
(* behaviour is one of a single part, chosen at the start.                 *)
(*                                                                         *)
(*   approvals  ApprovalQueue: two people, one of whom signs with two      *)
(*              spellings, a poller and the reaper                         *)
(*   calls      ProbeChannel: a call, two connections                      *)
(*   alerts     Alerts: a rule that is enabled and disabled                *)
(*   runner     Runner: two calls on a sandboxed runner, two containers    *)
(*   webhooks   Notifications: two events, a webhook, a subscriber         *)
(***************************************************************************)
EXTENDS ApprovalQueue, TLC

CONSTANTS alice, Alice, bob, r1, r2, w1

MCActors == {alice, Alice, bob}
MCPerson == (alice :> "alice") @@ (Alice :> "alice") @@ (bob :> "bob")
MCIds == {r1, r2}
MCWaiters == {w1}

VARIABLES
    part,
    hub, conn, down, up, link, inbox, agent, call, chan, pending, delivering, key, rotation, policy,
    push, lost, crossed,
    alertClock, rules, channels, probes, open, firing, alertPending, pass, deleting, dropping, sending,
    time, token, runner, runnerCall, running, box, made, watcher, spend, uses, leaked,
    published, chans, hooks, table, sends, history, outcome, notified, restarts

callVars == <<hub, conn, down, up, link, inbox, agent, call, chan, pending, delivering, key, rotation, policy,
              push, lost, crossed>>
alertVars == <<alertClock, rules, channels, probes, open, firing, alertPending, pass, deleting, dropping, sending>>
runnerVars == <<time, token, runner, runnerCall, running, box, made, watcher, spend, uses, leaked>>
webhookVars == <<published, chans, hooks, table, sends, history, outcome, notified, restarts>>
mcVars == <<part, vars, callVars, alertVars, runnerVars, webhookVars>>

Commands == INSTANCE ProbeChannel WITH
    Calls <- {"c1"}, RequestId <- [c \in {"c1"} |-> "i1"], Rotators <- {}, Pushes <- {},
    MaxConns <- 2, InboxCap <- 1, SaveMayFail <- FALSE

DiskRule(enabled) ==
    [named |-> TRUE, enabled |-> enabled, type |-> "disk_threshold", threshold |-> 80, dur |-> 1,
     tags |-> {}, actions |-> {}]

Alerting == INSTANCE Alerts WITH
    RuleIds <- {1}, Probes <- {"p1"}, Channels <- {}, Webhooks <- {},
    RuleForms <- {DiskRule(TRUE), DiskRule(FALSE)}, ChannelForms <- {}, MaxTime <- 1,
    Heartbeats <- {[used |-> 90, total |-> 100, load |-> 0, cpus |-> 1, tags |-> {}]},
    time <- alertClock, pending <- alertPending

Sandboxed == INSTANCE Runner WITH
    Runners <- {"r1"}, Backends <- {"sandbox"}, Tokens <- {"t1", "t2", "t3"}, Sessions <- {"s1"},
    Audiences <- {"start", "stop", "destroy"}, Calls <- {"c1", "c2"}, TTL <- 0, MaxTime <- 0, MaxBoxes <- 2,
    MaxTokensPerRun <- 2, Usage <- 2, RuntimeWraps <- FALSE, call <- runnerCall

Webhooks == INSTANCE Notifications WITH
    Types <- {"a"}, Hooks <- {"h1"}, Clients <- {"c1"}, BufferSize <- 1, HistoryLimit <- 1, MaxEvents <- 2,
    MaxRestarts <- 1

MCInit ==
    /\ part \in {"approvals", "calls", "alerts", "runner", "webhooks"}
    /\ Init /\ Commands!Init /\ Alerting!Init /\ Sandboxed!Init /\ Webhooks!Init

MCNext ==
    /\ UNCHANGED part
    /\ \/ part = "approvals" /\ Next /\ UNCHANGED <<callVars, alertVars, runnerVars, webhookVars>>
       \/ part = "calls" /\ Commands!Next /\ UNCHANGED <<vars, alertVars, runnerVars, webhookVars>>
       \/ part = "alerts" /\ Alerting!Next /\ UNCHANGED <<vars, callVars, runnerVars, webhookVars>>
       \/ part = "runner" /\ Sandboxed!Next /\ UNCHANGED <<vars, callVars, alertVars, webhookVars>>
       \/ part = "webhooks" /\ Webhooks!Next /\ UNCHANGED <<vars, callVars, alertVars, runnerVars>>

\* The fairness of the part that runs, as its own module states it.
MCFairness ==
    /\ WF_vars(part = "approvals" /\ Sweep)
    /\ WF_vars(part = "approvals" /\ Tick)
    /\ \A w \in MCWaiters : WF_vars(part = "approvals" /\ Poll(w))
    /\ WF_callVars(part = "calls" /\ (Commands!DispatchSent("c1") \/ Commands!DispatchFails("c1")))
    /\ WF_callVars(part = "calls" /\ (Commands!ReceiveResult("c1") \/ Commands!WaitEnds("c1", "timeout")))
    /\ \A c \in {"c1", "c2"} : WF_runnerVars(part = "runner" /\ Sandboxed!CallSteps(c))
    /\ \A n \in 1..2 :
           /\ WF_callVars(part = "calls" /\ Commands!Accept(n)) /\ WF_callVars(part = "calls" /\ Commands!Teardown(n))
           /\ WF_callVars(part = "calls" /\ Commands!Deliver(n)) /\ WF_callVars(part = "calls" /\ Commands!Dial(n))
           /\ WF_runnerVars(part = "runner" /\ Sandboxed!WaitEnds("r1", n))
           /\ WF_runnerVars(part = "runner" /\ Sandboxed!MonitorTearsDown("r1", n))
    /\ WF_callVars(part = "calls" /\ Commands!ProbeLosesLink)
    /\ WF_alertVars(part = "alerts" /\ Alerting!EvaluateReads)
    /\ SF_alertVars(part = "alerts" /\ Alerting!Evaluate(TRUE))
    /\ WF_webhookVars(part = "webhooks" /\ Webhooks!Notify)
    /\ \A n \in 1..2 :
           WF_webhookVars(part = "webhooks"
                          /\ \E s \in sends, ok \in BOOLEAN : s.event = n /\ s.hook = "h1" /\ Webhooks!Send(s, ok))

MCSpec == MCInit /\ [][MCNext]_mcVars /\ MCFairness

-----------------------------------------------------------------------------
(* Properties; those of the approval queue are ApprovalQueue's own.        *)

\* A command call returns: with a result, a timeout or an error, whatever becomes of the
\* connection and the probe.
EveryCallReturns == Commands!EveryCallReturns

\* alerts/engine.go: an alert whose rule is gone or disabled, or whose probe is gone, is
\* resolved at last, although evaluation, edits and restarts interleave.
AlertsResolve == Alerting!AlertsResolve

\* runner/container_backend.go: a container ends - it is stopped, torn down by its
\* monitor or leaves by itself - unless an error or a restart took it out of sight.
ContainersEnd == Sandboxed!ContainersEnd

\* webhook/notifier.go: a delivery that Notify started ends in the history, or in a
\* restart.
NotifiedHooksAreSettled == Webhooks!NotifiedHooksAreSettled
=============================================================================
