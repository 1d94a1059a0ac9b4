---------------------------- MODULE ProbeChannel ----------------------------
(***************************************************************************)
(* One probe and the control plane: the hub of websocket connections        *)
(* (websocket/hub.go), the tracker of pending commands (cmdtracker), the    *)
(* dispatch service (core/commanddispatch), the probe's connection loop     *)
(* (probe/connection), its agent (probe/agent) and key rotation and policy  *)
(* push (server/routes.go).                                                 *)
(*                                                                          *)
(* A connection carries messages in both directions and may die at any      *)
(* moment; what it still carries is then read or lost.  Calls may share a   *)
(* request id: NextCommandRequestID draws from 100000 values and clients    *)
(* may choose one.                                                          *)
(***************************************************************************)
EXTENDS Integers, Sequences, FiniteSets, SequencesExt

CONSTANTS
    Calls,         \* command calls that wait for a result
    RequestId,     \* request id of each call
    Rotators,      \* key rotation requests
    Pushes,        \* policy templates that are applied
    MaxConns,      \* bound on connections over time
    InboxCap,      \* capacity of the probe's inbox (64)
    SaveMayFail    \* the probe's configuration file may be unwritable

VARIABLES
    hub,           \* the registered connection, 0 if none
    conn,          \* per connection: [phase, open]
    down, up,      \* per connection: messages to the probe, to the server
    link,          \* the probe's connection, 0 if none
    inbox,         \* messages read and not yet handled by the agent
    agent,         \* the command being executed, or Idle
    call,          \* per call: state of DispatchWithPolicy
    chan,          \* per call: its result channel
    pending,       \* the tracker: request id -> call
    delivering,    \* per connection: the result its read loop is delivering
    key,           \* [server, probe]
    rotation,      \* per rotation request: [pc, prev]
    policy,        \* [server, probe]
    push,          \* per template that is applied: how far the request is
    lost,          \* history: kinds of configuration messages that were lost
    crossed        \* history: kinds of configuration changes of which two were made at a time

vars == <<hub, conn, down, up, link, inbox, agent, call, chan, pending, delivering, key, rotation, policy, push, lost,
          crossed>>

Conns == 1 .. MaxConns
RequestIds == {RequestId[c] : c \in Calls}
None == "none"
Idle == [type |-> "idle"]
NoResult == [call |-> None, kind |-> "none"]

Command(c) == [type |-> "command", call |-> c]
Rotation(k) == [type |-> "key_rotation", key |-> k]
PolicyUpdate(l) == [type |-> "policy_update", level |-> l]
Result(c) == [call |-> c, kind |-> "result"]
Expired(c) == [call |-> c, kind |-> "expired"]

Init ==
    /\ hub = 0 /\ link = 0
    /\ conn = [c \in Conns |-> [phase |-> "unused", open |-> FALSE]]
    /\ down = [c \in Conns |-> <<>>] /\ up = [c \in Conns |-> <<>>]
    /\ inbox = <<>> /\ agent = Idle
    /\ call = [c \in Calls |-> "idle"]
    /\ chan = [c \in Calls |-> NoResult]
    /\ pending = [i \in RequestIds |-> None]
    /\ delivering = [c \in Conns |-> NoResult]
    /\ key = [server |-> "initial", probe |-> "initial"]
    /\ rotation = [r \in Rotators |-> [pc |-> "idle", prev |-> "initial"]]
    /\ policy = [server |-> "observe", probe |-> "observe"]
    /\ push = [l \in Pushes |-> "idle"]
    /\ lost = {} /\ crossed = {}

ConnVars == <<hub, conn, down, up, link>>
CallVars == <<call, chan, pending>>
ConfigVars == <<key, rotation, policy, push, crossed>>

Kinds(msgs) == {m.type : m \in Range(msgs)} \ {"command"}

(***************************************************************************)
(* Connections.                                                             *)
(***************************************************************************)
\* connectAndServe and the handshake: the stored key is compared with the probe's.
Dial(c) ==
    /\ link = 0
    /\ conn[c].phase = "unused"
    /\ \A d \in Conns : d < c => conn[d].phase # "unused"
    /\ key.probe = key.server
    /\ conn' = [conn EXCEPT ![c] = [phase |-> "upgraded", open |-> TRUE]]
    /\ link' = c
    /\ UNCHANGED <<hub, down, up, inbox, agent, CallVars, delivering, ConfigVars, lost>>

\* The registration closes the connection it replaces.
Accept(c) ==
    /\ conn[c].phase = "upgraded"
    /\ conn' = [d \in Conns |-> IF d = c THEN [conn[c] EXCEPT !.phase = "serving"]
                                ELSE IF d = hub THEN [conn[d] EXCEPT !.open = FALSE]
                                ELSE conn[d]]
    /\ hub' = c
    /\ UNCHANGED <<down, up, link, inbox, agent, CallVars, delivering, ConfigVars, lost>>

\* The network, a read deadline or the peer ends the connection.
ConnectionDies(c) ==
    /\ conn[c].open
    /\ conn' = [conn EXCEPT ![c].open = FALSE]
    /\ UNCHANGED <<hub, down, up, link, inbox, agent, CallVars, delivering, ConfigVars, lost>>

\* Mutant: the teardown removes whatever connection is registered.
TeardownAny(c) ==
    /\ conn[c].phase = "serving" /\ ~conn[c].open /\ delivering[c] = NoResult
    /\ conn' = [conn EXCEPT ![c].phase = "gone"]
    /\ hub' = 0
    /\ up' = [up EXCEPT ![c] = <<>>]
    /\ UNCHANGED <<down, link, inbox, agent, CallVars, delivering, ConfigVars, lost>>

\* The read loop ends; only the handler's own registration is removed.
Teardown(c) ==
    /\ conn[c].phase = "serving" /\ ~conn[c].open /\ delivering[c] = NoResult
    /\ conn' = [conn EXCEPT ![c].phase = "gone"]
    /\ hub' = IF hub = c THEN 0 ELSE hub
    /\ up' = [up EXCEPT ![c] = <<>>]
    /\ UNCHANGED <<down, link, inbox, agent, CallVars, delivering, ConfigVars, lost>>

\* The probe notices, forgets the connection and will dial again.
ProbeLosesLink ==
    /\ link # 0 /\ ~conn[link].open
    /\ lost' = lost \cup Kinds(down[link])
    /\ down' = [down EXCEPT ![link] = <<>>]
    /\ link' = 0
    /\ UNCHANGED <<hub, conn, up, inbox, agent, CallVars, delivering, ConfigVars>>

Writable == {c \in Conns : conn[c].open}

\* SendTo fails without a registered connection; a write to a dying one fails
\* or is lost.
SendOk(m) ==
    /\ hub # 0
    /\ IF hub \in Writable
       THEN down' = [down EXCEPT ![hub] = Append(@, m)] /\ UNCHANGED lost
       ELSE lost' = lost \cup Kinds(<<m>>) /\ UNCHANGED down

SendFails == hub \notin Writable /\ UNCHANGED <<down, lost>>

(***************************************************************************)
(* The tracker and DispatchWithPolicy.                                      *)
(***************************************************************************)
Track(c) ==
    /\ call[c] = "idle"
    /\ call' = [call EXCEPT ![c] = "tracked"]
    /\ pending' = [pending EXCEPT ![RequestId[c]] = c]
    /\ UNCHANGED <<ConnVars, inbox, agent, chan, delivering, ConfigVars, lost>>

\* Cancel: closes the channel of the entry under this id, whoever made it.
Cancel(id) ==
    /\ chan' = IF pending[id] = None THEN chan
               ELSE [chan EXCEPT ![pending[id]] = [call |-> pending[id], kind |-> "closed"]]
    /\ pending' = [pending EXCEPT ![id] = None]

DispatchSent(c) ==
    /\ call[c] = "tracked"
    /\ SendOk(Command(c))
    /\ call' = [call EXCEPT ![c] = "waiting"]
    /\ UNCHANGED <<hub, conn, up, link, inbox, agent, chan, pending, delivering, ConfigVars>>

DispatchFails(c) ==
    /\ call[c] = "tracked"
    /\ SendFails
    /\ Cancel(RequestId[c])
    /\ call' = [call EXCEPT ![c] = "dispatch_error"]
    /\ UNCHANGED <<hub, conn, up, link, inbox, agent, delivering, ConfigVars>>

\* waitForResult: a result, a closed channel (canceled), the timer, the context.
ReceiveResult(c) ==
    /\ call[c] = "waiting" /\ chan[c] # NoResult
    /\ call' = [call EXCEPT ![c] = IF chan[c].kind = "closed" THEN "canceled" ELSE "completed"]
    /\ UNCHANGED <<ConnVars, inbox, agent, chan, pending, delivering, ConfigVars, lost>>

\* Mutant: without a default the timer never fires.
WaitEndsOnlyByContext(c, outcome) ==
    /\ call[c] = "waiting" /\ outcome = "canceled" /\ pending[RequestId[c]] # c
    /\ Cancel(RequestId[c])
    /\ call' = [call EXCEPT ![c] = outcome]
    /\ UNCHANGED <<ConnVars, inbox, agent, delivering, ConfigVars, lost>>

WaitEnds(c, outcome) ==
    /\ call[c] = "waiting"
    /\ Cancel(RequestId[c])
    /\ call' = [call EXCEPT ![c] = outcome]
    /\ UNCHANGED <<ConnVars, inbox, agent, delivering, ConfigVars, lost>>

\* expire: the reaper sends under the lock and would block on a full channel.
Expire(id) ==
    /\ pending[id] # None
    /\ chan[pending[id]] = NoResult
    /\ chan' = [chan EXCEPT ![pending[id]] = Expired(pending[id])]
    /\ pending' = [pending EXCEPT ![id] = None]
    /\ UNCHANGED <<ConnVars, inbox, agent, call, delivering, ConfigVars, lost>>

(***************************************************************************)
(* The server's read loop: Complete takes the entry under the lock and      *)
(* sends to its channel after releasing it.                                 *)
(***************************************************************************)
\* Mutant: the entry is left in the tracker.
CompleteKeepsEntry(c, r) ==
    /\ delivering' = [delivering EXCEPT ![c] = [call |-> pending[RequestId[r.call]], kind |-> "result", of |-> r.call]]
    /\ UNCHANGED pending

\* Complete: the entry under the result's request id is removed and will be sent to.
Complete(c, r) ==
    /\ delivering' = [delivering EXCEPT ![c] = [call |-> pending[RequestId[r.call]], kind |-> "result", of |-> r.call]]
    /\ pending' = [pending EXCEPT ![RequestId[r.call]] = None]

CommandResult(c) ==
    /\ conn[c].phase = "serving" /\ delivering[c] = NoResult
    /\ up[c] # <<>>
    /\ up' = [up EXCEPT ![c] = Tail(@)]
    /\ IF pending[RequestId[Head(up[c]).call]] = None THEN UNCHANGED <<delivering, pending>>
       ELSE Complete(c, Head(up[c]))
    /\ UNCHANGED <<hub, conn, down, link, inbox, agent, call, chan, ConfigVars, lost>>

Deliver(c) ==
    /\ delivering[c] # NoResult
    /\ chan[delivering[c].call] = NoResult
    /\ chan' = [chan EXCEPT ![delivering[c].call] = Result(delivering[c].of)]
    /\ delivering' = [delivering EXCEPT ![c] = NoResult]
    /\ UNCHANGED <<ConnVars, inbox, agent, call, pending, ConfigVars, lost>>

(***************************************************************************)
(* The probe.                                                               *)
(***************************************************************************)
\* The connection's reader drops what does not fit into the inbox.
ProbeReads ==
    /\ link # 0 /\ down[link] # <<>>
    /\ down' = [down EXCEPT ![link] = Tail(@)]
    /\ IF Len(inbox) < InboxCap
       THEN inbox' = Append(inbox, Head(down[link])) /\ UNCHANGED lost
       ELSE lost' = lost \cup Kinds(<<Head(down[link])>>) /\ UNCHANGED inbox
    /\ UNCHANGED <<hub, conn, up, link, agent, CallVars, delivering, ConfigVars>>

\* The agent handles one message at a time; a command occupies it until it ends.
BeginCommand ==
    /\ agent = Idle /\ inbox # <<>> /\ Head(inbox).type = "command"
    /\ agent' = Head(inbox) /\ inbox' = Tail(inbox)
    /\ UNCHANGED <<ConnVars, CallVars, delivering, ConfigVars, lost>>

\* The answer goes out on the connection of the moment, or is only logged.
EndCommand ==
    /\ agent.type = "command"
    /\ agent' = Idle
    /\ up' = IF link # 0 /\ conn[link].open THEN [up EXCEPT ![link] = Append(@, Result(agent.call))] ELSE up
    /\ UNCHANGED <<hub, conn, down, link, inbox, CallVars, delivering, ConfigVars, lost>>

HandleKeyRotation ==
    /\ agent = Idle /\ inbox # <<>> /\ Head(inbox).type = "key_rotation"
    /\ inbox' = Tail(inbox)
    /\ \/ key' = [key EXCEPT !.probe = Head(inbox).key] /\ UNCHANGED lost
       \/ SaveMayFail /\ lost' = lost \cup {"key_rotation"} /\ UNCHANGED key
    /\ UNCHANGED <<ConnVars, agent, CallVars, delivering, rotation, policy, push, crossed>>

HandlePolicyUpdate ==
    /\ agent = Idle /\ inbox # <<>> /\ Head(inbox).type = "policy_update"
    /\ inbox' = Tail(inbox)
    /\ policy' = [policy EXCEPT !.probe = Head(inbox).level]
    /\ UNCHANGED <<ConnVars, agent, CallVars, delivering, key, rotation, push, lost, crossed>>

(***************************************************************************)
(* handleRotateKey and ApplyPolicyTemplate.                                 *)
(***************************************************************************)
Rotating(r) == rotation[r].pc \in {"read", "set"}
Pushing(l) == push[l] = "set"

\* The key to go back to is read before the new one is stored.
RotateRead(r) ==
    /\ rotation[r].pc = "idle"
    /\ rotation' = [rotation EXCEPT ![r] = [pc |-> "read", prev |-> key.server]]
    /\ crossed' = IF \E s \in Rotators : Rotating(s) THEN crossed \cup {"key_rotation"} ELSE crossed
    /\ UNCHANGED <<ConnVars, inbox, agent, CallVars, delivering, key, policy, push, lost>>

RotateSet(r) ==
    /\ rotation[r].pc = "read"
    /\ rotation' = [rotation EXCEPT ![r].pc = "set"]
    /\ key' = [key EXCEPT !.server = r]
    /\ UNCHANGED <<ConnVars, inbox, agent, CallVars, delivering, policy, push, lost, crossed>>

RotateSent(r) ==
    /\ rotation[r].pc = "set"
    /\ SendOk(Rotation(r))
    /\ rotation' = [rotation EXCEPT ![r].pc = "done"]
    /\ UNCHANGED <<hub, conn, up, link, inbox, agent, CallVars, delivering, key, policy, push, crossed>>

\* Mutant: the old key is not restored.
RotateFailsKept(r) ==
    /\ rotation[r].pc = "set"
    /\ SendFails
    /\ rotation' = [rotation EXCEPT ![r].pc = "done"]
    /\ UNCHANGED <<hub, conn, up, link, inbox, agent, CallVars, delivering, key, policy, push, crossed>>

RotateFails(r) ==
    /\ rotation[r].pc = "set"
    /\ SendFails
    /\ rotation' = [rotation EXCEPT ![r].pc = "done"]
    /\ key' = [key EXCEPT !.server = rotation[r].prev]
    /\ UNCHANGED <<hub, conn, up, link, inbox, agent, CallVars, delivering, policy, push, crossed>>

\* ApplyPolicyTemplate stores the level and then tells the probe.
ApplyPolicy(l) ==
    /\ push[l] = "idle"
    /\ push' = [push EXCEPT ![l] = "set"]
    /\ policy' = [policy EXCEPT !.server = l]
    /\ crossed' = IF \E m \in Pushes : Pushing(m) THEN crossed \cup {"policy_update"} ELSE crossed
    /\ UNCHANGED <<ConnVars, inbox, agent, CallVars, delivering, key, rotation, lost>>

\* A probe that is not connected is not told.
PushPolicy(l) ==
    /\ Pushing(l)
    /\ push' = [push EXCEPT ![l] = "done"]
    /\ \/ SendOk(PolicyUpdate(l))
       \/ hub \notin Writable /\ lost' = lost \cup {"policy_update"} /\ UNCHANGED down
    /\ UNCHANGED <<hub, conn, up, link, inbox, agent, CallVars, delivering, key, rotation, policy, crossed>>

Next ==
    \/ \E c \in Conns : \/ Dial(c) \/ Accept(c) \/ ConnectionDies(c) \/ Teardown(c)
                        \/ CommandResult(c) \/ Deliver(c)
    \/ ProbeLosesLink \/ ProbeReads \/ BeginCommand \/ EndCommand
    \/ HandleKeyRotation \/ HandlePolicyUpdate
    \/ \E c \in Calls : \/ Track(c) \/ DispatchSent(c) \/ DispatchFails(c) \/ ReceiveResult(c)
                        \/ \E outcome \in {"timeout", "canceled"} : WaitEnds(c, outcome)
    \/ \E i \in RequestIds : Expire(i)
    \/ \E r \in Rotators : RotateRead(r) \/ RotateSet(r) \/ RotateSent(r) \/ RotateFails(r)
    \/ \E l \in Pushes : ApplyPolicy(l) \/ PushPolicy(l)

(***************************************************************************)
(* Timers fire, goroutines that can run do, and a closed connection is      *)
(* noticed on both ends (read deadlines of 90 seconds).                     *)
(***************************************************************************)
Fairness ==
    /\ \A c \in Calls : /\ WF_vars(DispatchSent(c) \/ DispatchFails(c))
                        /\ WF_vars(ReceiveResult(c) \/ WaitEnds(c, "timeout"))
    /\ \A c \in Conns : WF_vars(Accept(c)) /\ WF_vars(Teardown(c)) /\ WF_vars(Deliver(c)) /\ WF_vars(Dial(c))
    /\ WF_vars(ProbeLosesLink)

Spec == Init /\ [][Next]_vars /\ Fairness

TypeOK ==
    /\ hub \in 0 .. MaxConns /\ link \in 0 .. MaxConns
    /\ conn \in [Conns -> [phase : {"unused", "upgraded", "serving", "gone"}, open : BOOLEAN]]
    /\ call \in [Calls -> {"idle", "tracked", "waiting", "completed", "timeout", "canceled", "dispatch_error"}]
    /\ pending \in [RequestIds -> Calls \cup {None}]
    /\ Len(inbox) <= InboxCap
    /\ lost \cup crossed \subseteq {"key_rotation", "policy_update"}

\* A send on a result channel neither blocks nor hits a closed channel: the entries of
\* the tracker and the deliveries under way have empty, open channels, each its own, so
\* the reaper, which sends under the lock, cannot wedge every other command.
ResultChannelsAreFree ==
    LET owed == [i \in RequestIds |-> pending[i]]
        busy == {c \in Conns : delivering[c] # NoResult}
    IN /\ \A i \in RequestIds : owed[i] # None => chan[owed[i]] = NoResult
       /\ \A c \in busy : /\ chan[delivering[c].call] = NoResult
                          /\ \A i \in RequestIds : owed[i] # delivering[c].call
                          /\ \A d \in busy : delivering[c].call = delivering[d].call => c = d

\* The registered connection is served by a live handler, and the connection a handler
\* accepted last is the registered one until it ends: the teardown of a replaced
\* connection never makes the probe look disconnected.
CurrentConnectionIsRegistered ==
    /\ hub # 0 => conn[hub].phase = "serving"
    /\ \A c \in Conns : conn[c].phase = "serving" /\ conn[c].open => hub = c

\* The probe and the server disagree on the key only while a rotation is on its way, or
\* after its message was lost or could not be saved, or after two rotations were made at
\* a time: a rotation that cannot be sent is undone.  Two at a time may end on
\* different keys with each message delivered: handleRotateKey stores and sends without
\* a lock, and the one stored last may be sent first.
LockedOutOnlyByLoss ==
    \/ key.server = key.probe
    \/ "key_rotation" \in lost \cup crossed
    \/ \E r \in Rotators : rotation[r].pc = "set"
    \/ \E m \in Range(inbox) \cup UNION {Range(down[c]) : c \in Conns} : m.type = "key_rotation" /\ m.key = key.server

\* The level the probe enforces differs from the stored one only while an update is on
\* its way, after one was not delivered, or after two templates were applied at a time.
PolicyDiffersOnlyByLoss ==
    \/ policy.server = policy.probe
    \/ "policy_update" \in lost \cup crossed
    \/ \E l \in Pushes : Pushing(l)
    \/ \E m \in Range(inbox) \cup UNION {Range(down[c]) : c \in Conns} : m.type = "policy_update" /\ m.level = policy.server

\* Every call returns: with a result, an error, a timeout or a cancellation.
EveryCallReturns ==
    \A c \in Calls : call[c] = "tracked" ~> call[c] \in {"completed", "timeout", "canceled", "dispatch_error"}
=============================================================================
