---------------------------- MODULE Notifications ----------------------------
(***************************************************************************)
(* From the event bus to the webhooks: Bus (events/bus.go), the SSE        *)
(* endpoint and the webhook forwarder that subscribe to it                 *)
(* (server/routes.go, server/server.go) and the Notifier with its delivery *)
(* goroutines and its store (webhook/notifier.go, store.go, handlers.go).  *)
(***************************************************************************)
EXTENDS Integers, Sequences, SequencesExt, FiniteSetsExt

CONSTANTS
    Types,        \* event types
    Hooks,        \* webhook ids
    Clients,      \* SSE clients
    BufferSize,   \* bufferSize of the bus
    HistoryLimit, \* defaultDeliveryHistoryLimit
    MaxEvents,    \* bound on the events published
    MaxRestarts   \* bound on restarts

VARIABLES
    published,  \* number of events published so far; event n has number n
    chans,      \* subscriber -> its channel, for the current subscribers
    hooks,      \* Notifier.items: id -> [events, enabled]
    table,      \* the webhooks table
    sends,      \* delivery goroutines: a set of [event, hook, attempt]
    history,    \* Notifier.deliveries, oldest first
    outcome,    \* every delivery recorded since the start of the process
    notified,   \* pairs of an event and a webhook that Notify selected
    restarts

notificationVars == <<published, chans, hooks, table, sends, history, outcome, notified, restarts>>

Forwarder == "webhook-forwarder"
NoHook == [events |-> {}, enabled |-> FALSE, there |-> FALSE]

LastOf(s, n) == SubSeq(s, Max({1, Len(s) - n + 1}), Len(s))
-----------------------------------------------------------------------------
\* Publish: a subscriber whose channel is full misses the event.
Offer(chan, evt) == IF Len(chan) < BufferSize THEN Append(chan, evt) ELSE chan

Publish(type) ==
    LET evt == [n |-> published + 1, type |-> type]
    IN  /\ published < MaxEvents
        /\ published' = published + 1
        /\ chans' = [s \in DOMAIN chans |-> Offer(chans[s], evt)]
        /\ UNCHANGED <<hooks, table, sends, history, outcome, notified, restarts>>

\* handleEventsSSE
Subscribe(c) ==
    /\ c \notin DOMAIN chans
    /\ chans' = [s \in DOMAIN chans \union {c} |-> IF s = c THEN <<>> ELSE chans[s]]
    /\ UNCHANGED <<published, hooks, table, sends, history, outcome, notified, restarts>>

Stream(c) ==
    /\ c \in DOMAIN chans
    /\ chans[c] # <<>>
    /\ chans' = [chans EXCEPT ![c] = Tail(@)]
    /\ UNCHANGED <<published, hooks, table, sends, history, outcome, notified, restarts>>

Disconnect(c) ==
    /\ c \in DOMAIN chans
    /\ chans' = [s \in DOMAIN chans \ {c} |-> chans[s]]
    /\ UNCHANGED <<published, hooks, table, sends, history, outcome, notified, restarts>>
-----------------------------------------------------------------------------
\* The API registers and removes webhooks in the Notifier; Store.Register and
\* Store.Remove, which also write the table, are not behind any route.
RegisterWebhook(h, events, enabled) ==
    /\ hooks' = [hooks EXCEPT ![h] = [events |-> events, enabled |-> enabled, there |-> TRUE]]
    /\ UNCHANGED <<published, chans, table, sends, history, outcome, notified, restarts>>

DeleteWebhook(h) ==
    /\ hooks[h].there
    /\ hooks' = [hooks EXCEPT ![h] = NoHook]
    /\ UNCHANGED <<published, chans, table, sends, history, outcome, notified, restarts>>

Selected(type) == {h \in Hooks : hooks[h].there /\ hooks[h].enabled /\ type \in hooks[h].events}

\* webhookForwarder takes an event; Notify starts a goroutine per webhook.
Notify ==
    /\ chans[Forwarder] # <<>>
    /\ LET evt == Head(chans[Forwarder])
       IN  /\ sends' = sends \union {[event |-> evt.n, hook |-> h, attempt |-> 1] : h \in Selected(evt.type)}
           /\ notified' = notified \union {<<evt.n, h>> : h \in Selected(evt.type)}
    /\ chans' = [chans EXCEPT ![Forwarder] = Tail(@)]
    /\ UNCHANGED <<published, hooks, table, history, outcome, restarts>>

\* Mutant: the history is trimmed before the new entry is appended.
RecordDeliveryLate(h, entry) == Append(LastOf(h, HistoryLimit), entry)

\* recordDelivery appends and keeps the last entries.
RecordDelivery(h, entry) == LastOf(Append(h, entry), HistoryLimit)

\* Mutant: a second failure is not recorded.
AttemptUnrecorded(s, ok) ==
    /\ sends' = (sends \ {s}) \union
                (IF ~ok /\ s.attempt = 1 THEN {[s EXCEPT !.attempt = 2]} ELSE {})
    /\ history' = IF ok THEN RecordDelivery(history, [event |-> s.event, hook |-> s.hook, ok |-> ok]) ELSE history
    /\ outcome' = IF ok THEN outcome \union {[event |-> s.event, hook |-> s.hook, ok |-> ok]} ELSE outcome

\* One POST of sendPayloadWithRetries: a failure is retried once, and the end
\* of the loop is recorded.
Attempt(s, ok) ==
    LET entry == [event |-> s.event, hook |-> s.hook, ok |-> ok]
        retry == ~ok /\ s.attempt = 1
    IN  /\ sends' = (sends \ {s}) \union (IF retry THEN {[s EXCEPT !.attempt = 2]} ELSE {})
        /\ history' = IF retry THEN history ELSE RecordDelivery(history, entry)
        /\ outcome' = IF retry THEN outcome ELSE outcome \union {entry}

Send(s, ok) ==
    /\ s \in sends
    /\ Attempt(s, ok)
    /\ UNCHANGED <<published, chans, hooks, table, notified, restarts>>

\* The Notifier is filled from the table when the store is opened.
Restart ==
    /\ restarts < MaxRestarts
    /\ restarts' = restarts + 1
    /\ hooks' = table
    /\ chans' = [s \in {Forwarder} |-> <<>>]
    /\ sends' = {}
    /\ history' = <<>>
    /\ outcome' = {}
    /\ notified' = {}
    /\ UNCHANGED <<published, table>>

Init ==
    /\ published = 0
    /\ chans = [s \in {Forwarder} |-> <<>>]
    /\ hooks = [h \in Hooks |-> NoHook]
    /\ table = [h \in Hooks |-> NoHook]
    /\ sends = {}
    /\ history = <<>>
    /\ outcome = {}
    /\ notified = {}
    /\ restarts = 0

Next ==
    \/ \E type \in Types : Publish(type)
    \/ \E c \in Clients : Subscribe(c) \/ Stream(c) \/ Disconnect(c)
    \/ \E h \in Hooks : DeleteWebhook(h) \/ \E events \in SUBSET Types, on \in BOOLEAN : RegisterWebhook(h, events, on)
    \/ Notify
    \/ \E s \in sends, ok \in BOOLEAN : Send(s, ok)
    \/ Restart

\* The forwarder and the delivery goroutines run; a POST returns within the
\* client's five seconds.
Fairness ==
    /\ WF_notificationVars(Notify)
    /\ \A n \in 1..MaxEvents, h \in Hooks :
          WF_notificationVars(\E s \in sends, ok \in BOOLEAN : s.event = n /\ s.hook = h /\ Send(s, ok))

Spec == Init /\ [][Next]_notificationVars /\ Fairness
-----------------------------------------------------------------------------
\* The delivery history is what was sent: the last HistoryLimit outcomes of
\* webhooks that Notify selected, one for each delivery, although goroutines
\* finish in any order and webhooks are replaced and deleted meanwhile
\* (Notify, sendPayloadWithRetries, recordDelivery).
HistoryIsTrue ==
    /\ Len(history) = Min({HistoryLimit, Cardinality(outcome)})
    /\ \A i \in DOMAIN history : history[i] \in outcome
    /\ \A i, j \in DOMAIN history :
          history[i].event = history[j].event /\ history[i].hook = history[j].hook => i = j
    /\ \A e \in outcome : <<e.event, e.hook>> \in notified

\* Every webhook that Notify selected for an event is recorded as delivered or
\* failed, unless the control plane restarts first.
NotifiedHooksAreSettled ==
    \A n \in 1..MaxEvents, h \in Hooks :
        <<n, h>> \in notified ~>
            \/ \E e \in outcome : e.event = n /\ e.hook = h
            \/ <<n, h>> \notin notified
=============================================================================
