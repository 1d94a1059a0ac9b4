-------------------------------- MODULE Chat --------------------------------
(***************************************************************************)
(* The chat of one probe, or of the fleet: the session in memory with its  *)
(* subscribers (chat/session.go), the table behind it (chat/store.go,      *)
(* pruner.go), and the replies of the language model, which may run        *)
(* commands first (llm/chat_responder.go, context_window.go).              *)
(*                                                                         *)
(* A client sends by REST or, once subscribed, over its WebSocket.  Adding *)
(* a message takes three steps, with the lock given up in between: append  *)
(* and copy the subscribers, send to each, store.                          *)
(***************************************************************************)
EXTENDS Integers, Sequences, FiniteSets, SequencesExt

CONSTANTS
    Clients,
    BufferSize,    \* messages a subscriber's channel holds (32)
    MaxSteps,      \* calls of the model for one message (5)
    Budget,        \* tokens of history (6000)
    Size(_),       \* message -> its tokens
    MaxAge,        \* messages older than this are pruned
    MaxMessages,
    MaxRestarts,
    MayFail        \* writes may fail

VARIABLES
    messages,   \* Session.Messages: sequence of ids, which are also times in half seconds
    roleOf,     \* id -> role
    disk,       \* chat_messages: set of ids
    inbox,      \* client -> -1: no channel; otherwise messages in it
    sender,     \* client -> its message and reply
    clearing,   \* HandleClearChat is between memory and table
    settled,    \* ids whose AddMessage returned: ghost
    removed,    \* ids a clear or the pruner took away: ghost
    asked,      \* client -> the history and the context of its last question: ghost
    starts

chatVars == <<messages, roleOf, disk, inbox, sender, clearing, settled, removed, asked, starts>>

Quiet == [step |-> "idle", id |-> 0, to |-> {}, calls |-> 0]
NoContext == [history |-> <<>>, kept |-> <<>>]

\* The order of timestamps as text (RFC3339Nano drops trailing zeros: a time with
\* a fraction sorts before the full second it belongs to).
TextKey(t) == 2 * (t \div 2) + (IF t % 2 = 1 THEN 0 ELSE 1)

Subscribers == {c \in Clients : inbox[c] >= 0}
NextId == Len(roleOf) + 1

\* AddMessage up to publish's copy of the subscribers.
AddMessage(c, role) ==
    /\ NextId <= MaxMessages
    /\ messages' = Append(messages, NextId)
    /\ roleOf' = Append(roleOf, role)
    /\ sender' = [sender EXCEPT ![c] = [@ EXCEPT !.step = "publish", !.id = NextId, !.to = Subscribers]]
    /\ UNCHANGED <<disk, clearing, settled, removed, asked, starts>>

\* HandleSendMessage, or a message over the WebSocket.
Send(c) == sender[c] = Quiet /\ AddMessage(c, "user") /\ UNCHANGED inbox

\* HandleChatWS: Subscribe; the greeting is added in the next step.
Subscribe(c) ==
    /\ sender[c] = Quiet /\ inbox[c] < 0
    /\ inbox' = [inbox EXCEPT ![c] = 0]
    /\ sender' = [sender EXCEPT ![c] = [@ EXCEPT !.step = "greet"]]
    /\ UNCHANGED <<messages, roleOf, disk, clearing, settled, removed, asked, starts>>

Greet(c) == sender[c].step = "greet" /\ AddMessage(c, "system") /\ UNCHANGED inbox

\* The connection ends when its handler is reading: cancel removes the channel
\* and closes it.
Unsubscribe(c) ==
    /\ sender[c] = Quiet /\ inbox[c] >= 0
    /\ inbox' = [inbox EXCEPT ![c] = -1]
    /\ UNCHANGED <<messages, roleOf, disk, sender, clearing, settled, removed, asked, starts>>

\* publish: a full channel loses the message; a closed one panics, which ends the
\* handler (net/http recovers) and, over a WebSocket, its own subscription.
Publish(c) ==
    /\ sender[c].step = "publish"
    /\ IF sender[c].to \subseteq Subscribers
       THEN /\ inbox' = [k \in Clients |-> IF k \in sender[c].to /\ inbox[k] < BufferSize THEN inbox[k] + 1 ELSE inbox[k]]
            /\ sender' = [sender EXCEPT ![c] = [@ EXCEPT !.step = "persist"]]
       ELSE \E open \in SUBSET (sender[c].to \cap Subscribers) :
                /\ inbox' = [k \in Clients |->
                       IF k = c THEN -1
                       ELSE IF k \in open /\ inbox[k] < BufferSize THEN inbox[k] + 1 ELSE inbox[k]]
                /\ sender' = [sender EXCEPT ![c] = Quiet]
    /\ UNCHANGED <<messages, roleOf, disk, clearing, settled, removed, asked, starts>>

\* The WebSocket's writer goroutine.
Write(c) ==
    /\ inbox[c] > 0
    /\ inbox' = [inbox EXCEPT ![c] = @ - 1]
    /\ UNCHANGED <<messages, roleOf, disk, sender, clearing, settled, removed, asked, starts>>

\* Mutant: the reply goes to the session only.
PersistedUserOnly(id) == roleOf[id] # "assistant"

\* Whether Store.AddMessage stores the message: all of them.
Persisted(id) == TRUE

\* persist, and the return of AddMessage; its error is dropped.  A user's message
\* is answered next.
Persist(c) ==
    /\ sender[c].step = "persist"
    /\ \E ok \in IF MayFail THEN BOOLEAN ELSE {TRUE} :
           /\ disk' = IF ok /\ Persisted(sender[c].id) THEN disk \cup {sender[c].id} ELSE disk
           /\ settled' = IF ok THEN settled \cup {sender[c].id} ELSE settled
    /\ sender' = [sender EXCEPT ![c] = IF roleOf[sender[c].id] = "user" THEN [@ EXCEPT !.step = "ask"] ELSE Quiet]
    /\ UNCHANGED <<messages, roleOf, inbox, clearing, removed, asked, starts>>

Tokens(s) == FoldSeq(LAMBDA id, n : n + Size(id), 0, s)

\* Mutant: the budget is tested before the message is counted.
FirstKeptEager(h) ==
    CHOOSE i \in 1..(Len(h) + 1) :
        /\ i > 1 => Tokens(SubSeq(h, i, Len(h))) > Budget
        /\ \A j \in (i + 1)..(Len(h) + 1) : Tokens(SubSeq(h, j, Len(h))) <= Budget

\* trimToTokenBudget's walk from the newest message to the oldest: the first one kept.
FirstKept(h) ==
    CHOOSE i \in 1..(Len(h) + 1) :
        /\ Tokens(SubSeq(h, i, Len(h))) <= Budget
        /\ i > 1 => Tokens(SubSeq(h, i - 1, Len(h))) > Budget

\* trimToTokenBudget: at least the last two stay.
TrimToTokenBudget(h) ==
    LET minStart == IF Len(h) < 2 THEN 1 ELSE Len(h) - 1
        cutoff == IF FirstKept(h) > minStart THEN minStart ELSE FirstKept(h)
    IN  SubSeq(h, cutoff, Len(h))

\* respond: the history is read, system messages left out, and trimmed; the
\* user's message, which the history holds already, is added at the end.
Ask(c) ==
    /\ sender[c].step = "ask"
    /\ LET h == SelectSeq(messages, LAMBDA id : roleOf[id] # "system")
       IN  asked' = [asked EXCEPT ![c] = [history |-> h, kept |-> TrimToTokenBudget(h)]]
    /\ sender' = [sender EXCEPT ![c] = [@ EXCEPT !.step = "model", !.calls = 0]]
    /\ UNCHANGED <<messages, roleOf, disk, inbox, clearing, settled, removed, starts>>

\* Respond's loop: a command, whose result or dispatch error goes back to the model,
\* as long as calls are left.
RunCommand(c) ==
    /\ sender[c].step = "model" /\ sender[c].calls < MaxSteps
    /\ sender' = [sender EXCEPT ![c] = [@ EXCEPT !.calls = @ + 1]]
    /\ UNCHANGED <<messages, roleOf, disk, inbox, clearing, settled, removed, asked, starts>>

\* The end of the loop: text, the model's error, or the limit, each a reply.
Reply(c) == sender[c].step = "model" /\ AddMessage(c, "assistant") /\ UNCHANGED inbox

Ids == {messages[i] : i \in DOMAIN messages}

\* ClearMessages: the session, then the table.
ClearMemory ==
    /\ ~ clearing /\ messages # <<>>
    /\ clearing' = TRUE
    /\ messages' = <<>>
    /\ removed' = removed \cup Ids
    /\ UNCHANGED <<roleOf, disk, inbox, sender, settled, asked, starts>>

ClearDisk ==
    /\ clearing /\ clearing' = FALSE
    /\ \/ disk' = {} /\ removed' = removed \cup disk
       \/ MayFail /\ UNCHANGED <<disk, removed>>
    /\ UNCHANGED <<messages, roleOf, inbox, sender, settled, asked, starts>>

\* PruneOlderThan: rows by the text of their time, the session by the time, and
\* only when a row went.  (Nothing in between can touch messages that old.)
PruneOlderThan ==
    LET cutoff == NextId - MaxAge
        rows == {id \in disk : TextKey(id) < TextKey(cutoff)}
    IN  /\ NextId > MaxAge /\ rows # {}
        /\ disk' = disk \ rows
        /\ messages' = SelectSeq(messages, LAMBDA id : id >= cutoff)
        /\ removed' = removed \cup rows \cup {id \in Ids : id < cutoff}
        /\ UNCHANGED <<roleOf, inbox, sender, clearing, settled, asked, starts>>

\* NewStore after a stop: loadAll, in the order of the text of the times.
Restart ==
    /\ starts < MaxRestarts /\ starts' = starts + 1
    /\ messages' = SetToSortSeq(disk, LAMBDA a, b : TextKey(a) < TextKey(b))
    /\ inbox' = [c \in Clients |-> -1]
    /\ sender' = [c \in Clients |-> Quiet]
    /\ clearing' = FALSE
    /\ UNCHANGED <<roleOf, disk, settled, removed, asked>>

Init ==
    /\ messages = <<>> /\ roleOf = <<>>
    /\ disk = {}
    /\ inbox = [c \in Clients |-> -1]
    /\ sender = [c \in Clients |-> Quiet]
    /\ clearing = FALSE
    /\ settled = {} /\ removed = {}
    /\ asked = [c \in Clients |-> NoContext]
    /\ starts = 0

Next ==
    \/ ClearMemory \/ ClearDisk \/ PruneOlderThan \/ Restart
    \/ \E c \in Clients :
           \/ Send(c) \/ Subscribe(c) \/ Greet(c) \/ Unsubscribe(c) \/ Publish(c) \/ Write(c)
           \/ Persist(c) \/ Ask(c) \/ RunCommand(c) \/ Reply(c)

Spec == Init /\ [][Next]_chatVars

\* A message whose AddMessage returned without a write error, and that no clear and
\* no pruning took, is shown and stored, through panics of other senders,
\* slow subscribers and restarts.
SettledMessagesSurvive == settled \ removed \subseteq Ids \cap disk

\* "At least the last 2 messages are always preserved regardless of budget": the
\* context of a question is the newest part of the history, within the budget or
\* of two messages, and nothing that fits is left out.
ContextFits ==
    \A c \in Clients :
        LET h == asked[c].history
            k == asked[c].kept
        IN  /\ IsSuffix(k, h)
            /\ Tokens(k) <= Budget \/ Len(k) <= 2
            /\ Len(k) < Len(h) => (Len(k) >= 2 /\ Tokens(SubSeq(h, Len(h) - Len(k), Len(h))) > Budget)
=============================================================================
