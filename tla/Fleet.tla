-------------------------------- MODULE Fleet --------------------------------
(***************************************************************************)
(* The life of probe identities: registration tokens (api/token_store.go),  *)
(* registration (api/register.go), the fleet store with its table, the      *)
(* connections that authenticate with the stored key (server/probe_mtls.go, *)
(* server/server.go initHub), heartbeats, the offline checker, the scanner  *)
(* of remote probes, the fleet endpoints and restarts.                      *)
(*                                                                          *)
(* A request, message or background turn is run by an actor as a list of    *)
(* calls of the fleet store.  A call changes the map under the manager's    *)
(* lock and then, without it, writes the row it found, or some columns of   *)
(* it, to the table.  The error of the write is dropped, another actor may  *)
(* come in between, and the process may end between any two of these steps. *)
(***************************************************************************)
EXTENDS Integers, FiniteSets, Sequences

CONSTANTS
    Probes,        \* probe identities
    Hosts,         \* hostnames a registration may carry
    Keys,          \* API keys
    TagNames,      \* canonical tags
    Tenants,       \* tenant ids
    Tokens,        \* registration tokens
    TokenKinds,    \* [multi, noExpiry, tenant] of the tokens that are generated
    Heartbeats,    \* heartbeat readings, see ScoreHealth
    Levels,        \* levels of the policy templates
    TagInputs,     \* sets of tags a request carries
    Actors,        \* bound: calls that overlap
    MayFail,       \* whether a write to a table may fail
    OfflineAfter,  \* probeOfflineThreshold
    PruneAfter,    \* the 30 minutes of shouldPruneDuplicateProbe
    CleanupAfter,  \* older_than of the cleanup endpoint
    TokenTTL,      \* the 30 minutes of a token
    MaxTime        \* bound on the clock

VARIABLES
    now,           \* wall clock
    fleet,         \* [mem, disk]: Manager's map of probes and the probes table
    tokens,        \* [mem, disk]: token -> [made, used, multi, expires, tenant]
    conns,         \* probes with a registered connection
    scans,         \* remote probes whose inventory is being collected
    actor,         \* [todo, req, writes, registers, alone]: the calls and writes still to be made
    issued,        \* history: keys and identities handed out so far
    uses,          \* history: registrations a token was accepted for
    ticket,        \* history: per host, the last answer to a registration that still stands
    behind,        \* history: probes of which a write failed or came after a later change
    unsaved        \* history: tokens of which a write failed

vars == <<now, fleet, tokens, conns, scans, actor, issued, uses, ticket, behind, unsaved>>

NoProbe == [status |-> "absent"]
NoHost == "no_host"
NoKey == "no_key"
NoTenant == "no_tenant"
BlankTag == "blank"         \* a tag that is empty once trimmed

Known(p) == fleet.mem[p] # NoProbe

(***************************************************************************)
(* Manager's methods, as changes of a row; r is the request they are part   *)
(* of.  All but the first two need a known probe.                           *)
(***************************************************************************)
\* A registration replaces the row: key, tags and tenant are gone with it.
Register(r) ==
    [status |-> "online", type |-> "agent", host |-> r.host, level |-> "observe",
     key |-> NoKey, tags |-> {}, tenant |-> NoTenant, seen |-> now]

NormalizeTags(raw) == raw \ {BlankTag}

RegisterRemote(r) ==
    [status |-> "pending", type |-> "remote", host |-> r.host, level |-> "observe",
     key |-> NoKey, tags |-> NormalizeTags(r.tags), tenant |-> r.tenant, seen |-> now]

\* ScoreHealth: each reading is below its threshold (0), high (1) or critical (2).
HealthScore(hb) == 100 - 15 * (hb.load + hb.mem + hb.disk)

ScoreHealth(hb) ==
    CASE HealthScore(hb) >= 80 -> "healthy"
      [] HealthScore(hb) \in 50 .. 79 -> "warning"
      [] HealthScore(hb) \in 20 .. 49 -> "degraded"
      [] OTHER -> "critical"

HealthStatus(hb) == IF ScoreHealth(hb) \in {"critical", "degraded"} THEN "degraded" ELSE "online"

Heartbeat(row, r) == [row EXCEPT !.seen = now, !.status = r.status]
UpdateInventory(row) == [row EXCEPT !.seen = now]
SetPolicy(row, r) == [row EXCEPT !.level = r.level]
SetAPIKey(row, r) == [row EXCEPT !.key = r.key]
SetTags(row, r) == [row EXCEPT !.tags = NormalizeTags(r.tags)]
SetTenantID(row, r) == [row EXCEPT !.tenant = r.tenant]
SetOnline(row) == [row EXCEPT !.status = "online", !.seen = now]

SetStatus(row, r) ==
    [row EXCEPT !.status = r.status, !.seen = IF r.status \in {"online", "degraded"} THEN now ELSE @]

Changed(fn, row, r) ==
    CASE fn = "Register" -> Register(r)
      [] fn = "RegisterRemote" -> RegisterRemote(r)
      [] fn = "Heartbeat" -> Heartbeat(row, r)
      [] fn = "UpdateInventory" -> UpdateInventory(row)
      [] fn = "SetPolicy" -> SetPolicy(row, r)
      [] fn = "SetAPIKey" -> SetAPIKey(row, r)
      [] fn = "SetTags" -> SetTags(row, r)
      [] fn = "SetTenantID" -> SetTenantID(row, r)
      [] fn = "SetOnline" -> SetOnline(row)
      [] fn = "SetStatus" -> SetStatus(row, r)
      [] fn = "Delete" -> NoProbe

(***************************************************************************)
(* What reaches the table: the whole row (upsertProbe), some columns        *)
(* (updateLastSeen, updateStatus, the UPDATE of SetTenantID), or a DELETE.  *)
(***************************************************************************)
\* Mutant: SetTags writes the columns of a heartbeat only.
WrittenWithoutTags(fn) ==
    CASE fn \in {"Heartbeat", "SetOnline", "SetTags"} -> "seen"
      [] fn = "SetTenantID" -> "tenant"
      [] fn = "Delete" -> "delete"
      [] OTHER -> "row"

WrittenBy(fn) ==
    CASE fn \in {"Heartbeat", "SetOnline"} -> "seen"
      [] fn = "SetTenantID" -> "tenant"
      [] fn = "Delete" -> "delete"
      [] OTHER -> "row"

Columns(w) ==
    CASE w.kind = "seen" -> {"seen", "status"}
      [] w.kind = "status" -> {"status"}
      [] w.kind = "tenant" -> {"tenant"}
      [] OTHER -> {}

Whole(w) == w.kind \in {"row", "delete"}

\* An UPDATE of a row that is not there does nothing.
Written(row, w) ==
    IF Whole(w) THEN w.row
    ELSE IF row = NoProbe THEN row
    ELSE [c \in DOMAIN row |-> IF c \in Columns(w) THEN w.row[c] ELSE row[c]]

\* The map has changed since the write took its values from it.
Overtaken(w) ==
    IF Whole(w) THEN w.row # fleet.mem[w.p]
    ELSE ~Known(w.p) \/ \E c \in Columns(w) : w.row[c] # fleet.mem[w.p][c]

ListRemote == {p \in Probes : Known(p) /\ fleet.mem[p].type = "remote"}

(***************************************************************************)
(* Lookup by hostname: rank by status, then most recently seen; the last    *)
(* tie-breakers (registration time, id) choose one of the equals.  A host   *)
(* that is not in the map is looked up in the table.                        *)
(***************************************************************************)
HostnameStatusRank(status) ==
    [online |-> 4, degraded |-> 3, pending |-> 2, offline |-> 1][status]

BetterHostnameCandidate(a, b) ==
    \/ HostnameStatusRank(a.status) > HostnameStatusRank(b.status)
    \/ a.status = b.status /\ a.seen > b.seen

BestFor(rows, host) ==
    LET candidates == {p \in Probes : rows[p] # NoProbe /\ rows[p].host = host}
    IN {p \in candidates : \A q \in candidates : ~BetterHostnameCandidate(rows[q], rows[p])}

\* The possible answers of FindByHostname: one of these, or none when empty.
FindByHostname(host) ==
    LET found == BestFor(fleet.mem, host)
    IN IF found # {} THEN found ELSE {p \in BestFor(fleet.disk, host) : Known(p)}

(***************************************************************************)
(* Actors.                                                                  *)
(***************************************************************************)
NoRequest ==
    [p |-> "none", host |-> NoHost, key |-> NoKey, tags |-> {}, tenant |-> NoTenant, level |-> "observe",
     status |-> "online"]

For(p) == [NoRequest EXCEPT !.p = p]

Idle == [todo |-> <<>>, req |-> NoRequest, writes |-> {}, registers |-> FALSE, alone |-> TRUE]

Free(a) == actor[a] = Idle

\* The registrations in progress of these identities are no longer alone.
Disturbed(acts, ids) ==
    [a \in Actors |-> [acts[a] EXCEPT !.alone = @ /\ ~(acts[a].registers /\ acts[a].req.p \in ids)]]

\* Actor a has the calls cs of request r left, after the writes ws; with none left it is
\* idle once they are done, but a registration has yet to be answered.
Go(a, cs, r, ws) ==
    [actor EXCEPT ![a].todo = cs, ![a].writes = ws, ![a].req = IF cs # <<>> \/ actor[a].registers THEN r ELSE NoRequest]

NoToken == [made |-> FALSE, used |-> FALSE, multi |-> FALSE, expires |-> 0, tenant |-> NoTenant]
NoTicket == [id |-> "none", key |-> NoKey]
Never == MaxTime + TokenTTL

Both(init) == [mem |-> init, disk |-> init]

Init ==
    /\ now = 0
    /\ fleet = Both([p \in Probes |-> NoProbe])
    /\ tokens = Both([t \in Tokens |-> NoToken])
    /\ conns = {} /\ scans = {}
    /\ actor = [a \in Actors |-> Idle]
    /\ issued = {}
    /\ uses = [t \in Tokens |-> 0]
    /\ ticket = [h \in Hosts |-> NoTicket]
    /\ behind = {} /\ unsaved = {}

\* A registration answer stands until the identity is removed or replaced.
Void(ids) == [h \in Hosts |-> IF ticket[h].id \in ids THEN NoTicket ELSE ticket[h]]

(***************************************************************************)
(* The store's calls.                                                       *)
(***************************************************************************)
\* A call for an unknown probe is an error and no more.
Call(a, fn, r, rest) ==
    LET row == Changed(fn, fleet.mem[r.p], r)
        takesAway == IF fn \in {"Delete", "RegisterRemote"} \/ (fn = "Register" /\ ~actor[a].registers) THEN {r.p} ELSE {}
    IN IF Known(r.p) \/ fn \in {"Register", "RegisterRemote"}
       THEN /\ fleet' = [fleet EXCEPT !.mem[r.p] = row]
            /\ actor' = Disturbed(Go(a, rest, r, {[p |-> r.p, kind |-> WrittenBy(fn), row |-> row]}), takesAway)
            /\ ticket' = Void(takesAway)
       ELSE /\ actor' = Go(a, rest, r, {})
            /\ UNCHANGED <<fleet, ticket>>

NextIs(a, fns) == actor[a].writes = {} /\ actor[a].todo # <<>> /\ Head(actor[a].todo) \in fns

\* The next call of a handler that makes several.
NextCall(a) ==
    /\ NextIs(a, {"Register", "SetAPIKey", "SetTags", "SetTenantID", "Heartbeat", "SetStatus"})
    /\ Call(a, Head(actor[a].todo), actor[a].req, Tail(actor[a].todo))
    /\ UNCHANGED <<now, tokens, conns, scans, issued, uses, behind, unsaved>>

ShouldPruneDuplicateProbe(row) ==
    \/ row.status = "offline"
    \/ row.status # "online" /\ now - row.seen > PruneAfter

\* One duplicate of the host after the other is deleted.
CleanupStaleHostnameDuplicates(a) ==
    /\ NextIs(a, {"Prune"})
    /\ LET r == actor[a].req
           duplicates == {p \in Probes \ {r.p} :
                            Known(p) /\ fleet.mem[p].host = r.host /\ ShouldPruneDuplicateProbe(fleet.mem[p])}
       IN \/ /\ duplicates = {}
             /\ actor' = Go(a, Tail(actor[a].todo), r, {})
             /\ UNCHANGED fleet
          \/ \E p \in duplicates :
                /\ fleet' = [fleet EXCEPT !.mem[p] = NoProbe]
                /\ actor' = Go(a, actor[a].todo, r, {[p |-> p, kind |-> "delete", row |-> NoProbe]})
    /\ UNCHANGED <<now, tokens, conns, scans, issued, uses, ticket, behind, unsaved>>

\* A write of the table ends.  Its error is dropped.
Write(a, w, saved) ==
    /\ w \in actor[a].writes
    /\ saved \/ MayFail
    /\ fleet' = IF saved THEN [fleet EXCEPT !.disk[w.p] = Written(@, w)] ELSE fleet
    /\ actor' = [actor EXCEPT ![a].writes = @ \ {w}]
    /\ behind' = CASE ~saved \/ Overtaken(w) -> behind \cup {w.p}
                   [] saved /\ ~Overtaken(w) /\ Whole(w) -> behind \ {w.p}
                   [] OTHER -> behind
    /\ UNCHANGED <<now, tokens, conns, scans, issued, uses, ticket, unsaved>>

(***************************************************************************)
(* Tokens.  The token store writes its table under its lock.                *)
(***************************************************************************)
GenerateToken(t, opts, saved) ==
    /\ ~tokens.mem[t].made
    /\ saved \/ MayFail
    /\ LET row == [made |-> TRUE, used |-> FALSE, multi |-> opts.multi, tenant |-> opts.tenant,
                   expires |-> IF opts.noExpiry THEN Never ELSE now + TokenTTL]
       IN tokens' = [mem |-> [tokens.mem EXCEPT ![t] = row],
                     disk |-> IF saved THEN [tokens.disk EXCEPT ![t] = row] ELSE tokens.disk]
    /\ unsaved' = IF saved THEN unsaved ELSE unsaved \cup {t}
    /\ UNCHANGED <<now, fleet, conns, scans, actor, issued, uses, ticket, behind>>

TokenAccepted(t) ==
    LET row == tokens.mem[t] IN row.made /\ now <= row.expires /\ ~row.used

\* Mutant: a used token is remembered in memory only.
ConsumedInMemory(t, saved) ==
    IF tokens.mem[t].multi THEN tokens ELSE [tokens EXCEPT !.mem[t].used = TRUE]

\* updateUsed does nothing for a token that is not in the table.
Consumed(t, saved) ==
    IF tokens.mem[t].multi THEN tokens
    ELSE [tokens EXCEPT !.mem[t].used = TRUE, !.disk[t].used = IF saved /\ tokens.disk[t].made THEN TRUE ELSE @]

(***************************************************************************)
(* Registration.                                                            *)
(***************************************************************************)
\* The identity a host registers under: the one it has, or a fresh one.
Identities(host) ==
    LET found == FindByHostname(host)
    IN IF found # {} THEN found ELSE Probes \ issued

\* Mutant: the key is set before Register replaces the row.
RegisterProbeKeyFirst == <<"SetAPIKey", "Register", "SetTags", "Prune">>

RegisterProbe == <<"Register", "SetAPIKey", "SetTags", "Prune">>

\* The token is used up and an identity and a key are chosen; the store's calls follow.
HandleRegister(a, t, p, host, key, tags, saved) ==
    /\ TokenAccepted(t)
    /\ saved \/ (MayFail /\ ~tokens.mem[t].multi)
    /\ p \in Identities(host)
    /\ key \in Keys \ issued
    /\ Free(a)
    /\ tokens' = Consumed(t, saved)
    /\ unsaved' = IF saved THEN unsaved ELSE unsaved \cup {t}
    /\ uses' = [uses EXCEPT ![t] = @ + 1]
    /\ LET tenant == tokens.mem[t].tenant
           others == {b \in Actors : actor[b].registers /\ actor[b].req.host = host}
       IN actor' = [b \in Actors |->
                      IF b = a
                      THEN [todo |-> RegisterProbe \o (IF tenant = NoTenant THEN <<>> ELSE <<"SetTenantID">>),
                            req |-> [For(p) EXCEPT !.host = host, !.key = key, !.tags = tags, !.tenant = tenant],
                            writes |-> {}, registers |-> TRUE, alone |-> others = {}]
                      ELSE [actor[b] EXCEPT !.alone = @ /\ b \notin others]]
    /\ issued' = issued \cup {p, key}
    /\ ticket' = [ticket EXCEPT ![host] = NoTicket]
    /\ UNCHANGED <<now, fleet, conns, scans, behind>>

\* The answer with the identity and the key.
RegisterAnswer(a) ==
    /\ actor[a].registers /\ actor[a].todo = <<>> /\ actor[a].writes = {}
    /\ LET r == actor[a].req
       IN ticket' = [ticket EXCEPT ![r.host] = IF actor[a].alone THEN [id |-> r.p, key |-> r.key] ELSE @]
    /\ actor' = [actor EXCEPT ![a] = Idle]
    /\ UNCHANGED <<now, fleet, tokens, conns, scans, issued, uses, behind, unsaved>>

\* handleCreateProbe: the id is the caller's choice, or a fresh one.
CreateRemoteProbe(a, p, host, tags, tenant) ==
    /\ Free(a)
    /\ Call(a, "RegisterRemote", [For(p) EXCEPT !.host = host, !.tags = tags, !.tenant = tenant], <<>>)
    /\ issued' = issued \cup {p}
    /\ UNCHANGED <<now, tokens, conns, scans, uses, behind, unsaved>>

(***************************************************************************)
(* Connections and their messages.                                          *)
(***************************************************************************)
ValidateProbeAPIKey(p, key) ==
    Known(p) /\ fleet.mem[p].key # NoKey /\ fleet.mem[p].key = key

Connect(a, p) ==
    /\ \E key \in Keys : ValidateProbeAPIKey(p, key)
    /\ conns' = conns \cup {p}
    /\ Free(a)
    /\ Call(a, "SetOnline", For(p), <<>>)
    /\ UNCHANGED <<now, tokens, scans, issued, uses, behind, unsaved>>

Disconnect(p) ==
    /\ p \in conns
    /\ conns' = conns \ {p}
    /\ UNCHANGED <<now, fleet, tokens, scans, actor, issued, uses, ticket, behind, unsaved>>

\* A heartbeat of a probe the fleet does not know registers it and is repeated.
HeartbeatMessage(a, p, hb) ==
    /\ p \in conns
    /\ Free(a)
    /\ LET r == [For(p) EXCEPT !.status = HealthStatus(hb)]
       IN IF Known(p) THEN Call(a, "Heartbeat", r, <<>>)
          ELSE actor' = Go(a, <<"Register", "Heartbeat">>, r, {}) /\ UNCHANGED <<fleet, ticket>>
    /\ UNCHANGED <<now, tokens, conns, scans, issued, uses, behind, unsaved>>

InventoryMessage(a, p) ==
    /\ p \in conns
    /\ Free(a)
    /\ Call(a, "UpdateInventory", For(p), <<>>)
    /\ UNCHANGED <<now, tokens, conns, scans, issued, uses, behind, unsaved>>

(***************************************************************************)
(* Endpoints.                                                               *)
(***************************************************************************)
HandleSetTags(a, p, tags) ==
    /\ Free(a)
    /\ Call(a, "SetTags", [For(p) EXCEPT !.tags = tags], <<>>)
    /\ UNCHANGED <<now, tokens, conns, scans, issued, uses, behind, unsaved>>

ApplyPolicyTemplate(a, p, level) ==
    /\ Free(a)
    /\ Call(a, "SetPolicy", [For(p) EXCEPT !.level = level], <<>>)
    /\ UNCHANGED <<now, tokens, conns, scans, issued, uses, behind, unsaved>>

\* The "__disconnect" command that is sent first leaves the connection alone.
HandleDeleteProbe(a, p) ==
    /\ Free(a)
    /\ Call(a, "Delete", For(p), <<>>)
    /\ UNCHANGED <<now, tokens, conns, scans, issued, uses, behind, unsaved>>

Removable == {p \in Probes : Known(p) /\ fleet.mem[p].status = "offline" /\ now - fleet.mem[p].seen > CleanupAfter}

\* CleanupOffline: they leave the map together and the table one after the other.
HandleFleetCleanup(a) ==
    /\ Free(a)
    /\ fleet' = [fleet EXCEPT !.mem = [p \in Probes |-> IF p \in Removable THEN NoProbe ELSE @[p]]]
    /\ actor' = Disturbed(Go(a, <<>>, NoRequest, {[p |-> p, kind |-> "delete", row |-> NoProbe] : p \in Removable}),
                          Removable)
    /\ ticket' = Void(Removable)
    /\ UNCHANGED <<now, tokens, conns, scans, issued, uses, behind, unsaved>>

(***************************************************************************)
(* Background loops.                                                        *)
(***************************************************************************)
Stale(p) == Known(p) /\ fleet.mem[p].status # "offline" /\ now - fleet.mem[p].seen > OfflineAfter

\* MarkOffline: then the status of every probe that is offline is written.
OfflineCheck(a) ==
    /\ Free(a)
    /\ LET mem == [p \in Probes |-> IF Stale(p) THEN [fleet.mem[p] EXCEPT !.status = "offline"] ELSE fleet.mem[p]]
           off == {p \in Probes : mem[p].status = "offline"}
       IN /\ fleet' = [fleet EXCEPT !.mem = mem]
          /\ actor' = Go(a, <<>>, NoRequest, {[p |-> p, kind |-> "status", row |-> mem[p]] : p \in off})
    /\ UNCHANGED <<now, tokens, conns, scans, issued, uses, ticket, behind, unsaved>>

\* A turn of the scanner, or the first scan of a probe that was just created.
ScanOnce(p) ==
    /\ p \in ListRemote
    /\ scans' = scans \cup {p}
    /\ UNCHANGED <<now, fleet, tokens, conns, actor, issued, uses, ticket, behind, unsaved>>

\* The result is applied to the id, whatever is registered under it by now.
ScanProbe(a, p, reached) ==
    /\ p \in scans
    /\ scans' = scans \ {p}
    /\ Free(a)
    /\ IF reached THEN Call(a, "UpdateInventory", For(p), <<"SetStatus">>)
       ELSE Call(a, "SetStatus", [For(p) EXCEPT !.status = "offline"], <<>>)
    /\ UNCHANGED <<now, tokens, conns, issued, uses, behind, unsaved>>

Loaded(store) == [store EXCEPT !.mem = store.disk]

\* What was under way is lost with the process; the maps are read from the tables.
Restart ==
    /\ fleet' = Loaded(fleet)
    /\ tokens' = Loaded(tokens)
    /\ conns' = {} /\ scans' = {}
    /\ actor' = [a \in Actors |-> Idle]
    /\ ticket' = Void(behind)
    /\ behind' = {}
    /\ UNCHANGED <<now, issued, uses, unsaved>>

Tick ==
    /\ now < MaxTime
    /\ now' = now + 1
    /\ UNCHANGED <<fleet, tokens, conns, scans, actor, issued, uses, ticket, behind, unsaved>>

Next ==
    \/ \E t \in Tokens, opts \in TokenKinds, saved \in BOOLEAN : GenerateToken(t, opts, saved)
    \/ \E a \in Actors :
          \/ \E t \in Tokens, p \in Probes, h \in Hosts, k \in Keys, tags \in TagInputs, saved \in BOOLEAN :
                HandleRegister(a, t, p, h, k, tags, saved)
          \/ \E p \in Probes, h \in Hosts, tags \in TagInputs, tenant \in Tenants \cup {NoTenant} :
                CreateRemoteProbe(a, p, h, tags, tenant)
          \/ \E p \in Probes :
                \/ Connect(a, p) \/ InventoryMessage(a, p) \/ HandleDeleteProbe(a, p)
                \/ \E hb \in Heartbeats : HeartbeatMessage(a, p, hb)
                \/ \E tags \in TagInputs : HandleSetTags(a, p, tags)
                \/ \E level \in Levels : ApplyPolicyTemplate(a, p, level)
                \/ \E reached \in BOOLEAN : ScanProbe(a, p, reached)
          \/ NextCall(a) \/ CleanupStaleHostnameDuplicates(a)
          \/ \E w \in actor[a].writes, saved \in BOOLEAN : Write(a, w, saved)
          \/ RegisterAnswer(a) \/ HandleFleetCleanup(a) \/ OfflineCheck(a)
    \/ \E p \in Probes : Disconnect(p) \/ ScanOnce(p)
    \/ Restart \/ Tick

Spec == Init /\ [][Next]_vars

InFlight == {w.p : w \in UNION {actor[a].writes : a \in Actors}}

\* What fleet.Manager and TokenStore hold is what their tables hold, but for a probe
\* with a write under way, or of which a write failed or came after a later change and
\* which was not written as a whole since, and a token whose write failed: a restart
\* forgets no key, tag, tenant, status or used token of any other.
RestartForgetsNothing ==
    /\ \A p \in Probes \ (behind \cup InFlight) : fleet.mem[p] = fleet.disk[p]
    /\ \A t \in Tokens \ unsaved : tokens.mem[t] = tokens.disk[t]

\* A single-use token is accepted for one registration, also across restarts, unless
\* the write that marks it used failed.
SingleUseTokensRegisterOnce ==
    \A t \in Tokens \ unsaved : tokens.mem[t].made /\ ~tokens.mem[t].multi => uses[t] <= 1

\* The identity and key a host was last answered with stay valid until the operator
\* removes or replaces that identity: no registration of another host, scan, prune of
\* duplicates, late write, status change or restart takes them away.  Two cases are left
\* out: a registration that overlapped another one of its host or the removal of its
\* identity, and a restart with a write of the identity missing from the table.
RegistrationStands ==
    \A h \in Hosts : ticket[h] # NoTicket =>
        /\ ValidateProbeAPIKey(ticket[h].id, ticket[h].key)
        /\ fleet.mem[ticket[h].id].host = h
=============================================================================
