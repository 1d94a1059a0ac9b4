----------------------------- MODULE MCInventory -----------------------------
(***************************************************************************)
(* What the control plane stores about probes, people, jobs and models, on *)
(* small instances: a behaviour is one of a single part, chosen at the     *)
(* start.                                                                  *)
(*                                                                         *)
(*   calls, rotation,  ProbeChannel: two calls that share a request id;    *)
(*   levels            two key rotations with a disk that may fail; two    *)
(*                     policy pushes; the last two over three connections  *)
(*   probe, failing,   Fleet: two actors and one probe; one actor whose    *)
(*   probes            writes may fail, with tenants; two probes of one    *)
(*                     host, with levels                                   *)
(*   certificates      ProbeCertificates                                   *)
(*   twins, owners     Federation: two descriptors of one id; descriptors  *)
(*                     of different tenants                                *)
(*   discovery, cloud, tenancy                                             *)
(*   network,          NetworkDevices: one caller with all questions; two  *)
(*   enrichment        callers that enrich and update one device           *)
(*   accounts, keys    Access: custom roles; API keys and two clients      *)
(*   scopes, edits     JobDefinitions: three workspaces; runs and restarts *)
(*   dock              ModelDock                                           *)
(*   chat, chats       Chat: one client and failing writes; two clients    *)
(***************************************************************************)
EXTENDS Integers

VARIABLES
    part,
    hub, conn, down, up, link, inbox, agent, call, chan, pending, delivering, key, rotation, policy,
    push, lost, crossed,
    now, fleet, tokens, conns, scans, actor, issued, uses, ticket, behind, unsaved,
    certClock, certFleet, registry, certificates, handshake, certRestarts,
    clock, adapters, snapshots, world, reader,
    discoveryRuns, job, left, cand, mover, reboots,
    connectors, assets, cloudHandler, second, scanned, overlapped,
    tenants, members, placed, deleting, viewer,
    deviceClock, devices, deviceScans, enriched, deviceJobs, deviceConn,
    time, users, roles, sessions, keys, client, used,
    jobs, jobRuns, handler, asked, raced, touched, reloads,
    profiles, runtime, admin, calls, usage, dockRaced, restarts,
    messages, roleOf, disk, chatInbox, sender, clearing, settled, removed, chatAsked, starts

channelVars == <<hub, conn, down, up, link, inbox, agent, call, chan, pending, delivering, key, rotation, policy,
                 push, lost, crossed>>
fleetVars == <<now, fleet, tokens, conns, scans, actor, issued, uses, ticket, behind, unsaved>>
certVars == <<certClock, certFleet, registry, certificates, handshake, certRestarts>>
federationVars == <<clock, adapters, snapshots, world, reader>>
discoveryVars == <<discoveryRuns, job, left, cand, mover, reboots>>
cloudVars == <<connectors, assets, cloudHandler, second, scanned, overlapped>>
tenancyVars == <<tenants, members, placed, deleting, viewer>>
networkVars == <<deviceClock, devices, deviceScans, enriched, deviceJobs, deviceConn>>
accessVars == <<time, users, roles, sessions, keys, client, used>>
jobVars == <<jobs, jobRuns, handler, asked, raced, touched, reloads>>
dockVars == <<profiles, runtime, admin, calls, usage, dockRaced, restarts>>
chatVars == <<messages, roleOf, disk, chatInbox, sender, clearing, settled, removed, chatAsked, starts>>

probeVars == <<channelVars, fleetVars, certVars, federationVars>>
otherVars == <<discoveryVars, cloudVars, tenancyVars, networkVars>>
serverVars == <<accessVars, jobVars, dockVars, chatVars>>
mcVars == <<part, probeVars, otherVars, serverVars>>

Commands == INSTANCE ProbeChannel WITH
    Calls <- {"c1", "c2"}, RequestId <- [c \in {"c1", "c2"} |-> "i1"], Rotators <- {}, Pushes <- {},
    MaxConns <- 2, InboxCap <- 1, SaveMayFail <- FALSE

Rotation == INSTANCE ProbeChannel WITH
    Calls <- {}, RequestId <- [c \in {} |-> "i1"], Rotators <- {"r1", "r2"}, Pushes <- {},
    MaxConns <- 3, InboxCap <- 1, SaveMayFail <- TRUE

PolicyPush == INSTANCE ProbeChannel WITH
    Calls <- {}, RequestId <- [c \in {} |-> "i1"], Rotators <- {}, Pushes <- {"diagnose", "remediate"},
    MaxConns <- 3, InboxCap <- 1, SaveMayFail <- FALSE

Readings(degraded) == {[load |-> IF degraded THEN 2 ELSE 0, mem |-> 2, disk |-> 0]}
Kind(multi, tenant) == [multi |-> multi, noExpiry |-> multi, tenant |-> tenant]

OneProbe == INSTANCE Fleet WITH
    Probes <- {"p1"}, Hosts <- {"h1"}, Keys <- {"k1"}, TagNames <- {"a"}, Tenants <- {}, Tokens <- {"tk"},
    TokenKinds <- {Kind(TRUE, "no_tenant")}, Heartbeats <- Readings(TRUE), TagInputs <- {{"a", "blank"}}, Levels <- {},
    Actors <- {"x", "y"}, MayFail <- FALSE, OfflineAfter <- 0, PruneAfter <- 0, CleanupAfter <- 0,
    TokenTTL <- 0, MaxTime <- 0

FailingTable == INSTANCE Fleet WITH
    Probes <- {"p1"}, Hosts <- {"h1"}, Keys <- {"k1"}, TagNames <- {"a"}, Tenants <- {"t"}, Tokens <- {"tk"},
    TokenKinds <- {Kind(FALSE, "t")}, Heartbeats <- Readings(TRUE), TagInputs <- {{"a", "blank"}},
    Levels <- {}, Actors <- {"x"}, MayFail <- TRUE, OfflineAfter <- 0, PruneAfter <- 0,
    CleanupAfter <- 0, TokenTTL <- 0, MaxTime <- 0

TwoProbes == INSTANCE Fleet WITH
    Probes <- {"p1", "p2"}, Hosts <- {"h1"}, Keys <- {"k1"}, TagNames <- {"a"}, Tenants <- {}, Tokens <- {"tk"},
    TokenKinds <- {Kind(TRUE, "no_tenant")}, Heartbeats <- Readings(FALSE), TagInputs <- {{}}, Levels <- {"remediate"},
    Actors <- {"x"}, MayFail <- FALSE, OfflineAfter <- 0, PruneAfter <- 0, CleanupAfter <- 0,
    TokenTTL <- 0, MaxTime <- 1

MadeElsewhere == {[probe |-> "x", from |-> 0, until |-> 1, ca |-> ca, boot |-> 0] : ca \in BOOLEAN}

Certificates == INSTANCE ProbeCertificates WITH
    Probes <- {"p1"}, Mode <- "optional", Requested <- {9}, DefaultTTL <- 1, MaxTTL <- 2, Skew <- 1,
    Foreign <- MadeElsewhere, MaxTime <- 2, MaxRestarts <- 1,
    now <- certClock, fleet <- certFleet, issued <- certificates, restarts <- certRestarts

Descriptor(id, name, cluster, tenant) == [id |-> id, name |-> name, cluster |-> cluster, tenant |-> tenant]
LowerCase(s) == CASE s = "A" -> "a" [] s = "T" -> "t" [] OTHER -> s
SortPlace(id) == IF id = "a" THEN 1 ELSE 2
Equal(field, needle) == field = needle
EmptyQuery == [source |-> "", cluster |-> "", tenant |-> "", status |-> "", tag |-> "", search |-> ""]
NarrowQuery == [EmptyQuery EXCEPT !.cluster = "c", !.tenant = "t", !.status = "online", !.search = "p"]
ProbeSets == {{}, {[id |-> "p", status |-> "online", tag |-> ""]}}

Twins == INSTANCE Federation WITH
    Descriptors <- {Descriptor("A", "", "", ""), Descriptor("a", "n", "c", "T")},
    Rank <- SortPlace, Lower <- LowerCase, Matches <- Equal, Worlds <- ProbeSets,
    Queries <- {EmptyQuery, NarrowQuery}, Grants <- {{}, {"t"}}, Readers <- {"r1"}, StaleAfter <- 0, MaxTime <- 1

Owners == INSTANCE Federation WITH
    Descriptors <- {Descriptor("", "b", "c", "T"), Descriptor("a", "n", "c", "T")},
    Rank <- SortPlace, Lower <- LowerCase, Matches <- Equal, Worlds <- ProbeSets,
    Queries <- {EmptyQuery}, Grants <- {{}, {"t"}}, Readers <- {"r1"}, StaleAfter <- 0, MaxTime <- 0

Discovery == INSTANCE Discovery WITH
    Requests <- {"r1"}, Prefixes <- {23, 30, 31, 32}, Concurrent <- 1, Candidates <- {"a1"},
    Movers <- {"m1", "m2"}, MaxRestarts <- 1

Cloud == INSTANCE CloudConnectors WITH
    Connectors <- {"c1", "c2"}, Providers <- {"aws"}, Admins <- {"a1", "a2"}, MaxScans <- 2,
    handler <- cloudHandler

OneSlug(t) == "s"

Tenancy == INSTANCE Tenancy WITH Tenants <- {"t1", "t2"}, Users <- {"u1"}, Probes <- {"p1"}, SlugOf <- OneSlug

Writes == {[host |-> "h1", mode |-> ""], [host |-> "", mode |-> "agent"]}

Enrichments ==
    {[kind |-> "enrich", netconf |-> TRUE, snmp |-> FALSE, creds |-> TRUE],
     [kind |-> "update", body |-> [host |-> "", mode |-> "agent"]]}

Questions ==
    Enrichments
    \cup {[kind |-> "enrich", netconf |-> FALSE, snmp |-> TRUE, creds |-> c] : c \in BOOLEAN}
    \cup {[kind |-> k, creds |-> c] : k \in {"scan", "inventory", "command"}, c \in BOOLEAN}

Network == INSTANCE NetworkDevices WITH
    Ids <- {"d1"}, Writes <- Writes, Callers <- {"c1"}, Asks <- Questions, Keys <- {"hostname"}, MaxTime <- 2,
    now <- deviceClock, scans <- deviceScans, jobs <- deviceJobs, conn <- deviceConn

Enrichment == INSTANCE NetworkDevices WITH
    Ids <- {"d1"}, Writes <- Writes, Callers <- {"c1", "c2"}, Asks <- Enrichments, Keys <- {"hostname"}, MaxTime <- 0,
    now <- deviceClock, scans <- deviceScans, jobs <- deviceJobs, conn <- deviceConn

Permissions == {{"read"}, {"admin"}}
OidcClaims == {[sub |-> "s1", name |-> "n2", role |-> "viewer"]}

Accounts == INSTANCE Access WITH
    LocalIds <- {"u1", "u2"}, Subjects <- {"s1"}, Names <- {"n1", "n2"}, CustomRoles <- {"x"},
    PermSets <- Permissions, Claims <- OidcClaims, Tokens <- {"t1"}, KeyIds <- {}, Clients <- {"c1"},
    Lifetime <- 1, AutoCreate <- TRUE, MaxTime <- 1

ApiKeys == INSTANCE Access WITH
    LocalIds <- {"u1"}, Subjects <- {"s1"}, Names <- {"n1", "n2"}, CustomRoles <- {},
    PermSets <- Permissions, Claims <- OidcClaims, Tokens <- {"t1"}, KeyIds <- {"k1"}, Clients <- {"c1", "c2"},
    Lifetime <- 1, AutoCreate <- TRUE, MaxTime <- 0

Scope(c) == CASE c = "c1" -> "A" [] c = "c2" -> "B" [] OTHER -> ""
Body(valid) == [valid |-> valid, command |-> "x", policy |-> "nil", enabled |-> "unset"]

Scopes == INSTANCE JobDefinitions WITH
    Jobs <- {"j1"}, Clients <- {"c0", "c1", "c2"}, Workspace <- Scope, Forms <- {Body(TRUE), Body(FALSE)},
    Limits <- {0}, DefaultLimit <- 2, MaxLimit <- 3, MaxRuns <- 0, MaxRestarts <- 0

Edits == INSTANCE JobDefinitions WITH
    Jobs <- {"j1"}, Clients <- {"c0", "c1"}, Workspace <- Scope, Forms <- {Body(TRUE)},
    Limits <- {1}, DefaultLimit <- 2, MaxLimit <- 3, MaxRuns <- 1, MaxRestarts <- 1

Dock == INSTANCE ModelDock WITH
    Profiles <- {"p1", "p2"}, HasEnv <- TRUE, Admins <- {"a1", "a2"}, Calls <- {"k1"}, MaxRev <- 2,
    MaxRestarts <- 1, raced <- dockRaced

Tokens(id) == 1 + (id % 3)

FailingChat == INSTANCE Chat WITH
    Clients <- {"c1"}, BufferSize <- 1, MaxSteps <- 1, Budget <- 3, Size <- Tokens, MaxAge <- 2,
    MaxMessages <- 4, MaxRestarts <- 1, MayFail <- TRUE, inbox <- chatInbox, asked <- chatAsked

SharedChat == INSTANCE Chat WITH
    Clients <- {"c1", "c2"}, BufferSize <- 1, MaxSteps <- 1, Budget <- 3, Size <- Tokens, MaxAge <- 2,
    MaxMessages <- 2, MaxRestarts <- 1, MayFail <- FALSE, inbox <- chatInbox, asked <- chatAsked

Parts == {"calls", "rotation", "levels", "probe", "failing", "probes", "certificates", "twins", "owners", "discovery", "cloud",
          "tenancy", "network", "enrichment", "accounts", "keys", "scopes", "edits", "dock", "chat", "chats"}

Init ==
    /\ part \in Parts
    /\ CASE part = "rotation" -> Rotation!Init
         [] part = "levels" -> PolicyPush!Init
         [] OTHER -> Commands!Init
    /\ CASE part = "probes" -> TwoProbes!Init
         [] part = "failing" -> FailingTable!Init
         [] OTHER -> OneProbe!Init
    /\ IF part = "owners" THEN Owners!Init ELSE Twins!Init
    /\ IF part = "keys" THEN ApiKeys!Init ELSE Accounts!Init
    /\ IF part = "scopes" THEN Scopes!Init ELSE Edits!Init
    /\ IF part = "chats" THEN SharedChat!Init ELSE FailingChat!Init
    /\ Certificates!Init /\ Discovery!Init /\ Cloud!Init /\ Tenancy!Init /\ Dock!Init
    /\ IF part = "enrichment" THEN Enrichment!Init ELSE Network!Init

ProbeSteps ==
    \/ /\ \/ part = "calls" /\ Commands!Next
          \/ part = "rotation" /\ Rotation!Next
          \/ part = "levels" /\ PolicyPush!Next
       /\ UNCHANGED <<fleetVars, certVars, federationVars>>
    \/ /\ \/ part = "probe" /\ OneProbe!Next
          \/ part = "failing" /\ FailingTable!Next
          \/ part = "probes" /\ TwoProbes!Next
       /\ UNCHANGED <<channelVars, certVars, federationVars>>
    \/ part = "certificates" /\ Certificates!Next /\ UNCHANGED <<channelVars, fleetVars, federationVars>>
    \/ /\ (part = "twins" /\ Twins!Next) \/ (part = "owners" /\ Owners!Next)
       /\ UNCHANGED <<channelVars, fleetVars, certVars>>

OtherSteps ==
    \/ part = "discovery" /\ Discovery!Next /\ UNCHANGED <<cloudVars, tenancyVars, networkVars>>
    \/ part = "cloud" /\ Cloud!Next /\ UNCHANGED <<discoveryVars, tenancyVars, networkVars>>
    \/ part = "tenancy" /\ Tenancy!Next /\ UNCHANGED <<discoveryVars, cloudVars, networkVars>>
    \/ /\ (part = "network" /\ Network!Next) \/ (part = "enrichment" /\ Enrichment!Next)
       /\ UNCHANGED <<discoveryVars, cloudVars, tenancyVars>>

ServerSteps ==
    \/ /\ (part = "accounts" /\ Accounts!Next) \/ (part = "keys" /\ ApiKeys!Next)
       /\ UNCHANGED <<jobVars, dockVars, chatVars>>
    \/ /\ (part = "scopes" /\ Scopes!Next) \/ (part = "edits" /\ Edits!Next)
       /\ UNCHANGED <<accessVars, dockVars, chatVars>>
    \/ part = "dock" /\ Dock!Next /\ UNCHANGED <<accessVars, jobVars, chatVars>>
    \/ /\ (part = "chat" /\ FailingChat!Next) \/ (part = "chats" /\ SharedChat!Next)
       /\ UNCHANGED <<accessVars, jobVars, dockVars>>

Next ==
    \/ ProbeSteps /\ UNCHANGED <<part, otherVars, serverVars>>
    \/ OtherSteps /\ UNCHANGED <<part, probeVars, serverVars>>
    \/ ServerSteps /\ UNCHANGED <<part, probeVars, otherVars>>

Spec == Init /\ [][Next]_mcVars

\* The part on its own, for the run that shows assets without a connector.
CloudSpec == Init /\ part = "cloud" /\ [][Next]_mcVars

-----------------------------------------------------------------------------
(* Properties.                                                             *)

\* A result, or the expiry of a command, goes to an open and empty channel, so that nobody
\* blocks on it, also when two calls use one request id (cmdtracker; the result of the
\* first then goes to the call that was tracked last), and the connection the hub names
\* is the one being served, whatever dials, dies and is torn down in between
\* (websocket/hub.go).
ChannelsAreSound ==
    /\ part = "calls" => Commands!ResultChannelsAreFree /\ Commands!CurrentConnectionIsRegistered
    /\ part = "rotation" => Rotation!CurrentConnectionIsRegistered
    /\ part = "levels" => PolicyPush!CurrentConnectionIsRegistered

\* Key rotation and policy push: the server's key and level differ from the probe's only
\* when a message was lost, the probe could not save it, or two changes overlapped.
DifferOnlyByLoss ==
    /\ part = "rotation" => Rotation!LockedOutOnlyByLoss
    /\ part = "levels" => PolicyPush!PolicyDiffersOnlyByLoss


\* What an inventory says is so: a federated answer that calls itself complete misses
\* nothing, a completed discovery run has every host of its network, an asset of the
\* cloud has its connector while foreign keys are enforced, a device's answer is to the
\* question asked, and a probe is shown to those who may see it.
InventoriesAreTrue ==
    /\ part = "twins" => Twins!CompleteAnswersMissNothing
    /\ part = "owners" => Owners!CompleteAnswersMissNothing
    /\ part = "discovery" => Discovery!CompletedRunsAreWhole
    /\ part = "cloud" => Cloud!AssetsHaveTheirConnector
    /\ part = "tenancy" => Tenancy!ShownProbesWereVisible
    /\ part = "network" => Network!NetconfAnswersAreTheirOwn
    /\ part = "enrichment" => Enrichment!NetconfAnswersAreTheirOwn

\* auth, users and oidc: a request is served on the rights its account, role or key has
\* when it is checked, through logins, role edits, expiry and deletion.
ServedOnCurrentRights ==
    /\ part = "accounts" => Accounts!ServedOnCurrentRights
    /\ part = "keys" => ApiKeys!ServedOnCurrentRights

\* jobs/handlers.go reads a job, checks its workspace and acts in a later statement: rows
\* follow the requests and runs except for what an update read too early, and nobody
\* reaches a job of another workspace.
JobRowsAreKept ==
    /\ part = "scopes" => Scopes!RowsFollowTheirHistory /\ Scopes!RequestsStayInTheirWorkspace
    /\ part = "edits" => Edits!RowsFollowTheirHistory /\ Edits!RequestsStayInTheirWorkspace

\* What is kept in memory and in a table agree: the provider in use is the active profile
\* unless two activations raced (modeldock), and a chat message that was answered is
\* there after a restart, in a context that fits the model's budget (chat).
MemoryFollowsDatabase ==
    /\ part = "dock" => Dock!RuntimeFollowsDatabase
    /\ part = "chat" => FailingChat!SettledMessagesSurvive /\ FailingChat!ContextFits
    /\ part = "chats" => SharedChat!SettledMessagesSurvive /\ SharedChat!ContextFits

\* Decisions outlive what happens to repeat itself: an OIDC login does not demote an
\* administrator (oidc), and a report of a known host does not change what was decided
\* about it (discovery).
DecisionsAreKept ==
    /\ Accounts!OidcKeepsAdmins
    /\ Discovery!DecisionsSurviveReports

\* "expected cascading delete to keep 1 asset" (cloudconnectors/store_test.go): the assets
\* of a connector go with it.
AssetsGoWithTheConnector == Cloud!AssetsGoWithTheConnector
=============================================================================
