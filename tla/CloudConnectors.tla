--------------------------- MODULE CloudConnectors ---------------------------
(***************************************************************************)
(* Cloud connectors (controlplane/cloudconnectors): administrators create, *)
(* change and delete connectors and have them scanned.  A scan reads the   *)
(* connector, runs two provider commands, replaces the connector's assets  *)
(* in one transaction and records the outcome in another statement.        *)
(*                                                                         *)
(* NewStore switches foreign keys on with a PRAGMA, which concerns the one *)
(* connection that runs it; database/sql opens further connections when    *)
(* statements overlap, and those do not enforce them.                      *)
(***************************************************************************)
EXTENDS Naturals, FiniteSets

CONSTANTS
    Connectors,    \* ids
    Providers,     \* aws, gcp, azure
    Admins,        \* handlers in progress
    MaxScans       \* scans in a behaviour

VARIABLES
    connectors,    \* cloud_connectors: id -> row
    assets,        \* cloud_assets: set of rows
    handler,       \* admin -> its request
    second,        \* a connection without foreign keys has been opened
    scanned,       \* scans begun so far
    overlapped     \* scans that ran beside another change of their connector: ghost

cloudVars == <<connectors, assets, handler, second, scanned, overlapped>>

Absent == [there |-> FALSE, provider |-> "none", status |-> "none", scan |-> 0]
Free == [step |-> "idle", id |-> "none", provider |-> "none", scan |-> 0, out |-> {}, outcome |-> "none"]

There(c) == connectors[c].there

\* A change of c by a: the scans of c in progress elsewhere overlap it.
Overlap(c, a) == {handler[b].scan : b \in {b \in Admins \ {a} : handler[b].id = c /\ handler[b].scan # 0}}

\* HandleCreateConnector: validated, then one INSERT; ids are never used again.
CreateConnector(c, p) ==
    /\ connectors[c] = Absent
    /\ connectors' = [connectors EXCEPT ![c] = [Absent EXCEPT !.there = TRUE, !.provider = p]]
    /\ UNCHANGED <<second, assets, handler, scanned, overlapped>>

\* HandleUpdateConnector: the row is read, the request merged into it (a provider
\* may be left out), and all of it written back.
ReadForUpdate(a, c) ==
    /\ handler[a] = Free /\ There(c)
    /\ \E p \in Providers \cup {connectors[c].provider} :
           handler' = [handler EXCEPT ![a] = [Free EXCEPT !.step = "update", !.id = c, !.provider = p]]
    /\ UNCHANGED <<second, connectors, assets, scanned, overlapped>>

UpdateConnector(a) ==
    /\ handler[a].step = "update"
    /\ LET c == handler[a].id
       IN  /\ connectors' = IF There(c) THEN [connectors EXCEPT ![c] = [@ EXCEPT !.provider = handler[a].provider]]
                            ELSE connectors
           /\ overlapped' = overlapped \cup Overlap(c, a)
    /\ handler' = [handler EXCEPT ![a] = Free]
    /\ UNCHANGED <<second, assets, scanned>>

\* Mutant: foreign keys are off, as they are in SQLite unless asked for.
NeverEnforced == {FALSE}

\* Whether the connection a statement gets enforces foreign keys.
Enforced == IF second THEN BOOLEAN ELSE {TRUE}

\* Statements of two handlers overlap.
OpenConnection ==
    /\ ~ second /\ Cardinality({a \in Admins : handler[a] # Free}) > 1
    /\ second' = TRUE
    /\ UNCHANGED <<connectors, assets, handler, scanned, overlapped>>

\* HandleDeleteConnector: DELETE, with ON DELETE CASCADE.
DeleteConnector(a, c) ==
    /\ handler[a] = Free /\ There(c)
    /\ connectors' = [connectors EXCEPT ![c] = [@ EXCEPT !.there = FALSE]]
    /\ \E fk \in Enforced : assets' = IF fk THEN {x \in assets : x.connector # c} ELSE assets
    /\ overlapped' = overlapped \cup Overlap(c, a)
    /\ UNCHANGED <<second, handler, scanned>>

\* HandleScanConnector up to the scan: the connector is read, enabled or not.
StartScan(a, c) ==
    /\ handler[a] = Free /\ There(c) /\ scanned < MaxScans
    /\ scanned' = scanned + 1
    /\ handler' = [handler EXCEPT ![a] = [Free EXCEPT !.step = "scan", !.id = c,
                      !.provider = connectors[c].provider, !.scan = scanned + 1]]
    /\ overlapped' = overlapped \cup (IF Overlap(c, a) = {} THEN {} ELSE Overlap(c, a) \cup {scanned + 1})
    /\ UNCHANGED <<second, connectors, assets>>

\* CLIAdapter.Scan: scanAWS, scanGCP or scanAzure, by the provider that was read.
\* A command that fails, or output that cannot be parsed, is an error; otherwise
\* the account is an asset, and every instance with an id.
Scan(a) ==
    /\ handler[a].step = "scan"
    /\ handler' = [handler EXCEPT ![a] =
           [@ EXCEPT !.step = "replace",
                     !.out = {[connector |-> handler[a].id, provider |-> handler[a].provider,
                               kind |-> k, scan |-> handler[a].scan] : k \in {"account", "instance"}}]]
    /\ UNCHANGED <<second, connectors, assets, scanned, overlapped>>

ScanFails(a) ==
    /\ handler[a].step = "scan"
    /\ handler' = [handler EXCEPT ![a] = [@ EXCEPT !.step = "result", !.outcome = "error"]]
    /\ UNCHANGED <<second, connectors, assets, scanned, overlapped>>

\* ReplaceAssetsForConnector: delete and insert in one transaction, which fails
\* when the connector is gone (foreign key) and may fail otherwise.
ReplaceAssets(a) ==
    /\ handler[a].step = "replace"
    /\ \/ /\ \E fk \in Enforced : fk => There(handler[a].id)
          /\ assets' = {x \in assets : x.connector # handler[a].id} \cup handler[a].out
          /\ handler' = [handler EXCEPT ![a] = [@ EXCEPT !.step = "result", !.outcome = "success"]]
       \/ /\ handler' = [handler EXCEPT ![a] = [@ EXCEPT !.step = "result", !.outcome = "error"]]
          /\ UNCHANGED assets
    /\ UNCHANGED <<second, connectors, scanned, overlapped>>

\* SetConnectorScanResult: no row, no effect.
SetConnectorScanResult(a) ==
    /\ handler[a].step = "result"
    /\ LET c == handler[a].id
       IN  connectors' = IF There(c)
                         THEN [connectors EXCEPT ![c] = [@ EXCEPT !.status = handler[a].outcome, !.scan = handler[a].scan]]
                         ELSE connectors
    /\ handler' = [handler EXCEPT ![a] = Free]
    /\ UNCHANGED <<second, assets, scanned, overlapped>>

Init ==
    /\ connectors = [c \in Connectors |-> Absent]
    /\ assets = {}
    /\ handler = [a \in Admins |-> Free]
    /\ second = FALSE
    /\ scanned = 0
    /\ overlapped = {}

Next ==
    \/ OpenConnection
    \/ \E c \in Connectors, p \in Providers : CreateConnector(c, p)
    \/ \E a \in Admins :
           \/ UpdateConnector(a) \/ Scan(a) \/ ScanFails(a) \/ ReplaceAssets(a) \/ SetConnectorScanResult(a)
           \/ \E c \in Connectors : ReadForUpdate(a, c) \/ DeleteConnector(a, c) \/ StartScan(a, c)

Spec == Init /\ [][Next]_cloudVars

\* As long as one connection is enough, every asset belongs to a connector that
\* exists, in every order of deletions and late scans; all assets of a connector
\* come from one scan; and unless changes of the connector overlapped, a status
\* of success names the scan that found them.
AssetsHaveTheirConnector ==
    /\ ~ second => \A x \in assets : There(x.connector)
    /\ \A x, y \in assets : x.connector = y.connector => x.scan = y.scan
    /\ \A c \in Connectors :
           (There(c) /\ connectors[c].status = "success" /\ connectors[c].scan \notin overlapped
                /\ \A a \in Admins : handler[a].id # c)
               => \A x \in assets : x.connector = c => x.scan = connectors[c].scan

\* "expected cascading delete to keep 1 asset" (store_test.go): the assets of a
\* connector go with it.
AssetsGoWithTheConnector == \A x \in assets : There(x.connector)
=============================================================================
