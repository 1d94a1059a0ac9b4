--------------------------- MODULE EvidenceBundle ---------------------------
(***************************************************************************)
(* The export of an evidence bundle (server/audit_evidence_bundle.go): the *)
(* audit log, the inventory, the compliance history and the approvals are  *)
(* read one after the other, each while its store goes on changing, and    *)
(* the export itself is audited at the end, however it ended.              *)
(*                                                                         *)
(* Time is in half seconds.  The audit log is selected by the text of its  *)
(* timestamps, everything else by time.  0 as a bound means none.          *)
(***************************************************************************)
EXTENDS Naturals, Sequences, FiniteSets, SequencesExt

CONSTANTS
    Probes,
    Categories,     \* of compliance checks
    Workspaces,     \* of audit events and approvals; "" is none
    Filters,        \* [since, until, framework, probes, workspace]
    HistoryLimit,   \* evidenceComplianceHistoryLimit
    Window,         \* an approval's time to live
    MaxRecords,     \* bound on each store
    MaxTime

VARIABLES
    clock,
    events,         \* audit_events: sequence of [at, probe, ws, diff, export]
    scans,          \* compliance_history: sequence of [at, probe, category]
    approvals,      \* sequence of [created, ends, probe, ws, decided]
    export,         \* the request
    bundle,         \* what it has collected
    exportsMade     \* exports that ended: ghost

evidenceVars == <<clock, events, scans, approvals, export, bundle, exportsMade>>

NoFilter == [since |-> 0, until |-> 0, framework |-> "", probes |-> {}, workspace |-> ""]
NoExport == [step |-> "idle", filter |-> NoFilter, marks |-> <<0, 0, 0>>, ok |-> FALSE]
Empty == [audit |-> {}, diffs |-> {}, compliance |-> {}, truncated |-> FALSE, approvals |-> {}]

\* The order of timestamps as text (RFC3339Nano drops trailing zeros).
TextKey(t) == 2 * (t \div 2) + (IF t % 2 = 1 THEN 0 ELSE 1)

\* Mutant: an empty selection selects nothing.
SelectedOnly(filter, probe) == probe \in filter.probes

\* filterAuditEventsByProbeIDs and its likes: no selection is all probes.
Selected(filter, probe) == filter.probes = {} \/ probe \in filter.probes

\* buildPersistedQuery's conditions on the workspace and the timestamp.
InQuery(filter, e) ==
    /\ filter.workspace \in {"", e.ws}
    /\ filter.since # 0 => TextKey(e.at) >= TextKey(filter.since)
    /\ filter.until # 0 => TextKey(e.at) <= TextKey(filter.until)

\* AllByWorkspace: a request without a workspace is everybody's.
InWorkspace(filter, a) == "" \in {filter.workspace, a.ws} \/ a.ws = filter.workspace

\* timeRangeOverlaps.
TimeRangeOverlaps(since, until, start, end) ==
    /\ since # 0 => end >= since
    /\ until # 0 => start <= until

Record(r) == events' = Append(events, r)

\* Any recordAudit of the server, with or without a before and an after.
RecordEvent(p, ws, diff) ==
    /\ Len(events) < MaxRecords
    /\ Record([at |-> clock, probe |-> p, ws |-> ws, diff |-> diff, export |-> FALSE])
    /\ UNCHANGED <<clock, scans, approvals, export, bundle, exportsMade>>

\* A compliance result is stored.
RecordScan(p, c) ==
    /\ Len(scans) < MaxRecords
    /\ scans' = Append(scans, [at |-> clock, probe |-> p, category |-> c])
    /\ UNCHANGED <<clock, events, approvals, export, bundle, exportsMade>>

\* The approval queue: a request, and its decision, which moves its end.
RequestApproval(p, ws) ==
    /\ Len(approvals) < MaxRecords
    /\ approvals' = Append(approvals, [created |-> clock, ends |-> clock + Window, probe |-> p, ws |-> ws, decided |-> FALSE])
    /\ UNCHANGED <<clock, events, scans, export, bundle, exportsMade>>

DecideApproval(i) ==
    /\ ~ approvals[i].decided /\ clock <= approvals[i].ends
    /\ approvals' = [approvals EXCEPT ![i] = [@ EXCEPT !.decided = TRUE, !.ends = clock]]
    /\ UNCHANGED <<clock, events, scans, export, bundle, exportsMade>>

\* auditEvidenceBundleFilterFromRequest: the period must not end before it begins.
Refused(f) == f.since # 0 /\ f.until # 0 /\ f.until < f.since

\* handleAuditEvidenceBundleExport up to the build.
BeginExport(f) ==
    /\ export.step = "idle"
    /\ export' = [step |-> IF Refused(f) THEN "end" ELSE "audit", filter |-> f,
                  marks |-> <<Len(events), Len(scans), Len(approvals)>>, ok |-> FALSE]
    /\ bundle' = Empty
    /\ UNCHANGED <<clock, events, scans, approvals, exportsMade>>

FailExport == export' = [export EXCEPT !.step = "end"] /\ UNCHANGED bundle

\* QueryPersisted, filterAuditEventsByProbeIDs, filterChangeDiffEvents.
ReadAudit ==
    LET f == export.filter
        kept == {i \in DOMAIN events : InQuery(f, events[i]) /\ Selected(f, events[i].probe)}
    IN  /\ export.step = "audit"
        /\ \/ /\ bundle' = [bundle EXCEPT !.audit = kept, !.diffs = {i \in kept : events[i].diff}]
              /\ export' = [export EXCEPT !.step = "compliance"]
           \/ FailExport
        /\ UNCHANGED <<clock, events, scans, approvals, exportsMade>>

\* Compliance history: the newest rows by the text of their time (ties in any order).
Newest(n) ==
    IF Len(scans) <= n THEN {DOMAIN scans}
    ELSE {s \in SUBSET DOMAIN scans :
             /\ Cardinality(s) = n
             /\ \A i \in s, j \in DOMAIN scans \ s : TextKey(scans[i].at) >= TextKey(scans[j].at)}

\* collectEvidenceComplianceResults: the limit comes before the filter.
ReadCompliance ==
    LET f == export.filter
    IN  /\ export.step = "compliance"
        /\ \/ \E rows \in Newest(HistoryLimit) :
                  /\ bundle' = [bundle EXCEPT !.truncated = Len(scans) > HistoryLimit,
                                              !.compliance = {i \in rows : /\ Selected(f, scans[i].probe)
                                                                           /\ f.framework # "" => scans[i].category = f.framework
                                                                           /\ TimeRangeOverlaps(f.since, f.until, scans[i].at, scans[i].at)}]
                  /\ export' = [export EXCEPT !.step = "approvals"]
           \/ FailExport
        /\ UNCHANGED <<clock, events, scans, approvals, exportsMade>>

\* collectEvidenceApprovalRecords.
ReadApprovals ==
    LET f == export.filter
    IN  /\ export.step = "approvals"
        /\ bundle' = [bundle EXCEPT !.approvals =
               {i \in DOMAIN approvals : /\ Selected(f, approvals[i].probe) /\ InWorkspace(f, approvals[i])
                                         /\ TimeRangeOverlaps(f.since, f.until, approvals[i].created, approvals[i].ends)}]
        /\ export' = [export EXCEPT !.step = "write"]
        /\ UNCHANGED <<clock, events, scans, approvals, exportsMade>>

\* The zip file goes to the client, who may have left.
WriteBundle ==
    /\ export.step = "write"
    /\ \E ok \in BOOLEAN : export' = [export EXCEPT !.step = "end", !.ok = ok]
    /\ UNCHANGED <<clock, events, scans, approvals, bundle, exportsMade>>

\* The deferred recordAuditEvidenceBundleExport.
EndExport ==
    /\ export.step = "end"
    /\ Record([at |-> clock, probe |-> "", ws |-> export.filter.workspace, diff |-> FALSE, export |-> TRUE])
    /\ export' = NoExport
    /\ bundle' = Empty
    /\ exportsMade' = exportsMade + 1
    /\ UNCHANGED <<clock, scans, approvals>>

Tick == clock < MaxTime /\ clock' = clock + 1 /\ UNCHANGED <<events, scans, approvals, export, bundle, exportsMade>>

Init ==
    /\ clock = 2
    /\ events = <<>> /\ scans = <<>> /\ approvals = <<>>
    /\ export = NoExport /\ bundle = Empty
    /\ exportsMade = 0

Next ==
    \/ \E p \in Probes :
           \/ \E ws \in Workspaces : RequestApproval(p, ws) \/ \E diff \in BOOLEAN : RecordEvent(p, ws, diff)
           \/ \E c \in Categories : RecordScan(p, c)
    \/ \E i \in DOMAIN approvals : DecideApproval(i)
    \/ exportsMade = 0 /\ \E f \in Filters : BeginExport(f)
    \/ ReadAudit \/ ReadCompliance \/ ReadApprovals \/ WriteBundle \/ EndExport
    \/ Tick

Spec == Init /\ [][Next]_evidenceVars

\* Whether a time is in the period of the filter, and whether its text says so: a whole
\* second has no fraction in RFC3339Nano, and sorts after the fractions of that second.
InPeriod(f, at) == (f.since # 0 => at >= f.since) /\ (f.until # 0 => at <= f.until)
TextAgrees(f, at) == \A bound \in {f.since, f.until} \ {0} : at \div 2 = bound \div 2 => at % 2 = bound % 2

\* buildAuditEvidenceBundle: a bundle that is written holds every audit event, compliance
\* result and approval of the selected probes and of the workspace that was stored before the
\* export began and lies in the period, unless the compliance history had grown past its
\* limit; and no audit event from outside the period, no other probe's approval.  Only for
\* audit events in the second of a bound, where one of the two times is whole and the other is
\* not, the comparison of texts may go either way.
BundlesAreWhole ==
    export.step \in {"write", "end"} /\ (export.step = "end" => export.ok) =>
        LET f == export.filter
            Asked(r) == f.probes = {} \/ r.probe \in f.probes
        IN  /\ \A i \in DOMAIN events :
                   TextAgrees(f, events[i].at) =>
                       /\ i \in bundle.audit => InPeriod(f, events[i].at)
                       /\ /\ i <= export.marks[1] /\ InPeriod(f, events[i].at)
                          /\ Asked(events[i]) /\ f.workspace \in {"", events[i].ws}
                          => i \in bundle.audit
            /\ \A i \in 1..export.marks[2] :
                   /\ ~ bundle.truncated /\ Asked(scans[i])
                   /\ f.framework \in {"", scans[i].category} /\ InPeriod(f, scans[i].at)
                   => i \in bundle.compliance
            /\ \A i \in 1..export.marks[3] :
                   /\ Asked(approvals[i]) /\ f.workspace \in {"", approvals[i].ws}
                   /\ InPeriod(f, approvals[i].created)
                   => i \in bundle.approvals
            /\ \A i \in bundle.approvals : Asked(approvals[i])
=============================================================================
