----------------------------- MODULE Compliance -----------------------------
(***************************************************************************)
(* Compliance scans (compliance/scanner.go) and their results              *)
(* (compliance/store.go).                                                  *)
(*                                                                         *)
(* A scan selects probes and checks and runs one goroutine for each probe, *)
(* a few of them at a time.  A goroutine runs the checks one by one, stamps*)
(* a result before the check's command is run, and at the end stores its   *)
(* results: two statements for each, the current result and the history.   *)
(* Scans may overlap.                                                      *)
(***************************************************************************)
EXTENDS Naturals, FiniteSets, Sequences

CONSTANTS
    Probes, Checks,
    Kind(_),       \* probe -> "agent" or "remote"
    Tags(_),       \* probe -> its tags, in lower case
    Requests,      \* what a scan may name: records of ids and tags
    Scans,         \* scan ids, one scan each
    Concurrent,    \* probes scanned at a time (4)
    MaxTime

VARIABLES
    now,
    online,     \* probe -> it is connected
    scans,      \* scan -> "idle", "running" or "done"
    worker,     \* scan -> probe -> its goroutine
    current,    \* compliance_results: <<check, probe>> -> row
    history,    \* compliance_history
    after       \* scan -> scans that had been answered when it began

complianceVars == <<now, online, scans, worker, current, history, after>>

NoRow == [scan |-> "none", at |-> 0, status |-> "none"]
NoWorker == [step |-> "none", left |-> {}, check |-> "none", at |-> 0, out |-> {}, row |-> <<>>]

\* selectProbes: by id or by tag, all when neither is named.
SelectProbes(req) ==
    IF req.ids = {} /\ req.tags = {} THEN Probes
    ELSE {p \in Probes : p \in req.ids \/ Tags(p) \cap req.tags # {}}

\* HandleScan and Scan up to the loop: every selected probe has a goroutine.
Scan(s, req) ==
    /\ scans[s] = "idle"
    /\ scans' = [scans EXCEPT ![s] = "running"]
    /\ worker' = [worker EXCEPT ![s] = [p \in Probes |->
                     IF p \in SelectProbes(req) THEN [NoWorker EXCEPT !.step = "waiting"] ELSE NoWorker]]
    /\ after' = [after EXCEPT ![s] = {t \in Scans : scans[t] = "done"}]
    /\ UNCHANGED <<now, online, current, history>>

\* The goroutines that hold the semaphore of a scan.
Holding(s) == {p \in Probes : worker[s][p].step \in {"checks", "check", "save", "history"}}

\* buildExecutor: a remote probe is tried whatever its status; an agent must be
\* online, once, when its turn comes.
Executor(p) == Kind(p) = "remote" \/ online[p]

\* sem <- struct{}{}, then buildExecutor.
Acquire(s, p) ==
    /\ worker[s][p].step = "waiting" /\ Cardinality(Holding(s)) < Concurrent
    /\ worker' = [worker EXCEPT ![s][p] =
                     IF Executor(p) THEN [NoWorker EXCEPT !.step = "checks", !.left = Checks]
                     ELSE [NoWorker EXCEPT !.step = "save",
                              !.out = {[check |-> c, scan |-> s, at |-> now, status |-> "skipped"] : c \in Checks}]]
    /\ UNCHANGED <<now, online, scans, current, history, after>>

\* runCheck up to CheckFunc: the result has its timestamp.
StartCheck(s, p, c) ==
    /\ worker[s][p].step = "checks" /\ c \in worker[s][p].left
    /\ worker' = [worker EXCEPT ![s][p] = [@ EXCEPT !.step = "check", !.check = c, !.at = now]]
    /\ UNCHANGED <<now, online, scans, current, history, after>>

\* What CheckFunc may find; without an answer in time the status is unknown.
Outcomes(p) == {"unknown"} \cup (IF Executor(p) THEN {"pass", "fail"} ELSE {})

\* The end of runCheck; the last one goes on to the results.
EndCheck(s, p) ==
    /\ worker[s][p].step = "check"
    /\ LET w == worker[s][p]
       IN  \E status \in Outcomes(p) :
               worker' = [worker EXCEPT ![s][p] =
                   [w EXCEPT !.step = IF w.left = {w.check} THEN "save" ELSE "checks",
                             !.left = @ \ {w.check},
                             !.out = @ \cup {[check |-> w.check, scan |-> s, at |-> w.at, status |-> status]}]]
    /\ UNCHANGED <<now, online, scans, current, history, after>>

\* Mutant: the conflict leaves the row that is there.
UpsertKeepsFirst(old, row) ==
    IF old = NoRow THEN [scan |-> row.scan, at |-> row.at, status |-> row.status] ELSE old

\* INSERT ... ON CONFLICT(check_id, probe_id) DO UPDATE, whatever the timestamps.
Upsert(old, row) == [scan |-> row.scan, at |-> row.at, status |-> row.status]

\* UpsertResult's first statement; an error skips the second.
UpsertResult(s, p) ==
    /\ worker[s][p].step = "save" /\ worker[s][p].out # {}
    /\ \E row \in worker[s][p].out :
           \/ /\ current' = [current EXCEPT ![<<row.check, p>>] = Upsert(@, row)]
              /\ worker' = [worker EXCEPT ![s][p] = [@ EXCEPT !.step = "history", !.row = <<row>>]]
           \/ /\ worker' = [worker EXCEPT ![s][p] = [@ EXCEPT !.out = @ \ {row}]]
              /\ UNCHANGED current
    /\ UNCHANGED <<now, online, scans, history, after>>

\* Its second statement.
AppendHistory(s, p) ==
    /\ worker[s][p].step = "history"
    /\ LET row == worker[s][p].row[1]
       IN  /\ history' = history \cup {[probe |-> p, check |-> row.check, scan |-> s, at |-> row.at]}
           /\ worker' = [worker EXCEPT ![s][p] = [@ EXCEPT !.step = "save", !.out = @ \ {row}, !.row = <<>>]]
    /\ UNCHANGED <<now, online, scans, current, after>>

\* The goroutine releases the semaphore.
Release(s, p) ==
    /\ worker[s][p].step = "save" /\ worker[s][p].out = {}
    /\ worker' = [worker EXCEPT ![s][p] = [NoWorker EXCEPT !.step = "ended"]]
    /\ UNCHANGED <<now, online, scans, current, history, after>>

\* wg.Wait and the response.
Answer(s) ==
    /\ scans[s] = "running"
    /\ \A p \in Probes : worker[s][p].step \in {"none", "ended"}
    /\ scans' = [scans EXCEPT ![s] = "done"]
    /\ worker' = [worker EXCEPT ![s] = [p \in Probes |-> NoWorker]]
    /\ UNCHANGED <<now, online, current, history, after>>

Toggle(p) == online' = [online EXCEPT ![p] = ~@] /\ UNCHANGED <<now, scans, worker, current, history, after>>
Tick == now < MaxTime /\ now' = now + 1 /\ UNCHANGED <<online, scans, worker, current, history, after>>

Init ==
    /\ now = 0
    /\ online = [p \in Probes |-> TRUE]
    /\ scans = [s \in Scans |-> "idle"]
    /\ worker = [s \in Scans |-> [p \in Probes |-> NoWorker]]
    /\ current = [k \in Checks \X Probes |-> NoRow]
    /\ history = {}
    /\ after = [s \in Scans |-> {}]

Next ==
    \/ Tick
    \/ \E p \in Probes : Toggle(p)
    \/ \E s \in Scans :
           \/ \E req \in Requests : Scan(s, req)
           \/ Answer(s)
           \/ \E p \in Probes :
                  \/ Acquire(s, p) \/ EndCheck(s, p) \/ UpsertResult(s, p) \/ AppendHistory(s, p) \/ Release(s, p)
                  \/ \E c \in Checks : StartCheck(s, p, c)

Spec == Init /\ [][Next]_complianceVars

\* The result that is shown for a check of a probe is never one of a scan that
\* had been answered before a later scan began and stored its own; a scan in
\* progress cannot bring an older answer back, and not more probes are scanned
\* at a time than the semaphore allows.
LaterScansPrevail ==
    /\ \A row \in history : current[<<row.check, row.probe>>].scan \notin after[row.scan]
    /\ \A s \in Scans : Cardinality(Holding(s)) <= Concurrent
=============================================================================
