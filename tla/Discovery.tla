------------------------------ MODULE Discovery ------------------------------
(***************************************************************************)
(* Network discovery (controlplane/discovery): the scan of an address range*)
(* with one goroutine for each host and the record of the run, and the     *)
(* candidates for deployment that probes report and administrators decide. *)
(***************************************************************************)
EXTENDS Naturals, FiniteSets

CONSTANTS
    Requests,      \* ids of scan requests
    Prefixes,      \* prefix lengths asked for
    Concurrent,    \* hosts probed at a time (64)
    Candidates,    \* addresses probes report
    Movers,        \* callers of Transition
    MaxRestarts

VARIABLES
    discoveryRuns,  \* request -> its discovery_runs row and candidates
    job,            \* request -> the handler and its goroutines
    left,           \* request -> its client has gone away (the context is done)
    cand,           \* deploy_candidates: address -> status, "none" if there is no row
    mover,          \* caller -> the transition it is making
    reboots

discoveryVars == <<discoveryRuns, job, left, cand, mover, reboots>>

NoRun == [status |-> "none", prefix |-> 0, rows |-> {}]
NoJob == [step |-> "none", todo |-> {}, waiting |-> {}, probing |-> {}, out |-> {}]
AtRest == [step |-> "idle", addr |-> "none", to |-> "none", read |-> "none"]

MaxPrefixRange == 24
MaxHostsPerScan == 256

\* ValidateCIDR, for an IPv4 range.
ValidateCIDR(ones) == ones >= MaxPrefixRange /\ 2^(32 - ones) <= MaxHostsPerScan

\* HostsFromCIDR: the last bytes of the addresses, network and broadcast left out.
HostsFromCIDR(ones) ==
    LET total == 2^(32 - ones)
    IN  {i \in 0..(total - 1) : ones <= 30 => i \notin {0, total - 1}}

\* HandleScan up to the scan: CreateRun.
CreateRun(r, ones) ==
    /\ job[r].step = "none" /\ discoveryRuns[r] = NoRun
    /\ ValidateCIDR(ones)
    /\ discoveryRuns' = [discoveryRuns EXCEPT ![r] = [status |-> "running", prefix |-> ones, rows |-> {}]]
    /\ job' = [job EXCEPT ![r] = [NoJob EXCEPT !.step = "launch", !.todo = HostsFromCIDR(ones)]]
    /\ UNCHANGED <<left, cand, mover, reboots>>

\* Scan's loop: a goroutine for the next host, or an error once the context is done.
Launch(r) ==
    /\ job[r].step = "launch"
    /\ job' = [job EXCEPT ![r] =
           IF @.todo = {} THEN [@ EXCEPT !.step = "wait"]
           ELSE IF left[r] THEN [@ EXCEPT !.step = "failed"]
           ELSE LET h == CHOOSE h \in @.todo : \A o \in @.todo : h <= o
                IN  [@ EXCEPT !.todo = @ \ {h}, !.waiting = @ \cup {h}]]
    /\ UNCHANGED <<discoveryRuns, left, cand, mover, reboots>>

\* The goroutine gets a place, or gives up.
GetPlace(r, h) ==
    /\ h \in job[r].waiting
    /\ \/ /\ Cardinality(job[r].probing) < Concurrent
          /\ job' = [job EXCEPT ![r] = [@ EXCEPT !.waiting = @ \ {h}, !.probing = @ \cup {h}]]
       \/ /\ left[r]
          /\ job' = [job EXCEPT ![r] = [@ EXCEPT !.waiting = @ \ {h}]]
    /\ UNCHANGED <<discoveryRuns, left, cand, mover, reboots>>

\* scanHost ends; select between out (room for every host) and the context.
ScanHost(r, h) ==
    /\ h \in job[r].probing
    /\ \/ job' = [job EXCEPT ![r] = [@ EXCEPT !.probing = @ \ {h}, !.out = @ \cup {h}]]
       \/ /\ left[r]
          /\ job' = [job EXCEPT ![r] = [@ EXCEPT !.probing = @ \ {h}]]
    /\ UNCHANGED <<discoveryRuns, left, cand, mover, reboots>>

\* Mutant: the channel is closed while hosts still wait for a place.
AllProbed(j) == j.probing = {}

\* wg.Wait.
AllDone(j) == j.waiting = {} /\ j.probing = {}

Collect(r) ==
    /\ job[r].step = "wait" /\ AllDone(job[r])
    /\ job' = [job EXCEPT ![r] = [@ EXCEPT !.step = "save"]]
    /\ UNCHANGED <<discoveryRuns, left, cand, mover, reboots>>

\* ReplaceCandidates, one transaction.
ReplaceCandidates(r) ==
    /\ job[r].step = "save"
    /\ \/ /\ discoveryRuns' = [discoveryRuns EXCEPT ![r] = [@ EXCEPT !.rows = job[r].out]]
          /\ job' = [job EXCEPT ![r] = [@ EXCEPT !.step = "complete"]]
       \/ job' = [job EXCEPT ![r] = [@ EXCEPT !.step = "failed"]] /\ UNCHANGED discoveryRuns
    /\ UNCHANGED <<left, cand, mover, reboots>>

\* CompleteRun; its own error leaves the run running.
CompleteRun(r) ==
    /\ job[r].step \in {"complete", "failed"}
    /\ \/ discoveryRuns' = [discoveryRuns EXCEPT ![r] =
              [@ EXCEPT !.status = IF job[r].step = "complete" THEN "completed" ELSE "failed"]]
       \/ UNCHANGED discoveryRuns
    /\ job' = [job EXCEPT ![r] = [NoJob EXCEPT !.step = "over"]]
    /\ UNCHANGED <<left, cand, mover, reboots>>

\* The client goes away: the request's context is done.
Leave(r) ==
    /\ ~ left[r] /\ job[r].step \notin {"none", "over"}
    /\ left' = [left EXCEPT ![r] = TRUE]
    /\ UNCHANGED <<discoveryRuns, job, cand, mover, reboots>>

ValidTransitions(s) ==
    CASE s = "discovered" -> {"approved", "rejected"}
      [] s = "approved"   -> {"deploying", "rejected"}
      [] s = "deploying"  -> {"deployed", "failed"}
      [] s = "failed"     -> {"approved"}
      [] OTHER            -> {}

\* Mutant: a report starts the candidate again.
UpsertStatusAgain(s) == "discovered"

\* Upsert: a new row is discovered, the status of an old one is not touched.
UpsertStatus(s) == IF s = "none" THEN "discovered" ELSE s

\* HandleDiscoveryReport, for one host.
HandleDiscoveryReport(a) ==
    /\ cand' = [cand EXCEPT ![a] = UpsertStatus(@)]
    /\ UNCHANGED <<discoveryRuns, job, left, mover, reboots>>

\* Transition, called by approve, reject and deploy results: the read and the check.
Transition(m, a, to) ==
    /\ mover[m] = AtRest /\ to \in ValidTransitions(cand[a])
    /\ mover' = [mover EXCEPT ![m] = [step |-> "update", addr |-> a, to |-> to, read |-> cand[a]]]
    /\ UNCHANGED <<discoveryRuns, job, left, cand, reboots>>

\* Its UPDATE, for the id whatever the status is now.
UpdateStatus(m) ==
    /\ mover[m].step = "update"
    /\ cand' = [cand EXCEPT ![mover[m].addr] = mover[m].to]
    /\ mover' = [mover EXCEPT ![m] = AtRest]
    /\ UNCHANGED <<discoveryRuns, job, left, reboots>>

\* The process ends and starts again; the tables stay.
Restart ==
    /\ reboots < MaxRestarts /\ reboots' = reboots + 1
    /\ job' = [r \in Requests |-> IF job[r].step = "none" THEN NoJob ELSE [NoJob EXCEPT !.step = "over"]]
    /\ mover' = [m \in Movers |-> AtRest]
    /\ UNCHANGED <<discoveryRuns, left, cand>>

Init ==
    /\ discoveryRuns = [r \in Requests |-> NoRun]
    /\ job = [r \in Requests |-> NoJob]
    /\ left = [r \in Requests |-> FALSE]
    /\ cand = [a \in Candidates |-> "none"]
    /\ mover = [m \in Movers |-> AtRest]
    /\ reboots = 0

\* HandleApproveCandidate, HandleRejectCandidate and HandleDeployResult.
Targets == {"approved", "rejected", "deployed", "failed"}

Next ==
    \/ Restart
    \/ \E r \in Requests :
           \/ \E ones \in Prefixes : CreateRun(r, ones)
           \/ Launch(r) \/ Collect(r) \/ ReplaceCandidates(r) \/ CompleteRun(r) \/ Leave(r)
           \/ \E h \in job[r].waiting \cup job[r].probing : GetPlace(r, h) \/ ScanHost(r, h)
    \/ \E a \in Candidates : HandleDiscoveryReport(a)
    \/ \E m \in Movers : UpdateStatus(m) \/ \E a \in Candidates, to \in Targets : Transition(m, a, to)

Spec == Init /\ [][Next]_discoveryVars

\* A run that says completed has a row for every host of its range, unless its
\* client went away while it ran; and no run has rows of another range.
CompletedRunsAreWhole ==
    \A r \in Requests :
        LET run == discoveryRuns[r]
        IN  /\ run.rows # {} => run.rows \subseteq HostsFromCIDR(run.prefix)
            /\ (run.status = "completed" /\ ~ left[r]) => run.rows = HostsFromCIDR(run.prefix)

\* "updates the source probe, banner, and OS guess without touching the status"
\* (CandidateStore.Upsert): what an administrator decided outlives any number of
\* reports of the same host; a rejected host is offered again only when a
\* decision was on its way already.
DecisionsSurviveReports ==
    [][\A a \in Candidates :
           (cand[a] # "none" /\ cand'[a] # cand[a])
               => \E m \in Movers : mover[m].addr = a /\ cand'[a] \in ValidTransitions(mover[m].read)
      ]_discoveryVars
=============================================================================
