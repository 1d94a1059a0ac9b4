----------------------------- MODULE Reliability -----------------------------
(***************************************************************************)
(* The reliability package of the control plane: the request telemetry     *)
(* behind the API (request_telemetry.go), the scorecard computed from it   *)
(* (scorecard.go, server/reliability.go) and the failure drills            *)
(* (drills.go, server/drills_handler.go).                                  *)
(*                                                                         *)
(* A sample gets its timestamp before record takes the mutex, so samples   *)
(* reach the buffer out of order, and a scorecard reads the clock before   *)
(* it copies the buffer.  A tick of the clock is TickMillis milliseconds.  *)
(***************************************************************************)
EXTENDS Integers, Sequences, SequencesExt, FiniteSetsExt

CONSTANTS
    Requests,        \* requests in flight at once
    MaxSamples,      \* capacity of the buffer
    MaxAge,          \* age, in ticks, at which samples are dropped
    TickMillis,      \* length of a tick
    Fleets,          \* fleets a scorecard may see: sequences of probe statuses
    Results,         \* command results it may see: sequences of exit codes
    MaxTime,         \* bound on the clock
    MaxRecords,      \* bound on the samples recorded
    MaxDrills        \* bound on the drills run

VARIABLES
    now,       \* the clock
    req,       \* each request: idle, serving since start, or stamped and waiting to record
    samples,   \* RequestTelemetry.samples
    recorded,  \* every sample ever recorded, in order
    scoring,   \* the scorecard request: idle, or its window and its reading of the clock
    card,      \* the last scorecard answered
    drills     \* rows of the drill_results table

reliabilityVars == <<now, req, samples, recorded, scoring, card, drills>>

Idle == [pc |-> "idle", start |-> 0, at |-> 0, status |-> 0]
NoScoring == [pc |-> "idle", window |-> 0, at |-> 0]
-----------------------------------------------------------------------------
\* Request telemetry

\* The prefix of old samples that record drops.
Expired(s, at) ==
    LET Stale(i) == s[i].at < at - MaxAge
    IN  Cardinality({i \in DOMAIN s : \A j \in 1..i : Stale(j)})

DropFirst(s, n) == SubSeq(s, n + 1, Len(s))

Record(s, sample) ==
    LET appended == Append(s, sample)
        valid == DropFirst(appended, Expired(appended, sample.at))
    IN  IF Len(valid) > MaxSamples THEN DropFirst(valid, Len(valid) - MaxSamples) ELSE valid

Begin(r) ==
    /\ req[r].pc = "idle"
    /\ Len(recorded) < MaxRecords
    /\ req' = [req EXCEPT ![r] = [Idle EXCEPT !.pc = "serving", !.start = now]]
    /\ UNCHANGED <<now, samples, recorded, scoring, card, drills>>

\* The handler returns: the recorder holds the first status written, and the
\* sample takes its timestamp and its duration.
Stamp(r, status) ==
    /\ req[r].pc = "serving"
    /\ req' = [req EXCEPT ![r].pc = "stamped", ![r].at = now, ![r].status = status]
    /\ UNCHANGED <<now, samples, recorded, scoring, card, drills>>

Recorded(r) ==
    /\ req[r].pc = "stamped"
    /\ LET sample == [at |-> req[r].at, status |-> req[r].status,
                      duration |-> (req[r].at - req[r].start) * TickMillis]
       IN  /\ samples' = Record(samples, sample)
           /\ recorded' = Append(recorded, sample)
    /\ req' = [req EXCEPT ![r] = Idle]
    /\ UNCHANGED <<now, scoring, card, drills>>

InWindow(s, window, at) == SelectSeq(s, LAMBDA x : x.at >= at - window /\ x.at <= at)

\* The sample at index ceil(0.95 n) - 1 of the sorted durations.
P95(s) ==
    LET rank == (95 * Len(s) + 99) \div 100
        Within(d) == Cardinality({i \in DOMAIN s : s[i].duration <= d})
    IN  IF s = <<>> THEN 0
        ELSE Min({d \in {s[i].duration : i \in DOMAIN s} : Within(d) >= rank})

Count(s, Test(_)) == Cardinality({i \in DOMAIN s : Test(s[i])})

Snapshot(s, window, at) ==
    LET in == InWindow(s, window, at)
    IN  [total |-> Len(in),
         successful |-> Count(in, LAMBDA x : x.status < 500),
         errors |-> Count(in, LAMBDA x : x.status >= 500),
         p95 |-> P95(in)]
-----------------------------------------------------------------------------
\* Scorecard.  A value is num/den in thousandths; thresholds are in tenths of
\* a percent, and for the latency in milliseconds over den = 1000.

Indicator(samplesSeen, num, den, target, warning, critical, higherBetter) ==
    LET AtLeast(t) == IF higherBetter THEN 1000 * num >= t * den ELSE 1000 * num <= t * den
    IN  CASE samplesSeen <= 0     -> [status |-> "unknown", score |-> 0]
          [] samplesSeen > 0 /\ AtLeast(target) -> [status |-> "pass", score |-> 100]
          [] samplesSeen > 0 /\ ~AtLeast(target) /\ AtLeast(warning) -> [status |-> "warning", score |-> 70]
          [] samplesSeen > 0 /\ ~AtLeast(target) /\ ~AtLeast(warning) ->
                [status |-> "fail", score |-> IF AtLeast(critical) THEN 40 ELSE 20]

ControlPlaneSurface(stats) ==
    <<Indicator(stats.total, stats.successful, stats.total, 995, 990, 970, TRUE),
      Indicator(stats.total, stats.p95, 1000, 500, 1000, 1500, FALSE),
      Indicator(stats.total, stats.errors, stats.total, 10, 20, 50, FALSE)>>

ProbeFleetSurface(fleet, results) ==
    LET connected == Count(fleet, LAMBDA p : p \in {"online", "degraded"})
        coded == SelectSeq(results, LAMBDA x : x # "none")
    IN  <<Indicator(Len(fleet), connected, Len(fleet), 950, 900, 800, TRUE),
          Indicator(Len(coded), Count(coded, LAMBDA x : x = "0"), Len(coded), 980, 950, 900, TRUE)>>

Rounded(total, n) == (2 * total + n) \div (2 * n)

StatusOf(failing, warning) ==
    IF failing > 0 THEN "critical" ELSE IF warning > 0 THEN "warning" ELSE "healthy"

Rollup(indicators) ==
    LET With(st) == Count(indicators, LAMBDA x : x.status = st)
        scored == Len(indicators) - With("unknown")
        total == FoldSeq(LAMBDA x, acc : x.score + acc, 0, indicators)
    IN  [failing |-> With("fail"), warning |-> With("warning"),
         score  |-> IF scored > 0 THEN Rounded(total, scored) ELSE 0,
         status |-> IF scored > 0 THEN StatusOf(With("fail"), With("warning")) ELSE "unknown"]

\* Mutant: the overall status ignores the surfaces' failing indicators.
SummarizeWarnings(surfaces) ==
    LET scored == SelectSeq(surfaces, LAMBDA x : x.status # "unknown")
        Sum(Val(_)) == FoldSeq(LAMBDA x, acc : Val(x) + acc, 0, surfaces)
    IN  [score  |-> IF scored = <<>> THEN 0 ELSE Rounded(Sum(LAMBDA x : x.score), Len(scored)),
         status |-> IF scored = <<>> THEN "unknown" ELSE StatusOf(0, Sum(LAMBDA x : x.warning))]

SummarizeOverall(surfaces) ==
    LET scored == SelectSeq(surfaces, LAMBDA x : x.status # "unknown")
        Sum(Val(_)) == FoldSeq(LAMBDA x, acc : Val(x) + acc, 0, surfaces)
    IN  [score  |-> IF scored = <<>> THEN 0 ELSE Rounded(Sum(LAMBDA x : x.score), Len(scored)),
         status |-> IF scored = <<>> THEN "unknown"
                    ELSE StatusOf(Sum(LAMBDA x : x.failing), Sum(LAMBDA x : x.warning))]

BuildScorecard(stats, fleet, results) ==
    SummarizeOverall(<<Rollup(ControlPlaneSurface(stats)), Rollup(ProbeFleetSurface(fleet, results))>>)

NoCard == [answered |-> FALSE, status |-> "unknown", window |-> 0, at |-> 0, upTo |-> 0, fleet |-> <<>>]

\* handleReliabilityScorecard clips the window and reads the clock ...
ScorecardBegin(window) ==
    /\ scoring.pc = "idle"
    /\ scoring' = [pc |-> "reading", window |-> IF window > MaxAge THEN MaxAge ELSE window, at |-> now]
    /\ UNCHANGED <<now, req, samples, recorded, card, drills>>

\* ... and then copies the samples and reads the fleet and the audit log.
ScorecardAnswer(fleet, results) ==
    /\ scoring.pc = "reading"
    /\ card' = [answered |-> TRUE, window |-> scoring.window, at |-> scoring.at,
                upTo |-> Len(recorded), fleet |-> fleet,
                status |-> BuildScorecard(Snapshot(samples, scoring.window, scoring.at),
                                          fleet, results).status]
    /\ scoring' = NoScoring
    /\ UNCHANGED <<now, req, samples, recorded, drills>>
-----------------------------------------------------------------------------
\* Drills.  The server builds its runner without dependencies, so each drill
\* runs on the fresh stubs of drills.go.

\* Enqueue or Submit n times on a stub queue of the given capacity: each call is
\* one critical section, so the order of the callers does not matter.
Accepted(n, capacity) == Min({n, capacity})

ProbeDisconnect ==
    LET markedOffline == {"probe"}
        markedOnline == markedOffline \ {"probe"}
    IN  "probe" \in markedOffline /\ "probe" \notin markedOnline

DBWriteFailure ==
    LET Write(db, d) == [ok |-> TRUE, data |-> d]
    IN  Write("", "probe-check").ok /\ Write("probe-check", "recovery-probe").ok

\* The stub waits 5 seconds or for the context, which ends after 200 ms at most.
LLMTimeout(canceled) ==
    LET waited == IF canceled THEN 0 ELSE 200
    IN  waited < 5000

WebSocketFlood(burst, capacity) ==
    LET rejected == burst - Accepted(burst, capacity)
        drained == 0
    IN  rejected # 0 /\ Accepted(1, capacity - drained) = 1

\* A failed Drain is only an observation.
ConcurrentJobStorm(storm, capacity) == Accepted(storm, capacity) # 0

Scenarios == {"probe_disconnect", "db_write_failure", "llm_timeout", "websocket_flood", "concurrent_job_storm"}

Passes(scenario, canceled) ==
    CASE scenario = "probe_disconnect"     -> ProbeDisconnect
      [] scenario = "db_write_failure"     -> DBWriteFailure
      [] scenario = "llm_timeout"          -> LLMTimeout(canceled)
      [] scenario = "websocket_flood"      -> WebSocketFlood(50, 10)
      [] scenario = "concurrent_job_storm" -> ConcurrentJobStorm(30, 20)
      [] OTHER                             -> FALSE

\* handleRunDrill: run the drill and save its result; a failed save is logged.
RunDrill(scenario, canceled, saved) ==
    /\ Len(drills) < MaxDrills
    /\ drills' = IF saved
                 THEN Append(drills, [scenario |-> scenario,
                                      status |-> IF Passes(scenario, canceled) THEN "pass" ELSE "fail"])
                 ELSE drills
    /\ UNCHANGED <<now, req, samples, recorded, scoring, card>>
-----------------------------------------------------------------------------
Tick ==
    /\ now < MaxTime
    /\ now' = now + 1
    /\ UNCHANGED <<req, samples, recorded, scoring, card, drills>>

Init ==
    /\ now = 0
    /\ req = [r \in Requests |-> Idle]
    /\ samples = <<>>
    /\ recorded = <<>>
    /\ scoring = NoScoring
    /\ card = NoCard
    /\ drills = <<>>

Next ==
    \/ Tick
    \/ \E r \in Requests : Begin(r) \/ Recorded(r) \/ \E status \in {200, 500} : Stamp(r, status)
    \/ \E window \in 1..MaxAge + 1 : ScorecardBegin(window)
    \/ \E fleet \in Fleets, results \in Results : ScorecardAnswer(fleet, results)
    \/ \E scenario \in Scenarios \union {"unknown"}, canceled, saved \in BOOLEAN :
          RunDrill(scenario, canceled, saved)

Spec == Init /\ [][Next]_reliabilityVars
-----------------------------------------------------------------------------
\* The samples a card had to count: recorded when the buffer was copied, in its
\* window, among the last MaxSamples recorded, and not too old for the newest
\* sample recorded by then.
MustCount(c) ==
    LET seen == SubSeq(recorded, 1, c.upTo)
        newest == Max({seen[i].at : i \in DOMAIN seen})
        kept == DropFirst(seen, Max({0, Len(seen) - MaxSamples}))
    IN  SelectSeq(InWindow(kept, c.window, c.at), LAMBDA x : x.at >= newest - MaxAge)

\* A scorecard that says healthy is right about the API and the fleet: at least
\* 99.5 percent of the requests it had to count succeeded, their 95th percentile
\* is within 500 ms, and 95 percent of the probes it saw are connected, although
\* samples are recorded out of order, aged out and displaced while it is built
\* (record, Snapshot, summarizeOverall).
HealthyCardsAreRight ==
    card.status = "healthy" =>
        LET counted == IF card.upTo = 0 THEN <<>> ELSE MustCount(card)
        IN  /\ 1000 * Count(counted, LAMBDA x : x.status < 500) >= 995 * Len(counted)
            /\ P95(counted) <= 500
            /\ 100 * Count(card.fleet, LAMBDA p : p \in {"online", "degraded"}) >= 95 * Len(card.fleet)
=============================================================================
