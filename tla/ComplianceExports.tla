-------------------------- MODULE ComplianceExports --------------------------
(***************************************************************************)
(* Scheduled and one-off compliance reports (compliance/                   *)
(* export_scheduler.go and store_exports.go).  The scheduler's goroutine   *)
(* looks at every schedule each hour, writes the reports that are due and  *)
(* removes old ones.  Nothing in the server starts it yet: callers of the  *)
(* package do.                                                             *)
(***************************************************************************)
EXTENDS Naturals, Sequences, FiniteSetsExt

CONSTANTS
    Schedules,     \* sequence of records: format, period, enabled
    Formats,       \* formats asked for on demand
    Retention,     \* age at which a report is removed
    MaxExports,    \* reports made in a behaviour
    MaxTime

VARIABLES
    hour,       \* the clock, in hours
    exports,    \* compliance_exports: set of rows
    loop,       \* the scheduler's goroutine
    stopping,   \* Stop is waiting for the goroutine
    made        \* reports made so far, by whom: ghost

exportVars == <<hour, exports, loop, stopping, made>>

Idle == [step |-> "off", next |-> 0, at |-> 0, ticked |-> 0, canceled |-> FALSE]

\* Start: the goroutine begins with a tick; nothing happens while one runs,
\* one that was told to stop included.
Start ==
    /\ loop.step = "off"
    /\ loop' = [Idle EXCEPT !.step = "look", !.next = 1, !.at = hour, !.ticked = hour]
    /\ UNCHANGED <<hour, exports, stopping, made>>

\* Stop: cancel, then wait.
Stop ==
    /\ ~ stopping /\ stopping' = TRUE
    /\ loop' = [loop EXCEPT !.canceled = (loop.step # "off")]
    /\ UNCHANGED <<hour, exports, made>>

Stopped == stopping /\ loop.step = "off" /\ stopping' = FALSE /\ UNCHANGED <<hour, exports, loop, made>>

\* ListExports(1): the newest row, of whatever format.
Newest == {e \in exports : \A o \in exports : o.id # e.id => o.at <= e.at}

\* Mutant: every row is old enough.
DueAlways(entry, seen, at) == TRUE

\* isDue.
IsDue(entry, seen, at) == \A e \in seen : ~ (e.format = entry.format /\ at - e.at < entry.period)

\* tick, for one schedule: is it enabled and due?  (One row is read; an error
\* of the query skips the schedule.)
Look ==
    /\ loop.step = "look" /\ loop.next <= Len(Schedules)
    /\ LET entry == Schedules[loop.next]
           skip == [loop EXCEPT !.next = @ + 1]
       IN  \/ loop' = skip
           \/ /\ entry.enabled
              /\ \E seen \in IF exports = {} THEN {{}} ELSE {{e} : e \in Newest} :
                     loop' = IF IsDue(entry, seen, loop.at) THEN [loop EXCEPT !.step = "write"] ELSE skip
    /\ UNCHANGED <<hour, exports, stopping, made>>

\* SaveExport.
SaveExport(format, at, by) ==
    /\ made' = Append(made, [by |-> by, format |-> format, at |-> at])
    /\ exports' = exports \cup {[id |-> Len(made) + 1, format |-> format, at |-> at]}

\* generateExport: the report, or the error that kept it from being written, is
\* saved with the time of the tick; the save may fail.
GenerateExport ==
    /\ loop.step = "write" /\ Len(made) < MaxExports
    /\ loop' = [loop EXCEPT !.step = "look", !.next = @ + 1]
    /\ \/ SaveExport(Schedules[loop.next].format, loop.at, loop.next)
       \/ UNCHANGED <<exports, made>>
    /\ UNCHANGED <<hour, stopping>>

\* GenerateOnDemand: an error saves nothing.
GenerateOnDemand(format) ==
    /\ Len(made) < MaxExports
    /\ SaveExport(format, hour, 0)
    /\ UNCHANGED <<hour, loop, stopping>>

\* PurgeOldExports, at the end of a tick.
PurgeOldExports ==
    /\ loop.step = "look" /\ loop.next > Len(Schedules)
    /\ exports' = {e \in exports : e.at + Retention >= hour}
    /\ loop' = [loop EXCEPT !.step = "wait"]
    /\ UNCHANGED <<hour, stopping, made>>

\* run: the next tick, or the end.  A cancellation is seen here only.
Wake ==
    /\ loop.step = "wait"
    /\ \/ loop.canceled /\ loop' = Idle
       \/ /\ hour > loop.ticked
          /\ loop' = [loop EXCEPT !.step = "look", !.next = 1, !.at = hour, !.ticked = hour]
    /\ UNCHANGED <<hour, exports, stopping, made>>

Tick == hour < MaxTime /\ hour' = hour + 1 /\ UNCHANGED <<exports, loop, stopping, made>>

Init ==
    /\ hour = 0
    /\ exports = {}
    /\ loop = Idle
    /\ stopping = FALSE
    /\ made = <<>>

Next ==
    \/ Start \/ Stop \/ Stopped \/ Look \/ GenerateExport \/ PurgeOldExports \/ Wake \/ Tick
    \/ \E f \in Formats : GenerateOnDemand(f)

Spec == Init /\ [][Next]_exportVars

\* Two reports of one schedule are at least its period apart, through stops, starts, failed
\* saves and reports on demand, unless a report of another format is as new as the first of
\* them: isDue looks at the newest row of any format, where its comments say "no recent export
\* exists" and "the most recent export matching this schedule's format".
ScheduledReportsAreSpaced ==
    \A i, j \in DOMAIN made :
        (i < j /\ made[i].by = made[j].by /\ made[i].by # 0)
            => \/ made[j].at - made[i].at >= Schedules[made[i].by].period
               \/ \E k \in 1 .. j - 1 : made[k].format # made[i].format /\ made[k].at >= made[i].at
=============================================================================
