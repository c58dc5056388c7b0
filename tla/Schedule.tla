------------------------------ MODULE Schedule ------------------------------
(***************************************************************************)
(* When a step is due (conduit_etl/core/models.py, Schedule), for a source *)
(* the daemon visits again and again: the schedule is the only gate of a   *)
(* source. Schedule.is_due compares the time at which the tick started     *)
(* with the time at which the last successful run was recorded, so both    *)
(* ends of a run matter, and so does what happens while it runs.           *)
(*                                                                         *)
(* Time is counted in units of Unit to the minute, from the start of an    *)
(* hour. Of the five fields of a cron expression the first two are here,   *)
(* on a clock with Minutes in an hour and Hours in a day.                  *)
(***************************************************************************)
EXTENDS Integers, Sequences

CONSTANTS Unit, Minutes, Hours,
          Schedules,    \* the schedules considered, see IsSchedule
          MaxTime,      \* bound on the clock
          MaxFailures   \* and on failed runs

\* One part of a cron field: `*' or a-b (n is n-n), with /step (1 when absent).
Part == [star : BOOLEAN, from : Nat, to : Nat, step : Nat \ {0}]

\* interval is in units; minute and hour are fields of the cron expression.
IsSchedule(s) ==
    /\ s.kind \in {"always", "interval", "cron"}
    /\ s.interval \in Nat \ {0}
    /\ s.minute \subseteq Part /\ s.hour \subseteq Part

ASSUME ScheduleAssumption ==
    /\ {Unit, Minutes, Hours} \subseteq Nat \ {0}
    /\ {MaxTime, MaxFailures} \subseteq Nat
    /\ \A s \in Schedules : IsSchedule(s)

VARIABLES schedule, \* of the step; no action changes it
          now,
          last,     \* {finished_at of the last success}, or {} for none
          started,  \* {now of the tick that runs the step}, or {}
          runs,     \* history: the runs, oldest first
          failures

scheduleVars == <<schedule, now, last, started, runs, failures>>

Kind == schedule.kind
Interval == schedule.interval

\* _parse_cron_field
ParseField(parts, low, high) ==
    UNION {LET start == IF p.star THEN low ELSE p.from
               end == IF p.star THEN high ELSE p.to
           IN  {v \in start..end : (v - start) % p.step = 0} : p \in parts}

Minute(t) == t \div Unit

\* _CronSpec.matches
Matches(t) ==
    /\ Minute(t) % Minutes \in ParseField(schedule.minute, 0, Minutes - 1)
    /\ (Minute(t) \div Minutes) % Hours
           \in ParseField(schedule.hour, 0, Hours - 1)

\* Mutant of IsDue: the times are compared as they are, not by the minute.
IsDueBySecond ==
    CASE Kind = "always" -> TRUE
      [] Kind = "interval" -> \A t \in last : now - t >= Interval
      [] Kind = "cron" -> Matches(now) /\ \A t \in last : t < now

\* Mutant of IsDue: the interval is counted from one unit before.
IsDueEarly ==
    CASE Kind = "always" -> TRUE
      [] Kind = "interval" -> \A t \in last : now - t + 1 >= Interval
      [] Kind = "cron" -> Matches(now)
                          /\ \A t \in last : Minute(t) < Minute(now)

\* Schedule.is_due
IsDue ==
    CASE Kind = "always" -> TRUE
      [] Kind = "interval" -> \A t \in last : now - t >= Interval
      [] Kind = "cron" -> Matches(now)
                          /\ \A t \in last : Minute(t) < Minute(now)

ScheduleInit ==
    /\ schedule \in Schedules
    /\ now = 0 /\ last = {} /\ started = {} /\ runs = <<>> /\ failures = 0

TimePasses ==
    /\ now < MaxTime
    /\ now' = now + 1
    /\ UNCHANGED <<schedule, last, started, runs, failures>>

\* A tick that finds the step due and submits it; now is the tick's.
Tick ==
    /\ started = {}
    /\ IsDue
    /\ started' = {now}
    /\ UNCHANGED <<schedule, now, last, runs, failures>>

Ends(ok) ==
    /\ \E t \in started :
          runs' = Append(runs, [start |-> t, end |-> now, ok |-> ok])
    /\ started' = {}
    /\ UNCHANGED <<schedule, now>>

\* The run is recorded: a success is the next last_run.
Succeeds == Ends(TRUE) /\ last' = {now} /\ UNCHANGED failures

Fails ==
    /\ failures < MaxFailures
    /\ failures' = failures + 1
    /\ Ends(FALSE)
    /\ UNCHANGED last

ScheduleNext == TimePasses \/ Tick \/ Succeeds \/ Fails

ScheduleSpec == ScheduleInit /\ [][ScheduleNext]_scheduleVars

-----------------------------------------------------------------------------
(* Properties                                                              *)

\* Two successful runs of a cron step never start in one minute, however long
\* either takes and whatever failed in between.
SucceedsOncePerMinute ==
    \A i, j \in DOMAIN runs :
        i < j /\ runs[i].ok /\ runs[j].ok /\ Kind = "cron"
        => Minute(runs[i].start) < Minute(runs[j].start)

\* An interval step starts no run sooner than Interval after its last success.
RestsForInterval ==
    \A i, j \in DOMAIN runs :
        i < j /\ runs[i].ok /\ Kind = "interval"
        => runs[j].start - runs[i].end >= Interval

\* models.py: fire at most once per matching minute.
FiresOncePerMinute ==
    \A i, j \in DOMAIN runs :
        i < j /\ Kind = "cron" => Minute(runs[i].start) < Minute(runs[j].start)

\* models.py: a cron step is due on cron ticks. In a matching minute in which
\* no run has started, it is.
DueOnCronTicks ==
    /\ Kind = "cron" /\ Matches(now) /\ started = {}
    /\ \A i \in DOMAIN runs : Minute(runs[i].start) # Minute(now)
    => IsDue
=============================================================================
