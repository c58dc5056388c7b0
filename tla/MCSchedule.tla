----------------------------- MODULE MCSchedule -----------------------------
(***************************************************************************)
(* Schedules on a clock of three-minute hours and two-hour days.           *)
(***************************************************************************)
EXTENDS Schedule

Star(n) == [star |-> TRUE, from |-> 0, to |-> 0, step |-> n]
Between(a, b) == [star |-> FALSE, from |-> a, to |-> b, step |-> 1]

\* The cron expressions `* *' and `*/2 0', and an interval of an hour.
EveryMinute == [kind |-> "cron", interval |-> 1,
                minute |-> {Star(1)}, hour |-> {Star(1)}]
EverySecond == [kind |-> "cron", interval |-> 1,
                minute |-> {Star(2)}, hour |-> {Between(0, 0)}]
EachHour == [kind |-> "interval", interval |-> Minutes * Unit,
             minute |-> {}, hour |-> {}]

MCSchedules == {EverySecond, EachHour}
OnlyEveryMinute == {EveryMinute}
OnlyEverySecond == {EverySecond}
=============================================================================
