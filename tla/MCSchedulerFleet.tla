-------------------------- MODULE MCSchedulerFleet --------------------------
(* SchedulerFleet on small instances. Each .cfg picks one question.        *)
EXTENDS SchedulerFleet

CONSTANTS j1, j2, w1, w2, s1, s2

TwoJobs == {j1, j2}
OneWorker == {w1}
TwoWorkers == {w1, w2}
OneScheduler == {s1}
TwoSchedulers == {s1, s2}

AllOfOne == [w \in TwoWorkers |-> s1]
OneEach == (w1 :> s1) @@ (w2 :> s2)
=============================================================================
