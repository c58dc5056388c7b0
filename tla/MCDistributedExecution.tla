----------------------- MODULE MCDistributedExecution -----------------------
(* DistributedExecution on small instances. Each .cfg picks the jobs, the  *)
(* workers and the faults of one question.                                 *)
EXTENDS DistributedExecution

CONSTANTS j1, j2, w1, w2

OneJob == {j1}
TwoJobs == {j1, j2}
OneWorker == {w1}
TwoWorkers == {w1, w2}

AllFaults == FaultKinds
NoFaults == {}
OnlyCrash == {"crash"}
=============================================================================
