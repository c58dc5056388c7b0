-------------------------- MODULE MCPostgresQueue ---------------------------
(* PostgresQueue on a small instance: see MCPostgresQueue.cfg.             *)
EXTENDS PostgresQueue

CONSTANTS j1, j2, j3, w1, w2

MCJobs == {j1, j2, j3}
MCWorkers == {w1, w2}
=============================================================================
