--------------------------- MODULE MCMemoryQueue ----------------------------
(* MemoryQueue on a small instance: see MCMemoryQueue.cfg.                 *)
EXTENDS MemoryQueue

CONSTANTS j1, j2, j3, w1, w2

MCJobs == {j1, j2, j3}
MCWorkers == {w1, w2}
=============================================================================
