----------------------------- MODULE MCS3RunLog -----------------------------
(***************************************************************************)
(* A scheduler, a worker and a command on one bucket.                      *)
(***************************************************************************)
EXTENDS S3RunLog

MCWorkers == {"worker"}
MCCommands == {"command"}
=============================================================================
