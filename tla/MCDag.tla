------------------------------- MODULE MCDag --------------------------------
(***************************************************************************)
(* Every pipeline of three steps over three tables.                        *)
(***************************************************************************)
EXTENDS Dag

CONSTANTS a, b, c

MCTables == {a, b, c}
=============================================================================
