---------------------------- MODULE MCFileSources ----------------------------
(***************************************************************************)
(* Two sources, with patterns of two files and one, or with a file of both.*)
(***************************************************************************)
EXTENDS FileSources

MCSources == {"a", "b"}
MCPattern == [s \in MCSources |-> IF s = "a" THEN {1, 2} ELSE {3}]
MCShared == [s \in MCSources |-> {1}]
=============================================================================
