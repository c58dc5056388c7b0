------------------------------ MODULE LakeWrite ------------------------------
(***************************************************************************)
(* write_relation_to_lake (conduit_etl/catalog/base.py): the statements    *)
(* that write a relation into a table, by merge mode.                      *)
(*                                                                         *)
(* A relation has columns, in an order, and rows, of which only the value  *)
(* in the column of merge_key matters. A row of a table has a cell in each *)
(* column of the table; a cell is named for the column of the relation     *)
(* that its value was in. What the statements do is SQL: INSERT without a  *)
(* column list goes by position.                                           *)
(***************************************************************************)
EXTENDS Integers, Sequences, SequencesExt

Null == "NULL"
MergeKey == "key"

IsRelation(rel) ==
    /\ rel.merge \in {"replace", "append", "upsert"}
    /\ rel.cols # <<>> /\ IsInjective(rel.cols)

NoTable == [cols |-> <<>>, rows |-> {}]
Common(tab, rel) == ToSet(tab.cols) \cap ToSet(rel.cols)

-----------------------------------------------------------------------------
(* The statements                                                          *)

\* One row more for each key, with the same cells.
Insert(tab, rel, cells) ==
    [tab EXCEPT !.rows = @ \cup
        {[key |-> k, by |-> rel.by, cells |-> cells] : k \in rel.keys}]

\* CREATE OR REPLACE TABLE ... AS SELECT *
CreateOrReplace(rel) ==
    Insert([cols |-> rel.cols, rows |-> {}], rel, [c \in ToSet(rel.cols) |-> c])

\* INSERT INTO ... SELECT *
InsertByPosition(tab, rel) ==
    Insert(tab, rel,
           [c \in ToSet(tab.cols) |->
               rel.cols[SelectInSeq(tab.cols, LAMBDA d : d = c)]])

\* INSERT INTO ... (common columns) SELECT common columns
InsertCommon(tab, rel) ==
    Insert(tab, rel, [c \in ToSet(tab.cols) |->
                         IF c \in Common(tab, rel) THEN c ELSE Null])

\* DELETE FROM ... USING the staged rows WHERE the keys are equal; a cell of
\* another column equals no key.
DeleteMatching(tab, rel) ==
    [tab EXCEPT !.rows = {row \in @ : ~(/\ row.cells[MergeKey] = MergeKey
                                        /\ row.key \in rel.keys)}]

-----------------------------------------------------------------------------
(* The branches                                                            *)

Replaces(tab, rel) ==
    \/ rel.merge = "replace" \/ tab = NoTable
    \/ rel.merge = "append" /\ Common(tab, rel) = {}

Upserts(tab, rel) == ~Replaces(tab, rel) /\ rel.merge = "upsert"

\* The statements of an upsert raise when a column is missing, or one too many.
DeleteBinds(tab, rel) == MergeKey \in Common(tab, rel)
InsertBinds(tab, rel) == Len(tab.cols) = Len(rel.cols)

Appended(tab, rel) ==
    IF ToSet(tab.cols) = ToSet(rel.cols) THEN InsertByPosition(tab, rel)
                                         ELSE InsertCommon(tab, rel)

Written(tab, rel) ==
    IF Replaces(tab, rel) THEN CreateOrReplace(rel)
    ELSE IF Upserts(tab, rel)
         THEN InsertByPosition(DeleteMatching(tab, rel), rel)
         ELSE Appended(tab, rel)
=============================================================================
