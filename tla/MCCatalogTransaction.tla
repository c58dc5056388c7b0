------------------------ MODULE MCCatalogTransaction ------------------------
(***************************************************************************)
(* Two threads of one process on a catalog. They write relations with the  *)
(* columns of the table, in its order or another, with some of them, with  *)
(* none, and without the merge key.                                        *)
(***************************************************************************)
EXTENDS CatalogTransaction, TLC

CONSTANTS t1, t2

MCThreads == {t1, t2}

Rel(merge, cols, keys) == [merge |-> merge, cols |-> cols, keys |-> keys]

MCRelations ==
    {Rel("replace", <<MergeKey, "a">>, {1, 2}),
     Rel("append", <<MergeKey, "a">>, {2}),
     Rel("append", <<"a", MergeKey>>, {1}),
     Rel("append", <<MergeKey, "b">>, {3}),
     Rel("append", <<"c">>, {1}),
     Rel("upsert", <<MergeKey, "a">>, {2, 3}),
     Rel("upsert", <<MergeKey, "a", "b">>, {2}),
     Rel("upsert", <<"a", "b">>, {1})}

Symmetry == Permutations(MCThreads)
=============================================================================
