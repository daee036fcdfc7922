------------------------------ MODULE MCCatalog ------------------------------
(***************************************************************************)
(* Two databases over three lives of the process, two tables over two, and *)
(* one of each over one.                                                   *)
(***************************************************************************)
EXTENDS Catalog
CONSTANTS d1, d2, t1, t2
MCDatabases == {d1, d2}
MCTables == {t1, t2}
MCWorkloads == {[databases |-> MCDatabases, tables |-> {}, lives |-> 3],
                [databases |-> {}, tables |-> MCTables, lives |-> 2]}
    \union {[databases |-> {d}, tables |-> {t}, lives |-> 1] : d \in MCDatabases, t \in MCTables}
Symmetry == Permutations(MCDatabases) \union Permutations(MCTables)
=============================================================================
