-------------------------------- MODULE Rows --------------------------------
(***************************************************************************)
(* A database table is a function from the primary keys it holds to its    *)
(* rows.  An UPDATE by primary key is an EXCEPT; this module adds what the *)
(* handlers need beyond that.                                              *)
(***************************************************************************)

\* `table' is a table of rows of `Row' whose keys are among `Ids'.
IsTable(table, Ids, Row) ==
    /\ DOMAIN table \subseteq Ids
    /\ table \in [DOMAIN table -> Row]

\* INSERT of `row' under the key `id'.
Inserted(table, id, row) ==
    [i \in DOMAIN table \cup {id} |-> IF i = id THEN row ELSE table[i]]

\* The table that holds no row.
EmptyTable == [i \in {} |-> {}]
=============================================================================
