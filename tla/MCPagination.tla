---------------------------- MODULE MCPagination ----------------------------
(* Pagination for TLC: objects that a name and a namespace tell apart, and   *)
(* objects they do not (two kinds, or two clusters).                         *)
EXTENDS Pagination

Object(uid, name, namespace, kind, cluster) ==
    [uid |-> uid, name |-> name, namespace |-> namespace, kind |-> kind, cluster |-> cluster]

\* Every name and namespace once.
DistinctRows == {Object(1, 1, 1, 1, 1), Object(2, 1, 2, 2, 1), Object(3, 2, 1, 1, 1),
                 Object(4, 2, 2, 2, 2), Object(5, 3, 1, 1, 2)}

\* The same name and namespace in two clusters.
TwinRows == {Object(1, 1, 1, 1, 1), Object(2, 2, 1, 1, 1), Object(3, 2, 1, 1, 2)}

Default    == <<>>
ByKind     == <<[field |-> "kind", desc |-> FALSE]>>

Ascending  == {Default, ByKind}
DefaultOnly == {Default}

\* The theorems about pages apply to the instance without twins.
ASSUME OrderlyInstance == Rows = DistinctRows /\ Orders = Ascending => Orderly
=============================================================================
