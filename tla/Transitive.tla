----------------------------- MODULE Transitive -----------------------------
(***************************************************************************)
(* Transitive relations (descendants+, owners+, linked+): the recursive    *)
(* CTE of internal/engine/transitive.go, as the database evaluates it.     *)
(*                                                                         *)
(* A row of the CTE is the chain of objects that led to it, from a root    *)
(* object to the row's own object; the columns path, depth and visited are *)
(* functions of the chain.  The database keeps rows it has yet to extend   *)
(* (frontier), takes them one at a time and adds their extensions.         *)
(***************************************************************************)
EXTENDS Naturals, Sequences, FiniteSets

CONSTANTS
    Objects,      \* uids in the objects table
    Clusters,
    Roots,        \* uids in root_objects
    MaxDepth,     \* spec.MaxDepth after Validate
    Limit,        \* relationSpec.Limit; 0 is no limit
    Filtered      \* relationSpec.Filters has a kind, a name or a namespace

ASSUME TransitiveAssumption ==
    /\ Roots \subseteq Objects
    /\ MaxDepth \in Nat \ {0}
    /\ Limit \in Nat
    /\ Filtered \in BOOLEAN

VARIABLES
    related,      \* the base relation: pairs the join condition accepts
    cluster,      \* column cluster of each object
    pc,
    frontier,     \* rows of the CTE not yet extended
    rows,         \* the CTE
    selected      \* rows of the final SELECT

vars == <<related, cluster, pc, frontier, rows, selected>>

Chains == Seq(Objects)

TypeOK ==
    /\ related \subseteq Objects \X Objects
    /\ cluster \in [Objects -> Clusters]
    /\ pc \in {"base", "recurse", "select", "done", "failed"}
    /\ frontier \subseteq rows
    /\ rows \subseteq Chains
    /\ selected \subseteq rows

Init ==
    /\ related \in SUBSET (Objects \X Objects)
    /\ cluster \in [Objects -> Clusters]
    /\ pc = "base"
    /\ frontier = {}
    /\ rows = {}
    /\ selected = {}

----------------------------------------------------------------------------
\* descendantJoinCond, ownerJoinCond or linkedJoinCond, AND the equality of
\* clusters that both SELECTs of the CTE add to it.
Joins(parent, child) ==
    /\ <<parent, child>> \in related
    /\ cluster[child] = cluster[parent]

\* Column visited.  The base case starts it with the child: the root is not
\* in it.
Visited(p) == {p[k] : k \in 2..Len(p)}

Depth(p) == Len(p) - 1

\* Mutant: no cycle check.
ExtensionsWithCycles(p) ==
    {Append(p, n) : n \in {m \in Objects : Joins(p[Len(p)], m) /\ Depth(p) < MaxDepth}}

\* Mutant: the depth limit is off by one.
ExtensionsTooShallow(p) ==
    {Append(p, n) : n \in {m \in Objects : /\ Joins(p[Len(p)], m)
                                           /\ m \notin Visited(p)
                                           /\ Depth(p) + 1 < MaxDepth}}

\* The recursive SELECT, for one row: cycle check and depth limit.
Extensions(p) ==
    {Append(p, n) : n \in {m \in Objects : /\ Joins(p[Len(p)], m)
                                           /\ m \notin Visited(p)
                                           /\ Depth(p) < MaxDepth}}

\* The SELECT of the base case: children of the roots.  (A relation without a
\* transitive form never gets here: RelationQuery's GenerateBlock fails.)
Base ==
    /\ pc = "base"
    /\ rows' = {p \in Roots \X Objects : Joins(p[1], p[2])}
    /\ frontier' = rows'
    /\ pc' = "recurse"
    /\ UNCHANGED <<related, cluster, selected>>

Recurse ==
    /\ pc = "recurse"
    /\ \E p \in frontier :
          /\ rows' = rows \cup Extensions(p)
          /\ frontier' = (frontier \ {p}) \cup Extensions(p)
    /\ UNCHANGED <<related, cluster, pc, selected>>

\* The CTE is complete.  The final SELECT filters on columns of curr, an
\* alias that exists only inside the CTE: with a filter the database rejects
\* the statement.
Read ==
    /\ pc = "recurse"
    /\ frontier = {}
    /\ pc' = IF Filtered THEN "failed" ELSE "select"
    /\ UNCHANGED <<related, cluster, frontier, rows, selected>>

\* Mutant: the rows come in no particular order.
SelectInAnyOrder ==
    /\ pc = "select"
    /\ Limit = 0 \/ Cardinality(selected) < Limit
    /\ \E p \in rows \ selected : selected' = selected \cup {p}
    /\ UNCHANGED <<related, cluster, pc, frontier, rows>>

\* The final SELECT with its LIMIT: rows come in the order the CTE produced
\* them, generation by generation.
Select ==
    /\ pc = "select"
    /\ Limit = 0 \/ Cardinality(selected) < Limit
    /\ \E p \in rows \ selected :
          /\ \A q \in rows \ selected : Len(p) <= Len(q)
          /\ selected' = selected \cup {p}
    /\ UNCHANGED <<related, cluster, pc, frontier, rows>>

Finish ==
    /\ pc = "select"
    /\ \/ selected = rows
       \/ Limit > 0 /\ Cardinality(selected) = Limit
    /\ pc' = "done"
    /\ UNCHANGED <<related, cluster, frontier, rows, selected>>

Next == Base \/ Recurse \/ Read \/ Select \/ Finish

Spec == Init /\ [][Next]_vars

----------------------------------------------------------------------------
\* Properties.

\* Cycles are broken and depth is limited ("with cycle detection and depth
\* limiting", README.md): whatever the ownership graph, a row descends from
\* a root through related objects of the root's cluster, never passes the
\* same object twice below the root, and is at most MaxDepth deep.
SimplePaths ==
    \A p \in rows :
        /\ Len(p) \in 2..MaxDepth + 1
        /\ p[1] \in Roots
        /\ \A k \in 2..Len(p) : Joins(p[k - 1], p[k])
        /\ \A j, k \in 2..Len(p) : p[j] = p[k] => j = k

\* The objects at most n steps from object r.
Within(r, n) ==
    LET W[d \in 0..n] ==
            IF d = 0 THEN {}
            ELSE W[d - 1] \cup {m \in Objects : \E k \in W[d - 1] \cup {r} : Joins(k, m)}
    IN  W[n]

\* The objects the CTE found under root r.
FoundUnder(r) == {p[Len(p)] : p \in {q \in rows : q[1] = r}}

\* The cycle check loses nothing: every object that can be reached from a
\* root in at most MaxDepth steps is found under that root, and only those.
\* Nothing is said of the root itself, which the CTE finds below itself on a
\* cycle because visited starts with the child; transitive_test.go:141 says
\* it should not.
FindsAllReachable ==
    pc \in {"select", "done"} =>
        \A r \in Roots : FoundUnder(r) \ {r} = Within(r, MaxDepth) \ {r}

\* A LIMIT never cuts a row off its parent: AssembleTree will find the parent
\* of every row that is selected.
LimitKeepsParents ==
    \A p \in selected : Len(p) > 2 => SubSeq(p, 1, Len(p) - 1) \in selected
=============================================================================
