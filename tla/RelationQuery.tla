--------------------------- MODULE RelationQuery ---------------------------
(***************************************************************************)
(* One query with relations, from the request to the response tree:        *)
(* Validate (validate.go), generateWithRelations (generator.go), the UNION *)
(* ALL statement it produces, scanFlatRows and AssembleTree (tree.go) and  *)
(* executeWithRelations (engine.go).                                       *)
(*                                                                         *)
(* A relation block of the request is named by the relation names that     *)
(* lead to it.  A row of the statement is the block it belongs to and the  *)
(* objects joined on the way, a root object first; a transitive relation   *)
(* is followed once or several times.  The statement's path column is      *)
(* built from the objects alone, and AssembleTree has only it to go by: a  *)
(* path is the sequence of its '.'-separated segments.                     *)
(***************************************************************************)
EXTENDS Naturals, SequencesExt, FiniteSetsExt

CONSTANTS
    Objects,        \* rows of the objects table
    Segments,       \* what an object adds to a path: kind, then namespace/name,
                    \* in more than one piece if the name has dots; numbers
                    \* stand for the texts, in the order of the texts
    Hyphenated,     \* pairs of texts of which the second is the first and a
                    \* '-' and more: nginx and nginx-abc
    Rank,           \* the place of an object in the requested ORDER BY
    Matches,        \* the objects the root filter selects
    Requests,       \* sets of relation blocks: sequences of relation names
    BaseRelation,   \* relation name -> the name without its "+"
    Admits,         \* per block, the objects its filters accept; a transitive
                    \* block has none (Transitive says what happens otherwise)
    RelLimit,       \* per block, its limit; 0 is no limit
    Joinable,       \* per base relation, the pairs that may be related
    Limits, Depths, \* spec.Limit and spec.MaxDepth of the requests; 0 is unset
    DefaultLimit, MaxLimit, DefaultMaxDepth, HardMaxDepth,
    MaxRelationBlocks, MaxTotalRows         \* the constants of validate.go

\* A request is a tree: with a block it has the block above it.
ASSUME QueryAssumption ==
    /\ IsFiniteSet(Objects) /\ Matches \subseteq Objects
    /\ BaseRelation \in [DOMAIN BaseRelation -> DOMAIN Joinable]
    /\ \A n \in DOMAIN Joinable : Joinable[n] \subseteq Objects \X Objects
    /\ \A R \in Requests :
          /\ IsFiniteSet(R)
          /\ \A b \in R : /\ b \in Seq(DOMAIN BaseRelation) /\ b # <<>>
                          /\ Len(b) > 1 => Front(b) \in R
                          /\ RelLimit[b] \in Nat
    /\ Limits \subseteq Nat /\ Depths \subseteq Nat
    /\ {DefaultLimit, DefaultMaxDepth, MaxTotalRows} \subseteq Nat

VARIABLES
    blocks,         \* the relation blocks of the request
    related,        \* per base relation, the pairs its join accepts
    pc,
    limit, depth,   \* spec.Limit and spec.MaxDepth after Validate
    queue,          \* BFS queue of blocks
    subqueries,     \* blocks whose SELECT is generated and not yet evaluated
    result,         \* rows of the statement not yet scanned
    flatRows,       \* scanFlatRows: the rows read, in order
    truncated,
    index,          \* AssembleTree: the rows it has dealt with
    nodesByPath,    \* AssembleTree: path -> row of the node
    rootNodes,      \* AssembleTree: root rows in order
    children,       \* AssembleTree: attached rows with the node they went to
    incomplete      \* status.Incomplete

query == <<blocks, related, limit, depth>>
tree  == <<index, nodesByPath, rootNodes, children>>
vars  == <<blocks, related, pc, limit, depth, queue, subqueries, result, flatRows,
           truncated, index, nodesByPath, rootNodes, children, incomplete>>

IsTransitive(name) == BaseRelation[name] # name

\* The relations that buildTransitiveCTE can follow more than once.
TransitiveBases == {"descendants", "owners", "linked"}
Supported(name) == ~IsTransitive(name) \/ BaseRelation[name] \in TransitiveBases

\* The blocks directly below a block (below the root for <<>>).
SubBlocks(b) == {c \in blocks : Len(c) = Len(b) + 1 /\ IsPrefix(b, c)}

\* A block whose SELECT reads from the recursive CTE of the block above it.
BelowTransitive(b) == Len(b) > 1 /\ IsTransitive(b[Len(b) - 1])

Init ==
    /\ blocks \in Requests
    /\ \E pairs \in SUBSET UNION {{BaseRelation[Last(b)]} \X Joinable[BaseRelation[Last(b)]] :
                                       b \in blocks} :
          related = [n \in DOMAIN Joinable |-> {p[2] : p \in {q \in pairs : q[1] = n}}]
    /\ pc = "validate"
    /\ limit \in Limits /\ depth \in Depths
    /\ queue = <<>>
    /\ subqueries = {}
    /\ result = {}
    /\ flatRows = <<>>
    /\ truncated = FALSE
    /\ index = 0
    /\ nodesByPath = << >>
    /\ rootNodes = <<>>
    /\ children = {}
    /\ incomplete = FALSE

----------------------------------------------------------------------------
\* Defaults for values that are not positive; too large a limit or depth and
\* too many relation blocks are refused.
Validate ==
    /\ pc = "validate"
    /\ limit' = IF limit = 0 THEN DefaultLimit ELSE limit
    /\ depth' = IF depth = 0 THEN DefaultMaxDepth ELSE depth
    /\ IF limit' > MaxLimit \/ depth' > HardMaxDepth \/ Cardinality(blocks) > MaxRelationBlocks
       THEN pc' = "refused" /\ UNCHANGED queue
       ELSE pc' = "generate" /\ queue' = SetToSeq(SubBlocks(<<>>))
    /\ UNCHANGED <<blocks, related, subqueries, result, flatRows, truncated, tree, incomplete>>

\* One turn of the BFS loop.  A block beyond the depth is dropped, and what
\* is below it is never queued.  With a transitive block come the SELECTs of
\* the plain blocks right below it, whatever the depth; what else is below it
\* is left out.
GenerateBlock ==
    /\ pc = "generate" /\ queue # <<>>
    /\ Len(Head(queue)) <= depth => Supported(Last(Head(queue)))
    /\ LET node == Head(queue)
       IN  IF Len(node) > depth
           THEN queue' = Tail(queue) /\ UNCHANGED subqueries
           ELSE IF IsTransitive(Last(node))
           THEN /\ subqueries' = subqueries \cup {node} \cup
                                    {c \in SubBlocks(node) : ~IsTransitive(Last(c))}
                /\ queue' = Tail(queue)
           ELSE /\ subqueries' = subqueries \cup {node}
                /\ queue' = Tail(queue) \o SetToSeq(SubBlocks(node))
    /\ UNCHANGED <<query, pc, result, flatRows, truncated, tree, incomplete>>

\* "unsupported transitive relation": the query fails at the first such block
\* the loop comes to.
RefuseBlock ==
    /\ pc = "generate" /\ queue # <<>>
    /\ Len(Head(queue)) <= depth /\ ~Supported(Last(Head(queue)))
    /\ pc' = "refused"
    /\ UNCHANGED <<query, queue, subqueries, result, flatRows, truncated, tree, incomplete>>

----------------------------------------------------------------------------
\* root_objects: the first `limit' matching objects in the requested order.
RootPages(n) ==
    {P \in SUBSET Matches :
        /\ Cardinality(P) = Min({n, Cardinality(Matches)})
        /\ \A o \in P, m \in Matches \ P : Rank[o] <= Rank[m]}

Row(b, objs) == [block |-> b, objs |-> objs]
Level(row)   == Len(row.block)

\* The statement's root SELECT.
SelectRoots ==
    /\ pc = "generate" /\ queue = <<>>
    /\ \E P \in RootPages(limit) : result' = {Row(<<>>, <<o>>) : o \in P}
    /\ pc' = "execute"
    /\ UNCHANGED <<query, queue, subqueries, flatRows, truncated, tree, incomplete>>

\* The join of a relation (owners, descendants, references, selects,
\* selected-by, events, linked, grouped) accepts a pair of objects.
Related(name, parent, child) == <<parent, child>> \in related[name]

\* The place of the transitive name in a block, 0 without one.
TransitiveAt(b) == Max({0} \cup {n \in DOMAIN b : IsTransitive(b[n])})

\* The block of the n-th object of a row: the objects from a transitive
\* relation on its way share one.
BlockAt(row, n) ==
    LET t     == TransitiveAt(row.block)
        extra == Len(row.objs) - Len(row.block) - 1
    IN  SubSeq(row.block, 1, IF t = 0 \/ n <= t THEN n - 1
                             ELSE IF n <= t + 1 + extra THEN t ELSE n - 1 - extra)

\* The rows of objects joined along block b from the given root objects.  A
\* transitive relation is followed up to depth times and never meets an
\* object again.
JoinChains(b, roots) ==
    LET t       == TransitiveAt(b)
        lengths == IF t = 0 THEN {Len(b) + 1} ELSE Len(b) + 1 .. Len(b) + depth
    IN  UNION {{row \in {Row(b, s) : s \in [1..len -> Objects]} :
                  /\ row.objs[1] \in roots
                  /\ \A n \in 1..len - 1 :
                        Related(BaseRelation[Last(BlockAt(row, n + 1))], row.objs[n], row.objs[n + 1])
                  /\ t > 0 => IsInjective(SubSeq(row.objs, t + 1, t + 1 + len - Len(b) - 1))}
               : len \in lengths}

\* Mutant: the filters of a block are not part of its WHERE clause.
BlockRowsUnfiltered(b, roots) == JoinChains(b, roots)

\* The rows of a block's SELECT.  It joins from root_objects again through
\* all ancestor blocks; only its own filters are applied, those of its
\* ancestors are not.
BlockRows(b, roots) == {row \in JoinChains(b, roots) : Last(row.objs) \in Admits[b]}

\* One SELECT of the UNION ALL, with its LIMIT over all parents together.  A
\* recursive CTE yields shorter chains first; the LIMIT of a block that reads
\* from one is ignored.
SelectBlock(b) ==
    /\ pc = "execute" /\ b \in subqueries
    /\ LET S == BlockRows(b, {r.objs[1] : r \in {q \in result : Level(q) = 0}})
       IN  \E T \in (IF RelLimit[b] = 0 \/ BelowTransitive(b) THEN {S}
                     ELSE kSubset(Min({RelLimit[b], Cardinality(S)}), S)) :
             /\ \A p \in T, q \in S \ T : Len(p.objs) <= Len(q.objs)
             /\ result' = result \cup T
    /\ subqueries' = subqueries \ {b}
    /\ UNCHANGED <<query, pc, queue, flatRows, truncated, tree, incomplete>>

Executed ==
    /\ pc = "execute" /\ subqueries = {}
    /\ pc' = "scan"
    /\ UNCHANGED <<query, queue, subqueries, result, flatRows, truncated, tree, incomplete>>

----------------------------------------------------------------------------
\* Mutant: the path leaves out the ancestors between the root and the parent.
PathFromParent(row) ==
    FlattenSeq([n \in 1..Min({2, Len(row.objs)}) |->
                   Segments[row.objs[Len(row.objs) - Min({2, Len(row.objs)}) + n]]])

Path(row) == FlattenSeq([n \in 1..Len(row.objs) |-> Segments[row.objs[n]]])

\* Text order of paths; a prefix comes first.  '-' comes before the '.' that
\* ends a segment: .pod.ns/nginx, .pod.ns/nginx-abc, .pod.ns/nginx.event.ns/e.
PathBefore(p, q) ==
    \/ IsStrictPrefix(p, q)
    \/ \E n \in 1..Min({Len(p), Len(q)}) :
          /\ \A m \in 1..n - 1 : p[m] = q[m]
          /\ \/ <<p[n], q[n]>> \in Hyphenated /\ n = Len(p)
             \/ <<q[n], p[n]>> \in Hyphenated /\ n < Len(q)
             \/ {<<p[n], q[n]>>, <<q[n], p[n]>>} \cap Hyphenated = {} /\ p[n] < q[n]

\* Mutant: the statement has no ORDER BY.
ScanRowUnordered ==
    /\ pc = "scan"
    /\ Len(flatRows) < MaxTotalRows
    /\ \E r \in result : flatRows' = Append(flatRows, r) /\ result' = result \ {r}
    /\ UNCHANGED <<query, pc, queue, subqueries, truncated, tree, incomplete>>

\* scanFlatRows: the next row in the order ORDER BY path; rows with the same
\* path come in any order.
ScanRow ==
    /\ pc = "scan"
    /\ Len(flatRows) < MaxTotalRows
    /\ \E r \in result :
          /\ \A q \in result : ~PathBefore(Path(q), Path(r))
          /\ flatRows' = Append(flatRows, r)
          /\ result' = result \ {r}
    /\ UNCHANGED <<query, pc, queue, subqueries, truncated, tree, incomplete>>

EndScan ==
    /\ pc = "scan"
    /\ result = {} \/ Len(flatRows) >= MaxTotalRows
    /\ truncated' = (result # {})
    /\ pc' = "assemble"
    /\ UNCHANGED <<query, queue, subqueries, result, flatRows, tree, incomplete>>

----------------------------------------------------------------------------
\* Mutant: only the last segment is stripped.
ParentPathOneSegment(p) == IF Len(p) <= 2 THEN <<>> ELSE SubSeq(p, 1, Len(p) - 1)

\* Strip the last two segments.
parentPathOf(p) == IF Len(p) <= 2 THEN <<>> ELSE SubSeq(p, 1, Len(p) - 2)

\* One turn of AssembleTree's loop over the rows.  A row whose parent path is
\* not in the map is dropped.
AssembleRow ==
    /\ pc = "assemble" /\ index < Len(flatRows)
    /\ index' = index + 1
    /\ LET row  == flatRows[index + 1]
           path == Path(row)
           map  == [p \in DOMAIN nodesByPath \cup {path} |->
                       IF p = path THEN row ELSE nodesByPath[p]]
           up   == parentPathOf(path)
       IN  /\ nodesByPath' = map
           /\ IF Level(row) = 0
              THEN rootNodes' = Append(rootNodes, row) /\ UNCHANGED children
              ELSE /\ children' = IF up \in DOMAIN map
                                  THEN children \cup {[node |-> row, parent |-> map[up]]}
                                  ELSE children
                   /\ UNCHANGED rootNodes
    /\ UNCHANGED <<query, pc, queue, subqueries, result, flatRows, truncated, incomplete>>

\* The rest of executeWithRelations.
Respond ==
    /\ pc = "assemble" /\ index = Len(flatRows)
    /\ incomplete' = (truncated \/ Len(rootNodes) = limit)
    /\ pc' = "done"
    /\ UNCHANGED <<query, queue, subqueries, result, flatRows, truncated, tree>>

Next ==
    \/ Validate \/ GenerateBlock \/ RefuseBlock
    \/ SelectRoots \/ (\E b \in blocks : SelectBlock(b)) \/ Executed
    \/ ScanRow \/ EndScan
    \/ AssembleRow \/ Respond

Spec == Init /\ [][Next]_vars

----------------------------------------------------------------------------
\* What the properties ask of tables and requests.  The code checks none of
\* it; the README says what happens otherwise.

\* No name has a dot: an object adds its kind and its namespace/name.
Undotted == \A o \in Objects : Segments[o] \in Seq(Nat) /\ Len(Segments[o]) = 2

\* The objects are of one cluster: kind, namespace and name identify them.
Identified == \A o, p \in Objects : Segments[o] = Segments[p] => o = p

\* The blocks that continue block b of request R.
Continued(R, b) ==
    {c \in R : Len(c) = Len(b) + 1 /\ IsPrefix(b, c)} \cup
    {c \in {b} : b # <<>> /\ IsTransitive(Last(b))}

\* Two relations of one block lead to different objects, unless the request
\* goes no further from there.
OneWay ==
    \A R \in Requests : \A b \in R \cup {<<>>} : \A c, d \in Continued(R, b) :
        c # d /\ Continued(R, d) # {}
            => Joinable[BaseRelation[Last(c)]] \cap Joinable[BaseRelation[Last(d)]] = {}

\* Only blocks with none below them have a limit that is not ignored.
LimitsAtBottom ==
    \A R \in Requests : \A b \in R :
        RelLimit[b] = 0 \/ BelowTransitive(b) \/ \A c \in R : ~IsStrictPrefix(b, c)

\* Below a transitive block are plain ones, on one level: the generator leaves
\* out everything else.
Shallow(b) ==
    \A n \in DOMAIN b : IsTransitive(b[n]) =>
        n = Len(b) \/ (n = Len(b) - 1 /\ ~IsTransitive(Last(b)))

AllShallow == \A R \in Requests : \A b \in R : Shallow(b)

----------------------------------------------------------------------------
\* Properties.

\* The row of the n-th object on the way to a row.
Ancestor(row, n) == Row(BlockAt(row, n), SubSeq(row.objs, 1, n))

\* The rows that got a place in the tree, and those a reader of the response
\* reaches from its roots.
Attached == ToSet(rootNodes) \cup {c.node : c \in children}
Returned == {r \in Attached : \A n \in DOMAIN r.objs : Ancestor(r, n) \in Attached}

\* The blocks the depth leaves in; a plain block below a transitive one is
\* not counted.
Wanted == {b \in blocks : Len(IF BelowTransitive(b) THEN Front(b) ELSE b) <= depth}

\* What the request asks for: objects joined through objects that are
\* themselves part of the response, with no limit on their number.
Everything ==
    {Row(<<>>, <<o>>) : o \in Matches} \cup
    {row \in UNION {JoinChains(b, Matches) : b \in Wanted} :
        \A n \in 2..Len(row.objs) : row.objs[n] \in Admits[BlockAt(row, n)]}

\* The path column "encodes the row's position in the relationship tree"
\* (design.md): AssembleTree, which knows only paths, puts a related object
\* below the very object it is related to, along transitive relations too.
AttachedToParent ==
    \A c \in children : c.parent = Ancestor(c.node, Len(c.node.objs) - 1)

\* A nested SELECT ignores the filters of the blocks above it; the rows this
\* lets through are dropped by AssembleTree, so the response holds nothing
\* the request did not ask for.
OnlyWanted == Returned \subseteq Everything

\* Cutting the row set at MaxTotalRows cuts a tail of the path order: a row
\* that was read is never lost because its parent was not.
NothingReadIsLost ==
    pc = "done" => ToSet(flatRows) \cap Everything \subseteq Returned

\* "Incomplete indicates the response was truncated due to limits"
\* (QueryStatus): a response without the flag lacks nothing, whether the root
\* limit or MaxTotalRows applied, but for blocks that have a limit of their own.
CompleteUnlessFlagged ==
    LET unlimited(S) == {r \in S : Level(r) = 0 \/ RelLimit[r.block] = 0 \/ BelowTransitive(r.block)}
    IN  pc = "done" /\ ~incomplete => unlimited(Returned) = unlimited(Everything)
=============================================================================
