------------------------------ MODULE Matching ------------------------------
(***************************************************************************)
(* What a query matches: one statement with the clauses of Filters or the  *)
(* join of Relations, on either database, while discovery refreshes        *)
(* resource_types.                                                         *)
(*                                                                         *)
(* A request is a root query (relation "") or a relation block taken from  *)
(* every row.  The statement is one step: it sees the tables between two   *)
(* statements of discovery.                                                *)
(***************************************************************************)
EXTENDS Relations

CONSTANTS
    Rows,         \* the objects table
    TypeRows,     \* the resource_types table after a complete discovery
    Requests      \* records [relation, cluster, entries]

\* What a criterion of a request is: text is never NULL, and a criterion on
\* labels that is set has a label.
WellFormed(c) ==
    /\ c.on \in {"api_group", "name", "namespace", "id", "kind", "labels", "condition", "after",
                 "before", "category", "In", "NotIn", "Exists", "DoesNotExist", "jsonpath"}
    /\ c.on = "kind" => c.text \in DOMAIN Lower
    /\ c.on = "category" => c.text # NULL
    /\ c.on = "condition" => NULL \notin {c.type, c.status, c.reason}
    /\ c.on = "labels" => DOMAIN c.labels # {} /\ \A k \in DOMAIN c.labels : c.labels[k] # NULL
    /\ c.on \in {"In", "NotIn"} => NULL \notin c.values

\* Lower is idempotent and tells the kinds of references apart; the API server
\* admits short names in lower case only; informers run for discovered types
\* only, so an object has its type; uids and values of labels are text.
ASSUME MatchingAssumption ==
    /\ NULL # "true" /\ NULL # "false"
    /\ \A t \in DOMAIN Lower : Lower[t] # NULL /\ Lower[Lower[t]] = Lower[t]
    /\ \A rp, rq \in BuiltinRefPaths : Lower[rp.target] = Lower[rq.target] => rp.target = rq.target
    /\ \A rt \in TypeRows : \A n \in Elements(rt.short_names) : Lower[n] = n
    /\ \A o \in Rows :
          /\ TypesOf(o, TypeRows) # {}
          /\ o.uid # NULL
          /\ o.labels # NULL => \A k \in DOMAIN o.labels : o.labels[k] # NULL
          /\ o.selector # NULL => \A k \in DOMAIN o.selector : o.selector[k] # NULL
    /\ \A req \in Requests :
          /\ req.entries \in Seq(ToSet(req.entries))
          /\ \A f \in ToSet(req.entries) : \A c \in ToSet(f) : WellFormed(c)
          /\ \A k \in DOMAIN req.cluster.labels : req.cluster.labels[k] # NULL

VARIABLES
    dialect,      \* the store's driver
    request,
    types,        \* the resource_types table
    refreshing,   \* clusters whose discovery is under way
    answer        \* the response, or NoAnswer

vars == <<dialect, request, types, refreshing, answer>>

NoAnswer == [state |-> "none", rows |-> {}]
Failed   == [state |-> "failed", rows |-> {}]

AllTypes(cluster) == {rt \in TypeRows : rt.cluster = cluster}

Init ==
    /\ dialect \in {"sqlite", "postgres"}
    /\ request \in Requests
    /\ types = TypeRows
    /\ refreshing = {}
    /\ answer = NoAnswer

----------------------------------------------------------------------------
\* RunDiscovery deletes the rows of its cluster, then inserts them one by one.
ClearTypes(cluster) ==
    /\ answer = NoAnswer
    /\ refreshing' = refreshing \cup {cluster}
    /\ types' = types \ AllTypes(cluster)
    /\ UNCHANGED <<dialect, request, answer>>

InsertType(rt) ==
    /\ answer = NoAnswer
    /\ rt.cluster \in refreshing /\ rt \notin types
    /\ types' = types \cup {rt}
    /\ refreshing' = {c \in refreshing : ~(AllTypes(c) \subseteq types')}
    /\ UNCHANGED <<dialect, request, answer>>

\* The rows of a root query.
Roots(db, req) ==
    {o \in Rows : ClusterHolds(db, req.cluster, o) /\ EntriesHold(db, req.entries, o, types)}

\* The pairs of a relation block.  Its filters are AND-ed.
Pairs(db, req) ==
    {pair \in Rows \X Rows :
        /\ Joined(db, req.relation, req.entries, pair[1], pair[2])
        /\ \A f \in ToSet(req.entries) : FilterHolds(db, f, pair[2], types)}

Result(db, req) == IF req.relation = "" THEN Roots(db, req) ELSE Pairs(db, req)

Answer ==
    /\ answer = NoAnswer
    /\ answer' = [state |-> "ok", rows |-> Result(dialect, request)]
    /\ UNCHANGED <<dialect, request, types, refreshing>>

CanFail(db, req) == MayFail(db, req.entries, Rows, types) \/ JoinMayFail(db, req.relation, Rows)

\* The database reports an error, and Execute returns it.
Reject ==
    /\ answer = NoAnswer
    /\ CanFail(dialect, request)
    /\ answer' = Failed
    /\ UNCHANGED <<dialect, request, types, refreshing>>

Next ==
    \/ \E rt \in TypeRows : ClearTypes(rt.cluster) \/ InsertType(rt)
    \/ Answer
    \/ Reject

Spec == Init /\ [][Next]_vars

----------------------------------------------------------------------------
\* Properties.

Answered == answer.state = "ok"

Criteria == UNION {ToSet(f) : f \in ToSet(request.entries)}

\* Keys of labels a request asks for.
ExpressionKeys ==
    {c.key : c \in {x \in Criteria : x.on \in {"In", "NotIn", "Exists", "DoesNotExist"}}}

Keys ==
    DOMAIN request.cluster.labels
    \cup (UNION {DOMAIN c.labels : c \in {x \in Criteria : x.on = "labels"}})
    \cup ExpressionKeys

\* Every entry of the request has a clause, and every In has values: one
\* without accepts nothing to a reader, and everything to the generator.
Complete ==
    \A f \in ToSet(request.entries) :
        /\ \E c \in ToSet(f) : HasClause(c)
        /\ \A c \in ToSet(f) : c.on = "In" => HasClause(c)

\* What a criterion means, by types.go: names of a kind are those the API
\* server serves it under, labels are those of the object.
Means(c, o) ==
    CASE c.on = "kind" ->
            \E rt \in TypesOf(o, TypeRows) :
                Lower[c.text] \in {Lower[n] : n \in {rt.kind, rt.resource, rt.singular}
                                                    \cup Elements(rt.short_names)}
      [] c.on = "category" -> \E rt \in TypesOf(o, TypeRows) : c.text \in Elements(rt.categories)
      [] c.on = "condition" ->
            {x \in Elements(o.conditions) : /\ Value(x, "type") = c.type
                                            /\ c.status \in {"", Value(x, "status")}
                                            /\ c.reason \in {"", Value(x, "reason")}} # {}
      [] c.on = "labels" -> \A k \in DOMAIN c.labels : Value(o.labels, k) = c.labels[k]
      [] c.on = "In" -> Value(o.labels, c.key) \in c.values
      [] c.on = "NotIn" -> Value(o.labels, c.key) \notin c.values
      [] c.on = "Exists" -> Value(o.labels, c.key) # NULL
      [] c.on = "DoesNotExist" -> Value(o.labels, c.key) = NULL
      [] c.on = "after" -> o.creation_ts # NULL /\ c.time < o.creation_ts
      [] c.on = "before" -> o.creation_ts # NULL /\ o.creation_ts < c.time
      [] c.on = "jsonpath" -> o.truth \notin {NULL, "false"}
      [] OTHER -> o[c.on] = c.text

\* "Entries are OR-ed; criteria within a single entry are AND-ed."
Meant ==
    {o \in Rows :
        /\ request.cluster.name \in {"", o.cluster}
        /\ \A k \in DOMAIN request.cluster.labels :
              Value(ClusterLabels[o.cluster], k) = request.cluster.labels[k]
        /\ request.entries = <<>> \/ \E f \in ToSet(request.entries) : \A c \in ToSet(f) : Means(c, o)}

\* A root query never returns an object its filter does not describe, also
\* when it runs between two statements of discovery, on either database.
\* SQLite misreads keys with dots: the NotIn of such a key excludes nothing.
OnlyMeant ==
    Answered /\ request.relation = "" /\ Complete /\ (dialect = "sqlite" => Keys \cap Dotted = {})
        => answer.rows \subseteq Meant

\* With discovery at rest it returns all of them.  A PostgreSQL statement that
\* is not rejected has met no jsonpath value but booleans.
AllMeant ==
    Answered /\ request.relation = "" /\ Complete /\ refreshing = {}
        /\ (dialect = "sqlite" => Keys \cap Dotted = {})
        /\ (dialect = "postgres" => \A c \in Criteria : c.on # "jsonpath")
        => Meant \subseteq answer.rows

Other == IF dialect = "sqlite" THEN "postgres" ELSE "sqlite"

\* SQLite in development, PostgreSQL in production (README.md): what one
\* answers the other answers, if it does not reject the statement.  Excepted
\* are jsonpath, keys with a dot, also in selectors, and the empty selector,
\* which in PostgreSQL passes over objects with no labels.
DialectsAgree ==
    Answered /\ ~CanFail(Other, request)
        /\ Keys \cap Dotted = {} /\ (\A c \in Criteria : c.on # "jsonpath")
        => \A p \in SymDiff(answer.rows, Result(Other, request)) :
               LET holder == IF request.relation = "selects" THEN p[1] ELSE p[2]
               IN  /\ request.relation \in {"selects", "selected-by"}
                   /\ DOMAIN holder.selector = {} \/ DOMAIN holder.selector \cap Dotted # {}

Opposite == {<<"owners", "descendants">>, <<"descendants", "owners">>, <<"selects", "selected-by">>,
             <<"selected-by", "selects">>, <<"grouped", "grouped">>}

\* Relations that the API presents as the two directions of one (README.md
\* "Reverse ownerRef", "Reverse selector", "bidirectional") lead back: a child
\* found from a parent finds that parent.
Opposites ==
    Answered /\ request.entries = <<>> =>
        \A op \in Opposite : request.relation = op[1] =>
            \A p \in Rows \X Rows :
                p \in answer.rows <=> Joined(dialect, op[2], <<>>, p[2], p[1])

\* A relation block that names the target of a reference path.  A criterion
\* cannot name the core group: an empty apiGroup is none at all.
Naming(rp) ==
    LET kind == [on |-> "kind", text |-> rp.target]
    IN  IF rp.group = "" THEN << <<kind>> >>
        ELSE << <<[on |-> "api_group", text |-> rp.group], kind>> >>

\* What the reference paths to that target, on paper, lead to in the namespace.
Target(rp) ==
    {p \in Rows \X Rows :
        /\ SameNamespace(p[1], p[2])
        /\ p[2].kind = rp.target /\ p[2].api_group = rp.group
        /\ \E rq \in BuiltinRefPaths :
              rq.target = rp.target /\ rq.group = rp.group /\ p[2].name \in Names(p[1], rq.pg)}

\* References lead to objects of the kind the field refers to, not to those of
\* another kind with the same name, and to every such object of the namespace.
\* TargetGroup (refs.go:13, design.md:645) is not part of the join: where the
\* request cannot name it, an object of the right kind and another group is
\* found as well.  Such rows, and no others, are excepted.
ReferencesTyped ==
    Answered /\ request.relation = "references" =>
        \A rp \in BuiltinRefPaths : request.entries = Naming(rp) =>
            LET foreign == {p \in answer.rows :
                               rp.group = "" /\ p[2].kind = rp.target /\ p[2].api_group # ""}
            IN  /\ answer.rows \ foreign \subseteq Target(rp)
                /\ refreshing = {} => Target(rp) \subseteq answer.rows
=============================================================================
