------------------------------ MODULE Filters ------------------------------
(***************************************************************************)
(* The WHERE clauses of a query: buildRootClauses and                      *)
(* buildObjectFilterWithRT of internal/engine/generator.go, for SQLite and *)
(* PostgreSQL, as the databases evaluate them.                             *)
(*                                                                         *)
(* An ObjectFilter is the sequence of its criteria that are set, in the    *)
(* order of the code; a criterion is a record that says what it is on.     *)
(* A row of objects is a record of its columns and of the parts of its     *)
(* JSON columns that clauses look at.  A JSON column may hold null: the    *)
(* handlers and discovery marshal a missing map or list to it.  A clause   *)
(* whose SQL value is NULL selects nothing, so it is false here.           *)
(* A clause the code writes twice is written twice, once per database.     *)
(* Label keys are data here; the code writes them into the text of the     *)
(* statement, so a key is taken to have no quote in it.                    *)
(***************************************************************************)
EXTENDS SequencesExt

CONSTANTS
    NULL,         \* SQL's NULL and JSON's null
    Lower,        \* SQL's lower and strings.ToLower: text -> text
    Dotted,       \* label keys with a dot, as app.kubernetes.io/name
    ClusterLabels \* column labels of the clusters table, per cluster

\* The elements of a list, for a reader and for PostgreSQL, which raises an
\* error where there is no list (Rejects).
Elements(array) == IF array = NULL THEN {} ELSE array

\* json_each(array) has one row for null, with the value NULL.
JsonEach(array) == IF array = NULL THEN {NULL} ELSE array

\* SQL's a = b, which is NULL for a NULL.
Equals(a, b) == a # NULL /\ a = b

\* object->>'key', and the value of a key for a reader.
Value(object, key) ==
    IF object = NULL THEN NULL ELSE IF key \in DOMAIN object THEN object[key] ELSE NULL

\* json_extract(labels, '$.key'): a dot in the key starts another path step,
\* and a label's value is no JSON object.
Extract(labels, key) == IF key \in Dotted THEN NULL ELSE Value(labels, key)

\* object @> wanted: null contains no JSON object, not even {}.
ContainsObject(object, wanted) ==
    object # NULL /\ \A k \in DOMAIN wanted : k \in DOMAIN object /\ object[k] = wanted[k]

LabelValue(dialect, labels, key) ==
    IF dialect = "postgres" THEN Value(labels, key) ELSE Extract(labels, key)

HasLabels(dialect, labels, wanted) ==
    IF dialect = "postgres" THEN ContainsObject(labels, wanted)
    ELSE \A k \in DOMAIN wanted : Equals(Extract(labels, k), wanted[k])

\* labels ? 'key' asks for the key, json_extract IS NOT NULL for a value.
HasKey(dialect, labels, key) ==
    IF dialect = "postgres" THEN labels # NULL /\ key \in DOMAIN labels
    ELSE Extract(labels, key) # NULL

----------------------------------------------------------------------------
\* The rows of resource_types an object's type is looked up in.
TypesOf(o, types) ==
    {rt \in types : rt.cluster = o.cluster /\ rt.api_group = o.api_group /\ rt.kind = o.kind}

Named(rt, text) == Lower[text] \in {Lower[rt.kind], Lower[rt.resource], Lower[rt.singular]}

\* The name is compared with the short names in lower case: the code lowers
\* it, and SQLite's clause does once more.
HasKind(dialect, o, text, types) ==
    \E rt \in TypesOf(o, types) :
        \/ Named(rt, text)
        \/ dialect = "postgres" /\ Lower[text] \in Elements(rt.short_names)
        \/ /\ dialect = "sqlite"
           /\ \E v \in JsonEach(rt.short_names) : Equals(v, Lower[Lower[text]])

\* The object PostgreSQL looks for among the conditions.
CondJSON(c) ==
    [k \in {"type"} \cup {x \in {"status", "reason"} : c[x] # ""} |-> c[k]]

\* Mutant: type, status and reason may come from different conditions.
HasConditionParts(dialect, o, c) ==
    /\ \E x \in JsonEach(o.conditions) : Equals(Value(x, "type"), c.type)
    /\ c.status # "" => \E x \in JsonEach(o.conditions) : Equals(Value(x, "status"), c.status)
    /\ c.reason # "" => \E x \in JsonEach(o.conditions) : Equals(Value(x, "reason"), c.reason)

HasCondition(dialect, o, c) ==
    IF dialect = "postgres"
    THEN \E x \in Elements(o.conditions) : ContainsObject(x, CondJSON(c))
    ELSE \E x \in JsonEach(o.conditions) :
             /\ Equals(Value(x, "type"), c.type)
             /\ c.status # "" => Equals(Value(x, "status"), c.status)
             /\ c.reason # "" => Equals(Value(x, "reason"), c.reason)

HasCategory(dialect, o, cat, types) ==
    \E rt \in TypesOf(o, types) :
        IF dialect = "postgres" THEN cat \in Elements(rt.categories)
        ELSE \E v \in JsonEach(rt.categories) : Equals(v, cat)

\* Mutant: NOT IN alone, which is NULL for an object without the label.
NotInAlone(dialect, labels, c) ==
    LabelValue(dialect, labels, c.key) \notin {NULL} \cup c.values

NotIn(dialect, labels, c) ==
    \/ LabelValue(dialect, labels, c.key) = NULL
    \/ LabelValue(dialect, labels, c.key) \notin c.values

\* One criterion's clause.  In and NotIn without values have no clause.
Holds(dialect, c, o, types) ==
    CASE c.on \in {"api_group", "name", "namespace", "id"} -> o[c.on] = c.text
      [] c.on = "kind"      -> HasKind(dialect, o, c.text, types)
      [] c.on = "labels"    -> HasLabels(dialect, o.labels, c.labels)
      [] c.on = "condition" -> HasCondition(dialect, o, c)
      [] c.on = "after"     -> o.creation_ts # NULL /\ o.creation_ts > c.time
      [] c.on = "before"    -> o.creation_ts # NULL /\ o.creation_ts < c.time
      [] c.on = "category"  -> HasCategory(dialect, o, c.text, types)
      [] c.on = "In"        -> LabelValue(dialect, o.labels, c.key) \in c.values
      [] c.on = "NotIn"     -> NotIn(dialect, o.labels, c)
      [] c.on = "Exists"    -> HasKey(dialect, o.labels, c.key)
      [] c.on = "DoesNotExist" -> ~HasKey(dialect, o.labels, c.key)
      [] c.on = "jsonpath"  -> IF dialect = "postgres" THEN o.truth = "true"
                               ELSE o.truth \notin {NULL, "false"}

HasClause(c) == c.on \in {"In", "NotIn"} => c.values # {}

Clauses(filter) == SelectSeq(filter, HasClause)

FilterHolds(dialect, filter, o, types) ==
    \A c \in ToSet(filter) : HasClause(c) => Holds(dialect, c, o, types)

\* filter.objects: entries without a clause are dropped from the OR, and the
\* OR is left out when none remains.
EntriesHold(dialect, entries, o, types) ==
    LET orGroups == {f \in ToSet(entries) : \E c \in ToSet(f) : HasClause(c)}
    IN  orGroups = {} \/ \E f \in orGroups : FilterHolds(dialect, f, o, types)

\* The cluster filter: a name, and labels of the cluster row.
ClusterHolds(dialect, cluster, o) ==
    /\ cluster.name # "" => o.cluster = cluster.name
    /\ DOMAIN cluster.labels # {} =>
          HasLabels(dialect, ClusterLabels[o.cluster], cluster.labels)

----------------------------------------------------------------------------
\* Statements PostgreSQL may reject.  jsonb_array_elements_text raises an
\* error for null; which rows of resource_types it is evaluated for is the
\* planner's choice, but never one that another alternative has matched.
\* jsonb_path_match wants a boolean.
Rejects(c, rows, types) ==
    CASE c.on = "kind" -> \E rt \in types : rt.short_names = NULL /\ ~Named(rt, c.text)
      [] c.on = "category" -> \E rt \in types : rt.categories = NULL
      [] c.on = "jsonpath" -> \E o \in rows : o.truth \notin {"true", "false"}
      [] OTHER -> FALSE

\* The operator of labels ? 'key' is a placeholder to gorm: it takes the next
\* argument if one is left, and the statement is malformed.
TakesArgument(clauses) ==
    \E j, k \in DOMAIN clauses :
        j < k /\ clauses[j].on \in {"Exists", "DoesNotExist"} /\ clauses[k].on \notin {"Exists", "DoesNotExist"}

MayFail(dialect, entries, rows, types) ==
    LET clauses == FlattenSeq([n \in DOMAIN entries |-> Clauses(entries[n])])
    IN  /\ dialect = "postgres"
        /\ \/ \E c \in ToSet(clauses) : Rejects(c, rows, types)
           \/ TakesArgument(clauses)
=============================================================================
