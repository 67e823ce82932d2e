--------------------------- MODULE MatchingProofs ---------------------------
(***************************************************************************)
(* Proofs about Matching, for every table, every request and every moment  *)
(* of a discovery: what the clauses and joins of a statement accept is     *)
(* what the request means, on both databases.                              *)
(***************************************************************************)
EXTENDS Matching, TLAPS

\* The types are those of a complete discovery, but for those a refresh has
\* deleted and not yet inserted again; an answer is what the statement
\* selected, from the tables as they still are.
IInv ==
    /\ dialect \in {"sqlite", "postgres"}
    /\ request \in Requests
    /\ types \subseteq TypeRows
    /\ \A rt \in TypeRows : rt.cluster \notin refreshing => rt \in types
    /\ Answered => answer.rows = Result(dialect, request)

\* The invariant holds before the request is served.
LEMMA InvInit == Init => IInv
BY DEF Init, IInv, Answered, NoAnswer

\* Every step keeps it: discovery stops at the answer.
LEMMA InvStep == IInv /\ [Next]_vars => IInv'
<1>. SUFFICES ASSUME IInv, [Next]_vars
              PROVE  IInv'
    OBVIOUS
<1>1. ASSUME NEW rt \in TypeRows, ClearTypes(rt.cluster) PROVE IInv'
    <2>1. /\ refreshing' = refreshing \cup {rt.cluster} /\ types' = types \ AllTypes(rt.cluster)
          /\ UNCHANGED <<dialect, request, answer>> /\ answer = NoAnswer
        BY <1>1 DEF ClearTypes
    <2>2. ~Answered'
        BY <2>1 DEF Answered, NoAnswer
    <2>. QED
        BY <2>1, <2>2 DEF IInv, AllTypes
<1>2. ASSUME NEW rt \in TypeRows, InsertType(rt) PROVE IInv'
    <2>1. /\ types' = types \cup {rt}
          /\ refreshing' = {c \in refreshing : ~(AllTypes(c) \subseteq types')}
          /\ UNCHANGED <<dialect, request, answer>> /\ answer = NoAnswer
        BY <1>2 DEF InsertType
    <2>2. ~Answered'
        BY <2>1 DEF Answered, NoAnswer
    <2>3. ASSUME NEW x \in TypeRows, x.cluster \notin refreshing' PROVE x \in types'
        BY <2>1, <2>3 DEF IInv, AllTypes
    <2>. QED
        BY <2>1, <2>2, <2>3 DEF IInv
<1>3. CASE Answer
    <2>1. /\ answer' = [state |-> "ok", rows |-> Result(dialect, request)]
          /\ UNCHANGED <<dialect, request, types, refreshing>>
        BY <1>3 DEF Answer
    <2>2. Result(dialect, request)' = Result(dialect, request)
        BY <2>1 DEF Result, Roots, Pairs
    <2>. QED
        BY <2>1, <2>2 DEF IInv
<1>4. CASE Reject
    BY <1>4 DEF Reject, IInv, Answered, Failed
<1>5. CASE UNCHANGED vars
    <2>1. UNCHANGED <<dialect, request, types, refreshing, answer>>
        BY <1>5 DEF vars
    <2>2. Result(dialect, request)' = Result(dialect, request)
        BY <2>1 DEF Result, Roots, Pairs
    <2>. QED
        BY <2>1, <2>2 DEF IInv, Answered
<1>. QED
    BY <1>1, <1>2, <1>3, <1>4, <1>5 DEF Next

----------------------------------------------------------------------------
\* Directions.

\* The empty sequence has no elements.
LEMMA NoElements == ToSet(<<>>) = {}
BY DEF ToSet

\* With no entries, a relation block selects the pairs its join accepts.
LEMMA PlainPairs ==
    ASSUME IInv, Answered, request.relation # "", request.entries = <<>>
    PROVE  \A p \in Rows \X Rows :
               p \in answer.rows <=> Joined(dialect, request.relation, <<>>, p[1], p[2])
<1>1. answer.rows = Pairs(dialect, request)
    BY DEF IInv, Result
<1>. QED
    BY <1>1, NoElements DEF Pairs

\* Opposite relations join the same pairs the other way round.
LEMMA OppositeJoins ==
    ASSUME NEW db, NEW op \in Opposite, NEW x, NEW y
    PROVE  Joined(db, op[1], <<>>, x, y) <=> Joined(db, op[2], <<>>, y, x)
<1>1. CASE op = <<"owners", "descendants">>
    BY <1>1 DEF Joined, Owner, Descendant
<1>2. CASE op = <<"descendants", "owners">>
    BY <1>2 DEF Joined, Owner, Descendant
<1>3. CASE op = <<"selects", "selected-by">>
    BY <1>3 DEF Joined, Selects, SelectedBy, SameNamespace
<1>4. CASE op = <<"selected-by", "selects">>
    BY <1>4 DEF Joined, Selects, SelectedBy, SameNamespace
<1>5. CASE op = <<"grouped", "grouped">>
    BY <1>5 DEF Joined, Grouped
<1>. QED
    BY <1>1, <1>2, <1>3, <1>4, <1>5 DEF Opposite

\* Neither is the root query.
LEMMA OppositeNames == \A op \in Opposite : op[1] # ""
<1>. SUFFICES ASSUME NEW op \in Opposite
              PROVE  op[1] # ""
    OBVIOUS
<1>1. op[1] \in {"owners", "descendants", "selects", "selected-by", "grouped"}
    BY DEF Opposite
<1>. QED
    BY <1>1

\* What is found by a relation finds its way back by the opposite one, for
\* every table.
THEOREM OppositesCorrect == Spec => []Opposites
<1>1. IInv => Opposites
    <2>. SUFFICES ASSUME IInv, Answered, request.entries = <<>>, NEW op \in Opposite,
                         request.relation = op[1], NEW p \in Rows \X Rows
                  PROVE  p \in answer.rows <=> Joined(dialect, op[2], <<>>, p[2], p[1])
        BY DEF Opposites
    <2>1. request.relation # ""
        BY OppositeNames
    <2>2. p \in answer.rows <=> Joined(dialect, request.relation, <<>>, p[1], p[2])
        BY <2>1, PlainPairs
    <2>. QED
        BY <2>2, OppositeJoins
<1>. QED
    BY <1>1, InvInit, InvStep, PTL DEF Spec

----------------------------------------------------------------------------
\* References.

\* A sequence of one has one element.
LEMMA OneElement ==
    ASSUME NEW x
    PROVE  ToSet(<<x>>) = {x}
BY DEF ToSet

\* A sequence of two has two.
LEMMA TwoElements ==
    ASSUME NEW x, NEW y
    PROVE  ToSet(<<x, y>>) = {x, y}
BY DEF ToSet

\* A references block that names the target of a path joins to objects of that
\* kind whose type is known, and of the group if it names one.
LEMMA NamingBlock ==
    ASSUME NEW rp \in BuiltinRefPaths, NEW db, NEW req, req.relation = "references",
           req.entries = Naming(rp)
    PROVE  \A p \in Rows \X Rows :
               p \in Pairs(db, req) <=> /\ Referenced(db, p[1], p[2], {rp.target})
                                        /\ HasKind(db, p[2], rp.target, types)
                                        /\ rp.group # "" => p[2].api_group = rp.group
<1>1. PICK c : c = [on |-> "kind", text |-> rp.target]
    OBVIOUS
<1>2. PICK g : g = [on |-> "api_group", text |-> rp.group]
    OBVIOUS
<1>3. /\ c.on = "kind" /\ c.text = rp.target /\ HasClause(c)
      /\ g.on = "api_group" /\ g.text = rp.group /\ HasClause(g)
    BY <1>1, <1>2 DEF HasClause
<1>4. PICK f : f = IF rp.group = "" THEN <<c>> ELSE <<g, c>>
    OBVIOUS
<1>5. req.entries = <<f>>
    BY <1>1, <1>2, <1>4 DEF Naming
<1>6. ToSet(req.entries) = {f} /\ ToSet(f) = IF rp.group = "" THEN {c} ELSE {g, c}
    BY <1>4, <1>5, OneElement, TwoElements
<1>7. TargetKinds(req.entries) = {rp.target}
    BY <1>3, <1>6 DEF TargetKinds
<1>8. \A o : Holds(db, c, o, types) <=> HasKind(db, o, rp.target, types)
    BY <1>3 DEF Holds
<1>9. \A o : Holds(db, g, o, types) <=> o.api_group = rp.group
    BY <1>3 DEF Holds
<1>10. \A o : FilterHolds(db, f, o, types)
                <=> HasKind(db, o, rp.target, types) /\ (rp.group # "" => o.api_group = rp.group)
    BY <1>3, <1>6, <1>8, <1>9 DEF FilterHolds
<1>11. \A x, y : Joined(db, req.relation, req.entries, x, y) <=> Referenced(db, x, y, {rp.target})
    BY <1>7 DEF Joined
<1>. QED
    BY <1>6, <1>10, <1>11 DEF Pairs

\* The group the built-in paths to a kind name.
GroupOf(kind) ==
    IF kind = "StorageClass" THEN "storage.k8s.io"
    ELSE IF kind = "ClusterRole" THEN "rbac.authorization.k8s.io" ELSE ""

Markers == {"NESTED_ENV_SECRET", "NESTED_ENV_CONFIGMAP", "NESTED_ENVFROM_SECRET",
            "NESTED_ENVFROM_CONFIGMAP", "NESTED_INGRESS_SERVICE"}

\* The entries of the table, by the shape of their path: the subqueries written
\* by hand for SQLite read the fields that the paths for PostgreSQL name, and
\* the paths to a kind name one group.
LEMMA PathTable ==
    \A rp \in BuiltinRefPaths : SQLitePath(rp) = rp.pg /\ rp.group = GroupOf(rp.target)
<1>. DEFINE Sound(rp) == SQLitePath(rp) = rp.pg /\ rp.group = GroupOf(rp.target)
<1>1. ASSUME NEW k, NEW a, NEW f, a # "", f \notin Markers, k \notin {"StorageClass", "ClusterRole"}
      PROVE  Sound(InArray(k, a, f))
    BY <1>1 DEF SQLitePath, InArray, Ref, GroupOf, Markers
<1>2. ASSUME NEW k, NEW f, f \notin Markers PROVE Sound(Scalar(k, GroupOf(k), f))
    <2>. DEFINE rp == Scalar(k, GroupOf(k), f)
    <2>1. rp.array = "" /\ rp.field = f /\ rp.pg = <<f>> /\ rp.target = k /\ rp.group = GroupOf(k)
        BY DEF Scalar, Ref
    <2>. HIDE DEF rp
    <2>2. SQLitePath(rp) = <<f>>
        BY <1>2, <2>1 DEF SQLitePath, Markers
    <2>. QED
        BY <2>1, <2>2 DEF rp
<1>3. Sound(Nested("Secret", "spec.containers", "env", "valueFrom.secretKeyRef.name",
                   "NESTED_ENV_SECRET"))
    BY DEF SQLitePath, Nested, Ref, GroupOf
<1>4. Sound(Nested("ConfigMap", "spec.containers", "env", "valueFrom.configMapKeyRef.name",
                   "NESTED_ENV_CONFIGMAP"))
    BY DEF SQLitePath, Nested, Ref, GroupOf
<1>5. Sound(Nested("Secret", "spec.containers", "envFrom", "secretRef.name",
                   "NESTED_ENVFROM_SECRET"))
    BY DEF SQLitePath, Nested, Ref, GroupOf
<1>6. Sound(Nested("ConfigMap", "spec.containers", "envFrom", "configMapRef.name",
                   "NESTED_ENVFROM_CONFIGMAP"))
    BY DEF SQLitePath, Nested, Ref, GroupOf
<1>7. Sound(Nested("Service", "spec.rules", "http.paths", "backend.service.name",
                   "NESTED_INGRESS_SERVICE"))
    BY DEF SQLitePath, Nested, Ref, GroupOf
<1>8. /\ Sound(InArray("Secret", "spec.volumes", "secret.secretName"))
      /\ Sound(InArray("ConfigMap", "spec.volumes", "configMap.name"))
      /\ Sound(InArray("PersistentVolumeClaim", "spec.volumes", "persistentVolumeClaim.claimName"))
      /\ Sound(InArray("Secret", "spec.imagePullSecrets", "name"))
      /\ Sound(InArray("Secret", "spec.tls", "secretName"))
    <2>. HIDE DEF Sound
    <2>. QED
        BY <1>1 DEF Markers
<1>9. /\ GroupOf("ServiceAccount") = "" /\ GroupOf("PersistentVolume") = ""
      /\ GroupOf("StorageClass") = "storage.k8s.io"
      /\ GroupOf("ClusterRole") = "rbac.authorization.k8s.io"
    BY DEF GroupOf
<1>10. /\ Sound(Scalar("ServiceAccount", "", "spec.serviceAccountName"))
       /\ Sound(Scalar("StorageClass", "storage.k8s.io", "spec.storageClassName"))
       /\ Sound(Scalar("PersistentVolume", "", "spec.volumeName"))
       /\ Sound(Scalar("ClusterRole", "rbac.authorization.k8s.io", "roleRef.name"))
    <2>. HIDE DEF Sound
    <2>. QED
        BY <1>2, <1>9 DEF Markers
<1>11. \A rp \in BuiltinRefPaths : Sound(rp)
    <2>. HIDE DEF Sound
    <2>. QED
        BY <1>3, <1>4, <1>5, <1>6, <1>7, <1>8, <1>10 DEF BuiltinRefPaths
<1>. QED
    BY <1>11

\* An object of a kind is found by the name of the kind once its type is known.
LEMMA OwnKind ==
    ASSUME NEW db, NEW o \in Rows
    PROVE  HasKind(db, o, o.kind, TypeRows)
<1>1. PICK rt \in TypesOf(o, TypeRows) : TRUE
    BY MatchingAssumption
<1>2. rt.kind = o.kind
    BY <1>1 DEF TypesOf
<1>. QED
    BY <1>1, <1>2 DEF HasKind, Named

\* On both databases a block that names the target of a reference leads to
\* objects of that kind, those of other groups apart to nothing else than what
\* the fields refer to and, with discovery at rest, to all of that.
THEOREM ReferencesTypedCorrect == Spec => []ReferencesTyped
<1>1. IInv => ReferencesTyped
    <2>. SUFFICES ASSUME IInv, Answered, request.relation = "references",
                         NEW rp \in BuiltinRefPaths, request.entries = Naming(rp)
                  PROVE  /\ \A p \in answer.rows :
                               \/ p \in Target(rp)
                               \/ rp.group = "" /\ p[2].kind = rp.target /\ p[2].api_group # ""
                         /\ refreshing = {} => Target(rp) \subseteq answer.rows
        BY DEF ReferencesTyped
    <2>1. answer.rows = Pairs(dialect, request)
        BY DEF IInv, Result
    <2>. SUFFICES ASSUME NEW p \in Rows \X Rows
                  PROVE  /\ p \in answer.rows
                               => \/ p \in Target(rp)
                                  \/ rp.group = "" /\ p[2].kind = rp.target /\ p[2].api_group # ""
                         /\ refreshing = {} /\ p \in Target(rp) => p \in answer.rows
        BY <2>1 DEF Pairs, Target
    <2>2. p \in answer.rows <=> /\ Referenced(dialect, p[1], p[2], {rp.target})
                                /\ HasKind(dialect, p[2], rp.target, types)
                                /\ rp.group # "" => p[2].api_group = rp.group
        <3>1. \A q \in Rows \X Rows :
                  q \in Pairs(dialect, request) <=> /\ Referenced(dialect, q[1], q[2], {rp.target})
                                                    /\ HasKind(dialect, q[2], rp.target, types)
                                                    /\ rp.group # "" => q[2].api_group = rp.group
            BY NamingBlock
        <3>. QED
            BY <2>1, <3>1
    <2>3. \A rq \in BuiltinRefPaths :
              /\ Lower[rp.target] = Lower[rq.target] <=> rq.target = rp.target
              /\ rq.target = rp.target => rq.group = rp.group
              /\ RefNames(dialect, p[1], rq) = Names(p[1], rq.pg)
        BY MatchingAssumption, PathTable DEF RefNames
    <2>4. Referenced(dialect, p[1], p[2], {rp.target})
             <=> /\ SameNamespace(p[1], p[2])
                 /\ p[2].kind = rp.target
                 /\ \E rq \in BuiltinRefPaths :
                       /\ rq.target = rp.target /\ rq.group = rp.group
                       /\ p[2].name \in Names(p[1], rq.pg)
        BY <2>3 DEF Referenced
    <2>5. p \in Target(rp) <=> /\ Referenced(dialect, p[1], p[2], {rp.target})
                               /\ p[2].api_group = rp.group
        BY <2>4 DEF Target
    <2>6. Referenced(dialect, p[1], p[2], {rp.target}) => p[2].kind = rp.target
        BY <2>4
    <2>7. ASSUME refreshing = {}, p[2].kind = rp.target
          PROVE  HasKind(dialect, p[2], rp.target, types)
        <3>1. types = TypeRows /\ p[2] \in Rows
            BY <2>7 DEF IInv
        <3>. QED
            BY <2>7, <3>1, OwnKind
    <2>. QED
        BY <2>2, <2>5, <2>6, <2>7
<1>. QED
    BY <1>1, InvInit, InvStep, PTL DEF Spec

----------------------------------------------------------------------------
\* Criteria.

\* SQLite reads the labels a criterion asks for as they are.
Plain(db, c) ==
    db = "sqlite" =>
        /\ c.on = "labels" => DOMAIN c.labels \cap Dotted = {}
        /\ c.on \in {"In", "NotIn", "Exists", "DoesNotExist"} => c.key \notin Dotted

\* Both databases read the same value at a key without a dot.
LEMMA SameValue ==
    ASSUME NEW db, NEW labels, NEW key, db = "sqlite" => key \notin Dotted,
           db \in {"sqlite", "postgres"}
    PROVE  LabelValue(db, labels, key) = Value(labels, key)
BY DEF LabelValue, Extract

\* Both databases find wanted labels, if there are any, as a reader would.
LEMMA SameLabels ==
    ASSUME NEW db \in {"sqlite", "postgres"}, NEW labels, NEW wanted,
           DOMAIN wanted # {}, \A k \in DOMAIN wanted : wanted[k] # NULL,
           db = "sqlite" => DOMAIN wanted \cap Dotted = {}
    PROVE  HasLabels(db, labels, wanted) <=> \A k \in DOMAIN wanted : Value(labels, k) = wanted[k]
<1>1. CASE db = "sqlite"
    <2>1. \A k \in DOMAIN wanted : Extract(labels, k) = Value(labels, k)
        BY <1>1 DEF Extract
    <2>. QED
        BY <1>1, <2>1 DEF HasLabels, Equals
<1>2. CASE db = "postgres"
    <2>1. ContainsObject(labels, wanted) <=> \A k \in DOMAIN wanted : Value(labels, k) = wanted[k]
        BY DEF ContainsObject, Value
    <2>. QED
        BY <1>2, <2>1 DEF HasLabels
<1>. QED
    BY <1>1, <1>2

\* Both databases find a key of an object's labels.
LEMMA SameKey ==
    ASSUME NEW db \in {"sqlite", "postgres"}, NEW o \in Rows, NEW key, db = "sqlite" => key \notin Dotted
    PROVE  HasKey(db, o.labels, key) <=> Value(o.labels, key) # NULL
BY MatchingAssumption DEF HasKey, Extract, Value

\* Both find a text in a list, also if the list is null.
LEMMA SameElement ==
    ASSUME NEW array, NEW text, text # NULL
    PROVE  (\E v \in JsonEach(array) : Equals(v, text)) <=> text \in Elements(array)
BY DEF JsonEach, Equals, Elements

\* Both look for a short name in lower case.
LEMMA KindClause ==
    ASSUME NEW db \in {"sqlite", "postgres"}, NEW o, NEW t \in DOMAIN Lower, NEW ty
    PROVE  HasKind(db, o, t, ty)
             <=> \E rt \in TypesOf(o, ty) : Named(rt, t) \/ Lower[t] \in Elements(rt.short_names)
<1>1. Lower[Lower[t]] = Lower[t] /\ Lower[t] # NULL
    BY MatchingAssumption
<1>2. \A rt : (\E v \in JsonEach(rt.short_names) : Equals(v, Lower[Lower[t]]))
                 <=> Lower[t] \in Elements(rt.short_names)
    BY <1>1, SameElement
<1>. QED
    BY <1>2 DEF HasKind

\* Containment of the wanted parts and their comparison one by one accept the
\* conditions that have them.
LEMMA ConditionClause ==
    ASSUME NEW db \in {"sqlite", "postgres"}, NEW o, NEW c, NULL \notin {c.type, c.status, c.reason}
    PROVE  HasCondition(db, o, c)
             <=> \E x \in Elements(o.conditions) :
                    /\ Value(x, "type") = c.type
                    /\ c.status \in {"", Value(x, "status")}
                    /\ c.reason \in {"", Value(x, "reason")}
<1>1. CASE db = "postgres"
    <2>1. ASSUME NEW x
          PROVE  ContainsObject(x, CondJSON(c))
                   <=> /\ Value(x, "type") = c.type
                       /\ c.status \in {"", Value(x, "status")}
                       /\ c.reason \in {"", Value(x, "reason")}
        <3>1. /\ "type" \in DOMAIN CondJSON(c) /\ CondJSON(c)["type"] = c.type
              /\ "status" \in DOMAIN CondJSON(c) <=> c.status # ""
              /\ "reason" \in DOMAIN CondJSON(c) <=> c.reason # ""
              /\ c.status # "" => CondJSON(c)["status"] = c.status
              /\ c.reason # "" => CondJSON(c)["reason"] = c.reason
              /\ DOMAIN CondJSON(c) \subseteq {"type", "status", "reason"}
            BY DEF CondJSON
        <3>. QED
            BY <3>1 DEF ContainsObject, Value
    <2>. QED
        BY <1>1, <2>1 DEF HasCondition
<1>2. CASE db = "sqlite"
    <2>1. ASSUME NEW x
          PROVE  /\ Equals(Value(x, "type"), c.type) <=> Value(x, "type") = c.type
                 /\ Equals(Value(x, "status"), c.status) <=> Value(x, "status") = c.status
                 /\ Equals(Value(x, "reason"), c.reason) <=> Value(x, "reason") = c.reason
        BY DEF Equals
    <2>2. Value(NULL, "type") # c.type
        BY DEF Value
    <2>. QED
        BY <1>2, <2>1, <2>2 DEF HasCondition, JsonEach, Elements
<1>. QED
    BY <1>1, <1>2

\* A name of a kind: what the clause accepts is a name of the kind, and with
\* all types at hand every name is accepted.
LEMMA KindNames ==
    ASSUME NEW db \in {"sqlite", "postgres"}, NEW o, NEW t \in DOMAIN Lower, NEW ty \in SUBSET TypeRows
    PROVE  LET meant == \E rt \in TypesOf(o, TypeRows) :
                            Lower[t] \in {Lower[n] : n \in {rt.kind, rt.resource, rt.singular}
                                                            \cup Elements(rt.short_names)}
           IN  /\ HasKind(db, o, t, ty) => meant
               /\ meant => HasKind(db, o, t, TypeRows)
<1>1. ASSUME NEW rt \in TypeRows
      PROVE  Lower[t] \in {Lower[n] : n \in {rt.kind, rt.resource, rt.singular}
                                               \cup Elements(rt.short_names)}
             <=> Named(rt, t) \/ Lower[t] \in Elements(rt.short_names)
    <2>1. \A n \in Elements(rt.short_names) : Lower[n] = n
        BY MatchingAssumption
    <2>2. Lower[Lower[t]] = Lower[t]
        BY MatchingAssumption
    <2>3. Named(rt, t) <=> Lower[t] \in {Lower[n] : n \in {rt.kind, rt.resource, rt.singular}}
        BY DEF Named
    <2>4. Lower[t] \in Elements(rt.short_names)
             <=> Lower[t] \in {Lower[n] : n \in Elements(rt.short_names)}
        BY <2>1, <2>2
    <2>. QED
        BY <2>3, <2>4
<1>2. TypesOf(o, ty) \subseteq TypesOf(o, TypeRows) /\ TypesOf(o, TypeRows) \subseteq TypeRows
    BY DEF TypesOf
<1>. QED
    BY <1>1, <1>2, KindClause

\* The clause of a criterion accepts only what the criterion means and, with
\* all types at hand, all of it.
LEMMA HoldsMeans ==
    ASSUME NEW db \in {"sqlite", "postgres"}, NEW c, WellFormed(c), Plain(db, c),
           NEW o \in Rows, NEW ty \in SUBSET TypeRows
    PROVE  /\ Holds(db, c, o, ty) => Means(c, o)
           /\ (db = "postgres" => c.on # "jsonpath") /\ Means(c, o) => Holds(db, c, o, TypeRows)
<1>1. CASE c.on \in {"api_group", "name", "namespace", "id"}
    BY <1>1 DEF Holds, Means
<1>2. CASE c.on = "kind"
    <2>1. c.text \in DOMAIN Lower
        BY <1>2 DEF WellFormed
    <2>2. Holds(db, c, o, ty) <=> HasKind(db, o, c.text, ty)
        BY <1>2 DEF Holds
    <2>3. Holds(db, c, o, TypeRows) <=> HasKind(db, o, c.text, TypeRows)
        BY <1>2 DEF Holds
    <2>4. Means(c, o) <=> \E rt \in TypesOf(o, TypeRows) :
                              Lower[c.text] \in {Lower[n] : n \in {rt.kind, rt.resource, rt.singular}
                                                                     \cup Elements(rt.short_names)}
        BY <1>2 DEF Means
    <2>. QED
        BY <2>1, <2>2, <2>3, <2>4, KindNames
<1>3. CASE c.on = "labels"
    <2>1. HasLabels(db, o.labels, c.labels) <=> \A k \in DOMAIN c.labels : Value(o.labels, k) = c.labels[k]
        BY <1>3, SameLabels DEF WellFormed, Plain
    <2>. QED
        BY <1>3, <2>1 DEF Holds, Means
<1>4. CASE c.on = "condition"
    <2>1. HasCondition(db, o, c) <=> {x \in Elements(o.conditions) :
                                         /\ Value(x, "type") = c.type
                                         /\ c.status \in {"", Value(x, "status")}
                                         /\ c.reason \in {"", Value(x, "reason")}} # {}
        BY <1>4, ConditionClause DEF WellFormed
    <2>. QED
        BY <1>4, <2>1 DEF Holds, Means
<1>5. CASE c.on = "after"
    BY <1>5 DEF Holds, Means
<1>6. CASE c.on = "before"
    BY <1>6 DEF Holds, Means
<1>7. CASE c.on = "category"
    <2>1. TypesOf(o, ty) \subseteq TypesOf(o, TypeRows)
        BY DEF TypesOf
    <2>2. \A t : HasCategory(db, o, c.text, t)
                   <=> \E rt \in TypesOf(o, t) : c.text \in Elements(rt.categories)
        BY <1>7, SameElement DEF HasCategory, WellFormed
    <2>. QED
        BY <1>7, <2>1, <2>2 DEF Holds, Means
<1>8. CASE c.on \in {"In", "NotIn", "Exists", "DoesNotExist"}
    <2>1. LabelValue(db, o.labels, c.key) = Value(o.labels, c.key)
        BY <1>8, SameValue DEF Plain
    <2>2. CASE c.on = "NotIn"
        <3>1. NotIn(db, o.labels, c) <=> Value(o.labels, c.key) \notin c.values
            BY <2>1, <2>2 DEF NotIn, WellFormed
        <3>. QED
            BY <2>2, <3>1 DEF Holds, Means
    <2>3. CASE c.on = "In"
        BY <2>1, <2>3 DEF Holds, Means
    <2>4. CASE c.on \in {"Exists", "DoesNotExist"}
        <3>1. HasKey(db, o.labels, c.key) <=> Value(o.labels, c.key) # NULL
            BY <2>4, SameKey DEF Plain
        <3>. QED
            BY <2>4, <3>1 DEF Holds, Means
    <2>. QED
        BY <1>8, <2>2, <2>3, <2>4
<1>9. CASE c.on = "jsonpath"
    BY <1>9, MatchingAssumption DEF Holds, Means
<1>. QED
    BY <1>1, <1>2, <1>3, <1>4, <1>5, <1>6, <1>7, <1>8, <1>9 DEF WellFormed

\* The criteria of a request are well formed and, if no key it asks for has a
\* dot, plain.
LEMMA RequestCriteria ==
    ASSUME IInv, NEW db, db = "sqlite" => Keys \cap Dotted = {}
    PROVE  /\ request.entries \in Seq(ToSet(request.entries))
           /\ \A f \in ToSet(request.entries) : \A c \in ToSet(f) :
                 c \in Criteria /\ WellFormed(c) /\ Plain(db, c)
           /\ \A k \in DOMAIN request.cluster.labels : request.cluster.labels[k] # NULL
           /\ db = "sqlite" => DOMAIN request.cluster.labels \cap Dotted = {}
<1>1. /\ request.entries \in Seq(ToSet(request.entries))
      /\ \A f \in ToSet(request.entries) : \A c \in ToSet(f) : WellFormed(c)
      /\ \A k \in DOMAIN request.cluster.labels : request.cluster.labels[k] # NULL
    BY MatchingAssumption DEF IInv
<1>2. ASSUME NEW f \in ToSet(request.entries), NEW c \in ToSet(f) PROVE c \in Criteria
    BY DEF Criteria
<1>3. ASSUME NEW c \in Criteria PROVE Plain(db, c)
    <2>1. c.on = "labels" => DOMAIN c.labels \subseteq Keys
        BY DEF Keys
    <2>2. c.on \in {"In", "NotIn", "Exists", "DoesNotExist"} => c.key \in Keys
        <3>1. c.on \in {"In", "NotIn", "Exists", "DoesNotExist"} => c.key \in ExpressionKeys
            BY DEF ExpressionKeys
        <3>. QED
            BY <3>1 DEF Keys
    <2>. QED
        BY <2>1, <2>2 DEF Plain
<1>4. DOMAIN request.cluster.labels \subseteq Keys
    BY DEF Keys
<1>. QED
    BY <1>1, <1>2, <1>3, <1>4

\* The clauses of the cluster filter accept what it means.
LEMMA ClusterMeans ==
    ASSUME IInv, NEW db \in {"sqlite", "postgres"}, db = "sqlite" => Keys \cap Dotted = {}, NEW o
    PROVE  ClusterHolds(db, request.cluster, o)
             <=> /\ request.cluster.name \in {"", o.cluster}
                 /\ \A k \in DOMAIN request.cluster.labels :
                       Value(ClusterLabels[o.cluster], k) = request.cluster.labels[k]
<1>1. DOMAIN request.cluster.labels # {} =>
        (HasLabels(db, ClusterLabels[o.cluster], request.cluster.labels)
           <=> \A k \in DOMAIN request.cluster.labels :
                  Value(ClusterLabels[o.cluster], k) = request.cluster.labels[k])
    BY RequestCriteria, SameLabels
<1>. QED
    BY <1>1 DEF ClusterHolds

\* A query without entries has no OR; one with entries that all have a clause
\* has all of them in it.
LEMMA OrGroups ==
    ASSUME IInv, Complete, NEW db, NEW o
    PROVE  EntriesHold(db, request.entries, o, types)
             <=> \/ request.entries = <<>>
                 \/ \E f \in ToSet(request.entries) : FilterHolds(db, f, o, types)
<1>1. {f \in ToSet(request.entries) : \E c \in ToSet(f) : HasClause(c)} = ToSet(request.entries)
    BY DEF Complete
<1>2. ToSet(request.entries) = {} <=> request.entries = <<>>
    <2>1. PICK S : S = ToSet(request.entries)
        OBVIOUS
    <2>2. request.entries \in Seq(S)
        BY <2>1, MatchingAssumption DEF IInv
    <2>3. ASSUME NEW s \in Seq(S) PROVE s # <<>> => s[1] \in ToSet(s)
        BY DEF ToSet
    <2>. QED
        BY <2>2, <2>3, NoElements
<1>. QED
    BY <1>1, <1>2 DEF EntriesHold

\* An entry's clauses accept only what its criteria mean and, with all types
\* at hand, all of it.
LEMMA FilterMeans ==
    ASSUME IInv, Complete, dialect = "sqlite" => Keys \cap Dotted = {},
           NEW f \in ToSet(request.entries), NEW o \in Rows
    PROVE  /\ FilterHolds(dialect, f, o, types) => \A c \in ToSet(f) : Means(c, o)
           /\ types = TypeRows /\ (dialect = "postgres" => \A c \in Criteria : c.on # "jsonpath")
                 /\ (\A c \in ToSet(f) : Means(c, o))
              => FilterHolds(dialect, f, o, types)
<1>1. \A c \in ToSet(f) : c \in Criteria /\ WellFormed(c) /\ Plain(dialect, c)
    BY RequestCriteria
<1>2. dialect \in {"sqlite", "postgres"} /\ types \in SUBSET TypeRows
    BY DEF IInv
<1>3. ASSUME NEW c \in ToSet(f)
      PROVE  /\ Holds(dialect, c, o, types) => Means(c, o)
             /\ (dialect = "postgres" => c.on # "jsonpath") /\ Means(c, o)
                   => Holds(dialect, c, o, TypeRows)
    BY <1>1, <1>2, HoldsMeans
<1>4. ASSUME NEW c \in ToSet(f), ~HasClause(c) PROVE Means(c, o)
    <2>1. c.on = "NotIn" /\ c.values = {}
        BY <1>4 DEF Complete, HasClause
    <2>. QED
        BY <2>1 DEF Means
<1>. QED
    BY <1>1, <1>3, <1>4 DEF FilterHolds

\* A root query returns only what its filter means, also between two
\* statements of discovery, for every filter and every table.
THEOREM OnlyMeantCorrect == Spec => []OnlyMeant
<1>1. IInv => OnlyMeant
    <2>. SUFFICES ASSUME IInv, Answered, request.relation = "", Complete,
                         dialect = "sqlite" => Keys \cap Dotted = {}, NEW o \in answer.rows
                  PROVE  o \in Meant
        BY DEF OnlyMeant
    <2>1. /\ o \in Rows /\ ClusterHolds(dialect, request.cluster, o)
          /\ EntriesHold(dialect, request.entries, o, types)
        BY DEF IInv, Result, Roots
    <2>2. /\ request.cluster.name \in {"", o.cluster}
          /\ \A k \in DOMAIN request.cluster.labels :
                Value(ClusterLabels[o.cluster], k) = request.cluster.labels[k]
        BY <2>1, ClusterMeans DEF IInv
    <2>3. \/ request.entries = <<>>
          \/ \E f \in ToSet(request.entries) : FilterHolds(dialect, f, o, types)
        BY <2>1, OrGroups
    <2>4. \/ request.entries = <<>>
          \/ \E f \in ToSet(request.entries) : \A c \in ToSet(f) : Means(c, o)
        BY <2>1, <2>3, FilterMeans
    <2>. QED
        BY <2>1, <2>2, <2>4 DEF Meant
<1>. QED
    BY <1>1, InvInit, InvStep, PTL DEF Spec

\* With discovery at rest it returns all of that.
THEOREM AllMeantCorrect == Spec => []AllMeant
<1>1. IInv => AllMeant
    <2>. SUFFICES ASSUME IInv, Answered, request.relation = "", Complete, refreshing = {},
                         dialect = "sqlite" => Keys \cap Dotted = {},
                         dialect = "postgres" => \A c \in Criteria : c.on # "jsonpath",
                         NEW o \in Meant
                  PROVE  o \in answer.rows
        BY DEF AllMeant
    <2>1. types = TypeRows
        BY DEF IInv
    <2>2. /\ o \in Rows
          /\ request.cluster.name \in {"", o.cluster}
          /\ \A k \in DOMAIN request.cluster.labels :
                Value(ClusterLabels[o.cluster], k) = request.cluster.labels[k]
          /\ \/ request.entries = <<>>
             \/ \E f \in ToSet(request.entries) : \A c \in ToSet(f) : Means(c, o)
        BY DEF Meant
    <2>3. ClusterHolds(dialect, request.cluster, o)
        BY <2>2, ClusterMeans DEF IInv
    <2>4. \/ request.entries = <<>>
          \/ \E f \in ToSet(request.entries) : FilterHolds(dialect, f, o, types)
        BY <2>1, <2>2, FilterMeans
    <2>5. EntriesHold(dialect, request.entries, o, types)
        BY <2>4, OrGroups
    <2>6. answer.rows = Roots(dialect, request)
        BY DEF IInv, Result
    <2>. QED
        BY <2>2, <2>3, <2>5, <2>6 DEF Roots
<1>. QED
    BY <1>1, InvInit, InvStep, PTL DEF Spec

----------------------------------------------------------------------------
\* The two databases.

\* But for jsonpath and for keys with a dot, a criterion holds on both.
LEMMA HoldsAgree ==
    ASSUME NEW db \in {"sqlite", "postgres"}, NEW c, WellFormed(c), Plain("sqlite", c),
           c.on # "jsonpath", NEW o \in Rows
    PROVE  Holds(db, c, o, types) <=> Holds("sqlite", c, o, types)
<1>0. "sqlite" \in {"sqlite", "postgres"} /\ Plain(db, c)
    BY DEF Plain
<1>1. CASE c.on \in {"In", "NotIn", "Exists", "DoesNotExist"}
    <2>1. LabelValue(db, o.labels, c.key) = Value(o.labels, c.key)
        BY <1>0, <1>1, SameValue DEF Plain
    <2>2. LabelValue("sqlite", o.labels, c.key) = Value(o.labels, c.key)
        BY <1>0, <1>1, SameValue DEF Plain
    <2>3. HasKey(db, o.labels, c.key) <=> HasKey("sqlite", o.labels, c.key)
        BY <1>0, <1>1, SameKey DEF Plain
    <2>. QED
        BY <1>1, <2>1, <2>2, <2>3 DEF Holds, NotIn
<1>2. CASE c.on = "labels"
    <2>1. HasLabels(db, o.labels, c.labels) <=> \A k \in DOMAIN c.labels : Value(o.labels, k) = c.labels[k]
        BY <1>0, <1>2, SameLabels DEF WellFormed, Plain
    <2>2. HasLabels("sqlite", o.labels, c.labels)
             <=> \A k \in DOMAIN c.labels : Value(o.labels, k) = c.labels[k]
        BY <1>0, <1>2, SameLabels DEF WellFormed, Plain
    <2>. QED
        BY <1>2, <2>1, <2>2 DEF Holds
<1>3. CASE c.on = "kind"
    <2>1. HasKind(db, o, c.text, types) <=> HasKind("sqlite", o, c.text, types)
        BY <1>0, <1>3, KindClause DEF WellFormed
    <2>. QED
        BY <1>3, <2>1 DEF Holds
<1>4. CASE c.on = "condition"
    <2>1. HasCondition(db, o, c) <=> HasCondition("sqlite", o, c)
        BY <1>0, <1>4, ConditionClause DEF WellFormed
    <2>. QED
        BY <1>4, <2>1 DEF Holds
<1>5. CASE c.on = "category"
    <2>1. HasCategory(db, o, c.text, types) <=> HasCategory("sqlite", o, c.text, types)
        BY <1>5, SameElement DEF HasCategory, WellFormed
    <2>. QED
        BY <1>5, <2>1 DEF Holds
<1>6. CASE c.on \in {"api_group", "name", "namespace", "id", "after", "before"}
    BY <1>6 DEF Holds
<1>. QED
    BY <1>1, <1>2, <1>3, <1>4, <1>5, <1>6 DEF WellFormed

\* So do the entries of a request, and its cluster filter.
LEMMA RequestAgrees ==
    ASSUME IInv, Keys \cap Dotted = {}, \A c \in Criteria : c.on # "jsonpath",
           NEW db \in {"sqlite", "postgres"}, NEW o \in Rows
    PROVE  /\ \A f \in ToSet(request.entries) :
                 FilterHolds(db, f, o, types) <=> FilterHolds("sqlite", f, o, types)
           /\ EntriesHold(db, request.entries, o, types)
                 <=> EntriesHold("sqlite", request.entries, o, types)
           /\ ClusterHolds(db, request.cluster, o) <=> ClusterHolds("sqlite", request.cluster, o)
<1>1. \A f \in ToSet(request.entries) : \A c \in ToSet(f) :
          c \in Criteria /\ WellFormed(c) /\ Plain("sqlite", c)
    BY RequestCriteria
<1>2. ASSUME NEW f \in ToSet(request.entries)
      PROVE  FilterHolds(db, f, o, types) <=> FilterHolds("sqlite", f, o, types)
    <2>1. \A c \in ToSet(f) : Holds(db, c, o, types) <=> Holds("sqlite", c, o, types)
        BY <1>1, HoldsAgree
    <2>. QED
        BY <2>1 DEF FilterHolds
<1>3. EntriesHold(db, request.entries, o, types)
         <=> EntriesHold("sqlite", request.entries, o, types)
    BY <1>2 DEF EntriesHold
<1>4. ClusterHolds(db, request.cluster, o) <=> ClusterHolds("sqlite", request.cluster, o)
    <2>1. "sqlite" \in {"sqlite", "postgres"}
        OBVIOUS
    <2>. QED
        BY <2>1, ClusterMeans
<1>. QED
    BY <1>2, <1>3, <1>4

\* A join differs only for a selector that is empty or has a key with a dot.
LEMMA JoinsAgree ==
    ASSUME NEW db \in {"sqlite", "postgres"}, NEW rel, NEW filters, NEW x \in Rows, NEW y \in Rows,
           ~(Joined(db, rel, filters, x, y) <=> Joined("sqlite", rel, filters, x, y))
    PROVE  LET holder == IF rel = "selects" THEN x ELSE y
           IN  /\ rel \in {"selects", "selected-by"}
               /\ DOMAIN holder.selector = {} \/ DOMAIN holder.selector \cap Dotted # {}
<1>1. ASSUME NEW h \in Rows, NEW o, h.selector # NULL,
             ~(Selected(db, o.labels, h.selector) <=> Selected("sqlite", o.labels, h.selector))
      PROVE  DOMAIN h.selector = {} \/ DOMAIN h.selector \cap Dotted # {}
    <2>1. \A k \in DOMAIN h.selector : h.selector[k] # NULL
        BY <1>1, MatchingAssumption
    <2>2. SUFFICES ASSUME DOMAIN h.selector # {}, DOMAIN h.selector \cap Dotted = {} PROVE FALSE
        OBVIOUS
    <2>3. ContainsObject(o.labels, h.selector)
             <=> \A k \in DOMAIN h.selector : Value(o.labels, k) = h.selector[k]
        BY <2>1, <2>2 DEF ContainsObject, Value
    <2>4. \A k \in DOMAIN h.selector : Extract(o.labels, k) = Value(o.labels, k)
        BY <2>2 DEF Extract
    <2>. QED
        BY <1>1, <2>1, <2>3, <2>4 DEF Selected
<1>2. Owner(db, x, y) <=> Owner("sqlite", x, y)
    BY SameElement, MatchingAssumption DEF Owner
<1>3. Descendant(db, x, y) <=> Descendant("sqlite", x, y)
    BY SameElement, MatchingAssumption DEF Descendant
<1>4. \A kinds : Referenced(db, x, y, kinds) <=> Referenced("sqlite", x, y, kinds)
    <2>1. \A rp \in BuiltinRefPaths : RefNames(db, x, rp) = RefNames("sqlite", x, rp)
        BY PathTable DEF RefNames
    <2>. QED
        BY <2>1 DEF Referenced
<1>5. rel \in {"selects", "selected-by"}
    BY <1>2, <1>3, <1>4 DEF Joined
<1>6. CASE rel = "selects"
    BY <1>1, <1>6 DEF Joined, Selects
<1>7. CASE rel = "selected-by"
    BY <1>1, <1>7 DEF Joined, SelectedBy
<1>. QED
    BY <1>5, <1>6, <1>7

\* What SQLite answers in development PostgreSQL answers in production, unless
\* it rejects the statement, but for jsonpath, for keys with a dot and for
\* empty selectors: for every request and every table.
THEOREM DialectsAgreeCorrect == Spec => []DialectsAgree
<1>1. IInv => DialectsAgree
    <2>. DEFINE Holder(p) == IF request.relation = "selects" THEN p[1] ELSE p[2]
    <2>. SUFFICES ASSUME IInv, Answered, Keys \cap Dotted = {},
                         \A c \in Criteria : c.on # "jsonpath",
                         NEW p \in SymDiff(answer.rows, Result(Other, request))
                  PROVE  /\ request.relation \in {"selects", "selected-by"}
                         /\ \/ DOMAIN Holder(p).selector = {}
                            \/ DOMAIN Holder(p).selector \cap Dotted # {}
        BY DEF DialectsAgree
    <2>0. dialect \in {"sqlite", "postgres"} /\ Other \in {"sqlite", "postgres"}
        BY DEF IInv, Other
    <2>1. PICK db \in {"sqlite", "postgres"} :
              ~(p \in Result(db, request) <=> p \in Result("sqlite", request))
        <3>1. ~(p \in Result(dialect, request) <=> p \in Result(Other, request))
            BY DEF SymDiff, IInv
        <3>. QED
            BY <2>0, <3>1
    <2>2. CASE request.relation = ""
        <3>1. ~(p \in Roots(db, request) <=> p \in Roots("sqlite", request))
            BY <2>1, <2>2 DEF Result
        <3>2. /\ EntriesHold(db, request.entries, p, types)
                    <=> EntriesHold("sqlite", request.entries, p, types)
              /\ ClusterHolds(db, request.cluster, p) <=> ClusterHolds("sqlite", request.cluster, p)
            <4>1. p \in Rows
                BY <3>1 DEF Roots
            <4>. QED
                BY <2>1, <4>1, RequestAgrees
        <3>. QED
            BY <3>1, <3>2 DEF Roots
    <2>3. CASE request.relation # ""
        <3>1. ~(p \in Pairs(db, request) <=> p \in Pairs("sqlite", request))
            BY <2>1, <2>3 DEF Result
        <3>2. p \in Rows \X Rows /\ p[1] \in Rows /\ p[2] \in Rows
            BY <3>1 DEF Pairs
        <3>3. \A f \in ToSet(request.entries) :
                  FilterHolds(db, f, p[2], types) <=> FilterHolds("sqlite", f, p[2], types)
            BY <2>1, <3>2, RequestAgrees
        <3>4. ~(Joined(db, request.relation, request.entries, p[1], p[2])
                  <=> Joined("sqlite", request.relation, request.entries, p[1], p[2]))
            BY <3>1, <3>2, <3>3 DEF Pairs
        <3>. QED
            BY <2>1, <3>2, <3>4, JoinsAgree
    <2>. QED
        BY <2>2, <2>3
<1>. QED
    BY <1>1, InvInit, InvStep, PTL DEF Spec
=============================================================================
