----------------------------- MODULE Relations -----------------------------
(***************************************************************************)
(* The join conditions of relations: internal/engine/relations.go and the  *)
(* built-in reference paths of refs.go, for SQLite and PostgreSQL.         *)
(* Each operator says whether the join of a relation accepts a child row   *)
(* for a parent row.                                                       *)
(***************************************************************************)
EXTENDS Filters

CONSTANT Malformed   \* an annotation kuery.io/relates-to that is no JSON

\* A path is the fields between the arrays it goes through, and a row's refs
\* are the names found in it, each with the path it is at.
Names(o, path) == {r.name : r \in {x \in o.refs : x.at = path}}

\* RefPath: the target's kind and group, the path for PostgreSQL, the array and
\* the field, or marker, for SQLite.  The source's kind and group are not read.
Ref(target, group, pg, array, field) ==
    [target |-> target, group |-> group, pg |-> pg, array |-> array, field |-> field]

InArray(target, array, field) == Ref(target, "", <<array, field>>, array, field)

Scalar(target, group, field) == Ref(target, group, <<field>>, "", field)

Nested(target, outer, inner, field, marker) ==
    Ref(target, "", <<outer, inner, field>>, outer, marker)

BuiltinRefPaths ==
    {InArray("Secret", "spec.volumes", "secret.secretName"),
     InArray("ConfigMap", "spec.volumes", "configMap.name"),
     InArray("PersistentVolumeClaim", "spec.volumes", "persistentVolumeClaim.claimName"),
     Scalar("ServiceAccount", "", "spec.serviceAccountName"),
     InArray("Secret", "spec.imagePullSecrets", "name"),
     Nested("Secret", "spec.containers", "env", "valueFrom.secretKeyRef.name", "NESTED_ENV_SECRET"),
     Nested("ConfigMap", "spec.containers", "env", "valueFrom.configMapKeyRef.name",
            "NESTED_ENV_CONFIGMAP"),
     Nested("Secret", "spec.containers", "envFrom", "secretRef.name", "NESTED_ENVFROM_SECRET"),
     Nested("ConfigMap", "spec.containers", "envFrom", "configMapRef.name", "NESTED_ENVFROM_CONFIGMAP"),
     Nested("Service", "spec.rules", "http.paths", "backend.service.name", "NESTED_INGRESS_SERVICE"),
     InArray("Secret", "spec.tls", "secretName"),
     Scalar("StorageClass", "storage.k8s.io", "spec.storageClassName"),
     Scalar("PersistentVolume", "", "spec.volumeName"),
     Scalar("ClusterRole", "rbac.authorization.k8s.io", "roleRef.name")}

\* Mutant: the markers are not known.
SQLitePathFlat(rp) == IF rp.array = "" THEN <<rp.field>> ELSE <<rp.array, rp.field>>

\* buildSQLiteRefSubquery: a subquery of its own for every nested array, chosen
\* by the marker.
SQLitePath(rp) ==
    CASE rp.array = "" -> <<rp.field>>
      [] rp.field = "NESTED_ENV_SECRET" ->
            <<"spec.containers", "env", "valueFrom.secretKeyRef.name">>
      [] rp.field = "NESTED_ENV_CONFIGMAP" ->
            <<"spec.containers", "env", "valueFrom.configMapKeyRef.name">>
      [] rp.field = "NESTED_ENVFROM_SECRET" ->
            <<"spec.containers", "envFrom", "secretRef.name">>
      [] rp.field = "NESTED_ENVFROM_CONFIGMAP" ->
            <<"spec.containers", "envFrom", "configMapRef.name">>
      [] rp.field = "NESTED_INGRESS_SERVICE" ->
            <<"spec.rules", "http.paths", "backend.service.name">>
      [] OTHER -> <<rp.array, rp.field>>

\* BuildRefNameSubquery
RefNames(dialect, o, rp) == Names(o, IF dialect = "postgres" THEN rp.pg ELSE SQLitePath(rp))

SameNamespace(parent, child) ==
    child.cluster = parent.cluster /\ child.namespace = parent.namespace

----------------------------------------------------------------------------
\* An owner reference is its uid.
Descendant(dialect, parent, child) ==
    /\ child.cluster = parent.cluster
    /\ IF dialect = "postgres" THEN parent.uid \in Elements(child.owner_refs)
       ELSE \E ref \in JsonEach(child.owner_refs) : Equals(ref, parent.uid)

Owner(dialect, parent, child) ==
    /\ child.cluster = parent.cluster
    /\ IF dialect = "postgres" THEN child.uid \in Elements(parent.owner_refs)
       ELSE \E ref \in JsonEach(parent.owner_refs) : Equals(ref, child.uid)

\* The kinds named in the filters of a relation, as they are written.
TargetKinds(filters) ==
    {c.text : c \in {x \in UNION {ToSet(f) : f \in ToSet(filters)} : x.on = "kind"}}

\* Mutant: a kind in the filter does not narrow the reference paths.
ReferencedAnyPath(dialect, parent, child, kinds) ==
    /\ SameNamespace(parent, child)
    /\ \E rp \in BuiltinRefPaths : child.name \in RefNames(dialect, parent, rp)
    /\ kinds # {} => child.kind \in kinds

\* Paths are chosen by kind whatever its case, the target's kind is compared
\* as written.  Neither the source's kind nor the target's group plays a role.
Referenced(dialect, parent, child, kinds) ==
    /\ SameNamespace(parent, child)
    /\ \E rp \in BuiltinRefPaths :
          /\ kinds # {} => \E k \in kinds : Lower[k] = Lower[rp.target]
          /\ child.name \in RefNames(dialect, parent, rp)
    /\ kinds # {} => child.kind \in kinds

\* Labels have every entry of a selector: contained, or none that is missing
\* or different.
Selected(dialect, labels, selector) ==
    IF dialect = "postgres" THEN ContainsObject(labels, selector)
    ELSE ~\E k \in DOMAIN selector :
             Extract(labels, k) = NULL \/ Extract(labels, k) # selector[k]

Selects(dialect, parent, child) ==
    /\ SameNamespace(parent, child)
    /\ parent.selector # NULL
    /\ child.id # parent.id
    /\ Selected(dialect, child.labels, parent.selector)

\* Mutant: one of the exchanged aliases is not.
SelectedBySelf(dialect, parent, child) ==
    /\ SameNamespace(parent, child)
    /\ child.selector # NULL
    /\ child.id # parent.id
    /\ Selected(dialect, child.labels, child.selector)

SelectedBy(dialect, parent, child) ==
    /\ SameNamespace(parent, child)
    /\ child.selector # NULL
    /\ child.id # parent.id
    /\ Selected(dialect, parent.labels, child.selector)

\* From here on both databases are asked for the same expression.
EventOf(parent, child) ==
    child.cluster = parent.cluster /\ child.kind = "Event" /\ Equals(child.involved, parent.uid)

Coalesce(v, default) == IF v = NULL THEN default ELSE v

\* An entry of the annotation kuery.io/relates-to names the row; what it
\* leaves out is the parent's cluster, the core group and no namespace.  The
\* annotation may be text that is no JSON.
Linked(parent, child) ==
    /\ parent.relates_to # Malformed
    /\ \E ref \in Elements(parent.relates_to) :
          /\ child.cluster   = Coalesce(ref.cluster, parent.cluster)
          /\ child.api_group = Coalesce(ref.group, "")
          /\ child.namespace = Coalesce(ref.namespace, "")
          /\ child.kind = ref.kind /\ child.name = ref.name

\* SQLite quotes this key, so its dot does no harm.
Group(o) == Value(o.labels, "kuery.io/group")

Grouped(parent, child) == Group(parent) # NULL /\ Group(child) = Group(parent) /\ child.id # parent.id

\* buildRelationJoin: a relation it does not know joins nothing.
Joined(dialect, relation, filters, parent, child) ==
    CASE relation = "descendants" -> Descendant(dialect, parent, child)
      [] relation = "owners"      -> Owner(dialect, parent, child)
      [] relation = "references"  -> Referenced(dialect, parent, child, TargetKinds(filters))
      [] relation = "selects"     -> Selects(dialect, parent, child)
      [] relation = "selected-by" -> SelectedBy(dialect, parent, child)
      [] relation = "events"      -> EventOf(parent, child)
      [] relation = "linked"      -> Linked(parent, child)
      [] relation = "grouped"     -> Grouped(parent, child)
      [] OTHER -> FALSE

\* jsonb_array_elements raises an error for an object without owners.  The cast
\* to jsonb and json_each do for an annotation that is no JSON, whichever
\* object has it.
JoinMayFail(dialect, relation, rows) ==
    \/ dialect = "postgres" /\ relation = "owners" /\ \E o \in rows : o.owner_refs = NULL
    \/ relation = "linked" /\ \E o \in rows : o.relates_to = Malformed
=============================================================================
