----------------------------- MODULE MCMatching -----------------------------
(* Matching for TLC: a Deployment, Pods, a ConfigMap and two Secrets, of two  *)
(* groups, of the same name, a binding with its role, and an Event, in two    *)
(* clusters, as the handlers store them.                                      *)
EXTENDS Matching, Naturals

none == << >>

\* A row with nothing but a name.
Object(id, cluster, group, kind, name) ==
    [id |-> id, uid |-> id, cluster |-> cluster, api_group |-> group, kind |-> kind,
     namespace |-> "default", name |-> name, labels |-> NULL, conditions |-> NULL,
     creation_ts |-> NULL, owner_refs |-> NULL, selector |-> NULL, involved |-> NULL,
     refs |-> {}, relates_to |-> NULL, truth |-> NULL]

Condition(type, status, reason) == [type |-> type, status |-> status, reason |-> reason]

deployment ==
    [Object("d", "c1", "apps", "Deployment", "web") EXCEPT
        !.labels = "app" :> "web", !.selector = "app" :> "web", !.truth = "true",
        !.conditions = {Condition("Available", "True", "ok")}, !.creation_ts = 1]
pod ==
    [Object("p", "c1", "", "Pod", "web-1") EXCEPT
        !.labels = ("app" :> "web") @@ ("k8s.io/name" :> "web") @@ ("kuery.io/group" :> "g")
                   @@ ("zone" :> "a"),
        !.owner_refs = {"d"}, !.creation_ts = 2, !.truth = "false",
        !.conditions = {Condition("Ready", "False", "init"), [type |-> "Scheduled", status |-> "True"]},
        !.refs = {[at |-> <<"spec.volumes", "secret.secretName">>, name |-> "web"],
                  [at |-> <<"spec.containers", "env", "valueFrom.configMapKeyRef.name">>,
                   name |-> "conf"]}]
\* A Pod of another cluster that names the same owner.
farPod ==
    [Object("f", "c2", "", "Pod", "web-1") EXCEPT
        !.labels = ("app" :> "db") @@ ("kuery.io/group" :> "g"),
        !.owner_refs = {"d"}, !.truth = "text",
        !.conditions = {Condition("Ready", "True", "ok")}]
secret ==
    [Object("s", "c1", "", "Secret", "web") EXCEPT !.creation_ts = 3]
\* A kind of that name in another group, with an annotation nobody can read.
otherSecret ==
    [Object("o", "c1", "example.com", "Secret", "web") EXCEPT !.relates_to = Malformed]
\* Objects of the cluster have no namespace.
role ==
    [Object("r", "c1", "rbac.authorization.k8s.io", "ClusterRole", "admin") EXCEPT !.namespace = ""]
binding ==
    [Object("b", "c1", "rbac.authorization.k8s.io", "ClusterRoleBinding", "admins") EXCEPT
        !.namespace = "", !.refs = {[at |-> <<"roleRef.name">>, name |-> "admin"]}]
\* Its selector is empty, and another one's key has a dot.
configMap ==
    [Object("m", "c1", "", "ConfigMap", "web") EXCEPT !.selector = none,
        !.relates_to = {[cluster |-> NULL, group |-> NULL, kind |-> "Secret",
                         namespace |-> "default", name |-> "web"],
                        [cluster |-> "c2", group |-> "", kind |-> "Pod",
                         namespace |-> "default", name |-> "web-1"]}]
conf ==
    [Object("n", "c1", "", "ConfigMap", "conf") EXCEPT !.selector = "k8s.io/name" :> "web"]
event ==
    [Object("e", "c1", "", "Event", "web-1.17") EXCEPT !.involved = "p"]

MCRows == {deployment, pod, farPod, secret, otherSecret, role, binding, configMap, conf, event}

Type(cluster, group, kind, resource, singular, short, categories) ==
    [cluster |-> cluster, api_group |-> group, kind |-> kind, resource |-> resource,
     singular |-> singular, short_names |-> short, categories |-> categories]

MCTypeRows ==
    {Type("c1", "apps", "Deployment", "deployments", "deployment", {"deploy"}, {"all"}),
     Type("c1", "", "Pod", "pods", "pod", {"po"}, {"all"}),
     Type("c2", "", "Pod", "pods", "pod", {"po"}, {"all"}),
     Type("c1", "", "Secret", "secrets", "secret", NULL, NULL),
     Type("c1", "example.com", "Secret", "secrets", "secret", {"sec"}, {"all"}),
     Type("c1", "rbac.authorization.k8s.io", "ClusterRole", "clusterroles", "clusterrole", {"cr"}, NULL),
     Type("c1", "rbac.authorization.k8s.io", "ClusterRoleBinding", "clusterrolebindings",
          "clusterrolebinding", {"crb"}, NULL),
     Type("c1", "", "ConfigMap", "configmaps", "configmap", {"cm"}, NULL),
     Type("c1", "", "Event", "events", "event", {"ev"}, NULL)}

MCLower ==
    [t \in {"deployment", "deployments", "deploy", "pod", "pods", "po", "secret", "secrets",
            "configmap", "configmaps", "cm", "event", "events", "ev", "service",
            "sec", "cr", "crb", "clusterroles", "clusterrolebinding", "clusterrolebindings",
            "persistentvolumeclaim", "serviceaccount", "storageclass", "persistentvolume",
            "clusterrole"} |-> t]
    @@ ("Deployment" :> "deployment") @@ ("Pod" :> "pod") @@ ("Secret" :> "secret")
    @@ ("ConfigMap" :> "configmap") @@ ("Event" :> "event") @@ ("PO" :> "po") @@ ("Pods" :> "pods")
    @@ ("Service" :> "service") @@ ("PersistentVolumeClaim" :> "persistentvolumeclaim")
    @@ ("ServiceAccount" :> "serviceaccount") @@ ("StorageClass" :> "storageclass")
    @@ ("PersistentVolume" :> "persistentvolume") @@ ("ClusterRole" :> "clusterrole")
    @@ ("ClusterRoleBinding" :> "clusterrolebinding")

MCClusterLabels == ("c1" :> ("env" :> "prod")) @@ ("c2" :> NULL)

----------------------------------------------------------------------------
On(column, text) == [on |-> column, text |-> text]
Expr(op, key, values) == [on |-> op, key |-> key, values |-> values]

Singles ==
    {On("kind", k) : k \in {"Pod", "PO", "Pods", "secret", "cm"}}
    \cup {[on |-> "condition", type |-> "Ready", status |-> "", reason |-> ""],
          On("api_group", "apps"), On("name", "web"), On("namespace", "default"), On("id", "p"),
          On("category", "all"), [on |-> "after", time |-> 1], [on |-> "before", time |-> 3],
          [on |-> "jsonpath"]}
    \cup {[on |-> "labels", labels |-> l] :
             l \in {"app" :> "web", "k8s.io/name" :> "web",
                    ("app" :> "web") @@ ("zone" :> "a"), ("app" :> "web") @@ ("tier" :> "x")}}
    \cup {[on |-> "condition", type |-> t, status |-> s, reason |-> r] :
             t \in {"Ready", "Scheduled"}, s \in {"True"}, r \in {"", "ok"}}
    \cup {Expr(op, key, values) : op \in {"In", "NotIn"}, key \in {"app", "k8s.io/name"},
             values \in {{}, {"web"}}}
    \cup {Expr(op, key, {}) : op \in {"Exists", "DoesNotExist"}, key \in {"app", "k8s.io/name"}}

NoCluster == [name |-> "", labels |-> none]

Root(entries) == [relation |-> "", cluster |-> NoCluster, entries |-> entries]
Block(relation, entries) == [relation |-> relation, cluster |-> NoCluster, entries |-> entries]

notWeb  == Expr("NotIn", "app", {"web"})
ready   == [on |-> "condition", type |-> "Ready", status |-> "True", reason |-> ""]

MCRequests ==
    {Root(<<>>), Root(<< <<>>, <<On("name", "web")>> >>)}
    \cup {Root(<< <<c>> >>) : c \in Singles}
    \cup {Root(<< <<On("kind", "po"), c>>, <<On("name", "web"), notWeb>> >>) : c \in {ready, notWeb}}
    \cup {Root(<< <<On("name", "web"), Expr(op, "app", {})>> >>) : op \in {"In", "NotIn"}}
    \cup {Root(<< <<Expr("Exists", "app", {}), c>> >>) : c \in {notWeb, Expr("Exists", "zone", {})}}
    \cup {[Root(<< <<On("kind", "Pod")>> >>) EXCEPT !.cluster = [name |-> n, labels |-> l]] :
             n \in {"", "c2"}, l \in {none, "env" :> "prod"}}
    \cup {Block(r, <<>>) : r \in {"descendants", "owners", "references", "selects", "selected-by",
                                  "events", "linked", "grouped", "uses"}}
    \cup {Block("references", << <<On("kind", k)>> >>) : k \in {"Secret", "ConfigMap", "secret", "cm"}}
    \cup {Block("references", << <<On("api_group", g), On("kind", "ClusterRole")>> >>) :
             g \in {"rbac.authorization.k8s.io", "apps"}}
    \cup {Block("descendants", << <<On("kind", "po")>>, <<ready>> >>)}
=============================================================================
