-------------------------- MODULE MCRelationQuery --------------------------
(* RelationQuery for TLC: a request for the descendants of two root objects, *)
(* and for the descendants and references of those; and one for all their    *)
(* descendants, with their events; and one that is refused.                  *)
EXTENDS RelationQuery, TLC

CONSTANTS a, b, c, d, e

desc == <<"descendants">>
nest == <<"descendants", "descendants">>
refs == <<"descendants", "references">>
all  == <<"descendants+">>
evts == <<"descendants+", "events">>
evtp == <<"descendants", "events+">>

\* One kind, but for the event e; names in the order a < b < c < d.
MCSegments == (a :> <<1, 1>>) @@ (b :> <<1, 2>>) @@ (c :> <<1, 3>>) @@ (d :> <<1, 4>>)
              @@ (e :> <<0, 1>>)

\* The name of c is the name of b, a hyphen and more.
MCHyphenated == {<<2, 3>>}

\* The name of c has a dot, as in kube-root-ca.crt.
DottedSegments == (a :> <<1, 1>>) @@ (b :> <<1, 2>>) @@ (c :> <<1, 3, 5>>) @@ (d :> <<1, 4>>)
                  @@ (e :> <<0, 1>>)

\* Order by name.
MCRank == (a :> 1) @@ (b :> 2) @@ (c :> 3) @@ (d :> 4) @@ (e :> 5)

\* events has no transitive form.
MCRequests == {{desc, nest, refs}, {all, evts}, {desc, evtp}}
OneBlock    == {{desc}}

MCBaseRelation ==
    [n \in {"descendants", "references", "events"} |-> n] @@ ("descendants+" :> "descendants")
    @@ ("events+" :> "events")

\* Filters: c is not wanted as a child of a root, nor c as a reference.
MCAdmits == (desc :> {a, b, d}) @@ (nest :> Objects) @@ (refs :> {b, d})
            @@ (all :> Objects) @@ (evts :> Objects) @@ (evtp :> Objects)
NoFilter == (desc :> Objects) @@ (nest :> Objects) @@ (refs :> Objects)
NoLimit  == (desc :> 0) @@ (nest :> 0) @@ (refs :> 0)
RefLimit == (desc :> 0) @@ (nest :> 0) @@ (refs :> 1) @@ (all :> 0) @@ (evts :> 1) @@ (evtp :> 0)

MCJoinable == [descendants |-> {<<a, b>>, <<a, c>>, <<b, c>>, <<c, b>>, <<c, d>>},
               references  |-> {<<b, c>>, <<b, d>>, <<c, d>>},
               events      |-> {<<b, e>>, <<c, e>>}]
OneLevel   == [descendants |-> {<<a, c>>, <<b, c>>, <<b, d>>}, references |-> {}, events |-> {}]

\* The theorems apply to the instance without a dotted name.
ASSUME InstanceInScope ==
    Segments = MCSegments => Undotted /\ Identified /\ OneWay /\ LimitsAtBottom /\ AllShallow
=============================================================================
