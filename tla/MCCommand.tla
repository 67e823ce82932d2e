----------------------------- MODULE MCCommand -----------------------------
(* Command for TLC: flags that name a cluster twice, with a blank between,    *)
(* name it once, not at all, or hold something that is no name=path pair.     *)
EXTENDS Command

CONSTANTS c1, p1, p2, pods

MCFlags == {<< <<c1, p1>>, Blank, <<c1, p2>> >>,
            << <<c1, p1>> >>,
            << >>,
            << <<c1, p1>>, Malformed >>}

MCGroupResource == [t \in Types |-> t]
=============================================================================
