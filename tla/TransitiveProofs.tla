-------------------------- MODULE TransitiveProofs --------------------------
(***************************************************************************)
(* The recursive CTE breaks cycles, respects the depth limit, finds all    *)
(* that can be reached within it and, under a LIMIT, never separates a row *)
(* from its parent: for every set of objects, every relation on them,      *)
(* every assignment to clusters and every limit.                           *)
(***************************************************************************)
EXTENDS Transitive, WellFoundedInduction, TLAPS

\* The parent of every row below the first generation is a row.
PrefixClosed ==
    \A p \in rows : Len(p) > 2 => SubSeq(p, 1, Len(p) - 1) \in rows

\* A row is read only after every row of the generations before it.
GenerationOrder ==
    \A p \in selected, q \in rows : Len(q) < Len(p) => q \in selected

\* Before the CTE is complete nothing has been read.
ReadLater == pc \in {"base", "recurse"} => selected = {}

IInv == TypeOK /\ SimplePaths /\ PrefixClosed /\ GenerationOrder /\ ReadLater

----------------------------------------------------------------------------
\* What an extension of a simple row is: a longer simple row, with the row as
\* its parent.
LEMMA ExtensionShape ==
    ASSUME TypeOK, SimplePaths, NEW p \in rows, NEW e \in Extensions(p)
    PROVE  /\ e \in Chains
           /\ Len(e) = Len(p) + 1
           /\ SubSeq(e, 1, Len(e) - 1) = p
           /\ Len(e) \in 2..MaxDepth + 1
           /\ e[1] \in Roots
           /\ \A k \in 2..Len(e) : Joins(e[k - 1], e[k])
           /\ \A j, k \in 2..Len(e) : e[j] = e[k] => j = k
<1>1. PICK n \in Objects : /\ e = Append(p, n)
                           /\ Joins(p[Len(p)], n)
                           /\ n \notin Visited(p)
                           /\ Depth(p) < MaxDepth
      BY DEF Extensions
<1>2. p \in Seq(Objects) /\ Len(p) \in 2..MaxDepth + 1
      BY DEF TypeOK, Chains, SimplePaths
<1>3. MaxDepth \in Nat BY TransitiveAssumption
<1>4. /\ e \in Seq(Objects)
      /\ Len(e) = Len(p) + 1
      /\ e[Len(e)] = n
      /\ \A k \in 1..Len(p) : e[k] = p[k]
      BY <1>1, <1>2
<1>5. SubSeq(e, 1, Len(e) - 1) = p
      BY <1>1, <1>2
<1>6. Len(e) \in 2..MaxDepth + 1
      BY <1>1, <1>2, <1>3, <1>4 DEF Depth
<1>7. e[1] \in Roots
      BY <1>2, <1>3, <1>4 DEF SimplePaths
<1>8. \A k \in 2..Len(e) : Joins(e[k - 1], e[k])
  <2> SUFFICES ASSUME NEW k \in 2..Len(e) PROVE Joins(e[k - 1], e[k])
      OBVIOUS
  <2>1. CASE k = Len(e)
        BY <2>1, <1>1, <1>2, <1>3, <1>4
  <2>2. CASE k # Len(e)
    <3>1. k \in 2..Len(p) /\ k \in 1..Len(p) /\ k - 1 \in 1..Len(p)
          BY <2>2, <1>2, <1>3, <1>4
    <3>2. Joins(p[k - 1], p[k])
          BY <3>1 DEF SimplePaths
    <3> QED BY <3>1, <3>2, <1>4
  <2> QED BY <2>1, <2>2
<1>9. ASSUME NEW j \in 2..Len(e), NEW k \in 2..Len(e), e[j] = e[k]
      PROVE  j = k
  <2>1. \A m \in 2..Len(p) : p[m] # n
        BY <1>1 DEF Visited
  <2>2. CASE j \in 2..Len(p) /\ k \in 2..Len(p)
        BY <2>2, <1>2, <1>3, <1>4, <1>9 DEF SimplePaths
  <2>3. CASE j \in 2..Len(p) /\ k = Len(e)
        BY <2>1, <2>3, <1>2, <1>3, <1>4, <1>9
  <2>4. CASE j = Len(e) /\ k \in 2..Len(p)
        BY <2>1, <2>4, <1>2, <1>3, <1>4, <1>9
  <2>5. CASE j = Len(e) /\ k = Len(e)
        BY <2>5
  <2> QED BY <2>2, <2>3, <2>4, <2>5, <1>2, <1>3, <1>4
<1> QED BY <1>4, <1>5, <1>6, <1>7, <1>8, <1>9 DEF Chains

\* The invariant holds before the statement runs.
LEMMA InvInit == Init => IInv
BY DEF Init, IInv, TypeOK, SimplePaths, PrefixClosed, GenerationOrder, ReadLater

\* Every step of the evaluation preserves the invariant.
LEMMA InvStep == IInv /\ [Next]_vars => IInv'
<1> SUFFICES ASSUME IInv, [Next]_vars PROVE IInv'
    OBVIOUS
<1> USE DEF IInv
<1>1. CASE Base
  <2>1. ASSUME NEW p \in rows'
        PROVE  /\ p \in Seq(Objects) /\ Len(p) = 2
               /\ p[1] \in Roots /\ Joins(p[1], p[2])
    <3>1. p \in Roots \X Objects /\ Joins(p[1], p[2])
          BY <1>1, <2>1 DEF Base
    <3>2. PICK r \in Roots, n \in Objects : p = <<r, n>>
          BY <3>1
    <3> QED BY <3>1, <3>2, TransitiveAssumption
  <2>2. TypeOK'
    <3>1. rows' \subseteq Chains BY <2>1 DEF Chains
    <3> QED BY <3>1, <1>1 DEF Base, TypeOK, ReadLater
  <2>3. SimplePaths'
    <3>1. ASSUME NEW q \in rows'
          PROVE  /\ Len(q) \in 2..MaxDepth + 1
                 /\ q[1] \in Roots
                 /\ \A k \in 2..Len(q) : Joins(q[k - 1], q[k])
                 /\ \A j, k \in 2..Len(q) : q[j] = q[k] => j = k
      <4>1. Len(q) = 2 /\ q[1] \in Roots /\ Joins(q[1], q[2])
            BY <3>1, <2>1
      <4>2. 2..Len(q) = {2} /\ 2 \in 2..MaxDepth + 1 /\ 2 - 1 = 1
            BY <4>1, TransitiveAssumption
      <4>3. \A k \in 2..Len(q) : k = 2
            BY <4>2
      <4> QED BY <4>1, <4>2, <4>3
    <3> QED BY <3>1, <1>1 DEF SimplePaths, Base, Joins
  <2>4. PrefixClosed'
    <3>1. ASSUME NEW q \in rows' PROVE ~(Len(q) > 2)
      <4>1. Len(q) = 2 BY <3>1, <2>1
      <4> QED BY <4>1
    <3> QED BY <3>1 DEF PrefixClosed
  <2>5. GenerationOrder' /\ ReadLater'
        BY <1>1 DEF Base, GenerationOrder, ReadLater
  <2> QED BY <2>2, <2>3, <2>4, <2>5
<1>2. CASE Recurse
  <2>1. PICK p \in frontier : /\ rows' = rows \cup Extensions(p)
                              /\ frontier' = (frontier \ {p}) \cup Extensions(p)
        BY <1>2 DEF Recurse
  <2>2. p \in rows BY <2>1 DEF TypeOK
  <2>3. UNCHANGED <<related, cluster, pc, selected>> /\ selected = {}
        BY <1>2 DEF Recurse, ReadLater
  <2>4. TypeOK'
    <3>1. Extensions(p) \subseteq Chains BY <2>2, ExtensionShape
    <3> QED BY <3>1, <2>1, <2>3 DEF TypeOK
  <2>5. SimplePaths'
    <3>1. ASSUME NEW q \in rows'
          PROVE  /\ Len(q) \in 2..MaxDepth + 1
                 /\ q[1] \in Roots
                 /\ \A k \in 2..Len(q) : Joins(q[k - 1], q[k])
                 /\ \A j, k \in 2..Len(q) : q[j] = q[k] => j = k
      <4>1. CASE q \in rows BY <4>1 DEF SimplePaths
      <4>2. CASE q \in Extensions(p) BY <4>2, <2>2, ExtensionShape
      <4> QED BY <4>1, <4>2, <2>1
    <3> QED BY <3>1, <2>3 DEF SimplePaths, Joins
  <2>6. PrefixClosed'
    <3>1. ASSUME NEW q \in rows', Len(q) > 2
          PROVE  SubSeq(q, 1, Len(q) - 1) \in rows'
      <4>1. CASE q \in rows BY <4>1, <3>1, <2>1 DEF PrefixClosed
      <4>2. CASE q \in Extensions(p)
            BY <4>2, <2>1, <2>2, ExtensionShape
      <4> QED BY <4>1, <4>2, <2>1
    <3> QED BY <3>1 DEF PrefixClosed
  <2>7. GenerationOrder' /\ ReadLater'
        BY <2>3 DEF GenerationOrder, ReadLater
  <2> QED BY <2>4, <2>5, <2>6, <2>7
<1>3. CASE Read
      BY <1>3 DEF Read, TypeOK, SimplePaths, Joins, PrefixClosed, GenerationOrder, ReadLater
<1>4. CASE Select
  <2>1. PICK p \in rows \ selected :
            /\ \A q \in rows \ selected : Len(p) <= Len(q)
            /\ selected' = selected \cup {p}
        BY <1>4 DEF Select
  <2>2. UNCHANGED <<related, cluster, pc, frontier, rows>> /\ pc = "select"
        BY <1>4 DEF Select
  <2>3. TypeOK' BY <2>1, <2>2 DEF TypeOK
  <2>4. SimplePaths' /\ PrefixClosed' BY <2>2 DEF SimplePaths, Joins, PrefixClosed
  <2>5. GenerationOrder'
    <3>1. ASSUME NEW q \in rows, Len(q) < Len(p) PROVE q \in selected
      <4>1. Len(p) \in Nat /\ Len(q) \in Nat BY DEF TypeOK, Chains
      <4> QED BY <4>1, <3>1, <2>1
    <3> QED BY <3>1, <2>1, <2>2 DEF GenerationOrder
  <2>6. ReadLater' BY <2>2 DEF ReadLater
  <2> QED BY <2>3, <2>4, <2>5, <2>6
<1>5. CASE Finish
      BY <1>5 DEF Finish, TypeOK, SimplePaths, Joins, PrefixClosed, GenerationOrder, ReadLater
<1>6. CASE UNCHANGED vars
      BY <1>6 DEF vars, TypeOK, SimplePaths, Joins, PrefixClosed, GenerationOrder, ReadLater
<1> QED BY <1>1, <1>2, <1>3, <1>4, <1>5, <1>6 DEF Next

----------------------------------------------------------------------------
\* The cycle check and the depth condition of the recursive SELECT confine
\* the CTE to simple paths of bounded length, in every graph.
THEOREM SimplePathsCorrect == Spec => []SimplePaths
<1>1. IInv => SimplePaths BY DEF IInv
<1> QED BY <1>1, InvInit, InvStep, PTL DEF Spec

\* The LIMIT of the final SELECT never cuts a row off its parent, whatever
\* the limit: the rows come generation by generation.
THEOREM LimitKeepsParentsCorrect == Spec => []LimitKeepsParents
<1>1. IInv => LimitKeepsParents
  <2> SUFFICES ASSUME IInv, NEW p \in selected, Len(p) > 2
               PROVE  SubSeq(p, 1, Len(p) - 1) \in selected
      BY DEF LimitKeepsParents
  <2>1. p \in rows /\ p \in Seq(Objects) BY DEF IInv, TypeOK, Chains
  <2>2. SubSeq(p, 1, Len(p) - 1) \in rows BY <2>1 DEF IInv, PrefixClosed
  <2>3. Len(SubSeq(p, 1, Len(p) - 1)) < Len(p) BY <2>1
  <2> QED BY <2>2, <2>3 DEF IInv, GenerationOrder
<1> QED BY <1>1, InvInit, InvStep, PTL DEF Spec

----------------------------------------------------------------------------
\* What the cycle check leaves in.

\* A set of numbers that holds 0 and the successor of each of its members
\* holds all: else the least number outside it has a predecessor in it.
LEMMA NumberInduction ==
    ASSUME NEW S, 0 \in S, \A n \in Nat : n \in S => n + 1 \in S
    PROVE  \A n \in Nat : n \in S
<1>. DEFINE R == OpToRel(<, Nat)
            T == Nat \ S
<1>1. IsWellFoundedOn(R, Nat)
    BY NatLessThanWellFounded
<1>2. \A x, y \in Nat : x < y => <<x, y>> \in R
    BY DEF OpToRel
<1>. HIDE DEF R
<1>. SUFFICES ASSUME T # {}
              PROVE  FALSE
    OBVIOUS
<1>3. PICK m \in T : \A k \in T : ~(<<k, m>> \in R)
    BY <1>1, WFMin
<1>4. m \in Nat /\ m # 0 /\ m - 1 \in Nat /\ m - 1 < m /\ (m - 1) + 1 = m
    BY <1>3
<1>5. m - 1 \notin T
    BY <1>2, <1>3, <1>4
<1>. QED
    BY <1>3, <1>4, <1>5

\* The objects of S, and those one step from them or from r.
Grow(S, r) == S \cup {m \in Objects : \E k \in S \cup {r} : Joins(k, m)}

\* f is the definition of Within up to n, unfolded.
Unfolds(f, r, n) == f = [d \in 0..n |-> IF d = 0 THEN {} ELSE Grow(f[d - 1], r)]

\* Its values: nothing, and then one step more each time.
LEMMA UnfoldsValues ==
    ASSUME NEW r, NEW n \in Nat, NEW f, Unfolds(f, r, n)
    PROVE  f[0] = {} /\ \A d \in 1..n : f[d] = Grow(f[d - 1], r)
<1>1. 0 \in 0..n
    OBVIOUS
<1>2. f[0] = {}
    BY <1>1 DEF Unfolds
<1>3. ASSUME NEW d \in 1..n PROVE f[d] = Grow(f[d - 1], r)
    <2>1. d \in 0..n /\ d # 0
        OBVIOUS
    <2>. QED
        BY <2>1 DEF Unfolds
<1>. QED
    BY <1>2, <1>3

\* There is such a function for every n: one for n is extended to n + 1.
LEMMA UnfoldsExists ==
    ASSUME NEW r
    PROVE  \A n \in Nat : \E f : Unfolds(f, r, n)
<1>. DEFINE S == {n \in Nat : \E f : Unfolds(f, r, n)}
<1>1. 0 \in S
    <2>. DEFINE f == [d \in 0..0 |-> {}]
    <2>1. f = [d \in 0..0 |-> IF d = 0 THEN {} ELSE Grow(f[d - 1], r)]
        BY \A d \in 0..0 : d = 0
    <2>. QED
        BY <2>1 DEF Unfolds
<1>2. ASSUME NEW n \in Nat, n \in S PROVE n + 1 \in S
    <2>1. PICK f : Unfolds(f, r, n)
        BY <1>2
    <2>. DEFINE g == [d \in 0..n + 1 |-> IF d = n + 1 THEN Grow(f[n], r) ELSE f[d]]
    <2>2. ASSUME NEW d \in 0..n + 1
          PROVE  g[d] = IF d = 0 THEN {} ELSE Grow(g[d - 1], r)
        <3>1. CASE d = n + 1
            <4>1. d # 0 /\ d - 1 = n /\ n \in 0..n + 1 /\ n # n + 1
                BY <3>1
            <4>2. g[d] = Grow(f[n], r) /\ g[n] = f[n]
                BY <3>1, <4>1
            <4>. QED
                BY <4>1, <4>2
        <3>2. CASE d # n + 1 /\ d # 0
            <4>1. d \in 0..n /\ d - 1 \in 0..n + 1 /\ d - 1 # n + 1
                BY <3>2
            <4>2. g[d] = f[d] /\ g[d - 1] = f[d - 1]
                BY <3>2, <4>1
            <4>3. f[d] = Grow(f[d - 1], r)
                BY <2>1, <3>2, <4>1 DEF Unfolds
            <4>. QED
                BY <3>2, <4>2, <4>3
        <3>3. CASE d # n + 1 /\ d = 0
            <4>1. 0 \in 0..n
                OBVIOUS
            <4>2. f[0] = {}
                BY <2>1, <4>1 DEF Unfolds
            <4>. QED
                BY <3>3, <4>2
        <3>. QED
            BY <3>1, <3>2, <3>3
    <2>3. g = [d \in 0..n + 1 |-> IF d = 0 THEN {} ELSE Grow(g[d - 1], r)]
        <3>1. g = [d \in 0..n + 1 |-> g[d]]
            OBVIOUS
        <3>. HIDE DEF g
        <3>. QED
            BY <2>2, <3>1
    <2>. HIDE DEF g
    <2>4. Unfolds(g, r, n + 1)
        BY <2>3 DEF Unfolds
    <2>. QED
        BY <2>4
<1>. HIDE DEF S
<1>3. \A n \in Nat : n \in S
    BY <1>1, <1>2, NumberInduction
<1>. QED
    BY <1>3 DEF S

\* So Within is what its definition says.
LEMMA WithinUnfolds ==
    ASSUME NEW r, NEW n \in Nat
    PROVE  \E f : Within(r, n) = f[n] /\ Unfolds(f, r, n)
<1>1. \E f : f = [d \in 0..n |-> IF d = 0 THEN {} ELSE Grow(f[d - 1], r)]
    BY UnfoldsExists DEF Unfolds
<1>. QED
    BY <1>1 DEF Within, Grow, Unfolds

\* Every prefix of a row, down to the first generation, is a row.
AllPrefixes == \A p \in rows : \A j \in 2..Len(p) : SubSeq(p, 1, j) \in rows

\* The children of the roots are rows, and so are the extensions of every row
\* that is no longer in the frontier; when the CTE is read, that is every row.
Closed ==
    /\ pc # "base" => \A r \in Roots, m \in Objects : Joins(r, m) => <<r, m>> \in rows
    /\ \A p \in rows \ frontier : Extensions(p) \subseteq rows
    /\ pc \in {"select", "done"} => frontier = {}

\* Before the statement runs there is nothing to extend.
LEMMA ClosedInit == Init => AllPrefixes /\ Closed
BY DEF Init, AllPrefixes, Closed

\* Every step of the evaluation keeps the CTE closed.
LEMMA ClosedStep ==
    ASSUME IInv, AllPrefixes, Closed, [Next]_vars
    PROVE  AllPrefixes' /\ Closed'
<1>1. CASE Base
    <2>1. /\ rows' = {p \in Roots \X Objects : Joins(p[1], p[2])} /\ frontier' = rows'
          /\ pc' = "recurse" /\ UNCHANGED <<related, cluster, selected>>
        BY <1>1 DEF Base
    <2>2. ASSUME NEW p \in rows' PROVE \A j \in 2..Len(p) : SubSeq(p, 1, j) \in rows'
        <3>1. PICK r \in Roots, n \in Objects : p = <<r, n>>
            BY <2>1, <2>2
        <3>2. Len(p) = 2 /\ SubSeq(p, 1, 2) = p
            <4>1. p \in Seq(Objects) /\ Len(p) = 2
                BY <3>1, TransitiveAssumption
            <4>. QED
                BY <4>1
        <3>3. \A j \in 2..Len(p) : j = 2
            BY <3>2
        <3>. QED
            BY <3>2, <3>3
    <2>3. \A r \in Roots, m \in Objects : Joins(r, m)' => <<r, m>> \in rows'
        BY <2>1 DEF Joins
    <2>. QED
        BY <2>1, <2>2, <2>3 DEF AllPrefixes, Closed
<1>2. CASE Recurse
    <2>1. PICK p \in frontier : /\ rows' = rows \cup Extensions(p)
                                /\ frontier' = (frontier \ {p}) \cup Extensions(p)
        BY <1>2 DEF Recurse
    <2>2. UNCHANGED <<related, cluster, pc, selected>> /\ pc = "recurse"
        BY <1>2 DEF Recurse
    <2>3. p \in rows /\ p \in Seq(Objects)
        BY <2>1 DEF IInv, TypeOK, Chains
    <2>4. \A x, y : Joins(x, y)' <=> Joins(x, y)
        BY <2>2 DEF Joins
    <2>5. \A q : Extensions(q)' = Extensions(q)
        BY <2>4 DEF Extensions
    <2>6. ASSUME NEW q \in rows', NEW j \in 2..Len(q) PROVE SubSeq(q, 1, j) \in rows'
        <3>1. CASE q \in rows
            BY <2>1, <2>6, <3>1 DEF AllPrefixes
        <3>2. CASE q \in Extensions(p)
            <4>1. PICK n \in Objects : q = Append(p, n)
                BY <3>2 DEF Extensions
            <4>2. Len(q) = Len(p) + 1 /\ Len(p) \in Nat
                BY <2>3, <4>1
            <4>3. CASE j = Len(q)
                <5>1. SubSeq(q, 1, j) = q
                    BY <2>3, <4>1, <4>3
                <5>. QED
                    BY <2>6, <5>1
            <4>4. CASE j # Len(q)
                <5>1. j \in 2..Len(p)
                    BY <2>6, <4>2, <4>4
                <5>2. SubSeq(q, 1, j) = SubSeq(p, 1, j)
                    BY <2>3, <4>1, <5>1
                <5>. QED
                    BY <2>1, <2>3, <5>1, <5>2 DEF AllPrefixes
            <4>. QED
                BY <4>3, <4>4
        <3>. QED
            BY <2>1, <3>1, <3>2
    <2>7. ASSUME NEW q \in rows' \ frontier' PROVE Extensions(q)' \subseteq rows'
        <3>1. q \in rows /\ (q \notin frontier \/ q = p)
            BY <2>1, <2>7
        <3>. QED
            BY <2>1, <2>5, <3>1 DEF Closed
    <2>8. \A r \in Roots, m \in Objects : Joins(r, m)' => <<r, m>> \in rows'
        BY <2>1, <2>2, <2>4 DEF Closed
    <2>9. Closed'
        BY <2>2, <2>7, <2>8 DEF Closed
    <2>. QED
        BY <2>6, <2>9 DEF AllPrefixes
<1>3. CASE Read \/ Select \/ Finish \/ UNCHANGED vars
    <2>1. UNCHANGED <<related, cluster, frontier, rows>>
        BY <1>3 DEF Read, Select, Finish, vars
    <2>2. /\ pc' # "base" => pc # "base"
          /\ pc' \in {"select", "done"} => pc \in {"select", "done"} \/ frontier = {}
        BY <1>3 DEF Read, Select, Finish, vars
    <2>3. \A x, y : Joins(x, y)' <=> Joins(x, y)
        BY <2>1 DEF Joins
    <2>4. \A q : Extensions(q)' = Extensions(q)
        BY <2>3 DEF Extensions
    <2>5. AllPrefixes'
        BY <2>1 DEF AllPrefixes
    <2>6. ASSUME pc' # "base", NEW r \in Roots, NEW m \in Objects, Joins(r, m)'
          PROVE  <<r, m>> \in rows'
        <3>1. pc # "base" /\ Joins(r, m)
            BY <2>2, <2>3, <2>6
        <3>2. <<r, m>> \in rows
            BY <3>1 DEF Closed
        <3>. QED
            BY <2>1, <3>2
    <2>7. \A p \in rows' \ frontier' : Extensions(p)' \subseteq rows'
        BY <2>1, <2>4 DEF Closed
    <2>8. pc' \in {"select", "done"} => frontier' = {}
        BY <2>1, <2>2 DEF Closed
    <2>. QED
        BY <2>5, <2>6, <2>7, <2>8 DEF Closed
<1>. QED
    BY <1>1, <1>2, <1>3 DEF Next

\* A row of a complete CTE leads to an object within as many steps.
LEMMA FoundIsWithin ==
    ASSUME IInv, NEW p \in rows
    PROVE  p[Len(p)] \in Within(p[1], MaxDepth)
<1>1. /\ p \in Seq(Objects) /\ Len(p) \in 2..MaxDepth + 1 /\ Len(p) \in Nat /\ MaxDepth \in Nat
      /\ \A k \in 2..Len(p) : Joins(p[k - 1], p[k])
    BY TransitiveAssumption DEF IInv, TypeOK, Chains, SimplePaths
<1>0. PICK r : r = p[1]
    OBVIOUS
<1>2. PICK f : Within(r, MaxDepth) = f[MaxDepth] /\ Unfolds(f, r, MaxDepth)
    BY <1>1, WithinUnfolds
<1>3. \A d \in 1..MaxDepth : f[d] = Grow(f[d - 1], r)
    BY <1>1, <1>2, UnfoldsValues
<1>. DEFINE S == {k \in Nat : k + 2 <= Len(p) => p[k + 2] \in f[k + 1]}
<1>4. 0 \in S
    <2>1. Joins(p[1], p[2]) /\ p[2] \in Objects /\ 1 \in 1..MaxDepth
        BY <1>1, TransitiveAssumption
    <2>2. p[2] \in f[1]
        BY <1>0, <1>3, <2>1 DEF Grow
    <2>. QED
        BY <2>2
<1>5. ASSUME NEW k \in Nat, k \in S PROVE k + 1 \in S
    <2>. SUFFICES ASSUME (k + 1) + 2 <= Len(p)
                  PROVE  p[(k + 1) + 2] \in f[(k + 1) + 1]
        OBVIOUS
    <2>1. /\ k + 2 \in 1..Len(p) /\ k + 3 \in 2..Len(p) /\ (k + 3) - 1 = k + 2
          /\ k + 2 \in 1..MaxDepth /\ (k + 2) - 1 = k + 1
          /\ (k + 1) + 2 = k + 3 /\ (k + 1) + 1 = k + 2
        BY <1>1
    <2>2. p[k + 2] \in f[k + 1]
        BY <1>1, <1>5, <2>1
    <2>3. Joins(p[k + 2], p[k + 3]) /\ p[k + 3] \in Objects
        BY <1>1, <2>1
    <2>4. p[k + 3] \in f[k + 2]
        BY <1>3, <2>1, <2>2, <2>3 DEF Grow
    <2>. QED
        BY <2>1, <2>4
<1>. HIDE DEF S
<1>6. \A k \in Nat : k \in S
    BY <1>4, <1>5, NumberInduction
<1>7. p[Len(p)] \in f[Len(p) - 1]
    <2>1. Len(p) - 2 \in Nat /\ (Len(p) - 2) + 2 = Len(p) /\ (Len(p) - 2) + 1 = Len(p) - 1
        BY <1>1
    <2>2. Len(p) - 2 \in S
        BY <1>6, <2>1
    <2>. QED
        BY <1>1, <2>1, <2>2 DEF S
<1>. DEFINE M == {k \in Nat : Len(p) - 1 + k <= MaxDepth => f[Len(p) - 1] \subseteq f[Len(p) - 1 + k]}
<1>8. 0 \in M
    BY <1>1
<1>9. ASSUME NEW k \in Nat, k \in M PROVE k + 1 \in M
    <2>. SUFFICES ASSUME Len(p) - 1 + (k + 1) <= MaxDepth
                  PROVE  f[Len(p) - 1] \subseteq f[Len(p) - 1 + (k + 1)]
        OBVIOUS
    <2>1. /\ Len(p) - 1 + (k + 1) \in 1..MaxDepth
          /\ (Len(p) - 1 + (k + 1)) - 1 = Len(p) - 1 + k /\ Len(p) - 1 + k <= MaxDepth
        BY <1>1
    <2>2. f[Len(p) - 1 + k] \subseteq f[Len(p) - 1 + (k + 1)]
        BY <1>3, <2>1 DEF Grow
    <2>3. f[Len(p) - 1] \subseteq f[Len(p) - 1 + k]
        BY <1>9, <2>1
    <2>. QED
        BY <2>2, <2>3
<1>. HIDE DEF M
<1>10. \A k \in Nat : k \in M
    BY <1>8, <1>9, NumberInduction
<1>11. f[Len(p) - 1] \subseteq f[MaxDepth]
    <2>1. /\ MaxDepth - (Len(p) - 1) \in Nat
          /\ Len(p) - 1 + (MaxDepth - (Len(p) - 1)) = MaxDepth
        BY <1>1
    <2>2. MaxDepth - (Len(p) - 1) \in M
        BY <1>10, <2>1
    <2>. QED
        BY <1>1, <2>1, <2>2 DEF M
<1>. QED
    BY <1>0, <1>2, <1>7, <1>11

\* An object within MaxDepth steps of a root is found by a complete CTE: along
\* a chain that is no longer than the steps it takes.  Where the cycle check
\* refuses to extend a chain, the chain already passes through the object.
LEMMA WithinIsFound ==
    ASSUME IInv, AllPrefixes, Closed, pc \in {"select", "done"},
           NEW r \in Roots, NEW n \in Within(r, MaxDepth)
    PROVE  \E p \in rows : p[1] = r /\ p[Len(p)] = n
<1>. DEFINE Leads(m, d) == \E p \in rows : p[1] = r /\ p[Len(p)] = m /\ Len(p) <= d + 1
<1>1. /\ MaxDepth \in Nat /\ frontier = {} /\ r \in Objects
      /\ \A m \in Objects : Joins(r, m) => <<r, m>> \in rows
      /\ \A p \in rows : Extensions(p) \subseteq rows
    BY TransitiveAssumption DEF Closed
<1>2. PICK f : Within(r, MaxDepth) = f[MaxDepth] /\ Unfolds(f, r, MaxDepth)
    BY <1>1, WithinUnfolds
<1>3. f[0] = {} /\ \A d \in 1..MaxDepth : f[d] = Grow(f[d - 1], r)
    BY <1>1, <1>2, UnfoldsValues
<1>. DEFINE S == {d \in Nat : d <= MaxDepth => \A m \in f[d] : Leads(m, d)}
<1>4. 0 \in S
    BY <1>3
<1>5. ASSUME NEW d \in Nat, d \in S PROVE d + 1 \in S
    <2>. SUFFICES ASSUME d + 1 <= MaxDepth, NEW m \in f[d + 1]
                  PROVE  Leads(m, d + 1)
        OBVIOUS
    <2>1. d + 1 \in 1..MaxDepth /\ (d + 1) - 1 = d /\ d <= MaxDepth
        BY <1>1
    <2>2. m \in f[d] \/ (m \in Objects /\ \E k \in f[d] \cup {r} : Joins(k, m))
        BY <1>3, <2>1 DEF Grow
    <2>3. CASE m \in f[d]
        <3>1. PICK p \in rows : p[1] = r /\ p[Len(p)] = m /\ Len(p) <= d + 1
            BY <1>5, <2>1, <2>3
        <3>2. Len(p) \in Nat
            BY DEF IInv, TypeOK, Chains
        <3>. QED
            BY <3>1, <3>2
    <2>4. CASE m \in Objects /\ Joins(r, m)
        <3>1. <<r, m>> \in rows
            BY <1>1, <2>4
        <3>2. Len(<<r, m>>) = 2 /\ <<r, m>>[1] = r /\ <<r, m>>[2] = m
            OBVIOUS
        <3>3. PICK p : p = <<r, m>>
            OBVIOUS
        <3>4. p \in rows /\ p[1] = r /\ p[Len(p)] = m /\ Len(p) = 2
            BY <3>1, <3>2, <3>3
        <3>5. 2 <= (d + 1) + 1
            OBVIOUS
        <3>. QED
            BY <3>4, <3>5
    <2>5. ASSUME m \in Objects, NEW k \in f[d], Joins(k, m) PROVE Leads(m, d + 1)
        <3>1. PICK p \in rows : p[1] = r /\ p[Len(p)] = k /\ Len(p) <= d + 1
            BY <1>5, <2>1, <2>5
        <3>2. p \in Seq(Objects) /\ Len(p) \in Nat /\ Len(p) >= 2
            BY TransitiveAssumption DEF IInv, TypeOK, Chains, SimplePaths
        <3>3. CASE m \in Visited(p)
            <4>1. PICK j \in 2..Len(p) : m = p[j]
                BY <3>3 DEF Visited
            <4>2. SubSeq(p, 1, j) \in rows
                BY <4>1 DEF AllPrefixes
            <4>3. Len(SubSeq(p, 1, j)) = j /\ SubSeq(p, 1, j)[1] = r /\ SubSeq(p, 1, j)[j] = m
                BY <3>1, <3>2, <4>1
            <4>4. j <= (d + 1) + 1
                BY <3>1, <3>2, <4>1
            <4>. QED
                BY <4>2, <4>3, <4>4
        <3>4. CASE m \notin Visited(p)
            <4>1. Depth(p) < MaxDepth
                BY <1>1, <3>1, <3>2 DEF Depth
            <4>2. Append(p, m) \in rows
                BY <1>1, <2>5, <3>1, <3>4, <4>1 DEF Extensions
            <4>3. /\ Len(Append(p, m)) = Len(p) + 1
                  /\ Append(p, m)[1] = r /\ Append(p, m)[Len(p) + 1] = m
                BY <2>5, <3>1, <3>2
            <4>4. Len(p) + 1 <= (d + 1) + 1
                BY <3>1, <3>2
            <4>. QED
                BY <4>2, <4>3, <4>4
        <3>. QED
            BY <3>3, <3>4
    <2>. QED
        BY <2>2, <2>3, <2>4, <2>5
<1>. HIDE DEF S, Leads
<1>6. \A d \in Nat : d \in S
    BY <1>4, <1>5, NumberInduction
<1>7. Leads(n, MaxDepth)
    <2>1. MaxDepth \in S
        BY <1>1, <1>6
    <2>. QED
        BY <1>1, <1>2, <2>1 DEF S
<1>. QED
    BY <1>7 DEF Leads

\* The cycle check loses nothing and the depth limit no more than it should:
\* a complete CTE holds, under each root, exactly the objects other than the
\* root that can be reached in at most MaxDepth steps, in every graph.
THEOREM FindsAllReachableCorrect == Spec => []FindsAllReachable
<1>1. IInv /\ AllPrefixes /\ Closed => FindsAllReachable
    <2>. SUFFICES ASSUME IInv, AllPrefixes, Closed, pc \in {"select", "done"}, NEW r \in Roots
                  PROVE  FoundUnder(r) = Within(r, MaxDepth)
        BY DEF FindsAllReachable
    <2>1. ASSUME NEW p \in rows, p[1] = r PROVE p[Len(p)] \in Within(r, MaxDepth)
        BY <2>1, FoundIsWithin
    <2>2. ASSUME NEW n \in Within(r, MaxDepth)
          PROVE  \E p \in rows : p[1] = r /\ p[Len(p)] = n
        BY WithinIsFound
    <2>. QED
        BY <2>1, <2>2 DEF FoundUnder
<1>2. Init => IInv /\ AllPrefixes /\ Closed
    BY InvInit, ClosedInit
<1>3. (IInv /\ AllPrefixes /\ Closed) /\ [Next]_vars => (IInv /\ AllPrefixes /\ Closed)'
    BY InvStep, ClosedStep
<1>. QED
    BY <1>1, <1>2, <1>3, PTL DEF Spec
=============================================================================
