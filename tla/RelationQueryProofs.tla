------------------------ MODULE RelationQueryProofs ------------------------
(***************************************************************************)
(* Proofs about RelationQuery, for every table, every tree of relation     *)
(* blocks and all limits: what the statement fetches, the order in which   *)
(* it is read, and what AssembleTree makes of it with paths alone.         *)
(***************************************************************************)
EXTENDS RelationQuery, FiniteSetTheorems, SequenceTheorems, WellFoundedInduction, TLAPS

\* The relation names of the requests.
Names == DOMAIN BaseRelation

\* The blocks the generator has a SELECT for.
Generated == {b \in Wanted : Shallow(b)}

\* A block whose SELECT has no LIMIT.
Unlimited(b) == RelLimit[b] = 0 \/ BelowTransitive(b)

RowSpace == [block : blocks \cup {<<>>}, objs : Seq(Objects)]

\* The rows of the statement, scanned or not, and the root objects among them.
Fetched   == result \cup ToSet(flatRows)
Roots     == {r.objs[1] : r \in {q \in Fetched : Level(q) = 0}}

\* The rows AssembleTree has dealt with.
Assembled == {flatRows[i] : i \in 1..index}

Executing == pc \in {"execute", "scan", "assemble", "done"}

Types ==
    /\ blocks \in Requests
    /\ \A n \in DOMAIN Joinable : related[n] \subseteq Joinable[n]
    /\ pc \in {"validate", "refused", "generate", "execute", "scan", "assemble", "done"}
    /\ limit \in Nat /\ depth \in Nat
    /\ queue \in Seq(blocks) /\ subqueries \subseteq blocks
    /\ result \subseteq RowSpace /\ flatRows \in Seq(RowSpace)
    /\ index \in 0..Len(flatRows)
    /\ rootNodes \in Seq(RowSpace)

\* Every block the generator is to have a SELECT for has one, or is still to
\* be reached from the queue; nothing in the queue is below a transitive block.
QueueInv ==
    /\ subqueries \subseteq Generated
    /\ ~Executing => Fetched = {}
    /\ pc = "validate" => subqueries = {}
    /\ pc = "generate" =>
          /\ \A b \in ToSet(queue) : \A n \in 1..Len(b) - 1 : ~IsTransitive(b[n])
          /\ \A b \in Generated \ subqueries : \E n \in 1..Len(b) : SubSeq(b, 1, n) \in ToSet(queue)

\* What is fetched: a page of roots, and for every SELECT that was evaluated
\* its rows, of which a LIMIT keeps the shortest.
RowsInv ==
    Executing =>
        /\ pc # "execute" => subqueries = {}
        /\ Roots \subseteq Matches
        /\ Cardinality(Roots) = Min({limit, Cardinality(Matches)})
        /\ \A r \in Fetched :
              \/ r.block = <<>> /\ Len(r.objs) = 1
              \/ r.block \in Generated \ subqueries /\ r \in BlockRows(r.block, Roots)
        /\ \A b \in Generated \ subqueries : \A q \in BlockRows(b, Roots) \ Fetched :
              ~Unlimited(b) /\ \A p \in Fetched : p.block = b => Len(p.objs) <= Len(q.objs)

\* Each row is read once, and after all rows whose path is a prefix of its.
ScanInv ==
    /\ pc \notin {"scan", "assemble", "done"} => flatRows = <<>>
    /\ ToSet(flatRows) \cap result = {}
    /\ \A i, j \in DOMAIN flatRows : flatRows[i] = flatRows[j] => i = j
    /\ \A i \in DOMAIN flatRows : \A q \in Fetched :
          IsStrictPrefix(Path(q), Path(flatRows[i])) => \E j \in 1..i - 1 : flatRows[j] = q
    /\ pc \in {"assemble", "done"} => truncated = (result # {})

\* What AssembleTree has made of the rows it has dealt with.
TreeInv ==
    /\ pc \notin {"assemble", "done"} => index = 0
    /\ pc = "done" => index = Len(flatRows) /\ incomplete = (truncated \/ Len(rootNodes) = limit)
    /\ DOMAIN nodesByPath = {Path(r) : r \in Assembled}
    /\ \A p \in DOMAIN nodesByPath : nodesByPath[p] \in Assembled /\ Path(nodesByPath[p]) = p
    /\ ToSet(rootNodes) = {r \in Assembled : Level(r) = 0}
    /\ \A i, j \in DOMAIN rootNodes : rootNodes[i] = rootNodes[j] => i = j
    /\ \A c \in children : /\ c.node \in Assembled /\ Level(c.node) # 0
                           /\ c.parent \in Assembled
                           /\ Path(c.parent) = parentPathOf(Path(c.node))
    /\ \A i \in 1..index : \A j \in 1..i :
          Level(flatRows[i]) # 0 /\ Path(flatRows[j]) = parentPathOf(Path(flatRows[i]))
              => \E c \in children : c.node = flatRows[i]

\* The blocks of a row's objects are prefixes of its block; Place is how long
\* the prefix of the n-th of len objects is.
Place(b, len, n) ==
    LET extra == len - Len(b) - 1
    IN  IF TransitiveAt(b) = 0 \/ n <= TransitiveAt(b) THEN n - 1
        ELSE IF n <= TransitiveAt(b) + 1 + extra THEN TransitiveAt(b) ELSE n - 1 - extra

\* The numbers of objects of a row of block b.
Lengths(b) == IF TransitiveAt(b) = 0 THEN {Len(b) + 1} ELSE Len(b) + 1 .. Len(b) + depth

\* The objects s are joined along block b.
Chain(b, s, roots) ==
    /\ Len(s) \in Lengths(b)
    /\ s[1] \in roots
    /\ \A n \in 1..Len(s) - 1 : Related(BaseRelation[Last(BlockAt(Row(b, s), n + 1))], s[n], s[n + 1])
    /\ TransitiveAt(b) > 0 =>
          \A k, m \in TransitiveAt(b) + 1 .. TransitiveAt(b) + Len(s) - Len(b) :
              s[k] = s[m] => k = m

IInv == Types /\ QueueInv /\ RowsInv /\ ScanInv /\ TreeInv

----------------------------------------------------------------------------
\* Numbers, and operators of the library.

\* A set of numbers that holds 0 and the successor of each of its members
\* holds all.
LEMMA NumberInduction ==
    ASSUME NEW S, 0 \in S, \A n \in Nat : n \in S => n + 1 \in S
    PROVE  \A n \in Nat : n \in S
<1>. DEFINE R == OpToRel(<, Nat)
            T == Nat \ S
<1>1. IsWellFoundedOn(R, Nat)
    BY NatLessThanWellFounded
<1>2. \A x, y \in Nat : x < y => <<x, y>> \in R
    BY DEF OpToRel
<1>. HIDE DEF R
<1>. SUFFICES ASSUME T # {}
              PROVE  FALSE
    OBVIOUS
<1>3. PICK m \in T : \A k \in T : ~(<<k, m>> \in R)
    BY <1>1, WFMin
<1>4. m \in Nat /\ m # 0 /\ m - 1 \in Nat /\ m - 1 < m /\ (m - 1) + 1 = m
    BY <1>3
<1>5. m - 1 \notin T
    BY <1>2, <1>3, <1>4
<1>. QED
    BY <1>3, <1>4, <1>5

\* A number up to n is n or comes before it.
LEMMA LastOrBefore ==
    ASSUME NEW n \in Nat
    PROVE  \A k \in 1..n : k = n \/ (k < n /\ k \in 1..n - 1)
    OBVIOUS

\* A set of numbers with a bound has a greatest one.
LEMMA Greatest ==
    ASSUME NEW n \in Nat, NEW S \in SUBSET (0..n), S # {}
    PROVE  Max(S) \in S /\ \A y \in S : y <= Max(S)
<1>. DEFINE B == {m \in Nat : \A y \in S : y <= n - m} \* distances to a bound
<1>1. 0 \in B
    OBVIOUS
<1>2. \E x \in S : \A y \in S : x >= y
    <2>. SUFFICES ASSUME \A x \in S : \E y \in S : ~(x >= y)
                  PROVE  FALSE
        OBVIOUS
    <2>1. ASSUME NEW m \in Nat, m \in B PROVE m + 1 \in B
        <3>. SUFFICES ASSUME NEW y \in S PROVE y <= n - (m + 1)
            OBVIOUS
        <3>1. PICK z \in S : ~(y >= z)
            OBVIOUS
        <3>2. y \in 0..n /\ z \in 0..n /\ z <= n - m
            BY <2>1
        <3>. QED
            BY <3>1, <3>2
    <2>. HIDE DEF B
    <2>2. \A m \in Nat : m \in B
        BY <1>1, <2>1, NumberInduction
    <2>3. n + 1 \in B
        BY <2>2
    <2>4. PICK y \in S : TRUE
        OBVIOUS
    <2>5. y \in 0..n /\ y <= n - (n + 1)
        BY <2>3 DEF B
    <2>. QED
        BY <2>5
<1>3. \A x \in S : \A y \in S : x >= y <=> y <= x
    OBVIOUS
<1>. QED
    BY <1>2, <1>3 DEF Max

\* SetToSeq lists a finite set.
LEMMA Listed ==
    ASSUME NEW S, IsFiniteSet(S)
    PROVE  SetToSeq(S) \in Seq(S) /\ ToSet(SetToSeq(S)) = S
<1>. DEFINE n == Cardinality(S)
            f == SetToSeq(S)
<1>1. n \in Nat /\ ExistsBijection(1..n, S)
    BY FS_CardinalityType
<1>2. \E g \in [1..n -> S] : IsInjective(g)
    BY <1>1 DEF ExistsBijection, Bijection, Injection
<1>3. f \in [1..n -> S] /\ IsInjective(f)
    BY <1>2 DEF SetToSeq
<1>. HIDE DEF f
<1>4. f \in Injection(1..n, S)
    BY <1>3 DEF Injection
<1>5. Cardinality(1..n) = n
    BY <1>1, FS_Interval
<1>6. f \in Surjection(1..n, S)
    BY <1>4, <1>5, FS_Injection
<1>7. \A x \in S : \E k \in 1..n : f[k] = x
    BY <1>6 DEF Surjection
<1>8. f \in Seq(S) /\ DOMAIN f = 1..n
    BY <1>1, <1>3
<1>. QED
    BY <1>3, <1>7, <1>8 DEF f, ToSet

\* A sequence that repeats nothing is as long as its set is large.
LEMMA Counted ==
    ASSUME NEW S, NEW s \in Seq(S), \A i, j \in DOMAIN s : s[i] = s[j] => i = j
    PROVE  IsFiniteSet(ToSet(s)) /\ Cardinality(ToSet(s)) = Len(s)
<1>1. Len(s) \in Nat /\ DOMAIN s = 1..Len(s)
    OBVIOUS
<1>2. s \in [1..Len(s) -> ToSet(s)]
    BY <1>1 DEF ToSet
<1>3. s \in Bijection(1..Len(s), ToSet(s))
    BY <1>1, <1>2 DEF ToSet, Bijection, Injection, Surjection, IsInjective
<1>4. ExistsBijection(1..Len(s), ToSet(s))
    BY <1>3 DEF ExistsBijection
<1>5. IsFiniteSet(1..Len(s)) /\ Cardinality(1..Len(s)) = Len(s)
    BY <1>1, FS_Interval
<1>. QED
    BY <1>4, <1>5, FS_Bijection

\* What a prefix is.
LEMMA Prefix ==
    ASSUME NEW S, NEW s \in Seq(S), NEW n \in 0..Len(s)
    PROVE  /\ SubSeq(s, 1, n) \in Seq(S)
           /\ Len(SubSeq(s, 1, n)) = n /\ DOMAIN SubSeq(s, 1, n) = 1..n
           /\ \A k \in 1..n : SubSeq(s, 1, n)[k] = s[k]
<1>1. Len(s) \in Nat /\ n \in Int /\ \A i \in 1..n : s[i] \in S
    OBVIOUS
<1>. DEFINE t == SubSeq(s, 1, n)
<1>2. t \in Seq(S) /\ Len(t) = (IF 1 <= n THEN n - 1 + 1 ELSE 0)
      /\ \A i \in 1..n - 1 + 1 : t[i] = s[1 + i - 1]
    BY <1>1, SubSeqProperties
<1>. HIDE DEF t
<1>3. Len(t) = n /\ DOMAIN t = 1..n
    BY <1>1, <1>2
<1>4. \A k \in 1..n : t[k] = s[k]
    BY <1>1, <1>2
<1>. QED
    BY <1>2, <1>3, <1>4 DEF t

\* What a part of a sequence is.
LEMMA Slice ==
    ASSUME NEW S, NEW s \in Seq(S), NEW m \in Nat, NEW x \in Nat, m + x <= Len(s)
    PROVE  /\ DOMAIN SubSeq(s, m + 1, m + x) = 1..x
           /\ \A i \in 1..x : SubSeq(s, m + 1, m + x)[i] = s[m + i]
<1>. DEFINE u == SubSeq(s, m + 1, m + x)
<1>1. m + 1 \in Int /\ m + x \in Int /\ Len(s) \in Nat
    OBVIOUS
<1>2. \A i \in m + 1 .. m + x : s[i] \in S
    BY <1>1
<1>3. /\ u \in Seq(S)
      /\ Len(u) = IF m + 1 <= m + x THEN m + x - (m + 1) + 1 ELSE 0
      /\ \A i \in 1 .. m + x - (m + 1) + 1 : u[i] = s[m + 1 + i - 1]
    BY <1>1, <1>2, SubSeqProperties
<1>. HIDE DEF u
<1>4. Len(u) = x /\ DOMAIN u = 1..x
    BY <1>3
<1>5. ASSUME NEW i \in 1..x PROVE u[i] = s[m + i]
    <2>1. i \in 1 .. m + x - (m + 1) + 1 /\ m + 1 + i - 1 = m + i
        OBVIOUS
    <2>. QED
        BY <1>3, <2>1
<1>. QED
    BY <1>4, <1>5 DEF u

\* Sequences of one length with the same elements are one sequence.
LEMMA SameSequence ==
    ASSUME NEW S, NEW s \in Seq(S), NEW t \in Seq(S), Len(s) = Len(t),
           \A k \in 1..Len(s) : s[k] = t[k]
    PROVE  s = t
    BY SeqEqual

\* A prefix of a prefix is a prefix, and the whole sequence is one.
LEMMA PrefixOfPrefix ==
    ASSUME NEW S, NEW s \in Seq(S), NEW n \in 0..Len(s), NEW m \in 0..n
    PROVE  SubSeq(SubSeq(s, 1, n), 1, m) = SubSeq(s, 1, m)
<1>. DEFINE t == SubSeq(s, 1, n)
            u == SubSeq(t, 1, m)
            v == SubSeq(s, 1, m)
<1>1. Len(s) \in Nat /\ m \in 0..Len(s)
    OBVIOUS
<1>2. t \in Seq(S) /\ Len(t) = n /\ \A k \in 1..n : t[k] = s[k]
    BY Prefix
<1>3. v \in Seq(S) /\ Len(v) = m /\ \A k \in 1..m : v[k] = s[k]
    BY <1>1, Prefix
<1>. HIDE DEF t, v
<1>4. u \in Seq(S) /\ Len(u) = m /\ \A k \in 1..m : u[k] = t[k]
    BY <1>1, <1>2, Prefix
<1>. HIDE DEF u
<1>5. \A k \in 1..Len(u) : u[k] = v[k]
    BY <1>1, <1>2, <1>3, <1>4
<1>6. u = v
    BY <1>3, <1>4, <1>5, SameSequence
<1>. QED
    BY <1>6 DEF t, u, v

\* A sequence is a prefix of itself.
LEMMA WholePrefix ==
    ASSUME NEW S, NEW s \in Seq(S)
    PROVE  SubSeq(s, 1, Len(s)) = s
    BY SubSeqFull

\* IsPrefix in terms of one sequence.
LEMMA PrefixMeans ==
    ASSUME NEW S, NEW s \in Seq(S), NEW t
    PROVE  IsPrefix(s, t) <=> Len(s) <= Len(t) /\ SubSeq(t, 1, Len(s)) = s
    BY WholePrefix DEF IsPrefix

----------------------------------------------------------------------------
\* Blocks and rows.

\* Blocks are sequences of relation names, and come with the blocks above.
LEMMA BlockShape ==
    ASSUME blocks \in Requests
    PROVE  /\ IsFiniteSet(blocks)
           /\ \A b \in blocks : /\ b \in Seq(Names) /\ Len(b) \in Nat /\ Len(b) > 0
                                /\ DOMAIN b = 1..Len(b)
                                /\ RelLimit[b] \in Nat
                                /\ Len(b) > 1 => SubSeq(b, 1, Len(b) - 1) \in blocks
<1>1. /\ IsFiniteSet(blocks)
      /\ \A b \in blocks : /\ b \in Seq(Names) /\ b # <<>>
                           /\ Len(b) > 1 => Front(b) \in blocks
                           /\ RelLimit[b] \in Nat
    BY QueryAssumption DEF Names
<1>. SUFFICES ASSUME NEW b \in blocks
              PROVE  /\ Len(b) \in Nat /\ Len(b) > 0 /\ DOMAIN b = 1..Len(b)
                     /\ Len(b) > 1 => SubSeq(b, 1, Len(b) - 1) \in blocks
    BY <1>1
<1>2. b \in Seq(Names) /\ b # <<>>
    BY <1>1
<1>3. Len(b) \in Nat /\ DOMAIN b = 1..Len(b)
    BY <1>2
<1>4. Len(b) # 0
    BY <1>2, EmptySeq
<1>5. Len(b) > 1 => SubSeq(b, 1, Len(b) - 1) \in blocks
    BY <1>1 DEF Front
<1>. QED
    BY <1>3, <1>4, <1>5

\* With a block, all prefixes of it are blocks.
LEMMA PrefixBlocks ==
    ASSUME blocks \in Requests, NEW b \in blocks, NEW n \in 1..Len(b)
    PROVE  SubSeq(b, 1, n) \in blocks
<1>1. b \in Seq(Names) /\ Len(b) \in Nat /\ DOMAIN b = 1..Len(b)
    BY BlockShape
<1>. DEFINE S == {m \in Nat : m < Len(b) => SubSeq(b, 1, Len(b) - m) \in blocks}
<1>2. 0 \in S
    <2>1. SubSeq(b, 1, Len(b)) = b
        BY <1>1, WholePrefix
    <2>2. Len(b) - 0 = Len(b)
        BY <1>1
    <2>. QED
        BY <2>1, <2>2
<1>3. ASSUME NEW m \in Nat, m \in S PROVE m + 1 \in S
    <2>. SUFFICES ASSUME m + 1 < Len(b)
                  PROVE  SubSeq(b, 1, Len(b) - (m + 1)) \in blocks
        BY <1>1
    <2>. DEFINE c == SubSeq(b, 1, Len(b) - m)
    <2>1. c \in blocks
        BY <1>1, <1>3
    <2>2. Len(b) - m \in 0..Len(b) /\ Len(b) - (m + 1) \in 0..Len(b) - m
          /\ (Len(b) - m) - 1 = Len(b) - (m + 1) /\ Len(b) - m > 1
        BY <1>1
    <2>3. Len(c) = Len(b) - m
        BY <1>1, <2>2, Prefix
    <2>4. SubSeq(c, 1, Len(b) - (m + 1)) = SubSeq(b, 1, Len(b) - (m + 1))
        BY <1>1, <2>2, PrefixOfPrefix
    <2>. HIDE DEF c
    <2>5. SubSeq(c, 1, Len(c) - 1) \in blocks
        BY <2>1, <2>2, <2>3, BlockShape
    <2>. QED
        BY <2>2, <2>3, <2>4, <2>5
<1>. HIDE DEF S
<1>4. Len(b) - n \in S
    BY <1>1, <1>2, <1>3, NumberInduction
<1>5. Len(b) - n < Len(b) /\ Len(b) - (Len(b) - n) = n
    BY <1>1
<1>. QED
    BY <1>4, <1>5 DEF S

\* The last transitive name of a block.
LEMMA TransitiveAtIs ==
    ASSUME NEW b \in Seq(Names)
    PROVE  /\ TransitiveAt(b) \in 0..Len(b)
           /\ TransitiveAt(b) > 0 => IsTransitive(b[TransitiveAt(b)])
           /\ \A n \in 1..Len(b) : IsTransitive(b[n]) => n <= TransitiveAt(b)
<1>. DEFINE S == {0} \cup {n \in DOMAIN b : IsTransitive(b[n])}
<1>1. Len(b) \in Nat /\ DOMAIN b = 1..Len(b)
    OBVIOUS
<1>2. S \in SUBSET (0..Len(b)) /\ S # {}
    BY <1>1
<1>3. Max(S) \in S /\ \A y \in S : y <= Max(S)
    BY <1>1, <1>2, Greatest
<1>4. TransitiveAt(b) = Max(S)
    BY DEF TransitiveAt
<1>5. \A n \in S : n = 0 \/ (n \in 1..Len(b) /\ IsTransitive(b[n]))
    BY <1>1
<1>6. \A n \in 1..Len(b) : IsTransitive(b[n]) => n \in S
    BY <1>1
<1>. HIDE DEF S
<1>7. TransitiveAt(b) \in 0..Len(b) /\ TransitiveAt(b) \in S
    BY <1>2, <1>3, <1>4
<1>8. TransitiveAt(b) > 0 => IsTransitive(b[TransitiveAt(b)])
    BY <1>1, <1>5, <1>7
<1>9. \A n \in 1..Len(b) : IsTransitive(b[n]) => n <= TransitiveAt(b)
    BY <1>3, <1>4, <1>6
<1>. QED
    BY <1>7, <1>8, <1>9

\* BlockAt in terms of Place.
LEMMA BlockAtIs ==
    ASSUME NEW b, NEW s, NEW n
    PROVE  BlockAt(Row(b, s), n) = SubSeq(b, 1, Place(b, Len(s), n))
    BY DEF BlockAt, Row, Place

\* The rows of a block are its chains.
LEMMA ChainsAre ==
    ASSUME NEW b \in Seq(Names), NEW roots, depth \in Nat
    PROVE  \A r : r \in JoinChains(b, roots) <=>
                     \E s \in Seq(Objects) : Chain(b, s, roots) /\ r = Row(b, s)
<1>. DEFINE t == TransitiveAt(b)
            Good(s, len) == /\ s[1] \in roots
                            /\ \A n \in 1..len - 1 :
                                  Related(BaseRelation[Last(BlockAt(Row(b, s), n + 1))], s[n], s[n + 1])
                            /\ t > 0 => IsInjective(SubSeq(s, t + 1, t + 1 + len - Len(b) - 1))
<1>1. t \in 0..Len(b) /\ Len(b) \in Nat
    BY TransitiveAtIs
<1>2. \A s : Row(b, s).objs = s
    BY DEF Row
<1>3. \A r : r \in JoinChains(b, roots) <=>
                \E len \in Lengths(b) : \E s \in [1..len -> Objects] : r = Row(b, s) /\ Good(s, len)
    <2>1. JoinChains(b, roots) = UNION {
              {row \in {Row(b, s) : s \in [1..len -> Objects]} :
                  /\ row.objs[1] \in roots
                  /\ \A n \in 1..len - 1 :
                        Related(BaseRelation[Last(BlockAt(row, n + 1))], row.objs[n], row.objs[n + 1])
                  /\ t > 0 => IsInjective(SubSeq(row.objs, t + 1, t + 1 + len - Len(b) - 1))}
               : len \in Lengths(b)}
        BY DEF JoinChains, Lengths
    <2>. QED
        BY <1>2, <2>1
<1>4. \A len \in Lengths(b) : len \in Nat /\ len > Len(b)
    BY <1>1 DEF Lengths
<1>5. ASSUME NEW len \in Lengths(b), NEW s \in [1..len -> Objects]
      PROVE  s \in Seq(Objects) /\ Len(s) = len
    BY <1>4
<1>6. ASSUME NEW s \in Seq(Objects), Len(s) \in Lengths(b)
      PROVE  s \in [1..Len(s) -> Objects]
    OBVIOUS
<1>7. ASSUME NEW s \in Seq(Objects), Len(s) \in Lengths(b)
      PROVE  Good(s, Len(s)) <=> Chain(b, s, roots)
    <2>. DEFINE u == SubSeq(s, t + 1, t + 1 + Len(s) - Len(b) - 1)
                x == Len(s) - Len(b)
    <2>1. Len(s) \in Nat /\ x \in Nat /\ x > 0 /\ t + x <= Len(s) /\ t + 1 + Len(s) - Len(b) - 1 = t + x
        BY <1>1, <1>4, <1>7
    <2>2. u = SubSeq(s, t + 1, t + x)
        BY <2>1
    <2>3. t \in Nat
        BY <1>1
    <2>. HIDE DEF u, x, t
    <2>4. DOMAIN u = 1..x /\ \A i \in 1..x : u[i] = s[t + i]
        <3>1. x \in Nat /\ t \in Nat /\ t + x <= Len(s)
            BY <2>1, <2>3
        <3>2. /\ DOMAIN SubSeq(s, t + 1, t + x) = 1..x
              /\ \A i \in 1..x : SubSeq(s, t + 1, t + x)[i] = s[t + i]
            BY <3>1, Slice
        <3>. QED
            BY <2>2, <3>2
    <2>5. ASSUME IsInjective(u), NEW k \in t + 1 .. t + x, NEW m \in t + 1 .. t + x, s[k] = s[m]
          PROVE  k = m
        <3>1. k - t \in 1..x /\ m - t \in 1..x /\ t + (k - t) = k /\ t + (m - t) = m
            BY <1>1, <2>1
        <3>2. u[k - t] = u[m - t]
            BY <2>4, <2>5, <3>1
        <3>3. k - t = m - t
            BY <2>4, <2>5, <3>1, <3>2 DEF IsInjective
        <3>. QED
            BY <1>1, <2>1, <3>3
    <2>6. ASSUME \A k, m \in t + 1 .. t + x : s[k] = s[m] => k = m
          PROVE  IsInjective(u)
        <3>. SUFFICES ASSUME NEW i \in 1..x, NEW j \in 1..x, s[t + i] = s[t + j]
                      PROVE  i = j
            BY <2>4 DEF IsInjective
        <3>1. t + i \in t + 1 .. t + x /\ t + j \in t + 1 .. t + x
            BY <1>1, <2>1
        <3>2. t + i = t + j
            BY <2>6, <3>1
        <3>. QED
            BY <1>1, <2>1, <3>2
    <2>7. IsInjective(u) <=> \A k, m \in t + 1 .. t + x : s[k] = s[m] => k = m
        BY <2>5, <2>6
    <2>8. TransitiveAt(b) + Len(s) - Len(b) = t + x
        BY <1>1, <2>1 DEF t, x
    <2>9. Chain(b, s, roots) <=>
            /\ Len(s) \in Lengths(b)
            /\ s[1] \in roots
            /\ \A n \in 1..Len(s) - 1 :
                  Related(BaseRelation[Last(BlockAt(Row(b, s), n + 1))], s[n], s[n + 1])
            /\ t > 0 => \A k, m \in t + 1 .. t + x : s[k] = s[m] => k = m
        BY <2>8 DEF Chain, t
    <2>. QED
        BY <1>7, <2>7, <2>9 DEF u, t
<1>. HIDE DEF Good
<1>8. \A s : Chain(b, s, roots) => Len(s) \in Lengths(b)
    BY DEF Chain
<1>. QED
    BY <1>3, <1>5, <1>6, <1>7, <1>8

\* The blocks of the objects of a row: from <<>> to the row's own block, one
\* name more each time, but along a transitive relation.
LEMMA Places ==
    ASSUME NEW b \in Seq(Names), depth \in Nat, NEW len \in Lengths(b), NEW n \in 1..len
    PROVE  /\ len \in Nat /\ len >= Len(b) + 1
           /\ Place(b, len, n) \in 0..Len(b)
           /\ Place(b, len, 1) = 0 /\ Place(b, len, len) = Len(b)
           /\ n > 1 => Place(b, len, n) >= 1
           /\ n < len => \/ Place(b, len, n + 1) = Place(b, len, n) + 1
                         \/ /\ Place(b, len, n + 1) = Place(b, len, n)
                            /\ Place(b, len, n) = TransitiveAt(b) /\ TransitiveAt(b) > 0
<1>. DEFINE t == TransitiveAt(b)
<1>1. Len(b) \in Nat /\ t \in 0..Len(b)
    BY TransitiveAtIs
<1>2. len \in Nat /\ len >= Len(b) + 1 /\ (t = 0 => len = Len(b) + 1)
    BY <1>1 DEF Lengths
<1>. HIDE DEF t
<1>. QED
    BY <1>1, <1>2 DEF Place, t

\* A block the generator takes has one transitive name at most.
LEMMA OneTransitive ==
    ASSUME NEW b \in Seq(Names), Shallow(b)
    PROVE  /\ \A n \in 1..Len(b) : IsTransitive(b[n]) => n = TransitiveAt(b)
           /\ TransitiveAt(b) > 0 => TransitiveAt(b) >= Len(b) - 1
<1>1. Len(b) \in Nat /\ DOMAIN b = 1..Len(b)
    OBVIOUS
<1>2. \A n \in 1..Len(b) : IsTransitive(b[n]) =>
          n = Len(b) \/ (n = Len(b) - 1 /\ ~IsTransitive(b[Len(b)]))
    BY <1>1 DEF Shallow, Last
<1>3. /\ TransitiveAt(b) \in 0..Len(b)
      /\ TransitiveAt(b) > 0 => IsTransitive(b[TransitiveAt(b)])
      /\ \A n \in 1..Len(b) : IsTransitive(b[n]) => n <= TransitiveAt(b)
    BY TransitiveAtIs
<1>4. ASSUME NEW n \in 1..Len(b), IsTransitive(b[n]) PROVE n = TransitiveAt(b)
    <2>1. n <= TransitiveAt(b)
        BY <1>3, <1>4
    <2>2. CASE n = Len(b)
        BY <1>1, <1>3, <2>1, <2>2
    <2>3. CASE n = Len(b) - 1 /\ ~IsTransitive(b[Len(b)])
        <3>1. TransitiveAt(b) # Len(b)
            BY <1>1, <1>3, <2>3
        <3>. QED
            BY <1>1, <1>3, <2>1, <2>3, <3>1
    <2>. QED
        BY <1>2, <1>4, <2>2, <2>3
<1>5. ASSUME TransitiveAt(b) > 0 PROVE TransitiveAt(b) >= Len(b) - 1
    <2>1. TransitiveAt(b) \in 1..Len(b) /\ IsTransitive(b[TransitiveAt(b)])
        BY <1>1, <1>3, <1>5
    <2>2. TransitiveAt(b) = Len(b) \/ TransitiveAt(b) = Len(b) - 1
        BY <1>2, <2>1
    <2>. QED
        BY <1>1, <2>2
<1>. QED
    BY <1>4, <1>5

\* Where the transitive name of a prefix is.
LEMMA TransitiveInPrefix ==
    ASSUME NEW b \in Seq(Names), Shallow(b), NEW i \in 0..Len(b)
    PROVE  TransitiveAt(SubSeq(b, 1, i)) = IF i >= TransitiveAt(b) THEN TransitiveAt(b) ELSE 0
<1>. DEFINE c == SubSeq(b, 1, i)
            t == TransitiveAt(b)
            u == TransitiveAt(c)
<1>1. Len(b) \in Nat /\ i \in Nat
    OBVIOUS
<1>2. c \in Seq(Names) /\ Len(c) = i /\ \A k \in 1..i : c[k] = b[k]
    BY Prefix
<1>3. t \in 0..Len(b) /\ (t > 0 => IsTransitive(b[t]))
    BY TransitiveAtIs
<1>4. \A n \in 1..Len(b) : IsTransitive(b[n]) => n = t
    BY OneTransitive
<1>. HIDE DEF c
<1>5. /\ u \in 0..i
      /\ u > 0 => IsTransitive(c[u])
      /\ \A n \in 1..i : IsTransitive(c[n]) => n <= u
    BY <1>2, TransitiveAtIs
<1>. HIDE DEF t, u
<1>6. u > 0 => u = t
    BY <1>1, <1>2, <1>4, <1>5
<1>7. t > 0 /\ i >= t => u >= t
    BY <1>1, <1>2, <1>3, <1>5
<1>8. u = IF i >= t THEN t ELSE 0
    BY <1>1, <1>3, <1>5, <1>6, <1>7
<1>. QED
    BY <1>8 DEF c, t, u

\* The n-th block of a row sees the first n objects as the row does.
LEMMA AncestorNumbers ==
    ASSUME NEW b, NEW c, NEW len \in Nat, NEW n \in 1..len, depth \in Nat,
           Len(b) \in Nat, TransitiveAt(b) \in 0..Len(b), len \in Lengths(b),
           Len(c) = Place(b, len, n), Place(b, len, n) \in 0..Len(b),
           TransitiveAt(c) = IF Len(c) >= TransitiveAt(b) THEN TransitiveAt(b) ELSE 0
    PROVE  /\ n \in Lengths(c)
           /\ \A k \in 1..n : Place(c, n, k) = Place(b, len, k)
           /\ TransitiveAt(c) > 0 => /\ TransitiveAt(c) = TransitiveAt(b)
                                     /\ n - Len(c) <= len - Len(b)
<1>. DEFINE t == TransitiveAt(b)
            i == Place(b, len, n)
<1>1. Len(b) \in Nat /\ t \in 0..Len(b)
    OBVIOUS
<1>2. /\ len >= Len(b) + 1 /\ (t = 0 => len = Len(b) + 1)
      /\ t > 0 => len <= Len(b) + depth
    BY <1>1 DEF Lengths
<1>3. i \in 0..Len(b)
    OBVIOUS
<1>4. Len(c) = i /\ TransitiveAt(c) = IF i >= t THEN t ELSE 0
    OBVIOUS
<1>5. i = IF t = 0 \/ n <= t THEN n - 1
          ELSE IF n <= t + 1 + (len - Len(b) - 1) THEN t ELSE n - 1 - (len - Len(b) - 1)
    BY DEF Place
<1>. DEFINE x == len - Len(b) - 1
<1>6. x \in Nat /\ len = Len(b) + 1 + x /\ (t = 0 => x = 0) /\ (t > 0 => x < depth)
    BY <1>1, <1>2
<1>7. n \in Nat /\ n >= 1 /\ n <= Len(b) + 1 + x
    BY <1>1, <1>2, <1>6
<1>. HIDE DEF t, i, x
<1>8. CASE t = 0 \/ n <= t
    <2>1. i = n - 1 /\ TransitiveAt(c) = 0
        BY <1>1, <1>4, <1>5, <1>7, <1>8
    <2>2. n = Len(c) + 1
        BY <1>4, <1>7, <2>1
    <2>3. \A k \in 1..n : Place(c, n, k) = k - 1
        BY <2>1 DEF Place
    <2>4. \A k \in 1..n : Place(b, len, k) = k - 1
        BY <1>1, <1>7, <1>8 DEF Place, t
    <2>. QED
        BY <2>1, <2>2, <2>3, <2>4 DEF Lengths
<1>9. CASE t > 0 /\ n > t /\ n <= t + 1 + x
    <2>1. i = t /\ TransitiveAt(c) = t /\ Len(c) = t
        BY <1>1, <1>4, <1>5, <1>9 DEF x
    <2>2. n - Len(c) <= len - Len(b) /\ n \in Len(c) + 1 .. Len(c) + depth
        BY <1>1, <1>6, <1>7, <1>9, <2>1
    <2>3. \A k \in 1..n : Place(c, n, k) = IF k <= t THEN k - 1 ELSE t
        BY <1>1, <1>7, <1>9, <2>1 DEF Place
    <2>4. \A k \in 1..n : Place(b, len, k) = IF k <= t THEN k - 1 ELSE t
        BY <1>1, <1>6, <1>7, <1>9 DEF Place, t, x
    <2>. QED
        BY <1>9, <2>1, <2>2, <2>3, <2>4 DEF Lengths, t
<1>10. CASE t > 0 /\ n > t + 1 + x
    <2>1. i = n - 1 - x /\ i >= t /\ TransitiveAt(c) = t /\ Len(c) = n - 1 - x
        BY <1>1, <1>4, <1>5, <1>6, <1>7, <1>10 DEF x
    <2>2. n - Len(c) - 1 = x /\ n - Len(c) <= len - Len(b) /\ n \in Len(c) + 1 .. Len(c) + depth
        BY <1>1, <1>6, <1>7, <1>10, <2>1
    <2>3. ASSUME NEW k \in 1..n
          PROVE  Place(c, n, k) = IF k <= t THEN k - 1 ELSE IF k <= t + 1 + x THEN t ELSE k - 1 - x
        <3>1. Place(c, n, k) = IF TransitiveAt(c) = 0 \/ k <= TransitiveAt(c) THEN k - 1
                               ELSE IF k <= TransitiveAt(c) + 1 + (n - Len(c) - 1)
                                    THEN TransitiveAt(c) ELSE k - 1 - (n - Len(c) - 1)
            BY DEF Place
        <3>2. TransitiveAt(c) # 0 /\ t # 0
            BY <1>1, <1>10, <2>1
        <3>. QED
            BY <2>1, <2>2, <3>1, <3>2
    <2>4. ASSUME NEW k \in 1..n
          PROVE  Place(b, len, k) = IF k <= t THEN k - 1 ELSE IF k <= t + 1 + x THEN t ELSE k - 1 - x
        BY <1>10 DEF Place, t, x
    <2>5. n \in Lengths(c)
        BY <1>1, <1>10, <2>1, <2>2 DEF Lengths
    <2>. QED
        BY <2>1, <2>2, <2>3, <2>4, <2>5 DEF t
<1>. QED
    BY <1>1, <1>6, <1>7, <1>8, <1>9, <1>10

\* The first n objects of a row are as many as a row of the n-th block has,
\* and their blocks are the same seen from there.
LEMMA AncestorPlaces ==
    ASSUME NEW b \in Seq(Names), Shallow(b), depth \in Nat,
           NEW len \in Lengths(b), NEW n \in 1..len
    PROVE  LET c == SubSeq(b, 1, Place(b, len, n))
           IN  /\ n \in Lengths(c)
               /\ \A k \in 1..n : Place(c, n, k) = Place(b, len, k)
               /\ TransitiveAt(c) > 0 => /\ TransitiveAt(c) = TransitiveAt(b)
                                         /\ n - Len(c) <= len - Len(b)
<1>. DEFINE c == SubSeq(b, 1, Place(b, len, n))
<1>1. Len(b) \in Nat /\ TransitiveAt(b) \in 0..Len(b)
    BY TransitiveAtIs
<1>2. len \in Nat /\ Place(b, len, n) \in 0..Len(b)
    BY Places
<1>3. Len(c) = Place(b, len, n)
    BY <1>2, Prefix
<1>4. TransitiveAt(c) = IF Place(b, len, n) >= TransitiveAt(b) THEN TransitiveAt(b) ELSE 0
    BY <1>2, TransitiveInPrefix
<1>. HIDE DEF c
<1>5. /\ n \in Lengths(c)
      /\ \A k \in 1..n : Place(c, n, k) = Place(b, len, k)
      /\ TransitiveAt(c) > 0 => /\ TransitiveAt(c) = TransitiveAt(b)
                                /\ n - Len(c) <= len - Len(b)
    BY <1>1, <1>2, <1>3, <1>4, AncestorNumbers
<1>. QED
    BY <1>5 DEF c

\* The blocks a row passes: they belong to the request, from the root to the
\* row's own block, and each continues the one before.
LEMMA BlocksOfRow ==
    ASSUME blocks \in Requests, depth \in Nat, NEW b \in blocks,
           NEW s \in Seq(Objects), Len(s) \in Lengths(b), NEW n \in 1..Len(s)
    PROVE  /\ Len(s) \in Nat /\ Len(s) >= Len(b) + 1 /\ Len(s) >= 2
           /\ BlockAt(Row(b, s), 1) = <<>> /\ BlockAt(Row(b, s), Len(s)) = b
           /\ n > 1 => BlockAt(Row(b, s), n) \in blocks
           /\ n < Len(s) => BlockAt(Row(b, s), n + 1) \in Continued(blocks, BlockAt(Row(b, s), n))
<1>. DEFINE P(k) == Place(b, Len(s), k)
<1>1. b \in Seq(Names) /\ Len(b) \in Nat /\ Len(b) > 0
    BY BlockShape
<1>2. /\ Len(s) \in Nat /\ Len(s) >= Len(b) + 1
      /\ P(n) \in 0..Len(b) /\ P(1) = 0 /\ P(Len(s)) = Len(b)
      /\ n > 1 => P(n) >= 1
      /\ n < Len(s) => \/ P(n + 1) = P(n) + 1
                       \/ P(n + 1) = P(n) /\ P(n) = TransitiveAt(b) /\ TransitiveAt(b) > 0
    BY <1>1, Places
<1>3. \A k : BlockAt(Row(b, s), k) = SubSeq(b, 1, P(k))
    BY BlockAtIs
<1>4. SubSeq(b, 1, 0) = <<>> /\ SubSeq(b, 1, Len(b)) = b
    BY <1>1, SubSeqEmpty, WholePrefix
<1>5. \A k \in 1..Len(b) : SubSeq(b, 1, k) \in blocks
    BY PrefixBlocks
<1>6. n < Len(s) => P(n + 1) \in 0..Len(b)
    <2>1. n < Len(s) => n + 1 \in 1..Len(s)
        BY <1>2
    <2>. QED
        BY <1>1, <2>1, Places
<1>. HIDE DEF P
<1>7. ASSUME n < Len(s) PROVE SubSeq(b, 1, P(n + 1)) \in Continued(blocks, SubSeq(b, 1, P(n)))
    <2>. DEFINE c == SubSeq(b, 1, P(n))
                d == SubSeq(b, 1, P(n + 1))
    <2>1. c \in Seq(Names) /\ Len(c) = P(n) /\ \A k \in 1..P(n) : c[k] = b[k]
        BY <1>1, <1>2, Prefix
    <2>2. d \in Seq(Names) /\ Len(d) = P(n + 1)
        BY <1>1, <1>6, <1>7, Prefix
    <2>3. CASE P(n + 1) = P(n) + 1
        <3>1. P(n) \in 0..P(n + 1) /\ P(n + 1) \in 1..Len(b)
            BY <1>1, <1>2, <1>6, <1>7, <2>3
        <3>2. SubSeq(d, 1, P(n)) = c
            BY <1>1, <1>6, <1>7, <3>1, PrefixOfPrefix
        <3>3. d \in blocks
            BY <1>5, <3>1
        <3>. HIDE DEF c, d
        <3>4. IsPrefix(c, d) /\ Len(d) = Len(c) + 1
            BY <2>1, <2>2, <2>3, <3>1, <3>2, PrefixMeans
        <3>. QED
            BY <3>3, <3>4 DEF Continued, c, d
    <2>4. CASE P(n + 1) = P(n) /\ P(n) = TransitiveAt(b) /\ TransitiveAt(b) > 0
        <3>1. IsTransitive(b[P(n)])
            BY <1>1, <2>4, TransitiveAtIs
        <3>2. P(n) \in 1..P(n)
            BY <1>1, <1>2, <2>4
        <3>. HIDE DEF c
        <3>3. Last(c) = b[P(n)] /\ c # <<>>
            BY <2>1, <3>2 DEF Last
        <3>. QED
            BY <2>4, <3>1, <3>3 DEF Continued, c
    <2>. QED
        BY <1>2, <1>7, <2>3, <2>4
<1>8. Len(s) \in Nat /\ Len(s) >= Len(b) + 1 /\ Len(s) >= 2
    BY <1>1, <1>2
<1>9. BlockAt(Row(b, s), 1) = <<>> /\ BlockAt(Row(b, s), Len(s)) = b
    BY <1>2, <1>3, <1>4
<1>10. n > 1 => BlockAt(Row(b, s), n) \in blocks
    <2>1. n > 1 => P(n) \in 1..Len(b)
        BY <1>1, <1>2
    <2>. QED
        BY <1>3, <1>5, <2>1
<1>. QED
    BY <1>3, <1>7, <1>8, <1>9, <1>10

\* With a block the generator has a SELECT for all blocks above it.
LEMMA GeneratedPrefix ==
    ASSUME blocks \in Requests, depth \in Nat, NEW b \in Generated, NEW i \in 1..Len(b)
    PROVE  SubSeq(b, 1, i) \in Generated
<1>. DEFINE c == SubSeq(b, 1, i)
<1>1. b \in blocks /\ Shallow(b) /\ Len(IF BelowTransitive(b) THEN Front(b) ELSE b) <= depth
    BY DEF Generated, Wanted
<1>2. b \in Seq(Names) /\ Len(b) \in Nat /\ DOMAIN b = 1..Len(b)
    BY <1>1, BlockShape
<1>3. c \in blocks
    BY <1>1, PrefixBlocks
<1>4. CASE i = Len(b)
    <2>1. c = b
        BY <1>2, <1>4, WholePrefix
    <2>. QED
        BY <2>1
<1>5. CASE i < Len(b)
    <2>1. i \in 0..Len(b) /\ Len(b) - 1 \in 0..Len(b) /\ i <= Len(b) - 1 /\ i \in Nat
        BY <1>2, <1>5
    <2>2. /\ c \in Seq(Names) /\ Len(c) = i /\ DOMAIN c = 1..i
          /\ \A k \in 1..i : c[k] = b[k]
        BY <1>2, <2>1, Prefix
    <2>3. Len(Front(b)) = Len(b) - 1
        BY <1>2, <2>1, Prefix DEF Front
    <2>4. Len(b) - 1 <= depth
        BY <1>1, <1>2, <2>3
    <2>. HIDE DEF c
    <2>5. Len(c) - 1 \in 0..Len(c)
        BY <2>1, <2>2
    <2>6. Len(Front(c)) = Len(c) - 1
        BY <2>2, <2>5, Prefix DEF Front
    <2>7. Len(IF BelowTransitive(c) THEN Front(c) ELSE c) <= depth
        BY <1>2, <2>1, <2>2, <2>4, <2>6
    <2>8. \A n \in 1..Len(b) : IsTransitive(b[n]) => n >= Len(b) - 1
        BY <1>1, <1>2 DEF Shallow
    <2>9. \A n \in 1..i : IsTransitive(c[n]) => n = i
        BY <1>2, <2>1, <2>2, <2>8
    <2>10. Shallow(c)
        BY <2>2, <2>9 DEF Shallow
    <2>. QED
        BY <1>3, <2>7, <2>10 DEF Generated, Wanted, c
<1>6. i = Len(b) \/ i < Len(b)
    BY <1>2, LastOrBefore
<1>. QED
    BY <1>4, <1>5, <1>6

\* The way to a row is a row of each block it passes.
LEMMA AncestorChain ==
    ASSUME blocks \in Requests, depth \in Nat, NEW b \in Generated, NEW roots,
           NEW s \in Seq(Objects), Chain(b, s, roots), NEW n \in 2..Len(s)
    PROVE  LET c == BlockAt(Row(b, s), n)
               u == SubSeq(s, 1, n)
           IN  /\ c \in Generated
               /\ u \in Seq(Objects) /\ Chain(c, u, roots) /\ Last(u) = s[n]
               /\ Ancestor(Row(b, s), n) = Row(c, u)
               /\ \A k \in 1..n : BlockAt(Row(c, u), k) = BlockAt(Row(b, s), k)
<1>. DEFINE i == Place(b, Len(s), n)
            c == SubSeq(b, 1, i)
            u == SubSeq(s, 1, n)
            t == TransitiveAt(b)
<1>1. b \in blocks /\ Shallow(b)
    BY DEF Generated, Wanted
<1>2. b \in Seq(Names) /\ Len(b) \in Nat /\ Len(b) > 0
    BY <1>1, BlockShape
<1>3. Len(s) \in Lengths(b)
    BY DEF Chain
<1>4. Len(s) \in Nat /\ n \in 1..Len(s) /\ n > 1 /\ n \in Nat
    BY <1>2, <1>3, Places
<1>5. i \in 0..Len(b) /\ i >= 1
    BY <1>2, <1>3, <1>4, Places
<1>6. c = BlockAt(Row(b, s), n)
    BY BlockAtIs
<1>7. c \in Generated
    BY <1>5, GeneratedPrefix
<1>8. u \in Seq(Objects) /\ Len(u) = n /\ \A k \in 1..n : u[k] = s[k]
    BY <1>4, Prefix
<1>9. Last(u) = s[n]
    BY <1>4, <1>8 DEF Last
<1>10. Ancestor(Row(b, s), n) = Row(c, u)
    BY <1>6 DEF Ancestor, Row
<1>11. /\ n \in Lengths(c)
       /\ \A k \in 1..n : Place(c, n, k) = Place(b, Len(s), k)
       /\ TransitiveAt(c) > 0 => TransitiveAt(c) = t /\ n - Len(c) <= Len(s) - Len(b)
    BY <1>1, <1>2, <1>3, <1>4, AncestorPlaces
<1>12. c \in Seq(Names) /\ Len(c) = i
    BY <1>2, <1>5, Prefix
<1>13. ASSUME NEW k \in 1..n PROVE BlockAt(Row(c, u), k) = BlockAt(Row(b, s), k)
    <2>1. BlockAt(Row(c, u), k) = SubSeq(c, 1, Place(c, Len(u), k))
        BY BlockAtIs
    <2>2. BlockAt(Row(b, s), k) = SubSeq(b, 1, Place(b, Len(s), k))
        BY BlockAtIs
    <2>3. Place(c, n, k) \in 0..i
        <3>1. Place(c, n, k) \in 0..Len(c)
            <4>. HIDE DEF c
            <4>. QED
                BY <1>11, <1>12, Places
        <3>. QED
            BY <1>12, <3>1
    <2>4. SubSeq(c, 1, Place(c, n, k)) = SubSeq(b, 1, Place(c, n, k))
        BY <1>2, <1>5, <2>3, PrefixOfPrefix
    <2>. QED
        BY <1>8, <1>11, <2>1, <2>2, <2>4
<1>. HIDE DEF c, u, i, t
<1>14. u[1] \in roots
    BY <1>4, <1>8 DEF Chain
<1>15. ASSUME NEW k \in 1..n - 1
       PROVE  Related(BaseRelation[Last(BlockAt(Row(c, u), k + 1))], u[k], u[k + 1])
    <2>1. k \in 1..Len(s) - 1 /\ k \in 1..n /\ k + 1 \in 1..n
        BY <1>4
    <2>2. Related(BaseRelation[Last(BlockAt(Row(b, s), k + 1))], s[k], s[k + 1])
        BY <2>1 DEF Chain
    <2>. QED
        BY <1>8, <1>13, <2>1, <2>2
<1>16. ASSUME TransitiveAt(c) > 0, NEW k \in t + 1 .. t + n - Len(c), NEW m \in t + 1 .. t + n - Len(c),
              u[k] = u[m]
       PROVE  k = m
    <2>1. t \in 0..Len(b)
        BY <1>2, TransitiveAtIs DEF t
    <2>2. t > 0 /\ t <= i
        BY <1>11, <1>12, <1>16, TransitiveAtIs
    <2>3. k \in 1..n /\ m \in 1..n
        BY <1>4, <1>5, <1>12, <2>1, <2>2
    <2>4. k \in t + 1 .. t + Len(s) - Len(b) /\ m \in t + 1 .. t + Len(s) - Len(b)
        BY <1>2, <1>4, <1>5, <1>11, <1>12, <1>16, <2>1
    <2>5. s[k] = s[m]
        BY <1>8, <1>16, <2>3
    <2>. QED
        BY <2>2, <2>4, <2>5 DEF Chain, t
<1>17. Chain(c, u, roots)
    BY <1>8, <1>11, <1>14, <1>15, <1>16 DEF Chain
<1>. QED
    BY <1>6, <1>7, <1>8, <1>9, <1>10, <1>13, <1>17 DEF u

----------------------------------------------------------------------------
\* Paths.

\* Which of two numbers m is: an odd one or the even one after it.
LEMMA Halves ==
    ASSUME NEW m \in Nat, m > 0
    PROVE  LET k == (m + 1) \div 2
           IN  k \in Nat /\ k > 0 /\ (m = 2 * k - 1 \/ m = 2 * k)
    BY Z3

\* A path of objects without dots has two segments for each object.
LEMMA FlattenPairs ==
    ASSUME NEW q, NEW L \in Nat, L > 0, Len(q) = L,
           \A k \in 1..L : q[k] \in Seq(Nat) /\ Len(q[k]) = 2
    PROVE  /\ FlattenSeq(q) \in Seq(Nat) /\ Len(FlattenSeq(q)) = 2 * L
           /\ \A k \in 1..L : /\ FlattenSeq(q)[2 * k - 1] = q[k][1]
                              /\ FlattenSeq(q)[2 * k] = q[k][2]
<1>. DEFINE Flat(g) == [i \in 1..L |-> IF i = 1 THEN q[i] ELSE g[i - 1] \o q[i]]
            flatten == CHOOSE g : g = Flat(g)
            W(m)    == q[(m + 1) \div 2][IF m = 2 * ((m + 1) \div 2) THEN 2 ELSE 1]
            H(i)    == [m \in 1..2 * i |-> W(m)]
            G       == [i \in 1..L |-> H(i)]
<1>1. FlattenSeq(q) = flatten[L]
    BY DEF FlattenSeq
<1>. HIDE DEF Flat, flatten, G
<1>2. \A k \in Nat : k > 0 => W(2 * k - 1) = q[k][1] /\ W(2 * k) = q[k][2]
    <2>. SUFFICES ASSUME NEW k \in Nat, k > 0
                  PROVE  W(2 * k - 1) = q[k][1] /\ W(2 * k) = q[k][2]
        OBVIOUS
    <2>1. ((2 * k - 1) + 1) \div 2 = k /\ (2 * k + 1) \div 2 = k /\ 2 * k - 1 # 2 * k
        BY Z3
    <2>. QED
        BY <2>1
<1>3. \A m \in Nat : m > 0 => \E k \in Nat : k > 0 /\ (m = 2 * k - 1 \/ m = 2 * k)
    BY Halves
<1>. HIDE DEF W
<1>4. ASSUME NEW i \in 1..L
      PROVE  H(i) \in Seq(Nat) /\ Len(H(i)) = 2 * i /\ \A m \in 1..2 * i : H(i)[m] = W(m)
    <2>1. ASSUME NEW m \in 1..2 * i PROVE W(m) \in Nat
        <3>. m \in Nat /\ m > 0 /\ m <= 2 * i /\ i \in Nat /\ i <= L
            OBVIOUS
        <3>1. PICK k \in Nat : k > 0 /\ (m = 2 * k - 1 \/ m = 2 * k)
            BY <1>3
        <3>2. k \in 1..L /\ (W(m) = q[k][1] \/ W(m) = q[k][2])
            <4>1. k <= L
                BY <3>1
            <4>2. W(2 * k - 1) = q[k][1] /\ W(2 * k) = q[k][2]
                BY <1>2, <3>1
            <4>3. CASE m = 2 * k - 1
                BY <3>1, <4>1, <4>2, <4>3
            <4>4. CASE m = 2 * k
                BY <3>1, <4>1, <4>2, <4>4
            <4>. QED
                BY <3>1, <4>3, <4>4
        <3>3. q[k] \in Seq(Nat) /\ Len(q[k]) = 2
            BY <3>2
        <3>4. q[k][1] \in Nat /\ q[k][2] \in Nat
            BY <3>3
        <3>. QED
            BY <3>2, <3>4
    <2>2. 2 * i \in Nat
        OBVIOUS
    <2>. QED
        BY <2>1, <2>2
<1>5. H(1) = q[1]
    <2>1. 1 \in 1..L /\ q[1] \in Seq(Nat) /\ Len(q[1]) = 2
        OBVIOUS
    <2>2. H(1) \in Seq(Nat) /\ Len(H(1)) = 2 /\ \A m \in 1..2 : H(1)[m] = W(m)
        BY <1>4, <2>1
    <2>3. W(1) = q[1][1] /\ W(2) = q[1][2]
        <3>1. W(2 * 1 - 1) = q[1][1] /\ W(2 * 1) = q[1][2]
            BY <1>2
        <3>2. 2 * 1 - 1 = 1 /\ 2 * 1 = 2
            OBVIOUS
        <3>. QED
            BY <3>1, <3>2
    <2>. HIDE DEF H
    <2>4. \A m \in 1..Len(H(1)) : H(1)[m] = q[1][m]
        <3>1. \A m \in 1..2 : m = 1 \/ m = 2
            OBVIOUS
        <3>2. H(1)[1] = q[1][1] /\ H(1)[2] = q[1][2]
            BY <2>2, <2>3
        <3>. QED
            BY <2>2, <3>1, <3>2
    <2>. QED
        BY <2>1, <2>2, <2>4, SameSequence
<1>6. ASSUME NEW i \in 2..L PROVE H(i) = H(i - 1) \o q[i]
    <2>1. i - 1 \in 1..L /\ i \in 1..L
        OBVIOUS
    <2>2. q[i] \in Seq(Nat) /\ Len(q[i]) = 2
        BY <2>1
    <2>3. H(i) \in Seq(Nat) /\ Len(H(i)) = 2 * i /\ \A m \in 1..2 * i : H(i)[m] = W(m)
        BY <1>4, <2>1
    <2>4. /\ H(i - 1) \in Seq(Nat) /\ Len(H(i - 1)) = 2 * (i - 1)
          /\ \A m \in 1..2 * (i - 1) : H(i - 1)[m] = W(m)
        BY <1>4, <2>1
    <2>. HIDE DEF H
    <2>. DEFINE h == H(i - 1)
                v == q[i]
    <2>5. /\ h \o v \in Seq(Nat) /\ Len(h \o v) = 2 * i
          /\ \A m \in 1..2 * (i - 1) : (h \o v)[m] = h[m]
          /\ (h \o v)[2 * i - 1] = v[1] /\ (h \o v)[2 * i] = v[2]
        <3>. HIDE DEF h, v
        <3>1. h \in Seq(Nat) /\ v \in Seq(Nat) /\ Len(h) = 2 * (i - 1) /\ Len(v) = 2
            BY <2>2, <2>4 DEF h, v
        <3>2. /\ h \o v \in Seq(Nat) /\ Len(h \o v) = Len(h) + Len(v)
              /\ \A m \in 1..Len(h) + Len(v) : (h \o v)[m] = IF m <= Len(h) THEN h[m] ELSE v[m - Len(h)]
            BY <3>1, ConcatProperties
        <3>3. Len(h) + Len(v) = 2 * i
            BY <3>1
        <3>4. /\ 2 * i - 1 \in 1..Len(h) + Len(v) /\ 2 * i \in 1..Len(h) + Len(v)
              /\ ~(2 * i - 1 <= Len(h)) /\ ~(2 * i <= Len(h))
              /\ (2 * i - 1) - Len(h) = 1 /\ 2 * i - Len(h) = 2
            BY <3>1
        <3>5. (h \o v)[2 * i - 1] = v[1] /\ (h \o v)[2 * i] = v[2]
            BY <3>2, <3>4
        <3>6. ASSUME NEW m \in 1..2 * (i - 1) PROVE (h \o v)[m] = h[m]
            <4>1. m \in 1..Len(h) + Len(v) /\ m <= Len(h)
                BY <3>1
            <4>. QED
                BY <3>2, <4>1
        <3>. QED
            BY <3>2, <3>3, <3>5, <3>6
    <2>6. W(2 * i - 1) = q[i][1] /\ W(2 * i) = q[i][2]
        <3>1. i \in Nat /\ i > 0
            OBVIOUS
        <3>. QED
            BY <1>2, <3>1
    <2>7. ASSUME NEW m \in 1..2 * i PROVE H(i)[m] = (H(i - 1) \o q[i])[m]
        <3>1. CASE m <= 2 * (i - 1)
            <4>1. m \in 1..2 * (i - 1)
                BY <3>1
            <4>2. (h \o v)[m] = h[m] /\ h[m] = W(m)
                BY <2>4, <2>5, <4>1
            <4>. QED
                BY <2>3, <4>2
        <3>2. CASE m = 2 * i - 1
            BY <2>3, <2>5, <2>6, <3>2
        <3>3. CASE m = 2 * i
            BY <2>3, <2>5, <2>6, <3>3
        <3>4. m <= 2 * (i - 1) \/ m = 2 * i - 1 \/ m = 2 * i
            OBVIOUS
        <3>. QED
            BY <3>1, <3>2, <3>3, <3>4
    <2>. HIDE DEF h, v
    <2>8. Len(H(i)) = Len(h \o v) /\ \A m \in 1..Len(H(i)) : H(i)[m] = (h \o v)[m]
        BY <2>3, <2>5, <2>7 DEF h, v
    <2>9. H(i) = h \o v
        BY <2>3, <2>5, <2>8, SameSequence
    <2>. QED
        BY <2>9 DEF h, v
<1>. HIDE DEF H
<1>7. G = Flat(G)
    <2>. USE DEF Flat, G
    <2>1. ASSUME NEW i \in 1..L PROVE G[i] = (IF i = 1 THEN q[i] ELSE G[i - 1] \o q[i])
        <3>1. CASE i = 1
            BY <1>5, <3>1
        <3>2. CASE i # 1
            <4>1. i \in 2..L /\ i - 1 \in 1..L
                BY <3>2
            <4>. QED
                BY <1>6, <3>2, <4>1
        <3>. QED
            BY <3>1, <3>2
    <2>. QED
        BY <2>1
<1>8. flatten = Flat(flatten)
    <2>1. \E g : g = Flat(g)
        BY <1>7
    <2>. QED
        BY <2>1 DEF flatten
<1>. DEFINE S == {n \in Nat : n + 1 \in 1..L => flatten[n + 1] = H(n + 1)}
<1>9. \A i \in 1..L : flatten[i] = IF i = 1 THEN q[i] ELSE flatten[i - 1] \o q[i]
    BY <1>8 DEF Flat
<1>10. 0 \in S
    BY <1>5, <1>9
<1>11. ASSUME NEW n \in Nat, n \in S PROVE n + 1 \in S
    <2>. SUFFICES ASSUME (n + 1) + 1 \in 1..L
                  PROVE  flatten[(n + 1) + 1] = H((n + 1) + 1)
        OBVIOUS
    <2>1. n + 1 \in 1..L /\ (n + 1) + 1 \in 2..L /\ ((n + 1) + 1) - 1 = n + 1 /\ (n + 1) + 1 # 1
        OBVIOUS
    <2>2. flatten[n + 1] = H(n + 1)
        BY <1>11, <2>1
    <2>3. flatten[(n + 1) + 1] = flatten[n + 1] \o q[(n + 1) + 1]
        BY <1>9, <2>1
    <2>4. H((n + 1) + 1) = H(((n + 1) + 1) - 1) \o q[(n + 1) + 1]
        BY <1>6, <2>1
    <2>. QED
        BY <2>1, <2>2, <2>3, <2>4
<1>. HIDE DEF S
<1>12. L - 1 \in S
    <2>1. \A n \in Nat : n \in S
        BY <1>10, <1>11, NumberInduction
    <2>. QED
        BY <2>1
<1>13. flatten[L] = H(L)
    <2>1. L - 1 \in Nat /\ (L - 1) + 1 = L /\ L \in 1..L
        OBVIOUS
    <2>. QED
        BY <1>12, <2>1 DEF S
<1>14. L \in 1..L
    OBVIOUS
<1>15. H(L) \in Seq(Nat) /\ Len(H(L)) = 2 * L /\ \A m \in 1..2 * L : H(L)[m] = W(m)
    BY <1>4, <1>14
<1>16. ASSUME NEW k \in 1..L PROVE H(L)[2 * k - 1] = q[k][1] /\ H(L)[2 * k] = q[k][2]
    <2>1. 2 * k - 1 \in 1..2 * L /\ 2 * k \in 1..2 * L /\ k \in Nat /\ k > 0
        OBVIOUS
    <2>. QED
        BY <1>2, <1>15, <2>1
<1>. QED
    BY <1>1, <1>13, <1>15, <1>16

\* The segments of a path.
LEMMA PathIs ==
    ASSUME Undotted, NEW r, r.objs \in Seq(Objects), Len(r.objs) > 0
    PROVE  /\ Path(r) \in Seq(Nat) /\ Len(Path(r)) = 2 * Len(r.objs)
           /\ \A k \in 1..Len(r.objs) : /\ Path(r)[2 * k - 1] = Segments[r.objs[k]][1]
                                        /\ Path(r)[2 * k] = Segments[r.objs[k]][2]
<1>. DEFINE L == Len(r.objs)
            q == [n \in 1..L |-> Segments[r.objs[n]]]
<1>1. L \in Nat /\ L > 0
    OBVIOUS
<1>2. Len(q) = L /\ \A k \in 1..L : q[k] = Segments[r.objs[k]]
    BY <1>1
<1>3. \A k \in 1..L : q[k] \in Seq(Nat) /\ Len(q[k]) = 2
    BY <1>1, <1>2 DEF Undotted
<1>4. Path(r) = FlattenSeq(q)
    BY DEF Path
<1>. HIDE DEF q, L
<1>5. /\ FlattenSeq(q) \in Seq(Nat) /\ Len(FlattenSeq(q)) = 2 * L
      /\ \A k \in 1..L : FlattenSeq(q)[2 * k - 1] = q[k][1] /\ FlattenSeq(q)[2 * k] = q[k][2]
    BY <1>1, <1>2, <1>3, FlattenPairs
<1>. QED
    BY <1>2, <1>4, <1>5 DEF L

\* The path of the first objects of a row is a prefix of its path.
LEMMA PathPrefix ==
    ASSUME Undotted, NEW r, r.objs \in Seq(Objects), NEW n \in 1..Len(r.objs),
           NEW q, q.objs = SubSeq(r.objs, 1, n)
    PROVE  Path(q) = SubSeq(Path(r), 1, 2 * n)
<1>. DEFINE P == Path(r)
            Q == Path(q)
            T == SubSeq(P, 1, 2 * n)
            L == Len(r.objs)
<1>1. L \in Nat /\ L > 0 /\ n \in Nat /\ n > 0 /\ n <= L /\ n \in 0..L
    OBVIOUS
<1>2. q.objs \in Seq(Objects) /\ Len(q.objs) = n /\ \A k \in 1..n : q.objs[k] = r.objs[k]
    BY <1>1, Prefix
<1>3. /\ P \in Seq(Nat) /\ Len(P) = 2 * L
      /\ \A k \in 1..L : /\ P[2 * k - 1] = Segments[r.objs[k]][1]
                         /\ P[2 * k] = Segments[r.objs[k]][2]
    BY <1>1, PathIs
<1>4. /\ Q \in Seq(Nat) /\ Len(Q) = 2 * n
      /\ \A k \in 1..n : /\ Q[2 * k - 1] = Segments[q.objs[k]][1]
                         /\ Q[2 * k] = Segments[q.objs[k]][2]
    BY <1>1, <1>2, PathIs
<1>. HIDE DEF P, Q, L
<1>5. 2 * n \in 0..Len(P)
    BY <1>1, <1>3
<1>6. T \in Seq(Nat) /\ Len(T) = 2 * n /\ \A m \in 1..2 * n : T[m] = P[m]
    BY <1>3, <1>5, Prefix
<1>. HIDE DEF T
<1>7. ASSUME NEW m \in 1..2 * n PROVE Q[m] = P[m]
    <2>. m \in Nat /\ m > 0
        BY <1>1
    <2>. DEFINE k == (m + 1) \div 2
    <2>1. k \in Nat /\ k > 0 /\ (m = 2 * k - 1 \/ m = 2 * k)
        BY Halves
    <2>. HIDE DEF k
    <2>2. k \in 1..n /\ k \in 1..L
        BY <1>1, <2>1
    <2>3. Q[2 * k - 1] = P[2 * k - 1] /\ Q[2 * k] = P[2 * k]
        BY <1>2, <1>3, <1>4, <2>2
    <2>. QED
        BY <2>1, <2>3
<1>8. \A m \in 1..Len(Q) : Q[m] = T[m]
    BY <1>4, <1>6, <1>7
<1>9. Q = T
    BY <1>4, <1>6, <1>8, SameSequence
<1>. QED
    BY <1>9 DEF Q, T, P

\* An ancestor's path is a strict prefix, and the parent's is what
\* parentPathOf returns.
LEMMA AncestorPath ==
    ASSUME Undotted, NEW r, r.objs \in Seq(Objects), NEW n \in 1..Len(r.objs) - 1,
           NEW q, q.objs = SubSeq(r.objs, 1, n)
    PROVE  /\ IsStrictPrefix(Path(q), Path(r))
           /\ n = Len(r.objs) - 1 => Path(q) = parentPathOf(Path(r))
<1>. DEFINE P == Path(r)
            Q == Path(q)
            L == Len(r.objs)
<1>1. L \in Nat /\ L > 0 /\ n \in Nat /\ n > 0 /\ n < L /\ n \in 1..L
    OBVIOUS
<1>2. Q = SubSeq(P, 1, 2 * n)
    BY <1>1, PathPrefix
<1>3. P \in Seq(Nat) /\ Len(P) = 2 * L
    BY <1>1, PathIs
<1>. HIDE DEF P, Q, L
<1>4. 2 * n \in 0..Len(P)
    BY <1>1, <1>3
<1>5. Q \in Seq(Nat) /\ Len(Q) = 2 * n
    BY <1>2, <1>3, <1>4, Prefix
<1>6. Len(Q) <= Len(P) /\ Q # P
    BY <1>1, <1>3, <1>5
<1>7. IsStrictPrefix(Q, P)
    BY <1>2, <1>5, <1>6, PrefixMeans DEF IsStrictPrefix
<1>8. ASSUME n = L - 1 PROVE Q = parentPathOf(P)
    <2>1. ~(Len(P) <= 2) /\ Len(P) - 2 = 2 * n
        BY <1>1, <1>3, <1>8
    <2>. QED
        BY <1>2, <2>1 DEF parentPathOf
<1>. QED
    BY <1>7, <1>8 DEF P, Q, L

\* Objects of one cluster have different paths.
LEMMA PathsDiffer ==
    ASSUME Undotted, Identified, NEW r, NEW q, r.objs \in Seq(Objects), q.objs \in Seq(Objects),
           Len(r.objs) > 0, Len(q.objs) > 0, Path(r) = Path(q)
    PROVE  r.objs = q.objs
<1>. DEFINE L == Len(r.objs)
<1>1. L \in Nat /\ Len(q.objs) \in Nat
    OBVIOUS
<1>2. /\ Len(Path(r)) = 2 * L
      /\ \A k \in 1..L : /\ Path(r)[2 * k - 1] = Segments[r.objs[k]][1]
                         /\ Path(r)[2 * k] = Segments[r.objs[k]][2]
    BY PathIs
<1>3. /\ Len(Path(q)) = 2 * Len(q.objs)
      /\ \A k \in 1..Len(q.objs) : /\ Path(q)[2 * k - 1] = Segments[q.objs[k]][1]
                                   /\ Path(q)[2 * k] = Segments[q.objs[k]][2]
    BY PathIs
<1>4. L = Len(q.objs)
    BY <1>1, <1>2, <1>3
<1>5. ASSUME NEW k \in 1..L PROVE r.objs[k] = q.objs[k]
    <2>1. r.objs[k] \in Objects /\ q.objs[k] \in Objects
        BY <1>4
    <2>. DEFINE x == Segments[r.objs[k]]
                y == Segments[q.objs[k]]
    <2>2. x \in Seq(Nat) /\ y \in Seq(Nat) /\ Len(x) = 2 /\ Len(y) = 2
        BY <2>1 DEF Undotted
    <2>3. x[1] = y[1] /\ x[2] = y[2]
        <3>1. Path(r)[2 * k - 1] = x[1] /\ Path(r)[2 * k] = x[2]
            BY <1>2
        <3>2. k \in 1..Len(q.objs)
            BY <1>4
        <3>3. Path(q)[2 * k - 1] = y[1] /\ Path(q)[2 * k] = y[2]
            BY <1>3, <3>2
        <3>. QED
            BY <3>1, <3>3
    <2>. HIDE DEF x, y
    <2>4. \A m \in 1..2 : m = 1 \/ m = 2
        OBVIOUS
    <2>5. \A m \in 1..Len(x) : x[m] = y[m]
        BY <2>2, <2>3, <2>4
    <2>6. x = y
        BY <2>2, <2>5, SameSequence
    <2>. QED
        BY <2>1, <2>6 DEF Identified, x, y
<1>. QED
    BY <1>4, <1>5, SameSequence

----------------------------------------------------------------------------
\* Sequences as sets.

\* A sequence with one more element.
LEMMA AppendedSet ==
    ASSUME NEW S, NEW s \in Seq(S), NEW x \in S
    PROVE  /\ Append(s, x) \in Seq(S) /\ Len(Append(s, x)) = Len(s) + 1
           /\ DOMAIN Append(s, x) = 1..Len(s) + 1
           /\ \A i \in 1..Len(s) : Append(s, x)[i] = s[i]
           /\ Append(s, x)[Len(s) + 1] = x
           /\ ToSet(Append(s, x)) = ToSet(s) \cup {x}
<1>. DEFINE t == Append(s, x)
<1>1. /\ t \in Seq(S) /\ Len(t) = Len(s) + 1 /\ Len(s) \in Nat /\ DOMAIN s = 1..Len(s)
      /\ \A i \in 1..Len(s) : t[i] = s[i]
      /\ t[Len(s) + 1] = x
    BY AppendProperties
<1>. HIDE DEF t
<1>2. DOMAIN t = 1..Len(s) + 1
    BY <1>1
<1>3. ToSet(t) = ToSet(s) \cup {x}
    <2>1. ASSUME NEW y \in ToSet(t) PROVE y \in ToSet(s) \cup {x}
        <3>1. PICK i \in 1..Len(s) + 1 : y = t[i]
            BY <1>2 DEF ToSet
        <3>2. i \in 1..Len(s) \/ i = Len(s) + 1
            BY <1>1
        <3>. QED
            BY <1>1, <3>1, <3>2 DEF ToSet
    <2>2. ASSUME NEW y \in ToSet(s) PROVE y \in ToSet(t)
        <3>1. PICK i \in 1..Len(s) : y = s[i]
            BY <1>1 DEF ToSet
        <3>2. i \in 1..Len(s) + 1
            BY <1>1
        <3>. QED
            BY <1>1, <1>2, <3>1, <3>2 DEF ToSet
    <2>3. x \in ToSet(t)
        <3>1. Len(s) + 1 \in 1..Len(s) + 1
            BY <1>1
        <3>. QED
            BY <1>1, <1>2, <3>1 DEF ToSet
    <2>. QED
        BY <2>1, <2>2, <2>3
<1>. QED
    BY <1>1, <1>2, <1>3 DEF t

\* The head of a queue and what is behind it.
LEMMA QueueSet ==
    ASSUME NEW S, NEW s \in Seq(S), s # <<>>
    PROVE  /\ Head(s) \in S /\ Tail(s) \in Seq(S)
           /\ ToSet(s) = ToSet(Tail(s)) \cup {Head(s)}
<1>1. /\ Head(s) \in S /\ Tail(s) \in Seq(S) /\ Len(s) \in Nat \ {0}
      /\ Len(Tail(s)) = Len(s) - 1 /\ Head(s) = s[1]
      /\ \A i \in 1..Len(Tail(s)) : Tail(s)[i] = s[i + 1]
    BY HeadTailProperties, EmptySeq
<1>. DEFINE t == Tail(s)
<1>. HIDE DEF t
<1>2. /\ DOMAIN s = 1..Len(s) /\ DOMAIN t = 1..Len(s) - 1
      /\ \A i \in 1..Len(s) - 1 : t[i] = s[i + 1]
    BY <1>1 DEF t
<1>3. ASSUME NEW y \in ToSet(s) PROVE y \in ToSet(t) \cup {Head(s)}
    <2>1. PICK i \in 1..Len(s) : y = s[i]
        BY <1>2 DEF ToSet
    <2>2. CASE i = 1
        BY <1>1, <2>1, <2>2
    <2>3. CASE i # 1
        <3>1. i - 1 \in 1..Len(s) - 1 /\ (i - 1) + 1 = i
            BY <1>1, <2>3
        <3>2. t[i - 1] = y
            BY <1>2, <2>1, <3>1
        <3>. QED
            BY <1>2, <3>1, <3>2 DEF ToSet
    <2>. QED
        BY <2>2, <2>3
<1>4. ASSUME NEW y \in ToSet(t) PROVE y \in ToSet(s)
    <2>1. PICK i \in 1..Len(s) - 1 : y = t[i]
        BY <1>2 DEF ToSet
    <2>2. i + 1 \in 1..Len(s)
        BY <1>1
    <2>. QED
        BY <1>2, <2>1, <2>2 DEF ToSet
<1>5. Head(s) \in ToSet(s)
    BY <1>1, <1>2 DEF ToSet
<1>. QED
    BY <1>1, <1>3, <1>4, <1>5 DEF t

\* Two sequences in a row.
LEMMA JoinedSet ==
    ASSUME NEW S, NEW s \in Seq(S), NEW t \in Seq(S)
    PROVE  s \o t \in Seq(S) /\ ToSet(s \o t) = ToSet(s) \cup ToSet(t)
<1>. DEFINE u == s \o t
<1>1. /\ u \in Seq(S) /\ Len(u) = Len(s) + Len(t)
      /\ \A i \in 1..Len(s) + Len(t) : u[i] = IF i <= Len(s) THEN s[i] ELSE t[i - Len(s)]
    BY ConcatProperties
<1>. HIDE DEF u
<1>2. /\ Len(s) \in Nat /\ Len(t) \in Nat
      /\ DOMAIN s = 1..Len(s) /\ DOMAIN t = 1..Len(t) /\ DOMAIN u = 1..Len(s) + Len(t)
    BY <1>1
<1>3. ASSUME NEW y \in ToSet(u) PROVE y \in ToSet(s) \cup ToSet(t)
    <2>1. PICK i \in 1..Len(s) + Len(t) : y = u[i]
        BY <1>2 DEF ToSet
    <2>2. CASE i <= Len(s)
        <3>1. i \in 1..Len(s) /\ y = s[i]
            BY <1>1, <1>2, <2>1, <2>2
        <3>. QED
            BY <1>2, <3>1 DEF ToSet
    <2>3. CASE ~(i <= Len(s))
        <3>1. i - Len(s) \in 1..Len(t) /\ y = t[i - Len(s)]
            BY <1>1, <1>2, <2>1, <2>3
        <3>. QED
            BY <1>2, <3>1 DEF ToSet
    <2>. QED
        BY <2>2, <2>3
<1>4. ASSUME NEW y \in ToSet(s) PROVE y \in ToSet(u)
    <2>1. PICK i \in 1..Len(s) : y = s[i]
        BY <1>2 DEF ToSet
    <2>2. i \in 1..Len(s) + Len(t) /\ i <= Len(s)
        BY <1>2
    <2>3. u[i] = y
        BY <1>1, <2>1, <2>2
    <2>. QED
        BY <1>2, <2>2, <2>3 DEF ToSet
<1>5. ASSUME NEW y \in ToSet(t) PROVE y \in ToSet(u)
    <2>1. PICK i \in 1..Len(t) : y = t[i]
        BY <1>2 DEF ToSet
    <2>2. /\ i + Len(s) \in 1..Len(s) + Len(t) /\ ~(i + Len(s) <= Len(s))
          /\ (i + Len(s)) - Len(s) = i
        BY <1>2
    <2>3. u[i + Len(s)] = y
        BY <1>1, <2>1, <2>2
    <2>. QED
        BY <1>2, <2>2, <2>3 DEF ToSet
<1>. QED
    BY <1>1, <1>3, <1>4, <1>5 DEF u

----------------------------------------------------------------------------
\* The invariant holds at the start.

\* Nothing is fetched, read or assembled yet.
LEMMA InitInv == Init => IInv
<1>. SUFFICES ASSUME Init PROVE IInv
    OBVIOUS
<1>1. /\ blocks \in Requests /\ pc = "validate" /\ limit \in Limits /\ depth \in Depths
      /\ queue = <<>> /\ subqueries = {} /\ result = {} /\ flatRows = <<>> /\ truncated = FALSE
      /\ index = 0 /\ nodesByPath = << >> /\ rootNodes = <<>> /\ children = {}
    BY DEF Init
<1>2. Len(flatRows) = 0 /\ DOMAIN flatRows = {} /\ DOMAIN rootNodes = {} /\ DOMAIN nodesByPath = {}
    BY <1>1
<1>3. ToSet(flatRows) = {} /\ ToSet(rootNodes) = {}
    BY <1>2 DEF ToSet
<1>4. Fetched = {} /\ Assembled = {}
    BY <1>1, <1>3 DEF Fetched, Assembled
<1>5. ASSUME NEW n \in DOMAIN Joinable PROVE related[n] \subseteq Joinable[n]
    <2>1. PICK pairs \in SUBSET UNION {{BaseRelation[Last(b)]} \X Joinable[BaseRelation[Last(b)]] :
                                       b \in blocks} :
             related = [m \in DOMAIN Joinable |-> {p[2] : p \in {q \in pairs : q[1] = m}}]
        BY DEF Init
    <2>2. related[n] = {p[2] : p \in {q \in pairs : q[1] = n}}
        BY <2>1
    <2>3. ASSUME NEW p \in pairs, p[1] = n PROVE p[2] \in Joinable[n]
        <3>1. PICK b \in blocks : p \in {BaseRelation[Last(b)]} \X Joinable[BaseRelation[Last(b)]]
            BY <2>1
        <3>. QED
            BY <2>3, <3>1
    <2>. QED
        BY <2>2, <2>3
<1>6. Types
    <2>1. limit \in Nat /\ depth \in Nat
        BY <1>1, QueryAssumption
    <2>2. queue \in Seq(blocks) /\ flatRows \in Seq(RowSpace) /\ rootNodes \in Seq(RowSpace)
        BY <1>1, EmptySeq
    <2>. QED
        BY <1>1, <1>2, <1>5, <2>1, <2>2 DEF Types
<1>7. QueueInv
    BY <1>1, <1>4 DEF QueueInv
<1>8. RowsInv
    BY <1>1 DEF RowsInv, Executing
<1>9. ScanInv
    BY <1>1, <1>2, <1>3 DEF ScanInv
<1>10. TreeInv
    BY <1>1, <1>2, <1>3, <1>4 DEF TreeInv
<1>. QED
    BY <1>6, <1>7, <1>8, <1>9, <1>10 DEF IInv

----------------------------------------------------------------------------
\* Steps that leave the query alone.

\* The blocks to generate and the rows of a SELECT stay the same.
LEMMA SameQuery ==
    ASSUME UNCHANGED query
    PROVE  /\ blocks' = blocks /\ related' = related /\ limit' = limit /\ depth' = depth
           /\ Generated' = Generated /\ RowSpace' = RowSpace
           /\ \A b, R : BlockRows(b, R)' = BlockRows(b, R)
<1>1. blocks' = blocks /\ related' = related /\ limit' = limit /\ depth' = depth
    BY DEF query
<1>2. Wanted' = Wanted
    BY <1>1 DEF Wanted, BelowTransitive, IsTransitive
<1>3. Generated' = Generated
    BY <1>2 DEF Generated, Shallow, IsTransitive
<1>4. RowSpace' = RowSpace
    BY <1>1 DEF RowSpace
<1>5. \A b, R : JoinChains(b, R)' = JoinChains(b, R)
    BY <1>1 DEF JoinChains, Related, TransitiveAt, BlockAt, Row, IsTransitive
<1>6. \A b, R : BlockRows(b, R)' = BlockRows(b, R)
    BY <1>5 DEF BlockRows
<1>. QED
    BY <1>1, <1>3, <1>4, <1>6

\* All steps but Validate are of this kind.
LEMMA QueryStays ==
    ASSUME [Next]_vars
    PROVE  Validate \/ UNCHANGED query
    BY DEF Next, vars, query, GenerateBlock, RefuseBlock, SelectRoots, SelectBlock, Executed, ScanRow,
           EndScan, AssembleRow, Respond

\* The rows of a SELECT are rows of its block.
LEMMA RowsOfBlock ==
    ASSUME blocks \in Requests, depth \in Nat, NEW b \in blocks, NEW roots,
           NEW r \in BlockRows(b, roots)
    PROVE  /\ r.block = b /\ r.objs \in Seq(Objects) /\ r = Row(r.block, r.objs)
           /\ r \in RowSpace /\ Chain(b, r.objs, roots) /\ Last(r.objs) \in Admits[b]
           /\ Level(r) # 0
<1>1. b \in Seq(Names) /\ Len(b) > 0 /\ Len(b) \in Nat
    BY BlockShape
<1>2. r \in JoinChains(b, roots) /\ Last(r.objs) \in Admits[b]
    BY DEF BlockRows
<1>3. PICK s \in Seq(Objects) : Chain(b, s, roots) /\ r = Row(b, s)
    BY <1>1, <1>2, ChainsAre
<1>4. r.block = b /\ r.objs = s
    BY <1>3 DEF Row
<1>5. r \in RowSpace
    BY <1>3 DEF Row, RowSpace
<1>. QED
    BY <1>1, <1>2, <1>3, <1>4, <1>5 DEF Level

----------------------------------------------------------------------------
\* Types.

\* The blocks below a block, by their prefixes.
LEMMA SubBlocksAre ==
    ASSUME NEW b \in Seq(Names)
    PROVE  \A c : c \in SubBlocks(b) <=>
                    c \in blocks /\ Len(c) = Len(b) + 1 /\ Len(b) <= Len(c) /\ SubSeq(c, 1, Len(b)) = b
    BY PrefixMeans DEF SubBlocks

\* They can be queued.
LEMMA SubBlocksListed ==
    ASSUME blocks \in Requests, NEW b
    PROVE  SetToSeq(SubBlocks(b)) \in Seq(blocks) /\ ToSet(SetToSeq(SubBlocks(b))) = SubBlocks(b)
<1>. DEFINE S == SubBlocks(b)
<1>1. S \subseteq blocks
    BY DEF SubBlocks
<1>2. IsFiniteSet(S)
    BY <1>1, BlockShape, FS_Subset
<1>. HIDE DEF S
<1>3. SetToSeq(S) \in Seq(S) /\ ToSet(SetToSeq(S)) = S
    BY <1>2, Listed
<1>4. SetToSeq(S) \in Seq(blocks)
    BY <1>1, <1>3
<1>. QED
    BY <1>3, <1>4 DEF S

\* Every step preserves the types.
LEMMA TypesStep ==
    ASSUME Types, [Next]_vars
    PROVE  Types'
<1>. USE DEF Types
<1>1. CASE Validate
    <2>1. blocks' = blocks /\ related' = related /\ RowSpace' = RowSpace
        BY <1>1 DEF Validate, RowSpace
    <2>2. UNCHANGED <<subqueries, result, flatRows, index, rootNodes>>
        BY <1>1 DEF Validate, tree
    <2>3. limit' \in Nat /\ depth' \in Nat
        BY <1>1, QueryAssumption DEF Validate
    <2>4. pc' \in {"refused", "generate"} /\ queue' \in Seq(blocks)
        BY <1>1, SubBlocksListed DEF Validate
    <2>. QED
        BY <2>1, <2>2, <2>3, <2>4
<1>2. CASE UNCHANGED query
    <2>. /\ blocks' = blocks /\ related' = related /\ limit' = limit /\ depth' = depth
         /\ RowSpace' = RowSpace
        BY <1>2, SameQuery
    <2>1. CASE GenerateBlock
        <3>. DEFINE node == Head(queue)
        <3>1. node \in blocks /\ Tail(queue) \in Seq(blocks)
            BY <2>1, QueueSet DEF GenerateBlock
        <3>2. SetToSeq(SubBlocks(node)) \in Seq(blocks)
            BY SubBlocksListed
        <3>3. SubBlocks(node) \subseteq blocks
            BY DEF SubBlocks
        <3>4. Tail(queue) \o SetToSeq(SubBlocks(node)) \in Seq(blocks)
            BY <3>1, <3>2, JoinedSet
        <3>. HIDE DEF node
        <3>5. queue' \in Seq(blocks) /\ subqueries' \subseteq blocks
            BY <2>1, <3>1, <3>3, <3>4 DEF GenerateBlock, node
        <3>. QED
            BY <2>1, <3>5 DEF GenerateBlock, tree
    <2>2. CASE SelectRoots
        <3>1. ASSUME NEW o \in Matches PROVE Row(<<>>, <<o>>) \in RowSpace
            <4>1. <<o>> \in Seq(Objects)
                BY QueryAssumption
            <4>. QED
                BY <4>1 DEF Row, RowSpace
        <3>2. PICK P \in RootPages(limit) : result' = {Row(<<>>, <<o>>) : o \in P}
            BY <2>2 DEF SelectRoots
        <3>3. result' \subseteq RowSpace
            BY <3>1, <3>2 DEF RootPages
        <3>. QED
            BY <2>2, <3>3 DEF SelectRoots, tree
    <2>3. ASSUME NEW b \in blocks, SelectBlock(b) PROVE Types'
        <3>. DEFINE R == {r.objs[1] : r \in {q \in result : Level(q) = 0}}
        <3>1. BlockRows(b, R) \subseteq RowSpace
            BY RowsOfBlock
        <3>2. \E T \in SUBSET BlockRows(b, R) : result' = result \cup T
            BY <2>3 DEF SelectBlock, kSubset
        <3>. QED
            BY <2>3, <3>1, <3>2 DEF SelectBlock, tree
    <2>4. CASE Executed
        BY <2>4 DEF Executed, tree
    <2>5. CASE ScanRow
        <3>1. PICK r \in result : flatRows' = Append(flatRows, r) /\ result' = result \ {r}
            BY <2>5 DEF ScanRow
        <3>2. flatRows' \in Seq(RowSpace) /\ Len(flatRows') = Len(flatRows) + 1
            BY <3>1, AppendedSet
        <3>3. Len(flatRows) \in Nat
            OBVIOUS
        <3>4. index \in 0..Len(flatRows')
            BY <3>2, <3>3
        <3>. QED
            BY <2>5, <3>1, <3>2, <3>4 DEF ScanRow, tree
    <2>6. CASE EndScan
        BY <2>6 DEF EndScan, tree
    <2>7. CASE AssembleRow
        <3>1. index' = index + 1 /\ index < Len(flatRows) /\ Len(flatRows) \in Nat
            BY <2>7 DEF AssembleRow
        <3>2. index' \in 0..Len(flatRows) /\ index + 1 \in 1..Len(flatRows)
            BY <3>1
        <3>3. flatRows[index + 1] \in RowSpace
            BY <3>2
        <3>4. Append(rootNodes, flatRows[index + 1]) \in Seq(RowSpace)
            BY <3>3, AppendedSet
        <3>5. rootNodes' \in Seq(RowSpace)
            BY <2>7, <3>4 DEF AssembleRow
        <3>. QED
            BY <2>7, <3>2, <3>5 DEF AssembleRow
    <2>8. CASE Respond
        BY <2>8 DEF Respond, tree
    <2>9. CASE UNCHANGED vars
        BY <2>9 DEF vars
    <2>10. CASE Validate
        BY <1>1, <2>10
    <2>11. CASE RefuseBlock
        BY <2>11 DEF RefuseBlock, tree
    <2>. QED
        BY <2>1, <2>2, <2>3, <2>4, <2>5, <2>6, <2>7, <2>8, <2>9, <2>10, <2>11 DEF Next
<1>. QED
    BY <1>1, <1>2, QueryStays

----------------------------------------------------------------------------
\* The generator.

\* A block with no transitive name but perhaps its last is wanted if the depth
\* allows it, and the generator has a SELECT for it.
LEMMA QueuedGenerated ==
    ASSUME blocks \in Requests, depth \in Nat, NEW b \in blocks, Len(b) <= depth,
           \A n \in 1..Len(b) - 1 : ~IsTransitive(b[n])
    PROVE  b \in Generated
<1>1. Len(b) \in Nat /\ Len(b) > 0 /\ DOMAIN b = 1..Len(b)
    BY BlockShape
<1>2. ~BelowTransitive(b)
    BY <1>1 DEF BelowTransitive
<1>3. Shallow(b)
    <2>1. \A n \in 1..Len(b) : n = Len(b) \/ n \in 1..Len(b) - 1
        BY <1>1, LastOrBefore
    <2>2. \A n \in DOMAIN b : IsTransitive(b[n]) => n = Len(b)
        BY <1>1, <2>1
    <2>. QED
        BY <2>2 DEF Shallow
<1>. QED
    BY <1>2, <1>3 DEF Generated, Wanted

\* So is a plain block right below a transitive one that is itself wanted.
LEMMA BelowGenerated ==
    ASSUME blocks \in Requests, depth \in Nat, NEW b \in blocks, Len(b) <= depth,
           \A n \in 1..Len(b) - 1 : ~IsTransitive(b[n]), IsTransitive(Last(b)),
           NEW c \in SubBlocks(b), ~IsTransitive(Last(c))
    PROVE  c \in Generated
<1>1. b \in Seq(Names) /\ Len(b) \in Nat /\ Len(b) > 0
    BY BlockShape
<1>2. c \in blocks /\ Len(c) = Len(b) + 1 /\ SubSeq(c, 1, Len(b)) = b
    BY <1>1, SubBlocksAre
<1>3. c \in Seq(Names) /\ DOMAIN c = 1..Len(c) /\ Len(b) \in 0..Len(c)
    BY <1>1, <1>2, BlockShape
<1>4. \A n \in 1..Len(b) : c[n] = b[n]
    BY <1>2, <1>3, Prefix
<1>5. Front(c) = b
    BY <1>1, <1>2 DEF Front
<1>6. BelowTransitive(c)
    BY <1>1, <1>2, <1>4 DEF BelowTransitive, Last
<1>7. Shallow(c)
    <2>1. \A n \in 1..Len(c) : n = Len(c) \/ n = Len(c) - 1 \/ n \in 1..Len(b) - 1
        <3>1. Len(c) \in Nat /\ Len(c) - 1 = Len(b)
            BY <1>1, <1>2
        <3>. QED
            BY <1>1, <3>1, LastOrBefore
    <2>2. \A n \in 1..Len(b) - 1 : ~IsTransitive(c[n])
        BY <1>1, <1>4
    <2>3. \A n \in DOMAIN c : IsTransitive(c[n]) => n = Len(c) - 1
        BY <1>3, <2>1, <2>2 DEF Last
    <2>. QED
        BY <2>3 DEF Shallow
<1>. QED
    BY <1>2, <1>5, <1>6, <1>7 DEF Generated, Wanted

\* A turn of the BFS loop keeps every block in reach that has no SELECT yet.
LEMMA GenerateStep ==
    ASSUME Types, QueueInv, GenerateBlock
    PROVE  /\ subqueries' \subseteq Generated
           /\ \A b \in ToSet(queue') : \A n \in 1..Len(b) - 1 : ~IsTransitive(b[n])
           /\ \A b \in Generated \ subqueries' : \E n \in 1..Len(b) : SubSeq(b, 1, n) \in ToSet(queue')
<1>. DEFINE node == Head(queue)
            rest == Tail(queue)
<1>1. blocks \in Requests /\ depth \in Nat /\ queue \in Seq(blocks) /\ queue # <<>>
    BY DEF Types, GenerateBlock
<1>2. node \in blocks /\ rest \in Seq(blocks) /\ ToSet(queue) = ToSet(rest) \cup {node}
    BY <1>1, QueueSet
<1>3. /\ subqueries \subseteq Generated
      /\ \A b \in ToSet(queue) : \A n \in 1..Len(b) - 1 : ~IsTransitive(b[n])
      /\ \A b \in Generated \ subqueries : \E n \in 1..Len(b) : SubSeq(b, 1, n) \in ToSet(queue)
    BY DEF QueueInv, GenerateBlock
<1>4. \A n \in 1..Len(node) - 1 : ~IsTransitive(node[n])
    BY <1>2, <1>3
<1>5. node \in Seq(Names) /\ Len(node) \in Nat /\ Len(node) > 0
    BY <1>1, <1>2, BlockShape
<1>6. \/ Len(node) > depth /\ queue' = rest /\ subqueries' = subqueries
      \/ /\ ~(Len(node) > depth) /\ IsTransitive(Last(node)) /\ queue' = rest
         /\ subqueries' = subqueries \cup {node} \cup {c \in SubBlocks(node) : ~IsTransitive(Last(c))}
      \/ /\ ~(Len(node) > depth) /\ ~IsTransitive(Last(node))
         /\ subqueries' = subqueries \cup {node}
         /\ queue' = rest \o SetToSeq(SubBlocks(node))
    BY DEF GenerateBlock
<1>. HIDE DEF node, rest
<1>7. ASSUME NEW b \in Generated
      PROVE  /\ b \in blocks /\ b \in Seq(Names) /\ Len(b) \in Nat /\ DOMAIN b = 1..Len(b)
             /\ Shallow(b)
             /\ IF BelowTransitive(b) THEN Len(b) - 1 <= depth ELSE Len(b) <= depth
    <2>1. /\ b \in blocks /\ Shallow(b)
          /\ Len(IF BelowTransitive(b) THEN Front(b) ELSE b) <= depth
        BY DEF Generated, Wanted
    <2>2. b \in Seq(Names) /\ Len(b) \in Nat /\ Len(b) > 0 /\ DOMAIN b = 1..Len(b)
        BY <1>1, <2>1, BlockShape
    <2>3. Len(b) - 1 \in 0..Len(b)
        BY <2>2
    <2>4. Len(Front(b)) = Len(b) - 1
        BY <2>2, <2>3, Prefix DEF Front
    <2>. QED
        BY <2>1, <2>2, <2>4
<1>8. CASE Len(node) > depth /\ queue' = rest /\ subqueries' = subqueries
    <2>1. ASSUME NEW b \in Generated, NEW n \in 1..Len(b), SubSeq(b, 1, n) = node PROVE FALSE
        <3>. b \in Seq(Names) /\ Len(b) \in Nat
            BY <1>7
        <3>1. n \in 0..Len(b)
            OBVIOUS
        <3>2. Len(node) = n /\ \A k \in 1..n : node[k] = b[k]
            BY <2>1, <3>1, Prefix
        <3>3. n > depth
            BY <1>8, <3>2
        <3>4. BelowTransitive(b) /\ n = Len(b)
            BY <1>1, <1>7, <3>3
        <3>5. Len(b) > 1 /\ IsTransitive(b[Len(b) - 1])
            BY <3>4 DEF BelowTransitive
        <3>6. Len(b) - 1 \in 1..Len(node) - 1 /\ Len(b) - 1 \in 1..n
            BY <3>2, <3>4, <3>5
        <3>. QED
            BY <1>4, <3>2, <3>5, <3>6
    <2>. QED
        BY <1>2, <1>3, <1>8, <2>1
<1>9. CASE /\ ~(Len(node) > depth) /\ IsTransitive(Last(node)) /\ queue' = rest
           /\ subqueries' = subqueries \cup {node} \cup {c \in SubBlocks(node) : ~IsTransitive(Last(c))}
    <2>1. Len(node) <= depth
        BY <1>1, <1>5, <1>9
    <2>2. subqueries' \subseteq Generated
        BY <1>1, <1>2, <1>3, <1>4, <1>9, <2>1, QueuedGenerated, BelowGenerated
    <2>3. ASSUME NEW b \in Generated, NEW n \in 1..Len(b), SubSeq(b, 1, n) = node
          PROVE  b \in subqueries'
        <3>. b \in Seq(Names) /\ Len(b) \in Nat /\ DOMAIN b = 1..Len(b) /\ b \in blocks
            BY <1>7
        <3>1. n \in 0..Len(b)
            OBVIOUS
        <3>2. Len(node) = n /\ \A k \in 1..n : node[k] = b[k]
            BY <2>3, <3>1, Prefix
        <3>3. IsTransitive(b[n])
            BY <1>9, <3>2 DEF Last
        <3>4. n = Len(b) \/ (n = Len(b) - 1 /\ ~IsTransitive(Last(b)))
            BY <1>7, <3>3 DEF Shallow
        <3>5. CASE n = Len(b)
            BY <1>9, <2>3, <3>5, WholePrefix
        <3>6. CASE n = Len(b) - 1 /\ ~IsTransitive(Last(b))
            <4>1. Len(b) = Len(node) + 1 /\ Len(node) <= Len(b) /\ SubSeq(b, 1, Len(node)) = node
                BY <2>3, <3>2, <3>6
            <4>2. b \in SubBlocks(node)
                BY <1>5, <4>1, SubBlocksAre
            <4>. QED
                BY <1>9, <3>6, <4>2
        <3>. QED
            BY <3>4, <3>5, <3>6
    <2>. QED
        BY <1>2, <1>3, <1>9, <2>2, <2>3
<1>10. CASE /\ ~(Len(node) > depth) /\ ~IsTransitive(Last(node))
            /\ subqueries' = subqueries \cup {node}
            /\ queue' = rest \o SetToSeq(SubBlocks(node))
    <2>1. Len(node) <= depth
        BY <1>1, <1>5, <1>10
    <2>2. subqueries' \subseteq Generated
        BY <1>1, <1>2, <1>3, <1>4, <1>10, <2>1, QueuedGenerated
    <2>3. ToSet(queue') = ToSet(rest) \cup SubBlocks(node)
        BY <1>1, <1>2, <1>10, SubBlocksListed, JoinedSet
    <2>4. ASSUME NEW c \in SubBlocks(node), NEW n \in 1..Len(c) - 1 PROVE ~IsTransitive(c[n])
        <3>1. c \in blocks /\ Len(c) = Len(node) + 1 /\ SubSeq(c, 1, Len(node)) = node
            BY <1>5, SubBlocksAre
        <3>2. c \in Seq(Names) /\ Len(node) \in 0..Len(c)
            BY <1>1, <1>5, <3>1, BlockShape
        <3>3. \A k \in 1..Len(node) : c[k] = node[k]
            BY <3>1, <3>2, Prefix
        <3>4. n \in 1..Len(node) /\ (n = Len(node) \/ n \in 1..Len(node) - 1)
            <4>1. Len(c) - 1 = Len(node)
                BY <1>5, <3>1
            <4>. QED
                BY <1>5, <4>1, LastOrBefore
        <3>. QED
            BY <1>4, <1>10, <3>3, <3>4 DEF Last
    <2>5. ASSUME NEW b \in Generated \ subqueries', NEW n \in 1..Len(b), SubSeq(b, 1, n) = node
          PROVE  \E m \in 1..Len(b) : SubSeq(b, 1, m) \in ToSet(queue')
        <3>. b \in Seq(Names) /\ Len(b) \in Nat /\ b \in blocks
            BY <1>7
        <3>1. n # Len(b)
            BY <1>10, <2>5, WholePrefix
        <3>2. n \in 0..n + 1 /\ n \in 0..Len(b) /\ n + 1 \in 0..Len(b) /\ n + 1 \in 1..Len(b)
            BY <3>1
        <3>. DEFINE c == SubSeq(b, 1, n + 1)
        <3>3. c \in blocks /\ Len(c) = n + 1 /\ SubSeq(c, 1, n) = node /\ Len(node) = n
            <4>1. c \in blocks
                BY <1>1, <3>2, PrefixBlocks
            <4>2. Len(c) = n + 1
                BY <3>2, Prefix
            <4>3. Len(node) = n
                BY <2>5, <3>2, Prefix
            <4>4. SubSeq(c, 1, n) = SubSeq(b, 1, n)
                BY <3>2, PrefixOfPrefix
            <4>. QED
                BY <2>5, <4>1, <4>2, <4>3, <4>4
        <3>. HIDE DEF c
        <3>4. c \in SubBlocks(node)
            BY <1>5, <3>3, SubBlocksAre
        <3>. QED
            BY <2>3, <3>2, <3>4 DEF c
    <2>. QED
        BY <1>2, <1>3, <1>10, <2>2, <2>3, <2>4, <2>5
<1>. QED
    BY <1>6, <1>8, <1>9, <1>10

\* Every step preserves QueueInv.
LEMMA QueueStep ==
    ASSUME IInv, [Next]_vars
    PROVE  QueueInv'
<1>1. blocks \in Requests /\ depth \in Nat
    BY DEF IInv, Types
<1>2. /\ subqueries \subseteq Generated
      /\ ~Executing => Fetched = {}
      /\ pc = "validate" => subqueries = {}
      /\ pc = "generate" =>
            /\ \A b \in ToSet(queue) : \A n \in 1..Len(b) - 1 : ~IsTransitive(b[n])
            /\ \A b \in Generated \ subqueries : \E n \in 1..Len(b) : SubSeq(b, 1, n) \in ToSet(queue)
    BY DEF IInv, QueueInv
<1>3. CASE Validate
    <2>1. /\ pc = "validate" /\ blocks' = blocks /\ result' = result /\ flatRows' = flatRows
          /\ subqueries' = subqueries /\ pc' \in {"refused", "generate"}
          /\ pc' = "generate" => queue' = SetToSeq(SubBlocks(<<>>))
        BY <1>3 DEF Validate
    <2>2. subqueries' = {} /\ Fetched' = {}
        BY <1>2, <2>1 DEF Executing, Fetched
    <2>3. pc' = "generate" => ToSet(queue') = SubBlocks(<<>>)
        BY <1>1, <2>1, SubBlocksListed
    <2>4. <<>> \in Seq(Names) /\ Len(<<>>) = 0
        BY EmptySeq
    <2>5. ASSUME NEW b \in SubBlocks(<<>>), NEW n \in 1..Len(b) - 1 PROVE FALSE
        <3>1. Len(b) = Len(<<>>) + 1
            BY <2>4, SubBlocksAre
        <3>2. Len(b) - 1 = 0
            BY <2>4, <3>1
        <3>. QED
            BY <3>2
    <2>6. ASSUME NEW b \in blocks PROVE 1 \in 1..Len(b) /\ SubSeq(b, 1, 1) \in SubBlocks(<<>>)
        <3>1. b \in Seq(Names) /\ Len(b) \in Nat /\ Len(b) > 0
            BY <1>1, BlockShape
        <3>2. 1 \in 1..Len(b) /\ 1 \in 0..Len(b)
            BY <3>1
        <3>. DEFINE c == SubSeq(b, 1, 1)
        <3>3. c \in blocks /\ Len(c) = 1
            <4>1. c \in blocks
                BY <1>1, <3>2, PrefixBlocks
            <4>2. Len(c) = 1
                BY <3>1, <3>2, Prefix
            <4>. QED
                BY <4>1, <4>2
        <3>4. SubSeq(c, 1, 0) = <<>>
            BY SubSeqEmpty
        <3>. HIDE DEF c
        <3>5. c \in SubBlocks(<<>>)
            <4>1. IsPrefix(<<>>, c) <=> Len(<<>>) <= Len(c) /\ SubSeq(c, 1, Len(<<>>)) = <<>>
                BY <2>4, PrefixMeans
            <4>. QED
                BY <2>4, <3>3, <3>4, <4>1 DEF SubBlocks
        <3>. QED
            BY <3>2, <3>5 DEF c
    <2>7. Generated' \subseteq blocks
        BY <2>1 DEF Generated, Wanted
    <2>. QED
        BY <2>1, <2>2, <2>3, <2>5, <2>6, <2>7 DEF QueueInv, Executing
<1>4. CASE UNCHANGED query
    <2>. Generated' = Generated
        BY <1>4, SameQuery
    <2>1. CASE GenerateBlock
        <3>1. pc = "generate" /\ pc' = pc /\ result' = result /\ flatRows' = flatRows
            BY <2>1 DEF GenerateBlock
        <3>2. Fetched' = {}
            BY <1>2, <3>1 DEF Fetched, Executing
        <3>. QED
            BY <2>1, <3>1, <3>2, GenerateStep DEF QueueInv, IInv, Executing
    <2>2. CASE SelectRoots
        BY <1>2, <2>2 DEF SelectRoots, QueueInv, Executing
    <2>3. ASSUME NEW b \in blocks, SelectBlock(b) PROVE QueueInv'
        BY <1>2, <2>3 DEF SelectBlock, QueueInv, Executing
    <2>4. CASE Executed
        BY <1>2, <2>4 DEF Executed, QueueInv, Executing
    <2>5. CASE ScanRow
        BY <1>2, <2>5 DEF ScanRow, QueueInv, Executing
    <2>6. CASE EndScan
        BY <1>2, <2>6 DEF EndScan, QueueInv, Executing
    <2>7. CASE AssembleRow
        BY <1>2, <2>7 DEF AssembleRow, QueueInv, Executing
    <2>8. CASE Respond
        BY <1>2, <2>8 DEF Respond, QueueInv, Executing
    <2>9. CASE UNCHANGED vars
        BY <1>2, <2>9 DEF vars, QueueInv, Executing, Fetched
    <2>10. CASE Validate
        BY <1>3, <2>10
    <2>11. CASE RefuseBlock
        BY <1>2, <2>11 DEF RefuseBlock, QueueInv, Executing, Fetched
    <2>. QED
        BY <2>1, <2>2, <2>3, <2>4, <2>5, <2>6, <2>7, <2>8, <2>9, <2>10, <2>11 DEF Next
<1>. QED
    BY <1>3, <1>4, QueryStays

----------------------------------------------------------------------------
\* The statement.

\* RowsInv only speaks of the query, of the SELECTs that are left and of the
\* rows fetched.
LEMMA RowsStay ==
    ASSUME RowsInv, UNCHANGED query, Executing, Executing', Fetched' = Fetched,
           subqueries' = subqueries, pc' # "execute" => pc # "execute" \/ subqueries = {}
    PROVE  RowsInv'
<1>1. /\ limit' = limit /\ Generated' = Generated
      /\ \A b, R : BlockRows(b, R)' = BlockRows(b, R)
    BY SameQuery
<1>2. Roots' = Roots
    BY DEF Roots, Level
<1>3. /\ pc' # "execute" => subqueries' = {}
      /\ Roots' \subseteq Matches
      /\ Cardinality(Roots') = Min({limit', Cardinality(Matches)})
    BY <1>1, <1>2 DEF RowsInv
<1>4. ASSUME NEW b PROVE BlockRows(b, Roots)' = BlockRows(b, Roots)
    BY <1>1, <1>2
<1>. QED
    BY <1>1, <1>2, <1>3, <1>4 DEF RowsInv, Unlimited, BelowTransitive, IsTransitive

\* The root SELECT.
LEMMA SelectRootsRows ==
    ASSUME IInv, SelectRoots
    PROVE  RowsInv'
<1>1. PICK P \in RootPages(limit) : result' = {Row(<<>>, <<o>>) : o \in P}
    BY DEF SelectRoots
<1>2. /\ pc = "generate" /\ queue = <<>> /\ pc' = "execute" /\ UNCHANGED query
      /\ subqueries' = subqueries /\ flatRows' = flatRows
    BY DEF SelectRoots
<1>3. limit' = limit /\ Generated' = Generated
    BY <1>2, SameQuery
<1>4. ToSet(flatRows) = {}
    BY <1>2 DEF IInv, QueueInv, Executing, Fetched
<1>5. Fetched' = {Row(<<>>, <<o>>) : o \in P}
    BY <1>1, <1>2, <1>4 DEF Fetched
<1>6. \A o : /\ Row(<<>>, <<o>>).block = <<>> /\ Row(<<>>, <<o>>).objs = <<o>>
             /\ Len(Row(<<>>, <<o>>).objs) = 1 /\ Row(<<>>, <<o>>).objs[1] = o
             /\ Level(Row(<<>>, <<o>>)) = 0
    BY DEF Row, Level
<1>7. Roots' = P
    BY <1>5, <1>6 DEF Roots
<1>8. Generated \ subqueries = {}
    <2>1. ToSet(queue) = {}
        BY <1>2 DEF ToSet
    <2>. QED
        BY <1>2, <2>1 DEF IInv, QueueInv
<1>9. P \subseteq Matches /\ Cardinality(P) = Min({limit, Cardinality(Matches)})
    BY <1>1 DEF RootPages
<1>10. \A r \in Fetched' : r.block = <<>> /\ Len(r.objs) = 1
    BY <1>5, <1>6
<1>. QED
    BY <1>2, <1>3, <1>7, <1>8, <1>9, <1>10 DEF RowsInv

\* The SELECT of a block.
LEMMA SelectBlockRows ==
    ASSUME IInv, NEW b \in blocks, SelectBlock(b)
    PROVE  RowsInv'
<1>. DEFINE S == BlockRows(b, Roots)
<1>1. /\ pc = "execute" /\ pc' = "execute" /\ b \in subqueries /\ UNCHANGED query
      /\ subqueries' = subqueries \ {b} /\ flatRows' = flatRows
    BY DEF SelectBlock
<1>2. /\ limit' = limit /\ Generated' = Generated /\ blocks \in Requests /\ depth \in Nat
      /\ \A c, R : BlockRows(c, R)' = BlockRows(c, R)
    BY <1>1, SameQuery DEF IInv, Types
<1>3. flatRows = <<>> /\ ToSet(flatRows) = {}
    BY <1>1 DEF IInv, ScanInv, ToSet
<1>4. Fetched = result /\ Fetched' = result' /\ Roots = {r.objs[1] : r \in {q \in result : Level(q) = 0}}
    BY <1>1, <1>3 DEF Fetched, Roots
<1>5. PICK T \in SUBSET S : /\ Unlimited(b) => T = S
                            /\ \A p \in T, q \in S \ T : Len(p.objs) <= Len(q.objs)
                            /\ result' = result \cup T
    BY <1>4 DEF SelectBlock, Unlimited, kSubset
<1>6. \A r \in S : r.block = b /\ Level(r) # 0
    BY <1>2, RowsOfBlock
<1>. HIDE DEF S
<1>7. Roots' = Roots
    <2>1. {q \in result' : Level(q) = 0} = {q \in result : Level(q) = 0}
        BY <1>5, <1>6
    <2>2. Roots' = {r.objs[1] : r \in {q \in result' : Level(q) = 0}}
        BY <1>4 DEF Roots, Level
    <2>. QED
        BY <1>4, <2>1, <2>2
<1>8. \A c : BlockRows(c, Roots)' = BlockRows(c, Roots)
    BY <1>2, <1>7
<1>9. /\ subqueries \subseteq Generated
      /\ Roots \subseteq Matches
      /\ Cardinality(Roots) = Min({limit, Cardinality(Matches)})
      /\ \A r \in Fetched :
            \/ r.block = <<>> /\ Len(r.objs) = 1
            \/ r.block \in Generated \ subqueries /\ r \in BlockRows(r.block, Roots)
      /\ \A c \in Generated \ subqueries : \A q \in BlockRows(c, Roots) \ Fetched :
            ~Unlimited(c) /\ \A p \in Fetched : p.block = c => Len(p.objs) <= Len(q.objs)
    BY <1>1 DEF IInv, QueueInv, RowsInv, Executing
<1>10. b \in Generated /\ b # <<>>
    <2>1. Len(b) > 0
        BY <1>2, BlockShape
    <2>. QED
        BY <1>1, <1>9, <2>1
<1>11. ASSUME NEW r \in Fetched'
       PROVE  \/ r.block = <<>> /\ Len(r.objs) = 1
              \/ r.block \in Generated \ subqueries' /\ r \in BlockRows(r.block, Roots)
    <2>1. CASE r \in result
        BY <1>1, <1>4, <1>9, <2>1
    <2>2. CASE r \in T
        BY <1>1, <1>5, <1>6, <1>10, <2>2 DEF S
    <2>. QED
        BY <1>4, <1>5, <2>1, <2>2
<1>12. ASSUME NEW c \in Generated \ subqueries', NEW q \in BlockRows(c, Roots), q \notin Fetched'
       PROVE  ~Unlimited(c) /\ \A p \in Fetched' : p.block = c => Len(p.objs) <= Len(q.objs)
    <2>1. CASE c = b
        <3>1. q \in S \ T
            BY <1>4, <1>5, <1>12, <2>1 DEF S
        <3>2. \A p \in result : p.block # b
            BY <1>1, <1>4, <1>9, <1>10
        <3>. QED
            BY <1>4, <1>5, <2>1, <3>1, <3>2
    <2>2. CASE c # b
        <3>1. c \in Generated \ subqueries
            BY <1>1, <1>12, <2>2
        <3>2. \A p \in T : p.block # c
            BY <1>5, <1>6, <2>2
        <3>3. q \notin Fetched
            BY <1>4, <1>5, <1>12
        <3>. QED
            BY <1>4, <1>5, <1>9, <3>1, <3>2, <3>3
    <2>. QED
        BY <2>1, <2>2
<1>. QED
    BY <1>1, <1>2, <1>7, <1>8, <1>9, <1>11, <1>12
       DEF RowsInv, Unlimited, BelowTransitive, IsTransitive

\* Reading a row moves it.
LEMMA ScanMoves ==
    ASSUME Types, ScanRow
    PROVE  /\ Fetched' = Fetched
           /\ \E r \in result :
                /\ \A q \in result : ~PathBefore(Path(q), Path(r))
                /\ result' = result \ {r} /\ flatRows' = Append(flatRows, r)
                /\ Len(flatRows) \in Nat /\ DOMAIN flatRows = 1..Len(flatRows)
                /\ DOMAIN flatRows' = 1..Len(flatRows) + 1
                /\ \A i \in 1..Len(flatRows) : flatRows'[i] = flatRows[i]
                /\ flatRows'[Len(flatRows) + 1] = r
                /\ ToSet(flatRows') = ToSet(flatRows) \cup {r}
<1>1. PICK r \in result : /\ \A q \in result : ~PathBefore(Path(q), Path(r))
                          /\ flatRows' = Append(flatRows, r) /\ result' = result \ {r}
    BY DEF ScanRow
<1>2. flatRows \in Seq(RowSpace) /\ r \in RowSpace
    BY DEF Types
<1>3. /\ Len(flatRows) \in Nat /\ DOMAIN flatRows = 1..Len(flatRows)
      /\ DOMAIN flatRows' = 1..Len(flatRows) + 1
      /\ \A i \in 1..Len(flatRows) : flatRows'[i] = flatRows[i]
      /\ flatRows'[Len(flatRows) + 1] = r
      /\ ToSet(flatRows') = ToSet(flatRows) \cup {r}
    BY <1>1, <1>2, AppendedSet
<1>. QED
    BY <1>1, <1>3 DEF Fetched

\* Every step preserves RowsInv.
LEMMA RowsStep ==
    ASSUME IInv, [Next]_vars
    PROVE  RowsInv'
<1>1. CASE Validate
    BY <1>1 DEF Validate, RowsInv, Executing
<1>2. CASE GenerateBlock
    BY <1>2 DEF GenerateBlock, RowsInv, Executing
<1>3. CASE SelectRoots
    BY <1>3, SelectRootsRows
<1>4. ASSUME NEW b \in blocks, SelectBlock(b) PROVE RowsInv'
    BY <1>4, SelectBlockRows
<1>5. RowsInv
    BY DEF IInv
<1>6. CASE Executed
    BY <1>5, <1>6, RowsStay DEF Executed, Executing, Fetched
<1>7. CASE ScanRow
    <2>1. Fetched' = Fetched
        BY <1>7, ScanMoves DEF IInv
    <2>. QED
        BY <1>5, <1>7, <2>1, RowsStay DEF ScanRow, Executing
<1>8. CASE EndScan
    BY <1>5, <1>8, RowsStay DEF EndScan, Executing, Fetched
<1>9. CASE AssembleRow
    BY <1>5, <1>9, RowsStay DEF AssembleRow, Executing, Fetched
<1>10. CASE Respond
    BY <1>5, <1>10, RowsStay DEF Respond, Executing, Fetched
<1>11. CASE UNCHANGED vars
    <2>1. CASE ~Executing
        BY <1>11, <2>1 DEF vars, RowsInv, Executing
    <2>2. CASE Executing
        BY <1>5, <1>11, <2>2, RowsStay DEF vars, query, Executing, Fetched, RowsInv
    <2>. QED
        BY <2>1, <2>2
<1>12. CASE RefuseBlock
    BY <1>12 DEF RefuseBlock, RowsInv, Executing
<1>. QED
    BY <1>1, <1>2, <1>3, <1>4, <1>6, <1>7, <1>8, <1>9, <1>10, <1>11, <1>12 DEF Next

----------------------------------------------------------------------------
\* Reading the rows.

\* Every step preserves ScanInv: the ORDER BY puts a prefix first.
LEMMA ScanStep ==
    ASSUME IInv, [Next]_vars
    PROVE  ScanInv'
<1>1. /\ pc \notin {"scan", "assemble", "done"} => flatRows = <<>>
      /\ ToSet(flatRows) \cap result = {}
      /\ \A i, j \in DOMAIN flatRows : flatRows[i] = flatRows[j] => i = j
      /\ \A i \in DOMAIN flatRows : \A q \in Fetched :
            IsStrictPrefix(Path(q), Path(flatRows[i])) => \E j \in 1..i - 1 : flatRows[j] = q
      /\ pc \in {"assemble", "done"} => truncated = (result # {})
    BY DEF IInv, ScanInv
<1>2. ASSUME flatRows' = flatRows, flatRows = <<>>, pc' \notin {"assemble", "done"}
      PROVE  ScanInv'
    <2>1. ToSet(flatRows') = {} /\ DOMAIN flatRows' = {}
        BY <1>2 DEF ToSet
    <2>. QED
        BY <1>2, <2>1 DEF ScanInv
<1>3. CASE Validate
    BY <1>1, <1>2, <1>3 DEF Validate
<1>4. CASE GenerateBlock
    BY <1>1, <1>2, <1>4 DEF GenerateBlock
<1>5. CASE SelectRoots
    BY <1>1, <1>2, <1>5 DEF SelectRoots
<1>6. ASSUME NEW b \in blocks, SelectBlock(b) PROVE ScanInv'
    BY <1>1, <1>2, <1>6 DEF SelectBlock
<1>7. CASE Executed
    BY <1>1, <1>2, <1>7 DEF Executed
<1>8. CASE ScanRow
    <2>1. Fetched' = Fetched
        BY <1>8, ScanMoves DEF IInv
    <2>. DEFINE L == Len(flatRows)
    <2>2. PICK r \in result :
            /\ \A q \in result : ~PathBefore(Path(q), Path(r))
            /\ result' = result \ {r}
            /\ L \in Nat /\ DOMAIN flatRows = 1..L /\ DOMAIN flatRows' = 1..L + 1
            /\ \A i \in 1..L : flatRows'[i] = flatRows[i]
            /\ flatRows'[L + 1] = r
            /\ ToSet(flatRows') = ToSet(flatRows) \cup {r}
        BY <1>8, ScanMoves DEF IInv
    <2>. HIDE DEF L
    <2>3. \A i \in 1..L + 1 : i \in 1..L \/ i = L + 1
        BY <2>2
    <2>4. \A i \in 1..L : flatRows[i] # r
        BY <1>1, <2>2 DEF ToSet
    <2>5. ToSet(flatRows') \cap result' = {}
        BY <1>1, <2>2
    <2>6. \A i, j \in DOMAIN flatRows' : flatRows'[i] = flatRows'[j] => i = j
        BY <1>1, <2>2, <2>3, <2>4
    <2>7. ASSUME NEW i \in DOMAIN flatRows', NEW q \in Fetched,
                 IsStrictPrefix(Path(q), Path(flatRows'[i]))
          PROVE  \E j \in 1..i - 1 : flatRows'[j] = q
        <3>1. CASE i \in 1..L
            <4>1. PICK j \in 1..i - 1 : flatRows[j] = q
                BY <1>1, <2>2, <2>7, <3>1
            <4>2. j \in 1..L
                BY <2>2, <3>1
            <4>. QED
                BY <2>2, <4>1, <4>2
        <3>2. CASE i = L + 1
            <4>1. PathBefore(Path(q), Path(r))
                BY <2>2, <2>7, <3>2 DEF PathBefore
            <4>2. q \in ToSet(flatRows)
                BY <2>2, <4>1 DEF Fetched
            <4>3. PICK j \in 1..L : flatRows[j] = q
                BY <2>2, <4>2 DEF ToSet
            <4>4. i - 1 = L
                BY <2>2, <3>2
            <4>. QED
                BY <2>2, <4>3, <4>4
        <3>. QED
            BY <2>2, <2>3, <3>1, <3>2
    <2>8. pc' = "scan"
        BY <1>8 DEF ScanRow
    <2>. QED
        BY <2>1, <2>5, <2>6, <2>7, <2>8 DEF ScanInv
<1>9. ASSUME flatRows' = flatRows, result' = result,
             pc \in {"scan", "assemble", "done"}, pc' \in {"scan", "assemble", "done"},
             pc' \in {"assemble", "done"} => truncated' = (result # {})
      PROVE  ScanInv'
    BY <1>1, <1>9 DEF ScanInv, Fetched
<1>10. CASE EndScan
    BY <1>9, <1>10 DEF EndScan
<1>11. CASE AssembleRow
    BY <1>1, <1>9, <1>11 DEF AssembleRow
<1>12. CASE Respond
    BY <1>1, <1>9, <1>12 DEF Respond
<1>13. CASE UNCHANGED vars
    BY <1>1, <1>13 DEF ScanInv, Fetched, vars
<1>14. CASE RefuseBlock
    BY <1>1, <1>2, <1>14 DEF RefuseBlock
<1>. QED
    BY <1>3, <1>4, <1>5, <1>6, <1>7, <1>8, <1>10, <1>11, <1>12, <1>13, <1>14 DEF Next

----------------------------------------------------------------------------
\* AssembleTree.

\* A turn of AssembleTree's loop preserves TreeInv.
LEMMA AssembleStep ==
    ASSUME IInv, AssembleRow
    PROVE  TreeInv'
<1>. DEFINE row  == flatRows[index + 1]
            path == Path(row)
            up   == parentPathOf(path)
            map  == nodesByPath'
<1>1. /\ pc = "assemble" /\ pc' = pc /\ index < Len(flatRows) /\ index' = index + 1
      /\ flatRows' = flatRows
      /\ map = [p \in DOMAIN nodesByPath \cup {path} |-> IF p = path THEN row ELSE nodesByPath[p]]
      /\ Level(row) = 0 => rootNodes' = Append(rootNodes, row) /\ children' = children
      /\ Level(row) # 0 => /\ rootNodes' = rootNodes
                           /\ up \in DOMAIN map =>
                                children' = children \cup {[node |-> row, parent |-> map[up]]}
                           /\ up \notin DOMAIN map => children' = children
    BY DEF AssembleRow
<1>2. /\ flatRows \in Seq(RowSpace) /\ rootNodes \in Seq(RowSpace)
      /\ Len(flatRows) \in Nat /\ index \in Nat /\ DOMAIN flatRows = 1..Len(flatRows)
    BY DEF IInv, Types
<1>3. index + 1 \in 1..Len(flatRows) /\ \A i \in 1..index : i \in 1..Len(flatRows) /\ i # index + 1
    BY <1>1, <1>2
<1>4. row \in RowSpace
    BY <1>2, <1>3
<1>5. \A i \in 1..index + 1 : i \in 1..index \/ i = index + 1
    BY <1>2
<1>6. \A i \in 1..index : i \in 1..index + 1
    BY <1>2
<1>7. index + 1 \in 1..index + 1
    BY <1>2
<1>8. row \notin Assembled
    BY <1>2, <1>3 DEF IInv, ScanInv, Assembled
<1>. HIDE DEF row, path, up, map
<1>9. Assembled' = Assembled \cup {row}
    BY <1>1, <1>5, <1>6, <1>7 DEF Assembled, row
<1>10. /\ DOMAIN nodesByPath = {Path(r) : r \in Assembled}
       /\ \A p \in DOMAIN nodesByPath : nodesByPath[p] \in Assembled /\ Path(nodesByPath[p]) = p
       /\ ToSet(rootNodes) = {r \in Assembled : Level(r) = 0}
       /\ \A i, j \in DOMAIN rootNodes : rootNodes[i] = rootNodes[j] => i = j
       /\ \A c \in children : /\ c.node \in Assembled /\ Level(c.node) # 0
                              /\ c.parent \in Assembled
                              /\ Path(c.parent) = parentPathOf(Path(c.node))
       /\ \A i \in 1..index : \A j \in 1..i :
             Level(flatRows[i]) # 0 /\ Path(flatRows[j]) = parentPathOf(Path(flatRows[i]))
                 => \E c \in children : c.node = flatRows[i]
    BY DEF IInv, TreeInv
<1>11. DOMAIN map = DOMAIN nodesByPath \cup {path}
    BY <1>1
<1>12. DOMAIN map = {Path(r) : r \in Assembled'}
    BY <1>9, <1>10, <1>11 DEF path
<1>13. \A p \in DOMAIN map : map[p] \in Assembled' /\ Path(map[p]) = p
    BY <1>1, <1>9, <1>10, <1>11 DEF path
<1>14. ToSet(rootNodes') = {r \in Assembled' : Level(r) = 0}
    <2>1. CASE Level(row) = 0
        <3>1. ToSet(Append(rootNodes, row)) = ToSet(rootNodes) \cup {row}
            BY <1>2, <1>4, AppendedSet
        <3>2. ToSet(rootNodes') = ToSet(rootNodes) \cup {row}
            BY <1>1, <2>1, <3>1
        <3>. QED
            BY <1>9, <1>10, <2>1, <3>2
    <2>2. CASE Level(row) # 0
        BY <1>1, <1>9, <1>10, <2>2
    <2>. QED
        BY <2>1, <2>2
<1>15. \A i, j \in DOMAIN rootNodes' : rootNodes'[i] = rootNodes'[j] => i = j
    <2>1. CASE Level(row) = 0
        <3>. DEFINE L == Len(rootNodes)
        <3>1. /\ L \in Nat /\ DOMAIN rootNodes = 1..L
              /\ DOMAIN rootNodes' = 1..L + 1
              /\ \A i \in 1..L : rootNodes'[i] = rootNodes[i]
              /\ rootNodes'[L + 1] = row
            <4>1. L \in Nat /\ DOMAIN rootNodes = 1..L
                BY <1>2
            <4>2. /\ DOMAIN Append(rootNodes, row) = 1..L + 1
                  /\ \A i \in 1..L : Append(rootNodes, row)[i] = rootNodes[i]
                  /\ Append(rootNodes, row)[L + 1] = row
                BY <1>2, <1>4, AppendedSet
            <4>. QED
                BY <1>1, <2>1, <4>1, <4>2
        <3>2. \A i \in 1..L : rootNodes[i] # row
            BY <1>8, <1>10, <3>1 DEF ToSet
        <3>. HIDE DEF L
        <3>3. \A i \in 1..L + 1 : i \in 1..L \/ i = L + 1
            BY <3>1
        <3>. QED
            BY <1>10, <3>1, <3>2, <3>3
    <2>2. CASE Level(row) # 0
        BY <1>1, <1>10, <2>2
    <2>. QED
        BY <2>1, <2>2
<1>16. ASSUME NEW c \in children'
       PROVE  /\ c.node \in Assembled' /\ Level(c.node) # 0
              /\ c.parent \in Assembled'
              /\ Path(c.parent) = parentPathOf(Path(c.node))
    <2>1. CASE c \in children
        BY <1>9, <1>10, <2>1
    <2>2. CASE c \notin children
        <3>1. Level(row) # 0 /\ up \in DOMAIN map /\ c = [node |-> row, parent |-> map[up]]
            BY <1>1, <2>2
        <3>2. c.node = row /\ c.parent = map[up]
            BY <3>1
        <3>3. map[up] \in Assembled' /\ Path(map[up]) = up
            BY <1>13, <3>1
        <3>. QED
            BY <1>9, <3>1, <3>2, <3>3 DEF up, path
    <2>. QED
        BY <2>1, <2>2
<1>17. children \subseteq children'
    BY <1>1
<1>18. ASSUME NEW i \in 1..index + 1, NEW j \in 1..i, Level(flatRows[i]) # 0,
              Path(flatRows[j]) = parentPathOf(Path(flatRows[i]))
       PROVE  \E c \in children' : c.node = flatRows[i]
    <2>1. CASE i \in 1..index
        BY <1>10, <1>17, <1>18, <2>1
    <2>2. CASE i = index + 1
        <3>1. flatRows[j] \in Assembled'
            BY <1>1, <2>2 DEF Assembled
        <3>2. up \in DOMAIN map /\ Level(row) # 0
            BY <1>12, <1>18, <2>2, <3>1 DEF up, path, row
        <3>3. [node |-> row, parent |-> map[up]] \in children'
            BY <1>1, <3>2
        <3>. QED
            BY <2>2, <3>3 DEF row
    <2>. QED
        BY <1>5, <2>1, <2>2
<1>. QED
    BY <1>1, <1>12, <1>13, <1>14, <1>15, <1>16, <1>18 DEF TreeInv, map

\* Every step preserves TreeInv.
LEMMA TreeStep ==
    ASSUME IInv, [Next]_vars
    PROVE  TreeInv'
<1>1. TreeInv /\ index \in 0..Len(flatRows)
    BY DEF IInv, Types
<1>2. ASSUME UNCHANGED <<tree, flatRows>>, pc \notin {"done"}, pc' # "done",
             pc' \notin {"assemble", "done"} => pc \notin {"assemble", "done"}
      PROVE  TreeInv'
    BY <1>1, <1>2 DEF TreeInv, tree, Assembled, Level
<1>3. CASE Validate
    BY <1>2, <1>3 DEF Validate
<1>4. CASE GenerateBlock
    BY <1>2, <1>4 DEF GenerateBlock
<1>5. CASE SelectRoots
    BY <1>2, <1>5 DEF SelectRoots
<1>6. ASSUME NEW b \in blocks, SelectBlock(b) PROVE TreeInv'
    BY <1>2, <1>6 DEF SelectBlock
<1>7. CASE Executed
    BY <1>2, <1>7 DEF Executed
<1>8. CASE ScanRow
    <2>1. pc = "scan" /\ pc' = "scan" /\ UNCHANGED tree
        BY <1>8 DEF ScanRow
    <2>2. index = 0 /\ index' = 0
        BY <1>1, <2>1 DEF TreeInv, tree
    <2>3. Assembled = {} /\ Assembled' = {}
        BY <2>2 DEF Assembled
    <2>. QED
        BY <1>1, <2>1, <2>2, <2>3 DEF TreeInv, tree
<1>9. CASE EndScan
    BY <1>2, <1>9 DEF EndScan
<1>10. CASE AssembleRow
    BY <1>10, AssembleStep
<1>11. CASE Respond
    <2>1. /\ UNCHANGED <<tree, flatRows, limit, truncated>> /\ pc' = "done"
          /\ index = Len(flatRows) /\ incomplete' = (truncated \/ Len(rootNodes) = limit)
        BY <1>11 DEF Respond, query
    <2>. QED
        BY <1>1, <2>1 DEF TreeInv, tree, Assembled, Level
<1>12. CASE UNCHANGED vars
    BY <1>1, <1>12 DEF TreeInv, vars, Assembled, Level
<1>13. CASE RefuseBlock
    BY <1>2, <1>13 DEF RefuseBlock
<1>. QED
    BY <1>3, <1>4, <1>5, <1>6, <1>7, <1>8, <1>9, <1>10, <1>11, <1>12, <1>13 DEF Next

\* The invariant is inductive.
LEMMA StepInv ==
    ASSUME IInv, [Next]_vars
    PROVE  IInv'
    BY TypesStep, QueueStep, RowsStep, ScanStep, TreeStep DEF IInv

----------------------------------------------------------------------------
\* What the invariant says of the rows of a response.

\* A row of the statement is a root, or a chain of a block that was generated.
LEMMA FetchedRow ==
    ASSUME IInv, NEW r \in Fetched
    PROVE  /\ Executing /\ r.objs \in Seq(Objects) /\ r = Row(r.block, r.objs) /\ Len(r.objs) > 0
           /\ \/ r.block = <<>> /\ Len(r.objs) = 1 /\ r.objs[1] \in Roots
              \/ /\ r.block \in Generated \ subqueries /\ r.block \in blocks
                 /\ r \in BlockRows(r.block, Roots) /\ Chain(r.block, r.objs, Roots)
                 /\ Last(r.objs) \in Admits[r.block]
                 /\ Len(r.objs) >= Len(r.block) + 1 /\ Len(r.objs) >= 2 /\ Level(r) # 0
<1>1. /\ blocks \in Requests /\ depth \in Nat /\ result \subseteq RowSpace
      /\ flatRows \in Seq(RowSpace)
    BY DEF IInv, Types
<1>2. r \in RowSpace
    BY <1>1 DEF Fetched, ToSet
<1>3. r.objs \in Seq(Objects) /\ r = Row(r.block, r.objs)
    BY <1>2 DEF RowSpace, Row
<1>4. Executing
    BY DEF IInv, QueueInv
<1>5. \/ r.block = <<>> /\ Len(r.objs) = 1
      \/ r.block \in Generated \ subqueries /\ r \in BlockRows(r.block, Roots)
    BY <1>4 DEF IInv, RowsInv
<1>6. CASE r.block = <<>> /\ Len(r.objs) = 1
    <2>1. r.objs[1] \in Roots
        BY <1>6 DEF Roots, Level
    <2>. QED
        BY <1>3, <1>4, <1>6, <2>1
<1>7. CASE r.block \in Generated \ subqueries /\ r \in BlockRows(r.block, Roots)
    <2>1. r.block \in blocks
        BY <1>7 DEF Generated, Wanted
    <2>2. Chain(r.block, r.objs, Roots) /\ Last(r.objs) \in Admits[r.block] /\ Level(r) # 0
        BY <1>1, <1>7, <2>1, RowsOfBlock
    <2>3. r.block \in Seq(Names) /\ Len(r.block) \in Nat /\ Len(r.block) > 0
        BY <1>1, <2>1, BlockShape
    <2>4. Len(r.objs) \in Lengths(r.block)
        BY <2>2 DEF Chain
    <2>5. Len(r.objs) \in Nat /\ Len(r.objs) >= Len(r.block) + 1
        <3>1. TransitiveAt(r.block) \in 0..Len(r.block)
            BY <2>3, TransitiveAtIs
        <3>. QED
            BY <1>1, <2>3, <2>4, <3>1 DEF Lengths
    <2>6. Len(r.objs) >= 2 /\ Len(r.objs) > 0
        BY <2>3, <2>5
    <2>. QED
        BY <1>3, <1>4, <1>7, <2>1, <2>2, <2>5, <2>6
<1>. QED
    BY <1>5, <1>6, <1>7

\* A row in the tree was fetched.
LEMMA AttachedFetched ==
    ASSUME IInv
    PROVE  Attached \subseteq Assembled /\ Assembled \subseteq ToSet(flatRows) /\ Attached \subseteq Fetched
<1>1. index \in 0..Len(flatRows) /\ flatRows \in Seq(RowSpace)
    BY DEF IInv, Types
<1>2. \A i \in 1..index : i \in DOMAIN flatRows
    BY <1>1
<1>3. Assembled \subseteq ToSet(flatRows)
    BY <1>2 DEF Assembled, ToSet
<1>4. Attached \subseteq Assembled
    BY DEF Attached, IInv, TreeInv
<1>. QED
    BY <1>3, <1>4 DEF Fetched

\* Chains from fewer roots are chains.
LEMMA MoreRoots ==
    ASSUME NEW b, NEW s, NEW R, NEW Q, R \subseteq Q, Chain(b, s, R)
    PROVE  Chain(b, s, Q)
    BY DEF Chain

\* Each ancestor of a row in the response was admitted by its own SELECT.
LEMMA OnlyWantedInv == IInv => OnlyWanted
<1>. SUFFICES ASSUME IInv, NEW r \in Returned
              PROVE  r \in Everything
    BY DEF OnlyWanted
<1>1. blocks \in Requests /\ depth \in Nat
    BY DEF IInv, Types
<1>2. r \in Attached /\ \A n \in DOMAIN r.objs : Ancestor(r, n) \in Attached
    BY DEF Returned
<1>3. r \in Fetched
    BY <1>2, AttachedFetched
<1>4. Executing /\ r.objs \in Seq(Objects) /\ r = Row(r.block, r.objs)
    BY <1>3, FetchedRow
<1>5. Roots \subseteq Matches
    BY <1>4 DEF IInv, RowsInv
<1>6. CASE r.block = <<>> /\ Len(r.objs) = 1 /\ r.objs[1] \in Roots
    <2>1. r.objs = <<r.objs[1]>>
        BY <1>4, <1>6
    <2>2. r = Row(<<>>, <<r.objs[1]>>)
        BY <1>4, <1>6, <2>1
    <2>. QED
        BY <1>5, <1>6, <2>2 DEF Everything
<1>7. CASE /\ r.block \in Generated \ subqueries /\ r.block \in blocks
           /\ Chain(r.block, r.objs, Roots)
    <2>. DEFINE b == r.block
                s == r.objs
    <2>1. b \in Seq(Names)
        BY <1>1, <1>7, BlockShape
    <2>2. Chain(b, s, Matches)
        BY <1>5, <1>7, MoreRoots
    <2>3. r \in JoinChains(b, Matches)
        BY <1>1, <1>4, <2>1, <2>2, ChainsAre
    <2>4. b \in Wanted
        BY <1>7 DEF Generated
    <2>5. ASSUME NEW n \in 2..Len(s) PROVE s[n] \in Admits[BlockAt(r, n)]
        <3>1. n \in DOMAIN s
            BY <1>4
        <3>. DEFINE a == Ancestor(r, n)
        <3>2. a \in Fetched
            BY <1>2, <3>1, AttachedFetched
        <3>3. /\ Ancestor(Row(b, s), n) = Row(BlockAt(Row(b, s), n), SubSeq(s, 1, n))
              /\ BlockAt(Row(b, s), n) \in Generated /\ Last(SubSeq(s, 1, n)) = s[n]
            BY <1>1, <1>4, <1>7, AncestorChain
        <3>4. a.block = BlockAt(r, n) /\ a.objs = SubSeq(s, 1, n)
            BY <1>4, <3>3 DEF Row
        <3>5. a.block # <<>>
            <4>1. a.block \in blocks
                BY <1>4, <3>3, <3>4 DEF Generated, Wanted
            <4>2. Len(a.block) > 0
                BY <1>1, <4>1, BlockShape
            <4>. QED
                BY <4>2
        <3>6. Last(a.objs) \in Admits[a.block]
            BY <3>2, <3>5, FetchedRow
        <3>. QED
            BY <3>3, <3>4, <3>6
    <2>. QED
        BY <2>3, <2>4, <2>5 DEF Everything
<1>. QED
    BY <1>3, <1>6, <1>7, FetchedRow

\* The response holds nothing the request did not ask for: the rows a nested
\* SELECT lets through although a block above refuses one of their ancestors
\* (generator.go applies a block's own filters only) are lost in AssembleTree.
THEOREM OnlyWantedCorrect == Spec => []OnlyWanted
<1>1. Init => IInv
    BY InitInv
<1>2. IInv /\ [Next]_vars => IInv'
    BY StepInv
<1>3. IInv => OnlyWanted
    BY OnlyWantedInv
<1>. QED
    BY <1>1, <1>2, <1>3, PTL DEF Spec

----------------------------------------------------------------------------
\* Rows that were read.

\* The root of a row, and a root itself.
LEMMA RootAncestor ==
    ASSUME blocks \in Requests, depth \in Nat, NEW b \in blocks \cup {<<>>},
           NEW s \in Seq(Objects), Len(s) \in Lengths(b)
    PROVE  Ancestor(Row(b, s), 1) = Row(<<>>, <<s[1]>>)
<1>1. b \in Seq(Names)
    BY BlockShape, EmptySeq
<1>2. Len(b) \in Nat /\ TransitiveAt(b) \in 0..Len(b)
    BY <1>1, TransitiveAtIs
<1>3. Len(s) \in Nat /\ Len(s) >= 1 /\ 1 \in 1..Len(s) /\ 1 \in 0..Len(s)
    BY <1>2 DEF Lengths
<1>4. Place(b, Len(s), 1) = 0
    BY <1>1, <1>3, Places
<1>5. BlockAt(Row(b, s), 1) = <<>>
    BY <1>4, BlockAtIs, SubSeqEmpty
<1>. DEFINE u == SubSeq(s, 1, 1)
<1>6. u \in Seq(Objects) /\ Len(u) = 1 /\ u[1] = s[1]
    BY <1>3, Prefix
<1>. HIDE DEF u
<1>7. u = <<s[1]>>
    BY <1>6
<1>8. Row(b, s).objs = s
    BY DEF Row
<1>. QED
    BY <1>5, <1>7, <1>8 DEF Ancestor, u

\* What the request asks for.
LEMMA EverythingIs ==
    ASSUME blocks \in Requests, depth \in Nat, NEW r \in Everything
    PROVE  \/ \E o \in Matches : r = Row(<<>>, <<o>>)
           \/ /\ r.block \in Wanted /\ r.objs \in Seq(Objects) /\ r = Row(r.block, r.objs)
              /\ Chain(r.block, r.objs, Matches) /\ Len(r.objs) >= 2
              /\ \A n \in 2..Len(r.objs) : r.objs[n] \in Admits[BlockAt(r, n)]
<1>. SUFFICES ASSUME ~(\E o \in Matches : r = Row(<<>>, <<o>>))
              PROVE  /\ r.block \in Wanted /\ r.objs \in Seq(Objects) /\ r = Row(r.block, r.objs)
                     /\ Chain(r.block, r.objs, Matches) /\ Len(r.objs) >= 2
                     /\ \A n \in 2..Len(r.objs) : r.objs[n] \in Admits[BlockAt(r, n)]
    OBVIOUS
<1>1. PICK b \in Wanted : r \in JoinChains(b, Matches)
    BY DEF Everything
<1>2. \A n \in 2..Len(r.objs) : r.objs[n] \in Admits[BlockAt(r, n)]
    BY DEF Everything
<1>3. b \in blocks
    BY DEF Wanted
<1>4. b \in Seq(Names) /\ Len(b) \in Nat /\ Len(b) > 0
    BY <1>3, BlockShape
<1>5. PICK s \in Seq(Objects) : Chain(b, s, Matches) /\ r = Row(b, s)
    BY <1>1, <1>4, ChainsAre
<1>6. r.block = b /\ r.objs = s
    BY <1>5 DEF Row
<1>7. Len(s) \in Lengths(b) /\ TransitiveAt(b) \in 0..Len(b)
    BY <1>4, <1>5, TransitiveAtIs DEF Chain
<1>8. Len(s) >= 2
    BY <1>4, <1>7 DEF Lengths
<1>. QED
    BY <1>2, <1>5, <1>6, <1>8

\* The root of a fetched row is a row of its own.
LEMMA RootFetched ==
    ASSUME IInv, NEW o \in Roots
    PROVE  Row(<<>>, <<o>>) \in Fetched
<1>1. PICK q \in Fetched : Level(q) = 0 /\ q.objs[1] = o
    BY DEF Roots
<1>2. q.objs \in Seq(Objects) /\ q = Row(q.block, q.objs) /\ q.block = <<>> /\ Len(q.objs) = 1
    BY <1>1, FetchedRow
<1>3. q.objs = <<o>>
    BY <1>1, <1>2
<1>. QED
    BY <1>2, <1>3

\* A LIMIT takes no ancestor away from a row that was fetched: it keeps short
\* chains, and nothing is below a block that has one.
LEMMA AncestorFetched ==
    ASSUME IInv, LimitsAtBottom, pc = "done", NEW r \in Fetched, r \in Everything,
           NEW n \in 1..Len(r.objs)
    PROVE  Ancestor(r, n) \in Fetched
<1>1. blocks \in Requests /\ depth \in Nat
    BY DEF IInv, Types
<1>2. Executing /\ r.objs \in Seq(Objects) /\ r = Row(r.block, r.objs)
    BY FetchedRow
<1>3. subqueries = {}
    BY <1>2 DEF IInv, RowsInv
<1>4. CASE r.block = <<>> /\ Len(r.objs) = 1
    <2>1. n = 1
        BY <1>4
    <2>2. r.objs = <<r.objs[1]>>
        BY <1>2, <1>4
    <2>3. TransitiveAt(<<>>) = 0 /\ Len(<<>>) = 0
        <3>1. <<>> \in Seq(Names) /\ Len(<<>>) = 0
            BY EmptySeq
        <3>2. TransitiveAt(<<>>) \in 0..Len(<<>>)
            BY <3>1, TransitiveAtIs
        <3>. QED
            BY <3>1, <3>2
    <2>4. Len(r.objs) \in Lengths(<<>>)
        BY <1>4, <2>3 DEF Lengths
    <2>5. Ancestor(Row(<<>>, r.objs), 1) = Row(<<>>, <<r.objs[1]>>)
        BY <1>1, <1>2, <2>4, RootAncestor
    <2>. QED
        BY <1>2, <1>4, <2>1, <2>2, <2>5
<1>5. CASE /\ r.block \in Generated \ subqueries /\ r.block \in blocks
           /\ Chain(r.block, r.objs, Roots) /\ Len(r.objs) >= 2
    <2>. DEFINE b == r.block
                s == r.objs
    <2>1. Len(s) \in Lengths(b) /\ s[1] \in Roots
        BY <1>5 DEF Chain
    <2>2. CASE n = 1
        <3>1. Ancestor(Row(b, s), 1) = Row(<<>>, <<s[1]>>)
            BY <1>1, <1>2, <1>5, <2>1, RootAncestor
        <3>2. Row(<<>>, <<s[1]>>) \in Fetched
            BY <2>1, RootFetched
        <3>. QED
            BY <1>2, <2>2, <3>1, <3>2
    <2>3. CASE n # 1
        <3>. DEFINE c == BlockAt(Row(b, s), n)
                    u == SubSeq(s, 1, n)
        <3>1. n \in 2..Len(s)
            BY <1>2, <2>3
        <3>2. /\ c \in Generated /\ u \in Seq(Objects) /\ Chain(c, u, Roots) /\ Last(u) = s[n]
              /\ Ancestor(Row(b, s), n) = Row(c, u)
            BY <1>1, <1>2, <1>5, <3>1, AncestorChain
        <3>3. s[n] \in Admits[c]
            <4>1. ~(\E o \in Matches : r = Row(<<>>, <<o>>))
                <5>1. b # <<>>
                    BY <1>1, <1>5, BlockShape
                <5>. QED
                    BY <5>1 DEF Row
            <4>. QED
                BY <1>1, <1>2, <3>1, <4>1, EverythingIs
        <3>4. Len(u) = n
            BY <1>2, <3>1, Prefix
        <3>5. c \in blocks /\ c = SubSeq(b, 1, Place(b, Len(s), n))
            BY <3>2, BlockAtIs DEF Generated, Wanted
        <3>6. Place(b, Len(s), n) \in 0..Len(b)
            BY <1>1, <1>5, <2>1, BlockShape, Places
        <3>7. b \in Seq(Names) /\ Len(b) \in Nat
            BY <1>1, <1>5, BlockShape
        <3>8. IsPrefix(c, b)
            <4>1. c \in Seq(Names) /\ Len(c) = Place(b, Len(s), n)
                BY <3>5, <3>6, <3>7, Prefix
            <4>. HIDE DEF c
            <4>2. IsPrefix(c, b) <=> Len(c) <= Len(b) /\ SubSeq(b, 1, Len(c)) = c
                BY <4>1, PrefixMeans
            <4>. QED
                BY <3>5, <3>6, <3>7, <4>1, <4>2
        <3>. HIDE DEF c, u
        <3>9. c \in Seq(Names)
            BY <1>1, <3>5, BlockShape
        <3>10. Row(c, u) \in BlockRows(c, Roots)
            <4>1. Row(c, u) \in JoinChains(c, Roots)
                BY <1>1, <3>2, <3>9, ChainsAre
            <4>2. Row(c, u).objs = u
                BY DEF Row
            <4>. QED
                BY <3>2, <3>3, <4>1, <4>2 DEF BlockRows
        <3>11. ASSUME Row(c, u) \notin Fetched PROVE FALSE
            <4>1. /\ ~Unlimited(c)
                  /\ \A p \in Fetched : p.block = c => Len(p.objs) <= Len(Row(c, u).objs)
                BY <1>2, <1>3, <3>2, <3>10, <3>11 DEF IInv, RowsInv
            <4>2. ~IsStrictPrefix(c, b)
                BY <1>1, <1>5, <3>5, <4>1 DEF LimitsAtBottom, Unlimited
            <4>3. c = b
                BY <3>8, <4>2 DEF IsStrictPrefix
            <4>4. Row(c, u).objs = u
                BY DEF Row
            <4>5. Len(s) <= n
                BY <3>4, <4>1, <4>3, <4>4
            <4>6. n = Len(s)
                BY <1>2, <3>1, <4>5
            <4>7. u = s
                BY <1>2, <4>6, WholePrefix DEF u
            <4>. QED
                BY <1>2, <3>11, <4>3, <4>7
        <3>. QED
            BY <1>2, <3>2, <3>11
    <2>. QED
        BY <2>2, <2>3
<1>. QED
    BY <1>4, <1>5, FetchedRow

\* A row that was read before the end has a place in the tree if its parent
\* was fetched.
LEMMA ReadAttached ==
    ASSUME IInv, Undotted, pc = "done", NEW q \in ToSet(flatRows),
           Level(q) # 0 => Ancestor(q, Len(q.objs) - 1) \in Fetched
    PROVE  q \in Attached
<1>1. /\ flatRows \in Seq(RowSpace) /\ index = Len(flatRows) /\ Len(flatRows) \in Nat
      /\ DOMAIN flatRows = 1..Len(flatRows)
    BY DEF IInv, Types, TreeInv
<1>2. PICK i \in 1..Len(flatRows) : q = flatRows[i]
    BY <1>1 DEF ToSet
<1>3. q \in Assembled /\ q \in Fetched
    BY <1>1, <1>2 DEF Assembled, Fetched
<1>4. CASE Level(q) = 0
    BY <1>3, <1>4 DEF Attached, IInv, TreeInv
<1>5. CASE Level(q) # 0
    <2>. DEFINE a == Ancestor(q, Len(q.objs) - 1)
    <2>1. q.objs \in Seq(Objects) /\ Len(q.objs) >= 2
        BY <1>3, <1>5, FetchedRow DEF Level
    <2>2. a.objs = SubSeq(q.objs, 1, Len(q.objs) - 1) /\ Len(q.objs) - 1 \in 1..Len(q.objs) - 1
        BY <2>1 DEF Ancestor, Row
    <2>. HIDE DEF a
    <2>3. IsStrictPrefix(Path(a), Path(q)) /\ Path(a) = parentPathOf(Path(q))
        BY <2>1, <2>2, AncestorPath
    <2>4. PICK j \in 1..i - 1 : flatRows[j] = a
        BY <1>1, <1>2, <1>5, <2>3 DEF IInv, ScanInv, a
    <2>5. i \in 1..index /\ j \in 1..i
        BY <1>1
    <2>6. \E c \in children : c.node = q
        BY <1>2, <1>5, <2>3, <2>4, <2>5 DEF IInv, TreeInv
    <2>. QED
        BY <2>6 DEF Attached
<1>. QED
    BY <1>4, <1>5

\* Ancestors of ancestors are ancestors, and the last one is the row itself.
LEMMA AncestorOfAncestor ==
    ASSUME blocks \in Requests, depth \in Nat, NEW b \in Generated, NEW roots,
           NEW s \in Seq(Objects), Chain(b, s, roots), NEW n \in 2..Len(s), NEW m \in 1..n
    PROVE  /\ Ancestor(Ancestor(Row(b, s), n), m) = Ancestor(Row(b, s), m)
           /\ Ancestor(Row(b, s), Len(s)) = Row(b, s)
<1>. DEFINE c == BlockAt(Row(b, s), n)
            u == SubSeq(s, 1, n)
<1>1. /\ Ancestor(Row(b, s), n) = Row(c, u)
      /\ \A k \in 1..n : BlockAt(Row(c, u), k) = BlockAt(Row(b, s), k)
    BY AncestorChain
<1>2. Len(s) \in Nat /\ n \in 0..Len(s) /\ m \in 0..n /\ n \in 1..Len(s)
    OBVIOUS
<1>3. SubSeq(u, 1, m) = SubSeq(s, 1, m)
    BY <1>2, PrefixOfPrefix
<1>4. Row(c, u).objs = u /\ Row(b, s).objs = s
    BY DEF Row
<1>5. b \in blocks /\ Len(s) \in Lengths(b)
    BY DEF Generated, Wanted, Chain
<1>6. BlockAt(Row(b, s), Len(s)) = b
    BY <1>2, <1>5, BlocksOfRow
<1>7. SubSeq(s, 1, Len(s)) = s
    BY WholePrefix
<1>. HIDE DEF c, u
<1>. QED
    BY <1>1, <1>3, <1>4, <1>6, <1>7 DEF Ancestor

\* The ancestors of a row that was read were fetched, and read before it.
LEMMA NothingReadIsLostInv ==
    ASSUME Undotted, LimitsAtBottom
    PROVE  IInv => NothingReadIsLost
<1>. SUFFICES ASSUME IInv, pc = "done", NEW r \in ToSet(flatRows), r \in Everything
              PROVE  r \in Returned
    BY DEF NothingReadIsLost
<1>1. blocks \in Requests /\ depth \in Nat /\ flatRows \in Seq(RowSpace)
    BY DEF IInv, Types
<1>2. r \in Fetched
    BY DEF Fetched
<1>3. r.objs \in Seq(Objects) /\ r = Row(r.block, r.objs) /\ Len(r.objs) > 0
    BY <1>2, FetchedRow
<1>4. \A n \in 1..Len(r.objs) : Ancestor(r, n) \in Fetched
    BY <1>2, AncestorFetched
<1>5. Level(r) = 0 => r \in Attached
    BY ReadAttached
<1>6. CASE r.block = <<>> /\ Len(r.objs) = 1
    <2>1. Level(r) = 0
        BY <1>6 DEF Level
    <2>2. Ancestor(r, 1) = r
        <3>1. TransitiveAt(<<>>) = 0 /\ Len(<<>>) = 0
            <4>1. <<>> \in Seq(Names) /\ Len(<<>>) = 0
                BY EmptySeq
            <4>2. TransitiveAt(<<>>) \in 0..Len(<<>>)
                BY <4>1, TransitiveAtIs
            <4>. QED
                BY <4>1, <4>2
        <3>2. Len(r.objs) \in Lengths(<<>>)
            BY <1>6, <3>1 DEF Lengths
        <3>3. Ancestor(Row(<<>>, r.objs), 1) = Row(<<>>, <<r.objs[1]>>)
            BY <1>1, <1>3, <3>2, RootAncestor
        <3>4. r.objs = <<r.objs[1]>>
            BY <1>3, <1>6
        <3>. QED
            BY <1>3, <1>6, <3>3, <3>4
    <2>3. \A n \in DOMAIN r.objs : n = 1
        BY <1>3, <1>6
    <2>. QED
        BY <1>5, <2>1, <2>2, <2>3 DEF Returned
<1>7. CASE /\ r.block \in Generated \ subqueries /\ r.block \in blocks
           /\ Chain(r.block, r.objs, Roots) /\ Len(r.objs) >= 2
    <2>. DEFINE b == r.block
                s == r.objs
    <2>1. Len(s) \in Nat /\ Len(s) \in 2..Len(s) /\ DOMAIN s = 1..Len(s)
        BY <1>3, <1>7
    <2>2. Ancestor(r, Len(s)) = r
        BY <1>1, <1>3, <1>7, <2>1, AncestorOfAncestor
    <2>3. ASSUME NEW n \in 1..Len(s) PROVE Ancestor(r, n) \in Attached
        <3>. DEFINE a == Ancestor(r, n)
        <3>1. a \in Fetched /\ a.objs = SubSeq(s, 1, n) /\ Len(a.objs) = n
            <4>1. a.objs = SubSeq(s, 1, n)
                BY DEF Ancestor, Row
            <4>2. n \in 0..Len(s)
                BY <2>1
            <4>. QED
                BY <1>3, <1>4, <4>1, <4>2, Prefix
        <3>2. a \in ToSet(flatRows)
            <4>1. CASE n = Len(s)
                BY <2>2, <4>1
            <4>2. CASE n # Len(s)
                <5>1. n \in 1..Len(s) - 1
                    BY <2>1, <4>2
                <5>. HIDE DEF a
                <5>2. IsStrictPrefix(Path(a), Path(r))
                    BY <1>3, <3>1, <5>1, AncestorPath
                <5>3. PICK i \in DOMAIN flatRows : r = flatRows[i]
                    BY DEF ToSet
                <5>4. PICK j \in 1..i - 1 : flatRows[j] = a
                    BY <3>1, <5>2, <5>3 DEF IInv, ScanInv
                <5>5. j \in DOMAIN flatRows
                    BY <1>1, <5>3
                <5>. QED
                    BY <5>4, <5>5 DEF ToSet
            <4>. QED
                BY <4>1, <4>2
        <3>3. ASSUME Level(a) # 0 PROVE Ancestor(a, Len(a.objs) - 1) \in Fetched
            <4>1. n # 1
                <5>1. Len(a.objs) >= 2
                    BY <3>1, <3>3, FetchedRow DEF Level
                <5>. QED
                    BY <3>1, <5>1
            <4>2. n \in 2..Len(s) /\ n - 1 \in 1..n /\ n - 1 \in 1..Len(s)
                BY <2>1, <4>1
            <4>3. Ancestor(a, n - 1) = Ancestor(r, n - 1)
                BY <1>1, <1>3, <1>7, <4>2, AncestorOfAncestor
            <4>. QED
                BY <1>4, <3>1, <4>2, <4>3
        <3>. HIDE DEF a
        <3>4. a \in Attached
            BY <3>2, <3>3, ReadAttached
        <3>. QED
            BY <3>4 DEF a
    <2>4. r \in Attached
        BY <2>1, <2>2, <2>3
    <2>. QED
        BY <2>1, <2>3, <2>4 DEF Returned
<1>. QED
    BY <1>2, <1>6, <1>7, FetchedRow

\* Cutting the rows at MaxTotalRows (scanFlatRows) loses nothing that was read:
\* where names have no dots and only blocks at the bottom have a limit, every
\* row that was read and asked for is in the response.
THEOREM NothingReadIsLostCorrect ==
    Undotted /\ LimitsAtBottom => (Spec => []NothingReadIsLost)
<1>. SUFFICES ASSUME Undotted, LimitsAtBottom
              PROVE  Spec => []NothingReadIsLost
    OBVIOUS
<1>1. Init => IInv
    BY InitInv
<1>2. IInv /\ [Next]_vars => IInv'
    BY StepInv
<1>3. IInv => NothingReadIsLost
    BY NothingReadIsLostInv
<1>. QED
    BY <1>1, <1>2, <1>3, PTL DEF Spec

----------------------------------------------------------------------------
\* Parents.

\* The join that leads to the k-th object of a row.
LEMMA JoinOf ==
    ASSUME IInv, NEW b \in blocks, NEW s \in Seq(Objects), NEW roots, Chain(b, s, roots),
           NEW k \in 1..Len(s) - 1
    PROVE  /\ BlockAt(Row(b, s), k + 1) \in blocks
           /\ <<s[k], s[k + 1]>> \in Joinable[BaseRelation[Last(BlockAt(Row(b, s), k + 1))]]
<1>1. /\ blocks \in Requests /\ depth \in Nat /\ Len(s) \in Lengths(b) /\ Len(s) \in Nat
      /\ \A n \in DOMAIN Joinable : related[n] \subseteq Joinable[n]
    BY DEF IInv, Types, Chain
<1>. DEFINE c == BlockAt(Row(b, s), k + 1)
<1>2. k + 1 \in 1..Len(s) /\ k + 1 > 1
    BY <1>1
<1>3. c \in blocks
    BY <1>1, <1>2, BlocksOfRow
<1>4. <<s[k], s[k + 1]>> \in related[BaseRelation[Last(c)]]
    BY DEF Chain, Related
<1>. HIDE DEF c
<1>5. c \in Seq(Names) /\ Len(c) \in 1..Len(c)
    BY <1>1, <1>3, BlockShape
<1>6. Last(c) \in Names
    BY <1>5 DEF Last
<1>7. BaseRelation[Last(c)] \in DOMAIN Joinable
    BY <1>6, QueryAssumption DEF Names
<1>. QED
    BY <1>1, <1>3, <1>4, <1>7 DEF c

\* Where relations of one block do not lead to the same objects, the objects
\* on the way to a row tell its block.
LEMMA SameBlocks ==
    ASSUME IInv, OneWay, NEW b \in blocks, NEW c \in blocks, NEW s \in Seq(Objects),
           NEW u \in Seq(Objects), NEW roots, Chain(b, s, roots), Chain(c, u, roots),
           Len(u) = Len(s) - 1, \A k \in 1..Len(u) : u[k] = s[k]
    PROVE  c = BlockAt(Row(b, s), Len(u))
<1>. DEFINE B(k) == BlockAt(Row(b, s), k)
            C(k) == BlockAt(Row(c, u), k)
            M    == Len(u)
            S    == {n \in Nat : n + 1 \in 1..M => C(n + 1) = B(n + 1)}
<1>1. blocks \in Requests /\ depth \in Nat /\ Len(s) \in Lengths(b) /\ Len(u) \in Lengths(c)
    BY DEF IInv, Types, Chain
<1>2. Len(s) \in Nat /\ M \in Nat /\ Len(s) = M + 1
    OBVIOUS
<1>3. M >= 2
    <2>1. Len(c) \in Nat /\ Len(c) > 0 /\ TransitiveAt(c) \in 0..Len(c)
        BY <1>1, BlockShape, TransitiveAtIs
    <2>. QED
        BY <1>1, <2>1 DEF Lengths
<1>4. B(1) = <<>> /\ C(1) = <<>> /\ C(M) = c
    <2>1. 1 \in 1..Len(s) /\ 1 \in 1..M
        BY <1>2, <1>3
    <2>. QED
        BY <1>1, <2>1, BlocksOfRow
<1>5. \A k \in 1..Len(s) - 1 : B(k + 1) \in Continued(blocks, B(k))
    <2>1. \A k \in 1..Len(s) - 1 : k \in 1..Len(s) /\ k < Len(s)
        BY <1>2
    <2>. QED
        BY <1>1, <2>1, BlocksOfRow
<1>6. \A k \in 1..M - 1 : C(k + 1) \in Continued(blocks, C(k))
    <2>1. \A k \in 1..M - 1 : k \in 1..M /\ k < M
        BY <1>2
    <2>. QED
        BY <1>1, <2>1, BlocksOfRow
<1>7. \A k \in 1..Len(s) - 1 :
          B(k + 1) \in blocks /\ <<s[k], s[k + 1]>> \in Joinable[BaseRelation[Last(B(k + 1))]]
    BY JoinOf
<1>8. \A k \in 1..M - 1 :
          C(k + 1) \in blocks /\ <<u[k], u[k + 1]>> \in Joinable[BaseRelation[Last(C(k + 1))]]
    BY JoinOf
<1>. HIDE DEF B, C, M
<1>9. 0 \in S
    BY <1>4
<1>10. ASSUME NEW n \in Nat, n \in S PROVE n + 1 \in S
    <2>. SUFFICES ASSUME (n + 1) + 1 \in 1..M
                  PROVE  C((n + 1) + 1) = B((n + 1) + 1)
        OBVIOUS
    <2>. DEFINE k == n + 1
    <2>1. /\ k \in 1..M /\ k \in 1..M - 1 /\ k + 1 \in 1..M
          /\ k \in 1..Len(s) - 1 /\ k + 1 \in 1..Len(s) - 1
        BY <1>2
    <2>2. C(k) = B(k)
        BY <1>10, <2>1
    <2>. HIDE DEF k
    <2>3. B(k) \in blocks \cup {<<>>}
        <3>1. CASE k = 1
            BY <1>4, <3>1
        <3>2. CASE k # 1
            <4>1. k - 1 \in 1..Len(s) - 1 /\ (k - 1) + 1 = k
                BY <1>2, <2>1, <3>2
            <4>. QED
                BY <1>7, <4>1
        <3>. QED
            BY <3>1, <3>2
    <2>4. /\ B(k + 1) \in Continued(blocks, B(k)) /\ C(k + 1) \in Continued(blocks, B(k))
          /\ B((k + 1) + 1) \in Continued(blocks, B(k + 1))
        BY <1>5, <1>6, <2>1, <2>2
    <2>5. <<s[k], s[k + 1]>> = <<u[k], u[k + 1]>>
        BY <2>1 DEF M
    <2>6. ASSUME C(k + 1) # B(k + 1) PROVE FALSE
        <3>1. Joinable[BaseRelation[Last(C(k + 1))]] \cap Joinable[BaseRelation[Last(B(k + 1))]] = {}
            BY <1>1, <2>3, <2>4, <2>6 DEF OneWay
        <3>. QED
            BY <1>7, <1>8, <2>1, <2>5, <3>1
    <2>. QED
        BY <2>6 DEF k
<1>. HIDE DEF S
<1>11. M - 1 \in S
    <2>1. \A n \in Nat : n \in S
        BY <1>9, <1>10, NumberInduction
    <2>2. M - 1 \in Nat
        BY <1>2, <1>3
    <2>. QED
        BY <2>1, <2>2
<1>12. (M - 1) + 1 = M /\ M \in 1..M
    BY <1>2, <1>3
<1>13. C(M) = B(M)
    BY <1>11, <1>12 DEF S
<1>. QED
    BY <1>4, <1>13 DEF B, M

\* The row with the parent path has the parent's objects and its block.
LEMMA AttachedToParentInv ==
    ASSUME Undotted, Identified, OneWay
    PROVE  IInv => AttachedToParent
<1>. SUFFICES ASSUME IInv, NEW c \in children
              PROVE  c.parent = Ancestor(c.node, Len(c.node.objs) - 1)
    BY DEF AttachedToParent
<1>. DEFINE q == c.node
            p == c.parent
            L == Len(q.objs)
            a == Ancestor(q, L - 1)
<1>1. blocks \in Requests /\ depth \in Nat
    BY DEF IInv, Types
<1>2. q \in Assembled /\ p \in Assembled /\ Level(q) # 0 /\ Path(p) = parentPathOf(Path(q))
    BY DEF IInv, TreeInv
<1>3. q \in Fetched /\ p \in Fetched
    BY <1>2, AttachedFetched DEF Fetched
<1>. HIDE DEF q, p
<1>4. /\ q.objs \in Seq(Objects) /\ q = Row(q.block, q.objs) /\ L >= 2
      /\ q.block \in blocks /\ Chain(q.block, q.objs, Roots)
    BY <1>2, <1>3, FetchedRow DEF Level
<1>5. p.objs \in Seq(Objects) /\ p = Row(p.block, p.objs) /\ Len(p.objs) > 0
    BY <1>3, FetchedRow
<1>6. a.objs = SubSeq(q.objs, 1, L - 1) /\ a.block = BlockAt(q, L - 1) /\ a = Row(a.block, a.objs)
    BY DEF Ancestor, Row
<1>7. L \in Nat /\ L - 1 \in 1..L - 1 /\ L - 1 \in 0..L /\ L - 1 > 0
    BY <1>4
<1>8. a.objs \in Seq(Objects) /\ Len(a.objs) = L - 1 /\ \A k \in 1..L - 1 : a.objs[k] = q.objs[k]
    <2>. DEFINE v == SubSeq(q.objs, 1, L - 1)
    <2>1. v \in Seq(Objects) /\ Len(v) = L - 1 /\ \A k \in 1..L - 1 : v[k] = q.objs[k]
        BY <1>4, <1>7, Prefix
    <2>2. a.objs = v
        BY <1>6
    <2>. HIDE DEF v, a
    <2>. QED
        BY <2>1, <2>2
<1>. HIDE DEF a
<1>9. Path(a) = parentPathOf(Path(q))
    BY <1>4, <1>6, <1>7, AncestorPath
<1>10. p.objs = a.objs
    BY <1>2, <1>5, <1>7, <1>8, <1>9, PathsDiffer
<1>11. p.block = a.block
    <2>1. CASE p.block = <<>> /\ Len(p.objs) = 1
        <3>1. L - 1 = 1 /\ 1 \in 1..L /\ L \in Lengths(q.block)
            <4>1. L \in Lengths(q.block)
                BY <1>4 DEF Chain
            <4>2. L - 1 = 1
                BY <1>8, <1>10, <2>1
            <4>. HIDE DEF L
            <4>3. 1 \in 1..L
                BY <1>7, <4>2
            <4>. QED
                BY <4>1, <4>2, <4>3
        <3>2. BlockAt(Row(q.block, q.objs), 1) = <<>>
            BY <1>1, <1>4, <3>1, BlocksOfRow
        <3>. QED
            BY <1>4, <1>6, <2>1, <3>1, <3>2
    <2>2. CASE p.block \in blocks /\ Chain(p.block, p.objs, Roots)
        <3>1. Len(p.objs) = L - 1 /\ \A k \in 1..Len(p.objs) : p.objs[k] = q.objs[k]
            BY <1>8, <1>10
        <3>2. p.block = BlockAt(Row(q.block, q.objs), Len(p.objs))
            <4>. DEFINE b == q.block
                        s == q.objs
                        d == p.block
                        u == p.objs
            <4>1. /\ b \in blocks /\ d \in blocks /\ s \in Seq(Objects) /\ u \in Seq(Objects)
                  /\ Chain(b, s, Roots) /\ Chain(d, u, Roots)
                  /\ Len(u) = Len(s) - 1 /\ \A k \in 1..Len(u) : u[k] = s[k]
                BY <1>4, <1>5, <2>2, <3>1
            <4>. HIDE DEF b, s, d, u
            <4>2. d = BlockAt(Row(b, s), Len(u))
                BY <4>1, SameBlocks
            <4>. QED
                BY <4>2 DEF b, s, d, u
        <3>. QED
            BY <1>4, <1>6, <3>1, <3>2
    <2>. QED
        BY <1>3, <2>1, <2>2, FetchedRow
<1>. QED
    BY <1>5, <1>6, <1>10, <1>11 DEF p, q, a

\* AssembleTree, which has only paths, puts every related object below the very
\* row it was joined from, along transitive relations too: names have no dots,
\* the objects are of one cluster, and the relations of a block lead to
\* different objects.
THEOREM AttachedToParentCorrect ==
    Undotted /\ Identified /\ OneWay => (Spec => []AttachedToParent)
<1>. SUFFICES ASSUME Undotted, Identified, OneWay
              PROVE  Spec => []AttachedToParent
    OBVIOUS
<1>1. Init => IInv
    BY InitInv
<1>2. IInv /\ [Next]_vars => IInv'
    BY StepInv
<1>3. IInv => AttachedToParent
    BY AttachedToParentInv
<1>. QED
    BY <1>1, <1>2, <1>3, PTL DEF Spec

----------------------------------------------------------------------------
\* Completeness.

\* The smaller one of two numbers.
LEMMA MinIs ==
    ASSUME NEW m \in Nat, NEW n \in Nat
    PROVE  Min({m, n}) = IF m <= n THEN m ELSE n
<1>. DEFINE S == {m, n}
            k == IF m <= n THEN m ELSE n
<1>1. k \in S /\ \A y \in S : k <= y
    OBVIOUS
<1>2. \A x \in S : (\A y \in S : x <= y) => x = k
    OBVIOUS
<1>. HIDE DEF S, k
<1>3. Min(S) = k
    BY <1>1, <1>2 DEF Min
<1>. QED
    BY <1>3 DEF S, k

\* When all rows were read AssembleTree has a root node for every root object.
LEMMA RootCount ==
    ASSUME IInv, pc = "done", result = {}
    PROVE  Fetched = ToSet(flatRows) /\ Len(rootNodes) = Cardinality(Roots)
<1>1. /\ flatRows \in Seq(RowSpace) /\ index = Len(flatRows) /\ rootNodes \in Seq(RowSpace)
      /\ ToSet(rootNodes) = {r \in Assembled : Level(r) = 0}
      /\ \A i, j \in DOMAIN rootNodes : rootNodes[i] = rootNodes[j] => i = j
    BY DEF IInv, Types, TreeInv
<1>2. Assembled = ToSet(flatRows) /\ Fetched = ToSet(flatRows)
    BY <1>1 DEF Assembled, Fetched, ToSet
<1>. DEFINE N == Len(rootNodes)
            f == [i \in 1..N |-> rootNodes[i].objs[1]]
<1>3. N \in Nat /\ DOMAIN rootNodes = 1..N
    BY <1>1
<1>4. ASSUME NEW i \in 1..N
      PROVE  /\ rootNodes[i] \in Fetched /\ Level(rootNodes[i]) = 0
             /\ rootNodes[i] = Row(<<>>, <<rootNodes[i].objs[1]>>) /\ rootNodes[i].objs[1] \in Objects
    <2>. DEFINE r == rootNodes[i]
    <2>1. r \in Fetched /\ Level(r) = 0
        BY <1>1, <1>2, <1>3 DEF ToSet
    <2>. HIDE DEF r
    <2>2. r.objs \in Seq(Objects) /\ r = Row(r.block, r.objs) /\ r.block = <<>> /\ Len(r.objs) = 1
        BY <2>1, FetchedRow
    <2>3. r.objs = <<r.objs[1]>> /\ r.objs[1] \in Objects
        BY <2>2
    <2>. QED
        BY <2>1, <2>2, <2>3 DEF r
<1>5. f \in Seq(Objects) /\ Len(f) = N /\ DOMAIN f = 1..N
    <2>1. f \in [1..N -> Objects]
        BY <1>4
    <2>. HIDE DEF f, N
    <2>. QED
        BY <1>3, <2>1
<1>6. \A i, j \in DOMAIN f : f[i] = f[j] => i = j
    <2>. SUFFICES ASSUME NEW i \in 1..N, NEW j \in 1..N, rootNodes[i].objs[1] = rootNodes[j].objs[1]
                  PROVE  i = j
        BY <1>5
    <2>1. rootNodes[i] = rootNodes[j]
        BY <1>4
    <2>. QED
        BY <1>1, <1>3, <2>1
<1>7. ToSet(f) = Roots
    <2>1. ASSUME NEW o \in ToSet(f) PROVE o \in Roots
        <3>1. PICK i \in 1..N : o = rootNodes[i].objs[1]
            BY <1>5 DEF ToSet
        <3>. QED
            BY <1>4, <3>1 DEF Roots
    <2>2. ASSUME NEW o \in Roots PROVE o \in ToSet(f)
        <3>1. PICK r \in Fetched : Level(r) = 0 /\ r.objs[1] = o
            BY DEF Roots
        <3>2. r \in ToSet(rootNodes)
            BY <1>1, <1>2, <3>1
        <3>3. PICK i \in 1..N : rootNodes[i] = r
            BY <1>3, <3>2 DEF ToSet
        <3>4. f[i] = o /\ i \in DOMAIN f
            BY <1>5, <3>1, <3>3
        <3>. QED
            BY <3>4 DEF ToSet
    <2>. QED
        BY <2>1, <2>2
<1>. HIDE DEF f
<1>8. Cardinality(ToSet(f)) = Len(f)
    BY <1>5, <1>6, Counted
<1>. QED
    BY <1>2, <1>5, <1>7, <1>8

\* With all rows read and fewer roots than the limit, nothing was left out.
LEMMA CompleteUnlessFlaggedInv ==
    ASSUME Undotted, LimitsAtBottom, AllShallow
    PROVE  IInv => CompleteUnlessFlagged
<1>. SUFFICES ASSUME IInv PROVE CompleteUnlessFlagged
    OBVIOUS
<1>. DEFINE Free(S) == {r \in S : Level(r) = 0 \/ RelLimit[r.block] = 0 \/ BelowTransitive(r.block)}
<1>. SUFFICES ASSUME pc = "done", ~incomplete
              PROVE  Free(Returned) = Free(Everything)
    BY DEF CompleteUnlessFlagged
<1>1. blocks \in Requests /\ depth \in Nat /\ limit \in Nat
    BY DEF IInv, Types
<1>2. result = {} /\ Len(rootNodes) # limit
    BY DEF IInv, ScanInv, TreeInv
<1>3. Fetched = ToSet(flatRows) /\ Len(rootNodes) = Cardinality(Roots)
    BY <1>2, RootCount
<1>4. /\ Executing /\ subqueries = {} /\ Roots \subseteq Matches
      /\ Cardinality(Roots) = Min({limit, Cardinality(Matches)})
    BY DEF IInv, RowsInv, Executing
<1>5. IsFiniteSet(Matches) /\ Cardinality(Matches) \in Nat
    BY QueryAssumption, FS_Subset, FS_CardinalityType
<1>6. Cardinality(Roots) = Cardinality(Matches)
    BY <1>1, <1>2, <1>3, <1>4, <1>5, MinIs
<1>7. Roots = Matches
    BY <1>4, <1>5, <1>6, FS_Subset
<1>8. Returned \subseteq Everything
    BY OnlyWantedInv DEF OnlyWanted
<1>9. Fetched \cap Everything \subseteq Returned
    BY <1>3, NothingReadIsLostInv DEF NothingReadIsLost
<1>10. Wanted = Generated
    BY <1>1 DEF Wanted, Generated, AllShallow
<1>11. ASSUME NEW r \in Free(Everything) PROVE r \in Fetched
    <2>1. CASE \E o \in Matches : r = Row(<<>>, <<o>>)
        BY <1>7, <2>1, RootFetched
    <2>2. CASE /\ r.block \in Wanted /\ r.objs \in Seq(Objects) /\ r = Row(r.block, r.objs)
               /\ Chain(r.block, r.objs, Matches) /\ Len(r.objs) >= 2
               /\ \A n \in 2..Len(r.objs) : r.objs[n] \in Admits[BlockAt(r, n)]
        <3>. DEFINE b == r.block
                    s == r.objs
        <3>1. b \in blocks /\ b \in Generated \ subqueries
            BY <1>4, <1>10, <2>2 DEF Wanted
        <3>2. b \in Seq(Names) /\ Len(b) \in Nat /\ Len(b) > 0
            BY <1>1, <3>1, BlockShape
        <3>3. Len(s) \in Nat /\ Len(s) \in 1..Len(s) /\ Len(s) \in 2..Len(s) /\ Len(s) \in Lengths(b)
            BY <2>2 DEF Chain
        <3>4. BlockAt(Row(b, s), Len(s)) = b
            BY <1>1, <2>2, <3>1, <3>3, BlocksOfRow
        <3>5. Last(s) \in Admits[b]
            BY <2>2, <3>3, <3>4 DEF Last
        <3>6. r \in JoinChains(b, Roots)
            BY <1>1, <1>7, <2>2, <3>2, ChainsAre
        <3>7. r \in BlockRows(b, Roots)
            BY <3>5, <3>6 DEF BlockRows
        <3>8. Unlimited(b)
            BY <1>11, <3>2 DEF Unlimited, Level
        <3>. QED
            BY <1>4, <3>1, <3>7, <3>8 DEF IInv, RowsInv
    <2>. QED
        BY <1>1, <2>1, <2>2, EverythingIs
<1>. QED
    BY <1>8, <1>9, <1>11

\* A response without status.Incomplete (executeWithRelations) lacks nothing,
\* whether the root limit or MaxTotalRows applied, but for blocks that have a
\* limit of their own; it holds nothing else either.  Names have no dots, only
\* blocks at the bottom have a limit, and below a transitive block are plain
\* ones on one level.
THEOREM CompleteUnlessFlaggedCorrect ==
    Undotted /\ LimitsAtBottom /\ AllShallow => (Spec => []CompleteUnlessFlagged)
<1>. SUFFICES ASSUME Undotted, LimitsAtBottom, AllShallow
              PROVE  Spec => []CompleteUnlessFlagged
    OBVIOUS
<1>1. Init => IInv
    BY InitInv
<1>2. IInv /\ [Next]_vars => IInv'
    BY StepInv
<1>3. IInv => CompleteUnlessFlagged
    BY CompleteUnlessFlaggedInv
<1>. QED
    BY <1>1, <1>2, <1>3, PTL DEF Spec

=============================================================================
