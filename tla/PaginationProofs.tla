-------------------------- MODULE PaginationProofs --------------------------
(***************************************************************************)
(* Proofs about Pagination, for every table, every page size and every     *)
(* number of changes between the statements of a client: what the pages a  *)
(* client joins together hold, for each order that a cursor can follow.    *)
(***************************************************************************)
EXTENDS Pagination, FiniteSetTheorems, WellFoundedInduction, TLAPS

----------------------------------------------------------------------------
\* A set of numbers has a least one.
LEMMA LeastNumber ==
    ASSUME NEW S \in SUBSET Nat, S # {}
    PROVE  \E m \in S : \A k \in S : m <= k
<1>1. IsWellFoundedOn(OpToRel(<, Nat), Nat)
    BY NatLessThanWellFounded
<1>. DEFINE R == OpToRel(<, Nat)
<1>2. \A x, y \in Nat : x < y => <<x, y>> \in R
    BY DEF OpToRel
<1>. HIDE DEF R
<1>3. PICK m \in S : \A k \in S : ~(<<k, m>> \in R)
    BY <1>1, WFMin DEF R
<1>4. ASSUME NEW k \in S PROVE ~(k < m)
    BY <1>2, <1>3, Zenon
<1>5. ASSUME NEW k \in S PROVE m <= k
    <2>1. k \in Nat /\ m \in Nat /\ ~(k < m)
        BY <1>4
    <2>. QED
        BY <2>1
<1>. QED
    BY <1>5

----------------------------------------------------------------------------
\* The order of the statement.

Column(k) == OrderFields[k].field

\* The columns are numbers, ascending, and end with what tells rows apart.
LEMMA OrderColumns ==
    ASSUME Orderly, order \in Orders
    PROVE  /\ Len(OrderFields) \in Nat /\ DOMAIN OrderFields = 1..Len(OrderFields)
           /\ Len(OrderFields) > 0
           /\ \A k \in DOMAIN OrderFields : /\ ~OrderFields[k].desc
                                            /\ \A r \in Rows : r[Column(k)] \in Nat
           /\ \E k \in DOMAIN OrderFields : Column(k) = "namespace"
           /\ \E k \in DOMAIN OrderFields : Column(k) = "name"
<1>. DEFINE Key == [field : ValidSortFields, desc : {FALSE}]
            Good(o) == /\ o \in Seq(Key)
                       /\ \A k \in DOMAIN o, r \in Rows : r[o[k].field] \in Nat
<1>1. ASSUME NEW f \in {"namespace", "name"}
      PROVE  Field(f) \in Key /\ Field(f).field = f /\ \A r \in Rows : r[f] \in Nat
    <2>1. \A r \in Rows : r[f] \in Nat
        BY DEF Orderly
    <2>2. f \in ValidSortFields /\ Field(f) = [field |-> f, desc |-> FALSE]
        BY DEF Field, ValidSortFields
    <2>3. Field(f) \in Key
        BY <2>2
    <2>. QED
        BY <2>1, <2>2, <2>3
<1>2. ASSUME NEW o, Good(o), NEW f \in {"namespace", "name"}
      PROVE  /\ Good(Append(o, Field(f))) /\ OrderedBy(Append(o, Field(f)), f)
             /\ \A g : OrderedBy(o, g) => OrderedBy(Append(o, Field(f)), g)
    <2>. DEFINE a == Append(o, Field(f))
    <2>1. /\ o \in Seq(Key) /\ a \in Seq(Key) /\ Len(o) \in Nat /\ Len(a) = Len(o) + 1
          /\ DOMAIN o = 1..Len(o) /\ DOMAIN a = 1..Len(o) + 1
          /\ \A k \in 1..Len(o) : a[k] = o[k]
          /\ a[Len(o) + 1] = Field(f)
        <3>1. o \in Seq(Key) /\ Field(f) \in Key
            BY <1>1, <1>2
        <3>. HIDE DEF Key
        <3>. QED
            BY <3>1
    <2>2. \A k \in DOMAIN a : k \in DOMAIN o \/ k = Len(o) + 1
        BY <2>1
    <2>3. \A k \in DOMAIN a, r \in Rows : r[a[k].field] \in Nat
        BY <1>1, <1>2, <2>1, <2>2
    <2>4. OrderedBy(a, f)
        BY <1>1, <2>1 DEF OrderedBy
    <2>5. ASSUME NEW g, OrderedBy(o, g) PROVE OrderedBy(a, g)
        BY <2>1, <2>5 DEF OrderedBy
    <2>. QED
        BY <2>1, <2>3, <2>4, <2>5
<1>. DEFINE base == IF order = <<>> THEN <<Field("name")>> ELSE order
            wide == IF OrderedBy(base, "namespace") THEN base
                    ELSE Append(base, Field("namespace"))
<1>3. Good(base)
    <2>1. Good(order)
        BY DEF Orderly
    <2>2. Good(<<Field("name")>>)
        <3>1. Field("name") \in Key /\ Field("name").field = "name"
              /\ \A r \in Rows : r["name"] \in Nat
            BY <1>1
        <3>2. ASSUME NEW x \in Key PROVE <<x>> \in Seq(Key) /\ DOMAIN <<x>> = {1} /\ <<x>>[1] = x
            <4>. HIDE DEF Key
            <4>. QED
                OBVIOUS
        <3>3. /\ <<Field("name")>> \in Seq(Key) /\ DOMAIN <<Field("name")>> = {1}
              /\ <<Field("name")>>[1] = Field("name")
            BY <3>1, <3>2
        <3>4. ASSUME NEW k \in DOMAIN <<Field("name")>>, NEW r \in Rows
              PROVE  r[(<<Field("name")>>[k]).field] \in Nat
            BY <3>1, <3>3
        <3>. QED
            BY <3>3, <3>4
    <2>. QED
        BY <2>1, <2>2
<1>. HIDE DEF base, Good
<1>4. Good(wide) /\ OrderedBy(wide, "namespace")
    BY <1>2, <1>3
<1>5. OrderFields = IF OrderedBy(wide, "name") THEN wide ELSE Append(wide, Field("name"))
    BY DEF OrderFields, Tiebroken, base
<1>. HIDE DEF wide
<1>6. Good(OrderFields) /\ OrderedBy(OrderFields, "namespace") /\ OrderedBy(OrderFields, "name")
    BY <1>2, <1>4, <1>5
<1>7. OrderFields \in Seq(Key)
    BY <1>6 DEF Good
<1>8. /\ Len(OrderFields) \in Nat /\ DOMAIN OrderFields = 1..Len(OrderFields)
      /\ \A k \in DOMAIN OrderFields : ~OrderFields[k].desc
    <2>1. \A x \in Key : ~x.desc
        OBVIOUS
    <2>. HIDE DEF Key
    <2>2. /\ Len(OrderFields) \in Nat /\ DOMAIN OrderFields = 1..Len(OrderFields)
          /\ \A k \in DOMAIN OrderFields : OrderFields[k] \in Key
        BY <1>7
    <2>. QED
        BY <2>1, <2>2
<1>9. \A k \in DOMAIN OrderFields, r \in Rows : r[Column(k)] \in Nat
    BY <1>6 DEF Good, Column
<1>10. /\ \E k \in DOMAIN OrderFields : Column(k) = "namespace"
       /\ \E k \in DOMAIN OrderFields : Column(k) = "name"
    <2>1. OrderedBy(OrderFields, "namespace") /\ OrderedBy(OrderFields, "name")
        BY <1>6
    <2>. QED
        BY <2>1 DEF OrderedBy, Column
<1>11. Len(OrderFields) > 0
    BY <1>8, <1>10
<1>. QED
    BY <1>8, <1>9, <1>10, <1>11

\* r and s agree up to column k, where r is smaller.
Differ(r, s, k) ==
    /\ \A j \in 1..k - 1 : r[Column(j)] = s[Column(j)]
    /\ r[Column(k)] < s[Column(k)]

\* ORDER BY and the comparison with the cursor are the same order.
LEMMA OneOrder ==
    ASSUME Orderly, order \in Orders
    PROVE  /\ \A r, s : OrderedBefore(r, s) <=> \E k \in DOMAIN OrderFields : Differ(r, s, k)
           /\ \A r : AfterCursor(r) <=> cursor = NoCursor \/ OrderedBefore(cursor, r)
<1>1. \A k \in DOMAIN OrderFields : ~OrderFields[k].desc
    BY OrderColumns
<1>2. ~OrderFields[1].desc
    BY <1>1, OrderColumns
<1>3. ASSUME NEW r, NEW s
      PROVE  OrderedBefore(r, s) <=> \E k \in DOMAIN OrderFields : Differ(r, s, k)
    BY <1>1 DEF OrderedBefore, FirstDifference, Sorted, Differ, Column
<1>4. ASSUME NEW r
      PROVE  AfterCursor(r) <=> cursor = NoCursor \/ \E k \in DOMAIN OrderFields : Differ(cursor, r, k)
    BY <1>2 DEF AfterCursor, FirstDifference, Compared, Differ, Column
<1>. QED
    BY <1>3, <1>4

\* The comparison with a row is that order, too.
LEMMA CursorOrder ==
    ASSUME Orderly, order \in Orders
    PROVE  \A c, r : FirstDifference(c, r, Compared) <=> OrderedBefore(c, r)
<1>1. \A k \in DOMAIN OrderFields : ~OrderFields[k].desc
    BY OrderColumns
<1>2. ~OrderFields[1].desc
    BY <1>1, OrderColumns
<1>. QED
    BY <1>1, <1>2 DEF OrderedBefore, FirstDifference, Sorted, Compared

\* It is a strict total order of the rows.
LEMMA TotalOrder ==
    ASSUME Orderly, order \in Orders
    PROVE  /\ \A r \in Rows : ~OrderedBefore(r, r)
           /\ \A r, s, t \in Rows : OrderedBefore(r, s) /\ OrderedBefore(s, t) => OrderedBefore(r, t)
           /\ \A r, s \in Rows : r = s \/ OrderedBefore(r, s) \/ OrderedBefore(s, r)
<1>. DEFINE D == DOMAIN OrderFields
<1>0. /\ D \subseteq Nat /\ \A k \in D : k > 0 /\ \A j \in 1..k - 1 : j \in D
      /\ \A k \in D, r \in Rows : r[Column(k)] \in Nat
    BY OrderColumns
<1>00. \A r, s : OrderedBefore(r, s) <=> \E k \in D : Differ(r, s, k)
    BY OneOrder
<1>. HIDE DEF D
<1>1. ASSUME NEW r \in Rows PROVE ~OrderedBefore(r, r)
    BY <1>0, <1>00 DEF Differ
<1>2. ASSUME NEW r \in Rows, NEW s \in Rows, NEW t \in Rows,
             OrderedBefore(r, s), OrderedBefore(s, t)
      PROVE  OrderedBefore(r, t)
    <2>1. PICK k \in D : Differ(r, s, k)
        BY <1>00, <1>2
    <2>2. PICK l \in D : Differ(s, t, l)
        BY <1>00, <1>2
    <2>3. k \in Nat /\ l \in Nat /\ k > 0 /\ l > 0
        BY <1>0
    <2>4. CASE k <= l
        <3>1. r[Column(k)] < t[Column(k)]
            <4>1. k = l \/ k \in 1..l - 1
                BY <2>3, <2>4
            <4>2. s[Column(k)] <= t[Column(k)]
                BY <1>0, <2>2, <4>1 DEF Differ
            <4>. QED
                BY <1>0, <2>1, <4>2 DEF Differ
        <3>2. \A j \in 1..k - 1 : j \in 1..l - 1
            BY <2>3, <2>4
        <3>3. Differ(r, t, k)
            BY <2>1, <2>2, <3>1, <3>2 DEF Differ
        <3>. QED
            BY <1>00, <3>3
    <2>5. CASE l < k
        <3>1. l \in 1..k - 1 /\ \A j \in 1..l - 1 : j \in 1..k - 1
            BY <2>3, <2>5
        <3>2. Differ(r, t, l)
            BY <2>1, <2>2, <3>1 DEF Differ
        <3>. QED
            BY <1>00, <3>2
    <2>. QED
        BY <2>3, <2>4, <2>5
<1>3. ASSUME NEW r \in Rows, NEW s \in Rows, r # s
      PROVE  OrderedBefore(r, s) \/ OrderedBefore(s, r)
    <2>. DEFINE M == {k \in D : r[Column(k)] # s[Column(k)]}
    <2>1. M # {} /\ M \in SUBSET Nat
        <3>1. r["namespace"] # s["namespace"] \/ r["name"] # s["name"]
            BY <1>3 DEF Orderly
        <3>2. /\ \E k \in D : Column(k) = "namespace"
              /\ \E k \in D : Column(k) = "name"
            BY OrderColumns DEF D
        <3>. QED
            BY <1>0, <3>1, <3>2
    <2>2. PICK m \in M : \A k \in M : m <= k
        BY <2>1, LeastNumber
    <2>3. m \in D /\ m \in Nat /\ r[Column(m)] # s[Column(m)]
        BY <1>0, <2>2
    <2>4. \A j \in 1..m - 1 : r[Column(j)] = s[Column(j)]
        <3>. SUFFICES ASSUME NEW j \in 1..m - 1, r[Column(j)] # s[Column(j)] PROVE FALSE
            OBVIOUS
        <3>1. j \in M /\ j \in Nat /\ j < m
            BY <1>0, <2>3
        <3>2. m <= j
            BY <2>2, <3>1
        <3>. QED
            BY <2>3, <3>1, <3>2
    <2>5. Differ(r, s, m) \/ Differ(s, r, m)
        BY <1>0, <2>3, <2>4 DEF Differ
    <2>. QED
        BY <1>00, <2>3, <2>5
<1>. QED
    BY <1>1, <1>2, <1>3

----------------------------------------------------------------------------
\* Ranks.

Below(S, x) == {r \in S : OrderedBefore(r, x)}
Above(S, x) == {r \in S : OrderedBefore(x, r)}
Rank(S, x)  == Cardinality(Below(S, x))

\* Sets of rows are finite.
LEMMA RowSets ==
    ASSUME NEW S \in SUBSET Rows
    PROVE  IsFiniteSet(S) /\ Cardinality(S) \in Nat
BY PaginationAssumption, FS_Subset, FS_CardinalityType

\* A row is above its rank and below the rest.
LEMMA RankCounts ==
    ASSUME Orderly, order \in Orders, NEW S \in SUBSET Rows, NEW x \in S
    PROVE  /\ Rank(S, x) \in Nat /\ Cardinality(Above(S, x)) \in Nat
           /\ Cardinality(S) = Rank(S, x) + 1 + Cardinality(Above(S, x))
<1>. DEFINE B == Below(S, x)
            A == Above(S, x)
<1>1. B \in SUBSET Rows /\ A \in SUBSET Rows
    BY DEF Below, Above
<1>2. /\ IsFiniteSet(B) /\ Cardinality(B) \in Nat
      /\ IsFiniteSet(A) /\ Cardinality(A) \in Nat
    BY <1>1, RowSets
<1>3. x \notin B /\ B \cup {x} \cup A = S
    BY TotalOrder DEF Below, Above
<1>4. (B \cup {x}) \cap A = {}
    BY TotalOrder DEF Below, Above
<1>. HIDE DEF A, B
<1>5. IsFiniteSet(B \cup {x}) /\ Cardinality(B \cup {x}) = Cardinality(B) + 1
    BY <1>2, <1>3, FS_AddElement
<1>6. Cardinality((B \cup {x}) \cup A)
         = Cardinality(B \cup {x}) + Cardinality(A) - Cardinality((B \cup {x}) \cap A)
    BY <1>2, <1>5, FS_Union
<1>7. Cardinality({}) = 0
    BY FS_EmptySet
<1>8. Cardinality(S) = Cardinality(B) + 1 + Cardinality(A)
    <2>1. Cardinality((B \cup {x}) \cap A) = 0
        BY <1>4, <1>7
    <2>2. Cardinality((B \cup {x}) \cup A) = Cardinality(B) + 1 + Cardinality(A)
        BY <1>2, <1>5, <1>6, <2>1
    <2>. QED
        BY <1>3, <2>2
<1>. QED
    BY <1>2, <1>8 DEF Rank, A, B

\* Ranks follow the order.
LEMMA RankOrder ==
    ASSUME Orderly, order \in Orders, NEW S \in SUBSET Rows, NEW x \in S, NEW y \in S
    PROVE  /\ OrderedBefore(x, y) <=> Rank(S, x) < Rank(S, y)
           /\ x = y <=> Rank(S, x) = Rank(S, y)
<1>1. ASSUME NEW a \in S, NEW b \in S, OrderedBefore(a, b) PROVE Rank(S, a) < Rank(S, b)
    <2>1. Below(S, a) \subseteq Below(S, b) /\ a \in Below(S, b) /\ a \notin Below(S, a)
        BY <1>1, TotalOrder DEF Below
    <2>2. Below(S, b) \in SUBSET Rows /\ IsFiniteSet(Below(S, b))
        BY RowSets DEF Below
    <2>3. /\ Cardinality(Below(S, a)) <= Cardinality(Below(S, b))
          /\ Cardinality(Below(S, a)) # Cardinality(Below(S, b))
        BY <2>1, <2>2, FS_Subset
    <2>. QED
        BY <2>3, RankCounts DEF Rank
<1>2. Rank(S, x) \in Nat /\ Rank(S, y) \in Nat
    BY RankCounts
<1>3. x = y \/ OrderedBefore(x, y) \/ OrderedBefore(y, x)
    BY TotalOrder
<1>. QED
    BY <1>1, <1>2, <1>3

\* The rows after the cursor.
After == {r \in table : AfterCursor(r)}

\* A page holds, in order, the rows whose ranks follow those skipped, up to
\* the limit or the end.
LEMMA PageRanks ==
    ASSUME Orderly, order \in Orders, table \in SUBSET Rows, first \in Nat, NEW p \in Pages
    PROVE  /\ After \in SUBSET Rows /\ p \in Seq(After) /\ p \in Seq(Rows)
           /\ Len(p) \in Nat /\ DOMAIN p = 1..Len(p) /\ Len(p) <= Limit
           /\ \/ Len(p) = Limit
              \/ Cardinality(After) = first + Len(p)
              \/ Cardinality(After) <= first /\ Len(p) = 0
           /\ \A k \in 1..Len(p) : p[k] \in After /\ Rank(After, p[k]) = first + k - 1
<1>. DEFINE n == PageSize(Cardinality(After))
<1>1. After \in SUBSET Rows /\ Cardinality(After) \in Nat
    BY RowSets DEF After
<1>2. Limit \in Nat /\ Limit > 0
    BY PaginationAssumption
<1>3. /\ n \in Nat /\ n <= Limit
      /\ n > 0 => first + n <= Cardinality(After)
      /\ \/ n = Limit
         \/ Cardinality(After) = first + n
         \/ Cardinality(After) <= first /\ n = 0
    BY <1>1, <1>2 DEF PageSize
<1>4. /\ p \in [1..n -> After]
      /\ \A k \in 1..n :
            /\ Cardinality(Below(After, p[k])) <= first + k - 1
            /\ Cardinality(Above(After, p[k])) <= Cardinality(After) - (first + k)
    BY DEF Pages, After, Below, Above
<1>. HIDE DEF n
<1>5. /\ p \in Seq(After) /\ Len(p) = n /\ DOMAIN p = 1..Len(p)
    BY <1>3, <1>4
<1>6. p \in Seq(Rows)
    BY <1>1, <1>3, <1>4
<1>7. ASSUME NEW k \in 1..n PROVE p[k] \in After /\ Rank(After, p[k]) = first + k - 1
    <2>1. p[k] \in After
        BY <1>4
    <2>2. /\ Rank(After, p[k]) \in Nat /\ Cardinality(Above(After, p[k])) \in Nat
          /\ Cardinality(After) = Rank(After, p[k]) + 1 + Cardinality(Above(After, p[k]))
        BY <1>1, <2>1, RankCounts
    <2>3. /\ Rank(After, p[k]) <= first + k - 1
          /\ Cardinality(Above(After, p[k])) <= Cardinality(After) - (first + k)
        BY <1>4 DEF Rank
    <2>. QED
        BY <1>1, <1>3, <2>1, <2>2, <2>3
<1>. QED
    BY <1>1, <1>3, <1>5, <1>6, <1>7

----------------------------------------------------------------------------
\* The inductive invariant.

Has(r) == \E k \in DOMAIN returned : returned[k] = r

\* The last page of a reading was not full.
Ended == pc = "done" \/ (pc = "counting" /\ Len(page) # Limit)

Types ==
    /\ order \in Orders
    /\ table \in SUBSET Rows /\ stable \subseteq table
    /\ cursor \in Rows \cup {NoCursor}
    /\ first \in Nat /\ changes \in Nat
    /\ page \in Seq(Rows) /\ returned \in Seq(Rows)
    /\ pc \in {"reading", "counting", "done"}

\* The table differs from what has been there all the time by no more rows
\* than were changed.
CountBound == Cardinality(table) <= Cardinality(stable) + changes

\* With a cursor: what was returned is in order and ends at the cursor, and
\* what was there all the time is either returned or still ahead.
ByCursor ==
    mode # "offset" =>
        /\ first = 0
        /\ returned = <<>> <=> cursor = NoCursor
        /\ returned # <<>> => cursor = returned[Len(returned)]
        /\ \A j, k \in DOMAIN returned : j < k => OrderedBefore(returned[j], returned[k])
        /\ \A r \in stable : Has(r) \/ AfterCursor(r)
        /\ Ended => \A r \in stable : Has(r)

\* With offsets, on a table at rest: the k-th row returned has rank k - 1.
ByOffset ==
    mode = "offset" /\ changes = 0 =>
        /\ table = stable /\ cursor = NoCursor
        /\ \A k \in DOMAIN returned : returned[k] \in table /\ Rank(table, returned[k]) = k - 1
        /\ pc = "reading" => first = Len(returned)
        /\ pc = "counting" => first + Len(page) = Len(returned)
        /\ Ended => Len(returned) = Cardinality(table)

IInv == Types /\ CountBound /\ CountIsTotal /\ ByCursor /\ ByOffset

----------------------------------------------------------------------------
\* What a page is, whatever the order: rows of the table.
LEMMA PageRows ==
    ASSUME table \in SUBSET Rows, first \in Nat, NEW p \in Pages
    PROVE  /\ p \in Seq(Rows) /\ Len(p) \in Nat /\ DOMAIN p = 1..Len(p)
           /\ p # <<>> => Len(p) > 0 /\ p[Len(p)] \in Rows
<1>. DEFINE n == PageSize(Cardinality(After))
<1>1. After \in SUBSET Rows /\ Cardinality(After) \in Nat
    BY RowSets DEF After
<1>2. n \in Nat
    BY <1>1, PaginationAssumption DEF PageSize
<1>3. p \in [1..n -> After]
    BY DEF Pages, After
<1>. HIDE DEF n
<1>4. p \in Seq(Rows)
    BY <1>1, <1>2, <1>3
<1>. QED
    BY <1>4

\* Two sequences of rows joined.
LEMMA Joined ==
    ASSUME NEW a \in Seq(Rows), NEW b \in Seq(Rows)
    PROVE  /\ a \o b \in Seq(Rows) /\ Len(a) \in Nat /\ Len(b) \in Nat
           /\ Len(a \o b) = Len(a) + Len(b)
           /\ DOMAIN a = 1..Len(a) /\ DOMAIN b = 1..Len(b)
           /\ DOMAIN (a \o b) = 1..Len(a) + Len(b)
           /\ \A k \in DOMAIN a : k \in DOMAIN (a \o b) /\ (a \o b)[k] = a[k]
           /\ \A i \in DOMAIN b : Len(a) + i \in DOMAIN (a \o b) /\ (a \o b)[Len(a) + i] = b[i]
           /\ \A k \in DOMAIN (a \o b) :
                 k \in DOMAIN a \/ (k - Len(a) \in DOMAIN b /\ k = Len(a) + (k - Len(a)))
OBVIOUS

\* The order depends on the query alone.
LEMMA OrderStays ==
    ASSUME order' = order
    PROVE  /\ \A r, s : OrderedBefore(r, s)' <=> OrderedBefore(r, s)
           /\ \A S, r : Rank(S, r)' = Rank(S, r)
<1>1. OrderFields' = OrderFields
    BY DEF OrderFields
<1>2. \A r, s : OrderedBefore(r, s)' <=> OrderedBefore(r, s)
    BY <1>1 DEF OrderedBefore, FirstDifference, Sorted
<1>. QED
    BY <1>2 DEF Rank, Below

----------------------------------------------------------------------------
\* The count.

CountInv == Types /\ CountBound /\ CountIsTotal

\* At the first request.
LEMMA CountInit ==
    ASSUME Init
    PROVE  CountInv
<1>1. Types
    BY DEF Init, Types
<1>2. CountBound
    <2>1. Cardinality(table) \in Nat
        BY <1>1, RowSets DEF Types
    <2>. QED
        BY <2>1 DEF Init, CountBound
<1>. QED
    BY <1>1, <1>2 DEF Init, CountInv, CountIsTotal

\* A change of the table moves both of its bounds by at most one row.
LEMMA ChangeBounds ==
    ASSUME NEW T \in SUBSET Rows, NEW S \in SUBSET T, NEW r \in Rows
    PROVE  /\ Cardinality(S) \in Nat /\ Cardinality(S \ {r}) \in Nat
           /\ Cardinality(S) <= Cardinality(T)
           /\ Cardinality(S \ {r}) <= Cardinality(S)
           /\ Cardinality(S) <= Cardinality(S \ {r}) + 1
           /\ Cardinality(T) \in Nat /\ Cardinality(T \ {r}) \in Nat
           /\ Cardinality(T \cup {r}) \in Nat
           /\ r \in T /\ r \in S =>
                 Cardinality(T) = Cardinality(T \ {r}) + 1 /\ Cardinality(S) = Cardinality(S \ {r}) + 1
           /\ Cardinality(T \ {r}) <= Cardinality(T)
           /\ r \notin S => S \ {r} = S
           /\ Cardinality(T \cup {r}) <= Cardinality(T) + 1
<1>1. /\ IsFiniteSet(T) /\ IsFiniteSet(S) /\ Cardinality(S) \in Nat /\ Cardinality(T) \in Nat
      /\ Cardinality(S \ {r}) \in Nat /\ Cardinality(T \ {r}) \in Nat
      /\ Cardinality(T \cup {r}) \in Nat
    BY RowSets
<1>2. Cardinality(S) <= Cardinality(T)
    BY <1>1, FS_Subset
<1>3. Cardinality(T \ {r}) = IF r \in T THEN Cardinality(T) - 1 ELSE Cardinality(T)
    BY <1>1, FS_RemoveElement
<1>4. Cardinality(S \ {r}) = IF r \in S THEN Cardinality(S) - 1 ELSE Cardinality(S)
    BY <1>1, FS_RemoveElement
<1>5. Cardinality(T \cup {r}) = IF r \in T THEN Cardinality(T) ELSE Cardinality(T) + 1
    BY <1>1, FS_AddElement
<1>. QED
    BY <1>1, <1>2, <1>3, <1>4, <1>5

\* Every step keeps the count within its bounds.
LEMMA CountStep ==
    ASSUME CountInv, [Next]_vars
    PROVE  CountInv'
<1>. USE DEF CountInv
<1>1. CASE ReadPage
    <2>1. /\ page' \in Pages /\ returned' = returned \o page'
          /\ cursor' = IF mode = "offset" \/ page' = <<>> THEN cursor ELSE page'[Len(page')]
          /\ pc' = "counting"
          /\ UNCHANGED <<mode, order, table, first, count, stable, changes>>
        BY <1>1 DEF ReadPage
    <2>2. /\ page' \in Seq(Rows)
          /\ page' # <<>> => page'[Len(page')] \in Rows
        BY <2>1, PageRows DEF Types
    <2>3. returned' \in Seq(Rows)
        BY <2>1, <2>2, Joined DEF Types
    <2>4. Types'
        BY <2>1, <2>2, <2>3 DEF Types
    <2>. QED
        BY <2>1, <2>4 DEF CountBound, CountIsTotal
<1>2. CASE CountRows
    <2>1. Types'
        BY <1>2, PaginationAssumption DEF CountRows, Types
    <2>2. Cardinality(stable) \in Nat /\ Cardinality(table) \in Nat
          /\ Cardinality(stable) <= Cardinality(table)
        <3>1. IsFiniteSet(table) /\ Cardinality(table) \in Nat
            BY RowSets DEF Types
        <3>2. stable \in SUBSET table
            BY DEF Types
        <3>3. Cardinality(stable) <= Cardinality(table) /\ IsFiniteSet(stable)
            BY <3>1, <3>2, FS_Subset
        <3>. QED
            BY <3>1, <3>3, FS_CardinalityType
    <2>3. count' \in Cardinality(stable)..Cardinality(stable) + changes
        BY <1>2, <2>2 DEF CountRows, Total, CountBound, Types
    <2>. QED
        BY <1>2, <2>1, <2>3 DEF CountRows, CountBound, CountIsTotal
<1>3. ASSUME NEW r \in Rows, ChangeTable(r) PROVE CountInv'
    <2>1. Types'
        BY <1>3 DEF ChangeTable, Types
    <2>2. /\ table \in SUBSET Rows /\ stable \in SUBSET table /\ changes \in Nat
          /\ changes' = changes + 1 /\ stable' = stable \ {r}
          /\ table' = IF r \in table THEN table \ {r} ELSE table \cup {r}
          /\ UNCHANGED <<count, pc, returned>>
        BY <1>3 DEF ChangeTable, Types
    <2>3. /\ Cardinality(stable) \in Nat /\ Cardinality(stable \ {r}) \in Nat
          /\ Cardinality(stable \ {r}) <= Cardinality(stable)
          /\ Cardinality(stable) <= Cardinality(stable \ {r}) + 1
          /\ Cardinality(table) \in Nat /\ Cardinality(table \ {r}) \in Nat
          /\ Cardinality(table \cup {r}) \in Nat
          /\ r \in table /\ r \in stable =>
                /\ Cardinality(table) = Cardinality(table \ {r}) + 1
                /\ Cardinality(stable) = Cardinality(stable \ {r}) + 1
          /\ Cardinality(table \ {r}) <= Cardinality(table)
          /\ r \notin stable => stable \ {r} = stable
          /\ Cardinality(table \cup {r}) <= Cardinality(table) + 1
        BY <2>2, ChangeBounds
    <2>4. Cardinality(table) <= Cardinality(stable) + changes
        BY DEF CountBound
    <2>5. CountBound'
        <3>1. CASE r \in table /\ r \in stable
            <4>1. /\ Cardinality(table') = Cardinality(table \ {r})
                  /\ Cardinality(stable') = Cardinality(stable \ {r})
                BY <2>2, <3>1
            <4>2. Cardinality(table \ {r}) <= Cardinality(stable \ {r}) + (changes + 1)
                BY <2>2, <2>3, <2>4, <3>1
            <4>. QED
                BY <2>2, <4>1, <4>2 DEF CountBound
        <3>2. CASE r \in table /\ r \notin stable
            <4>1. /\ Cardinality(table') = Cardinality(table \ {r})
                  /\ Cardinality(stable') = Cardinality(stable \ {r})
                BY <2>2, <3>2
            <4>2. Cardinality(table \ {r}) <= Cardinality(stable \ {r}) + (changes + 1)
                BY <2>2, <2>3, <2>4, <3>2
            <4>. QED
                BY <2>2, <4>1, <4>2 DEF CountBound
        <3>3. CASE r \notin table
            <4>1. r \notin stable
                BY <2>2, <3>3
            <4>. QED
                BY <2>2, <2>3, <2>4, <3>3, <4>1 DEF CountBound
        <3>. QED
            BY <3>1, <3>2, <3>3
    <2>6. CountIsTotal'
        BY <2>2, <2>3 DEF CountIsTotal
    <2>. QED
        BY <2>1, <2>5, <2>6
<1>4. CASE UNCHANGED vars
    BY <1>4 DEF vars, Types, CountBound, CountIsTotal
<1>. QED
    BY <1>1, <1>2, <1>3, <1>4 DEF Next

\* The count a response carries is off by no more rows than came and went:
\* for every order, with or without twins.
THEOREM CountIsTotalCorrect == Spec => []CountIsTotal
<1>1. CountInv => CountIsTotal
    BY DEF CountInv
<1>. QED
    BY CountInit, CountStep, <1>1, PTL DEF Spec

----------------------------------------------------------------------------
\* The pages.

\* At the first request nothing is returned and everything is ahead.
LEMMA PagesInit ==
    ASSUME Init
    PROVE  IInv
<1>1. Types /\ CountBound /\ CountIsTotal
    BY CountInit DEF CountInv
<1>2. ByCursor
    BY PaginationAssumption DEF Init, ByCursor, AfterCursor, Ended
<1>3. ByOffset
    BY PaginationAssumption DEF Init, ByOffset, Ended
<1>. QED
    BY <1>1, <1>2, <1>3 DEF IInv

\* A page read by cursor continues what was returned.
LEMMA ReadByCursor ==
    ASSUME Orderly, IInv, ReadPage, mode # "offset"
    PROVE  ByCursor'
<1>1. /\ order \in Orders /\ table \in SUBSET Rows /\ first \in Nat /\ first = 0
      /\ returned \in Seq(Rows) /\ stable \subseteq table /\ cursor \in Rows \cup {NoCursor}
      /\ NoCursor \notin Rows
    BY DEF IInv, Types, ByCursor, Orderly
<1>2. /\ returned = <<>> <=> cursor = NoCursor
      /\ returned # <<>> => cursor = returned[Len(returned)]
      /\ \A j, k \in DOMAIN returned : j < k => OrderedBefore(returned[j], returned[k])
      /\ \A r \in stable : Has(r) \/ AfterCursor(r)
    BY DEF IInv, ByCursor
<1>3. PICK p \in Pages : p = page'
    BY DEF ReadPage
<1>. DEFINE q == returned \o p
<1>4. /\ returned' = q /\ mode' = mode /\ order' = order /\ first' = first /\ stable' = stable
      /\ pc' = "counting"
      /\ cursor' = IF p = <<>> THEN cursor ELSE p[Len(p)]
    BY <1>3 DEF ReadPage
<1>5. /\ After \in SUBSET Rows /\ p \in Seq(Rows)
      /\ Len(p) \in Nat /\ DOMAIN p = 1..Len(p)
      /\ \/ Len(p) = Limit
         \/ Cardinality(After) = first + Len(p)
         \/ Cardinality(After) <= first /\ Len(p) = 0
      /\ \A k \in 1..Len(p) : p[k] \in After /\ Rank(After, p[k]) = first + k - 1
    BY <1>1, PageRanks
<1>6. /\ q \in Seq(Rows) /\ Len(returned) \in Nat
      /\ Len(q) = Len(returned) + Len(p)
      /\ DOMAIN returned = 1..Len(returned)
      /\ DOMAIN q = 1..Len(returned) + Len(p)
      /\ \A k \in DOMAIN returned : k \in DOMAIN q /\ q[k] = returned[k]
      /\ \A i \in DOMAIN p : Len(returned) + i \in DOMAIN q /\ q[Len(returned) + i] = p[i]
      /\ \A k \in DOMAIN q :
            k \in DOMAIN returned
              \/ (k - Len(returned) \in DOMAIN p /\ k = Len(returned) + (k - Len(returned)))
    BY <1>1, <1>5, Joined
<1>7. \A r \in After : cursor = NoCursor \/ OrderedBefore(cursor, r)
    BY <1>1, OneOrder DEF After
<1>8. p = <<>> <=> Len(p) = 0
    BY <1>5
<1>9. returned = <<>> <=> Len(returned) = 0
    BY <1>1
<1>. HIDE DEF q
<1>10. ASSUME NEW j \in DOMAIN q, NEW k \in DOMAIN q, j < k
       PROVE  OrderedBefore(q[j], q[k])
    <2>0. j \in Nat /\ k \in Nat
        BY <1>6
    <2>1. CASE k \in DOMAIN returned
        <3>1. j \in DOMAIN returned
            BY <1>5, <1>6, <1>10, <2>0, <2>1
        <3>. QED
            BY <1>2, <1>6, <1>10, <2>1, <3>1
    <2>2. CASE j \in DOMAIN returned /\ k \notin DOMAIN returned
        <3>1. PICK i \in DOMAIN p : k = Len(returned) + i
            BY <1>6, <2>2
        <3>2. q[k] = p[i] /\ p[i] \in After /\ q[j] = returned[j]
            BY <1>5, <1>6, <2>2, <3>1
        <3>3. returned # <<>> /\ cursor # NoCursor /\ cursor = returned[Len(returned)]
            BY <1>2, <1>6, <1>9, <2>2
        <3>4. OrderedBefore(cursor, p[i])
            BY <1>7, <3>2, <3>3
        <3>5. j = Len(returned) \/ j < Len(returned)
            BY <1>6, <2>0, <2>2
        <3>6. CASE j = Len(returned)
            BY <3>2, <3>3, <3>4, <3>6
        <3>7. CASE j < Len(returned)
            <4>1. Len(returned) \in DOMAIN returned
                BY <1>6, <2>0, <3>7
            <4>2. OrderedBefore(returned[j], cursor)
                BY <1>2, <2>2, <3>3, <3>7, <4>1
            <4>3. returned[j] \in Rows /\ cursor \in Rows /\ p[i] \in Rows
                BY <1>1, <1>5, <2>2, <3>2, <3>3
            <4>4. OrderedBefore(returned[j], p[i])
                BY <1>1, <3>4, <4>2, <4>3, TotalOrder
            <4>. QED
                BY <3>2, <4>4
        <3>. QED
            BY <3>5, <3>6, <3>7
    <2>3. CASE j \notin DOMAIN returned /\ k \notin DOMAIN returned
        <3>1. PICK i \in DOMAIN p : j = Len(returned) + i
            BY <1>6, <2>3
        <3>2. PICK l \in DOMAIN p : k = Len(returned) + l
            BY <1>6, <2>3
        <3>3. i \in Nat /\ l \in Nat /\ i < l
            BY <1>5, <1>6, <1>10, <3>1, <3>2
        <3>4. /\ p[i] \in After /\ p[l] \in After
              /\ Rank(After, p[i]) = first + i - 1 /\ Rank(After, p[l]) = first + l - 1
            BY <1>5
        <3>5. Rank(After, p[i]) < Rank(After, p[l])
            BY <1>1, <3>3, <3>4
        <3>6. OrderedBefore(p[i], p[l])
            BY <1>1, <1>5, <3>4, <3>5, RankOrder
        <3>. QED
            BY <1>6, <3>1, <3>2, <3>6
    <2>. QED
        BY <2>1, <2>2, <2>3
<1>11. /\ q = <<>> <=> cursor' = NoCursor
       /\ q # <<>> => cursor' = q[Len(q)]
    <2>1. q = <<>> <=> Len(q) = 0
        BY <1>6
    <2>2. CASE Len(p) = 0
        <3>1. q = returned
            BY <1>1, <1>8, <2>2 DEF q
        <3>. QED
            BY <1>2, <1>4, <1>8, <2>2, <3>1
    <2>3. CASE Len(p) # 0
        <3>1. Len(p) \in DOMAIN p /\ cursor' = p[Len(p)]
            BY <1>4, <1>5, <1>8, <2>3
        <3>2. cursor' = q[Len(q)] /\ cursor' \in Rows
            BY <1>5, <1>6, <3>1
        <3>3. Len(q) # 0
            BY <1>5, <1>6, <2>3
        <3>. QED
            BY <1>1, <2>1, <3>2, <3>3
    <2>. QED
        BY <2>2, <2>3
<1>12. \A r, s : OrderedBefore(r, s)' <=> OrderedBefore(r, s)
    BY <1>4, OrderStays
<1>13. \A r : Has(r)' <=> \E k \in DOMAIN q : q[k] = r
    BY <1>4 DEF Has
<1>14. \A r : AfterCursor(r)' <=> cursor' = NoCursor \/ OrderedBefore(cursor', r)
    <2>1. \A c, r : FirstDifference(c, r, Compared) <=> OrderedBefore(c, r)
        BY <1>1, CursorOrder
    <2>2. OrderFields' = OrderFields
        BY <1>4 DEF OrderFields
    <2>3. \A r : AfterCursor(r)' <=> cursor' = NoCursor \/ FirstDifference(cursor', r, Compared)
        BY <1>4, <2>2 DEF AfterCursor, FirstDifference, Compared
    <2>. QED
        BY <2>1, <2>3
<1>15. ASSUME NEW r \in stable
       PROVE  /\ Has(r)' \/ AfterCursor(r)'
              /\ Len(p) # Limit => Has(r)'
    <2>1. CASE Has(r)
        <3>1. PICK k \in DOMAIN returned : returned[k] = r
            BY <2>1 DEF Has
        <3>. QED
            BY <1>6, <1>13, <3>1
    <2>2. CASE ~Has(r)
        <3>1. r \in After
            BY <1>1, <1>2, <2>2 DEF After
        <3>2. PICK m : m = Rank(After, r)
            OBVIOUS
        <3>3. m \in Nat /\ m < Cardinality(After) /\ Cardinality(After) \in Nat
            <4>1. /\ m \in Nat /\ Cardinality(Above(After, r)) \in Nat
                  /\ Cardinality(After) = m + 1 + Cardinality(Above(After, r))
                BY <1>1, <1>5, <3>1, <3>2, RankCounts
            <4>. QED
                BY <4>1
        <3>4. ASSUME m < Len(p) PROVE Has(r)'
            <4>1. m + 1 \in DOMAIN p /\ Rank(After, p[m + 1]) = m /\ p[m + 1] \in After
                BY <1>1, <1>5, <3>3, <3>4
            <4>2. p[m + 1] = r
                BY <1>1, <1>5, <3>1, <3>2, <4>1, RankOrder
            <4>. QED
                BY <1>6, <1>13, <4>1, <4>2
        <3>5. Len(p) # Limit => m < Len(p)
            BY <1>1, <1>5, <3>3
        <3>6. ASSUME ~(m < Len(p)) PROVE AfterCursor(r)'
            <4>1. CASE Len(p) = 0
                <5>1. cursor' = cursor
                    BY <1>4, <1>8, <4>1
                <5>. QED
                    BY <1>7, <1>14, <3>1, <5>1
            <4>2. CASE Len(p) # 0
                <5>1. /\ Len(p) \in 1..Len(p) /\ cursor' = p[Len(p)]
                      /\ p[Len(p)] \in After /\ Rank(After, p[Len(p)]) = Len(p) - 1
                    BY <1>1, <1>4, <1>5, <1>8, <4>2
                <5>2. Rank(After, p[Len(p)]) < Rank(After, r)
                    BY <1>5, <3>2, <3>3, <3>6, <5>1
                <5>3. OrderedBefore(p[Len(p)], r)
                    BY <1>1, <1>5, <3>1, <5>1, <5>2, RankOrder
                <5>. QED
                    BY <1>14, <5>1, <5>3
            <4>. QED
                BY <4>1, <4>2
        <3>. QED
            BY <3>4, <3>5, <3>6
    <2>. QED
        BY <2>1, <2>2
<1>16. Ended' => Len(p) # Limit
    BY <1>3, <1>4 DEF Ended
<1>17. /\ first' = 0
       /\ returned' = <<>> <=> cursor' = NoCursor
       /\ returned' # <<>> => cursor' = returned'[Len(returned')]
       /\ \A j, k \in DOMAIN returned' : j < k => OrderedBefore(returned[j], returned[k])'
       /\ \A r \in stable' : Has(r)' \/ AfterCursor(r)'
       /\ Ended' => \A r \in stable' : Has(r)'
    <2>1. first' = 0
        BY <1>1, <1>4
    <2>2. /\ returned' = <<>> <=> cursor' = NoCursor
          /\ returned' # <<>> => cursor' = returned'[Len(returned')]
        BY <1>4, <1>11
    <2>3. \A j, k \in DOMAIN returned' : j < k => OrderedBefore(returned[j], returned[k])'
        BY <1>4, <1>10, <1>12
    <2>4. \A r \in stable' : Has(r)' \/ AfterCursor(r)'
        BY <1>4, <1>15
    <2>5. Ended' => \A r \in stable' : Has(r)'
        BY <1>4, <1>15, <1>16
    <2>. QED
        BY <2>1, <2>2, <2>3, <2>4, <2>5
<1>. QED
    BY <1>17 DEF ByCursor

\* A page read by offset from a table at rest continues the ranks.
LEMMA ReadByOffset ==
    ASSUME Orderly, IInv, ReadPage, mode = "offset", changes = 0
    PROVE  ByOffset'
<1>1. /\ order \in Orders /\ table \in SUBSET Rows /\ first \in Nat
      /\ returned \in Seq(Rows)
    BY DEF IInv, Types
<1>2. /\ table = stable /\ cursor = NoCursor /\ first = Len(returned)
      /\ \A k \in DOMAIN returned : returned[k] \in table /\ Rank(table, returned[k]) = k - 1
    BY DEF IInv, ByOffset, ReadPage
<1>3. PICK p \in Pages : p = page'
    BY DEF ReadPage
<1>. DEFINE q == returned \o p
<1>4. /\ returned' = q /\ mode' = mode /\ order' = order /\ first' = first /\ stable' = stable
      /\ table' = table /\ cursor' = cursor /\ changes' = changes
      /\ pc' = "counting"
    BY <1>3 DEF ReadPage
<1>5. After = table
    BY <1>2 DEF After, AfterCursor
<1>6. /\ p \in Seq(Rows) /\ Len(p) \in Nat /\ DOMAIN p = 1..Len(p)
      /\ \/ Len(p) = Limit
         \/ Cardinality(table) = first + Len(p)
         \/ Cardinality(table) <= first /\ Len(p) = 0
      /\ \A k \in 1..Len(p) : p[k] \in table /\ Rank(table, p[k]) = first + k - 1
    BY <1>1, <1>5, PageRanks
<1>7. /\ q \in Seq(Rows) /\ Len(returned) \in Nat
      /\ Len(q) = Len(returned) + Len(p)
      /\ DOMAIN returned = 1..Len(returned)
      /\ \A k \in DOMAIN returned : k \in DOMAIN q /\ q[k] = returned[k]
      /\ \A i \in DOMAIN p : Len(returned) + i \in DOMAIN q /\ q[Len(returned) + i] = p[i]
      /\ \A k \in DOMAIN q :
            k \in DOMAIN returned
              \/ (k - Len(returned) \in DOMAIN p /\ k = Len(returned) + (k - Len(returned)))
    BY <1>1, <1>6, Joined
<1>. HIDE DEF q
<1>8. ASSUME NEW k \in DOMAIN q PROVE q[k] \in table /\ Rank(table, q[k]) = k - 1
    <2>1. CASE k \in DOMAIN returned
        BY <1>2, <1>7, <2>1
    <2>2. CASE k \notin DOMAIN returned
        <3>1. PICK i \in DOMAIN p : k = Len(returned) + i
            BY <1>7, <2>2
        <3>2. q[k] = p[i] /\ p[i] \in table /\ Rank(table, p[i]) = first + i - 1
            BY <1>6, <1>7, <3>1
        <3>3. first + i - 1 = k - 1
            BY <1>2, <3>1
        <3>. QED
            BY <3>2, <3>3
    <2>. QED
        BY <2>1, <2>2
<1>9. Cardinality(table) \in Nat
    BY <1>1, RowSets
<1>10. Len(returned) <= Cardinality(table)
    <2>1. CASE Len(returned) = 0
        BY <1>9, <2>1
    <2>2. CASE Len(returned) # 0
        <3>1. Len(returned) \in DOMAIN returned
            BY <1>7, <2>2
        <3>2. PICK l : l = returned[Len(returned)]
            OBVIOUS
        <3>3. l \in table /\ Rank(table, l) = Len(returned) - 1
            BY <1>2, <3>1, <3>2
        <3>4. /\ Rank(table, l) \in Nat /\ Cardinality(Above(table, l)) \in Nat
              /\ Cardinality(table) = Rank(table, l) + 1 + Cardinality(Above(table, l))
            BY <1>1, <3>3, RankCounts
        <3>. QED
            BY <1>7, <1>9, <3>3, <3>4
    <2>. QED
        BY <2>1, <2>2
<1>11. Len(p) # Limit => Len(q) = Cardinality(table)
    BY <1>2, <1>6, <1>7, <1>9, <1>10
<1>12. \A r : Rank(table, r)' = Rank(table, r)
    BY <1>4, OrderStays
<1>13. \A k \in DOMAIN returned' : returned'[k] \in table' /\ Rank(table, returned[k])' = k - 1
    <2>1. ASSUME NEW k \in DOMAIN returned'
          PROVE  returned'[k] \in table' /\ Rank(table, returned[k])' = k - 1
        <3>1. k \in DOMAIN q /\ returned'[k] = q[k] /\ q[k] \in table /\ Rank(table, q[k]) = k - 1
            BY <1>4, <1>8, <2>1
        <3>2. PICK x : x = q[k]
            OBVIOUS
        <3>3. Below(table, returned[k])' = Below(table, x)
            <4>1. \A r, s : OrderedBefore(r, s)' <=> OrderedBefore(r, s)
                BY <1>4, OrderStays
            <4>. QED
                BY <1>4, <3>1, <3>2, <4>1 DEF Below
        <3>. QED
            BY <1>4, <3>1, <3>2, <3>3 DEF Rank
    <2>. QED
        BY <2>1
<1>14. /\ pc' # "reading" /\ first' + Len(page') = Len(returned')
       /\ Ended' => Len(returned') = Cardinality(table')
    <2>1. first' + Len(page') = Len(returned')
        BY <1>2, <1>3, <1>4, <1>7
    <2>. QED
        BY <1>3, <1>4, <1>11, <2>1 DEF Ended
<1>. QED
    BY <1>2, <1>4, <1>13, <1>14 DEF ByOffset

\* A step that leaves the pages alone leaves both invariants alone.
LEMMA SamePages ==
    ASSUME IInv, UNCHANGED <<mode, order, cursor, returned>>, stable' \subseteq stable,
           first' = first \/ (mode # "offset" /\ first' = 0), Ended' => Ended
    PROVE  ByCursor'
<1>1. \A r, s : OrderedBefore(r, s)' <=> OrderedBefore(r, s)
    BY OrderStays
<1>2. \A r : Has(r)' <=> Has(r)
    BY DEF Has
<1>3. OrderFields' = OrderFields
    BY DEF OrderFields
<1>4. \A r : AfterCursor(r)' <=> AfterCursor(r)
    BY <1>3 DEF AfterCursor, FirstDifference, Compared
<1>. SUFFICES ASSUME mode # "offset"
              PROVE  ByCursor'
    BY DEF ByCursor
<1>5. /\ first = 0
      /\ returned = <<>> <=> cursor = NoCursor
      /\ returned # <<>> => cursor = returned[Len(returned)]
      /\ \A j, k \in DOMAIN returned : j < k => OrderedBefore(returned[j], returned[k])
      /\ \A r \in stable : Has(r) \/ AfterCursor(r)
      /\ Ended => \A r \in stable : Has(r)
    BY DEF IInv, ByCursor
<1>6. \A j, k \in DOMAIN returned' : j < k => OrderedBefore(returned[j], returned[k])'
    BY <1>1, <1>5
<1>7. /\ first' = 0
      /\ returned' = <<>> <=> cursor' = NoCursor
      /\ returned' # <<>> => cursor' = returned'[Len(returned')]
    BY <1>5
<1>8. \A r \in stable' : Has(r)' \/ AfterCursor(r)'
    BY <1>2, <1>4, <1>5
<1>9. Ended' => \A r \in stable' : Has(r)'
    BY <1>2, <1>5
<1>. QED
    BY <1>6, <1>7, <1>8, <1>9 DEF ByCursor

\* The count, and a step that changes nothing, leave the ranks alone.
LEMMA SameRanks ==
    ASSUME IInv, UNCHANGED <<mode, order, table, stable, cursor, returned, changes, page>>,
           CountRows \/ UNCHANGED <<first, pc>>
    PROVE  ByOffset'
<1>. SUFFICES ASSUME mode = "offset", changes = 0
              PROVE  ByOffset'
    BY DEF ByOffset
<1>1. \A r, s : OrderedBefore(r, s)' <=> OrderedBefore(r, s)
    BY OrderStays
<1>2. /\ table = stable /\ cursor = NoCursor
      /\ \A k \in DOMAIN returned : returned[k] \in table /\ Rank(table, returned[k]) = k - 1
      /\ pc = "reading" => first = Len(returned)
      /\ pc = "counting" => first + Len(page) = Len(returned)
      /\ Ended => Len(returned) = Cardinality(table)
    BY DEF IInv, ByOffset
<1>3. \A k \in DOMAIN returned : Rank(table, returned[k])' = Rank(table, returned[k])
    BY <1>1 DEF Rank, Below
<1>4. \A k \in DOMAIN returned' : returned'[k] \in table' /\ Rank(table, returned[k])' = k - 1
    BY <1>2, <1>3
<1>5. /\ pc' = "reading" => first' = Len(returned')
      /\ pc' = "counting" => first' + Len(page') = Len(returned')
      /\ Ended' => Ended
    BY <1>2 DEF CountRows, Ended
<1>. QED
    BY <1>2, <1>4, <1>5 DEF ByOffset

\* Every step keeps the invariant.
LEMMA PagesStep ==
    ASSUME Orderly, IInv, [Next]_vars
    PROVE  IInv'
<1>1. Types' /\ CountBound' /\ CountIsTotal'
    BY CountStep DEF CountInv, IInv
<1>2. CASE ReadPage
    <2>1. ByCursor'
        <3>1. CASE mode # "offset"
            BY <1>2, <3>1, ReadByCursor
        <3>2. CASE mode = "offset"
            BY <1>2, <3>2 DEF ReadPage, ByCursor
        <3>. QED
            BY <3>1, <3>2
    <2>2. ByOffset'
        <3>1. CASE mode = "offset" /\ changes = 0
            BY <1>2, <3>1, ReadByOffset
        <3>2. CASE ~(mode = "offset" /\ changes = 0)
            BY <1>2, <3>2 DEF ReadPage, ByOffset
        <3>. QED
            BY <3>1, <3>2
    <2>. QED
        BY <1>1, <2>1, <2>2 DEF IInv
<1>3. CASE CountRows
    <2>1. /\ UNCHANGED <<mode, order, table, stable, cursor, returned, changes, page>>
          /\ first' = first \/ (mode # "offset" /\ first' = 0) \/ mode = "offset"
          /\ Ended' => Ended
        BY <1>3 DEF CountRows, Ended
    <2>2. ByOffset'
        BY <1>3, <2>1, SameRanks
    <2>3. ByCursor'
        <3>1. CASE mode = "offset"
            BY <2>1, <3>1 DEF ByCursor
        <3>2. CASE mode # "offset"
            BY <2>1, <3>2, SamePages
        <3>. QED
            BY <3>1, <3>2
    <2>. QED
        BY <1>1, <2>2, <2>3 DEF IInv
<1>4. ASSUME NEW r \in Rows, ChangeTable(r) PROVE IInv'
    <2>1. /\ UNCHANGED <<mode, order, cursor, first, page, returned, count, pc>>
          /\ stable' \subseteq stable /\ changes' = changes + 1 /\ changes \in Nat
        BY <1>4 DEF ChangeTable, IInv, Types
    <2>2. Ended' => Ended
        BY <2>1 DEF Ended
    <2>3. ByCursor'
        BY <2>1, <2>2, SamePages
    <2>4. ByOffset'
        BY <2>1 DEF ByOffset
    <2>. QED
        BY <1>1, <2>3, <2>4 DEF IInv
<1>5. CASE UNCHANGED vars
    <2>1. /\ UNCHANGED <<mode, order, table, stable, cursor, returned, changes, page>>
          /\ UNCHANGED <<first, pc>>
        BY <1>5 DEF vars
    <2>2. Ended' => Ended
        BY <2>1 DEF Ended
    <2>3. ByCursor'
        BY <2>1, <2>2, SamePages
    <2>4. ByOffset'
        BY <2>1, SameRanks
    <2>. QED
        BY <1>1, <2>3, <2>4 DEF IInv
<1>. QED
    BY <1>2, <1>3, <1>4, <1>5 DEF Next

\* In the pages joined together a row comes before those after it.
LEMMA Ascends ==
    ASSUME Orderly, IInv, Joinable, NEW j \in DOMAIN returned, NEW k \in DOMAIN returned, j < k
    PROVE  OrderedBefore(returned[j], returned[k])
<1>1. CASE mode # "offset"
    BY <1>1 DEF IInv, ByCursor
<1>2. CASE mode = "offset"
    <2>1. /\ order \in Orders /\ table \in SUBSET Rows /\ returned \in Seq(Rows)
          /\ returned[j] \in table /\ Rank(table, returned[j]) = j - 1
          /\ returned[k] \in table /\ Rank(table, returned[k]) = k - 1
        BY <1>2 DEF IInv, Types, ByOffset, Joinable
    <2>2. Rank(table, returned[j]) < Rank(table, returned[k])
        <3>1. j \in Nat /\ k \in Nat
            BY <2>1
        <3>. QED
            BY <2>1, <3>1
    <2>. QED
        BY <2>1, <2>2, RankOrder
<1>. QED
    BY <1>1, <1>2

\* What the invariant says about the pages a client joins.
LEMMA PagesMeaning ==
    ASSUME Orderly, IInv
    PROVE  NoDuplicates /\ PagesInOrder /\ NothingSkipped
<1>1. order \in Orders /\ returned \in Seq(Rows) /\ table \in SUBSET Rows
    BY DEF IInv, Types
<1>2. \A j, k \in DOMAIN returned : j \in Nat /\ k \in Nat /\ returned[j] \in Rows /\ returned[k] \in Rows
    BY <1>1
<1>3. \A j, k \in DOMAIN returned : Joinable /\ j < k => OrderedBefore(returned[j], returned[k])
    BY Ascends
<1>4. NoDuplicates
    <2>. SUFFICES ASSUME Joinable, NEW j \in DOMAIN returned, NEW k \in DOMAIN returned,
                         returned[j] = returned[k], j # k
                  PROVE  FALSE
        BY DEF NoDuplicates
    <2>1. j < k \/ k < j
        BY <1>2
    <2>2. returned[j] \in Rows /\ OrderedBefore(returned[j], returned[j])
        BY <1>2, <1>3, <2>1
    <2>. QED
        BY <1>1, <2>2, TotalOrder
<1>5. PagesInOrder
    <2>. SUFFICES ASSUME Joinable, NEW j \in DOMAIN returned, NEW k \in DOMAIN returned,
                         j < k, OrderedBefore(returned[k], returned[j])
                  PROVE  FALSE
        BY DEF PagesInOrder
    <2>1. OrderedBefore(returned[j], returned[k]) /\ returned[j] \in Rows /\ returned[k] \in Rows
        BY <1>2, <1>3
    <2>. QED
        BY <1>1, <2>1, TotalOrder
<1>6. NothingSkipped
    <2>. SUFFICES ASSUME Joinable, pc = "done", NEW r \in stable
                  PROVE  \E k \in DOMAIN returned : returned[k] = r
        BY DEF NothingSkipped
    <2>1. CASE mode # "offset"
        BY <2>1 DEF IInv, ByCursor, Ended, Has
    <2>2. CASE mode = "offset"
        <3>1. /\ r \in table /\ Len(returned) = Cardinality(table)
              /\ \A k \in DOMAIN returned : returned[k] \in table /\ Rank(table, returned[k]) = k - 1
            BY <2>2 DEF IInv, ByOffset, Ended, Joinable
        <3>2. PICK m : m = Rank(table, r)
            OBVIOUS
        <3>3. /\ m \in Nat /\ Cardinality(Above(table, r)) \in Nat
              /\ Cardinality(table) = m + 1 + Cardinality(Above(table, r))
            BY <1>1, <3>1, <3>2, RankCounts
        <3>4. m + 1 \in DOMAIN returned /\ (m + 1) - 1 = m
            <4>1. DOMAIN returned = 1..Len(returned) /\ Len(returned) \in Nat
                BY <1>1
            <4>. QED
                BY <3>1, <3>3, <4>1
        <3>5. returned[m + 1] \in table /\ Rank(table, returned[m + 1]) = m
            BY <3>1, <3>4
        <3>6. returned[m + 1] = r
            BY <1>1, <3>1, <3>2, <3>5, RankOrder
        <3>. QED
            BY <3>4, <3>6
    <2>. QED
        BY <2>1, <2>2
<1>. QED
    BY <1>4, <1>5, <1>6

\* No row is returned twice: by cursor however the table changes between two
\* pages, by offset while it rests.
THEOREM NoDuplicatesCorrect == Orderly => (Spec => []NoDuplicates)
<1>. SUFFICES ASSUME Orderly
              PROVE  Spec => []NoDuplicates
    OBVIOUS
<1>1. Init => IInv
    BY PagesInit
<1>2. IInv /\ [Next]_vars => IInv'
    BY PagesStep
<1>3. IInv => NoDuplicates
    BY PagesMeaning
<1>. QED
    BY <1>1, <1>2, <1>3, PTL DEF Spec

\* The pages joined together are in the order asked for.
THEOREM PagesInOrderCorrect == Orderly => (Spec => []PagesInOrder)
<1>. SUFFICES ASSUME Orderly
              PROVE  Spec => []PagesInOrder
    OBVIOUS
<1>1. Init => IInv
    BY PagesInit
<1>2. IInv /\ [Next]_vars => IInv'
    BY PagesStep
<1>3. IInv => PagesInOrder
    BY PagesMeaning
<1>. QED
    BY <1>1, <1>2, <1>3, PTL DEF Spec

\* A client that reads to the end has seen every row that was there all the
\* time.
THEOREM NothingSkippedCorrect == Orderly => (Spec => []NothingSkipped)
<1>. SUFFICES ASSUME Orderly
              PROVE  Spec => []NothingSkipped
    OBVIOUS
<1>1. Init => IInv
    BY PagesInit
<1>2. IInv /\ [Next]_vars => IInv'
    BY PagesStep
<1>3. IInv => NothingSkipped
    BY PagesMeaning
<1>. QED
    BY <1>1, <1>2, <1>3, PTL DEF Spec
=============================================================================
