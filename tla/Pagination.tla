----------------------------- MODULE Pagination -----------------------------
(***************************************************************************)
(* Pagination: a client that reads a flat query page by page, with cursors *)
(* or with offsets, and asks for the count each time, while the objects    *)
(* table changes between its requests and between the two statements of a  *)
(* request.                                                                *)
(* generateRootOnly, buildOrderBy, buildCursorFilter and BuildCursorToken  *)
(* of internal/engine/generator.go, executeFlat of engine.go,              *)
(* ExtractLastRowForCursor of tree.go.                                     *)
(*                                                                         *)
(* A row is the record of its sortable columns plus a uid; column values   *)
(* are numbers in the order of the texts they stand for.  A page is one SQL *)
(* statement, hence one step, and the count is another.                    *)
(***************************************************************************)
EXTENDS Naturals, Sequences, FiniteSets

CONSTANTS
    Rows,         \* the rows the table may hold: records with a field uid
    Orders,       \* values of spec.Order: sequences of [field, desc]
    Modes,        \* "cursor" and "offset"
    Limit,        \* spec.Limit after Validate
    MaxChanges    \* bound on insertions and deletions

ASSUME PaginationAssumption ==
    IsFiniteSet(Rows) /\ Limit \in Nat \ {0} /\ MaxChanges \in Nat

VARIABLES
    mode,         \* the client pages by spec.Page.Cursor or by spec.Page.First
    order,        \* spec.Order of the query
    table,        \* the matching rows of the objects table
    cursor,       \* the last row of the previous page, or NoCursor
    first,        \* spec.Page.First
    page,         \* the rows of the request under way
    returned,     \* the rows of all pages so far, in order
    count,        \* status.Count of the last response
    pc,           \* "reading", "counting", or "done" after a page that was not full
    stable,       \* rows in the table since the first request
    changes

vars == <<mode, order, table, cursor, first, page, returned, count, pc, stable, changes>>

NoCursor == [uid |-> 0]

----------------------------------------------------------------------------
\* The fields Validate admits in an order.
ValidSortFields ==
    {"name", "namespace", "kind", "apiGroup", "cluster", "creationTimestamp"}

Field(f) == [field |-> f, desc |-> FALSE]

OrderedBy(ord, f) == \E k \in DOMAIN ord : ord[k].field = f

\* An order with the tiebreakers namespace and name it lacks.
Tiebroken(ord) ==
    LET withNamespace == IF OrderedBy(ord, "namespace") THEN ord
                         ELSE Append(ord, Field("namespace"))
    IN  IF OrderedBy(withNamespace, "name") THEN withNamespace
        ELSE Append(withNamespace, Field("name"))

\* Mutant: the tiebreakers are not appended.
OrderWithoutTiebreak == IF order = <<>> THEN <<Field("name")>> ELSE order

\* buildOrderBy, and orderFields of buildCursorFilter: the same columns in the
\* same order.
OrderFields == Tiebroken(IF order = <<>> THEN <<Field("name")>> ELSE order)

\* r comes before s by the columns of OrderFields, where Before compares the
\* values of the first column that differs.
FirstDifference(r, s, Before(_, _, _)) ==
    \E k \in DOMAIN OrderFields :
        /\ \A j \in 1..k - 1 : r[OrderFields[j].field] = s[OrderFields[j].field]
        /\ Before(r[OrderFields[k].field], s[OrderFields[k].field], k)

\* ORDER BY: each column in its own direction.
Sorted(v, w, k) == IF OrderFields[k].desc THEN v > w ELSE v < w
OrderedBefore(r, s) == FirstDifference(r, s, Sorted)

\* The row comparison of the WHERE clause: one operator, from the direction of
\* the first column, for all columns.
Compared(v, w, k) == IF order # <<>> /\ OrderFields[1].desc THEN v > w ELSE v < w

\* Mutant: the operator is inclusive.
AfterCursorInclusive(r) ==
    cursor = NoCursor \/ FirstDifference(cursor, r, Compared) \/ r = cursor

\* buildCursorFilter: nothing without a cursor.
AfterCursor(r) == cursor = NoCursor \/ FirstDifference(cursor, r, Compared)

----------------------------------------------------------------------------
Init ==
    /\ mode \in Modes
    /\ order \in Orders
    /\ table \in SUBSET Rows
    /\ cursor = NoCursor
    /\ first = 0
    /\ page = <<>>
    /\ returned = <<>>
    /\ count = 0
    /\ pc = "reading"
    /\ stable = table
    /\ changes = 0

\* At most Limit of n rows, after the rows OFFSET skips.
PageSize(n) == IF n <= first THEN 0 ELSE IF n - first < Limit THEN n - first ELSE Limit

\* Mutant: the statement has no ORDER BY.
PagesUnordered ==
    LET after == {r \in table : AfterCursor(r)}
        n     == PageSize(Cardinality(after))
    IN  {p \in [1..n -> after] : \A j, k \in 1..n : j < k => p[j] # p[k]}

\* The sequences of rows the statement may return: of the rows after the
\* cursor in their order, those from place first + 1 on.  A client sends no
\* first along with a cursor; the generator would ignore it.
Pages ==
    LET after == {r \in table : AfterCursor(r)}
        n     == PageSize(Cardinality(after))
    IN  {p \in [1..n -> after] :
            /\ \A j, k \in 1..n : j < k => p[j] # p[k]
            /\ \A k \in 1..n :
                  /\ Cardinality({r \in after : OrderedBefore(r, p[k])}) <= first + k - 1
                  /\ Cardinality({r \in after : OrderedBefore(p[k], r)})
                         <= Cardinality(after) - (first + k)}

\* The first statement of a request.
ReadPage ==
    /\ pc = "reading"
    /\ page' \in Pages
    /\ returned' = returned \o page'
    /\ cursor' = IF mode = "offset" \/ page' = <<>> THEN cursor ELSE page'[Len(page')]
    /\ pc' = "counting"
    /\ UNCHANGED <<mode, order, table, first, count, stable, changes>>

\* Mutant: the count statement has the cursor's clause.
TotalAfterCursor == Cardinality({r \in table : AfterCursor(r)})

\* COUNT(*) with the filter's clauses, without cursor, offset and limit.
Total == Cardinality(table)

\* The second statement, and the response.  A full page is marked incomplete,
\* and the client asks for the next one, with the cursor of the last row or
\* behind the rows it has.
CountRows ==
    /\ pc = "counting"
    /\ count' = Total
    /\ IF Len(page) = Limit
       THEN pc' = "reading" /\ first' = IF mode = "offset" THEN first + Limit ELSE 0
       ELSE pc' = "done" /\ UNCHANGED first
    /\ UNCHANGED <<mode, order, table, cursor, page, returned, stable, changes>>

\* An event handler inserts or deletes a row between two statements.
ChangeTable(r) ==
    /\ pc \in {"reading", "counting"} /\ returned # <<>>
    /\ changes < MaxChanges
    /\ changes' = changes + 1
    /\ table' = IF r \in table THEN table \ {r} ELSE table \cup {r}
    /\ stable' = stable \ {r}
    /\ UNCHANGED <<mode, order, cursor, first, page, returned, count, pc>>

Next == ReadPage \/ CountRows \/ \E r \in Rows : ChangeTable(r)

Spec == Init /\ [][Next]_vars

----------------------------------------------------------------------------
\* Properties.

\* Requests whose order the cursor follows: all columns ascending (mixed
\* directions, or a descending one before the ascending tiebreakers, do not
\* fit one comparison operator), over objects that namespace and name tell
\* apart.
Orderly ==
    /\ NoCursor \notin Rows
    /\ \A o \in Orders :
          /\ o \in Seq([field : ValidSortFields, desc : {FALSE}])
          /\ \A k \in DOMAIN o, r \in Rows : r[o[k].field] \in Nat
    /\ \A r \in Rows : r["namespace"] \in Nat /\ r["name"] \in Nat
    /\ \A r, s \in Rows : r["namespace"] = s["namespace"] /\ r["name"] = s["name"] => r = s

\* Pages a client can join: by cursor always, by offset while the table rests.
Joinable == mode = "cursor" \/ changes = 0

\* "cursor pagination should not produce duplicates" (pagination_test.go): no
\* row is returned twice, not even one that was deleted and created again
\* between two pages.  Offsets promise this only for a table at rest.
NoDuplicates ==
    Joinable => \A j, k \in DOMAIN returned : returned[j] = returned[k] => j = k

\* "Cursor-based (stable, efficient)" (README.md): a client that reads to the
\* end has seen every row that was there all the time, however rows came and
\* went between its pages; with offsets, if none did.
NothingSkipped ==
    Joinable /\ pc = "done" => \A r \in stable : \E k \in DOMAIN returned : returned[k] = r

\* The pages joined together are in the order asked for.
PagesInOrder ==
    Joinable => \A j, k \in DOMAIN returned : j < k => ~OrderedBefore(returned[k], returned[j])

\* "the total number of matching objects (regardless of limit)" (README.md):
\* wherever the client is in its reading, the count is that of the whole
\* table, although it comes from a second statement: it is off by no more
\* rows than came and went since the first request.
CountIsTotal ==
    (pc = "reading" /\ returned # <<>>) \/ pc = "done" =>
        count \in Cardinality(stable)..Cardinality(stable) + changes
=============================================================================
