------------------------------ MODULE Listings ------------------------------
(* The paged listings: contracts and an expiry's contracts, expiries, jobs, a job's   *)
(* tasks, exports (db/queries/catalog.py, pipeline/jobs.py, api/v1/*.py).  A client   *)
(* reads one page after another, each a read of its own, while rows come and go; the  *)
(* cursor it hands back is the only memory of where it was.                           *)
(* A row is what the SELECT returns: the contracts query joins the bounds without     *)
(* fixing the resolution, so one contract is as many rows as it holds resolutions,    *)
(* its parts, and a page groups them again.                                           *)
EXTENDS Naturals, Sequences, FiniteSets, FiniteSetsExt

CONSTANTS
  Kinds,          \* the listings a client may read
  MaxRows,        \* rows ever added: ids are in 1..MaxRows
  Keys,           \* values of the column a listing is ordered by, in their order
  PageSize,       \* `bounded`, the limit after it was cut to the maximum
  MaxLeave,       \* rows that stop matching the filter, or are deleted
  Freedoms        \* "ids_disagree": a contract's id does not ascend with its sort key

None == [id |-> 0, part |-> 0, key |-> 0]

VARIABLES
  kind,           \* which listing is read
  rows,           \* the rows that match its filter
  left,           \* ids that matched once and do not any more
  step,           \* "new", "reading", "done"
  cursor,         \* the row the next page starts behind, or None
  pages,          \* what the client was given, page by page: sets of ids
  steady          \* ids that matched when the walk began and ever since

vars == <<kind, rows, left, step, cursor, pages, steady>>

Ids(rs) == {r.id : r \in rs}
Row == [id : 1..MaxRows, part : 1..2, key : Keys]

TypeOK ==
  /\ kind \in Kinds /\ rows \subseteq Row /\ left \subseteq 1..MaxRows
  /\ step \in {"new", "reading", "done"}
  /\ cursor \in Row \cup {None}
  /\ pages \in Seq(SUBSET (1..MaxRows)) /\ steady \subseteq 1..MaxRows
  /\ \A i \in 1..Len(pages) : Cardinality(pages[i]) <= PageSize

Init ==
  /\ kind \in Kinds /\ rows = {} /\ left = {}
  /\ step = "new" /\ cursor = None /\ pages = <<>> /\ steady = {}

\* What a new row's id and key can be.  A job and an export carry a random id and the
\* instant they were made at, and two exports may share theirs (seconds); an expiry is
\* its date; a task has a growing id and no other key; a contract's id is the next one
\* of its block, so with one discovery in order of the sort column the two ascend
\* together, and without that they need not.
MayBe(r) ==
  LET newest == \A i \in Ids(rows) \cup left : i < r.id IN
  CASE kind = "contracts" ->
         newest /\ ("ids_disagree" \in Freedoms \/ \A q \in rows : q.key <= r.key)
    [] kind = "expiries" -> \A q \in rows : q.key # r.key
    [] kind = "tasks" -> newest /\ r.key = Min(Keys)
    [] kind = "jobs" -> \A q \in rows : q.key < r.key
    [] kind = "exports" -> \A q \in rows : q.key <= r.key

Add(i, k) ==
  LET r == [id |-> i, part |-> 1, key |-> k] IN
  /\ i \notin Ids(rows) \cup left /\ MayBe(r)
  /\ rows' = rows \cup {r}
  /\ UNCHANGED <<kind, left, step, cursor, pages, steady>>

\* A contract gains bars of a second resolution: one more joined row.
AddPart(r) ==
  /\ kind = "contracts" /\ [r EXCEPT !.part = 2] \notin rows
  /\ rows' = rows \cup {[r EXCEPT !.part = 2]}
  /\ UNCHANGED <<kind, left, step, cursor, pages, steady>>

\* A row is deleted, or its state, its kind or its data no longer match the filter.
LeaveFilter(i) ==
  /\ i \in Ids(rows) /\ Cardinality(left) < MaxLeave
  /\ rows' = {r \in rows : r.id # i}
  /\ left' = left \cup {i} /\ steady' = steady \ {i}
  /\ UNCHANGED <<kind, step, cursor, pages>>

\* ORDER BY: the sort column and then the id; a task by its id; the newest job and the
\* newest export first.
Before(a, b) ==
  CASE kind \in {"contracts", "expiries"} ->
         \/ a.key < b.key
         \/ a.key = b.key /\ a.id < b.id
         \/ a.key = b.key /\ a.id = b.id /\ a.part < b.part
    [] kind = "tasks" -> a.id < b.id
    [] OTHER -> a.key > b.key \/ (a.key = b.key /\ a.id > b.id)

\* WHERE: what the next page is cut to.
Past(r) ==
  \/ cursor = None
  \/ kind \in {"contracts", "tasks"} /\ r.id > cursor.id
  \/ kind = "expiries" /\ r.key > cursor.key
  \/ kind \in {"jobs", "exports"} /\ r.key < cursor.key
  \/ kind = "exports" /\ r.key = cursor.key /\ r.id < cursor.id

\* LIMIT one more than the page, so that whether there is a next page is known: the
\* cursor is then the last row of this one.
Place(r) == 1 + Cardinality({q \in rows : Past(q) /\ Before(q, r)})
Items == {r \in rows : Past(r) /\ Place(r) <= PageSize}
RowAt(n) == CHOOSE r \in rows : Past(r) /\ Place(r) = n
HasMore == Cardinality({r \in rows : Past(r)}) > PageSize
CursorOfLookahead == IF HasMore THEN RowAt(PageSize + 1) ELSE None
NextCursor == IF HasMore THEN RowAt(PageSize) ELSE None

ReadPage ==
  /\ step # "done"
  /\ pages' = Append(pages, Ids(Items))
  /\ cursor' = NextCursor
  /\ step' = IF HasMore THEN "reading" ELSE "done"
  /\ steady' = IF step = "new" THEN Ids(rows) ELSE steady
  /\ UNCHANGED <<kind, rows, left>>

Next ==
  \/ \E i \in 1..MaxRows, k \in Keys : Add(i, k)
  \/ \E r \in rows : AddPart(r)
  \/ \E i \in 1..MaxRows : LeaveFilter(i)
  \/ ReadPage

Spec == Init /\ [][Next]_vars

\* A row is on one page only, whatever is added and whatever leaves while the client
\* reads: a contract whose resolutions straddle a page boundary is not shown again.
OnOnePage == \A i, j \in 1..Len(pages) : i # j => pages[i] \cap pages[j] = {}

\* A walk to the end has shown every row that matched from its first page to its last.
NothingSkipped == step = "done" => steady \subseteq UNION {pages[i] : i \in 1..Len(pages)}
=============================================================================
