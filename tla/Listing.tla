------------------------------ MODULE Listing ------------------------------
(***************************************************************************)
(* GET /applications and GET /companies: filters, a total order, pages by   *)
(* OFFSET and LIMIT, and a count in a statement of its own.                  *)
(*                                                                         *)
(* A client reads page after page until it has reached the total_pages of    *)
(* the last answer; other requests of the user insert, change and delete     *)
(* rows in between, also between the two statements of an answer.            *)
(***************************************************************************)
EXTENDS Integers, FiniteSets

CONSTANTS
  Ids,       \* ids of rows, in the order of the database
  Stages,    \* values of a column that may be filtered by
  Dates,     \* values of applied_date
  Size,      \* page_size
  MaxEdits,  \* bound on what other requests do while the client reads
  None       \* an absent row, or a filter that is not given

\* What the constants must satisfy.
ListingConstants ==
  /\ Ids \subseteq Nat /\ IsFiniteSet(Ids)
  /\ Dates \subseteq Nat
  /\ Size \in Nat \ {0} /\ MaxEdits \in Nat
  /\ None \notin Stages /\ None \notin Dates
  /\ None \notin [stage : Stages, date : Dates]

Row == [stage : Stages, date : Dates]

\* The parameters of the query.
Query == [ stage : Stages \cup {None},
           from  : Dates \cup {None},
           to    : Dates \cup {None},
           sort  : {"asc", "desc"} ]

VARIABLES
  rows,   \* the user's rows
  query,  \* the client's parameters
  page,   \* the page that it asks for
  pc,     \* "items" and "count", the two statements of an answer, or "done"
  read,   \* how often each row has been served
  edits,  \* number of edits while the client reads
  \* For the properties only:
  steady,   \* rows that were listed at the beginning and have not been edited
  exposed,  \* steady rows before which a row has left
  pushed    \* steady rows before which a row has entered

vars == <<rows, query, page, pc, read, edits, steady, exposed, pushed>>

TypeOK ==
  /\ rows \in [Ids -> Row \cup {None}]
  /\ query \in Query
  /\ page \in Nat \ {0}
  /\ pc \in {"items", "count", "done"}
  /\ read \in [Ids -> Nat]
  /\ edits \in 0 .. MaxEdits
  /\ steady \subseteq Ids /\ exposed \subseteq steady /\ pushed \subseteq steady

-----------------------------------------------------------------------------
(* The query.                                                               *)

\* _build_filter_conditions: a parameter that is not given is no condition.
\* The other columns are compared like stage.
Matches(row, q) ==
  /\ q.stage = None \/ row.stage = q.stage
  /\ q.from = None \/ row.date >= q.from
  /\ q.to = None \/ row.date <= q.to

\* ORDER BY the sort column and the id.
Before(table, i, j) ==
  LET less(a, b) == \/ table[a].date < table[b].date
                    \/ table[a].date = table[b].date /\ a < b
  IN IF query.sort = "asc" THEN less(i, j) ELSE less(j, i)

Listed(table) == { i \in Ids : table[i] # None /\ Matches(table[i], query) }

Ahead(table, i) == { j \in Listed(table) : Before(table, j, i) }

\* Mutant: pages are numbered from zero.
OffsetFromZero(p) == p * Size

Offset(p) == (p - 1) * Size

\* The rows that OFFSET and LIMIT leave.
Items ==
  { i \in Listed(rows) : LET n == Cardinality(Ahead(rows, i))
                         IN Offset(page) <= n /\ n < Offset(page) + Size }

\* math.ceil(total / page_size) if total > 0 else 1
TotalPages ==
  LET total == Cardinality(Listed(rows))
  IN IF total > 0 THEN (total + Size - 1) \div Size ELSE 1

-----------------------------------------------------------------------------

\* list_by_user
ReadItems ==
  /\ pc = "items"
  /\ read' = [i \in Ids |-> IF i \in Items THEN read[i] + 1 ELSE read[i]]
  /\ pc' = "count"
  /\ UNCHANGED <<rows, query, page, edits, steady, exposed, pushed>>

\* count_by_user, the answer, and the client's next request.
ReadCount ==
  /\ pc = "count"
  /\ \/ page < TotalPages /\ page' = page + 1 /\ pc' = "items"
     \/ page >= TotalPages /\ pc' = "done" /\ UNCHANGED page
  /\ UNCHANGED <<rows, query, read, edits, steady, exposed, pushed>>

\* Another request inserts, updates or deletes a row.
Edit(i, row) ==
  LET after == [rows EXCEPT ![i] = row]
      kept  == steady \ {i}
  IN /\ pc # "done" /\ edits < MaxEdits /\ row # rows[i]
     /\ rows' = after
     /\ edits' = edits + 1
     /\ steady' = kept
     /\ exposed' = { j \in kept : j \in exposed \/ i \in Ahead(rows, j) \ Ahead(after, j) }
     /\ pushed' = { j \in kept : j \in pushed \/ i \in Ahead(after, j) \ Ahead(rows, j) }
     /\ UNCHANGED <<query, page, pc, read>>

Init ==
  /\ rows \in [Ids -> Row \cup {None}]
  /\ query \in Query
  /\ page = 1
  /\ pc = "items"
  /\ read = [i \in Ids |-> 0]
  /\ edits = 0
  /\ steady = Listed(rows)
  /\ exposed = {}
  /\ pushed = {}

Quiet == pc = "done" /\ UNCHANGED vars

Next ==
  \/ ReadItems
  \/ ReadCount
  \/ \E i \in Ids, row \in Row \cup {None} : Edit(i, row)
  \/ Quiet

Spec == Init /\ [][Next]_vars

-----------------------------------------------------------------------------
(* Properties.                                                              *)

\* A client that reads all pages sees each row that nobody edits exactly once,
\* unless rows before it left (then it may be missed) or entered (then it may be
\* seen again).  So nothing is lost or repeated by counting in a statement of
\* its own, nor by what happens behind a row.
PagesPartition ==
  pc = "done" => \A i \in steady :
    /\ read[i] = 0 => i \in exposed
    /\ read[i] > 1 => i \in pushed
=============================================================================
