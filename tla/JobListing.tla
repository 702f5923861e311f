----------------------------- MODULE JobListing -----------------------------
(***************************************************************************)
(* GET /jobs: a client turns the pages of its jobs while jobs are          *)
(* submitted, by it and by others, and move through their statuses.  Each  *)
(* page is one query, and between two pages anything may happen: the only  *)
(* thing carried over is the cursor the client holds.                      *)
(***************************************************************************)
EXTENDS JobDomain, Integers, FiniteSets

CONSTANTS
  Ids,       \* job ids; like UUIDs in a tuple comparison, they are ordered
  Users,     \* X-User-Id headers
  Types,     \* job types
  Statuses,  \* the statuses jobs take here, a part of the state machine
  Limits,    \* page sizes that clients ask for
  MaxClock,  \* bound on time
  NULL       \* no filter, no cursor

ASSUME IdsAreOrdered == Ids \subseteq Nat /\ IsFiniteSet(Ids)
ASSUME LimitsArePositive == Limits \subseteq Nat \ {0}
ASSUME StatusesAreKnown == Statuses \subseteq JobStatus /\ "pending" \in Statuses
ASSUME MaxClockIsNat == MaxClock \in Nat
ASSUME NULLIsNothing == NULL \notin (Statuses \cup Types)

VARIABLES
  clock,   \* clock_now(), as coarse as makes two jobs share a created_at
  table,   \* the jobs table, with the rows that are not committed yet
  reader,  \* the user, filters and cursor of a client and how far it is
  page,    \* the last page it received
  listed,  \* the pages before that one
  steady,  \* jobs that matched its filters at the first page and ever since
  ever     \* jobs that matched its filters at some time since the first page

listingVars == <<clock, table, reader, page, listed, steady, ever>>

Row ==
  [status : Statuses \cup {"absent", "uncommitted"}, user : Users, type : Types,
   created_at : 0 .. MaxClock]

\* raw, the text inside a cursor: two fields around a separator.
Cursor == (0 .. MaxClock) \X {"|"} \X Ids

ASSUME NULLIsNoCursor == NULL \notin Cursor

Reader ==
  [at : {"start", "more", "end"}, user : Users, status : Statuses \cup {NULL},
   type : Types \cup {NULL}, cursor : Cursor \cup {NULL}]

TypeOK ==
  /\ clock \in 0 .. MaxClock
  /\ table \in [Ids -> Row]
  /\ reader \in Reader
  /\ {page, listed, steady, ever} \subseteq SUBSET Ids

Init ==
  /\ clock = 0
  /\ \E u \in Users, t \in Types :
       /\ table = [j \in Ids |-> [status |-> "absent", user |-> u, type |-> t,
                                  created_at |-> 0]]
       /\ reader = [at |-> "start", user |-> u, status |-> NULL, type |-> NULL,
                    cursor |-> NULL]
  /\ page = {}
  /\ listed = {}
  /\ steady = {}
  /\ ever = {}

-----------------------------------------------------------------------------
(***************************************************************************)
(* The query.                                                              *)
(***************************************************************************)
\* Mutation: the separator is left out.
encode_cursor_mutant(created_at, id) == <<created_at, id>>

encode_cursor(created_at, id) == <<created_at, "|", id>>

decode_cursor(cursor) == [created_at |-> cursor[1], id |-> cursor[3]]

\* tuple_(created_at, id) < tuple_(cursor.created_at, cursor.job_id)
Below(j, position) ==
  \/ table[j].created_at < position.created_at
  \/ table[j].created_at = position.created_at /\ j < position.id

\* Mutation: jobs of the cursor's instant count as seen.
AfterCursor_skips(j, cursor) ==
  cursor # NULL => table[j].created_at < decode_cursor(cursor).created_at

\* Mutation: the job the cursor names is listed again.
AfterCursor_repeats(j, cursor) ==
  cursor # NULL =>
    \/ Below(j, decode_cursor(cursor))
    \/ j = decode_cursor(cursor).id

AfterCursor(j, cursor) == cursor # NULL => Below(j, decode_cursor(cursor))

\* ORDER BY created_at DESC, id DESC: j comes before k.
Precedes(j, k) == Below(k, [created_at |-> table[j].created_at, id |-> j])

\* The conditions on a committed row, the cursor's aside.
Matches(j, r) ==
  /\ table[j].status \in Statuses
  /\ table[j].user = r.user
  /\ r.status # NULL => table[j].status = r.status
  /\ r.type # NULL => table[j].type = r.type

Matching(r) == {j \in Ids : Matches(j, r)}

\* LIMIT n: rows are the first n of the candidates, or all if there are fewer.
IsFirst(rows, n, candidates) ==
  /\ rows \subseteq candidates
  /\ Cardinality(rows) <= n
  /\ Cardinality(rows) < n => rows = candidates
  /\ \A j \in rows, k \in candidates \ rows : Precedes(j, k)

list_for_user(rows, r, n) ==
  IsFirst(rows, n, {j \in Matching(r) : AfterCursor(j, r.cursor)})

IsLast(last, rows) == last \in rows /\ \A j \in rows \ {last} : Precedes(j, last)

-----------------------------------------------------------------------------
\* list_jobs, for the request r: one row more than the page holds is fetched,
\* to know whether there is another page; the cursor names the last row shown.
list_jobs(r, limit) ==
  \E rows \in SUBSET Matching(r) : \E shown \in SUBSET rows :
    /\ list_for_user(rows, r, limit + 1)
    /\ IsFirst(shown, limit, rows)
    /\ page' = shown
    /\ IF Cardinality(rows) > limit
       THEN \E last \in shown :
              /\ IsLast(last, shown)
              /\ reader' = [r EXCEPT !.at = "more",
                              !.cursor = encode_cursor(table[last].created_at, last)]
       ELSE reader' = [r EXCEPT !.at = "end", !.cursor = NULL]

\* The client starts a listing, with the filters it chooses.  One listing is
\* enough: nothing of it is left that another could depend on.
FirstPage(u, status, type, limit) ==
  LET r == [reader EXCEPT !.user = u, !.status = status, !.type = type]
  IN  /\ reader.at = "start"
      /\ list_jobs(r, limit)
      /\ listed' = {}
      /\ steady' = Matching(r)
      /\ ever' = Matching(r)
      /\ UNCHANGED <<clock, table>>

\* It asks for the next page with the cursor it was given.
NextPage(limit) ==
  /\ reader.at = "more"
  /\ list_jobs(reader, limit)
  /\ listed' = listed \cup page
  /\ UNCHANGED <<clock, table, steady, ever>>

-----------------------------------------------------------------------------
(***************************************************************************)
(* What happens to the table meanwhile.                                    *)
(***************************************************************************)

\* The reader keeps what it has, while the jobs it is looking for change.
Watch ==
  /\ UNCHANGED <<reader, page, listed>>
  /\ IF reader.at = "more"
     THEN /\ steady' = steady \cap Matching(reader)'
          /\ ever' = ever \cup Matching(reader)'
     ELSE UNCHANGED <<steady, ever>>

\* _create reads the clock before its transaction begins, so that the row may
\* become visible after rows with a later created_at.
Create(j, u, t) ==
  /\ table[j].status = "absent"
  /\ table' = [table EXCEPT ![j] = [status |-> "uncommitted", user |-> u,
                                    type |-> t, created_at |-> clock]]
  /\ UNCHANGED clock
  /\ Watch

Commit(j) ==
  /\ table[j].status = "uncommitted"
  /\ table' = [table EXCEPT ![j].status = "pending"]
  /\ UNCHANGED clock
  /\ Watch

\* The orchestrator moves the job: along the transition table, or by a claim,
\* which starts a retrying job too.
Move(j, status) ==
  /\ \/ can_transition(table[j].status, status)
     \/ table[j].status \in CLAIMABLE /\ status = "running"
  /\ table' = [table EXCEPT ![j].status = status]
  /\ UNCHANGED clock
  /\ Watch

Tick ==
  /\ clock < MaxClock
  /\ clock' = clock + 1
  /\ UNCHANGED table
  /\ Watch

Reading ==
  \/ \E u \in Users, s \in Statuses \cup {NULL}, t \in Types \cup {NULL}, n \in Limits :
       FirstPage(u, s, t, n)
  \/ \E n \in Limits : NextPage(n)

Writing ==
  \/ \E j \in Ids :
       \/ \E u \in Users, t \in Types : Create(j, u, t)
       \/ Commit(j)
       \/ \E s \in Statuses : Move(j, s)
  \/ Tick

Next == Reading \/ Writing

Spec == Init /\ [][Next]_listingVars

-----------------------------------------------------------------------------
(***************************************************************************)
(* What a listing promises.                                                *)
(***************************************************************************)

\* However jobs are submitted, committed late and moved in and out of the
\* filter between the pages, every page goes on strictly after the ones before
\* it, so that no job is shown twice and the order is kept across pages
\* (list_for_user's cursor comparison, list_jobs' choice of cursor).
PagesDescend == \A j \in listed, k \in page : Precedes(j, k)

\* A listing that was followed to its end has shown every job that matched its
\* filters from the first page to the last, and none that never did, whatever
\* page sizes were asked for (has_more and the extra row).
NothingSkipped ==
  reader.at = "end" => steady \subseteq listed \cup page /\ listed \cup page \subseteq ever

=============================================================================
