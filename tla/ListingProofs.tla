---------------------------- MODULE ListingProofs ----------------------------
(***************************************************************************)
(* A listing shows every job once and in order, and skips none, for any    *)
(* jobs, users, filters and page sizes, whatever is submitted, committed   *)
(* late or moved between two pages.                                        *)
(***************************************************************************)
EXTENDS JobListing, FiniteSetTheorems, TLAPS

\* A row is in the table, committed or not: its created_at is fixed.
Exists(j) == table[j].status # "absent"

\* Everything the client was shown.
Shown == listed \cup page

\* What the cursor stands for.  It names a row that was shown and its
\* created_at; every other row that was shown precedes that one, and what is
\* still to be shown comes after it.
CursorOK(c) ==
  LET position == decode_cursor(c)
  IN  /\ position.id \in Shown
      /\ position.created_at = table[position.id].created_at
      /\ \A j \in Shown \ {position.id} : Precedes(j, position.id)
      /\ \A j \in steady \ Shown : Below(j, position)

ReaderOK ==
  /\ reader.at = "start" => reader.cursor = NULL
  /\ reader.at = "more" =>
       /\ reader.cursor \in Cursor
       /\ CursorOK(reader.cursor)
       /\ steady \subseteq Matching(reader) /\ Matching(reader) \subseteq ever
  /\ reader.at = "end" => steady \subseteq Shown

SeenOK == Shown \cup steady \subseteq ever /\ \A j \in ever : Exists(j)

ListingInv == TypeOK /\ SeenOK /\ ReaderOK /\ PagesDescend

-----------------------------------------------------------------------------
(***************************************************************************)
(* The order of the query.                                                 *)
(***************************************************************************)
LEMMA RowFields ==
  ASSUME TypeOK, NEW j \in Ids
  PROVE  j \in Nat /\ table[j].created_at \in Nat /\ table[j].created_at \in 0 .. MaxClock
BY IdsAreOrdered, MaxClockIsNat DEF TypeOK, Row

LEMMA PrecedesIsTransitive ==
  ASSUME TypeOK, NEW i \in Ids, NEW j \in Ids, NEW k \in Ids, Precedes(i, j), Precedes(j, k)
  PROVE  Precedes(i, k)
BY RowFields DEF Precedes, Below

\* A page of a query that is not cut off is all there is.
LEMMA WholePage ==
  ASSUME NEW rows \in SUBSET Ids, NEW shown \in SUBSET rows, NEW limit \in Nat, NEW candidates,
         IsFirst(rows, limit + 1, candidates), IsFirst(shown, limit, rows),
         ~(Cardinality(rows) > limit)
  PROVE  shown = candidates
<1>1. IsFiniteSet(rows) /\ IsFiniteSet(shown)
  BY IdsAreOrdered, FS_Subset
<1>2. Cardinality(rows) \in Nat /\ Cardinality(shown) \in Nat
  BY <1>1, FS_CardinalityType
<1>3. rows = candidates
  BY <1>2 DEF IsFirst
<1>4. CASE Cardinality(shown) < limit
  BY <1>3, <1>4 DEF IsFirst
<1>5. CASE Cardinality(shown) = limit
  <2>1. Cardinality(shown) <= Cardinality(rows)
    BY <1>1, FS_Subset
  <2>2. Cardinality(rows) = Cardinality(shown)
    BY <1>2, <1>5, <2>1
  <2> QED BY <1>1, <1>3, <2>2, FS_Subset
<1> QED
  BY <1>2, <1>4, <1>5 DEF IsFirst

\* The cursor says where its row is.
LEMMA CursorRoundTrip ==
  ASSUME TypeOK, NEW j \in Ids
  PROVE  LET c == encode_cursor(table[j].created_at, j)
         IN  /\ c \in Cursor /\ c # NULL
             /\ decode_cursor(c).created_at = table[j].created_at
             /\ decode_cursor(c).id = j
<1>1. encode_cursor(table[j].created_at, j) \in Cursor
  BY RowFields DEF encode_cursor, Cursor
<1> QED
  BY <1>1, NULLIsNoCursor DEF encode_cursor, decode_cursor

-----------------------------------------------------------------------------
(***************************************************************************)
(* A page.                                                                 *)
(***************************************************************************)

\* What one query and the choice of its cursor do, whichever page it is for.
\* `todo` are the jobs that must not be skipped.
LEMMA PageIsRight ==
  ASSUME TypeOK, NEW r \in Reader, NEW limit \in Limits, list_jobs(r, limit), UNCHANGED table,
         NEW todo, todo \subseteq {j \in Matching(r) : AfterCursor(j, r.cursor)}
  PROVE  /\ page' \subseteq {j \in Matching(r) : AfterCursor(j, r.cursor)}
         /\ reader' \in Reader
         /\ \A j \in Ids : Matches(j, reader') <=> Matches(j, r)
         /\ \/ reader'.at = "end" /\ todo \subseteq page'
            \/ /\ reader'.at = "more"
               /\ \E last \in page' :
                    /\ reader'.cursor = encode_cursor(table[last].created_at, last)
                    /\ \A j \in page' \ {last} : Precedes(j, last)
                    /\ \A j \in todo \ page' : Precedes(last, j)
<1> DEFINE candidates == {j \in Matching(r) : AfterCursor(j, r.cursor)}
<1>1. PICK rows \in SUBSET Matching(r) : \E shown \in SUBSET rows :
        /\ IsFirst(rows, limit + 1, candidates)
        /\ IsFirst(shown, limit, rows)
        /\ page' = shown
        /\ IF Cardinality(rows) > limit
           THEN \E last \in shown :
                  /\ IsLast(last, shown)
                  /\ reader' = [r EXCEPT !.at = "more",
                                  !.cursor = encode_cursor(table[last].created_at, last)]
           ELSE reader' = [r EXCEPT !.at = "end", !.cursor = NULL]
  BY DEF list_jobs, list_for_user
<1>p. PICK shown \in SUBSET rows :
        /\ IsFirst(rows, limit + 1, candidates)
        /\ IsFirst(shown, limit, rows)
        /\ page' = shown
        /\ IF Cardinality(rows) > limit
           THEN \E last \in shown :
                  /\ IsLast(last, shown)
                  /\ reader' = [r EXCEPT !.at = "more",
                                  !.cursor = encode_cursor(table[last].created_at, last)]
           ELSE reader' = [r EXCEPT !.at = "end", !.cursor = NULL]
  BY <1>1
<1>2. rows \subseteq Ids /\ shown \subseteq rows /\ rows \subseteq candidates
  BY <1>p DEF Matching, IsFirst
<1>3. limit \in Nat
  BY LimitsArePositive
<1>4. CASE Cardinality(rows) > limit
  <2>1. PICK last \in shown :
          /\ IsLast(last, shown)
          /\ reader' = [r EXCEPT !.at = "more",
                          !.cursor = encode_cursor(table[last].created_at, last)]
    BY <1>p, <1>4
  <2>2. last \in Ids /\ encode_cursor(table[last].created_at, last) \in Cursor
    BY <1>2, CursorRoundTrip
  <2>3. /\ reader' \in Reader /\ reader'.at = "more"
        /\ reader'.cursor = encode_cursor(table[last].created_at, last)
        /\ reader'.user = r.user /\ reader'.status = r.status /\ reader'.type = r.type
    BY <2>1, <2>2 DEF Reader
  <2>4. \A j \in shown \ {last} : Precedes(j, last)
    BY <2>1 DEF IsLast
  <2>5. \A j \in candidates \ shown : Precedes(last, j)
    BY <1>p, <1>2 DEF IsFirst
  <2>6. \A j \in Ids : Matches(j, reader') <=> Matches(j, r)
    BY <2>3 DEF Matches
  <2> QED BY <1>p, <1>2, <2>3, <2>4, <2>5, <2>6
<1>5. CASE ~(Cardinality(rows) > limit)
  <2>1. reader' = [r EXCEPT !.at = "end", !.cursor = NULL]
    BY <1>p, <1>5
  <2>2. /\ reader' \in Reader /\ reader'.at = "end"
        /\ reader'.user = r.user /\ reader'.status = r.status /\ reader'.type = r.type
    BY <2>1 DEF Reader
  <2>3. shown = candidates
    BY <1>p, <1>2, <1>3, <1>5, WholePage
  <2>4. \A j \in Ids : Matches(j, reader') <=> Matches(j, r)
    BY <2>2 DEF Matches
  <2> QED BY <1>p, <2>2, <2>3, <2>4
<1> QED
  BY <1>4, <1>5

\* A job that matches a filter is a row of the table.
LEMMA MatchingExists ==
  ASSUME NEW r
  PROVE  Matching(r) \subseteq Ids /\ \A j \in Matching(r) : Exists(j)
BY StatusesAreKnown DEF Matching, Matches, Exists, JobStatus

LEMMA ReaderMatchingExists ==
  Matching(reader) \subseteq Ids /\ \A j \in Matching(reader) : Exists(j)
BY MatchingExists

LEMMA FirstPageKeepsListing ==
  ASSUME ListingInv, NEW u \in Users, NEW status \in Statuses \cup {NULL},
         NEW type \in Types \cup {NULL}, NEW limit \in Limits, FirstPage(u, status, type, limit)
  PROVE  ListingInv'
<1> DEFINE r == [reader EXCEPT !.user = u, !.status = status, !.type = type]
<1> USE DEF ListingInv
<1>1. /\ r \in Reader /\ r.cursor = NULL
  BY DEF FirstPage, TypeOK, Reader, ReaderOK
<1>2. /\ list_jobs(r, limit) /\ listed' = {} /\ steady' = Matching(r) /\ ever' = Matching(r)
      /\ clock' = clock /\ table' = table
  BY DEF FirstPage
<1> HIDE DEF r
<1>3. {j \in Matching(r) : AfterCursor(j, r.cursor)} = Matching(r)
  BY <1>1 DEF AfterCursor
<1>4. /\ page' \subseteq Matching(r)
      /\ reader' \in Reader
      /\ \A j \in Ids : Matches(j, reader') <=> Matches(j, r)
      /\ \/ reader'.at = "end" /\ Matching(r) \subseteq page'
         \/ /\ reader'.at = "more"
            /\ \E last \in page' :
                 /\ reader'.cursor = encode_cursor(table[last].created_at, last)
                 /\ \A j \in page' \ {last} : Precedes(j, last)
                 /\ \A j \in Matching(r) \ page' : Precedes(last, j)
  BY <1>1, <1>2, <1>3, PageIsRight
<1>5. Matching(r) \subseteq Ids /\ \A j \in Matching(r) : Exists(j)
  BY MatchingExists
<1>6. TypeOK'
  BY <1>2, <1>4, <1>5 DEF TypeOK
<1>7. SeenOK'
  BY <1>2, <1>4, <1>5 DEF SeenOK, Shown, Exists
<1>8. PagesDescend'
  BY <1>2 DEF PagesDescend
<1>9. ReaderOK'
  <2>1. CASE reader'.at = "end"
    BY <1>2, <1>4, <2>1 DEF ReaderOK, Shown
  <2>2. CASE reader'.at = "more"
    <3>1. PICK last \in page' :
            /\ reader'.cursor = encode_cursor(table[last].created_at, last)
            /\ \A j \in page' \ {last} : Precedes(j, last)
            /\ \A j \in Matching(r) \ page' : Precedes(last, j)
      BY <1>4, <2>2
    <3>2. last \in Ids
      BY <1>4, <1>5
    <3>3. /\ reader'.cursor \in Cursor
          /\ decode_cursor(reader'.cursor).created_at = table[last].created_at
          /\ decode_cursor(reader'.cursor).id = last
      BY <3>1, <3>2, CursorRoundTrip
    <3>4. Shown' = page'
      BY <1>2 DEF Shown
    <3>5. \A j, k \in Ids : Precedes(j, k)' <=> Precedes(j, k)
      BY <1>2 DEF Precedes, Below
    <3>6. ASSUME NEW j \in Matching(r) \ page'
          PROVE  Below(j, decode_cursor(reader.cursor))'
      BY <1>2, <3>1, <3>3, <3>6 DEF Precedes, Below
    <3>7. CursorOK(reader.cursor)'
      BY <1>2, <1>4, <1>5, <3>1, <3>2, <3>3, <3>4, <3>5, <3>6 DEF CursorOK
    <3>8. Matching(reader)' = Matching(r)
      BY <1>2, <1>4 DEF Matching, Matches
    <3> QED BY <1>2, <2>2, <3>3, <3>7, <3>8 DEF ReaderOK
  <2> QED BY <1>4, <2>1, <2>2
<1> QED
  BY <1>6, <1>7, <1>8, <1>9

LEMMA NextPageKeepsListing ==
  ASSUME ListingInv, NEW limit \in Limits, NextPage(limit)
  PROVE  ListingInv'
<1> USE DEF ListingInv
<1> DEFINE c == decode_cursor(reader.cursor)
           todo == steady \ Shown
<1>1. /\ reader.at = "more" /\ list_jobs(reader, limit) /\ listed' = Shown
      /\ clock' = clock /\ table' = table /\ steady' = steady /\ ever' = ever
  BY DEF NextPage, Shown
<1>2. /\ reader \in Reader /\ reader.cursor \in Cursor /\ CursorOK(reader.cursor)
      /\ steady \subseteq Matching(reader) /\ Matching(reader) \subseteq ever
      /\ Shown \subseteq Ids /\ reader.cursor # NULL
  BY <1>1, NULLIsNoCursor DEF TypeOK, ReaderOK, Shown
<1>3. /\ c.id \in Shown /\ c.created_at = table[c.id].created_at
      /\ \A j \in Shown \ {c.id} : Precedes(j, c.id)
      /\ \A j \in todo : Below(j, c)
  BY <1>2 DEF CursorOK
<1>4. \A j : Below(j, c) <=> Precedes(c.id, j)
  BY <1>3 DEF Precedes, Below
<1> HIDE DEF c, todo
<1>5. \A j : AfterCursor(j, reader.cursor) <=> Precedes(c.id, j)
  BY <1>2, <1>4 DEF AfterCursor, c
<1>6. todo \subseteq {j \in Matching(reader) : AfterCursor(j, reader.cursor)}
  BY <1>2, <1>3, <1>4, <1>5 DEF todo
<1>7. /\ page' \subseteq {j \in Matching(reader) : AfterCursor(j, reader.cursor)}
      /\ reader' \in Reader
      /\ \A j \in Ids : Matches(j, reader') <=> Matches(j, reader)
      /\ \/ reader'.at = "end" /\ todo \subseteq page'
         \/ /\ reader'.at = "more"
            /\ \E last \in page' :
                 /\ reader'.cursor = encode_cursor(table[last].created_at, last)
                 /\ \A j \in page' \ {last} : Precedes(j, last)
                 /\ \A j \in todo \ page' : Precedes(last, j)
  BY <1>1, <1>2, <1>6, PageIsRight
<1>8. Matching(reader) \subseteq Ids /\ \A j \in Matching(reader) : Exists(j)
  BY MatchingExists
<1>9. page' \subseteq Ids
  BY <1>7, <1>8
<1>10. \A j \in Shown, k \in page' : Precedes(j, k)
  <2> SUFFICES ASSUME NEW j \in Shown, NEW k \in page' PROVE Precedes(j, k)
    OBVIOUS
  <2>1. Precedes(c.id, k) /\ k \in Ids /\ c.id \in Ids /\ j \in Ids
    BY <1>2, <1>3, <1>5, <1>7, <1>9
  <2>2. CASE j = c.id
    BY <2>1, <2>2
  <2>3. CASE j # c.id
    BY <1>3, <2>1, <2>3, PrecedesIsTransitive
  <2> QED BY <2>2, <2>3
<1>11. TypeOK'
  BY <1>1, <1>2, <1>7, <1>9 DEF TypeOK
<1>12. \A j, k \in Ids : Precedes(j, k)' <=> Precedes(j, k)
  BY <1>1 DEF Precedes, Below
<1>13. PagesDescend'
  BY <1>1, <1>2, <1>9, <1>10, <1>12 DEF PagesDescend
<1>14. Shown' = Shown \cup page'
  BY <1>1 DEF Shown
<1>15. SeenOK'
  BY <1>1, <1>2, <1>7, <1>14 DEF SeenOK, Exists
<1>16. ReaderOK'
  <2>1. CASE reader'.at = "end"
    BY <1>1, <1>7, <1>14, <2>1 DEF ReaderOK, todo
  <2>2. CASE reader'.at = "more"
    <3>1. PICK last \in page' :
            /\ reader'.cursor = encode_cursor(table[last].created_at, last)
            /\ \A j \in page' \ {last} : Precedes(j, last)
            /\ \A j \in todo \ page' : Precedes(last, j)
      BY <1>7, <2>2
    <3>2. last \in Ids
      BY <1>9
    <3>3. /\ reader'.cursor \in Cursor
          /\ decode_cursor(reader'.cursor).created_at = table[last].created_at
          /\ decode_cursor(reader'.cursor).id = last
      BY <3>1, <3>2, CursorRoundTrip
    <3>4. \A j \in Shown' \ {last} : Precedes(j, last) /\ j \in Ids
      BY <1>2, <1>9, <1>10, <1>14, <3>1
    <3>5. ASSUME NEW j \in todo \ page'
          PROVE  Below(j, decode_cursor(reader.cursor))'
      BY <1>1, <3>1, <3>3, <3>5 DEF Precedes, Below
    <3>6. CursorOK(reader.cursor)'
      BY <1>1, <1>12, <1>14, <3>1, <3>2, <3>3, <3>4, <3>5 DEF CursorOK, todo
    <3>7. Matching(reader)' = Matching(reader)
      BY <1>1, <1>7 DEF Matching, Matches
    <3> QED BY <1>1, <1>2, <2>2, <3>3, <3>6, <3>7 DEF ReaderOK
  <2> QED BY <1>7, <2>1, <2>2
<1> QED
  BY <1>11, <1>13, <1>15, <1>16

-----------------------------------------------------------------------------
(***************************************************************************)
(* What happens between the pages.                                         *)
(***************************************************************************)
LEMMA WritingKeepsRows ==
  ASSUME TypeOK, Writing
  PROVE  /\ clock' \in 0 .. MaxClock /\ table' \in [Ids -> Row] /\ Watch
         /\ \A j \in Ids : Exists(j) => Exists(j)' /\ table'[j].created_at = table[j].created_at
<1> USE DEF TypeOK
<1>1. ASSUME NEW j \in Ids, NEW u \in Users, NEW t \in Types, Create(j, u, t)
      PROVE  /\ clock' \in 0 .. MaxClock /\ table' \in [Ids -> Row] /\ Watch
             /\ \A i \in Ids : Exists(i) => table'[i] = table[i]
  <2>1. [status |-> "uncommitted", user |-> u, type |-> t, created_at |-> clock] \in Row
    BY DEF Row
  <2> QED BY <1>1, <2>1 DEF Create, Exists
<1>2. ASSUME NEW j \in Ids, NEW status \in Statuses, Watch, clock' = clock,
             table' = [table EXCEPT ![j].status = status]
      PROVE  /\ clock' \in 0 .. MaxClock /\ table' \in [Ids -> Row] /\ Watch
             /\ \A i \in Ids : Exists(i)' \/ table'[i] = table[i]
             /\ \A i \in Ids : table'[i].created_at = table[i].created_at
  <2>1. status # "absent"
    BY StatusesAreKnown DEF JobStatus
  <2> QED BY <1>2, <2>1 DEF Row, Exists
<1>3. ASSUME NEW j \in Ids, Commit(j) \/ \E s \in Statuses : Move(j, s)
      PROVE  \E status \in Statuses :
               Watch /\ clock' = clock /\ table' = [table EXCEPT ![j].status = status]
  BY <1>3, StatusesAreKnown DEF Commit, Move
<1>4. CASE Tick
  BY <1>4, MaxClockIsNat DEF Tick, Exists
<1>5. ASSUME NEW j \in Ids, NEW u \in Users, NEW t \in Types, Create(j, u, t)
      PROVE  \A i \in Ids : Exists(i) => Exists(i)' /\ table'[i].created_at = table[i].created_at
  BY <1>1, <1>5 DEF Exists
<1>6. ASSUME NEW j \in Ids, Commit(j) \/ \E s \in Statuses : Move(j, s)
      PROVE  /\ clock' \in 0 .. MaxClock /\ table' \in [Ids -> Row] /\ Watch
             /\ \A i \in Ids : Exists(i) => Exists(i)' /\ table'[i].created_at = table[i].created_at
  BY <1>2, <1>3, <1>6 DEF Exists
<1> QED
  BY <1>1, <1>4, <1>5, <1>6 DEF Writing

LEMMA WritingKeepsListing ==
  ASSUME ListingInv, Writing
  PROVE  ListingInv'
<1> USE DEF ListingInv
<1>1. /\ clock' \in 0 .. MaxClock /\ table' \in [Ids -> Row]
      /\ \A j \in Ids : Exists(j) => Exists(j)' /\ table'[j].created_at = table[j].created_at
  BY WritingKeepsRows
<1>2. /\ reader' = reader /\ page' = page /\ listed' = listed /\ Shown' = Shown
      /\ IF reader.at = "more"
         THEN steady' = steady \cap Matching(reader)' /\ ever' = ever \cup Matching(reader)'
         ELSE steady' = steady /\ ever' = ever
  BY WritingKeepsRows DEF Watch, Shown
<1>3. (Matching(reader) \subseteq Ids /\ \A j \in Matching(reader) : Exists(j))'
  BY ReaderMatchingExists, PTL
<1>4. TypeOK'
  BY <1>1, <1>2, <1>3 DEF TypeOK
<1>5. ever \subseteq Ids /\ Shown \subseteq ever /\ steady \subseteq ever
  BY DEF SeenOK, TypeOK
<1>6. \A j \in ever : j \in Ids /\ Exists(j)' /\ table'[j].created_at = table[j].created_at
  BY <1>1, <1>5 DEF SeenOK
<1>7. SeenOK'
  BY <1>2, <1>3, <1>5, <1>6 DEF SeenOK
<1>8. \A j, k \in ever : Precedes(j, k)' <=> Precedes(j, k)
  BY <1>6 DEF Precedes, Below
<1>9. \A j \in ever : \A p : Below(j, p) <=> (table'[j].created_at < p.created_at
                                    \/ (table'[j].created_at = p.created_at /\ j < p.id))
  BY <1>6 DEF Below
<1>10. PagesDescend'
  BY <1>2, <1>5, <1>8 DEF PagesDescend, Shown
<1>11. ReaderOK'
  <2>1. CASE reader.at = "more"
    <3>1. CursorOK(reader.cursor)
      BY <2>1 DEF ReaderOK
    <3>2. steady' \subseteq steady
      BY <1>2, <2>1
    <3>3. CursorOK(reader.cursor)'
      BY <1>2, <1>5, <1>6, <1>8, <1>9, <3>1, <3>2 DEF CursorOK, Below
    <3> QED BY <1>2, <2>1, <3>3 DEF ReaderOK
  <2>2. CASE reader.at # "more"
    BY <1>2, <2>2 DEF ReaderOK
  <2> QED BY <2>1, <2>2
<1> QED
  BY <1>4, <1>7, <1>10, <1>11

-----------------------------------------------------------------------------
(***************************************************************************)
(* The theorems.                                                           *)
(***************************************************************************)
LEMMA InitListing == Init => ListingInv
<1> SUFFICES ASSUME Init PROVE ListingInv
  OBVIOUS
<1>1. PICK u \in Users, t \in Types :
        /\ table = [j \in Ids |-> [status |-> "absent", user |-> u, type |-> t, created_at |-> 0]]
        /\ reader = [at |-> "start", user |-> u, status |-> NULL, type |-> NULL, cursor |-> NULL]
  BY DEF Init
<1>2. 0 \in 0 .. MaxClock
  BY MaxClockIsNat
<1>3. table \in [Ids -> Row] /\ reader \in Reader
  BY <1>1, <1>2 DEF Row, Reader
<1>4. reader.at = "start" /\ reader.cursor = NULL
  BY <1>1
<1> QED
  BY <1>2, <1>3, <1>4 DEF Init, ListingInv, TypeOK, SeenOK, Shown, ReaderOK, PagesDescend

LEMMA NextKeepsListing == ListingInv /\ [Next]_listingVars => ListingInv'
<1> SUFFICES ASSUME ListingInv, [Next]_listingVars PROVE ListingInv'
  OBVIOUS
<1>1. CASE Reading
  BY <1>1, FirstPageKeepsListing, NextPageKeepsListing DEF Reading
<1>2. CASE Writing
  BY <1>2, WritingKeepsListing
<1>3. CASE UNCHANGED listingVars
  <2>1. /\ clock' = clock /\ table' = table /\ reader' = reader /\ page' = page
        /\ listed' = listed /\ steady' = steady /\ ever' = ever
    BY <1>3 DEF listingVars
  <2> QED BY <2>1 DEF ListingInv, TypeOK, SeenOK, Shown, Exists, ReaderOK, CursorOK, Matching,
             Matches, PagesDescend, Precedes, Below
<1> QED
  BY <1>1, <1>2, <1>3 DEF Next

LEMMA ListingInvariant == Spec => []ListingInv
BY InitListing, NextKeepsListing, PTL DEF Spec

\* Every variable of a listing keeps its type, the cursor its two fields.
THEOREM ListingTypeCorrect == Spec => []TypeOK
<1>1. ListingInv => TypeOK
  BY DEF ListingInv
<1> QED BY <1>1, ListingInvariant, PTL

\* Every page goes on strictly after the ones before it, so that no job is
\* shown twice: the comparison of list_for_user with the cursor of list_jobs.
THEOREM PagesAlwaysDescend == Spec => []PagesDescend
<1>1. ListingInv => PagesDescend
  BY DEF ListingInv
<1> QED BY <1>1, ListingInvariant, PTL

\* A listing followed to its end has shown every job that matched its filters
\* all the time, and none that never did: has_more and the extra row.
THEOREM NothingIsSkipped == Spec => []NothingSkipped
<1>1. ListingInv => NothingSkipped
  BY DEF ListingInv, NothingSkipped, ReaderOK, SeenOK, Shown
<1> QED BY <1>1, ListingInvariant, PTL

=============================================================================
