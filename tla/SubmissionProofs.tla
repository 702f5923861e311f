-------------------------- MODULE SubmissionProofs --------------------------
(***************************************************************************)
(* Submission is idempotent and its quota is overshot by no more than the  *)
(* connection pools allow, for any number of requests, users and keys.     *)
(***************************************************************************)
EXTENDS Submission, FiniteSetTheorems, TLAPS

-----------------------------------------------------------------------------
(***************************************************************************)
(* Idempotency.  SameKeySameJob speaks of answers, whereas the database    *)
(* guards rows; the invariant ties the two together.                       *)
(***************************************************************************)

\* The unique index holds of the stored jobs.
KeysAreUnique ==
  \A r, t \in Requests :
    job[r] # "absent" /\ request[r].key # NULL /\ HasKeyOf(t, r) => t = r

\* An answer that is a job is a stored job with the request's user and key.
AnswersAreJobs ==
  \A r \in Requests : request[r].answer \in Requests => HasKeyOf(request[r].answer, r)

\* Headers are never changed once a job was stored under them.
StoredWasAnswered ==
  \A r \in Requests : job[r] # "absent" => request[r].stage \in {"reply", "answered"}

IdempotencyInv ==
  TypeOK /\ KeysAreUnique /\ AnswersAreJobs /\ StoredWasAnswered /\ ConflictIsResolved

\* Initially nothing is stored and nothing is answered.
LEMMA InitIdempotency == Init => IdempotencyInv
  BY AnswersDiffer
  DEF Init, IdempotencyInv, TypeOK, Request, Stage, KeysAreUnique, AnswersAreJobs,
      StoredWasAnswered, ConflictIsResolved, HasKeyOf

\* Moving a request on, with or without an answer, stores nothing.
LEMMA MovingOn ==
  ASSUME IdempotencyInv, NEW r \in Requests,
         NEW stage \in Stage \ {"unsent"}, NEW answer \in Requests \cup Refusals \cup {NULL},
         UNCHANGED job,
         request' = [request EXCEPT ![r] = [@ EXCEPT !.stage = stage, !.answer = answer]],
         job[r] # "absent" => stage \in {"reply", "answered"},
         answer \in Requests => HasKeyOf(answer, r),
         stage = "refind" => get_by_idempotency_key(r) # {}
  PROVE  IdempotencyInv'
<1>1. /\ \A t \in Requests : request'[t].user = request[t].user /\ request'[t].key = request[t].key
      /\ \A t \in Requests \ {r} : request'[t] = request[t]
      /\ request'[r].stage = stage /\ request'[r].answer = answer
  BY DEF IdempotencyInv, TypeOK, Request
<1>2. TypeOK'
  <2>1. [request[r] EXCEPT !.stage = stage, !.answer = answer] \in Request
    BY DEF IdempotencyInv, TypeOK, Request
  <2>2. request' = [request EXCEPT ![r] = [request[r] EXCEPT !.stage = stage, !.answer = answer]]
    BY DEF IdempotencyInv, TypeOK, Request
  <2> QED BY <2>1, <2>2 DEF IdempotencyInv, TypeOK
<1>3. \A t, q \in Requests : HasKeyOf(t, q)' <=> HasKeyOf(t, q)
  BY <1>1 DEF HasKeyOf
<1>4. KeysAreUnique'
  BY <1>1, <1>3 DEF IdempotencyInv, KeysAreUnique
<1>5. AnswersAreJobs'
  BY <1>1, <1>3 DEF IdempotencyInv, AnswersAreJobs
<1>6. StoredWasAnswered'
  BY <1>1 DEF IdempotencyInv, StoredWasAnswered
<1>7. ConflictIsResolved'
  <2>1. \A t \in Requests : get_by_idempotency_key(t)' = get_by_idempotency_key(t)
    BY <1>3 DEF get_by_idempotency_key
  <2> QED BY <1>1, <2>1 DEF IdempotencyInv, ConflictIsResolved
<1> QED BY <1>2, <1>4, <1>5, <1>6, <1>7 DEF IdempotencyInv

\* Every step keeps the invariant.
LEMMA StepKeepsIdempotency ==
  IdempotencyInv /\ [Next]_submissionVars => IdempotencyInv'
<1> SUFFICES ASSUME IdempotencyInv, [Next]_submissionVars PROVE IdempotencyInv'
  OBVIOUS
<1> USE DEF IdempotencyInv
<1>0. CASE UNCHANGED submissionVars
  BY <1>0 DEF submissionVars, TypeOK, KeysAreUnique, AnswersAreJobs, StoredWasAnswered,
              ConflictIsResolved, HasKeyOf, get_by_idempotency_key
<1>1. ASSUME NEW r \in Requests, NEW u \in Users, NEW k \in Keys \cup {NULL}, Receive(r, u, k)
      PROVE  IdempotencyInv'
  <2>1. PICK new \in Request :
          /\ new.stage \in {"count", "lookup", "answered"}
          /\ new.answer \notin Requests
          /\ request' = [request EXCEPT ![r] = new]
    <3>1. CASE request' = [request EXCEPT ![r] =
                 [stage |-> IF k = NULL THEN "count" ELSE "lookup",
                  user |-> u, key |-> k, answer |-> NULL]]
      <4> DEFINE stage == IF k = NULL THEN "count" ELSE "lookup"
                 sent == [stage |-> stage, user |-> u, key |-> k, answer |-> NULL]
      <4>1. stage \in {"count", "lookup"}
        OBVIOUS
      <4> HIDE DEF stage
      <4>2. sent \in Request /\ sent.stage \in {"count", "lookup", "answered"}
        BY <4>1 DEF Request, Stage
      <4>3. sent.answer \notin Requests
        BY AnswersDiffer
      <4>4. request' = [request EXCEPT ![r] = sent]
        BY <3>1 DEF stage
      <4> QED BY <4>2, <4>3, <4>4
    <3>2. CASE request' = [request EXCEPT ![r] =
                 [stage |-> "answered", user |-> u, key |-> k, answer |-> "invalid"]]
      BY <3>2, AnswersDiffer DEF Request, Stage, Refusals
    <3> QED BY <1>1, <3>1, <3>2 DEF Receive
  <2>2. job' = job /\ job[r] = "absent" /\ request[r].stage = "unsent"
    BY <1>1 DEF Receive, StoredWasAnswered
  <2>3. request'[r] = new /\ \A t \in Requests \ {r} : request'[t] = request[t]
    BY <2>1 DEF TypeOK
  <2>4. TypeOK'
    BY <2>1, <2>2 DEF TypeOK
  <2>5. \A t \in Requests, q \in Requests \ {r} : HasKeyOf(t, q)' <=> HasKeyOf(t, q)
    BY <2>2, <2>3 DEF HasKeyOf
  <2>6. KeysAreUnique'
    BY <2>2, <2>3, <2>5 DEF KeysAreUnique
  <2>7. AnswersAreJobs'
    BY <2>1, <2>3, <2>5 DEF AnswersAreJobs
  <2>8. StoredWasAnswered'
    BY <2>2, <2>3 DEF StoredWasAnswered
  <2>9. ConflictIsResolved'
    <3>1. \A q \in Requests \ {r} : get_by_idempotency_key(q)' = get_by_idempotency_key(q)
      BY <2>5 DEF get_by_idempotency_key
    <3> QED BY <2>1, <2>3, <3>1 DEF ConflictIsResolved
  <2> QED BY <2>4, <2>6, <2>7, <2>8, <2>9
<1>2. ASSUME NEW r \in Requests, NEW t \in get_by_idempotency_key(r),
             Answer(r, "reply", t), UNCHANGED job
      PROVE  IdempotencyInv'
  BY <1>2, MovingOn DEF Answer, get_by_idempotency_key, Stage
<1>3. ASSUME NEW r \in Requests, NEW refusal \in Refusals,
             NEW stage \in {"reply", "answered"}, Answer(r, stage, refusal), UNCHANGED job
      PROVE  IdempotencyInv'
  BY <1>3, MovingOn, AnswersDiffer DEF Answer, Stage
<1>4. ASSUME NEW r \in Requests, NEW stage \in {"count", "insert", "refind", "answered"},
             Goto(r, stage), UNCHANGED job,
             job[r] # "absent" => stage = "answered",
             stage = "refind" => get_by_idempotency_key(r) # {}
      PROVE  IdempotencyInv'
  <2>1. request' = [request EXCEPT ![r] = [@ EXCEPT !.stage = stage, !.answer = request[r].answer]]
    BY <1>4 DEF Goto, TypeOK, Request
  <2>2. request[r].answer \in Requests \cup Refusals \cup {NULL}
    BY DEF TypeOK, Request
  <2> QED BY <1>4, <2>1, <2>2, MovingOn DEF Stage, AnswersAreJobs
<1>5. ASSUME NEW r \in Requests, Lookup(r) PROVE IdempotencyInv'
  BY <1>5, <1>2, <1>4 DEF Lookup, StoredWasAnswered
<1>6. ASSUME NEW r \in Requests, Count(r) PROVE IdempotencyInv'
  BY <1>6, <1>3, <1>4 DEF Count, StoredWasAnswered, Refusals
<1>7. ASSUME NEW r \in Requests, Insert(r) PROVE IdempotencyInv'
  <2>1. CASE KeyTaken(r)
    BY <1>7, <2>1, <1>4 DEF Insert, StoredWasAnswered, KeyTaken
  <2>2. CASE ~KeyTaken(r)
    <3>1. /\ job' = [job EXCEPT ![r] = "active"]
          /\ request' = [request EXCEPT ![r] = [@ EXCEPT !.stage = "reply", !.answer = r]]
          /\ request[r].stage = "insert" /\ job[r] = "absent"
      BY <1>7, <2>2 DEF Insert, Answer, StoredWasAnswered
    <3>2. /\ \A t \in Requests : request'[t].user = request[t].user /\ request'[t].key = request[t].key
          /\ \A t \in Requests \ {r} : request'[t] = request[t] /\ job'[t] = job[t]
          /\ request'[r].stage = "reply" /\ request'[r].answer = r /\ job'[r] = "active"
      BY <3>1 DEF TypeOK, Request
    <3>3. TypeOK'
      <4>1. [request[r] EXCEPT !.stage = "reply", !.answer = r] \in Request
        BY DEF TypeOK, Request, Stage
      <4>2. request' = [request EXCEPT ![r] = [request[r] EXCEPT !.stage = "reply", !.answer = r]]
        BY <3>1 DEF TypeOK, Request
      <4> QED BY <3>1, <4>1, <4>2 DEF TypeOK
    <3>4. \A t, q \in Requests : HasKeyOf(t, q) => HasKeyOf(t, q)'
      BY <3>1, <3>2 DEF HasKeyOf
    <3>5. KeysAreUnique'
      <4> SUFFICES ASSUME NEW q \in Requests, NEW t \in Requests,
                          job'[q] # "absent", request'[q].key # NULL, HasKeyOf(t, q)'
                   PROVE  t = q
        BY DEF KeysAreUnique
      <4>1. CASE q # r /\ t # r
        BY <4>1, <3>2 DEF KeysAreUnique, HasKeyOf
      <4>2. CASE q = r /\ t # r
        BY <4>2, <3>2, <2>2 DEF HasKeyOf, KeyTaken, get_by_idempotency_key
      <4>3. CASE q # r /\ t = r
        BY <4>3, <3>2, <2>2 DEF HasKeyOf, KeyTaken, get_by_idempotency_key
      <4> QED BY <4>1, <4>2, <4>3
    <3>6. AnswersAreJobs'
      BY <3>2, <3>4 DEF AnswersAreJobs, HasKeyOf
    <3>7. StoredWasAnswered'
      BY <3>2 DEF StoredWasAnswered
    <3>8. ConflictIsResolved'
      <4>1. \A q \in Requests : get_by_idempotency_key(q) # {} => get_by_idempotency_key(q)' # {}
        BY <3>4 DEF get_by_idempotency_key
      <4> QED BY <3>2, <4>1 DEF ConflictIsResolved
    <3> QED BY <3>3, <3>5, <3>6, <3>7, <3>8
  <2> QED BY <2>1, <2>2
<1>8. ASSUME NEW r \in Requests, Refind(r) PROVE IdempotencyInv'
  BY <1>8, <1>2 DEF Refind, ConflictIsResolved
<1>9. ASSUME NEW r \in Requests, Reply(r) PROVE IdempotencyInv'
  BY <1>9, <1>4 DEF Reply
<1>10. ASSUME NEW r \in Requests, RequestFails(r) PROVE IdempotencyInv'
  BY <1>10, <1>3 DEF RequestFails, Refusals
<1>11. ASSUME NEW r \in Requests, JobEnds(r) PROVE IdempotencyInv'
  <2>1. /\ UNCHANGED request
        /\ \A t \in Requests : job'[t] # "absent" <=> job[t] # "absent"
    BY <1>11 DEF JobEnds, TypeOK
  <2>2. TypeOK'
    BY <1>11 DEF JobEnds, TypeOK
  <2>3. \A t, q \in Requests : HasKeyOf(t, q)' <=> HasKeyOf(t, q)
    BY <2>1 DEF HasKeyOf
  <2>4. \A q \in Requests : get_by_idempotency_key(q)' = get_by_idempotency_key(q)
    BY <2>3 DEF get_by_idempotency_key
  <2> QED BY <2>1, <2>2, <2>3, <2>4
          DEF KeysAreUnique, AnswersAreJobs, StoredWasAnswered, ConflictIsResolved
<1> QED
  BY <1>0, <1>1, <1>5, <1>6, <1>7, <1>8, <1>9, <1>10, <1>11 DEF Next

\* The invariant holds always.
THEOREM Idempotency == Spec => []IdempotencyInv
  BY InitIdempotency, StepKeepsIdempotency, PTL DEF Spec

\* Every variable of the submission keeps its type.
THEOREM SubmissionTypeCorrect == Spec => []TypeOK
<1>1. IdempotencyInv => TypeOK
  BY DEF IdempotencyInv
<1> QED BY <1>1, Idempotency, PTL

\* Requests with one key are told the same job: two answers are two stored
\* jobs with one user and one key, and the unique index allows only one.
THEOREM SameKeySameJobAlways == Spec => []SameKeySameJob
<1>1. IdempotencyInv => SameKeySameJob
  <2> SUFFICES ASSUME IdempotencyInv, NEW r \in Requests, NEW t \in Requests,
                      Accepted(r), Accepted(t), request[r].user = request[t].user,
                      request[r].key = request[t].key, request[r].key # NULL
               PROVE  request[r].answer = request[t].answer /\ HasKeyOf(request[r].answer, r)
    BY DEF SameKeySameJob
  <2>1. HasKeyOf(request[r].answer, r) /\ HasKeyOf(request[t].answer, t)
    BY DEF IdempotencyInv, AnswersAreJobs, Accepted
  <2>2. HasKeyOf(request[t].answer, request[r].answer)
    BY <2>1 DEF HasKeyOf
  <2> QED BY <2>1, <2>2 DEF IdempotencyInv, KeysAreUnique, HasKeyOf, Accepted
<1> QED BY <1>1, Idempotency, PTL

\* No client sees the error of the unique index.
THEOREM ConflictIsAlwaysResolved == Spec => []ConflictIsResolved
<1>1. IdempotencyInv => ConflictIsResolved
  BY DEF IdempotencyInv
<1> QED BY <1>1, Idempotency, PTL

-----------------------------------------------------------------------------
(***************************************************************************)
(* The quota.  Counted from the stored jobs and the open transactions      *)
(* together, for it is the open ones that will overshoot.                  *)
(***************************************************************************)
Active(u) == {t \in Requests : request[t].user = u /\ job[t] = "active"}
Opened(u) == {r \in Inserting : request[r].user = u}

\* A sum of two cardinalities does not grow when both sets shrink.
LEMMA SmallerSetsSmallerSum ==
  ASSUME NEW A, NEW B, NEW C, NEW D, IsFiniteSet(C), IsFiniteSet(D),
         A \subseteq C, B \subseteq D
  PROVE  /\ Cardinality(A) \in Nat /\ Cardinality(B) \in Nat
         /\ Cardinality(C) \in Nat /\ Cardinality(D) \in Nat
         /\ Cardinality(A) + Cardinality(B) <= Cardinality(C) + Cardinality(D)
<1>1. /\ IsFiniteSet(A) /\ Cardinality(A) <= Cardinality(C)
      /\ IsFiniteSet(B) /\ Cardinality(B) <= Cardinality(D)
  BY FS_Subset
<1> QED BY <1>1, FS_CardinalityType

\* The bound survives every step that opens no transaction and stores no job.
LEMMA NothingOpened ==
  ASSUME OvershootBounded,
         \A u \in Users : Active(u)' \subseteq Active(u) /\ Opened(u)' \subseteq Opened(u)
  PROVE  OvershootBounded'
<1> SUFFICES ASSUME NEW u \in Users
             PROVE  Cardinality(Active(u)') + Cardinality(Opened(u)') < MaxInFlight + Connections
  BY DEF OvershootBounded, count_active_for_user, Active, Opened
<1>1. IsFiniteSet(Active(u)) /\ IsFiniteSet(Opened(u))
  BY FS_Subset, RequestsAreFinite DEF Active, Opened, Inserting
<1>2. Cardinality(Active(u)) + Cardinality(Opened(u)) < MaxInFlight + Connections
  BY DEF OvershootBounded, count_active_for_user, Active, Opened
<1> HIDE DEF Active, Opened
<1>3. /\ Cardinality(Active(u)') \in Nat /\ Cardinality(Opened(u)') \in Nat
      /\ Cardinality(Active(u)) \in Nat /\ Cardinality(Opened(u)) \in Nat
      /\ Cardinality(Active(u)') + Cardinality(Opened(u)')
           <= Cardinality(Active(u)) + Cardinality(Opened(u))
  BY <1>1, SmallerSetsSmallerSum
<1> QED BY <1>2, <1>3, QuotaIsPositive, ConnectionsArePositive

\* Opening a transaction: the count was below the quota, and the pools had a
\* connection left.
LEMMA OpeningKeepsBound ==
  ASSUME TypeOK, OvershootBounded, NEW r \in Requests, Count(r)
  PROVE  OvershootBounded'
<1>1. CASE Answer(r, "reply", "too_many")
  <2>1. \A u \in Users : Active(u)' \subseteq Active(u) /\ Opened(u)' \subseteq Opened(u)
    BY <1>1 DEF Count, Answer, TypeOK, Request, Active, Opened, Inserting
  <2> QED BY <2>1, NothingOpened
<1>2. CASE Goto(r, "insert") /\ count_active_for_user(request[r].user) < MaxInFlight
  <2> SUFFICES ASSUME NEW u \in Users
               PROVE  Cardinality(Active(u)') + Cardinality(Opened(u)') < MaxInFlight + Connections
    BY DEF OvershootBounded, count_active_for_user, Active, Opened
  <2>1. /\ request[r].stage = "count"
        /\ Cardinality(Inserting) < Connections
        /\ UNCHANGED job
        /\ \A t \in Requests : request'[t].user = request[t].user
        /\ \A t \in Requests \ {r} : request'[t] = request[t]
        /\ request'[r].stage = "insert"
    BY <1>2 DEF Count, Goto, TypeOK, Request
  <2>2. Active(u)' = Active(u)
    BY <2>1 DEF Active
  <2>3. IsFiniteSet(Active(u)) /\ IsFiniteSet(Opened(u)) /\ IsFiniteSet(Inserting)
    BY FS_Subset, RequestsAreFinite DEF Active, Opened, Inserting
  <2>4. CASE request[r].user # u
    <3>1. Opened(u)' \subseteq Opened(u)
      BY <2>1, <2>4 DEF Opened, Inserting
    <3>2. Cardinality(Active(u)) + Cardinality(Opened(u)) < MaxInFlight + Connections
      BY DEF OvershootBounded, count_active_for_user, Active, Opened
    <3> HIDE DEF Active, Opened
    <3>3. /\ Cardinality(Active(u)) \in Nat /\ Cardinality(Opened(u)) \in Nat
          /\ Cardinality(Opened(u)') \in Nat
          /\ Cardinality(Active(u)) + Cardinality(Opened(u)')
               <= Cardinality(Active(u)) + Cardinality(Opened(u))
      BY <2>3, <3>1, SmallerSetsSmallerSum
    <3> QED BY <2>2, <3>2, <3>3, QuotaIsPositive, ConnectionsArePositive
  <2>5. CASE request[r].user = u
    <3>1. Cardinality(Active(u)) < MaxInFlight
      BY <1>2, <2>5 DEF count_active_for_user, Active
    <3>2. Opened(u)' \subseteq Inserting \cup {r}
      BY <2>1 DEF Opened, Inserting
    <3>3. r \notin Inserting
      BY <2>1 DEF Inserting
    <3>4. /\ IsFiniteSet(Inserting \cup {r})
          /\ Cardinality(Inserting \cup {r}) = Cardinality(Inserting) + 1
      BY <2>3, <3>3, FS_AddElement
    <3>5. /\ Cardinality(Active(u)) \in Nat /\ Cardinality(Inserting) \in Nat
      BY <2>3, FS_CardinalityType
    <3> HIDE DEF Active, Opened, Inserting
    <3>6. /\ Cardinality(Opened(u)') <= Cardinality(Inserting) + 1
          /\ Cardinality(Opened(u)') \in Nat
      BY <3>2, <3>4, FS_Subset, FS_CardinalityType
    <3> QED BY <2>1, <2>2, <3>1, <3>5, <3>6, QuotaIsPositive, ConnectionsArePositive
  <2> QED BY <2>4, <2>5
<1>3. count_active_for_user(request[r].user) \in Nat
  <2>1. IsFiniteSet(Active(request[r].user))
    BY FS_Subset, RequestsAreFinite DEF Active
  <2> QED BY <2>1, FS_CardinalityType DEF Active, count_active_for_user
<1> QED BY <1>1, <1>2, <1>3, QuotaIsPositive DEF Count

\* Committing a job moves it from the open transactions to the stored jobs.
LEMMA InsertingKeepsBound ==
  ASSUME IdempotencyInv, OvershootBounded, NEW r \in Requests, Insert(r)
  PROVE  OvershootBounded'
<1>1. CASE KeyTaken(r)
  <2>1. /\ UNCHANGED job
        /\ \A t \in Requests : request'[t].user = request[t].user
        /\ \A t \in Requests \ {r} : request'[t] = request[t]
        /\ request'[r].stage = "refind"
    BY <1>1 DEF Insert, Goto, IdempotencyInv, TypeOK, Request
  <2>2. \A u \in Users : Active(u)' \subseteq Active(u) /\ Opened(u)' \subseteq Opened(u)
    BY <2>1 DEF Active, Opened, Inserting
  <2> QED BY <2>2, NothingOpened
<1>2. CASE ~KeyTaken(r)
  <2> SUFFICES ASSUME NEW u \in Users
               PROVE  Cardinality(Active(u)') + Cardinality(Opened(u)') < MaxInFlight + Connections
    BY DEF OvershootBounded, count_active_for_user, Active, Opened
  <2>1. /\ request[r].stage = "insert" /\ job[r] = "absent"
        /\ \A t \in Requests : request'[t].user = request[t].user
        /\ \A t \in Requests \ {r} : request'[t] = request[t] /\ job'[t] = job[t]
        /\ request'[r].stage = "reply" /\ job'[r] = "active"
    <3>1. /\ job' = [job EXCEPT ![r] = "active"]
          /\ request' = [request EXCEPT ![r] = [@ EXCEPT !.stage = "reply", !.answer = r]]
          /\ request[r].stage = "insert" /\ job[r] = "absent"
      BY <1>2 DEF Insert, Answer, IdempotencyInv, StoredWasAnswered
    <3> QED BY <3>1 DEF IdempotencyInv, TypeOK, Request
  <2>2. IsFiniteSet(Active(u)) /\ IsFiniteSet(Opened(u))
    BY FS_Subset, RequestsAreFinite DEF Active, Opened, Inserting
  <2>3. Cardinality(Active(u)) + Cardinality(Opened(u)) < MaxInFlight + Connections
    BY DEF OvershootBounded, count_active_for_user, Active, Opened
  <2>4. CASE request[r].user # u
    <3>1. Active(u)' = Active(u) /\ Opened(u)' = Opened(u)
      BY <2>1, <2>4 DEF Active, Opened, Inserting
    <3> QED BY <2>3, <3>1
  <2>5. CASE request[r].user = u
    <3>1. Active(u)' = Active(u) \cup {r} /\ r \notin Active(u)
      BY <2>1, <2>5 DEF Active
    <3>2. Opened(u)' = Opened(u) \ {r} /\ r \in Opened(u)
      BY <2>1, <2>5 DEF Opened, Inserting
    <3> HIDE DEF Active, Opened
    <3>3. Cardinality(Active(u)') = Cardinality(Active(u)) + 1
      BY <2>2, <3>1, FS_AddElement
    <3>4. Cardinality(Opened(u)') = Cardinality(Opened(u)) - 1
      BY <2>2, <3>2, FS_RemoveElement
    <3>5. Cardinality(Active(u)) \in Nat /\ Cardinality(Opened(u)) \in Nat
      BY <2>2, FS_CardinalityType
    <3> QED BY <2>3, <3>3, <3>4, <3>5, QuotaIsPositive, ConnectionsArePositive
  <2> QED BY <2>4, <2>5
<1> QED BY <1>1, <1>2

\* The quota is overshot by less than the number of connections, whatever the
\* number of requests: only _create adds to the sum, and it first finds the
\* stored jobs below the quota and a connection free.
THEOREM OvershootIsBounded == Spec => []OvershootBounded
<1>1. Init => OvershootBounded
  <2> SUFFICES ASSUME Init, NEW u \in Users
               PROVE  Cardinality(Active(u)) + Cardinality(Opened(u)) < MaxInFlight + Connections
    BY DEF OvershootBounded, count_active_for_user, Active, Opened
  <2>1. Active(u) = {} /\ Opened(u) = {}
    BY DEF Init, Active, Opened, Inserting
  <2>2. Cardinality({}) = 0
    BY FS_EmptySet
  <2> QED BY <2>1, <2>2, QuotaIsPositive, ConnectionsArePositive
<1>2. IdempotencyInv /\ OvershootBounded /\ [Next]_submissionVars => OvershootBounded'
  <2> SUFFICES ASSUME IdempotencyInv, OvershootBounded, [Next]_submissionVars
               PROVE  OvershootBounded'
    OBVIOUS
  <2>1. TypeOK /\ StoredWasAnswered
    BY DEF IdempotencyInv
  <2>2. CASE \E r \in Requests : Count(r)
    BY <2>1, <2>2, OpeningKeepsBound
  <2>3. CASE \E r \in Requests : Insert(r)
    BY <2>3, InsertingKeepsBound
  <2>4. ASSUME \/ UNCHANGED submissionVars
               \/ \E r \in Requests :
                    \/ \E u \in Users, k \in Keys \cup {NULL} : Receive(r, u, k)
                    \/ Lookup(r) \/ Refind(r) \/ Reply(r) \/ JobEnds(r) \/ RequestFails(r)
        PROVE  \A u \in Users : Active(u)' \subseteq Active(u) /\ Opened(u)' \subseteq Opened(u)
    <3>1. CASE UNCHANGED submissionVars
      BY <3>1 DEF submissionVars, Active, Opened, Inserting
    <3>2. ASSUME NEW r \in Requests, NEW w \in Users, NEW k \in Keys \cup {NULL}, Receive(r, w, k)
          PROVE  \A u \in Users : Active(u)' \subseteq Active(u) /\ Opened(u)' \subseteq Opened(u)
      <4>1. /\ job' = job /\ job[r] = "absent"
            /\ \A t \in Requests \ {r} : request'[t] = request[t]
        BY <3>2, <2>1 DEF Receive, TypeOK, StoredWasAnswered
      <4>2. request'[r].stage # "insert"
        BY <3>2, <2>1 DEF Receive, TypeOK
      <4> QED BY <4>1, <4>2 DEF Active, Opened, Inserting
    <3>3. ASSUME NEW r \in Requests,
                 Lookup(r) \/ Refind(r) \/ Reply(r) \/ RequestFails(r)
          PROVE  \A u \in Users : Active(u)' \subseteq Active(u) /\ Opened(u)' \subseteq Opened(u)
      <4>1. PICK stage \in {"count", "reply", "answered"} :
              \/ Goto(r, stage)
              \/ \E answer : Answer(r, stage, answer)
        BY <3>3 DEF Lookup, Refind, Reply, RequestFails
      <4>2. UNCHANGED job
        BY <3>3 DEF Lookup, Refind, Reply, RequestFails
      <4>3. /\ \A t \in Requests : request'[t].user = request[t].user
            /\ \A t \in Requests \ {r} : request'[t] = request[t]
            /\ request'[r].stage = stage
        <5>1. CASE Goto(r, stage)
          BY <5>1, <2>1 DEF Goto, TypeOK, Request
        <5>2. ASSUME NEW answer, Answer(r, stage, answer)
              PROVE  /\ \A t \in Requests : request'[t].user = request[t].user
                     /\ \A t \in Requests \ {r} : request'[t] = request[t]
                     /\ request'[r].stage = stage
          BY <5>2, <2>1 DEF Answer, TypeOK, Request
        <5> QED BY <4>1, <5>1, <5>2
      <4> QED BY <4>2, <4>3 DEF Active, Opened, Inserting
    <3>4. ASSUME NEW r \in Requests, JobEnds(r)
          PROVE  \A u \in Users : Active(u)' \subseteq Active(u) /\ Opened(u)' \subseteq Opened(u)
      BY <3>4, <2>1 DEF JobEnds, TypeOK, Active, Opened, Inserting
    <3> QED BY <2>4, <3>1, <3>2, <3>3, <3>4
  <2> QED BY <2>2, <2>3, <2>4, NothingOpened DEF Next
<1> QED BY <1>1, <1>2, Idempotency, PTL DEF Spec

=============================================================================
