----------------------------- MODULE Submission -----------------------------
(***************************************************************************)
(* POST /jobs under concurrency: JobSubmissionService.submit, a sequence   *)
(* of transactions between which other requests run.  A request inserts at *)
(* most one job, so a job is named by the request that inserts it.  What   *)
(* happens to the job afterwards is the orchestrator's business; here it   *)
(* only ends, which stops it from counting against its user's quota.       *)
(***************************************************************************)
EXTENDS Integers, FiniteSets

CONSTANTS
  Requests,      \* requests, each with a job id of its own
  Users,         \* X-User-Id headers
  Keys,          \* Idempotency-Key headers
  NULL,          \* no key, no answer yet
  MaxInFlight,   \* settings.max_in_flight_jobs_per_user
  Connections,   \* connections of the API's pools: transactions open at once
  ApiFaults      \* the kinds of failure that happen

ASSUME QuotaIsPositive == MaxInFlight \in Nat \ {0}
ASSUME ConnectionsArePositive == Connections \in Nat \ {0}
ASSUME RequestsAreFinite == IsFiniteSet(Requests)
ASSUME NULLIsNoKey == NULL \notin Keys
ASSUME ApiFaultsAreKnown == ApiFaults \subseteq {"request_error"}

\* Answers other than a job: 413 or 422, 429, and 500 or no answer at all.
Refusals == {"invalid", "too_many", "error"}

ASSUME AnswersDiffer == Requests \cap (Refusals \cup {NULL}) = {} /\ NULL \notin Refusals

VARIABLES
  request,  \* per request, its stage, its headers and its answer
  job       \* per request, the status of the job it inserted

submissionVars == <<request, job>>

Stage == {"unsent", "lookup", "count", "insert", "refind", "reply", "answered"}

Request ==
  [stage : Stage, user : Users, key : Keys \cup {NULL},
   answer : Requests \cup Refusals \cup {NULL}]

TypeOK ==
  /\ request \in [Requests -> Request]
  /\ job \in [Requests -> {"absent", "active", "terminal"}]

Init ==
  /\ \E u \in Users :
       request = [r \in Requests |-> [stage |-> "unsent", user |-> u,
                                      key |-> NULL, answer |-> NULL]]
  /\ job = [r \in Requests |-> "absent"]

-----------------------------------------------------------------------------
\* The job t belongs to the user of request r and carries its key.
HasKeyOf(t, r) ==
  /\ job[t] # "absent"
  /\ request[t].user = request[r].user
  /\ request[t].key = request[r].key

get_by_idempotency_key(r) == {t \in Requests : HasKeyOf(t, r)}

count_active_for_user(u) ==
  Cardinality({t \in Requests : request[t].user = u /\ job[t] = "active"})

\* Mutation: the unique index was never created.
KeyTaken_missing(r) == FALSE

\* Mutation: the index forgets the user.
KeyTaken_mutant(r) ==
  /\ request[r].key # NULL
  /\ \E t \in Requests : job[t] # "absent" /\ request[t].key = request[r].key

\* The unique index on (user_id, idempotency_key) WHERE the key IS NOT NULL
\* refuses the INSERT.
KeyTaken(r) == request[r].key # NULL /\ get_by_idempotency_key(r) # {}

\* Requests whose transaction of _create is open: counted, not yet committed.
Inserting == {r \in Requests : request[r].stage = "insert"}

Goto(r, stage) == request' = [request EXCEPT ![r].stage = stage]

Answer(r, stage, answer) ==
  request' = [request EXCEPT ![r] = [@ EXCEPT !.stage = stage, !.answer = answer]]

-----------------------------------------------------------------------------
\* The request arrives.  Its body is measured, validated and normalized.
Receive(r, u, k) ==
  /\ request[r].stage = "unsent"
  /\ \/ request' = [request EXCEPT ![r] =
                      [stage |-> IF k = NULL THEN "count" ELSE "lookup",
                       user |-> u, key |-> k, answer |-> NULL]]
     \/ request' = [request EXCEPT ![r] =
                      [stage |-> "answered", user |-> u, key |-> k,
                       answer |-> "invalid"]]
  /\ UNCHANGED job

\* Mutation: the answer echoes the key instead of naming the job.
Lookup_mutant(r) ==
  /\ request[r].stage = "lookup"
  /\ \/ get_by_idempotency_key(r) # {} /\ Answer(r, "reply", request[r].key)
     \/ get_by_idempotency_key(r) = {} /\ Goto(r, "count")
  /\ UNCHANGED job

\* _find_existing, before anything is created.
Lookup(r) ==
  /\ request[r].stage = "lookup"
  /\ \/ \E t \in get_by_idempotency_key(r) : Answer(r, "reply", t)
     \/ get_by_idempotency_key(r) = {} /\ Goto(r, "count")
  /\ UNCHANGED job

\* Mutation: the quota is checked one job too late.
Count_mutant(r) ==
  /\ request[r].stage = "count"
  /\ Cardinality(Inserting) < Connections
  /\ IF count_active_for_user(request[r].user) > MaxInFlight
     THEN Answer(r, "reply", "too_many")
     ELSE Goto(r, "insert")
  /\ UNCHANGED job

\* The first half of _create: the transaction opens and counts.  The count
\* sees only committed jobs and locks nothing.
Count(r) ==
  /\ request[r].stage = "count"
  /\ Cardinality(Inserting) < Connections
  /\ IF count_active_for_user(request[r].user) >= MaxInFlight
     THEN Answer(r, "reply", "too_many")
     ELSE Goto(r, "insert")
  /\ UNCHANGED job

\* The second half: the job, its event and its dispatch row are committed, or
\* the index refuses the job and the transaction is rolled back.
Insert(r) ==
  /\ request[r].stage = "insert"
  /\ \/ /\ ~KeyTaken(r)
        /\ job' = [job EXCEPT ![r] = "active"]
        /\ Answer(r, "reply", r)
     \/ /\ KeyTaken(r)
        /\ Goto(r, "refind")
        /\ UNCHANGED job

\* except IntegrityError: another request with the key was first.  The error
\* is raised again when there is no such job.
Refind(r) ==
  /\ request[r].stage = "refind"
  /\ \/ \E t \in get_by_idempotency_key(r) : Answer(r, "reply", t)
     \/ get_by_idempotency_key(r) = {} /\ Answer(r, "reply", "error")
  /\ UNCHANGED job

\* submit_job answers 202 with the job, or 429, or 500.
Reply(r) ==
  /\ request[r].stage = "reply"
  /\ Goto(r, "answered")
  /\ UNCHANGED job

\* The database or the API process fails; an open transaction is rolled back,
\* a committed one stays, and the client is left without a job id.
RequestFails(r) ==
  /\ request[r].stage \notin {"unsent", "answered"}
  /\ Answer(r, "answered", "error")
  /\ UNCHANGED job

\* The orchestrator brings the job to a terminal status.
JobEnds(r) ==
  /\ job[r] = "active"
  /\ job' = [job EXCEPT ![r] = "terminal"]
  /\ UNCHANGED request

Next ==
  \E r \in Requests :
    \/ \E u \in Users, k \in Keys \cup {NULL} : Receive(r, u, k)
    \/ Lookup(r)
    \/ Count(r)
    \/ Insert(r)
    \/ Refind(r)
    \/ Reply(r)
    \/ JobEnds(r)
    \/ "request_error" \in ApiFaults /\ RequestFails(r)

Spec == Init /\ [][Next]_submissionVars

-----------------------------------------------------------------------------
(***************************************************************************)
(* What submission promises.                                               *)
(***************************************************************************)
Accepted(r) == request[r].stage = "answered" /\ request[r].answer \in Requests

\* However requests race, fail and are sent again, those of one user with one
\* Idempotency-Key are told the same job, and it is that user's job, stored
\* with that key (_find_existing, the unique index, and the second look after
\* the index refused).
SameKeySameJob ==
  \A r, t \in Requests :
    /\ Accepted(r)
    /\ Accepted(t)
    /\ request[r].user = request[t].user
    /\ request[r].key = request[t].key
    /\ request[r].key # NULL
    => /\ request[r].answer = request[t].answer
       /\ HasKeyOf(request[r].answer, r)

\* When the index has refused a job, the second look finds the job that was
\* first, so that no client sees the database's error (submit, `raise`).
ConflictIsResolved ==
  \A r \in Requests :
    request[r].stage = "refind" => get_by_idempotency_key(r) # {}

\* The quota is counted before it is used and may be overshot, but only by the
\* requests that fit between a count and its commit: those the connection
\* pools let in at once (_create).
OvershootBounded ==
  \A u \in Users :
    count_active_for_user(u)
      + Cardinality({r \in Inserting : request[r].user = u})
      < MaxInFlight + Connections

=============================================================================
