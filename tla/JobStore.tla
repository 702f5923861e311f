------------------------------ MODULE JobStore ------------------------------
(***************************************************************************)
(* The shared state of the orchestrator: the PostgreSQL tables and the two *)
(* kinds of Redis lists.  The API, the workers and the scheduler meet only *)
(* here.  A database transaction commits atomically (every scan and the    *)
(* cancel endpoint hold row locks, every other update is one guarded       *)
(* UPDATE), whereas a Redis push is a step of its own.                     *)
(***************************************************************************)
EXTENDS JobRepository, Integers, Sequences, FiniteSets

CONSTANTS
  Jobs,         \* job ids
  Unnotifiable  \* those with a notify_webhook too long for the outbox column

ASSUME UnnotifiableAreJobs == Unnotifiable \subseteq Jobs

VARIABLES
  jobs,                 \* the jobs table
  job_attempts,         \* per job, the status of attempts 1, 2, ...
  job_events,           \* per job, the to_status of its newest event
  dispatch_outbox,      \* per job, the status of its dispatch row
  notification_outbox,  \* per job, the terminal events enqueued for it
  queue,                \* per job, the copies of its id in the queue lists
  dead_letter           \* per job, the copies of its id in the dead letters

tables ==
  <<jobs, job_attempts, job_events, dispatch_outbox, notification_outbox>>
storeVars == <<tables, queue, dead_letter>>

\* The values of job_attempts.status; "superseded" is a row closed as failed
\* with the error code SUPERSEDED.
AttemptStatus == {"running", "succeeded", "failed", "cancelled", "superseded"}

OutboxStatus == {"absent", "pending", "published"}

StoreTypeOK ==
  /\ jobs \in [Jobs -> JobRow]
  /\ job_attempts \in [Jobs -> Seq(AttemptStatus)]
  /\ job_events \in [Jobs -> JobStatus \cup {"absent"}]
  /\ dispatch_outbox \in [Jobs -> OutboxStatus]
  /\ notification_outbox \in [Jobs -> SUBSET TERMINAL_STATUSES]
  /\ queue \in [Jobs -> Nat]
  /\ dead_letter \in [Jobs -> Nat]

StoreInit ==
  /\ jobs = [j \in Jobs |-> AbsentRow]
  /\ job_attempts = [j \in Jobs |-> <<>>]
  /\ job_events = [j \in Jobs |-> "absent"]
  /\ dispatch_outbox = [j \in Jobs |-> "absent"]
  /\ notification_outbox = [j \in Jobs |-> {}]
  /\ queue = [j \in Jobs |-> 0]
  /\ dead_letter = [j \in Jobs |-> 0]

-----------------------------------------------------------------------------
(***************************************************************************)
(* Statements that transactions are made of.                               *)
(***************************************************************************)

\* UPDATE jobs SET ... WHERE id = j, leaving the row r.
UpdateJob(j, r) == jobs' = [jobs EXCEPT ![j] = r]

\* JobEventRepository.record
record(j, to_status) == job_events' = [job_events EXCEPT ![j] = to_status]

\* INSERT ... ON CONFLICT (dedupe_key) DO NOTHING.  The key is the job and
\* the terminal event, hence the set.  The INSERT of an address that is too
\* long raises, and the transaction it is in is undone.
enqueue_terminal_notification(j, status) ==
  /\ j \notin Unnotifiable
  /\ notification_outbox' = [notification_outbox EXCEPT ![j] = @ \cup {status}]

-----------------------------------------------------------------------------
(***************************************************************************)
(* The Redis lists.                                                        *)
(***************************************************************************)
publish(j) == queue' = [queue EXCEPT ![j] = @ + 1]

\* Mutation: an id is delivered whether or not it is there.
consume_mutant(j) == queue' = [queue EXCEPT ![j] = @ - 1]

consume(j) == queue[j] > 0 /\ queue' = [queue EXCEPT ![j] = @ - 1]

push_dead_letter(j) == dead_letter' = [dead_letter EXCEPT ![j] = @ + 1]

\* The deployment's Redis keeps neither snapshots nor an append-only file, so
\* a restart empties every list.
RedisRestarts ==
  /\ queue' = [j \in Jobs |-> 0]
  /\ dead_letter' = [j \in Jobs |-> 0]
  /\ UNCHANGED tables

=============================================================================
