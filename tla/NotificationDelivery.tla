------------------------ MODULE NotificationDelivery ------------------------
(***************************************************************************)
(* The notification outbox and the last scan of the scheduler's tick,      *)
(* dispatch_due: one transaction that locks a batch of due rows, calls the *)
(* receivers one after another, and commits what it wrote about them all   *)
(* at the end.  A call cannot be undone; everything else can.              *)
(***************************************************************************)
EXTENDS Integers, FiniteSets

CONSTANTS
  Notifications,    \* rows of the outbox
  Webhooks,         \* those of the channel WEBHOOK; the others are logged
  Unparsable,       \* those whose destination httpx cannot parse as a URL
  Dispatchers,      \* scheduler processes
  DeliveryBatch,    \* settings.scheduler_batch_size
  MaxDeliveries,    \* settings.notification_max_attempts
  DeliveryFaults,   \* the kinds of failure that happen
  MaxReceived       \* bound: calls of a row beyond this many are not told apart

ASSUME BatchIsPositive == DeliveryBatch \in Nat \ {0}
ASSUME MaxDeliveriesIsPositive == MaxDeliveries \in Nat \ {0}
ASSUME ReceivedBound == MaxReceived \in Nat /\ MaxReceived > MaxDeliveries
ASSUME ChannelsAreKnown == Unparsable \subseteq Webhooks /\ Webhooks \subseteq Notifications
ASSUME DeliveryFaultsAreKnown == DeliveryFaults \subseteq {"answer_lost", "tick_error"}

VARIABLES
  outbox,    \* per row, its status and attempts
  due,       \* pending rows whose next_attempt_at has passed
  before,    \* the order of that column on them, as pairs of rows
  batch,     \* per dispatcher, rows of its transaction still to be attempted
  written,   \* per dispatcher, what its open transaction wrote, row by row
  received,  \* per row, how often its receiver was told
  forgotten, \* rows with a call that a rollback forgot
  unanswered \* rows whose receiver acted on a call that failed for the caller

deliveryVars == <<outbox, due, before, batch, written, received, forgotten, unanswered>>

OutboxRow ==
  [status : {"absent", "pending", "sent", "failed"}, attempts : Nat]

\* What a transaction wrote about a row it did not write.
NoRow == [status |-> "unwritten", attempts |-> 0]

Nothing == [n \in Notifications |-> NoRow]

TypeOK ==
  /\ outbox \in [Notifications -> OutboxRow]
  /\ due \in SUBSET Notifications
  /\ before \in SUBSET (due \X due)
  /\ batch \in [Dispatchers -> SUBSET Notifications]
  /\ written \in [Dispatchers -> [Notifications -> OutboxRow \cup {NoRow}]]
  /\ received \in [Notifications -> 0 .. MaxReceived]
  /\ forgotten \in SUBSET Notifications
  /\ unanswered \in SUBSET Notifications

Init ==
  /\ outbox = [n \in Notifications |-> [status |-> "absent", attempts |-> 0]]
  /\ due = {}
  /\ before = {}
  /\ batch = [d \in Dispatchers |-> {}]
  /\ written = [d \in Dispatchers |-> Nothing]
  /\ received = [n \in Notifications |-> 0]
  /\ forgotten = {}
  /\ unanswered = {}

-----------------------------------------------------------------------------
\* The UPDATEs of the repository, on one row.  A row that is rescheduled is
\* pending and no longer due.

\* Mutation: the attempt is counted and the status forgotten.
mark_sent_mutant(row) == [row EXCEPT !.attempts = @ + 1]

mark_sent(row) == [status |-> "sent", attempts |-> row.attempts + 1]

\* Mutation: a status that claim_due does not select.
reschedule_mutant(row) == [status |-> "retrying", attempts |-> row.attempts + 1]

reschedule(row) == [row EXCEPT !.attempts = @ + 1]

mark_failed(row) == [status |-> "failed", attempts |-> row.attempts + 1]

\* Mutation: one attempt too many.
on_failure_mutant(row) ==
  IF row.attempts + 1 > MaxDeliveries THEN mark_failed(row) ELSE reschedule(row)

on_failure(row) ==
  IF row.attempts + 1 >= MaxDeliveries THEN mark_failed(row) ELSE reschedule(row)

\* The rows the open transaction of a dispatcher has written, and those it has
\* locked.
Wrote(d) == {n \in Notifications : written[d][n] # NoRow}

Locked(d) == batch[d] \cup Wrote(d)

\* The receiver of row n is told.
Tell(n) ==
  received' = [received EXCEPT ![n] = IF @ < MaxReceived THEN @ + 1 ELSE @]

\* A dispatcher with no open transaction.
Free(d) == Locked(d) = {}

\* Rows fall due in the order of next_attempt_at: n is the last of them.
JoinDue(n) ==
  /\ due' = due \cup {n}
  /\ before' = before \cup (due \X {n})

-----------------------------------------------------------------------------
\* enqueue, in the transaction that ends the job: due at once.
Enqueue(n) ==
  /\ outbox[n].status = "absent"
  /\ outbox' = [outbox EXCEPT ![n].status = "pending"]
  /\ JoinDue(n)
  /\ UNCHANGED <<batch, written, received, forgotten, unanswered>>

\* The clock reaches next_attempt_at of a rescheduled row.
FallsDue(n) ==
  /\ outbox[n].status = "pending"
  /\ n \notin due
  /\ JoinDue(n)
  /\ UNCHANGED <<outbox, batch, written, received, forgotten, unanswered>>

\* Mutation: the rows are selected without SKIP LOCKED, and without the lock.
Unlocked_mutant == due

\* Mutation: a row that was tried before is not selected again.
Unlocked_untried ==
  {n \in due : outbox[n].attempts = 0 /\ \A d \in Dispatchers : n \notin Locked(d)}

Unlocked == {n \in due : \A d \in Dispatchers : n \notin Locked(d)}

\* claim_due: ORDER BY next_attempt_at LIMIT n FOR UPDATE SKIP LOCKED.
claim_due(rows) ==
  /\ rows \subseteq Unlocked
  /\ Cardinality(rows) <= DeliveryBatch
  /\ Cardinality(rows) < DeliveryBatch => rows = Unlocked
  /\ \A n \in rows, m \in Unlocked \ rows : <<n, m>> \in before

\* dispatch_due opens its transaction.
ClaimDue(d) ==
  /\ Free(d)
  /\ \E rows \in SUBSET Unlocked \ {{}} :
       /\ claim_due(rows)
       /\ batch' = [batch EXCEPT ![d] = rows]
  /\ UNCHANGED <<outbox, due, before, written, received, forgotten, unanswered>>

\* for notification in notifications: n is the oldest of those still to be
\* attempted.
IsNext(d, n) == n \in batch[d] /\ \A m \in batch[d] \ {n} : <<n, m>> \in before

\* The transaction writes row n of its batch.
Write(d, n, row) ==
  /\ batch' = [batch EXCEPT ![d] = @ \ {n}]
  /\ written' = [written EXCEPT ![d][n] = row]

\* _attempt whose _deliver returns: logged, or answered with success.
Deliver(d) ==
  /\ \E n \in Notifications \ Unparsable :
       /\ IsNext(d, n)
       /\ Tell(n)
       /\ Write(d, n, mark_sent(outbox[n]))
  /\ UNCHANGED <<outbox, due, before, forgotten, unanswered>>

\* _attempt whose _deliver raises HTTPError: no connection, a timeout, an
\* error status.  The receiver may have acted on the call all the same.
DeliveryFails(d) ==
  /\ \E n \in Webhooks \ Unparsable :
       /\ IsNext(d, n)
       /\ \/ UNCHANGED <<received, unanswered>>
          \/ /\ "answer_lost" \in DeliveryFaults
             /\ Tell(n)
             /\ unanswered' = unanswered \cup {n}
       /\ Write(d, n, on_failure(outbox[n]))
  /\ UNCHANGED <<outbox, due, before, forgotten>>

\* The transaction ends without a trace in the database.
Rollback(d) ==
  /\ batch' = [batch EXCEPT ![d] = {}]
  /\ written' = [written EXCEPT ![d] = Nothing]
  /\ forgotten' = forgotten \cup Wrote(d)
  /\ UNCHANGED <<outbox, due, before, received, unanswered>>

\* _deliver_webhook raises something that is no HTTPError: httpx.InvalidURL
\* for an address that cannot be parsed, such as one with a port that is no
\* number.  Nothing catches it before run does.
DeliveryRaises(d) ==
  /\ \E n \in Unparsable : IsNext(d, n)
  /\ Rollback(d)

\* Mutation: the attempts are not written.
Commit_mutant(d) ==
  /\ batch[d] = {} /\ Wrote(d) # {}
  /\ outbox' = [n \in Notifications |->
                  IF n \in Wrote(d)
                  THEN [outbox[n] EXCEPT !.status = written[d][n].status]
                  ELSE outbox[n]]
  /\ due' = due \ Wrote(d)
  /\ before' = before \cap (due' \X due')
  /\ written' = [written EXCEPT ![d] = Nothing]
  /\ UNCHANGED <<batch, received, forgotten, unanswered>>

\* dispatch_due commits.
Commit(d) ==
  /\ batch[d] = {} /\ Wrote(d) # {}
  /\ outbox' = [n \in Notifications |->
                  IF n \in Wrote(d) THEN written[d][n] ELSE outbox[n]]
  /\ due' = due \ Wrote(d)
  /\ before' = before \cap (due' \X due')
  /\ written' = [written EXCEPT ![d] = Nothing]
  /\ UNCHANGED <<batch, received, forgotten, unanswered>>

\* The database fails, or the process dies with its transaction open.
TickFails(d) == ~Free(d) /\ Rollback(d)

-----------------------------------------------------------------------------
Dispatch(d) ==
  \/ ClaimDue(d)
  \/ Deliver(d)
  \/ DeliveryFails(d)
  \/ DeliveryRaises(d)
  \/ Commit(d)

\* A step in which no process fails.
Calm ==
  \/ \E n \in Notifications : Enqueue(n) \/ FallsDue(n)
  \/ \E d \in Dispatchers : Dispatch(d)

Next ==
  \/ Calm
  \/ "tick_error" \in DeliveryFaults /\ \E d \in Dispatchers : TickFails(d)

Spec == Init /\ [][Next]_deliveryVars

\* A dispatcher keeps ticking and its calls end (by the webhook timeout if
\* nothing else); time passes; process failures cease.
FairSpec ==
  /\ Spec
  /\ \A d \in Dispatchers : WF_deliveryVars(Dispatch(d))
  /\ \A n \in Notifications : WF_deliveryVars(FallsDue(n))
  /\ <>[][Calm]_deliveryVars

-----------------------------------------------------------------------------
(***************************************************************************)
(* What delivery promises.                                                 *)
(***************************************************************************)

\* No two dispatchers work on one row at a time, and a row is worked on only
\* while it is pending (claim_due, SKIP LOCKED, and the lock kept to the end).
OneDispatcherPerRow ==
  /\ \A c, d \in Dispatchers : c # d => Locked(c) \cap Locked(d) = {}
  /\ \A d \in Dispatchers : \A n \in Locked(d) : outbox[n].status = "pending"

\* A row marked as sent was received, a row given up on was tried exactly
\* notification_max_attempts times, and a row still pending has tries left.
OutcomeIsEarned ==
  \A n \in Notifications :
    /\ outbox[n].status = "sent" => received[n] > 0
    /\ outbox[n].status = "failed" => outbox[n].attempts = MaxDeliveries
    /\ outbox[n].status \in {"absent", "pending"} => outbox[n].attempts < MaxDeliveries

\* "A user is never notified twice" holds of every notification but two kinds:
\* those with a call that reached the receiver and failed for the caller (a
\* timeout, an error status), which _on_failure has made again, and those with a
\* call that dispatch_due rolled back.
NotifiedTwiceOnlyAfterLoss ==
  \A n \in Notifications \ (forgotten \cup unanswered) : received[n] <= 1

\* Only a rollback makes the outbox forget a call: a receiver of whose calls
\* none was rolled back is told at most once per attempt in the outbox or in
\* the open transaction (_attempt, and the one commit of dispatch_due), so at
\* most notification_max_attempts times when answers are lost.
CallsAreCounted ==
  \A n \in Notifications \ forgotten :
    received[n] <= outbox[n].attempts
                     + Cardinality({d \in Dispatchers : n \in Wrote(d)})

Settled(n) == outbox[n].status \in {"sent", "failed"}


\* The same, as long as every address in the outbox can be parsed.
SettledUnlessPoisoned ==
  \A n \in Notifications \ Unparsable :
    outbox[n].status = "pending" ~>
      Settled(n) \/ \E m \in Unparsable : outbox[m].status = "pending"

=============================================================================
