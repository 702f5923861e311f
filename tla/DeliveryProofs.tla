--------------------------- MODULE DeliveryProofs ---------------------------
(***************************************************************************)
(* Delivery works on a row in one transaction at a time, decides its       *)
(* outcome by what was really attempted, and loses count of a receiver's   *)
(* calls only by a rollback: for any number of rows and of schedulers, any *)
(* batch size and any number of attempts.                                  *)
(***************************************************************************)
EXTENDS NotificationDelivery, FiniteSetTheorems, TLAPS

\* Rows that wait for claim_due are pending.
DueIsPending == \A n \in due : outbox[n].status = "pending"

\* What an open transaction knows of row n: it was not attempted and written
\* both, and what was written follows from the row as it was locked and from
\* what the receiver was told.
Attempted(d, n) ==
  /\ n \notin batch[d]
  /\ \/ written[d][n] = mark_sent(outbox[n]) /\ received[n] > 0
     \/ written[d][n] = on_failure(outbox[n])

TransactionsOK == \A d \in Dispatchers : \A n \in Wrote(d) : Attempted(d, n)

\* CallsAreCounted, with the transaction that wrote the row, if there is one.
BeingWritten(n) == \E d \in Dispatchers : n \in Wrote(d)

CountOK ==
  \A n \in Notifications \ forgotten :
    received[n] <= outbox[n].attempts + IF BeingWritten(n) THEN 1 ELSE 0

\* A row whose calls were all answered and kept is not called again once its
\* receiver was told: it is sent, or will be by the transaction that holds it.
SentOnce(n) ==
  /\ received[n] = 1
  /\ outbox[n].status = "sent" \/ \E d \in Dispatchers : written[d][n].status = "sent"

ToldOK ==
  \A n \in Notifications \ (forgotten \cup unanswered) : received[n] = 0 \/ SentOnce(n)

DeliveryInv ==
  /\ TypeOK
  /\ DueIsPending
  /\ OneDispatcherPerRow
  /\ TransactionsOK
  /\ OutcomeIsEarned
  /\ CountOK
  /\ ToldOK

-----------------------------------------------------------------------------
(***************************************************************************)
(* The UPDATEs of the repository.                                          *)
(***************************************************************************)
LEMMA UpdatesOfRow ==
  ASSUME NEW row \in OutboxRow
  PROVE  /\ mark_sent(row) \in OutboxRow /\ mark_sent(row).status = "sent"
         /\ mark_sent(row).attempts = row.attempts + 1
         /\ on_failure(row) \in OutboxRow /\ on_failure(row).attempts = row.attempts + 1
         /\ on_failure(row).status =
              IF row.attempts + 1 >= MaxDeliveries THEN "failed" ELSE row.status
         /\ row # NoRow
BY DEF OutboxRow, mark_sent, on_failure, mark_failed, reschedule, NoRow

\* A call adds one to what the receiver was told, up to the bound.
LEMMA Told ==
  ASSUME received \in [Notifications -> 0 .. MaxReceived], NEW n \in Notifications, Tell(n)
  PROVE  /\ received' \in [Notifications -> 0 .. MaxReceived]
         /\ \A m \in Notifications \ {n} : received'[m] = received[m]
         /\ received'[n] > 0 /\ received'[n] >= received[n] /\ received'[n] <= received[n] + 1
         /\ received[n] = 0 => received'[n] = 1
BY ReceivedBound, MaxDeliveriesIsPositive DEF Tell

\* At most one dispatcher has a row locked, so that the count of CallsAreCounted
\* is zero or one.
LEMMA WritersAreOne ==
  ASSUME OneDispatcherPerRow, NEW n
  PROVE  Cardinality({d \in Dispatchers : n \in Wrote(d)}) =
           IF BeingWritten(n) THEN 1 ELSE 0
<1>1. CASE ~BeingWritten(n)
  <2>1. {d \in Dispatchers : n \in Wrote(d)} = {}
    BY <1>1 DEF BeingWritten
  <2> QED BY <1>1, <2>1, FS_EmptySet
<1>2. CASE BeingWritten(n)
  <2>1. PICK c \in Dispatchers : n \in Wrote(c)
    BY <1>2 DEF BeingWritten
  <2>2. {d \in Dispatchers : n \in Wrote(d)} = {c}
    BY <2>1 DEF OneDispatcherPerRow, Locked
  <2>3. Cardinality({c}) = 1
    BY FS_Singleton
  <2> QED BY <1>2, <2>2, <2>3
<1> QED BY <1>1, <1>2

-----------------------------------------------------------------------------
LEMMA InitDelivery == Init => DeliveryInv
<1> SUFFICES ASSUME Init PROVE DeliveryInv
  OBVIOUS
<1>1. [status |-> "absent", attempts |-> 0] \in OutboxRow
  BY DEF OutboxRow
<1>2. Nothing \in [Notifications -> OutboxRow \cup {NoRow}]
  BY DEF Nothing
<1>3. TypeOK
  BY <1>1, <1>2, ReceivedBound DEF Init, TypeOK
<1>4. \A d \in Dispatchers : Wrote(d) = {} /\ Locked(d) = {}
  BY DEF Init, Wrote, Locked, Nothing
<1>5. OneDispatcherPerRow /\ TransactionsOK /\ DueIsPending
  BY <1>4 DEF OneDispatcherPerRow, TransactionsOK, DueIsPending, Init
<1>6. OutcomeIsEarned
  BY MaxDeliveriesIsPositive DEF OutcomeIsEarned, Init
<1>7. CountOK
  BY <1>4 DEF CountOK, BeingWritten, Init
<1>8. ToldOK
  BY DEF ToldOK, Init
<1> QED
  BY <1>3, <1>5, <1>6, <1>7, <1>8 DEF DeliveryInv

\* Steps that touch no transaction and call nobody: a row becomes due.
LEMMA DueKeepsDelivery ==
  ASSUME DeliveryInv, NEW n \in Notifications, Enqueue(n) \/ FallsDue(n)
  PROVE  DeliveryInv'
<1> USE DEF DeliveryInv
<1>1. /\ batch' = batch /\ written' = written /\ received' = received /\ forgotten' = forgotten
      /\ unanswered' = unanswered /\ JoinDue(n)
  BY DEF Enqueue, FallsDue
<1>2. /\ outbox'[n].status = "pending" /\ outbox'[n].attempts = outbox[n].attempts
      /\ outbox[n].status \in {"absent", "pending"}
      /\ \A m \in Notifications \ {n} : outbox'[m] = outbox[m]
      /\ outbox' \in [Notifications -> OutboxRow]
      /\ outbox[n].status = "pending" => outbox' = outbox
  BY DEF Enqueue, FallsDue, TypeOK, OutboxRow
<1>3. \A d \in Dispatchers : Wrote(d)' = Wrote(d) /\ Locked(d)' = Locked(d)
  BY <1>1 DEF Wrote, Locked
<1>4. TypeOK'
  <2>1. due' \in SUBSET Notifications /\ before' \in SUBSET (due' \X due')
    BY <1>1 DEF TypeOK, JoinDue
  <2> QED BY <1>1, <1>2, <2>1 DEF TypeOK
<1>5. DueIsPending'
  BY <1>1, <1>2 DEF DueIsPending, JoinDue, TypeOK
<1>6. \A d \in Dispatchers : \A m \in Locked(d) : m \in Notifications /\ outbox'[m] = outbox[m]
  BY <1>2 DEF OneDispatcherPerRow, Locked, Wrote, TypeOK
<1>7. OneDispatcherPerRow'
  BY <1>3, <1>6 DEF OneDispatcherPerRow
<1>8. TransactionsOK'
  BY <1>1, <1>3, <1>6 DEF TransactionsOK, Attempted, Locked
<1>9. OutcomeIsEarned'
  BY <1>1, <1>2 DEF OutcomeIsEarned
<1>10. CountOK'
  BY <1>1, <1>2, <1>3 DEF CountOK, BeingWritten
<1>11. ToldOK'
  BY <1>1, <1>2 DEF ToldOK, SentOnce
<1> QED
  BY <1>4, <1>5, <1>7, <1>8, <1>9, <1>10, <1>11

\* A transaction opens: SKIP LOCKED keeps it apart from the others.
LEMMA ClaimKeepsDelivery ==
  ASSUME DeliveryInv, NEW d \in Dispatchers, ClaimDue(d)
  PROVE  DeliveryInv'
<1> USE DEF DeliveryInv
<1>1. PICK rows \in SUBSET Unlocked : batch' = [batch EXCEPT ![d] = rows]
  BY DEF ClaimDue
<1>2. /\ outbox' = outbox /\ due' = due /\ before' = before /\ written' = written
      /\ received' = received /\ forgotten' = forgotten /\ unanswered' = unanswered
      /\ Locked(d) = {}
  BY DEF ClaimDue, Free
<1>3. rows \subseteq due /\ \A n \in rows, c \in Dispatchers : n \notin Locked(c)
  BY DEF Unlocked
<1>4. /\ batch'[d] = rows /\ \A c \in Dispatchers \ {d} : batch'[c] = batch[c]
      /\ \A c \in Dispatchers : Wrote(c)' = Wrote(c)
  BY <1>1, <1>2 DEF TypeOK, Wrote
<1>5. /\ Locked(d)' = rows /\ \A c \in Dispatchers \ {d} : Locked(c)' = Locked(c)
  BY <1>2, <1>4 DEF Locked
<1>6. TypeOK'
  BY <1>1, <1>2, <1>3 DEF TypeOK
<1>7. OneDispatcherPerRow'
  BY <1>2, <1>3, <1>5 DEF OneDispatcherPerRow, DueIsPending
<1>8. TransactionsOK'
  BY <1>2, <1>4 DEF TransactionsOK, Attempted, Locked
<1>9. DueIsPending' /\ OutcomeIsEarned' /\ CountOK' /\ ToldOK'
  BY <1>2, <1>4 DEF DueIsPending, OutcomeIsEarned, CountOK, BeingWritten, ToldOK, SentOnce
<1> QED
  BY <1>6, <1>7, <1>8, <1>9

\* An attempt: the row leaves the batch and is written, and its receiver was
\* told once or not at all.
LEMMA AttemptKeepsDelivery ==
  ASSUME DeliveryInv, NEW d \in Dispatchers, NEW n \in batch[d], NEW row,
         Write(d, n, row), UNCHANGED <<outbox, due, before, forgotten>>,
         \/ row = mark_sent(outbox[n]) /\ Tell(n) /\ unanswered' = unanswered
         \/ /\ row = on_failure(outbox[n])
            /\ \/ Tell(n) /\ unanswered' = unanswered \cup {n}
               \/ received' = received /\ unanswered' = unanswered
  PROVE  DeliveryInv'
<1> USE DEF DeliveryInv
<1>1. n \in Notifications /\ outbox[n] \in OutboxRow
  BY DEF TypeOK
<1>2. row \in OutboxRow /\ row # NoRow
  BY <1>1, UpdatesOfRow
<1>3. /\ received' \in [Notifications -> 0 .. MaxReceived]
      /\ \A m \in Notifications \ {n} : received'[m] = received[m]
      /\ received'[n] >= received[n] /\ received'[n] <= received[n] + 1
      /\ row = mark_sent(outbox[n]) /\ Tell(n) => received'[n] > 0
  <2>1. CASE Tell(n)
    BY <1>1, <2>1, Told DEF TypeOK
  <2>2. CASE ~Tell(n)
    BY <1>1, <2>2 DEF TypeOK
  <2> QED BY <2>1, <2>2
<1>4. /\ batch'[d] = batch[d] \ {n} /\ \A c \in Dispatchers \ {d} : batch'[c] = batch[c]
      /\ batch' \in [Dispatchers -> SUBSET Notifications]
  BY DEF Write, TypeOK
<1>5. /\ written' \in [Dispatchers -> [Notifications -> OutboxRow \cup {NoRow}]]
      /\ written'[d][n] = row
      /\ \A m \in Notifications \ {n} : written'[d][m] = written[d][m]
      /\ \A c \in Dispatchers \ {d} : written'[c] = written[c]
  BY <1>1, <1>2 DEF Write, TypeOK
<1>6. /\ Wrote(d)' = Wrote(d) \cup {n}
      /\ \A c \in Dispatchers \ {d} : Wrote(c)' = Wrote(c)
  BY <1>1, <1>2, <1>5 DEF Wrote
<1>7. \A c \in Dispatchers : Locked(c)' = Locked(c)
  BY <1>4, <1>6 DEF Locked
<1>8. \A c \in Dispatchers : n \notin Wrote(c)
  <2>1. n \notin Wrote(d)
    BY DEF TransactionsOK, Attempted
  <2>2. \A c \in Dispatchers \ {d} : n \notin Locked(c)
    BY DEF OneDispatcherPerRow, Locked
  <2> QED BY <2>1, <2>2 DEF Locked
<1>9. TypeOK'
  BY <1>1, <1>3, <1>4, <1>5 DEF TypeOK
<1>10. OneDispatcherPerRow' /\ DueIsPending'
  BY <1>7 DEF OneDispatcherPerRow, DueIsPending
<1>11. TransactionsOK'
  <2> SUFFICES ASSUME NEW c \in Dispatchers, NEW m \in Notifications, m \in Wrote(c)'
               PROVE  Attempted(c, m)'
    BY DEF TransactionsOK, Wrote
  <2>1. CASE c = d /\ m = n
    BY <1>3, <1>4, <1>5, <2>1 DEF Attempted
  <2>2. CASE ~(c = d /\ m = n)
    <3>1. m \in Wrote(c) /\ m # n
      BY <1>6, <1>8, <2>2
    <3>2. Attempted(c, m)
      BY <3>1 DEF TransactionsOK
    <3>3. written'[c][m] = written[c][m] /\ (m \in batch'[c] => m \in batch[c])
      BY <1>4, <1>5, <3>1
    <3>4. received'[m] = received[m]
      BY <1>3, <3>1
    <3> QED BY <3>2, <3>3, <3>4 DEF Attempted
  <2> QED BY <2>1, <2>2
<1>12. OutcomeIsEarned'
  <2>1. \A m \in Notifications : received[m] > 0 => received'[m] > 0
    BY <1>1, <1>3 DEF TypeOK
  <2> QED BY <2>1 DEF OutcomeIsEarned
<1>13. CountOK'
  <2> SUFFICES ASSUME NEW m \in Notifications, m \notin forgotten
               PROVE  received'[m] <= outbox[m].attempts + IF BeingWritten(m)' THEN 1 ELSE 0
    BY DEF CountOK
  <2>1. CASE m = n
    <3>1. ~BeingWritten(n) /\ BeingWritten(n)'
      BY <1>6, <1>8 DEF BeingWritten
    <3>2. received[n] <= outbox[n].attempts
      BY <1>1, <2>1, <3>1 DEF CountOK, OutboxRow
    <3> QED BY <1>1, <1>3, <2>1, <3>1, <3>2 DEF TypeOK, OutboxRow
  <2>2. CASE m # n
    <3>1. BeingWritten(m)' <=> BeingWritten(m)
      BY <1>6, <2>2 DEF BeingWritten
    <3> QED BY <1>3, <2>2, <3>1 DEF CountOK
  <2> QED BY <2>1, <2>2
<1>14. ToldOK'
  <2> SUFFICES ASSUME NEW m \in Notifications, m \notin forgotten, m \notin unanswered'
               PROVE  received'[m] = 0 \/ SentOnce(m)'
    BY DEF ToldOK
  <2>1. m \notin unanswered
    OBVIOUS
  <2>2. CASE m = n
    <3>1. outbox[n].status = "pending" /\ \A c \in Dispatchers : written[c][n] = NoRow
      BY <1>1, <1>8 DEF OneDispatcherPerRow, Locked, Wrote
    <3>2. received[n] = 0
      BY <2>1, <2>2, <3>1 DEF ToldOK, SentOnce, NoRow
    <3>3. CASE received' = received
      BY <2>2, <3>2, <3>3
    <3>4. CASE row = mark_sent(outbox[n]) /\ Tell(n)
      <4>1. received'[n] = 1
        BY <1>1, <3>2, <3>4, Told DEF TypeOK
      <4>2. written'[d][n].status = "sent"
        BY <1>1, <1>5, <3>4, UpdatesOfRow
      <4> QED BY <2>2, <4>1, <4>2 DEF SentOnce
    <3> QED BY <2>2, <3>3, <3>4
  <2>3. CASE m # n
    <3>1. \A c \in Dispatchers : written'[c][m] = written[c][m]
      BY <1>5, <2>3
    <3> QED BY <1>3, <2>1, <2>3, <3>1 DEF ToldOK, SentOnce
  <2> QED BY <2>2, <2>3
<1> QED
  BY <1>9, <1>10, <1>11, <1>12, <1>13, <1>14

\* A rollback forgets what the transaction wrote.
LEMMA RollbackKeepsDelivery ==
  ASSUME DeliveryInv, NEW d \in Dispatchers, Rollback(d)
  PROVE  DeliveryInv'
<1> USE DEF DeliveryInv
<1>1. /\ outbox' = outbox /\ due' = due /\ before' = before /\ received' = received
      /\ forgotten' = forgotten \cup Wrote(d) /\ unanswered' = unanswered
  BY DEF Rollback
<1>2. /\ batch'[d] = {} /\ \A c \in Dispatchers \ {d} : batch'[c] = batch[c]
      /\ written'[d] = Nothing /\ \A c \in Dispatchers \ {d} : written'[c] = written[c]
      /\ batch' \in [Dispatchers -> SUBSET Notifications]
      /\ written' \in [Dispatchers -> [Notifications -> OutboxRow \cup {NoRow}]]
  BY DEF Rollback, TypeOK, Nothing
<1>3. /\ Wrote(d)' = {} /\ \A c \in Dispatchers \ {d} : Wrote(c)' = Wrote(c)
  BY <1>2 DEF Wrote, Nothing
<1>4. /\ Locked(d)' = {} /\ \A c \in Dispatchers \ {d} : Locked(c)' = Locked(c)
  BY <1>2, <1>3 DEF Locked
<1>5. TypeOK'
  BY <1>1, <1>2 DEF TypeOK, Wrote
<1>6. OneDispatcherPerRow' /\ DueIsPending' /\ OutcomeIsEarned'
  BY <1>1, <1>4 DEF OneDispatcherPerRow, DueIsPending, OutcomeIsEarned
<1>7. TransactionsOK'
  BY <1>1, <1>2, <1>3 DEF TransactionsOK, Attempted
<1>8. CountOK'
  BY <1>1, <1>3 DEF CountOK, BeingWritten
<1>9. ToldOK'
  <2> SUFFICES ASSUME NEW n \in Notifications, n \notin forgotten', n \notin unanswered
               PROVE  received[n] = 0 \/ SentOnce(n)'
    BY <1>1 DEF ToldOK
  <2>1. n \notin forgotten /\ written[d][n] = NoRow
    BY <1>1 DEF Wrote
  <2>2. written[d][n].status # "sent"
    BY <2>1 DEF NoRow
  <2> QED BY <1>1, <1>2, <2>1, <2>2 DEF ToldOK, SentOnce
<1> QED
  BY <1>5, <1>6, <1>7, <1>8, <1>9

\* A commit stores what the transaction wrote, and lets go of its rows.
LEMMA CommitKeepsDelivery ==
  ASSUME DeliveryInv, NEW d \in Dispatchers, Commit(d)
  PROVE  DeliveryInv'
<1> USE DEF DeliveryInv
<1>1. /\ batch' = batch /\ received' = received /\ forgotten' = forgotten /\ batch[d] = {}
      /\ unanswered' = unanswered
      /\ due' = due \ Wrote(d) /\ before' = before \cap (due' \X due')
  BY DEF Commit
<1>2. /\ written'[d] = Nothing /\ \A c \in Dispatchers \ {d} : written'[c] = written[c]
      /\ written' \in [Dispatchers -> [Notifications -> OutboxRow \cup {NoRow}]]
  BY DEF Commit, TypeOK, Nothing
<1>3. /\ Wrote(d)' = {} /\ \A c \in Dispatchers \ {d} : Wrote(c)' = Wrote(c)
  BY <1>2 DEF Wrote, Nothing
<1>4. /\ Locked(d)' = {} /\ \A c \in Dispatchers \ {d} : Locked(c)' = Locked(c)
  BY <1>1, <1>3 DEF Locked
<1>5. /\ \A n \in Wrote(d) : outbox'[n] = written[d][n]
      /\ \A n \in Notifications \ Wrote(d) : outbox'[n] = outbox[n]
      /\ Wrote(d) \subseteq Notifications
  BY DEF Commit, Wrote
<1>6. ASSUME NEW n \in Wrote(d)
      PROVE  /\ outbox'[n] \in OutboxRow
             /\ outbox[n].attempts \in Nat /\ outbox[n].status = "pending"
             /\ outbox'[n].attempts = outbox[n].attempts + 1
             /\ \/ outbox'[n].status = "sent" /\ received[n] > 0
                \/ outbox'[n].status =
                     IF outbox[n].attempts + 1 >= MaxDeliveries THEN "failed" ELSE "pending"
  <2>1. n \in Notifications /\ outbox[n] \in OutboxRow /\ outbox'[n] = written[d][n]
    BY <1>5 DEF TypeOK
  <2>2. Attempted(d, n) /\ outbox[n].status = "pending"
    BY DEF TransactionsOK, OneDispatcherPerRow, Locked
  <2>3. outbox[n].attempts \in Nat
    BY <2>1 DEF OutboxRow
  <2>4. CASE written[d][n] = mark_sent(outbox[n]) /\ received[n] > 0
    BY <2>1, <2>2, <2>3, <2>4, UpdatesOfRow
  <2>5. CASE written[d][n] = on_failure(outbox[n])
    BY <2>1, <2>2, <2>3, <2>5, UpdatesOfRow
  <2> QED BY <2>2, <2>4, <2>5 DEF Attempted
<1>7. TypeOK'
  <2>1. outbox' = [n \in Notifications |-> IF n \in Wrote(d) THEN written[d][n] ELSE outbox[n]]
    BY DEF Commit
  <2>2. outbox' \in [Notifications -> OutboxRow]
    BY <1>5, <1>6, <2>1 DEF TypeOK
  <2> QED BY <1>1, <1>2, <2>2 DEF TypeOK
<1>8. DueIsPending'
  BY <1>1, <1>5 DEF DueIsPending, TypeOK
<1>9. \A c \in Dispatchers \ {d} : \A n \in Locked(c) : n \in Notifications /\ outbox'[n] = outbox[n]
  BY <1>5 DEF OneDispatcherPerRow, Locked, Wrote, TypeOK
<1>10. OneDispatcherPerRow'
  BY <1>4, <1>9 DEF OneDispatcherPerRow
<1>11. TransactionsOK'
  BY <1>1, <1>2, <1>3, <1>9 DEF TransactionsOK, Attempted, Locked
<1>12. OutcomeIsEarned'
  <2> SUFFICES ASSUME NEW n \in Notifications
               PROVE  /\ outbox'[n].status = "sent" => received[n] > 0
                      /\ outbox'[n].status = "failed" => outbox'[n].attempts = MaxDeliveries
                      /\ outbox'[n].status \in {"absent", "pending"} =>
                           outbox'[n].attempts < MaxDeliveries
    BY <1>1 DEF OutcomeIsEarned
  <2>1. CASE n \in Wrote(d)
    <3>1. outbox[n].attempts < MaxDeliveries
      BY <1>6, <2>1 DEF OutcomeIsEarned
    <3> QED BY <1>6, <2>1, <3>1, MaxDeliveriesIsPositive
  <2>2. CASE n \notin Wrote(d)
    BY <1>5, <2>2 DEF OutcomeIsEarned
  <2> QED BY <2>1, <2>2
<1>13. CountOK'
  <2> SUFFICES ASSUME NEW n \in Notifications, n \notin forgotten
               PROVE  received[n] <= outbox'[n].attempts + IF BeingWritten(n)' THEN 1 ELSE 0
    BY <1>1 DEF CountOK
  <2>1. CASE n \in Wrote(d)
    <3>1. BeingWritten(n) /\ ~BeingWritten(n)'
      BY <1>3, <2>1 DEF BeingWritten, OneDispatcherPerRow, Locked
    <3>2. received[n] <= outbox[n].attempts + 1
      BY <3>1 DEF CountOK
    <3> QED BY <1>6, <2>1, <3>1, <3>2
  <2>2. CASE n \notin Wrote(d)
    <3>1. BeingWritten(n)' <=> BeingWritten(n)
      BY <1>3, <2>2 DEF BeingWritten
    <3> QED BY <1>5, <2>2, <3>1 DEF CountOK
  <2> QED BY <2>1, <2>2
<1>14. ToldOK'
  <2> SUFFICES ASSUME NEW n \in Notifications, SentOnce(n)
               PROVE  SentOnce(n)'
    BY <1>1 DEF ToldOK
  <2>1. received'[n] = 1
    BY <1>1 DEF SentOnce
  <2>2. CASE outbox[n].status = "sent"
    <3>1. n \notin Wrote(d)
      BY <2>2 DEF OneDispatcherPerRow, Locked
    <3> QED BY <1>5, <2>1, <2>2, <3>1 DEF SentOnce
  <2>3. ASSUME NEW c \in Dispatchers, written[c][n].status = "sent" PROVE SentOnce(n)'
    <3>1. n \in Wrote(c)
      BY <2>3 DEF Wrote, NoRow
    <3>2. CASE c = d
      BY <1>5, <2>1, <2>3, <3>1, <3>2 DEF SentOnce
    <3>3. CASE c # d
      BY <1>2, <2>1, <2>3, <3>3 DEF SentOnce
    <3> QED BY <3>2, <3>3
  <2> QED BY <2>2, <2>3 DEF SentOnce
<1> QED
  BY <1>7, <1>8, <1>10, <1>11, <1>12, <1>13, <1>14

-----------------------------------------------------------------------------
(***************************************************************************)
(* The theorems.                                                           *)
(***************************************************************************)
LEMMA NextKeepsDelivery == DeliveryInv /\ [Next]_deliveryVars => DeliveryInv'
<1> SUFFICES ASSUME DeliveryInv, [Next]_deliveryVars PROVE DeliveryInv'
  OBVIOUS
<1>1. ASSUME NEW n \in Notifications, Enqueue(n) \/ FallsDue(n) PROVE DeliveryInv'
  BY <1>1, DueKeepsDelivery
<1>2. ASSUME NEW d \in Dispatchers, Deliver(d) PROVE DeliveryInv'
  BY <1>2, AttemptKeepsDelivery DEF Deliver, IsNext
<1>3. ASSUME NEW d \in Dispatchers, DeliveryFails(d) PROVE DeliveryInv'
  BY <1>3, AttemptKeepsDelivery DEF DeliveryFails, IsNext
<1>4. ASSUME NEW d \in Dispatchers, DeliveryRaises(d) \/ TickFails(d) PROVE DeliveryInv'
  BY <1>4, RollbackKeepsDelivery DEF DeliveryRaises, TickFails
<1>5. ASSUME NEW d \in Dispatchers, Dispatch(d) PROVE DeliveryInv'
  BY <1>2, <1>3, <1>4, <1>5, ClaimKeepsDelivery, CommitKeepsDelivery DEF Dispatch
<1>6. CASE UNCHANGED deliveryVars
  <2>1. /\ outbox' = outbox /\ due' = due /\ before' = before /\ batch' = batch
        /\ written' = written /\ received' = received /\ forgotten' = forgotten
        /\ unanswered' = unanswered
    BY <1>6 DEF deliveryVars
  <2>2. \A d \in Dispatchers : Wrote(d)' = Wrote(d) /\ Locked(d)' = Locked(d)
    BY <2>1 DEF Wrote, Locked
  <2>3. TypeOK' /\ DueIsPending' /\ OutcomeIsEarned' /\ ToldOK'
    BY <2>1 DEF DeliveryInv, TypeOK, DueIsPending, OutcomeIsEarned, ToldOK, SentOnce
  <2>4. OneDispatcherPerRow' /\ CountOK'
    BY <2>1, <2>2 DEF DeliveryInv, OneDispatcherPerRow, CountOK, BeingWritten
  <2>5. TransactionsOK'
    BY <2>1, <2>2 DEF DeliveryInv, TransactionsOK, Attempted
  <2> QED BY <2>3, <2>4, <2>5 DEF DeliveryInv
<1> QED
  BY <1>1, <1>4, <1>5, <1>6 DEF Next, Calm

LEMMA DeliveryInvariant == Spec => []DeliveryInv
BY InitDelivery, NextKeepsDelivery, PTL DEF Spec

\* Every variable of the delivery keeps its type.
THEOREM DeliveryTypeCorrect == Spec => []TypeOK
<1>1. DeliveryInv => TypeOK
  BY DEF DeliveryInv
<1> QED BY <1>1, DeliveryInvariant, PTL

\* No two schedulers work on one row, and a row is worked on only while it is
\* pending: SKIP LOCKED, and locks that are kept to the end of dispatch_due.
THEOREM OneDispatcherAlways == Spec => []OneDispatcherPerRow
<1>1. DeliveryInv => OneDispatcherPerRow
  BY DEF DeliveryInv
<1> QED BY <1>1, DeliveryInvariant, PTL

\* A row is marked as sent only when its receiver was told, and given up on
\* after exactly notification_max_attempts attempts, over rollbacks too.
THEOREM OutcomeIsAlwaysEarned == Spec => []OutcomeIsEarned
<1>1. DeliveryInv => OutcomeIsEarned
  BY DEF DeliveryInv
<1> QED BY <1>1, DeliveryInvariant, PTL

\* A receiver is told twice only after a call that failed for the caller alone,
\* or one that dispatch_due rolled back.
THEOREM TwiceOnlyAfterLoss == Spec => []NotifiedTwiceOnlyAfterLoss
<1>1. DeliveryInv => NotifiedTwiceOnlyAfterLoss
  BY DEF DeliveryInv, ToldOK, SentOnce, NotifiedTwiceOnlyAfterLoss
<1> QED BY <1>1, DeliveryInvariant, PTL

\* A receiver none of whose calls was rolled back is told at most once per
\* recorded attempt.
THEOREM CallsAreAlwaysCounted == Spec => []CallsAreCounted
<1>1. DeliveryInv => CallsAreCounted
  BY WritersAreOne DEF DeliveryInv, CallsAreCounted, CountOK
<1> QED BY <1>1, DeliveryInvariant, PTL

=============================================================================
