---------------------------- MODULE JobLifecycle ----------------------------
(***************************************************************************)
(* What the orchestrator promises about a job, whoever runs it and however *)
(* often it is delivered: the life of a job as its user sees it, with no   *)
(* queue, no worker, no lease and no scheduler.                            *)
(***************************************************************************)
EXTENDS Naturals, JobDomain

CONSTANT Jobs

VARIABLE view  \* per job, what the API shows and the user is notified of

Unsubmitted == [status |-> "absent", attempts |-> 0, result |-> 0, notified |-> {}]

Init == view = [j \in Jobs |-> Unsubmitted]

-----------------------------------------------------------------------------
\* Each relates what is seen of one job before and after a step.
Submitted(v, u) ==
  v = Unsubmitted /\ u = [Unsubmitted EXCEPT !.status = "pending"]

\* An attempt begins, from the queue or while the job waits for its retry.
Starts(v, u) ==
  /\ v.status \in CLAIMABLE
  /\ u = [status |-> "running", attempts |-> v.attempts + 1,
           result |-> v.result, notified |-> v.notified]

\* The job moves between statuses that are not final.
Moves(v, u) ==
  /\ can_transition(v.status, u.status)
  /\ u.status \in {"queued", "retrying", "cancelling"}
  /\ u = [v EXCEPT !.status = u.status]

\* The job ends.  Its one notification tells its outcome, and a result is
\* that of one of its attempts.
Ends(v, u) ==
  /\ can_transition(v.status, u.status)
  /\ is_terminal(u.status)
  /\ u.attempts = v.attempts
  /\ u.result \in (IF u.status = "succeeded" THEN 1 .. v.attempts ELSE {0})
  /\ u.notified = {u.status}

Next ==
  \A j \in Jobs :
    \/ view'[j] = view[j]
    \/ Submitted(view[j], view'[j])
    \/ Starts(view[j], view'[j])
    \/ Moves(view[j], view'[j])
    \/ Ends(view[j], view'[j])

Spec == Init /\ [][Next]_view

=============================================================================
