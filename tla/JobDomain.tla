------------------------------ MODULE JobDomain ------------------------------
(***************************************************************************)
(* The domain layer: the job statuses, the transition table the repository *)
(* publishes as its state machine, and the groups of statuses that the     *)
(* guarded UPDATEs of the job repository name in their WHERE clauses.      *)
(***************************************************************************)

\* JobStatus, the values of the column jobs.status.
JobStatus ==
  {"pending", "queued", "running", "retrying", "succeeded", "failed",
   "cancelling", "cancelled", "expired"}

TERMINAL_STATUSES == {"succeeded", "failed", "cancelled", "expired"}

\* The edges of the domain's table VALID_TRANSITIONS, as a set of pairs.
VALID_TRANSITIONS ==
  ({"pending"} \X {"queued", "cancelled", "expired"})
    \cup ({"queued"} \X {"running", "cancelled", "expired"})
    \cup ({"running"} \X {"succeeded", "failed", "retrying", "cancelling", "queued"})
    \cup ({"retrying"} \X {"queued", "cancelled"})
    \cup ({"cancelling"} \X {"cancelled", "succeeded", "failed"})

can_transition(source, target) == <<source, target>> \in VALID_TRANSITIONS

is_terminal(status) == status \in TERMINAL_STATUSES

-----------------------------------------------------------------------------
\* The status groups of the repository's WHERE clauses.
CLAIMABLE == {"queued", "retrying"}

FINALIZABLE == {"running", "cancelling"}

\* Mutation: a running job is cancelled at once, without its worker.
INACTIVE_CANCELLABLE_mutant == {"pending", "queued", "running", "retrying"}

INACTIVE_CANCELLABLE == {"pending", "queued", "retrying"}

EXPIRABLE == {"pending", "queued"}

=============================================================================
