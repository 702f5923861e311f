---------------------------- MODULE MCJobCatalog ----------------------------
(***************************************************************************)
(* Small instances of the handlers for TLC.                                *)
(***************************************************************************)
EXTENDS JobCatalog

Steps(type, n) ==
  [type |-> type, steps |-> n, fail_times |-> 0, simulate_rate_limit |-> FALSE]

\* Two steps of work, one failure, a rate limit and an error for good.
SmallWorks ==
  {Steps("sleep", 2),
   [Steps("llm_summary", 1) EXCEPT !.simulate_rate_limit = TRUE],
   [Steps("flaky", 0) EXCEPT !.fail_times = 1],
   Steps("always_fail", 0)}
=============================================================================
