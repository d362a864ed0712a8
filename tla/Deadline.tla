------------------------------- MODULE Deadline -------------------------------
(***************************************************************************)
(* The budget of a request (core/deadline.py), counted in units that       *)
(* divide every constant of the code.                                      *)
(***************************************************************************)
EXTENDS Integers

CONSTANTS TOTAL_BUDGET, RESERVE, PROVIDER_TIMEOUT, CLAIM_TIMEOUT, SECRET_TIMEOUT,
          EXPECTED_CLAIM_LATENCY

ASSUME DeadlineAssumption ==
  /\ {TOTAL_BUDGET, RESERVE, PROVIDER_TIMEOUT, CLAIM_TIMEOUT, SECRET_TIMEOUT,
      EXPECTED_CLAIM_LATENCY} \subseteq Nat \ {0}
  /\ RESERVE + PROVIDER_TIMEOUT + CLAIM_TIMEOUT <= TOTAL_BUDGET

(* What the claims, one create and one finalize are expected to take leaves *)
(* the reserve.                                                             *)
claim_cells_fit_budget(cells) ==
  cells * EXPECTED_CLAIM_LATENCY + PROVIDER_TIMEOUT + CLAIM_TIMEOUT <= TOTAL_BUDGET - RESERVE

remaining(spent) == IF spent < TOTAL_BUDGET THEN TOTAL_BUDGET - spent ELSE 0

(* A call's timeout; without a positive one it is not made at all.         *)
timeout_for(spent, limit, reserve) ==
  IF remaining(spent) - reserve < limit THEN remaining(spent) - reserve ELSE limit

(* The guard of booking's step 5: no claim without time for all of it.     *)
booking_fits(left, cells) ==
  left >= cells * EXPECTED_CLAIM_LATENCY + PROVIDER_TIMEOUT + CLAIM_TIMEOUT
=============================================================================
