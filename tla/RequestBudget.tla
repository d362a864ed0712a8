---------------------------- MODULE RequestBudget ----------------------------
(***************************************************************************)
(* One book_appointment request against the clock: every call of           *)
(* core/booking.py and core/recovery.py in its order, with the timeout it  *)
(* gets from what is left of the budget. What the calls find is left open  *)
(* here, Booking says what they do.                                        *)
(***************************************************************************)
EXTENDS Deadline

CONSTANTS POLL_INTERVAL, RELEASE_GRACE, CLAIM_TTL, MAX_ROUNDS, MAX_CAS_ROUNDS,
          CellCounts,   \* how many cells a booking may need
          Lapses,       \* what a call may take, besides all of its timeout
          MaxExtras     \* bound on the duplicate events a request finds

ASSUME BudgetAssumption ==
  /\ {POLL_INTERVAL, RELEASE_GRACE, CLAIM_TTL, MAX_ROUNDS, MAX_CAS_ROUNDS} \subseteq Nat \ {0}
  /\ CellCounts \subseteq Nat \ {0} /\ Lapses \subseteq Nat /\ MaxExtras \in Nat
  /\ RELEASE_GRACE <= CLAIM_TIMEOUT
  /\ TOTAL_BUDGET + 2 * RELEASE_GRACE < CLAIM_TTL

VARIABLE req

Calls == {"arrived", "keys", "identity", "read", "replay", "poll", "pollRead", "pollLookup",
          "find", "busy", "busyRead", "guard", "claim", "create", "lookup", "dedupe",
          "finalize", "readAttempt", "release", "recover", "siblings", "recWrite",
          "recSiblings", "recRead", "done"}

(* The request before its first call. *)
Arrived(n) ==
  [pc      |-> "arrived",
   spent   |-> 0,          \* of the budget
   cells   |-> n,
   claimed |-> 0,          \* cells claimed in step 6
   round   |-> 1,          \* of _run
   pass    |-> 1,          \* of the loop of step 2
   recOnce |-> FALSE,      \* recovered_once of step 2
   caller  |-> "step2",    \* who polls or recovers
   retried |-> FALSE,      \* of step 6
   cas     |-> 1,          \* round of recover_cell
   next    |-> "done",     \* what follows a release, or a read of an attempt's cells
   slept   |-> FALSE,      \* the poll has slept at least once
   tries   |-> 0,          \* what went wrong: an uncertain create, then a second one
   extras  |-> 0]          \* duplicates to delete

Init == req \in {Arrived(n) : n \in CellCounts}

To(pc) == [req EXCEPT !.pc = pc]
Over == [Arrived(req.cells) EXCEPT !.pc = "done", !.spent = req.spent]

Left == remaining(req.spent)

(* A call under a timeout: it answers or fails; without time for it,       *)
(* DeadlineExceeded fails it before it is made.                            *)
Call(limit, reserve, answers, failures) ==
  LET timeout == timeout_for(req.spent, limit, reserve)
  IN  IF timeout <= 0 THEN req' \in failures
      ELSE \E d \in Lapses \cup {timeout} : \E s \in answers \cup failures :
             d <= timeout /\ req' = [s EXCEPT !.spent = req.spent + d]

(* Mutated form: a release takes what any call to the store takes.         *)
_release_timeout_full == CLAIM_TIMEOUT

(* Best effort, all cells at once: a grace is left when nothing else is.   *)
_release_timeout ==
  LET within == timeout_for(req.spent, CLAIM_TIMEOUT, 0)
  IN  IF within > RELEASE_GRACE THEN within ELSE RELEASE_GRACE

BestEffort(answers) ==
  \E d \in Lapses \cup {_release_timeout} : \E s \in answers :
    d <= _release_timeout /\ req' = [s EXCEPT !.spent = req.spent + d]

-----------------------------------------------------------------------------
(* Ways on. *)

(* Back to step 2: another round of _run, or of the loop of step 2.        *)
Again ==
  IF req.round = MAX_ROUNDS THEN Over
  ELSE [Arrived(req.cells) EXCEPT !.pc = "read", !.spent = req.spent, !.round = req.round + 1]

Reread ==
  IF req.pass = MAX_ROUNDS THEN Over
  ELSE [Arrived(req.cells) EXCEPT !.pc = "read", !.spent = req.spent, !.round = req.round,
          !.pass = req.pass + 1, !.recOnce = req.recOnce]

Polling(caller) == [req EXCEPT !.pc = "poll", !.caller = caller, !.slept = FALSE]
Recovering(caller) == [req EXCEPT !.pc = "recover", !.caller = caller, !.cas = 1]

(* _release_all, which does nothing for an attempt that claimed nothing.   *)
Releasing(next) == [req EXCEPT !.pc = "release", !.next = next]

ReleaseThen(next) ==
  IF req.claimed > 0 THEN Releasing(next)
  ELSE IF next = "again" THEN Again ELSE Over

-----------------------------------------------------------------------------
(* Steps 1 to 3. *)

(* The dispatcher starts the budget before it checks who calls.            *)
Authenticate ==
  /\ req.pc = "arrived"
  /\ Call(TOTAL_BUDGET, 0, {To("keys"), Over}, {Over})

_load_keys ==
  /\ req.pc = "keys"
  /\ Call(SECRET_TIMEOUT, 0, {To("identity"), Over}, {Over})

(* calendar_key: the identity is cached, or asked for. *)
calendar_key ==
  /\ req.pc = "identity"
  /\ req' = To("read") \/ Call(PROVIDER_TIMEOUT, 0, {To("read")}, {Over})

_step2_replay_claims ==
  /\ req.pc = "read"
  /\ Call(CLAIM_TIMEOUT, 0,
          {To("find"), To("replay"), Polling("step2"),
           IF req.recOnce THEN Over ELSE [Recovering("step2") EXCEPT !.recOnce = TRUE]}, {Over})

(* The event is in the request's cache, or asked for; if it is gone, the   *)
(* cells of its attempt are read and released.                             *)
_replay_booked ==
  /\ req.pc = "replay"
  /\ LET answers == {Over, [To("readAttempt") EXCEPT !.next = "release"]}
     IN  req' \in answers \/ Call(PROVIDER_TIMEOUT, 0, answers, {Over})

_for_attempt ==
  /\ req.pc = "readAttempt"
  /\ BestEffort(IF req.next = "release" THEN {Over, Releasing("done")} ELSE {To("finalize")})

PollReserve == PROVIDER_TIMEOUT + 2 * CLAIM_TIMEOUT

(* Mutated form: polls as long as there is time at all.                    *)
PollsOn == Left > POLL_INTERVAL

Polls == Left - POLL_INTERVAL >= PollReserve

_poll_own_pending ==
  /\ req.pc = "poll"
  /\ IF Polls
     THEN req' = [To("pollRead") EXCEPT !.spent = @ + POLL_INTERVAL, !.slept = TRUE]
     ELSE req' = To("pollLookup")

PollRead ==
  /\ req.pc = "pollRead"
  /\ LET back == IF req.caller = "step2" THEN {To("find"), Reread} ELSE {Again}
     IN  Call(CLAIM_TIMEOUT, PollReserve, {To("replay"), To("poll")} \cup back,
              {To("pollLookup"), Over})

PollLookup ==
  /\ req.pc = "pollLookup"
  /\ Call(PROVIDER_TIMEOUT, 0, {Over, [To("readAttempt") EXCEPT !.next = "finalize"]}, {Over})

_step3_replay_calendar_and_limit ==
  /\ req.pc = "find"
  /\ Call(PROVIDER_TIMEOUT, 0, {Over, To("busy")}, {Over})

-----------------------------------------------------------------------------
(* Steps 5 and 6. *)

_step5_recheck ==
  /\ req.pc = "busy"
  /\ Call(PROVIDER_TIMEOUT, 0, {To("busyRead"), To("guard")}, {Over})

BusyRead ==
  /\ req.pc = "busyRead"
  /\ Call(CLAIM_TIMEOUT, 0, {Again, Over}, {Over})

Guard ==
  /\ req.pc = "guard"
  /\ req' = IF booking_fits(Left, req.cells)
            THEN [To("claim") EXCEPT !.claimed = 0, !.retried = FALSE] ELSE Over

CreateReserve == PROVIDER_TIMEOUT + CLAIM_TIMEOUT

Claimed ==
  [req EXCEPT !.claimed = @ + 1, !.retried = FALSE,
     !.pc = IF req.claimed + 1 = req.cells THEN "create" ELSE "claim"]

(* _on_held: ours on the first cell, live or met for the second time, or   *)
(* to be recovered.                                                        *)
_on_held ==
  {ReleaseThen("done")}
    \cup (IF req.claimed = 0 THEN {Again} ELSE {})
    \cup (IF req.retried THEN {ReleaseThen("again")} ELSE {Recovering("step6")})
    \cup (IF req.claimed > 0 /\ ~req.retried THEN {Releasing("poll")} ELSE {})

(* Mutated form: a claim keeps nothing in reserve for the create.          *)
_step6_claim_unreserved ==
  /\ req.pc = "claim"
  /\ Call(CLAIM_TIMEOUT, 0, {Claimed} \cup _on_held, {ReleaseThen("done")})

_step6_claim ==
  /\ req.pc = "claim"
  /\ Call(CLAIM_TIMEOUT, CreateReserve, {Claimed} \cup _on_held, {ReleaseThen("done")})

_release_all ==
  /\ req.pc = "release"
  /\ LET after == CASE req.next = "again" -> Again
                    [] req.next = "poll" -> [Polling("step6") EXCEPT !.claimed = 0]
                    [] req.next = "done" -> Over
     IN  BestEffort({after})

-----------------------------------------------------------------------------
(* core/recovery.py: recover_cell, for step 2 or, with the create's time   *)
(* in reserve, for step 6.                                                 *)

Reserve == IF req.caller = "step2" THEN 0 ELSE CreateReserve

(* What the caller does with the outcome. A cell whose record was judged   *)
(* anew is claimed again, unless another contact's could not be judged.    *)
Rejudged == req.cas > 1 \/ req.pc = "recRead"
Retry == [req EXCEPT !.pc = "claim", !.retried = TRUE]
Failed ==
  IF req.caller = "step2" THEN {Over}
  ELSE {ReleaseThen("done")} \cup (IF Rejudged THEN {Retry} ELSE {})
Recovered ==
  IF req.caller = "step2" THEN {Reread}
  ELSE {Retry} \cup (IF Rejudged THEN {} ELSE {ReleaseThen("done"), ReleaseThen("again")})

(* The booking of a stale record is looked up, that of a booked one asked  *)
(* for, unless it is known.                                                *)
_evaluate ==
  /\ req.pc = "recover"
  /\ \/ Call(PROVIDER_TIMEOUT, Reserve, {To("siblings"), To("recWrite")} \cup Recovered,
             Failed)
     \/ req' \in Recovered \cup {To("recWrite")}

_stale_siblings ==
  /\ req.pc = "siblings"
  /\ LET answers == {To("recWrite")} \cup Recovered
     IN  Call(CLAIM_TIMEOUT, Reserve, answers, answers)

_cas ==
  /\ req.pc = "recWrite"
  /\ Call(CLAIM_TIMEOUT, Reserve, {To("recSiblings"), To("recRead")} \cup Recovered,
          Failed)

_best_effort ==
  /\ req.pc = "recSiblings"
  /\ Call(CLAIM_TIMEOUT, Reserve, Recovered, Recovered)

(* The compare-and-swap was lost: the cell is read again. *)
ReadAgain ==
  /\ req.pc = "recRead"
  /\ LET back == IF req.cas = MAX_CAS_ROUNDS THEN {} ELSE {[To("recover") EXCEPT !.cas = @ + 1]}
     IN  Call(CLAIM_TIMEOUT, Reserve, back \cup Recovered, Failed)

-----------------------------------------------------------------------------
(* Steps 7 and 8. *)

(* A create that may have reached the vendor is looked up, made once more, *)
(* and looked up again.                                                    *)
_create ==
  /\ req.pc = "create"
  /\ IF req.tries = 0
     THEN Call(PROVIDER_TIMEOUT, 0, {To("finalize")},
               {ReleaseThen("done"), [To("lookup") EXCEPT !.tries = 1]})
     ELSE Call(PROVIDER_TIMEOUT, 0, {[To("lookup") EXCEPT !.tries = 2]},
               {[To("lookup") EXCEPT !.tries = 2]})

Keeping == {[req EXCEPT !.pc = IF n = 0 THEN "finalize" ELSE "dedupe", !.extras = n] :
              n \in 0..MaxExtras}

_lookup_ours ==
  /\ req.pc = "lookup"
  /\ Call(PROVIDER_TIMEOUT, 0,
          Keeping \cup {IF req.tries = 1 THEN To("create") ELSE Over},
          {Over} \cup (IF req.tries = 1 THEN {} ELSE {To("finalize")}))

_keep_one ==
  /\ req.pc = "dedupe"
  /\ LET rest == {[req EXCEPT !.extras = @ - 1,
                     !.pc = IF req.extras = 1 THEN "finalize" ELSE "dedupe"]}
     IN  Call(PROVIDER_TIMEOUT, 0, rest, rest)

_finalize_cells ==
  /\ req.pc = "finalize"
  /\ Call(CLAIM_TIMEOUT, 0, {Over}, {Over})

-----------------------------------------------------------------------------
Next ==
  \/ Authenticate \/ _load_keys \/ calendar_key
  \/ _step2_replay_claims \/ _replay_booked \/ _for_attempt
  \/ _poll_own_pending \/ PollRead \/ PollLookup \/ _step3_replay_calendar_and_limit
  \/ _step5_recheck \/ BusyRead \/ Guard \/ _step6_claim \/ _release_all
  \/ _evaluate \/ _stale_siblings \/ _cas \/ _best_effort \/ ReadAgain
  \/ _create \/ _lookup_ours \/ _keep_one \/ _finalize_cells

Spec == Init /\ [][Next]_req

-----------------------------------------------------------------------------
Local ==
  [pc : Calls, spent : Nat, cells : CellCounts, claimed : Nat, round : 1..MAX_ROUNDS,
   pass : 1..MAX_ROUNDS, recOnce : BOOLEAN, caller : {"step2", "step6"}, retried : BOOLEAN,
   cas : 1..MAX_CAS_ROUNDS, next : {"done", "again", "poll", "release", "finalize"},
   slept : BOOLEAN, tries : 0..2, extras : 0..MaxExtras]

(* No loop goes round more often than it may, no more cells are claimed    *)
(* than the booking needs, and every part of a request has its type.       *)
BudgetTypeOK == req \in Local /\ req.claimed <= req.cells

(* However slow its calls, a request overruns its budget by two graces at  *)
(* most, so that it is long over when the first of its claims goes stale   *)
(* (core/recovery.py, CLAIM_TTL: "its owning attempt has certainly         *)
(* ended"): Booking's clock relies on it.                                  *)
OverBeforeStale ==
  req.spent <= TOTAL_BUDGET + 2 * RELEASE_GRACE /\ req.spent < CLAIM_TTL

(* A slow store or a recovery cannot starve the create: when the claims    *)
(* are made it has its full timeout, and if it answers, so has the         *)
(* finalize. Likewise an attempt that polled another of ours keeps the     *)
(* time for the lookup, the read and the finalize that follow.             *)
CreateHasItsTime ==
  /\ req.pc = "create" /\ req.tries = 0 => Left >= PROVIDER_TIMEOUT + CLAIM_TIMEOUT
  /\ req.pc = "finalize" /\ req.tries = 0 /\ req.next # "finalize" => Left >= CLAIM_TIMEOUT

PollLeavesItsTime ==
  /\ req.pc = "pollLookup" /\ req.slept => Left >= PROVIDER_TIMEOUT + 2 * CLAIM_TIMEOUT
  /\ req.pc = "finalize" /\ req.slept /\ req.next = "finalize" => Left >= CLAIM_TIMEOUT

=============================================================================
