------------------------------ MODULE Recovery ------------------------------
(***************************************************************************)
(* core/recovery.py: what a request does about a stale or unverified claim *)
(* it met at step 2 (its own first cell) or at step 6 (any cell).  Every   *)
(* await is an action; recover_cell's outcome returns to its caller.       *)
(***************************************************************************)
EXTENDS BookingRequest

vars == <<claimVars, events, req>>

(* Outcome of recover_cell at step 6, _on_held.  A freed cell is claimed   *)
(* once more; so is one whose record changed under the recoverer, unless   *)
(* recovering another contact's record failed.  Otherwise the request gives *)
(* up its cells and answers for the record it met.                         *)
ResumeClaim(r, s, action) ==
  LET ours == Ours(r, s.seen)
      failed == action = "failed"
      rechecked == s.cas > 1
      answer == IF ours THEN IF failed THEN "unconfirmed" ELSE "booked"
                        ELSE IF failed THEN "unavailable" ELSE "taken"
  IN IF action = "released" \/ (rechecked /\ (ours \/ ~failed))
     THEN [s EXCEPT !.pc = "claim", !.retried = TRUE, !.seen = None,
                    !.cas = 1, !.found = None, !.todo = {}]
     ELSE ReleaseThen(r, s, Acquired(r), answer)

(* Outcome of recover_cell at step 2: read the first cell again, knowing   *)
(* the event just found, unless recovery failed.                           *)
ResumeReplay(r, s, action) ==
  IF action = "failed"
  THEN Done(r, "unconfirmed")
  ELSE Reread(r, IF action = "finalized"
                 THEN [s EXCEPT !.cache[s.found] =
                         IF events[s.found] = "moved" THEN "moved" ELSE "live"]
                 ELSE s)

Resume(r, s, action) ==
  IF s.caller = "step2" THEN ResumeReplay(r, s, action) ELSE ResumeClaim(r, s, action)

(* recover_cell enters with the record met, or re-enters with a re-read    *)
(* one: a live claim is held, anything else is judged.                     *)
Judge(r, s, live) == IF live THEN Resume(r, s, "held") ELSE [s EXCEPT !.pc = "recover"]

(* A stale pending record: did its owner create?  The lookup names the     *)
(* record's own binding.                                                   *)
RecoverPending(r) ==
  LET s == req[r] IN
  /\ s.pc = "recover" /\ s.seen.state = "pending"
  /\ \/ \E hits \in Lookups(FpOf[s.seen.owner], BindingOf[s.seen.owner]) :
        \/ \E e \in hits : Goto(r, [s EXCEPT !.pc = "recWrite", !.found = e])
        \/ hits = {} /\ Goto(r, [s EXCEPT !.pc = "recWrite", !.found = None])
     \/ Goto(r, Resume(r, s, "failed"))
  /\ UNCHANGED <<claimVars, events>>

(* A booked record: does its event still cover the cell (get_event, once   *)
(* per event and request)?  A moved one may or may not.                    *)
RecoverBooked(r) ==
  LET s == req[r]
      e == s.seen.event
      status == IF s.cache[e] = "none" THEN events[e] ELSE s.cache[e]
      known == [s EXCEPT !.cache[e] = status]
  IN
  /\ s.pc = "recover" /\ s.seen.state = "booked"
  /\ \/ status \notin Absent /\ Goto(r, Resume(r, known, "kept"))
     \/ status \in {"moved"} \cup Absent
        /\ Goto(r, [known EXCEPT !.pc = "recWrite", !.found = None])
     \/ s.cache[e] = "none" /\ Goto(r, Resume(r, s, "failed"))
  /\ UNCHANGED <<claimVars, events>>

(* What the recoverer writes into the cell it judged. *)
Verdict(s) == IF s.found = None THEN None ELSE BookedAs(s.seen, s.found)

(* The cell changed since it was read: PreconditionFailed. *)
Lost(s) == claims[s.at] \notin (IF s.found = None THEN {s.seen, None} ELSE {s.seen})

(* The compare-and-swap on the cell itself.  A lost one is re-read; a      *)
(* failed one may have been applied before its answer was lost.            *)
RecoverWrite(r) ==
  LET s == req[r]
      others == IF s.seen.state = "pending" THEN CellsOfSeen(s) \ {s.at} ELSE {}
      swap == IF s.found = None THEN Release(s.at, s.seen)
              ELSE Replace(s.at, s.seen, Verdict(s))
      done == IF s.found = None THEN "released" ELSE "finalized"
  IN
  /\ s.pc = "recWrite"
  /\ \/ /\ swap
        /\ Goto(r, IF others = {} THEN Resume(r, s, done)
                   ELSE [s EXCEPT !.pc = "siblings", !.todo = others])
     \/ /\ swap \/ UNCHANGED claimVars
        /\ Goto(r, Resume(r, s, "failed"))
     \/ /\ Lost(s)
        /\ Goto(r, [s EXCEPT !.pc = "recRead"])
        /\ UNCHANGED claimVars
  /\ UNCHANGED events

(* After a lost compare-and-swap the cell is read again and judged afresh, *)
(* at most MAX_CAS_ROUNDS times.                                           *)
RecoverRead(r) ==
  LET s == req[r]
      held == claims[s.at]
      lost == [s EXCEPT !.cas = @ + 1, !.found = None]
      again == [lost EXCEPT !.seen = held]
  IN
  /\ s.pc = "recRead"
  /\ \/ held = None /\ Goto(r, Resume(r, lost, "released"))
     \/ held # None /\ Goto(r, Judge(r, again, s.cas = MaxCas \/ LivePending(s.at)))
     \/ Goto(r, Resume(r, lost, "failed"))
  /\ UNCHANGED <<claimVars, events>>

(* The other cells of the same attempt that are stale themselves, best     *)
(* effort: a cell that fails, or changed since it was read, is left alone. *)
RecoverSiblings(r) ==
  LET s == req[r]
      rest(c) == [s EXCEPT !.todo = @ \ {c}]
      move(c) == IF s.todo = {c}
                 THEN Resume(r, rest(c), IF s.found = None THEN "released" ELSE "finalized")
                 ELSE rest(c)
  IN
  /\ s.pc = "siblings"
  /\ \E c \in s.todo :
       /\ \/ claims[c] = s.seen /\ c \in stale /\ Write(c, Verdict(s))
          \/ UNCHANGED claimVars
       /\ Goto(r, move(c))
  /\ UNCHANGED events
=============================================================================
