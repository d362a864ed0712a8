------------------------------- MODULE Booking -------------------------------
(***************************************************************************)
(* BookingService.book (core/booking.py): several book_appointment         *)
(* requests on one physical calendar, interleaved at every await, with the *)
(* claim store and the vendor failing, timing out and losing answers, the  *)
(* host editing the calendar and an instance dying at any point.           *)
(***************************************************************************)
EXTENDS Recovery, FiniteSets

CONSTANTS
  Limit,      \* max_active_bookings_per_contact
  HostEdits   \* the host cancels and moves events by hand

ASSUME BookingAssumption == Limit \in Nat /\ HostEdits \in BOOLEAN

Init == ClaimInit /\ CalendarInit /\ RequestInit

Answer(r, a) == Goto(r, Done(r, a))
StoreAndCalendarUnchanged == UNCHANGED <<claimVars, events>>

(* Step 1: body, keys, token and identity, before anything is claimed. *)
Arrive(r) ==
  /\ req[r].pc = "start"
  /\ \/ Goto(r, Blank(r, "read", "none"))
     \/ Answer(r, "refused") \/ Answer(r, "unavailable")
  /\ StoreAndCalendarUnchanged

(* Step 2: read our first cell. *)
ReadFirst(r) ==
  LET s == req[r]
      held == claims[First(r)]
      met == [s EXCEPT !.seen = held, !.caller = "step2"]
  IN
  /\ s.pc = "read"
  /\ \/ Answer(r, IF s.seenOwn THEN "unconfirmed" ELSE "unavailable")
     \/ ~Ours(r, held) /\ Goto(r, Onward(r, s, "find"))
     \/ /\ Ours(r, held) /\ held.state = "booked"
        /\ Goto(r, [met EXCEPT !.pc = "replay"])
     \/ /\ Ours(r, held) /\ StalePending(First(r))
        /\ Goto(r, IF s.recOnce THEN Done(r, "unconfirmed")
                   ELSE [met EXCEPT !.pc = "recover", !.recOnce = TRUE])
     \/ /\ Ours(r, held) /\ LivePending(First(r))
        /\ Goto(r, [met EXCEPT !.pc = "poll"])
  /\ StoreAndCalendarUnchanged

(* _replay_booked: our booked claim answers with its event, unless the     *)
(* host deleted it; then the cells of that attempt are released.           *)
Replay(r) ==
  LET s == req[r]
      e == s.seen.event
      status == IF s.cache[e] # "none" THEN s.cache[e] ELSE events[e]
  IN
  /\ s.pc = "replay"
  /\ \/ s.cache[e] = "none" /\ Answer(r, "unconfirmed")
     \/ status \notin Absent /\ Answer(r, "booked")
     \/ status \in Absent /\ Goto(r, ReleaseThen(r, s, CellsOfSeen(s), "cancelled"))
  /\ StoreAndCalendarUnchanged

(* Mutated form: polling goes on until the claim changes. *)
PollForever(r) ==
  LET s == req[r]
      held == claims[s.at]
  IN
  /\ s.pc = "poll"
  /\ \/ ~Ours(r, held) /\ Goto(r, Onward(r, s, "find"))
     \/ Ours(r, held) /\ held.state = "booked" /\ Goto(r, [s EXCEPT !.pc = "replay", !.seen = held])
     \/ Ours(r, held) /\ StalePending(s.at) /\ Goto(r, Reread(r, s))
     \/ Ours(r, held) /\ LivePending(s.at) /\ Goto(r, [s EXCEPT !.seen = held])
  /\ StoreAndCalendarUnchanged

(* _poll_own_pending: another attempt of ours is in flight.  The loop ends *)
(* when the budget left only covers the lookup and two store calls.        *)
Poll(r) ==
  LET s == req[r]
      held == claims[s.at]
      back == IF s.caller = "step2" THEN Reread(r, s) ELSE Again(r, s)
  IN
  /\ s.pc = "poll"
  /\ \/ Goto(r, [s EXCEPT !.pc = "pollLookup"])
     \/ Answer(r, "unconfirmed")
     \/ /\ ~Ours(r, held)
        /\ Goto(r, IF s.caller = "step2" THEN Onward(r, s, "find") ELSE Again(r, s))
     \/ /\ Ours(r, held) /\ held.state = "booked"
        /\ Goto(r, [s EXCEPT !.pc = "replay", !.seen = held])
     \/ Ours(r, held) /\ StalePending(s.at) /\ Goto(r, back)
     \/ Ours(r, held) /\ LivePending(s.at) /\ Goto(r, [s EXCEPT !.seen = held])
  /\ StoreAndCalendarUnchanged

(* SF-7: the polled attempt may have created without finalizing. *)
PollLookup(r) ==
  LET s == req[r] IN
  /\ s.pc = "pollLookup"
  /\ \/ \E hits \in Lookups(FpOf[r], BindingOf[s.seen.owner]) : \E e \in hits :
          Goto(r, [s EXCEPT !.pc = "finalize", !.found = e, !.todo = CellsOfSeen(s)])
     \/ Answer(r, "unconfirmed")
  /\ StoreAndCalendarUnchanged

(* Steps 3 and 4: our booking in the calendar, the contact's limit, then   *)
(* the checks of time and configuration, with no await between them.       *)
FindBookings(r) ==
  LET s == req[r]
      mine(records) == records \cap Carrying(FpOf[r])
      active(records) ==
        {e \in records : ContactOf[FpOf[Creator(e)]] = ContactOf[FpOf[r]]}
  IN
  /\ s.pc = "find"
  /\ \/ Answer(r, IF s.seenOwn THEN "unconfirmed" ELSE "unavailable")
     \/ \E records \in HorizonLookups(BindingOf[r]) :
          \/ mine(records) # {} /\ Answer(r, "booked")
          \/ /\ mine(records) = {} /\ Cardinality(active(records)) >= Limit
             /\ Answer(r, "limit")
          \/ /\ mine(records) = {} /\ Cardinality(active(records)) < Limit
             /\ Answer(r, "refused") \/ Goto(r, Onward(r, s, "busy"))
  /\ StoreAndCalendarUnchanged

(* Step 5: busy time in the widened slot, from bookings or from anything   *)
(* the host added; if free, the deadline guard.                            *)
Busy(r) ==
  LET s == req[r] IN
  /\ s.pc = "busy"
  /\ \/ Answer(r, "unavailable")
     \/ Goto(r, [s EXCEPT !.pc = "busyRead"])
     \/ ~BusyIn(Widened(r)) /\ Goto(r, [s EXCEPT !.pc = "claim"])
  /\ StoreAndCalendarUnchanged

(* Mutated form: a busy slot is answered without reading the first cell. *)
BusyTaken(r) ==
  /\ req[r].pc = "busyRead"
  /\ Answer(r, "taken")
  /\ StoreAndCalendarUnchanged

(* Before answering taken: the busy time may be our own other attempt. *)
BusyRead(r) ==
  LET s == req[r]
      held == claims[First(r)]
  IN
  /\ s.pc = "busyRead"
  /\ \/ Answer(r, "unconfirmed")
     \/ Ours(r, held) /\ Goto(r, Again(r, s))
     \/ ~Ours(r, held) /\ Answer(r, "taken")
  /\ StoreAndCalendarUnchanged

(* Step 6: try_claim the cells in ascending order.  A failed claim may     *)
(* have been committed all the same.                                       *)
ClaimCell(r) ==
  LET s == req[r]
      c == s.at
      next == IF c + 1 \in CellsOf(r)
              THEN [s EXCEPT !.at = c + 1, !.retried = FALSE]
              ELSE [s EXCEPT !.pc = "create", !.retried = FALSE]
  IN
  /\ s.pc = "claim"
  /\ \/ TryClaim(c, MyRecord(r)) /\ Goto(r, next)
     \/ /\ TryClaim(c, MyRecord(r)) \/ UNCHANGED claimVars
        /\ Goto(r, ReleaseThen(r, s, Acquired(r), "unavailable"))
  /\ UNCHANGED events

(* Step 6, a Held cell (_on_held): our own first cell, a live claim or one *)
(* met again after recovery; anything else is recovered first.             *)
MeetHeld(r) ==
  LET s == req[r]
      c == s.at
      held == claims[c]
      ours == Ours(r, held)
      blocked == s.retried \/ LivePending(c)
      met == [s EXCEPT !.seen = held, !.caller = "step6"]
      release(t, k) == ReleaseThen(r, t, Acquired(r), k)
  IN
  /\ s.pc = "claim" /\ held # None
  /\ \/ ours /\ c = First(r) /\ Goto(r, Again(r, s))
     \/ ~ours /\ blocked /\ Goto(r, release(s, "taken"))
     \/ ours /\ c # First(r) /\ s.retried /\ Goto(r, release(s, "again"))
     \/ /\ ours /\ c # First(r) /\ ~s.retried /\ LivePending(c)
        /\ Goto(r, release([met EXCEPT !.seenOwn = TRUE], "poll"))
     \/ /\ ~blocked /\ ~(ours /\ c = First(r))
        /\ Goto(r, [met EXCEPT !.pc = "recover"])
  /\ StoreAndCalendarUnchanged

CreateId(r) == <<r, IF req[r].second THEN 2 ELSE 1>>

(* Mutated form: a refused retry releases the claims, as a refused first   *)
(* create does.                                                            *)
CreateRetryReleases(r) ==
  LET s == req[r]
      e == CreateId(r)
      created(k) == IF s.second
                    THEN [s EXCEPT !.pc = "lookup", !.found = k]
                    ELSE [s EXCEPT !.pc = "finalize", !.found = k,
                                   !.seen = MyRecord(r), !.todo = CellsOf(r)]
  IN
  /\ s.pc = "create"
  /\ \/ \E k \in Event : CommitCreate(e, k) /\ Goto(r, created(k))
     \/ Goto(r, ReleaseThen(r, s, CellsOf(r), "unavailable")) /\ UNCHANGED events
     \/ SendCreate(e) /\ Goto(r, [s EXCEPT !.pc = "lookup"])
  /\ UNCHANGED claimVars

(* Step 7: create_event, or its one retry: it answers, it is refused       *)
(* (definitively, or before the call was made), or its fate is unknown.    *)
(* Only a refused first create releases the claims.                        *)
Create(r) ==
  LET s == req[r]
      e == CreateId(r)
      created(k) == IF s.second
                    THEN [s EXCEPT !.pc = "lookup", !.found = k]
                    ELSE [s EXCEPT !.pc = "finalize", !.found = k,
                                   !.seen = MyRecord(r), !.todo = CellsOf(r)]
      refused == IF s.second
                 THEN [s EXCEPT !.pc = "lookup"]
                 ELSE ReleaseThen(r, s, CellsOf(r), "unavailable")
  IN
  /\ s.pc = "create"
  /\ \/ \E k \in Event : CommitCreate(e, k) /\ Goto(r, created(k))
     \/ Goto(r, refused) /\ UNCHANGED events
     \/ SendCreate(e) /\ Goto(r, [s EXCEPT !.pc = "lookup"])
  /\ UNCHANGED claimVars

(* Mutated form: the event that is kept is deleted with the others. *)
KeepNone(r, s, keep, hits) ==
  [s EXCEPT !.pc = IF hits = {} THEN "finalize" ELSE "dedupe",
            !.found = keep, !.extras = hits,
            !.seen = MyRecord(r), !.todo = CellsOf(r)]

(* _keep_one: the confirmed create or one of the events found is kept, the *)
(* others are deleted one by one before the claims are finalized.          *)
KeepOne(r, s, keep, hits) ==
  [s EXCEPT !.pc = IF hits \subseteq {keep} THEN "finalize" ELSE "dedupe",
            !.found = keep, !.extras = hits \ {keep},
            !.seen = MyRecord(r), !.todo = CellsOf(r)]

(* Mutated form: an uncertain retry is taken for a created event.          *)
LookupTrusting(r) ==
  LET s == req[r] IN
  /\ s.pc = "lookup"
  /\ \/ s.second /\ Goto(r, KeepOne(r, s, IF s.found = None THEN <<r, 2>> ELSE s.found, {}))
     \/ ~s.second /\ Answer(r, "unconfirmed")
     \/ ~s.second /\ Goto(r, [s EXCEPT !.pc = "create", !.second = TRUE])
  /\ StoreAndCalendarUnchanged

(* Step 7, uncertain: the lookup after each create of unknown fate; a      *)
(* failed one matters only while no create is confirmed.                   *)
Lookup(r) ==
  LET s == req[r] IN
  /\ s.pc = "lookup"
  /\ \/ Goto(r, IF s.found # None THEN KeepOne(r, s, s.found, {}) ELSE Done(r, "unconfirmed"))
     \/ \E hits \in Lookups(FpOf[r], BindingOf[r]) :
          \/ s.found # None /\ Goto(r, KeepOne(r, s, s.found, hits))
          \/ s.found = None /\ \E keep \in hits : Goto(r, KeepOne(r, s, keep, hits))
          \/ /\ s.found = None /\ hits = {}
             /\ Goto(r, IF s.second THEN Done(r, "unconfirmed")
                        ELSE [s EXCEPT !.pc = "create", !.second = TRUE])
  /\ StoreAndCalendarUnchanged

(* A failed delete may have been applied; the booking stands either way.   *)
DeleteExtra(r) ==
  LET s == req[r] IN
  /\ s.pc = "dedupe"
  /\ \E e \in s.extras :
       /\ Goto(r, [s EXCEPT !.extras = @ \ {e},
                            !.pc = IF s.extras = {e} THEN "finalize" ELSE "dedupe"])
       /\ DeleteEvent(e) \/ UNCHANGED events
  /\ UNCHANGED claimVars

(* Step 8, and the end of SF-7: every cell is finalized by compare-and-    *)
(* swap, in parallel; the answer is booked whatever came of the writes.    *)
Finalize(r) ==
  LET s == req[r] IN
  /\ s.pc = "finalize"
  /\ \E c \in s.todo :
       /\ Replace(c, s.seen, BookedAs(s.seen, s.found)) \/ UNCHANGED claimVars
       /\ Goto(r, IF s.todo = {c} THEN Done(r, "booked") ELSE [s EXCEPT !.todo = @ \ {c}])
  /\ UNCHANGED events

(* release_all, best effort and in parallel, with the etags of the claims  *)
(* (or, for a cancelled booking, of the booked cells just read).           *)
ReleaseCells(r) ==
  LET s == req[r]
      mine == IF s.next = "cancelled" THEN s.seen ELSE MyRecord(r)
  IN
  /\ s.pc = "release"
  /\ \E c \in s.todo :
       /\ (claims[c] = mine /\ Release(c, mine)) \/ UNCHANGED claimVars
       /\ Goto(r, IF s.todo = {c} THEN Follow(r, s, s.next) ELSE [s EXCEPT !.todo = @ \ {c}])
  /\ UNCHANGED events

(* The instance dies; a create under way may still reach the vendor. *)
Crash(r) ==
  /\ req[r].pc \notin {"start", "done"}
  /\ Answer(r, "crashed")
  /\ \/ UNCHANGED events
     \/ req[r].pc = "create" /\ SendCreate(CreateId(r))
  /\ UNCHANGED claimVars

(* Mutated form: a claim goes stale while its attempt is still running.    *)
AgeEarly(c) ==
  /\ LivePending(c)
  /\ stale' = stale \cup {c}
  /\ UNCHANGED <<claims, events, req>>

(* 120 s pass (CLAIM_TTL): by then the 8 s request has ended, its creates  *)
(* have landed or been lost, and what landed is visible to the lookups.    *)
Age(c) ==
  /\ LivePending(c)
  /\ LET r == claims[c].owner IN
       Ended(r) /\ \A e \in Event : Creator(e) = r => events[e] \notin {"sent", "hidden"}
  /\ stale' = stale \cup {c}
  /\ UNCHANGED <<claims, events, req>>

Vendor(e) ==
  /\ Land(e) \/ Lose(e) \/ Publish(e)
  /\ UNCHANGED <<claimVars, req>>

Host(e) ==
  /\ HostEdits
  /\ HostCancel(e) \/ HostMove(e)
  /\ UNCHANGED <<claimVars, req>>

(* What a running request does next. *)
Step(r) ==
  \/ ReadFirst(r) \/ Replay(r) \/ Poll(r) \/ PollLookup(r)
  \/ FindBookings(r) \/ Busy(r) \/ BusyRead(r)
  \/ ClaimCell(r) \/ MeetHeld(r)
  \/ RecoverPending(r) \/ RecoverBooked(r) \/ RecoverWrite(r)
  \/ RecoverRead(r) \/ RecoverSiblings(r)
  \/ Create(r) \/ Lookup(r) \/ DeleteExtra(r)
  \/ Finalize(r) \/ ReleaseCells(r)

Next ==
  \/ \E r \in Request : Arrive(r) \/ Step(r) \/ Crash(r)
  \/ \E c \in Cell : Age(c)
  \/ \E e \in Event : Vendor(e) \/ Host(e)

(* Every await of a request is bounded by a timeout, so a request that has *)
(* arrived keeps running, and every step moves the request itself.         *)
(* Nothing else is fair.                                                   *)
Fairness == \A r \in Request : WF_(req[r])(Step(r))

Spec == Init /\ [][Next]_vars /\ Fairness

-----------------------------------------------------------------------------
TypeOK == ClaimTypeOK /\ CalendarTypeOK /\ RequestTypeOK

Running(r) == ~Ended(r)
Answered(r) == IF Ended(r) THEN req[r].next ELSE "none"

(* The requests whose event stands in its slot, or may still land there.   *)
MayStand == {r \in Request : \E e \in Event : Creator(e) = r /\ (InSlot(e) \/ MayLand(e))}

Ledger == INSTANCE ExclusiveSlots WITH
  Booker <- Request,
  Slots  <- Cell,
  Nobody <- None,
  RangeOf <- [r \in Request |-> CellsOf(r)],
  holder <- [c \in Cell |-> IF claims[c] = None THEN None ELSE claims[c].owner],
  placed <- MayStand

(* Whatever the interleaving, the failures and the host's edits, booking   *)
(* only ever takes free cells, places events on cells it holds and gives   *)
(* up cells that no event needs (core/booking.py steps 6-8, recovery.py).  *)
ImplementsLedger == Ledger!SlotsSpec

(* No two events of this service stand in slots that share a cell, counting *)
(* trailing buffers: the promise of the claims of step 6.                   *)
NoDoubleBooking ==
  \A d, e \in Event :
    /\ InSlot(d) /\ InSlot(e) /\ FpOf[Creator(d)] # FpOf[Creator(e)]
    => CellsOf(Creator(d)) \cap CellsOf(Creator(e)) = {}

(* Two invocations of one booking (a retry of the model, a double tool     *)
(* call) never both have an event in the slot: any number of invocations   *)
(* at a vendor that recognises the repeated request_key, and two of them   *)
(* even at one that does not.                                              *)
OneCreatorPerBooking ==
  \A d, e \in Event :
    InSlot(d) /\ InSlot(e) /\ FpOf[Creator(d)] = FpOf[Creator(e)] => Creator(d) = Creator(e)

(* A claim stays with its booking: it covers a cell of its owner's range,  *)
(* and a booked one names an event of that same booking, whoever finalized *)
(* it (step 8, the SF-7 lookup of a retry, another contact's recovery).    *)
ClaimsNameTheirBooking ==
  \A c \in Cell : claims[c] # None =>
    /\ c \in CellsOf(claims[c].owner)
    /\ claims[c].state = "booked" => claims[c].event \in Carrying(FpOf[claims[c].owner])

(* calendar_unavailable promises the caller that this request created      *)
(* nothing: no event of it exists and none is on its way.                  *)
UnavailableCreatedNothing ==
  \A r \in Request : Answered(r) \in {"unavailable", "taken", "limit", "refused"} =>
    \A e \in Event : Creator(e) = r => events[e] = "none"

(* A booked answer is never made up: an event of that booking was created. *)
BookedWasCreated ==
  \A r \in Request : Answered(r) = "booked" =>
    \E e \in Carrying(FpOf[r]) : events[e] \notin {"none", "sent"}

(* A booked answer stays true until the host cancels: no clean-up,         *)
(* recovery or retry removes the last event of a booking that some request *)
(* answered with ("no confirmed booking is ever deleted").                 *)
BookedStaysBooked ==
  \A r \in Request : Answered(r) = "booked" =>
    \E e \in Carrying(FpOf[r]) : Exists(e) \/ events[e] = "gone"

(* A request never loses its slot to itself: when a taken verdict is       *)
(* reached, no event of the same booking stands in the slot.               *)
NeverTakenByItself == [][
  \A r \in Request :
    (req'[r].next = "taken" /\ req[r].next # "taken") =>
       ~ \E e \in Carrying(FpOf[r]) : InSlot(e) ]_vars

(* Recovery and release never touch the claims of a running attempt: a     *)
(* pending cell of a request that is still running is emptied only by that *)
(* request itself, and is otherwise only ever finalized with an event that *)
(* carries its fingerprint.                                                *)
LiveClaimsUntouched == [][
  \A c \in Cell :
    (claims[c] # None /\ claims[c].state = "pending" /\ Running(claims[c].owner)
       /\ claims'[c] # claims[c])
    => \/ req'[claims[c].owner] # req[claims[c].owner]
       \/ \E e \in Carrying(FpOf[claims[c].owner]) : claims'[c] = BookedAs(claims[c], e) ]_vars

(* Whatever happens, a request that was accepted answers. There are        *)
(* finitely many and each runs once, so that is: again and again, and so   *)
(* from some point on, none is on its way.                                 *)
EveryRequestAnswers == []<>(\A r \in Request : req[r].pc = "start" \/ Ended(r))
=============================================================================
