------------------------------ MODULE Calendar ------------------------------
(***************************************************************************)
(* The vendor calendar as core/booking.py and core/recovery.py use it      *)
(* through the CalendarProvider port (core/ports.py), and as the in-memory *)
(* adapter providers/fake.py realises it: creates may be in flight after   *)
(* the caller gave up, reads may lag behind writes, and the host may edit  *)
(* the calendar by hand at any time.                                       *)
(***************************************************************************)
EXTENDS ClaimStore

CONSTANTS
  FpOf,       \* the fingerprint of a request: calendar, times, contact, type
  ContactOf,  \* the contact_tag behind a fingerprint
  BindingOf,  \* the binding a request came through
  StartOf,    \* first cell of a fingerprint's slot
  EndOf,      \* first cell after a fingerprint's slot
  BufferOf,   \* buffer of the request's binding, in cells
  Dedupe,     \* the vendor returns the existing event for a repeated request_key
  ReadLag     \* find_bookings and get_busy may lag behind a create

Fingerprint == {FpOf[r] : r \in Request}

ASSUME CalendarAssumption ==
  /\ DOMAIN FpOf = Request /\ DOMAIN BindingOf = Request
  /\ BufferOf \in [Request -> Nat]
  /\ StartOf \in [Fingerprint -> Nat] /\ EndOf \in [Fingerprint -> Nat]
  /\ \A f \in Fingerprint : StartOf[f] < EndOf[f]
  /\ Dedupe \in BOOLEAN /\ ReadLag \in BOOLEAN

First(r) == StartOf[FpOf[r]]
Slot(r)  == StartOf[FpOf[r]] .. (EndOf[FpOf[r]] - 1)

(* cell_range: from floor5(start) up to ceil5(end + buffer). *)
CellsOf(r) == StartOf[FpOf[r]] .. (EndOf[FpOf[r]] + BufferOf[r] - 1)

(* The slot widened by this binding's buffer on both sides (step 5). *)
Widened(r) == (StartOf[FpOf[r]] - BufferOf[r]) .. (EndOf[FpOf[r]] + BufferOf[r] - 1)

ASSUME CellsAssumption == \A r \in Request : CellsOf(r) \subseteq Cell

VARIABLE events \* what became of each event id a request may create

(* "sent": the create left the caller, which stopped waiting for it;       *)
(* "hidden": committed, but not in find_bookings and get_busy yet;         *)
(* "moved": the host moved it to other times, which may still overlap some *)
(* of its cells; "gone": cancelled by the host; "deleted": by this service *)
(* among the duplicates. A lookup by id tells neither from the other.      *)
EventStatus == {"none", "sent", "hidden", "live", "moved", "gone", "deleted"}
Absent == {"gone", "deleted"}

CalendarTypeOK == events \in [Event -> EventStatus]
CalendarInit   == events = [e \in Event |-> "none"]

Creator(e) == e[1]
Exists(e)  == events[e] \in {"hidden", "live", "moved"}
InSlot(e)  == events[e] \in {"hidden", "live"}

Carrying(f) == {e \in Event : FpOf[Creator(e)] = f}

(* Mutated form: the fingerprint of the events found is not looked at. *)
LookupsOfAnyone(f, b) ==
  LET found == {e \in Event : events[e] = "moved" \/ (events[e] = "live" /\ FpOf[Creator(e)] = f)}
  IN {hits \in SUBSET found : \A e \in found : events[e] = "live" => e \in hits}

(* The answers find_bookings may give over the fingerprint's own slot, on  *)
(* one binding, once other fingerprints are dropped from it: an event the  *)
(* host moved is in it if its new times still overlap the slot.            *)
Lookups(f, b) ==
  LET found == {e \in Carrying(f) : events[e] \in {"live", "moved"} /\ BindingOf[Creator(e)] = b}
  IN {hits \in SUBSET found : \A e \in found : events[e] = "live" => e \in hits}

(* The answers find_bookings may give over the whole bookable horizon, on  *)
(* one binding: an event the host moved may have left the horizon.         *)
HorizonLookups(b) ==
  LET found == {e \in Event : events[e] \in {"live", "moved"} /\ BindingOf[Creator(e)] = b}
  IN {hits \in SUBSET found : \A e \in found : events[e] = "live" => e \in hits}

BusyIn(window) == \E e \in Event : events[e] = "live" /\ Slot(Creator(e)) \cap window # {}

Committed == IF ReadLag THEN "hidden" ELSE "live"
ActiveFor(f) == {e \in Carrying(f) : Exists(e)}

(* create_event commits under event id e and answers with event k: the     *)
(* existing one when the vendor recognises the request_key.                *)
CommitCreate(e, k) ==
  IF Dedupe /\ ActiveFor(FpOf[Creator(e)]) # {}
  THEN k \in ActiveFor(FpOf[Creator(e)]) /\ UNCHANGED events
  ELSE k = e /\ events' = [events EXCEPT ![e] = Committed]

SendCreate(e) == events' = [events EXCEPT ![e] = "sent"]

DeleteEvent(e) == events' = [events EXCEPT ![e] = "deleted"]

(* A vendor that recognises the request_key refuses a late create once any *)
(* create with that key has been committed, even if its event is gone by   *)
(* now: the ids of cancelled events stay reserved.                         *)
MayLand(e) ==
  /\ events[e] = "sent"
  /\ ~(Dedupe /\ \E d \in Carrying(FpOf[Creator(e)]) : events[d] \notin {"none", "sent"})

(* A create nobody waits for any more reaches the calendar, or is lost. *)
Land(e) == MayLand(e) /\ events' = [events EXCEPT ![e] = Committed]

Lose(e) == events[e] = "sent" /\ events' = [events EXCEPT ![e] = "none"]

Publish(e) == events[e] = "hidden" /\ events' = [events EXCEPT ![e] = "live"]

(* The host edits the calendar by hand. *)
HostCancel(e) == Exists(e) /\ events' = [events EXCEPT ![e] = "gone"]
HostMove(e)   == InSlot(e) /\ events' = [events EXCEPT ![e] = "moved"]
=============================================================================
