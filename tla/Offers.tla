------------------------------- MODULE Offers -------------------------------
(***************************************************************************)
(* From the offer to the booking: callers take the slots that              *)
(* check_availability offered them and book one by its token               *)
(* (core/booking.py, steps 1 and 4 to 7). Claims and placed events are     *)
(* those of ExclusiveSlots, which Booking implements in full.              *)
(***************************************************************************)
EXTENDS Availability

VARIABLE book   \* each caller's book_appointment request

offersVars == <<zone, now, keys, host, ask, holder, placed, book>>

Waiting == {"idle", "keys", "checks", "busy", "claim", "create", "done"}
Verdicts == {"none", "wrong_binding", "malformed", "start_mismatch", "expired",
             "outside_bookable_hours", "duration_not_allowed", "too_soon", "taken",
             "calendar_unavailable", "unconfirmed", "booked"}

(* A request's locals; of is the booking it asks for.                      *)
NoBook == [pc |-> "idle", verdict |-> "none", token |-> <<>>, start |-> 0, of |-> <<>>, at |-> 0]
Refusals == {"wrong_binding", "malformed", "start_mismatch",
             "outside_bookable_hours", "duration_not_allowed"}

(* A request that has answered; a token that was refused is kept. *)
Over(b, verdict) ==
  [NoBook EXCEPT !.pc = "done", !.verdict = verdict,
     !.token = IF verdict \in Refusals THEN b.token ELSE <<>>]

Init ==
  /\ SlotsInit
  /\ AvailabilityInit
  /\ book = [c \in Caller |-> NoBook]

(* _parse_start: a start without an offset is read in the binding's zone.  *)
_parse_start(spoken) == Instant(zone, spoken, 0)

(* What a token asks for in a caller's hands: a booking, or nothing. *)
BookingOf(c, token) ==
  {b \in Booker : b.caller = c /\ b.start = token.start /\ b.end = token.start + token.duration}

(* The caller names an offered slot by its local time, with the token of   *)
(* the slot as it was, or altered, or of another binding's response.       *)
Choose(c) ==
  /\ book[c].pc = "idle"
  /\ \E d \in Caller : \E k \in DOMAIN ask[d].tokens :
       LET token == ask[d].tokens[k]
       IN  \E sent \in {token, Garbled(token)} : \E b \in BookingOf(c, sent) :
             /\ d = c \/ sent = token
             /\ c \in Faulty \/ (d = c /\ sent = token)
             /\ book' = [book EXCEPT ![c] =
                  [NoBook EXCEPT !.pc = "keys", !.token = sent, !.of = b,
                     !.start = _parse_start(Wall(zone, token.start))]]
             /\ ask' = [ask EXCEPT ![c] = [Ended("none") EXCEPT !.tokens = ask[c].tokens]]
  /\ UNCHANGED <<zone, now, keys, host, holder, placed>>

(* Step 1: one key load, then the token.                                   *)
_step1_validate(c) ==
  /\ book[c].pc = "keys"
  /\ LET verdict == verify(keys, BindingOf[c], book[c].token, book[c].start)
     IN  \/ book' = [book EXCEPT ![c] = IF verdict = "ok" THEN [@ EXCEPT !.pc = "checks"]
                                       ELSE Over(@, verdict)]
         \/ c \in Faulty /\ book' = [book EXCEPT ![c] = Over(@, "calendar_unavailable")]
  /\ UNCHANGED <<zone, now, keys, host, ask, holder, placed>>

_within_bookable_hours(cfg, start, end) ==
  \E k \in DOMAIN cfg.hours[DateOf(zone, start) % 7] :
    LET window == cfg.hours[DateOf(zone, start) % 7][k]
        day    == DateOf(zone, start)
    IN  /\ resolve_local(zone, day, window[1]) <= start
        /\ end <= resolve_local(zone, day, window[2])

(* Step 4, on the clock as it is by then.                                  *)
TimeChecks(c) ==
  LET cfg   == Config[BindingOf[c]]
      token == book[c].token
  IN  IF ~check_expiry(token, now) THEN "expired"
      ELSE IF ~_within_bookable_hours(cfg, token.start, token.start + token.duration)
      THEN "outside_bookable_hours"
      ELSE IF token.duration \notin cfg.durations THEN "duration_not_allowed"
      ELSE IF token.start < now + cfg.notice THEN "too_soon"
      ELSE "ok"

_step4_time_checks(c) ==
  /\ book[c].pc = "checks"
  /\ book' = [book EXCEPT ![c] = IF TimeChecks(c) = "ok" THEN [@ EXCEPT !.pc = "busy"]
                                ELSE Over(@, TimeChecks(c))]
  /\ UNCHANGED <<zone, now, keys, host, ask, holder, placed>>

(* Step 5: busy time within this binding's buffer on both sides, and the   *)
(* deadline guard, which one provider call at its timeout comes before.    *)
_step5_recheck(c) ==
  /\ book[c].pc = "busy"
  /\ LET b    == book[c].of
         busy == get_busy(b.start - BufferOf(b), b.end + BufferOf(b))
         fits == booking_fits(remaining(RESERVE), Cardinality(RangeOf[b]))
     IN  \/ book' = [book EXCEPT ![c] =
              IF busy # {} THEN Over(@, "taken")
              ELSE IF fits THEN [@ EXCEPT !.pc = "claim", !.at = Min(RangeOf[b])]
              ELSE Over(@, "calendar_unavailable")]
         \/ c \in Faulty /\ book' = [book EXCEPT ![c] = Over(@, "calendar_unavailable")]
  /\ UNCHANGED <<zone, now, keys, host, ask, holder, placed>>

(* Step 6: the cells in order; a cell held by another gives back the rest. *)
_step6_claim(c) ==
  LET b    == book[c].of
      cell == book[c].at
  IN  /\ book[c].pc = "claim"
      /\ \/ /\ Take(b, cell)
            /\ book' = [book EXCEPT ![c] =
                 IF cell = Max(RangeOf[b]) THEN [@ EXCEPT !.pc = "create"]
                 ELSE [@ EXCEPT !.at = cell + CELL_MINUTES]]
         \/ /\ holder[cell] \notin {b, Nobody}
            /\ holder' = [x \in Slots |-> IF holder[x] = b THEN Nobody ELSE holder[x]]
            /\ book' = [book EXCEPT ![c] = Over(@, "taken")]
            /\ UNCHANGED placed
      /\ UNCHANGED <<zone, now, keys, host, ask>>

(* Step 7: the event stands, or may still come to stand though the caller  *)
(* is told that nobody knows.                                              *)
_step7_create(c) ==
  /\ book[c].pc = "create"
  /\ placed' = placed \cup {book[c].of}
  /\ \E verdict \in {"booked", "unconfirmed"} : book' = [book EXCEPT ![c] = Over(@, verdict)]
  /\ UNCHANGED <<zone, now, keys, host, ask, holder>>

book_appointment(c) ==
  Choose(c) \/ _step1_validate(c) \/ _step4_time_checks(c) \/ _step5_recheck(c)
    \/ _step6_claim(c) \/ _step7_create(c)

Next ==
  \/ Environment /\ UNCHANGED <<holder, placed, book>>
  \/ \E c \in Caller : check_availability(c) /\ UNCHANGED <<holder, placed, book>>
  \/ \E c \in Caller : book_appointment(c)

Spec == Init /\ [][Next]_offersVars

-----------------------------------------------------------------------------
(* The reference for the offers: definitions by what they must mean, not   *)
(* by how the engine computes them.                                        *)

(* How far the clock is ever changed. *)
Change(z) == IF z.by < 0 THEN -z.by ELSE z.by

(* The first instant at which the wall clock has reached w. *)
Reached(z, w) == Min({i \in (w - Change(z))..(w + Change(z)) : Wall(z, i) >= w})

(* The bookable times of a date range, by the local clock. *)
OpenTimes(z, q) ==
  UNION {{[day   |-> day,
           start |-> Reached(z, day * DayMinutes + hours[1]),
           end   |-> Reached(z, day * DayMinutes + hours[2])] : hours \in Range(q.hours[day % 7])} :
         day \in q.first..Min({q.last, q.horizon})}

Apart(s, t, gap) == s.end + gap <= t.start \/ t.end + gap <= s.start

(* The type invariant: cells are held by bookings that need them, and      *)
(* every request is somewhere in its code.                                 *)
OffersTypeOK ==
  /\ DOMAIN holder = Slots /\ placed \subseteq Booker
  /\ \A x \in Slots : holder[x] # Nobody => x \in RangeOf[holder[x]]
  /\ zone \in Zone /\ now \in Times /\ host \in HostEdits \cup {{}}
  /\ keys.current \in Nat \ {0} /\ keys.previous = keys.current - 1
  /\ \A c \in Caller : /\ ask[c].pc \in {"idle", "keys", "busy", "answered"}
                       /\ ask[c].status \in Statuses
                       /\ book[c].pc \in Waiting /\ book[c].verdict \in Verdicts
  /\ \A c \in Caller : book[c].pc \in {"busy", "claim", "create"} => book[c].of \in Booker

(* Every offered slot can be kept: within the bookable hours by the local  *)
(* clock, in time, clear of busy time by the buffer, and no two slots of   *)
(* one answer are called by one local time (core/slots.py).                *)
OffersAreGood ==
  \A c \in Caller : LET a == ask[c] slots == a.result.slots q == QueryOf(a, c) open == OpenTimes(zone, q) IN
    a.status = "available" =>
      \A k \in DOMAIN slots :
        /\ \E w \in open : w.start <= slots[k].start /\ slots[k].end <= w.end
        /\ slots[k].start >= a.at + q.notice
        /\ \A e \in a.seen : Apart(slots[k], e, q.buffer)
        /\ \A j \in 1..(k - 1) : /\ slots[j].start < slots[k].start
                                 /\ Wall(zone, slots[j].start) # Wall(zone, slots[k].start)

(* The slots a caller could have been told of. *)
Bookable(z, q, at) ==
  LET open  == OpenTimes(z, q)
      On(w) == {[day |-> w.day, start |-> t, end |-> t + q.duration] :
                  t \in {u \in w.start..(w.end - q.duration) : (u - w.start) % q.step = 0}}
  IN  {s \in UNION {On(w) : w \in open} :
         /\ \A i \in (s.start - Change(z))..(s.start - 1) : Wall(z, i) # Wall(z, s.start)
         /\ s.start >= at + q.notice
         /\ q.earliest <= TimeOf(z, s.start) /\ TimeOf(z, s.end) <= q.latest}

(* An answer tells the truth about what it leaves out: no_availability     *)
(* gives the true reason, more_available is set when a free slot was left  *)
(* out, earliest leaves out only later ones, and spread gives no day two   *)
(* slots more than another day that still has one (core/slots.py).         *)
NothingIsHidden ==
  \A c \in Caller : LET a == ask[c] q == QueryOf(a, c) r == a.result IN
    a.status \in {"available", "no_availability"} =>
      LET open == Bookable(zone, q, a.at)
          free == {s \in open : \A e \in a.seen : Apart(s, e, q.buffer)}
          told == {r.slots[k] : k \in DOMAIN r.slots}
          OfDay(S, day) == {s \in S : s.day = day}
      IN  /\ told \subseteq free
          /\ r.more <=> told # free
          /\ r.more => Cardinality(told) = q.max
          /\ r.reason = "ok" <=> free # {}
          /\ r.reason = "fully_booked" <=> free = {} /\ open # {}
          /\ r.reason = "beyond_booking_horizon" <=> q.first > q.horizon
          /\ \A s \in told, t \in free \ told :
               IF q.selection = "earliest" THEN s.start < t.start
               ELSE /\ s.day = t.day => s.start < t.start
                    /\ Cardinality(OfDay(told, s.day)) <= Cardinality(OfDay(told, t.day)) + 1

(* A token as it was issued, sent with the slot's local time, is refused   *)
(* only for age: after its expiry, or once its key was rotated out twice.  *)
(* In particular booking and availability agree on the hours of every day  *)
(* and on what a local time means (core/tokens.py, core/booking.py). And   *)
(* no offer meets a claim budget that it never fits: without a fault the   *)
(* calendar is never said to be unavailable (core/bindings.py).            *)
OffersAreHonoured ==
  \A c \in Caller : LET b == book[c] IN
    /\ (b.verdict \in Refusals /\ b.token.key # NoKey /\ b.token.binding = BindingOf[c]) =>
         b.verdict = "malformed" /\ b.token.key \notin slot_keys(keys)
    /\ "calendar_unavailable" \in {b.verdict, ask[c].status} => c \in Faulty

(* Two events placed by this service are apart, and the later one starts   *)
(* after the buffer of the earlier one, whatever was offered to both       *)
(* callers before (core/identity.py cells, core/booking.py steps 5 to 7).  *)
BookedTimesApart ==
  \A b1, b2 \in placed : b1 # b2 =>
    b1.end + BufferOf(b1) <= b2.start \/ b2.end + BufferOf(b2) <= b1.start
=============================================================================
