-------------------------------- MODULE Slots --------------------------------
(***************************************************************************)
(* The slot engine (core/slots.py), on whole minutes of UTC. A zone is a   *)
(* record [at, by]: its wall clock reads UTC until the instant at, and is  *)
(* by minutes ahead (behind, if negative) from then on.                    *)
(***************************************************************************)
EXTENDS Integers, SequencesExt

DayMinutes == 24 * 60

(* astimezone(tz) and its fold: TRUE for the second of two instants that  *)
(* read the same wall time.                                                *)
Wall(z, i) == IF i < z.at THEN i ELSE i + z.by
fold(z, i) == z.at <= i /\ i < z.at - z.by

DateOf(z, i) == Wall(z, i) \div DayMinutes
TimeOf(z, i) == Wall(z, i) % DayMinutes

(* replace(tzinfo=tz, fold=f).astimezone(UTC): a wall time that is missing *)
(* or happens twice is read with the offset before the change for fold 0   *)
(* and with the one after it for fold 1.                                   *)
Instant(z, w, f) ==
  LET bound == z.at + (IF f = 0 THEN Max({z.by, 0}) ELSE Min({z.by, 0}))
  IN  IF w < bound THEN w ELSE w - z.by

(* The first occurrence, or for a missing time the first instant after it. *)
resolve_local(z, day, wall) ==
  LET naive  == day * DayMinutes + wall
      first  == Instant(z, naive, 0)
      second == Instant(z, naive, 1)
      early  == Min({first, second})
      late   == Max({first, second})
  IN  IF Wall(z, first) = naive
      THEN first
      ELSE Min({i \in early..late : i = late \/ Wall(z, i) >= naive})

(* A finite set in the order of a strict total order on it, as pairs. *)
Sorted(S, R) ==
  [k \in 1..Cardinality(S) |-> CHOOSE s \in S : Cardinality({t \in S : <<t, s>> \in R}) = k - 1]

(* A window of the weekday of a local date; date 0 is weekday 0.           *)
Window(z, hours, day, k) ==
  [day   |-> day,
   start |-> resolve_local(z, day, hours[day % 7][k][1]),
   end   |-> resolve_local(z, day, hours[day % 7][k][2])]

(* The dates and places of the windows that have any time in them.         *)
Opened(z, hours, first, last) ==
  {p \in UNION {{day} \X DOMAIN hours[day % 7] : day \in first..last} :
     LET w == Window(z, hours, p[1], p[2]) IN w.end > w.start}

(* In the order of the dates, and on a date in the order hours gives.      *)
InHoursOrder(P) ==
  Sorted(P, {r \in P \X P : \/ r[1][1] < r[2][1]
                            \/ r[1][1] = r[2][1] /\ r[1][2] < r[2][2]})

Windows(z, hours, order) ==
  [j \in DOMAIN order |-> Window(z, hours, order[j][1], order[j][2])]

_windows(z, hours, first, last) ==
  Windows(z, hours, InHoursOrder(Opened(z, hours, first, last)))

(* Busy time widened by the buffer, in time order. *)
Spans(busy, buffer) ==
  LET spans == {[start |-> b.start - buffer, end |-> b.end + buffer] : b \in busy}
  IN  Sorted(spans, {r \in spans \X spans :
                       \/ r[1].start < r[2].start
                       \/ r[1].start = r[2].start /\ r[1].end < r[2].end})

(* Mutated form: a span inside the one before it cuts that one short. *)
JoinCut(m, s) ==
  IF m # <<>> /\ s.start <= m[Len(m)].end THEN [m EXCEPT ![Len(m)].end = s.end]
  ELSE Append(m, s)

(* A span that begins before the end of the last one extends that. *)
Join(m, s) ==
  IF m # <<>> /\ s.start <= m[Len(m)].end
  THEN [m EXCEPT ![Len(m)].end = IF s.end > @ THEN s.end ELSE @]
  ELSE Append(m, s)

(* Busy time as disjoint spans in time order. *)
_merged_busy(busy, buffer) ==
  LET spans == Spans(busy, buffer)
      merged[k \in 0..Len(spans)] == IF k = 0 THEN <<>> ELSE Join(merged[k - 1], spans[k])
  IN  merged[Len(spans)]

(* Only the last span that starts before the candidate's end can overlap.  *)
_is_busy(start, end, merged) ==
  LET before == {i \in DOMAIN merged : merged[i].start < end}
  IN  before # {} /\ merged[Max(before)].end > start

(* The grid of one window: anchored on its UTC start, in elapsed time.     *)
Grid(w, duration, step) ==
  {[day |-> w.day, start |-> w.start + k * step, end |-> w.start + k * step + duration] :
     k \in 0..((w.end - w.start - duration) \div step)}

(* Mutated form: both occurrences of a repeated hour are offered. *)
AdmitsTwice(z, q, notBefore, c) ==
  /\ TimeOf(z, c.start) >= q.earliest
  /\ TimeOf(z, c.end) <= q.latest
  /\ c.start >= notBefore

(* What keeps a candidate before busy time is looked at. *)
Admits(z, q, notBefore, c) ==
  /\ ~fold(z, c.start)
  /\ TimeOf(z, c.start) >= q.earliest
  /\ TimeOf(z, c.end) <= q.latest
  /\ c.start >= notBefore

InTimeOrder(S) == Sorted(S, {r \in S \X S : r[1].start < r[2].start})

(* Mutated form: the earliest of all days, whatever was asked for. *)
_select_earliest(free, selection, max) ==
  LET order == InTimeOrder(free)
  IN  SubSeq(order, 1, Min({max, Len(order)}))

(* spread: the earliest of each day in turn, then the second, ...          *)
_select(free, selection, max) ==
  LET rank(c)   == Cardinality({d \in free : d.day = c.day /\ d.start < c.start})
      turn      == {r \in free \X free :
                      \/ rank(r[1]) < rank(r[2])
                      \/ rank(r[1]) = rank(r[2]) /\ r[1].day < r[2].day}
      order     == IF selection = "earliest" THEN InTimeOrder(free) ELSE Sorted(free, turn)
  IN  InTimeOrder(Range(SubSeq(order, 1, Min({max, Len(order)}))))

(* SlotResult: searched is the empty record when there is no window.       *)
Nothing(reason, searched) ==
  [slots |-> <<>>, more |-> FALSE, reason |-> reason, searched |-> searched]

compute_slots(z, q, busy, now) ==
  LET windows  == _windows(z, q.hours, q.first, Min({q.last, q.horizon}))
      searched == IF windows = <<>> THEN <<>>
                  ELSE <<windows[1].start, Last(windows).end>>
      merged   == _merged_busy(busy, q.buffer)
      some     == {c \in UNION {Grid(w, q.duration, q.step) : w \in Range(windows)} :
                     Admits(z, q, now + q.notice, c)}
      free     == {c \in some : ~_is_busy(c.start, c.end, merged)}
      chosen   == _select(free, q.selection, q.max)
  IN  IF q.first > q.horizon THEN Nothing("beyond_booking_horizon", <<>>)
      ELSE IF some = {} THEN Nothing("outside_bookable_hours", searched)
      ELSE IF free = {} THEN Nothing("fully_booked", searched)
      ELSE [slots |-> chosen, more |-> Cardinality(free) > Len(chosen),
            reason |-> "ok", searched |-> searched]
=============================================================================
