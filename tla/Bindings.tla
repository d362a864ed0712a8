------------------------------- MODULE Bindings -------------------------------
(***************************************************************************)
(* Bindings (core/bindings.py): the deployed document is validated once,   *)
(* when the calendar tool starts, and any error stops it. What the slot    *)
(* engine, the tokens and the claim budget take for granted of a binding   *)
(* is what this validation lets pass.                                      *)
(*                                                                         *)
(* A raw binding is a record of the fields the others compute with; faults *)
(* is the set of its other fields whose value is refused. A number of the  *)
(* wrong type is written -1, as is a time that is not HH:MM.               *)
(***************************************************************************)
EXTENDS Deadline, Slots, Cells

MAX_DURATION_PLUS_BUFFER == 240

(* What a raw binding is made of. *)
Typed(raw) ==
  /\ {"faults", "hours", "durations", "defaultDuration", "step", "buffer", "notice", "ahead",
      "searchDays", "maxSlots", "selection", "ttl"} \subseteq DOMAIN raw
  /\ \A day \in DOMAIN raw.hours : raw.hours[day] \in Seq(Int \X Int)
  /\ raw.durations \in Seq(Int)
  /\ {raw.defaultDuration, raw.step, raw.buffer, raw.notice, raw.ahead, raw.searchDays,
      raw.maxSlots, raw.ttl} \subseteq Int

_multiple_of_five(value, low) == value >= low /\ value % CELL_MINUTES = 0

WellFormed(window) ==
  /\ {window[1], window[2]} \subseteq {t \in 0..(DayMinutes - 1) : t % CELL_MINUTES = 0}
  /\ window[1] < window[2]

(* Windows may touch but not overlap, in whatever order they are written.  *)
_bookable_hours(hours) ==
  \A day \in DOMAIN hours :
    /\ day \in 0..6
    /\ \A i \in DOMAIN hours[day] : WellFormed(hours[day][i])
    /\ \A i, j \in DOMAIN hours[day] :
         i # j => hours[day][i][2] <= hours[day][j][1] \/ hours[day][j][2] <= hours[day][i][1]

(* Each day's windows in time order, none for a day that is not named.     *)
Parsed(hours) ==
  [day \in 0..6 |->
     IF day \in DOMAIN hours
     THEN LET windows == Range(hours[day])
          IN  Sorted(windows, {r \in windows \X windows : r[1][1] < r[2][1]})
     ELSE <<>>]

_durations(durations) ==
  durations # <<>> /\ \A k \in DOMAIN durations : _multiple_of_five(durations[k], 1)

(* _binding; the field that an error names is left out.                    *)
Valid(raw) ==
  /\ raw.faults = {}
  /\ _bookable_hours(raw.hours)
  /\ _durations(raw.durations)
  /\ raw.defaultDuration \in Range(raw.durations)
  /\ _multiple_of_five(raw.step, 1)
  /\ _multiple_of_five(raw.buffer, 0)
  /\ LET largest == Max(Range(raw.durations)) + raw.buffer
     IN  /\ largest <= MAX_DURATION_PLUS_BUFFER
         /\ claim_cells_fit_budget(largest \div CELL_MINUTES)
  /\ raw.notice >= 0 /\ raw.ahead \in 1..60 /\ raw.searchDays >= 1
  /\ raw.maxSlots \in 1..10 /\ raw.selection \in {"earliest", "spread"}
  /\ raw.ttl >= 1

(* The binding: its windows in order, its durations as a set.              *)
_binding(raw) ==
  [raw EXCEPT !.hours = Parsed(raw.hours), !.durations = Range(raw.durations)]

(* Fail closed: one wrong binding, and there is none.                      *)
load_bindings(doc) ==
  IF \A id \in DOMAIN doc : Valid(doc[id])
  THEN [id \in DOMAIN doc |-> _binding(doc[id])]
  ELSE <<>>

-----------------------------------------------------------------------------
(* What a binding that loads has to be for its consumers, in zone z over   *)
(* the given dates. The engine merges no windows and takes the first and   *)
(* the last one for what was searched: as instants they are in order and   *)
(* apart, whatever the clock does. A slot it finds can be signed, and its  *)
(* claims pass the guard of booking's step 5 when one provider call has    *)
(* gone before them (plan, P17).                                           *)
Sound(b, z, dates) ==
  LET ws == _windows(z, b.hours, Min(dates), Max(dates))
  IN  /\ \A k \in 1..(Len(ws) - 1) : ws[k].end <= ws[k + 1].start
      /\ b.defaultDuration \in b.durations
      /\ \A duration \in b.durations :
           \A slot \in UNION {Grid(w, duration, b.step) : w \in Range(ws)} :
             /\ slot.start % CELL_MINUTES = 0 /\ slot.end % CELL_MINUTES = 0
             /\ booking_fits(remaining(RESERVE),
                             Cardinality(cell_range(slot.start, slot.end, b.buffer)))
=============================================================================
