------------------------------ MODULE MCOffers ------------------------------
(***************************************************************************)
(* Two callers on two bindings of one calendar, around a change of the     *)
(* clock by an hour: forward or back at 02:00, or forward at midnight.     *)
(***************************************************************************)
EXTENDS Offers, TLC

CONSTANTS ann, ben, main, other

Agents == (ann :> main) @@ (ben :> other)

(* Windows into the change, up to midnight and from midnight on; those of  *)
(* a day are not written in order.                                         *)
Hours == (0 :> <<<<1410, 1435>>, <<90, 150>>>>) @@ (1 :> <<<<0, 30>>>>)

Raw(length, buffer, count, select) ==
  [faults |-> {}, hours |-> Hours, step |-> length, defaultDuration |-> length,
   durations |-> <<length>>, buffer |-> buffer, notice |-> 30, ahead |-> 1, searchDays |-> 2,
   maxSlots |-> count, selection |-> select, ttl |-> 60]

Deployed == (main :> Raw(15, 5, 3, "spread")) @@ (other :> Raw(15, 0, 1, "earliest"))

Plain == [from |-> Absent, to |-> Absent, earliest |-> Absent, latest |-> Absent,
          duration |-> Absent]

Bodies ==
  (ann :> {Plain, [Plain EXCEPT !.from = 2],
           [Plain EXCEPT !.from = 1, !.to = 0], [Plain EXCEPT !.duration = 45],
           [Plain EXCEPT !.earliest = 100, !.latest = 130]}) @@
  (ben :> {Plain})

Zones == {[at |-> 120, by |-> 60], [at |-> 120, by |-> -60], [at |-> 1440, by |-> 60]}

(* An event inside another one; one that ends just before the first window. *)
Edits == {{[start |-> 100, end |-> 140], [start |-> 105, end |-> 110]},
          {[start |-> 60, end |-> 87]}}

Length(c) == Deployed[Agents[c]].defaultDuration
Starts == {t \in (90..210) \cup (1350..1530) : t % 5 = 0}
Bookings == {[caller |-> c, start |-> t, end |-> t + Length(c)] : c \in {ann, ben}, t \in Starts}
Ranges == [b \in Bookings |-> cell_range(b.start, b.end, Deployed[Agents[b.caller]].buffer)]
Cells5 == UNION {Ranges[b] : b \in Bookings}

-----------------------------------------------------------------------------
(* Documents of one binding, good and misconfigured: windows in order, out *)
(* of order, touching, into the change and up to midnight; overlapping,    *)
(* inverted, off the grid, not HH:MM or of no weekday; then numbers.       *)
HoursToLoad ==
  {0 :> <<<<60, 105>>, <<150, 210>>>>, 0 :> <<<<150, 210>>, <<60, 150>>>>,
   (0 :> <<<<1380, 1435>>>>) @@ (1 :> <<<<0, 100>>>>),
   0 :> <<<<60, 150>>, <<120, 210>>>>, 0 :> <<<<150, 60>>>>, 0 :> <<<<62, 150>>>>,
   0 :> <<<<60, -1>>>>, 7 :> <<<<60, 150>>>>}

ToLoad ==
  {[Raw(30, b, 3, "spread") EXCEPT !.hours = h, !.durations = d, !.step = 15] :
     h \in HoursToLoad, d \in {<<30>>, <<50, 30>>}, b \in {0, 10}}
  \cup {[Raw(n, b, 3, "spread") EXCEPT !.durations = d, !.step = s, !.faults = f] :
           f \in {{}, {"locale"}}, n \in {30, 50}, s \in {15, 25, 0, 7}, b \in {0, 10, -1, 7},
           d \in {<<30>>, <<50, 30>>, <<55, 30>>, <<30, 7>>, <<30, 0>>, <<>>}}

(* Whatever is deployed, a binding that loads serves its consumers; some   *)
(* do load, up to the largest that the claim budget has room for.          *)
ASSUME LoadedBindingsAreSound ==
  LET loaded == {raw \in ToLoad : load_bindings(main :> raw) # <<>>}
  IN  /\ \A raw \in loaded, z \in Zones : Sound(load_bindings(main :> raw)[main], z, 0..2)
      /\ \E raw \in loaded : raw.defaultDuration = 50 /\ raw.buffer = 0
=============================================================================
