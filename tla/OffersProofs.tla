----------------------------- MODULE OffersProofs -----------------------------
(***************************************************************************)
(* The slot engine offers what can be kept and hides nothing, the ledger   *)
(* keeps its promises, and from the offer to the booking (Offers) bookings *)
(* stay apart by the buffer of the earlier one: for every set of callers,  *)
(* bookings, bindings that load, zones with one change of the offset, host *)
(* edits and faults.                                                       *)
(*                                                                         *)
(*   1. Finite sets listed in an order: Sorted, Min and Max.               *)
(*   2. Local times around a change of the clock.                          *)
(*   3. The engine's windows are in order and apart.                       *)
(*   4. Busy time: merging and the search by starts find what overlaps.    *)
(*   5. Candidates and the selection from them.                            *)
(*   6. The engine: what compute_slots returns.                            *)
(*   7. The loader: what a binding that loads looks like.                  *)
(*   8. What an answer promises, from one query.                           *)
(*   9. The ledger by itself: types, PlacedIsHeld, NoOverlap.              *)
(*  10. Cells: a booking's cells are consecutive, and two bookings that    *)
(*      are too close share one.                                           *)
(*  11. OffersInv, which relates where each request is in its code to the  *)
(*      cells it holds, and what follows from it.                          *)
(*  12. The type invariant of the module.                                  *)
(*  13. AsksInv: what a request knows between its awaits; every offer is   *)
(*      good, and no answer hides anything.                                *)
(*  14. HonestInv: what tokens say; every token is honoured, where clocks  *)
(*      keep to the five-minute grid.                                      *)
(***************************************************************************)
EXTENDS Offers, FiniteSetTheorems, WellFoundedInduction, TLAPS

-----------------------------------------------------------------------------
(* 1. Finite sets listed in an order. *)

(* A nonempty set of natural numbers has a least one. *)
LEMMA LeastOf ==
  ASSUME NEW T \in SUBSET Nat, T # {}
  PROVE  \E x \in T : \A y \in T : x <= y
<1>. DEFINE R == OpToRel(<, Nat)
<1>1. R = {r \in Nat \X Nat : r[1] < r[2]}
  BY DEF OpToRel
<1>2. IsWellFoundedOn(R, Nat)
  BY NatLessThanWellFounded
<1>3. \A y, x \in Nat : y < x => <<y, x>> \in R
  BY <1>1
<1>. HIDE DEF R
<1>4. PICK x \in T : \A y \in T : ~ (<<y, x>> \in R)
  BY <1>2, WFMin
<1>5. \A y \in T : ~ (y < x)
  BY <1>3, <1>4
<1>6. \A y \in T : x <= y
  BY <1>5
<1>. QED  BY <1>6

(* So does one that is not empty and has a bound have a greatest one. *)
LEMMA GreatestOf ==
  ASSUME NEW T \in SUBSET Nat, T # {}, NEW n \in Nat, \A x \in T : x <= n
  PROVE  \E x \in T : \A y \in T : y <= x
<1>. DEFINE D == {d \in Nat : \E x \in T : d = n - x}
<1>1. D # {}
  <2>1. PICK x \in T : TRUE
    OBVIOUS
  <2>2. n - x \in Nat
    OBVIOUS
  <2>. QED  BY <2>1, <2>2
<1>2. PICK d \in D : \A e \in D : d <= e
  <2>. HIDE DEF D
  <2>1. D \in SUBSET Nat
    BY DEF D
  <2>. QED  BY <1>1, <2>1, LeastOf
<1>3. PICK x \in T : d = n - x
  OBVIOUS
<1>4. ASSUME NEW y \in T PROVE y <= x
  <2>1. n - y \in D
    OBVIOUS
  <2>. HIDE DEF D
  <2>2. d <= n - y
    BY <1>2, <2>1
  <2>. QED  BY <1>3, <2>2
<1>. QED  BY <1>4

(* A strict total order, as a set of pairs. *)
Strict(S, R) ==
  /\ \A x \in S : <<x, x>> \notin R
  /\ \A x, y, z \in S : <<x, y>> \in R /\ <<y, z>> \in R => <<x, z>> \in R
  /\ \A x, y \in S : x # y => <<x, y>> \in R \/ <<y, x>> \in R

(* Sorted lists every element of a finite set once, in order. *)
LEMMA SortedIs ==
  ASSUME NEW S, IsFiniteSet(S), NEW R, Strict(S, R)
  PROVE  /\ Cardinality(S) \in Nat
         /\ DOMAIN Sorted(S, R) = 1..Cardinality(S)
         /\ \A k \in 1..Cardinality(S) : Sorted(S, R)[k] \in S
         /\ \A x \in S : \E k \in 1..Cardinality(S) : Sorted(S, R)[k] = x
         /\ \A i, j \in 1..Cardinality(S) : i < j => <<Sorted(S, R)[i], Sorted(S, R)[j]>> \in R
<1>. DEFINE n        == Cardinality(S)
            Below(x) == {t \in S : <<t, x>> \in R}
            Rank     == [x \in S |-> Cardinality(Below(x))]
<1>1. n \in Nat
  BY FS_CardinalityType
<1>2. ASSUME NEW x \in S PROVE IsFiniteSet(Below(x)) /\ Rank[x] \in 0..(n - 1)
  <2>1. IsFiniteSet(S \ {x}) /\ Cardinality(S \ {x}) = n - 1
    BY FS_RemoveElement
  <2>2. Below(x) \in SUBSET (S \ {x})
    BY DEF Strict
  <2>. HIDE DEF Below
  <2>3. IsFiniteSet(Below(x)) /\ Cardinality(Below(x)) <= n - 1
    BY <2>1, <2>2, FS_Subset
  <2>4. Cardinality(Below(x)) \in Nat
    BY <2>3, FS_CardinalityType
  <2>. QED  BY <1>1, <2>3, <2>4
<1>3. ASSUME NEW x \in S, NEW y \in S, <<x, y>> \in R PROVE Rank[x] < Rank[y]
  <2>1. Below(x) \in SUBSET Below(y) /\ Below(x) # Below(y)
    BY <1>3 DEF Strict
  <2>2. IsFiniteSet(Below(x)) /\ IsFiniteSet(Below(y)) /\ Rank[x] \in 0..(n - 1) /\ Rank[y] \in 0..(n - 1)
    BY <1>2
  <2>. HIDE DEF Below
  <2>3. Cardinality(Below(x)) <= Cardinality(Below(y))
    BY <2>1, <2>2, FS_Subset
  <2>4. Cardinality(Below(x)) # Cardinality(Below(y))
    BY <2>1, <2>2, FS_Subset
  <2>. QED  BY <1>1, <2>2, <2>3, <2>4
<1>. HIDE DEF Below
<1>4. Rank \in [S -> 0..(n - 1)]
  BY <1>2
<1>. HIDE DEF Rank
<1>5. ASSUME NEW x \in S, NEW y \in S, x # y PROVE Rank[x] # Rank[y]
  <2>1. <<x, y>> \in R \/ <<y, x>> \in R
    BY <1>5 DEF Strict
  <2>2. Rank[x] \in Int /\ Rank[y] \in Int
    BY <1>1, <1>4
  <2>. QED  BY <1>3, <2>1, <2>2
<1>6. Rank \in Injection(S, 0..(n - 1))
  BY <1>4, <1>5 DEF Injection, IsInjective
<1>7. IsFiniteSet(0..(n - 1)) /\ Cardinality(0..(n - 1)) = n
  BY <1>1, FS_Interval
<1>8. Rank \in Surjection(S, 0..(n - 1))
  BY <1>6, <1>7, FS_Injection
<1>9. \A r \in 0..(n - 1) : \E x \in S : Rank[x] = r
  BY <1>8 DEF Surjection
<1>. DEFINE q == Sorted(S, R)
<1>10. q = [k \in 1..n |-> CHOOSE s \in S : Cardinality({t \in S : <<t, s>> \in R}) = k - 1]
  BY DEF Sorted
<1>. HIDE DEF q
<1>11. ASSUME NEW k \in 1..n PROVE q[k] \in S /\ Rank[q[k]] = k - 1
  <2>1. \A s \in S : Rank[s] = Cardinality({t \in S : <<t, s>> \in R})
    BY DEF Rank, Below
  <2>2. k - 1 \in 0..(n - 1)
    BY <1>1
  <2>3. \E s \in S : Cardinality({t \in S : <<t, s>> \in R}) = k - 1
    BY <1>9, <2>1, <2>2
  <2>4. q[k] = CHOOSE s \in S : Cardinality({t \in S : <<t, s>> \in R}) = k - 1
    BY <1>10
  <2>5. q[k] \in S /\ Cardinality({t \in S : <<t, q[k]>> \in R}) = k - 1
    BY <2>3, <2>4, Zenon
  <2>. QED  BY <2>1, <2>5
<1>12. ASSUME NEW x \in S PROVE \E k \in 1..n : q[k] = x
  <2>1. Rank[x] + 1 \in 1..n
    BY <1>1, <1>4
  <2>2. q[Rank[x] + 1] \in S /\ Rank[q[Rank[x] + 1]] = Rank[x]
    BY <1>1, <1>4, <1>11, <2>1
  <2>3. q[Rank[x] + 1] = x
    BY <1>5, <2>2
  <2>. QED  BY <2>1, <2>3
<1>13. ASSUME NEW i \in 1..n, NEW j \in 1..n, i < j PROVE <<q[i], q[j]>> \in R
  <2>1. Rank[q[i]] < Rank[q[j]]
    BY <1>1, <1>11, <1>13
  <2>2. q[i] # q[j] /\ ~(<<q[j], q[i]>> \in R)
    BY <1>1, <1>3, <1>4, <1>11, <2>1
  <2>. QED  BY <1>11, <2>2 DEF Strict
<1>14. DOMAIN q = 1..n
  BY <1>10, Zenon
<1>. QED  BY <1>1, <1>11, <1>12, <1>13, <1>14 DEF q

(* And is a sequence of them. *)
LEMMA SortedList ==
  ASSUME NEW S, IsFiniteSet(S), NEW R, Strict(S, R)
  PROVE  Sorted(S, R) \in Seq(S) /\ Len(Sorted(S, R)) = Cardinality(S)
<1>. DEFINE n == Cardinality(S)
            q == Sorted(S, R)
<1>1. n \in Nat /\ \A k \in 1..n : q[k] \in S
  BY SortedIs
<1>2. q = [k \in 1..n |-> CHOOSE s \in S : Cardinality({t \in S : <<t, s>> \in R}) = k - 1]
  BY DEF Sorted
<1>3. q \in [1..n -> S]
  BY <1>1, <1>2
<1>. HIDE DEF n, q
<1>4. q \in Seq(S) /\ Len(q) = n
  BY <1>1, <1>3
<1>. QED  BY <1>4 DEF n, q

(* The least element of a set of integers that has one. *)
LEMMA MinIs ==
  ASSUME NEW S \in SUBSET Int, NEW x \in S, \A y \in S : x <= y
  PROVE  Min(S) = x
<1>1. Min(S) = CHOOSE u \in S : \A y \in S : u <= y
  BY DEF Min
<1>2. \E u \in S : \A y \in S : u <= y
  OBVIOUS
<1>3. Min(S) \in S /\ \A y \in S : Min(S) <= y
  BY <1>1, <1>2, Zenon
<1>4. Min(S) <= x /\ x <= Min(S) /\ Min(S) \in Int /\ x \in Int
  BY <1>3
<1>. QED  BY <1>4

(* The greatest element of a set of integers that has one. *)
LEMMA MaxIs ==
  ASSUME NEW S \in SUBSET Int, NEW x \in S, \A y \in S : y <= x
  PROVE  Max(S) = x
<1>1. Max(S) = CHOOSE u \in S : \A y \in S : u >= y
  BY DEF Max
<1>2. \E u \in S : \A y \in S : u >= y
  OBVIOUS
<1>3. Max(S) \in S /\ \A y \in S : Max(S) >= y
  BY <1>1, <1>2, Zenon
<1>4. Max(S) <= x /\ x <= Max(S) /\ Max(S) \in Int /\ x \in Int
  BY <1>3
<1>. QED  BY <1>4

(* Finitely many integers have a greatest one. *)
LEMMA GreatestOfFinite ==
  ASSUME NEW S \in SUBSET Int, IsFiniteSet(S), S # {}
  PROVE  Max(S) \in S /\ \A x \in S : x <= Max(S)
<1>. DEFINE R == {r \in S \X S : r[1] < r[2]}
            n == Cardinality(S)
            l == Sorted(S, R)
<1>1. Strict(S, R)
  BY DEF Strict
<1>. HIDE DEF R
<1>2. /\ n \in Nat
      /\ \A k \in 1..n : l[k] \in S
      /\ \A x \in S : \E k \in 1..n : l[k] = x
      /\ \A i, j \in 1..n : i < j => <<l[i], l[j]>> \in R
  BY <1>1, SortedIs
<1>. HIDE DEF n, l
<1>3. n \in 1..n
  <2>1. PICK x \in S : TRUE
    OBVIOUS
  <2>2. PICK k \in 1..n : l[k] = x
    BY <1>2
  <2>. QED  BY <1>2, <2>2
<1>4. l[n] \in S
  BY <1>2, <1>3
<1>5. ASSUME NEW x \in S PROVE x <= l[n]
  <2>1. PICK k \in 1..n : l[k] = x
    BY <1>2
  <2>2. CASE k = n
    BY <2>1, <2>2
  <2>3. CASE k < n
    <3>1. <<l[k], l[n]>> \in R
      BY <1>2, <1>3, <2>3
    <3>2. l[k] < l[n]
      BY <3>1 DEF R
    <3>3. x < l[n]
      BY <2>1, <3>2
    <3>4. x \in Int /\ l[n] \in Int
      BY <1>4
    <3>. QED  BY <3>3, <3>4
  <2>. QED  BY <1>2, <2>2, <2>3
<1>. QED  BY <1>4, <1>5, MaxIs

-----------------------------------------------------------------------------
(* 2. Local times. *)

(* The two bounds in reading a local time, where the offset grows and      *)
(* where it shrinks.                                                       *)
LEMMA WithZero ==
  ASSUME NEW n \in Int
  PROVE  Max({n, 0}) = (IF n >= 0 THEN n ELSE 0) /\ Min({n, 0}) = (IF n >= 0 THEN 0 ELSE n)
<1>1. CASE n >= 0
  <2>1. Max({n, 0}) = n
    BY <1>1, MaxIs
  <2>2. Min({n, 0}) = 0
    BY <1>1, MinIs
  <2>. QED  BY <1>1, <2>1, <2>2
<1>2. CASE n < 0
  <2>1. Max({n, 0}) = 0
    BY <1>2, MaxIs
  <2>2. Min({n, 0}) = n
    BY <1>2, MinIs
  <2>. QED  BY <1>2, <2>1, <2>2
<1>. QED  BY <1>1, <1>2

(* How a wall time is read, for either fold. *)
LEMMA InstantIs ==
  ASSUME NEW z, z.at \in Int, z.by \in Int, NEW w \in Int
  PROVE  /\ Instant(z, w, 0) = IF w < z.at + (IF z.by >= 0 THEN z.by ELSE 0) THEN w ELSE w - z.by
         /\ Instant(z, w, 1) = IF w < z.at + (IF z.by >= 0 THEN 0 ELSE z.by) THEN w ELSE w - z.by
<1>1. /\ Max({z.by, 0}) = IF z.by >= 0 THEN z.by ELSE 0
      /\ Min({z.by, 0}) = IF z.by >= 0 THEN 0 ELSE z.by
  BY WithZero
<1>2. Instant(z, w, 0) = IF w < z.at + Max({z.by, 0}) THEN w ELSE w - z.by
  BY DEF Instant
<1>3. Instant(z, w, 1) = IF w < z.at + Min({z.by, 0}) THEN w ELSE w - z.by
  BY DEF Instant
<1>. QED  BY <1>1, <1>2, <1>3

(* What a booking's start, spoken as a local time, is read as              *)
(* (core/booking.py _parse_start): the instant it was offered at, unless   *)
(* that is the second of two with this local time.                         *)
THEOREM LocalTimeReadsBack ==
  ASSUME NEW z, z.at \in Int, z.by \in Int, NEW i \in Int, ~fold(z, i)
  PROVE  Instant(z, Wall(z, i), 0) = i
<1>1. Wall(z, i) \in Int
  BY DEF Wall
<1>. QED  BY <1>1, InstantIs DEF Wall, fold

(* resolve_local gives the first instant at which the local clock has      *)
(* reached the wall time, whether that exists once, twice or not at all.   *)
THEOREM ResolvesToFirst ==
  ASSUME NEW z, z.at \in Int, z.by \in Int, NEW day \in Int, NEW wall \in Int
  PROVE  /\ resolve_local(z, day, wall) \in Int
         /\ Wall(z, resolve_local(z, day, wall)) >= day * DayMinutes + wall
         /\ \A i \in Int : i < resolve_local(z, day, wall) =>
              Wall(z, i) < day * DayMinutes + wall
<1>. DEFINE w      == day * DayMinutes + wall
            first  == Instant(z, w, 0)
            second == Instant(z, w, 1)
            early  == Min({first, second})
            late   == Max({first, second})
            later  == {i \in early..late : i = late \/ Wall(z, i) >= w}
<1>1. resolve_local(z, day, wall) = IF Wall(z, first) = w THEN first ELSE Min(later)
  BY DEF resolve_local
<1>2. w \in Int
  BY DEF DayMinutes
<1>. HIDE DEF w
<1>3. first = (IF w < z.at + (IF z.by >= 0 THEN z.by ELSE 0) THEN w ELSE w - z.by)
  BY <1>2, InstantIs
<1>4. second = (IF w < z.at + (IF z.by >= 0 THEN 0 ELSE z.by) THEN w ELSE w - z.by)
  BY <1>2, InstantIs
<1>5. CASE Wall(z, first) = w
  <2>1. resolve_local(z, day, wall) = first
    BY <1>1, <1>5
  <2>2. first \in Int /\ \A i \in Int : i < first => Wall(z, i) < w
    BY <1>2, <1>3, <1>5 DEF Wall
  <2>. QED  BY <1>2, <1>5, <2>1, <2>2 DEF w
<1>6. CASE Wall(z, first) # w
  <2>1. z.by > 0 /\ z.at <= w /\ w < z.at + z.by
    BY <1>2, <1>3, <1>6 DEF Wall
  <2>2. first = w /\ second = w - z.by
    BY <1>2, <1>3, <1>4, <2>1
  <2>3. early = w - z.by
    <3>1. early = Min({w, w - z.by})
      BY <2>2
    <3>. QED  BY <1>2, <2>1, <3>1, MinIs
  <2>4. late = w
    <3>1. late = Max({w, w - z.by})
      BY <2>2
    <3>. QED  BY <1>2, <2>1, <3>1, MaxIs
  <2>5. z.at \in later
    BY <1>2, <2>1, <2>3, <2>4 DEF Wall
  <2>6. \A i \in later : z.at <= i
    BY <1>2, <2>1, <2>3, <2>4 DEF Wall
  <2>7. later \in SUBSET Int
    BY <1>2, <2>1, <2>3, <2>4
  <2>. HIDE DEF later
  <2>8. Min(later) = z.at
    BY <2>5, <2>6, <2>7, MinIs
  <2>9. resolve_local(z, day, wall) = z.at
    BY <1>1, <1>6, <2>8
  <2>. QED  BY <1>2, <2>1, <2>9 DEF w, Wall
<1>. QED  BY <1>5, <1>6

(* A time of day. *)
LEMMA TimeOfDay == \A t \in 0..(DayMinutes - 1) : t \in Int /\ 0 <= t /\ t <= 1439
BY DEF DayMinutes

(* A slot that lies in a window of a day, and does not start in a repeated *)
(* hour, starts on that day.                                               *)
LEMMA StartsOnItsDay ==
  ASSUME NEW z, z.at \in Int, z.by \in Int, NEW day \in Int,
         NEW from \in 0..(DayMinutes - 1), NEW to \in 0..(DayMinutes - 1), NEW start \in Int,
         resolve_local(z, day, from) <= start, start < resolve_local(z, day, to),
         ~fold(z, start)
  PROVE  DateOf(z, start) = day
<1>. DEFINE r == resolve_local(z, day, from)
<1>1. r \in Int /\ Wall(z, r) >= day * DayMinutes + from
  BY ResolvesToFirst DEF DayMinutes
<1>2. Wall(z, start) < day * DayMinutes + to
  BY ResolvesToFirst DEF DayMinutes
<1>. HIDE DEF r
<1>3. Wall(z, start) >= day * DayMinutes + from
  <2>1. r <= start
    BY DEF r
  <2>. QED  BY <1>1, <2>1 DEF Wall, fold, DayMinutes
<1>4. Wall(z, start) \in Int
  BY DEF Wall
<1>5. Wall(z, start) - day * 1440 \in 0..1439
  <2>1. DayMinutes = 1440
    BY DEF DayMinutes
  <2>2. day * 1440 \in Int /\ day * DayMinutes = day * 1440
    BY <2>1
  <2>3. from \in Int /\ 0 <= from /\ to \in Int /\ to <= 1439
    BY TimeOfDay
  <2>4. Wall(z, start) < day * 1440 + to /\ Wall(z, start) >= day * 1440 + from
    BY <1>2, <1>3, <2>2
  <2>. QED  BY <1>4, <2>2, <2>3, <2>4
<1>6. Wall(z, start) \div 1440 = day
  BY <1>4, <1>5
<1>. QED  BY <1>6 DEF DateOf, DayMinutes

(* Booking accepts the hours that availability offers (core/slots.py       *)
(* _windows, core/booking.py _within_bookable_hours): a slot of a window,  *)
(* not in a repeated hour, is within the bookable hours of the day that    *)
(* booking looks up by itself.                                             *)
THEOREM OfferedHoursAreBookable ==
  ASSUME zone.at \in Int, zone.by \in Int, NEW cfg, NEW day \in Int,
         NEW k \in DOMAIN cfg.hours[day % 7],
         cfg.hours[day % 7][k][1] \in 0..(DayMinutes - 1),
         cfg.hours[day % 7][k][2] \in 0..(DayMinutes - 1),
         NEW start \in Int, NEW end \in Int, start < end,
         resolve_local(zone, day, cfg.hours[day % 7][k][1]) <= start,
         end <= resolve_local(zone, day, cfg.hours[day % 7][k][2]),
         ~fold(zone, start)
  PROVE  _within_bookable_hours(cfg, start, end)
<1>. DEFINE from == cfg.hours[day % 7][k][1]
            to   == cfg.hours[day % 7][k][2]
<1>1. resolve_local(zone, day, to) \in Int
  <2>1. to \in Int
    BY TimeOfDay
  <2>. HIDE DEF to
  <2>. QED  BY <2>1, ResolvesToFirst
<1>2. start < resolve_local(zone, day, to)
  BY <1>1
<1>3. DateOf(zone, start) = day
  BY <1>2, StartsOnItsDay
<1>. QED  BY <1>3 DEF _within_bookable_hours

-----------------------------------------------------------------------------
(* 3. Windows. *)

(* A set indexed by a finite set is finite. *)
LEMMA ImageIsFinite ==
  ASSUME NEW S, IsFiniteSet(S), NEW f, DOMAIN f = S, f = [x \in S |-> f[x]]
  PROVE  IsFiniteSet({f[x] : x \in S})
<1>. DEFINE T == {f[x] : x \in S}
<1>1. f \in [S -> T]
  BY Zenon
<1>2. \A t \in T : \E x \in S : f[x] = t
  OBVIOUS
<1>. HIDE DEF T
<1>3. f \in Surjection(S, T)
  BY <1>1, <1>2 DEF Surjection
<1>4. IsFiniteSet(T)
  BY <1>3, FS_Surjection
<1>. QED  BY <1>4 DEF T

(* What the loader makes of the hours of a binding: on each weekday,       *)
(* windows on the five-minute grid, in order and apart.                    *)
HoursFit(hours) ==
  \A day \in 0..6 :
    /\ IsFiniteSet(DOMAIN hours[day]) /\ DOMAIN hours[day] \subseteq Nat
    /\ \A k \in DOMAIN hours[day] :
         /\ hours[day][k][1] \in 0..(DayMinutes - 1) /\ hours[day][k][2] \in 0..(DayMinutes - 1)
         /\ hours[day][k][1] < hours[day][k][2]
         /\ hours[day][k][1] % 5 = 0 /\ hours[day][k][2] % 5 = 0
    /\ \A j, k \in DOMAIN hours[day] : j < k => hours[day][j][2] <= hours[day][k][1]

(* A zone has one change of its offset, at some instant.                   *)
ZoneFits(z) == z.at \in Int /\ z.by \in Int

(* The clock never makes a later local time come before an earlier one.    *)
LEMMA ResolveMonotone ==
  ASSUME NEW z, ZoneFits(z), NEW d1 \in Int, NEW t1 \in Int, NEW d2 \in Int, NEW t2 \in Int,
         d1 * DayMinutes + t1 <= d2 * DayMinutes + t2
  PROVE  resolve_local(z, d1, t1) <= resolve_local(z, d2, t2)
<1>. DEFINE r1 == resolve_local(z, d1, t1)
            r2 == resolve_local(z, d2, t2)
            w1 == d1 * DayMinutes + t1
            w2 == d2 * DayMinutes + t2
<1>1. r1 \in Int /\ \A i \in Int : i < r1 => Wall(z, i) < w1
  BY ResolvesToFirst DEF ZoneFits
<1>2. r2 \in Int /\ Wall(z, r2) >= w2
  BY ResolvesToFirst DEF ZoneFits
<1>3. w1 \in Int /\ w2 \in Int
  BY DEF DayMinutes
<1>4. Wall(z, r2) \in Int
  BY <1>2 DEF Wall, ZoneFits
<1>. HIDE DEF r1, r2, w1, w2
<1>5. ~(r2 < r1)
  <2>. SUFFICES ASSUME r2 < r1 PROVE FALSE
    OBVIOUS
  <2>1. Wall(z, r2) < w1
    BY <1>1, <1>2
  <2>2. w1 <= w2
    BY DEF w1, w2
  <2>. QED  BY <1>2, <1>3, <1>4, <2>1, <2>2
<1>6. r1 <= r2
  BY <1>1, <1>2, <1>5
<1>. QED  BY <1>6 DEF r1, r2

(* The order of dates and of the windows of a date.                        *)
Lex(P) == {r \in P \X P : \/ r[1][1] < r[2][1]
                          \/ r[1][1] = r[2][1] /\ r[1][2] < r[2][2]}

(* There are finitely many, each of a day and a window of its weekday.     *)
LEMMA OpenedIs ==
  ASSUME NEW z, NEW hours, HoursFit(hours), NEW first \in Int, NEW last \in Int
  PROVE  /\ IsFiniteSet(Opened(z, hours, first, last))
         /\ \A p \in Opened(z, hours, first, last) :
              /\ p = <<p[1], p[2]>>
              /\ p[1] \in first..last /\ p[2] \in DOMAIN hours[p[1] % 7] /\ p[2] \in Nat
              /\ Window(z, hours, p[1], p[2]).end > Window(z, hours, p[1], p[2]).start
         /\ \A day \in first..last : \A k \in DOMAIN hours[day % 7] :
              Window(z, hours, day, k).end > Window(z, hours, day, k).start =>
                <<day, k>> \in Opened(z, hours, first, last)
<1>. DEFINE Of(day) == {day} \X DOMAIN hours[day % 7]
            f       == [day \in first..last |-> Of(day)]
            All     == UNION {Of(day) : day \in first..last}
<1>1. \A day \in first..last : day % 7 \in 0..6
  OBVIOUS
<1>2. ASSUME NEW day \in first..last PROVE IsFiniteSet(Of(day))
  <2>1. IsFiniteSet({day}) /\ IsFiniteSet(DOMAIN hours[day % 7])
    BY <1>1, FS_Singleton DEF HoursFit
  <2>. QED  BY <2>1, FS_Product
<1>3. IsFiniteSet({f[day] : day \in first..last})
  <2>1. IsFiniteSet(first..last)
    BY FS_Interval
  <2>2. DOMAIN f = first..last /\ f = [day \in first..last |-> f[day]]
    OBVIOUS
  <2>. HIDE DEF f
  <2>. QED  BY <2>1, <2>2, ImageIsFinite
<1>4. {f[day] : day \in first..last} = {Of(day) : day \in first..last}
  OBVIOUS
<1>5. IsFiniteSet(All)
  <2>1. \A T \in {Of(day) : day \in first..last} : IsFiniteSet(T)
    BY <1>2
  <2>. HIDE DEF Of
  <2>. QED  BY <1>3, <1>4, <2>1, FS_UNION
<1>6. Opened(z, hours, first, last) \in SUBSET All
  BY DEF Opened
<1>7. IsFiniteSet(Opened(z, hours, first, last))
  <2>. HIDE DEF All
  <2>. QED  BY <1>5, <1>6, FS_Subset
<1>8. ASSUME NEW p \in Opened(z, hours, first, last)
      PROVE  /\ p = <<p[1], p[2]>>
             /\ p[1] \in first..last /\ p[2] \in DOMAIN hours[p[1] % 7] /\ p[2] \in Nat
             /\ Window(z, hours, p[1], p[2]).end > Window(z, hours, p[1], p[2]).start
  <2>1. PICK day \in first..last : p \in {day} \X DOMAIN hours[day % 7]
    BY DEF Opened
  <2>2. p = <<p[1], p[2]>> /\ p[1] = day /\ p[2] \in DOMAIN hours[day % 7]
    BY <2>1
  <2>3. p[2] \in Nat
    BY <1>1, <2>2 DEF HoursFit
  <2>. QED  BY <2>2, <2>3 DEF Opened
<1>9. ASSUME NEW day \in first..last, NEW k \in DOMAIN hours[day % 7],
             Window(z, hours, day, k).end > Window(z, hours, day, k).start
      PROVE  <<day, k>> \in Opened(z, hours, first, last)
  BY <1>9 DEF Opened
<1>. QED  BY <1>7, <1>8, <1>9

(* Of two open windows the one that comes first in the walk is over before *)
(* the other begins.                                                       *)
LEMMA WindowsApart ==
  ASSUME NEW z, ZoneFits(z), NEW hours, HoursFit(hours),
         NEW d1 \in Int, NEW k1 \in DOMAIN hours[d1 % 7],
         NEW d2 \in Int, NEW k2 \in DOMAIN hours[d2 % 7],
         d1 < d2 \/ (d1 = d2 /\ k1 < k2)
  PROVE  Window(z, hours, d1, k1).end <= Window(z, hours, d2, k2).start
<1>. DEFINE t1 == hours[d1 % 7][k1][2]
            t2 == hours[d2 % 7][k2][1]
<1>1. d1 % 7 \in 0..6 /\ d2 % 7 \in 0..6
  OBVIOUS
<1>2. t1 \in 0..(DayMinutes - 1) /\ t2 \in 0..(DayMinutes - 1)
  BY <1>1 DEF HoursFit
<1>3. t1 \in Int /\ t1 <= 1439 /\ t2 \in Int /\ 0 <= t2
  BY <1>2, TimeOfDay
<1>4. d1 = d2 /\ k1 < k2 => t1 <= t2
  BY <1>1 DEF HoursFit
<1>. HIDE DEF t1, t2
<1>5. d1 * DayMinutes + t1 <= d2 * DayMinutes + t2
  BY <1>3, <1>4 DEF DayMinutes
<1>6. resolve_local(z, d1, t1) <= resolve_local(z, d2, t2)
  BY <1>3, <1>5, ResolveMonotone
<1>. QED  BY <1>6 DEF Window, t1, t2

(* The windows of a span of dates are the open ones, in order and apart.   *)
LEMMA WindowsAre ==
  ASSUME NEW z, ZoneFits(z), NEW hours, HoursFit(hours), NEW first \in Int, NEW last \in Int
  PROVE  LET ws == _windows(z, hours, first, last)
         IN  /\ ws \in Seq(Range(ws)) /\ Len(ws) \in Nat /\ DOMAIN ws = 1..Len(ws)
             /\ \A i \in 1..Len(ws) :
                  /\ ws[i].start \in Int /\ ws[i].end \in Int /\ ws[i].start < ws[i].end
                  /\ \E day \in first..last : \E k \in DOMAIN hours[day % 7] :
                       ws[i] = Window(z, hours, day, k)
             /\ \A day \in first..last : \A k \in DOMAIN hours[day % 7] :
                  Window(z, hours, day, k).end > Window(z, hours, day, k).start =>
                    \E i \in 1..Len(ws) : ws[i] = Window(z, hours, day, k)
             /\ \A i, j \in 1..Len(ws) : i < j => ws[i].end <= ws[j].start
<1>. DEFINE opened == Opened(z, hours, first, last)
            order  == Sorted(opened, Lex(opened))
            n      == Cardinality(opened)
            ws     == _windows(z, hours, first, last)
<1>1. /\ IsFiniteSet(opened)
      /\ \A p \in opened :
              /\ p = <<p[1], p[2]>>
              /\ p[1] \in first..last /\ p[2] \in DOMAIN hours[p[1] % 7] /\ p[2] \in Nat
              /\ Window(z, hours, p[1], p[2]).end > Window(z, hours, p[1], p[2]).start
      /\ \A day \in first..last : \A k \in DOMAIN hours[day % 7] :
              Window(z, hours, day, k).end > Window(z, hours, day, k).start =>
                <<day, k>> \in opened
  BY OpenedIs
<1>2. ws = [j \in DOMAIN order |-> Window(z, hours, order[j][1], order[j][2])]
  BY DEF _windows, Windows, InHoursOrder, Lex
<1>. HIDE DEF opened, ws
<1>3. Strict(opened, Lex(opened))
  <2>1. \A x \in opened : x[1] \in Int /\ x[2] \in Int
    BY <1>1
  <2>2. \A x, y \in opened : <<x, y>> \in Lex(opened) <=>
          x[1] < y[1] \/ (x[1] = y[1] /\ x[2] < y[2])
    BY DEF Lex
  <2>3. \A x \in opened : <<x, x>> \notin Lex(opened)
    BY <2>1, <2>2
  <2>4. \A x, y, w \in opened :
          <<x, y>> \in Lex(opened) /\ <<y, w>> \in Lex(opened) => <<x, w>> \in Lex(opened)
    BY <2>1, <2>2
  <2>5. ASSUME NEW x \in opened, NEW y \in opened, x # y
        PROVE  <<x, y>> \in Lex(opened) \/ <<y, x>> \in Lex(opened)
    <3>1. x[1] # y[1] \/ x[2] # y[2]
      BY <1>1, <2>5
    <3>. QED  BY <2>1, <2>2, <3>1
  <2>. QED  BY <2>3, <2>4, <2>5 DEF Strict
<1>4. /\ n \in Nat /\ DOMAIN order = 1..n
      /\ \A k \in 1..n : order[k] \in opened
      /\ \A x \in opened : \E k \in 1..n : order[k] = x
      /\ \A i, j \in 1..n : i < j => <<order[i], order[j]>> \in Lex(opened)
  BY <1>1, <1>3, SortedIs
<1>. HIDE DEF order, n
<1>5. \A i \in 1..n : ws[i] = Window(z, hours, order[i][1], order[i][2])
  BY <1>2, <1>4
<1>6. ws \in Seq(Range(ws)) /\ Len(ws) = n /\ DOMAIN ws = 1..n
  <2>1. ws = [j \in 1..n |-> Window(z, hours, order[j][1], order[j][2])]
    BY <1>2, <1>4
  <2>2. ws \in [1..n -> Range(ws)]
    BY <2>1 DEF Range
  <2>. QED  BY <1>4, <2>2
<1>7. ASSUME NEW i \in 1..n
      PROVE  /\ ws[i].start \in Int /\ ws[i].end \in Int /\ ws[i].start < ws[i].end
             /\ \E day \in first..last : \E k \in DOMAIN hours[day % 7] :
                  ws[i] = Window(z, hours, day, k)
  <2>1. order[i] \in opened
    BY <1>4
  <2>2. order[i][1] \in first..last /\ order[i][2] \in DOMAIN hours[order[i][1] % 7]
        /\ ws[i].end > ws[i].start
    BY <1>1, <1>5, <2>1
  <2>3. order[i][1] \in Int
    BY <2>2
  <2>4. ws[i].start \in Int /\ ws[i].end \in Int
    <3>. DEFINE d == order[i][1]
                k == order[i][2]
    <3>1. d % 7 \in 0..6
      BY <2>3
    <3>2. hours[d % 7][k][1] \in 0..(DayMinutes - 1) /\ hours[d % 7][k][2] \in 0..(DayMinutes - 1)
      BY <2>2, <3>1 DEF HoursFit
    <3>. DEFINE t1 == hours[d % 7][k][1]
                t2 == hours[d % 7][k][2]
    <3>3. t1 \in Int /\ t2 \in Int
      BY <3>2, TimeOfDay
    <3>4. ws[i] = [day |-> d, start |-> resolve_local(z, d, t1), end |-> resolve_local(z, d, t2)]
      BY <1>5 DEF Window
    <3>. HIDE DEF t1, t2, d
    <3>5. d \in Int
      BY <2>3 DEF d
    <3>6. resolve_local(z, d, t1) \in Int /\ resolve_local(z, d, t2) \in Int
      BY <3>3, <3>5, ResolvesToFirst DEF ZoneFits
    <3>. QED  BY <3>4, <3>6
  <2>. QED  BY <1>5, <2>2, <2>4
<1>8. ASSUME NEW day \in first..last, NEW k \in DOMAIN hours[day % 7],
             Window(z, hours, day, k).end > Window(z, hours, day, k).start
      PROVE  \E i \in 1..n : ws[i] = Window(z, hours, day, k)
  <2>1. PICK i \in 1..n : order[i] = <<day, k>>
    BY <1>1, <1>4, <1>8
  <2>. QED  BY <1>5, <2>1
<1>9. ASSUME NEW i \in 1..n, NEW j \in 1..n, i < j PROVE ws[i].end <= ws[j].start
  <2>1. order[i] \in opened /\ order[j] \in opened /\ <<order[i], order[j]>> \in Lex(opened)
    BY <1>4, <1>9
  <2>2. order[i][1] < order[j][1] \/ (order[i][1] = order[j][1] /\ order[i][2] < order[j][2])
    BY <2>1 DEF Lex
  <2>3. /\ order[i][1] \in Int /\ order[i][2] \in DOMAIN hours[order[i][1] % 7]
        /\ order[j][1] \in Int /\ order[j][2] \in DOMAIN hours[order[j][1] % 7]
    BY <1>1, <2>1
  <2>. QED  BY <1>5, <2>2, <2>3, WindowsApart
<1>. QED  BY <1>4, <1>6, <1>7, <1>8, <1>9 DEF ws

-----------------------------------------------------------------------------
(* 4. Busy time. *)

(* A list that is built element by element is the one its equation says.   *)
Build(spans, m) == [k \in 0..Len(spans) |-> IF k = 0 THEN <<>> ELSE Join(m[k - 1], spans[k])]

(* There is such a list, and it begins empty and goes on by Join.          *)
LEMMA BuiltIs ==
  ASSUME NEW spans, Len(spans) \in Nat
  PROVE  \E m : m = Build(spans, m)
<1>. DEFINE n == Len(spans)
            Upto(i, f) == f = [k \in 0..i |-> IF k = 0 THEN <<>> ELSE Join(f[k - 1], spans[k])]
            Bad == {i \in 0..n : ~ \E f : Upto(i, f)}
<1>1. CASE Bad = {}
  <2>1. \E f : Upto(n, f)
    BY <1>1
  <2>. QED  BY <2>1 DEF Build
<1>2. CASE Bad # {}
  <2>1. PICK i \in Bad : \A j \in Bad : i <= j
    <3>1. Bad \in SUBSET Nat
      OBVIOUS
    <3>. HIDE DEF Bad
    <3>. QED  BY <1>2, <3>1, LeastOf
  <2>2. i \in 0..n /\ ~ \E f : Upto(i, f)
    OBVIOUS
  <2>3. i # 0
    <3>1. [k \in 0..0 |-> <<>>] = [k \in 0..0 |-> IF k = 0 THEN <<>> ELSE Join([x \in 0..0 |-> <<>>][k - 1], spans[k])]
      OBVIOUS
    <3>2. Upto(0, [k \in 0..0 |-> <<>>])
      BY <3>1
    <3>. QED  BY <2>2, <3>2
  <2>4. PICK f : Upto(i - 1, f)
    <3>1. i - 1 \in 0..n /\ ~(i <= i - 1)
      BY <2>2, <2>3
    <3>2. i - 1 \notin Bad
      BY <2>1, <3>1
    <3>. QED  BY <3>1, <3>2
  <2>. DEFINE g == [k \in 0..i |-> IF k = i THEN Join(f[i - 1], spans[i]) ELSE f[k]]
  <2>5. ASSUME NEW k \in 0..i
        PROVE  g[k] = IF k = 0 THEN <<>> ELSE Join(g[k - 1], spans[k])
    <3>1. CASE k = i
      <4>1. i - 1 \in 0..i /\ i - 1 # i
        BY <2>2, <2>3
      <4>. QED  BY <2>3, <3>1, <4>1
    <3>2. CASE k # i
      <4>1. k \in 0..(i - 1) /\ g[k] = f[k]
        BY <2>2, <3>2
      <4>2. f[k] = IF k = 0 THEN <<>> ELSE Join(f[k - 1], spans[k])
        BY <2>4, <4>1
      <4>3. k # 0 => g[k - 1] = f[k - 1]
        BY <2>2, <4>1
      <4>. QED  BY <4>1, <4>2, <4>3
    <3>. QED  BY <3>1, <3>2
  <2>6. g = [k \in 0..i |-> g[k]]
    OBVIOUS
  <2>. HIDE DEF g
  <2>7. Upto(i, g)
    BY <2>5, <2>6
  <2>. QED  BY <2>2, <2>7
<1>. QED  BY <1>1, <1>2

(* What the merging of busy time is at every length.                       *)
LEMMA MergedIs ==
  ASSUME NEW busy, NEW buffer, Len(Spans(busy, buffer)) \in Nat
  PROVE  LET spans == Spans(busy, buffer)
         IN  \E m : /\ m[0] = <<>>
                    /\ \A k \in 1..Len(spans) : m[k] = Join(m[k - 1], spans[k])
                    /\ _merged_busy(busy, buffer) = m[Len(spans)]
<1>. DEFINE spans == Spans(busy, buffer)
            m     == CHOOSE f : f = Build(spans, f)
<1>1. _merged_busy(busy, buffer) = m[Len(spans)]
  BY DEF _merged_busy, Build
<1>2. m = Build(spans, m)
  <2>1. \E f : f = Build(spans, f)
    BY BuiltIs
  <2>. HIDE DEF spans
  <2>. QED  BY <2>1, Zenon
<1>. HIDE DEF m
<1>3. m[0] = <<>>
  BY <1>2 DEF Build
<1>4. \A k \in 1..Len(spans) : m[k] = Join(m[k - 1], spans[k])
  BY <1>2 DEF Build
<1>. QED  BY <1>1, <1>3, <1>4

(* A span of busy time. *)
TimeSpan == [start : Int, end : Int]

(* The spans of busy time are one per event, by their start.               *)
LEMMA SpansAre ==
  ASSUME NEW busy, IsFiniteSet(busy), NEW buffer \in Nat,
         \A b \in busy : b.start \in Int /\ b.end \in Int /\ b.start < b.end
  PROVE  LET spans == Spans(busy, buffer)
         IN  /\ spans \in Seq(TimeSpan) /\ Len(spans) \in Nat
             /\ \A i \in 1..Len(spans) :
                  /\ spans[i].start < spans[i].end
                  /\ \E b \in busy : spans[i].start = b.start - buffer /\ spans[i].end = b.end + buffer
             /\ \A b \in busy : \E i \in 1..Len(spans) :
                  spans[i].start = b.start - buffer /\ spans[i].end = b.end + buffer
             /\ \A i, j \in 1..Len(spans) : i < j => spans[i].start <= spans[j].start
<1>. DEFINE wide  == [b \in busy |-> [start |-> b.start - buffer, end |-> b.end + buffer]]
            all   == {[start |-> b.start - buffer, end |-> b.end + buffer] : b \in busy}
            R     == {r \in all \X all : \/ r[1].start < r[2].start
                                         \/ r[1].start = r[2].start /\ r[1].end < r[2].end}
            spans == Spans(busy, buffer)
            n     == Cardinality(all)
<1>1. IsFiniteSet(all)
  <2>1. DOMAIN wide = busy /\ wide = [b \in busy |-> wide[b]]
    OBVIOUS
  <2>2. {wide[b] : b \in busy} = all
    OBVIOUS
  <2>. HIDE DEF wide, all
  <2>. QED  BY <2>1, <2>2, ImageIsFinite
<1>2. spans = Sorted(all, R)
  BY DEF Spans
<1>3. \A x \in all : x \in TimeSpan /\ x = [start |-> x.start, end |-> x.end] /\ x.start < x.end
  BY DEF TimeSpan
<1>4. /\ \A x \in all : \E b \in busy : x.start = b.start - buffer /\ x.end = b.end + buffer
      /\ \A b \in busy : \E x \in all : x.start = b.start - buffer /\ x.end = b.end + buffer
  <2>1. ASSUME NEW x \in all PROVE \E b \in busy : x.start = b.start - buffer /\ x.end = b.end + buffer
    OBVIOUS
  <2>2. ASSUME NEW b \in busy PROVE \E x \in all : x.start = b.start - buffer /\ x.end = b.end + buffer
    <3>1. [start |-> b.start - buffer, end |-> b.end + buffer] \in all
      OBVIOUS
    <3>. QED  BY <3>1
  <2>. QED  BY <2>1, <2>2
<1>. HIDE DEF all, spans, n
<1>5. \A x, y \in all : <<x, y>> \in R <=>
        x.start < y.start \/ (x.start = y.start /\ x.end < y.end)
  OBVIOUS
<1>6. \A x \in all : x.start \in Int /\ x.end \in Int
  BY <1>3 DEF TimeSpan
<1>. HIDE DEF R
<1>7. Strict(all, R)
  <2>1. \A x \in all : <<x, x>> \notin R
    BY <1>5, <1>6
  <2>2. \A x, y, w \in all : <<x, y>> \in R /\ <<y, w>> \in R => <<x, w>> \in R
    BY <1>5, <1>6
  <2>3. ASSUME NEW x \in all, NEW y \in all, x # y PROVE <<x, y>> \in R \/ <<y, x>> \in R
    <3>1. x.start # y.start \/ x.end # y.end
      BY <1>3, <2>3
    <3>. QED  BY <1>5, <1>6, <3>1
  <2>. QED  BY <2>1, <2>2, <2>3 DEF Strict
<1>8. /\ n \in Nat /\ DOMAIN spans = 1..n
      /\ \A k \in 1..n : spans[k] \in all
      /\ \A x \in all : \E k \in 1..n : spans[k] = x
      /\ \A i, j \in 1..n : i < j => <<spans[i], spans[j]>> \in R
  BY <1>1, <1>2, <1>7, SortedIs DEF n
<1>9. spans \in Seq(all) /\ Len(spans) = n
  BY <1>1, <1>2, <1>7, SortedList DEF n
<1>10. spans \in Seq(TimeSpan)
  BY <1>3, <1>9
<1>11. \A i, j \in 1..n : i < j => spans[i].start <= spans[j].start
  <2>. SUFFICES ASSUME NEW i \in 1..n, NEW j \in 1..n, i < j PROVE spans[i].start <= spans[j].start
    OBVIOUS
  <2>1. spans[i] \in all /\ spans[j] \in all /\ <<spans[i], spans[j]>> \in R
    BY <1>8
  <2>. QED  BY <1>5, <1>6, <2>1
<1>12. \A i \in 1..n : spans[i].start < spans[i].end
                       /\ \E b \in busy : spans[i].start = b.start - buffer /\ spans[i].end = b.end + buffer
  BY <1>3, <1>4, <1>8
<1>13. \A b \in busy : \E i \in 1..n : spans[i].start = b.start - buffer /\ spans[i].end = b.end + buffer
  <2>. SUFFICES ASSUME NEW b \in busy
                PROVE  \E i \in 1..n : spans[i].start = b.start - buffer /\ spans[i].end = b.end + buffer
    OBVIOUS
  <2>1. PICK x \in all : x.start = b.start - buffer /\ x.end = b.end + buffer
    BY <1>4
  <2>2. PICK i \in 1..n : spans[i] = x
    BY <1>8
  <2>. QED  BY <2>1, <2>2
<1>. QED  BY <1>8, <1>9, <1>10, <1>11, <1>12, <1>13 DEF spans

(* What merging has made of the first k spans.                             *)
Merging(m, spans, k) ==
  /\ m \in Seq(TimeSpan)
  /\ k # 0 => m # <<>> /\ m[Len(m)].start <= spans[k].start
  /\ \A i \in 1..Len(m) : m[i].start < m[i].end
  /\ \A i, j \in 1..Len(m) : i < j => m[i].end < m[j].start
  /\ \A h \in 1..k : \E i \in 1..Len(m) : m[i].start <= spans[h].start /\ spans[h].end <= m[i].end
  /\ \A i \in 1..Len(m) : \A t \in Int : m[i].start <= t /\ t < m[i].end =>
       \E h \in 1..k : spans[h].start <= t /\ t < spans[h].end

(* Spans by their starts. *)
InOrder(spans) ==
  /\ spans \in Seq(TimeSpan)
  /\ \A i \in 1..Len(spans) : spans[i].start < spans[i].end
  /\ \A i, j \in 1..Len(spans) : i < j => spans[i].start <= spans[j].start

(* A span has a start and an end. *)
LEMMA SpanFields == \A s \in TimeSpan : s.start \in Int /\ s.end \in Int
BY DEF TimeSpan

(* One more span. *)
LEMMA JoinKeeps ==
  ASSUME NEW spans, InOrder(spans), NEW k \in 1..Len(spans), NEW m, Merging(m, spans, k - 1)
  PROVE  Merging(Join(m, spans[k]), spans, k)
<1>. DEFINE s == spans[k]
            l == Len(m)
            w == Join(m, s)
<1>1. Len(spans) \in Nat /\ k \in Int /\ l \in Nat /\ m \in Seq(TimeSpan)
  BY DEF InOrder, Merging
<1>2. s \in TimeSpan /\ s.start \in Int /\ s.end \in Int /\ s.start < s.end
  <2>1. s \in TimeSpan
    BY DEF InOrder
  <2>. QED  BY <2>1, SpanFields DEF InOrder
<1>3. \A i \in 1..l : m[i] \in TimeSpan /\ m[i].start \in Int /\ m[i].end \in Int
  <2>1. \A i \in 1..l : m[i] \in TimeSpan
    BY <1>1
  <2>. QED  BY <2>1, SpanFields
<1>4. CASE m # <<>> /\ s.start <= m[l].end
  <2>. DEFINE e == IF s.end > m[l].end THEN s.end ELSE m[l].end
  <2>1. w = [m EXCEPT ![l].end = e]
    BY <1>4 DEF Join
  <2>2. l \in 1..l
    BY <1>1, <1>4
  <2>3. e \in Int /\ m[l].end <= e /\ s.end <= e
    BY <1>2, <1>3, <2>2
  <2>4. w \in Seq(TimeSpan) /\ Len(w) = l
    <3>1. [m[l] EXCEPT !.end = e] \in TimeSpan
      BY <1>3, <2>2, <2>3 DEF TimeSpan
    <3>2. w = [m EXCEPT ![l] = [m[l] EXCEPT !.end = e]]
      BY <2>1
    <3>. HIDE DEF w, e
    <3>. QED  BY <1>1, <2>2, <3>1, <3>2
  <2>5. /\ \A i \in 1..l : i # l => w[i] = m[i]
        /\ w[l].start = m[l].start /\ w[l].end = e
    BY <1>1, <1>3, <2>1, <2>2 DEF TimeSpan
  <2>6. \A i \in 1..l : w[i].start = m[i].start /\ w[i].end >= m[i].end
    BY <1>3, <2>2, <2>3, <2>5
  <2>7. k - 1 # 0 /\ m[l].start <= s.start
    <3>1. k - 1 = 0 => m = <<>>
      <4>1. k - 1 = 0 => ~ \E i \in 1..l : \E t \in Int : m[i].start <= t /\ t < m[i].end
        BY DEF Merging
      <4>2. m[l].start <= m[l].start /\ m[l].start < m[l].end
        BY <1>3, <2>2 DEF Merging
      <4>. QED  BY <1>3, <2>2, <4>1, <4>2
    <3>2. k - 1 \in 1..Len(spans) /\ m[l].start <= spans[k - 1].start
      BY <1>1, <1>4, <3>1 DEF Merging
    <3>3. spans[k - 1].start <= s.start
      BY <1>1, <3>2 DEF InOrder
    <3>4. spans[k - 1].start \in Int
      BY <3>2, SpanFields DEF InOrder
    <3>. QED  BY <1>2, <1>3, <1>4, <2>2, <3>1, <3>2, <3>3, <3>4
  <2>. HIDE DEF w, e
  <2>8. w # <<>> /\ w[Len(w)].start <= s.start
    BY <2>2, <2>4, <2>5, <2>7
  <2>9. \A i \in 1..l : w[i].start < w[i].end
    BY <1>3, <2>2, <2>3, <2>5 DEF Merging
  <2>10. \A i, j \in 1..l : i < j => w[i].end < w[j].start
    BY <1>1, <2>5, <2>6 DEF Merging
  <2>11. ASSUME NEW h \in 1..k
         PROVE  \E i \in 1..l : w[i].start <= spans[h].start /\ spans[h].end <= w[i].end
    <3>1. CASE h = k
      BY <2>2, <2>3, <2>5, <2>7, <3>1
    <3>2. CASE h # k
      <4>1. h \in 1..(k - 1) /\ h \in 1..Len(spans)
        BY <1>1, <3>2
      <4>2. PICK i \in 1..l : m[i].start <= spans[h].start /\ spans[h].end <= m[i].end
        BY <4>1 DEF Merging
      <4>3. spans[h].end \in Int
        BY <4>1, SpanFields DEF InOrder
      <4>4. w[i].end \in Int
        BY <1>3, <2>3, <2>5
      <4>. QED  BY <1>3, <2>6, <4>2, <4>3, <4>4
    <3>. QED  BY <3>1, <3>2
  <2>12. ASSUME NEW i \in 1..l, NEW t \in Int, w[i].start <= t, t < w[i].end
         PROVE  \E h \in 1..k : spans[h].start <= t /\ t < spans[h].end
    <3>1. CASE t < m[i].end
      <4>1. \E h \in 1..(k - 1) : spans[h].start <= t /\ t < spans[h].end
        BY <2>6, <2>12, <3>1 DEF Merging
      <4>. QED  BY <1>1, <4>1
    <3>2. CASE ~(t < m[i].end)
      <4>1. i = l /\ t < s.end /\ m[l].end <= t
        BY <1>3, <2>2, <2>3, <2>5, <2>12, <3>2 DEF e
      <4>2. s.start <= t
        BY <1>2, <1>3, <1>4, <2>2, <4>1
      <4>. QED  BY <1>1, <4>1, <4>2
    <3>. QED  BY <3>1, <3>2
  <2>13. Merging(w, spans, k)
    BY <1>1, <2>4, <2>8, <2>9, <2>10, <2>11, <2>12 DEF Merging
  <2>. QED  BY <2>13 DEF w
<1>5. CASE ~(m # <<>> /\ s.start <= m[l].end)
  <2>1. w = Append(m, s)
    BY <1>5 DEF Join
  <2>2. w \in Seq(TimeSpan) /\ Len(w) = l + 1 /\ w[l + 1] = s
    BY <1>1, <1>2, <2>1
  <2>3. \A i \in 1..l : w[i] = m[i]
    BY <1>1, <1>2, <2>1
  <2>4. \A i \in 1..l : m[i].end < s.start
    <3>. SUFFICES ASSUME NEW i \in 1..l PROVE m[i].end < s.start
      OBVIOUS
    <3>1. l \in 1..l /\ m # <<>>
      BY <1>1
    <3>2. m[l].end < s.start
      BY <1>2, <1>3, <1>5, <3>1
    <3>3. i # l => m[i].end < m[l].start /\ m[l].start < m[l].end
      BY <1>1, <3>1 DEF Merging
    <3>. QED  BY <1>2, <1>3, <3>1, <3>2, <3>3
  <2>. HIDE DEF w
  <2>5. w # <<>> /\ w[Len(w)].start <= s.start
    BY <1>1, <1>2, <2>2
  <2>6. \A i \in 1..(l + 1) : w[i].start < w[i].end
    BY <1>1, <1>2, <2>2, <2>3 DEF Merging
  <2>7. ASSUME NEW i \in 1..(l + 1), NEW j \in 1..(l + 1), i < j PROVE w[i].end < w[j].start
    <3>1. i \in 1..l
      BY <1>1, <2>7
    <3>2. CASE j = l + 1
      BY <2>2, <2>3, <2>4, <3>1, <3>2
    <3>3. CASE j # l + 1
      <4>1. j \in 1..l
        BY <1>1, <3>3
      <4>. QED  BY <2>3, <2>7, <3>1, <4>1 DEF Merging
    <3>. QED  BY <3>2, <3>3
  <2>8. ASSUME NEW h \in 1..k
        PROVE  \E i \in 1..(l + 1) : w[i].start <= spans[h].start /\ spans[h].end <= w[i].end
    <3>1. CASE h = k
      BY <1>1, <1>2, <2>2, <3>1
    <3>2. CASE h # k
      <4>1. h \in 1..(k - 1)
        BY <1>1, <3>2
      <4>2. PICK i \in 1..l : m[i].start <= spans[h].start /\ spans[h].end <= m[i].end
        BY <4>1 DEF Merging
      <4>3. i \in 1..(l + 1)
        BY <1>1
      <4>. QED  BY <2>3, <4>2, <4>3
    <3>. QED  BY <3>1, <3>2
  <2>9. ASSUME NEW i \in 1..(l + 1), NEW t \in Int, w[i].start <= t, t < w[i].end
        PROVE  \E h \in 1..k : spans[h].start <= t /\ t < spans[h].end
    <3>1. CASE i = l + 1
      BY <1>1, <2>2, <2>9, <3>1
    <3>2. CASE i # l + 1
      <4>1. i \in 1..l
        BY <1>1, <3>2
      <4>2. \E h \in 1..(k - 1) : spans[h].start <= t /\ t < spans[h].end
        BY <2>3, <2>9, <4>1 DEF Merging
      <4>. QED  BY <1>1, <4>2
    <3>. QED  BY <3>1, <3>2
  <2>13. Merging(w, spans, k)
    BY <1>1, <2>2, <2>5, <2>6, <2>7, <2>8, <2>9 DEF Merging
  <2>. QED  BY <2>13 DEF w
<1>. QED  BY <1>4, <1>5

(* What a calendar may hold: finitely many events, each with an extent.    *)
BusyFits(busy) ==
  /\ IsFiniteSet(busy)
  /\ \A b \in busy : b.start \in Int /\ b.end \in Int /\ b.start < b.end

(* All spans are merged, whatever their number. *)
LEMMA MergedHolds ==
  ASSUME NEW busy, BusyFits(busy), NEW buffer \in Nat
  PROVE  Merging(_merged_busy(busy, buffer), Spans(busy, buffer), Len(Spans(busy, buffer)))
<1>. DEFINE spans == Spans(busy, buffer)
            n     == Len(spans)
<1>1. InOrder(spans) /\ n \in Nat
  BY SpansAre DEF InOrder, BusyFits
<1>2. PICK m : /\ m[0] = <<>>
               /\ \A k \in 1..n : m[k] = Join(m[k - 1], spans[k])
               /\ _merged_busy(busy, buffer) = m[n]
  BY <1>1, MergedIs
<1>. HIDE DEF spans, n
<1>3. n = Len(spans)
  BY DEF n
<1>. DEFINE Bad == {k \in 0..n : ~Merging(m[k], spans, k)}
<1>4. Bad = {}
  <2>. SUFFICES ASSUME Bad # {} PROVE FALSE
    OBVIOUS
  <2>1. PICK k \in Bad : \A j \in Bad : k <= j
    <3>1. Bad \in SUBSET Nat
      OBVIOUS
    <3>. HIDE DEF Bad
    <3>. QED  BY <3>1, LeastOf
  <2>2. k \in 0..n /\ ~Merging(m[k], spans, k)
    OBVIOUS
  <2>3. k # 0
    <3>1. Merging(<<>>, spans, 0)
      BY DEF Merging
    <3>. QED  BY <1>2, <2>2, <3>1
  <2>4. Merging(m[k - 1], spans, k - 1)
    <3>1. k - 1 \in 0..n /\ ~(k <= k - 1)
      BY <1>1, <2>2, <2>3
    <3>. QED  BY <2>1, <3>1
  <2>5. k \in 1..n /\ k \in 1..Len(spans)
    BY <1>1, <1>3, <2>2, <2>3
  <2>. QED  BY <1>1, <1>2, <2>2, <2>4, <2>5, JoinKeeps
<1>5. Merging(m[n], spans, n)
  BY <1>1, <1>4
<1>. QED  BY <1>2, <1>5 DEF spans, n

(* The busy test of the slot engine (core/slots.py _merged_busy, _is_busy),*)
(* which merges busy time and looks at one span only, is exact: a time is  *)
(* busy when some event is closer than the buffer on either side.          *)
THEOREM BusyIsExact ==
  ASSUME NEW busy, BusyFits(busy), NEW buffer \in Nat,
         NEW start \in Int, NEW end \in Int, start < end
  PROVE  _is_busy(start, end, _merged_busy(busy, buffer)) <=>
           \E b \in busy : b.start - buffer < end /\ start < b.end + buffer
<1>. DEFINE m      == _merged_busy(busy, buffer)
            spans  == Spans(busy, buffer)
            before == {i \in DOMAIN m : m[i].start < end}
            n      == Len(m)
            Clash(b) == b.start - buffer < end /\ start < b.end + buffer
<1>1. Merging(m, spans, Len(spans))
  BY MergedHolds
<1>2. /\ spans \in Seq(TimeSpan) /\ Len(spans) \in Nat
      /\ \A i \in 1..Len(spans) :
           \E b \in busy : spans[i].start = b.start - buffer /\ spans[i].end = b.end + buffer
      /\ \A b \in busy : \E i \in 1..Len(spans) :
           spans[i].start = b.start - buffer /\ spans[i].end = b.end + buffer
  <2>1. IsFiniteSet(busy) /\ \A b \in busy : b.start \in Int /\ b.end \in Int /\ b.start < b.end
    BY DEF BusyFits
  <2>. HIDE DEF spans
  <2>. QED  BY <2>1, SpansAre DEF spans
<1>3. _is_busy(start, end, m) <=> before # {} /\ m[Max(before)].end > start
  BY DEF _is_busy
<1>4. \A b \in busy : b.start \in Int /\ b.end \in Int
  BY DEF BusyFits
<1>. HIDE DEF m, spans
<1>5. m \in Seq(TimeSpan) /\ n \in Nat /\ DOMAIN m = 1..n
  BY <1>1 DEF Merging
<1>6. \A i \in 1..n : m[i].start \in Int /\ m[i].end \in Int
  <2>1. \A i \in 1..n : m[i] \in TimeSpan
    BY <1>5
  <2>. QED  BY <2>1, SpanFields
<1>7. before # {} => Max(before) \in before /\ \A i \in before : i <= Max(before)
  <2>. SUFFICES ASSUME before # {} PROVE Max(before) \in before /\ \A i \in before : i <= Max(before)
    OBVIOUS
  <2>1. before \in SUBSET Nat /\ \A i \in before : i <= n
    BY <1>5
  <2>. HIDE DEF before
  <2>2. PICK x \in before : \A y \in before : y <= x
    BY <1>5, <2>1, GreatestOf
  <2>3. before \in SUBSET Int
    BY <2>1
  <2>4. Max(before) = x
    BY <2>2, <2>3, MaxIs
  <2>. QED  BY <2>2, <2>4
<1>8. ASSUME before # {}, m[Max(before)].end > start PROVE \E b \in busy : Clash(b)
  <2>. DEFINE j == Max(before)
              t == IF m[j].start > start THEN m[j].start ELSE start
  <2>1. j \in 1..n /\ m[j].start < end /\ m[j].end > start
    BY <1>5, <1>7, <1>8
  <2>. HIDE DEF j
  <2>2. m[j].start < m[j].end
    BY <1>1, <2>1 DEF Merging
  <2>3. t \in Int /\ m[j].start <= t /\ t < m[j].end /\ start <= t /\ t < end
    BY <1>6, <2>1, <2>2
  <2>. HIDE DEF t
  <2>4. PICK h \in 1..Len(spans) : spans[h].start <= t /\ t < spans[h].end
    BY <1>1, <2>1, <2>3 DEF Merging
  <2>5. PICK b \in busy : spans[h].start = b.start - buffer /\ spans[h].end = b.end + buffer
    BY <1>2
  <2>. QED  BY <1>4, <2>3, <2>4, <2>5
<1>9. ASSUME NEW b \in busy, Clash(b) PROVE before # {} /\ m[Max(before)].end > start
  <2>1. PICK h \in 1..Len(spans) : spans[h].start = b.start - buffer /\ spans[h].end = b.end + buffer
    BY <1>2
  <2>2. PICK i \in 1..n : m[i].start <= spans[h].start /\ spans[h].end <= m[i].end
    BY <1>1 DEF Merging
  <2>3. m[i].start < end /\ start < m[i].end
    <3>1. m[i].start <= b.start - buffer /\ b.end + buffer <= m[i].end
      BY <2>1, <2>2
    <3>2. b.start - buffer \in Int /\ b.end + buffer \in Int /\ m[i].start \in Int /\ m[i].end \in Int
      BY <1>4, <1>6
    <3>3. b.start - buffer < end /\ start < b.end + buffer
      BY <1>9
    <3>. QED  BY <3>1, <3>2, <3>3
  <2>4. i \in before
    BY <1>5, <2>3
  <2>. DEFINE j == Max(before)
  <2>5. j \in 1..n /\ i <= j
    BY <1>5, <1>7, <2>4
  <2>. HIDE DEF j
  <2>6. i = j \/ (m[i].end < m[j].start /\ m[j].start < m[j].end)
    <3>1. i < j => m[i].end < m[j].start
      BY <1>1, <2>5 DEF Merging
    <3>2. m[j].start < m[j].end
      BY <1>1, <2>5 DEF Merging
    <3>. QED  BY <2>5, <3>1, <3>2
  <2>7. m[j].end > start
    BY <1>6, <2>3, <2>5, <2>6
  <2>. QED  BY <2>4, <2>7 DEF j
<1>. QED  BY <1>3, <1>8, <1>9 DEF m

-----------------------------------------------------------------------------
(* 5. Candidates and the selection from them. *)

(* The slots of one window are finitely many and lie in it.                *)
LEMMA GridIs ==
  ASSUME NEW w, w.start \in Int, w.end \in Int, NEW duration \in Nat \ {0}, NEW step \in Nat \ {0}
  PROVE  /\ IsFiniteSet(Grid(w, duration, step))
         /\ \A c \in Grid(w, duration, step) :
              /\ c.start \in Int /\ w.start <= c.start
              /\ c = [day |-> w.day, start |-> c.start, end |-> c.start + duration]
              /\ c.start + duration <= w.end
         /\ \A c \in Grid(w, duration, step) : \E k \in Nat : c.start = w.start + k * step
         /\ \A k \in Nat : w.start + k * step + duration <= w.end =>
              \E c \in Grid(w, duration, step) : c.start = w.start + k * step
<1>. DEFINE room == w.end - w.start - duration
            last == room \div step
            at(k) == w.start + k * step
            slot(k) == [day |-> w.day, start |-> at(k), end |-> at(k) + duration]
            f == [k \in 0..last |-> slot(k)]
            G == Grid(w, duration, step)
<1>1. room \in Int /\ last \in Int
  OBVIOUS
<1>2. G = {slot(k) : k \in 0..last}
  BY DEF Grid
<1>3. \A k \in Nat : k * step \in Nat /\ at(k) \in Int
  OBVIOUS
<1>4. \A k \in 0..last : at(k) + duration <= w.end
  OBVIOUS
<1>5. \A k \in Nat : at(k) + duration <= w.end => k \in 0..last
  OBVIOUS
<1>6. IsFiniteSet(G)
  <2>1. IsFiniteSet(0..last)
    BY <1>1, FS_Interval
  <2>2. DOMAIN f = 0..last /\ f = [k \in 0..last |-> f[k]] /\ {f[k] : k \in 0..last} = G
    BY <1>2
  <2>. HIDE DEF f, last, G
  <2>. QED  BY <2>1, <2>2, ImageIsFinite
<1>. HIDE DEF at, last, G
<1>7. \A c \in G : \E k \in 0..last : c = slot(k)
  BY <1>2
<1>8. \A k \in 0..last : slot(k) \in G
  BY <1>2
<1>9. ASSUME NEW c \in G
      PROVE  /\ c.start \in Int /\ w.start <= c.start
             /\ c = [day |-> w.day, start |-> c.start, end |-> c.start + duration]
             /\ c.start + duration <= w.end
             /\ \E k \in Nat : c.start = at(k)
  <2>1. PICK k \in 0..last : c = slot(k)
    BY <1>7
  <2>2. c.start = at(k) /\ k \in Nat
    BY <1>1, <2>1
  <2>3. w.start <= at(k)
    BY <1>3, <2>2 DEF at
  <2>. QED  BY <1>3, <1>4, <2>1, <2>2, <2>3
<1>10. ASSUME NEW k \in Nat, at(k) + duration <= w.end PROVE \E c \in G : c.start = at(k)
  BY <1>5, <1>8, <1>10
<1>. QED  BY <1>6, <1>9, <1>10 DEF G, at

(* What a list of windows is for the engine. *)
WindowsFit(ws) ==
  /\ ws \in Seq(Range(ws)) /\ Len(ws) \in Nat /\ DOMAIN ws = 1..Len(ws)
  /\ \A i \in 1..Len(ws) : ws[i].start \in Int /\ ws[i].end \in Int /\ ws[i].start < ws[i].end
  /\ \A i, j \in 1..Len(ws) : i < j => ws[i].end <= ws[j].start

(* The slots of all windows. *)
Candidates(ws, duration, step) == UNION {Grid(w, duration, step) : w \in Range(ws)}

(* The candidates of all windows: finitely many, each in a window, and no  *)
(* two of them start together.                                             *)
LEMMA CandidatesAre ==
  ASSUME NEW ws, WindowsFit(ws), NEW duration \in Nat \ {0}, NEW step \in Nat \ {0}
  PROVE  /\ IsFiniteSet(Candidates(ws, duration, step))
         /\ \A c \in Candidates(ws, duration, step) :
              /\ c.start \in Int /\ c.end = c.start + duration
              /\ \E i \in 1..Len(ws) : /\ c \in Grid(ws[i], duration, step)
                                       /\ c.day = ws[i].day
                                       /\ ws[i].start <= c.start /\ c.end <= ws[i].end
         /\ \A i \in 1..Len(ws) : Grid(ws[i], duration, step) \subseteq Candidates(ws, duration, step)
         /\ \A c, d \in Candidates(ws, duration, step) : c # d => c.start # d.start
<1>. DEFINE C    == Candidates(ws, duration, step)
            Of(w) == Grid(w, duration, step)
            n    == Len(ws)
            f    == [i \in 1..n |-> Of(ws[i])]
<1>1. n \in Nat /\ \A i \in 1..n : ws[i].start \in Int /\ ws[i].end \in Int
  BY DEF WindowsFit
<1>2. Range(ws) = {ws[i] : i \in 1..n}
  BY DEF Range, WindowsFit
<1>3. C = UNION {f[i] : i \in 1..n}
  BY <1>2 DEF Candidates
<1>4. ASSUME NEW i \in 1..n
      PROVE  /\ IsFiniteSet(Of(ws[i]))
             /\ \A c \in Of(ws[i]) :
                  /\ c.start \in Int /\ ws[i].start <= c.start
                  /\ c = [day |-> ws[i].day, start |-> c.start, end |-> c.start + duration]
                  /\ c.start + duration <= ws[i].end
  <2>. DEFINE w == ws[i]
  <2>1. w.start \in Int /\ w.end \in Int
    BY <1>1
  <2>. HIDE DEF w
  <2>2. /\ IsFiniteSet(Of(w))
        /\ \A c \in Of(w) :
                  /\ c.start \in Int /\ w.start <= c.start
                  /\ c = [day |-> w.day, start |-> c.start, end |-> c.start + duration]
                  /\ c.start + duration <= w.end
    BY <2>1, GridIs
  <2>. QED  BY <2>2 DEF w
<1>. HIDE DEF Of, C
<1>5. IsFiniteSet(C)
  <2>1. IsFiniteSet(1..n) /\ DOMAIN f = 1..n /\ f = [i \in 1..n |-> f[i]]
    BY <1>1, FS_Interval
  <2>2. \A i \in 1..n : IsFiniteSet(f[i])
    BY <1>4
  <2>. HIDE DEF f
  <2>3. IsFiniteSet({f[i] : i \in 1..n})
    BY <2>1, ImageIsFinite
  <2>4. \A T \in {f[i] : i \in 1..n} : IsFiniteSet(T)
    BY <2>2
  <2>. QED  BY <1>3, <2>3, <2>4, FS_UNION
<1>6. \A i \in 1..n : Of(ws[i]) \subseteq C
  BY <1>3
<1>7. ASSUME NEW c \in C PROVE \E i \in 1..n : c \in Of(ws[i])
  BY <1>3
<1>8. ASSUME NEW c \in C
      PROVE  /\ c.start \in Int /\ c.end = c.start + duration
             /\ \E i \in 1..n : /\ c \in Of(ws[i]) /\ c.day = ws[i].day
                                /\ ws[i].start <= c.start /\ c.end <= ws[i].end
  <2>1. PICK i \in 1..n : c \in Of(ws[i])
    BY <1>7
  <2>2. /\ c.start \in Int /\ ws[i].start <= c.start
        /\ c = [day |-> ws[i].day, start |-> c.start, end |-> c.start + duration]
        /\ c.start + duration <= ws[i].end
    BY <1>4, <2>1
  <2>3. c.day = ws[i].day /\ c.end = c.start + duration
    BY <2>2
  <2>. QED  BY <2>1, <2>2, <2>3
<1>9. ASSUME NEW c \in C, NEW d \in C, c.start = d.start PROVE c = d
  <2>1. PICK i \in 1..n : c \in Of(ws[i])
    BY <1>7
  <2>2. PICK j \in 1..n : d \in Of(ws[j])
    BY <1>7
  <2>3. /\ ws[i].start <= c.start /\ c.start + duration <= ws[i].end
        /\ ws[j].start <= d.start /\ d.start + duration <= ws[j].end
        /\ c.start \in Int /\ d.start \in Int
    BY <1>4, <2>1, <2>2
  <2>4. i = j
    <3>1. i < j => ws[i].end <= ws[j].start
      BY DEF WindowsFit
    <3>2. j < i => ws[j].end <= ws[i].start
      BY DEF WindowsFit
    <3>3. ~(i < j) /\ ~(j < i)
      BY <1>1, <1>9, <2>3, <3>1, <3>2
    <3>. QED  BY <3>3
  <2>5. /\ c = [day |-> ws[i].day, start |-> c.start, end |-> c.start + duration]
        /\ d = [day |-> ws[j].day, start |-> d.start, end |-> d.start + duration]
    BY <1>4, <2>1, <2>2
  <2>. QED  BY <1>9, <2>4, <2>5
<1>. QED  BY <1>5, <1>6, <1>8, <1>9 DEF C, Of

(* A sequence made of the first elements of another. *)
LEMMA FrontIs ==
  ASSUME NEW T, NEW s \in Seq(T), NEW n \in 0..Len(s)
  PROVE  /\ SubSeq(s, 1, n) \in Seq(T) /\ Len(SubSeq(s, 1, n)) = n
         /\ \A i \in 1..n : SubSeq(s, 1, n)[i] = s[i]
OBVIOUS

(* The lesser and the greater of two integers. *)
LEMMA MinOfTwo ==
  ASSUME NEW x \in Int, NEW y \in Int
  PROVE  Min({x, y}) = IF x <= y THEN x ELSE y
<1>1. CASE x <= y
  BY <1>1, MinIs
<1>2. CASE ~(x <= y)
  BY <1>2, MinIs
<1>. QED  BY <1>1, <1>2

(* As above, for the greater. *)
LEMMA MaxOfTwo ==
  ASSUME NEW x \in Int, NEW y \in Int
  PROVE  Max({x, y}) = IF x >= y THEN x ELSE y
<1>1. CASE x >= y
  BY <1>1, MaxIs
<1>2. CASE ~(x >= y)
  BY <1>2, MaxIs
<1>. QED  BY <1>1, <1>2

(* Slots that no two start together, listed by their start.                *)
LEMMA TimeOrderIs ==
  ASSUME NEW S, IsFiniteSet(S), \A c \in S : c.start \in Int,
         \A c, d \in S : c # d => c.start # d.start
  PROVE  LET l == InTimeOrder(S)
         IN  /\ l \in Seq(S) /\ Len(l) = Cardinality(S) /\ Cardinality(S) \in Nat
             /\ \A c \in S : \E k \in 1..Len(l) : l[k] = c
             /\ \A i, j \in 1..Len(l) : i < j => l[i].start < l[j].start
<1>. DEFINE R == {r \in S \X S : r[1].start < r[2].start}
            l == InTimeOrder(S)
<1>1. l = Sorted(S, R)
  BY DEF InTimeOrder
<1>2. \A c, d \in S : <<c, d>> \in R <=> c.start < d.start
  OBVIOUS
<1>. HIDE DEF R, l
<1>3. Strict(S, R)
  BY <1>2 DEF Strict
<1>4. l \in Seq(S) /\ Len(l) = Cardinality(S)
  BY <1>1, <1>3, SortedList
<1>5. /\ Cardinality(S) \in Nat
      /\ \A k \in 1..Cardinality(S) : l[k] \in S
      /\ \A x \in S : \E k \in 1..Cardinality(S) : l[k] = x
      /\ \A i, j \in 1..Cardinality(S) : i < j => <<l[i], l[j]>> \in R
  BY <1>1, <1>3, SortedIs
<1>6. \A i, j \in 1..Len(l) : i < j => l[i].start < l[j].start
  BY <1>2, <1>4, <1>5
<1>. QED  BY <1>4, <1>5, <1>6 DEF l

(* Slots of finitely many days and starts, no two with one start.          *)
SlotsFit(S) ==
  /\ IsFiniteSet(S)
  /\ \A c \in S : c.start \in Int /\ c.day \in Int
  /\ \A c, d \in S : c # d => c.start # d.start

(* How many slots of its day are earlier; the order of spread.             *)
RankIn(S, c) == Cardinality({d \in S : d.day = c.day /\ d.start < c.start})
TurnBefore(S, c, d) ==
  RankIn(S, c) < RankIn(S, d) \/ (RankIn(S, c) = RankIn(S, d) /\ c.day < d.day)

(* A rank is a number, and an earlier slot of a day has a lower one.       *)
LEMMA RankIs ==
  ASSUME NEW S, SlotsFit(S), NEW c \in S
  PROVE  /\ RankIn(S, c) \in Nat
         /\ \A d \in S : d.day = c.day /\ d.start < c.start => RankIn(S, d) < RankIn(S, c)
<1>. DEFINE Earlier(x) == {d \in S : d.day = x.day /\ d.start < x.start}
<1>1. ASSUME NEW x \in S PROVE IsFiniteSet(Earlier(x)) /\ Cardinality(Earlier(x)) \in Nat
  <2>1. IsFiniteSet(Earlier(x))
    BY FS_Subset DEF SlotsFit
  <2>. QED  BY <2>1, FS_CardinalityType
<1>2. ASSUME NEW d \in S, d.day = c.day, d.start < c.start
      PROVE  Cardinality(Earlier(d)) < Cardinality(Earlier(c))
  <2>1. Earlier(d) \subseteq Earlier(c) /\ d \in Earlier(c) /\ d \notin Earlier(d)
    BY <1>2 DEF SlotsFit
  <2>2. IsFiniteSet(Earlier(c)) /\ Cardinality(Earlier(c)) \in Nat /\ Cardinality(Earlier(d)) \in Nat
    BY <1>1
  <2>. HIDE DEF Earlier
  <2>3. Cardinality(Earlier(d)) <= Cardinality(Earlier(c)) /\ Earlier(d) # Earlier(c)
    BY <2>1, <2>2, FS_Subset
  <2>4. Cardinality(Earlier(d)) # Cardinality(Earlier(c))
    BY <2>1, <2>2, <2>3, FS_Subset
  <2>. QED  BY <2>2, <2>3, <2>4
<1>. QED  BY <1>1, <1>2 DEF RankIn

(* The slots chosen are the first ones in the order asked for: by their    *)
(* start, or each day's in turn. They are listed by their start.           *)
LEMMA SelectIs ==
  ASSUME NEW free, SlotsFit(free), NEW selection, NEW max \in Nat
  PROVE  LET l == _select(free, selection, max)
         IN  /\ l \in Seq(free) /\ Len(l) \in Nat
             /\ Len(l) = Min({max, Cardinality(free)}) /\ Cardinality(Range(l)) = Len(l)
             /\ \A i, j \in 1..Len(l) : i < j => l[i].start < l[j].start
             /\ \A c \in Range(l), d \in free \ Range(l) :
                  IF selection = "earliest" THEN c.start < d.start ELSE TurnBefore(free, c, d)
<1>. DEFINE Turn  == {r \in free \X free : TurnBefore(free, r[1], r[2])}
            Start == {r \in free \X free : r[1].start < r[2].start}
            R     == IF selection = "earliest" THEN Start ELSE Turn
            order == Sorted(free, R)
            n     == Cardinality(free)
            m     == Min({max, n})
            first == SubSeq(order, 1, m)
            l     == _select(free, selection, max)
<1>1. IsFiniteSet(free) /\ n \in Nat
  BY FS_CardinalityType DEF SlotsFit
<1>2. Strict(free, R)
  <2>1. CASE selection = "earliest"
    <3>1. \A c, d \in free : <<c, d>> \in Start <=> c.start < d.start
      OBVIOUS
    <3>. HIDE DEF Start
    <3>2. Strict(free, Start)
      BY <3>1 DEF Strict, SlotsFit
    <3>. QED  BY <2>1, <3>2
  <2>2. CASE selection # "earliest"
    <3>1. \A c, d \in free : <<c, d>> \in Turn <=> TurnBefore(free, c, d)
      OBVIOUS
    <3>. HIDE DEF Turn
    <3>2. \A c \in free : RankIn(free, c) \in Nat /\ c.day \in Int
      BY RankIs DEF SlotsFit
    <3>3. \A c \in free : <<c, c>> \notin Turn
      BY <3>1, <3>2 DEF TurnBefore
    <3>4. \A c, d, e \in free : <<c, d>> \in Turn /\ <<d, e>> \in Turn => <<c, e>> \in Turn
      BY <3>1, <3>2 DEF TurnBefore
    <3>5. ASSUME NEW c \in free, NEW d \in free, c # d PROVE <<c, d>> \in Turn \/ <<d, c>> \in Turn
      <4>1. c.day = d.day => RankIn(free, c) # RankIn(free, d)
        <5>. SUFFICES ASSUME c.day = d.day PROVE RankIn(free, c) # RankIn(free, d)
          OBVIOUS
        <5>1. c.start < d.start \/ d.start < c.start
          BY <3>5 DEF SlotsFit
        <5>2. RankIn(free, c) < RankIn(free, d) \/ RankIn(free, d) < RankIn(free, c)
          BY <5>1, RankIs
        <5>. QED  BY <3>2, <5>2
      <4>. QED  BY <3>1, <3>2, <4>1 DEF TurnBefore
    <3>6. Strict(free, Turn)
      BY <3>3, <3>4, <3>5 DEF Strict
    <3>. QED  BY <2>2, <3>6
  <2>. QED  BY <2>1, <2>2
<1>3. l = InTimeOrder(Range(SubSeq(order, 1, Min({max, Len(order)}))))
  <2>1. CASE selection = "earliest"
    BY <2>1 DEF _select, InTimeOrder
  <2>2. CASE selection # "earliest"
    BY <2>2 DEF _select, TurnBefore, RankIn
  <2>. QED  BY <2>1, <2>2
<1>4. \A c, d \in free : <<c, d>> \in R =>
        IF selection = "earliest" THEN c.start < d.start ELSE TurnBefore(free, c, d)
  OBVIOUS
<1>. HIDE DEF R
<1>5. order \in Seq(free) /\ Len(order) = n
  BY <1>1, <1>2, SortedList
<1>6. /\ \A x \in free : \E k \in 1..n : order[k] = x
      /\ \A i, j \in 1..n : i < j => <<order[i], order[j]>> \in R
  BY <1>1, <1>2, SortedIs
<1>. HIDE DEF order, l, n
<1>7. m \in 0..n
  BY <1>1, MinOfTwo
<1>. HIDE DEF m
<1>8. /\ first \in Seq(free) /\ Len(first) = m
      /\ \A i \in 1..m : first[i] = order[i]
  BY <1>1, <1>5, <1>7, FrontIs
<1>. HIDE DEF first
<1>9. l = InTimeOrder(Range(first))
  BY <1>3, <1>5 DEF first, m
<1>10. Range(first) = {order[i] : i \in 1..m}
  <2>1. DOMAIN first = 1..m
    BY <1>8
  <2>. QED  BY <1>8, <2>1 DEF Range
<1>11. \A i \in 1..n : order[i] \in free
  BY <1>5
<1>12. Range(first) \subseteq free
  BY <1>1, <1>7, <1>10, <1>11
<1>13. /\ IsFiniteSet(Range(first))
       /\ \A c \in Range(first) : c.start \in Int
       /\ \A c, d \in Range(first) : c # d => c.start # d.start
  BY <1>1, <1>12, FS_Subset DEF SlotsFit
<1>14. /\ l \in Seq(Range(first)) /\ Len(l) = Cardinality(Range(first)) /\ Len(l) \in Nat
       /\ \A c \in Range(first) : \E k \in 1..Len(l) : l[k] = c
       /\ \A i, j \in 1..Len(l) : i < j => l[i].start < l[j].start
  <2>1. LET k == InTimeOrder(Range(first))
        IN  /\ k \in Seq(Range(first)) /\ Len(k) = Cardinality(Range(first)) /\ Cardinality(Range(first)) \in Nat
            /\ \A c \in Range(first) : \E i \in 1..Len(k) : k[i] = c
            /\ \A i, j \in 1..Len(k) : i < j => k[i].start < k[j].start
    BY <1>13, TimeOrderIs
  <2>. QED  BY <1>9, <2>1
<1>15. Range(l) = Range(first)
  <2>1. DOMAIN l = 1..Len(l) /\ \A i \in 1..Len(l) : l[i] \in Range(first)
    BY <1>14
  <2>. QED  BY <1>14, <2>1 DEF Range
<1>16. Cardinality(Range(first)) = m
  <2>. DEFINE f == [i \in 1..m |-> order[i]]
  <2>1. IsFiniteSet(1..m) /\ Cardinality(1..m) = m
    BY <1>1, <1>7, FS_Interval
  <2>2. f \in [1..m -> Range(first)]
    BY <1>10
  <2>3. \A i, j \in 1..m : i # j => order[i] # order[j]
    <3>. SUFFICES ASSUME NEW i \in 1..m, NEW j \in 1..m, i < j PROVE order[i] # order[j]
      BY <1>1, <1>7
    <3>1. i \in 1..n /\ j \in 1..n /\ <<order[i], order[j]>> \in R
      BY <1>1, <1>6, <1>7
    <3>. QED  BY <1>2, <1>11, <3>1 DEF Strict
  <2>4. f \in Injection(1..m, Range(first))
    BY <2>2, <2>3 DEF Injection, IsInjective
  <2>5. f \in Surjection(1..m, Range(first))
    BY <1>10, <2>2 DEF Surjection
  <2>. HIDE DEF f
  <2>6. Cardinality(1..m) <= Cardinality(Range(first))
    BY <1>13, <2>4, FS_Injection
  <2>7. Cardinality(Range(first)) <= Cardinality(1..m)
    BY <2>1, <2>5, FS_Surjection
  <2>8. Cardinality(Range(first)) \in Nat /\ m \in Nat
    BY <1>1, <1>7, <1>13, FS_CardinalityType
  <2>. QED  BY <2>1, <2>6, <2>7, <2>8
<1>17. ASSUME NEW c \in Range(l), NEW d \in free \ Range(l) PROVE <<c, d>> \in R
  <2>1. PICK i \in 1..m : c = order[i]
    BY <1>10, <1>15
  <2>2. PICK j \in 1..n : d = order[j]
    BY <1>6
  <2>3. j \notin 1..m
    BY <1>10, <1>15, <2>2
  <2>4. i \in 1..n /\ i < j
    BY <1>1, <1>7, <2>3
  <2>. QED  BY <1>6, <2>1, <2>2, <2>4
<1>18. \A c \in Range(l), d \in free \ Range(l) :
         IF selection = "earliest" THEN c.start < d.start ELSE TurnBefore(free, c, d)
  BY <1>4, <1>12, <1>15, <1>17
<1>19. l \in Seq(free)
  BY <1>12, <1>14
<1>. QED  BY <1>14, <1>15, <1>16, <1>18, <1>19 DEF l, m, n

-----------------------------------------------------------------------------
(* 6. The engine. *)

(* What the engine may take for granted of its arguments.                  *)
QueryFits(q) ==
  /\ HoursFit(q.hours)
  /\ q.first \in Int /\ q.last \in Int /\ q.horizon \in Int
  /\ q.duration \in Nat \ {0} /\ q.step \in Nat \ {0} /\ q.buffer \in Nat /\ q.max \in Nat \ {0}

(* The engine's windows, what it offers before busy time is looked at, and *)
(* what is free of it.                                                     *)
WindowsOf(z, q) == _windows(z, q.hours, q.first, Min({q.last, q.horizon}))
Open(z, q, at) ==
  {c \in Candidates(WindowsOf(z, q), q.duration, q.step) : Admits(z, q, at + q.notice, c)}
ClearOf(c, busy, buffer) == \A b \in busy : ~(b.start - buffer < c.end /\ c.start < b.end + buffer)
Free(z, q, busy, at) == {c \in Open(z, q, at) : ClearOf(c, busy, q.buffer)}

(* A slot of the query's length in one of its windows.                     *)
LiesIn(z, q, c) ==
  /\ c.start \in Int /\ c.end = c.start + q.duration
  /\ \E i \in 1..Len(WindowsOf(z, q)) :
       /\ c \in Grid(WindowsOf(z, q)[i], q.duration, q.step)
       /\ c.day = WindowsOf(z, q)[i].day
       /\ WindowsOf(z, q)[i].start <= c.start /\ c.end <= WindowsOf(z, q)[i].end

(* The windows are apart; what is open and what is free are slots of them. *)
LEMMA OpenIs ==
  ASSUME NEW z, ZoneFits(z), NEW q, QueryFits(q), NEW at, NEW busy
  PROVE  /\ WindowsFit(WindowsOf(z, q))
         /\ SlotsFit(Open(z, q, at)) /\ SlotsFit(Free(z, q, busy, at))
         /\ \A c \in Open(z, q, at) : LiesIn(z, q, c) /\ Admits(z, q, at + q.notice, c)
<1>. DEFINE until == Min({q.last, q.horizon})
            ws    == WindowsOf(z, q)
            C     == Candidates(ws, q.duration, q.step)
<1>1. until \in Int /\ q.first \in Int /\ HoursFit(q.hours)
  BY MinOfTwo DEF QueryFits
<1>. HIDE DEF until
<1>2. ws = _windows(z, q.hours, q.first, until)
  BY DEF WindowsOf, until
<1>. HIDE DEF ws
<1>3. WindowsFit(ws) /\ \A i \in 1..Len(ws) : ws[i].day \in Int
  <2>1. /\ ws \in Seq(Range(ws)) /\ Len(ws) \in Nat /\ DOMAIN ws = 1..Len(ws)
        /\ \A i \in 1..Len(ws) :
                  /\ ws[i].start \in Int /\ ws[i].end \in Int /\ ws[i].start < ws[i].end
                  /\ \E day \in q.first..until : \E k \in DOMAIN q.hours[day % 7] :
                       ws[i] = Window(z, q.hours, day, k)
        /\ \A i, j \in 1..Len(ws) : i < j => ws[i].end <= ws[j].start
    <3>. DEFINE hours == q.hours
                first == q.first
    <3>1. HoursFit(hours) /\ first \in Int
      BY <1>1
    <3>. HIDE DEF hours, first
    <3>2. LET v == _windows(z, hours, first, until)
        IN  /\ v \in Seq(Range(v)) /\ Len(v) \in Nat /\ DOMAIN v = 1..Len(v)
            /\ \A i \in 1..Len(v) :
                  /\ v[i].start \in Int /\ v[i].end \in Int /\ v[i].start < v[i].end
                  /\ \E day \in first..until : \E k \in DOMAIN hours[day % 7] :
                       v[i] = Window(z, hours, day, k)
            /\ \A day \in first..until : \A k \in DOMAIN hours[day % 7] :
                  Window(z, hours, day, k).end > Window(z, hours, day, k).start =>
                    \E i \in 1..Len(v) : v[i] = Window(z, hours, day, k)
            /\ \A i, j \in 1..Len(v) : i < j => v[i].end <= v[j].start
      BY <1>1, <3>1, WindowsAre
    <3>. QED  BY <1>2, <3>2 DEF hours, first
  <2>2. ASSUME NEW i \in 1..Len(ws) PROVE ws[i].day \in Int
    <3>1. PICK day \in q.first..until : \E k \in DOMAIN q.hours[day % 7] : ws[i] = Window(z, q.hours, day, k)
      BY <2>1
    <3>2. ws[i].day = day
      BY <3>1 DEF Window
    <3>. QED  BY <1>1, <3>2
  <2>. QED  BY <2>1, <2>2 DEF WindowsFit
<1>4. /\ IsFiniteSet(C)
      /\ \A c \in C :
              /\ c.start \in Int /\ c.end = c.start + q.duration
              /\ \E i \in 1..Len(ws) : /\ c \in Grid(ws[i], q.duration, q.step)
                                       /\ c.day = ws[i].day
                                       /\ ws[i].start <= c.start /\ c.end <= ws[i].end
      /\ \A c, d \in C : c # d => c.start # d.start
  <2>1. q.duration \in Nat \ {0} /\ q.step \in Nat \ {0}
    BY DEF QueryFits
  <2>. QED  BY <1>3, <2>1, CandidatesAre
<1>5. SlotsFit(C)
  BY <1>3, <1>4 DEF SlotsFit
<1>6. Open(z, q, at) = {c \in C : Admits(z, q, at + q.notice, c)}
  BY DEF Open, ws
<1>7. \A T : T \subseteq C => SlotsFit(T)
  BY <1>5, FS_Subset DEF SlotsFit
<1>. HIDE DEF C
<1>8. SlotsFit(Open(z, q, at)) /\ SlotsFit(Free(z, q, busy, at))
  <2>1. Open(z, q, at) \subseteq C /\ Free(z, q, busy, at) \subseteq C
    BY <1>6 DEF Free
  <2>. QED  BY <1>7, <2>1
<1>9. \A c \in C : LiesIn(z, q, c)
  BY <1>4 DEF LiesIn, ws
<1>. QED  BY <1>3, <1>6, <1>8, <1>9 DEF ws

(* What the engine computes. *)
LEMMA EngineIs ==
  ASSUME NEW z, ZoneFits(z), NEW q, QueryFits(q), NEW at, NEW busy, BusyFits(busy)
  PROVE  compute_slots(z, q, busy, at) =
           LET ws       == WindowsOf(z, q)
               searched == IF ws = <<>> THEN <<>> ELSE <<ws[1].start, Last(ws).end>>
               chosen   == _select(Free(z, q, busy, at), q.selection, q.max)
           IN  IF q.first > q.horizon THEN Nothing("beyond_booking_horizon", <<>>)
               ELSE IF Open(z, q, at) = {} THEN Nothing("outside_bookable_hours", searched)
               ELSE IF Free(z, q, busy, at) = {} THEN Nothing("fully_booked", searched)
               ELSE [slots |-> chosen, more |-> Cardinality(Free(z, q, busy, at)) > Len(chosen),
                     reason |-> "ok", searched |-> searched]
<1>. DEFINE some == Open(z, q, at)
            free == {c \in some : ~_is_busy(c.start, c.end, _merged_busy(busy, q.buffer))}
<1>1. some = {c \in UNION {Grid(w, q.duration, q.step) :
                w \in Range(_windows(z, q.hours, q.first, Min({q.last, q.horizon})))} :
                Admits(z, q, at + q.notice, c)}
  BY DEF Open, WindowsOf, Candidates
<1>2. \A c \in some : c.start \in Int /\ c.end = c.start + q.duration
  <2>1. \A c \in Open(z, q, at) : c.start \in Int /\ c.end = c.start + q.duration
    <3>1. \A c \in Open(z, q, at) : LiesIn(z, q, c)
      BY OpenIs
    <3>. QED  BY <3>1 DEF LiesIn
  <2>. QED  BY <2>1
<1>. HIDE DEF some
<1>3. free = Free(z, q, busy, at)
  <2>1. q.buffer \in Nat /\ q.duration \in Nat /\ q.duration > 0
    BY DEF QueryFits
  <2>2. ASSUME NEW c \in some
        PROVE  ~_is_busy(c.start, c.end, _merged_busy(busy, q.buffer)) <=> ClearOf(c, busy, q.buffer)
    <3>1. c.start \in Int /\ c.end \in Int /\ c.start < c.end
      BY <1>2, <2>1
    <3>2. _is_busy(c.start, c.end, _merged_busy(busy, q.buffer)) <=>
            \E b \in busy : b.start - q.buffer < c.end /\ c.start < b.end + q.buffer
      BY <2>1, <3>1, BusyIsExact
    <3>. QED  BY <3>2 DEF ClearOf
  <2>. QED  BY <2>2 DEF Free, some
<1>. QED  BY <1>1, <1>3 DEF compute_slots, WindowsOf, some

-----------------------------------------------------------------------------
(* 7. The loader. *)

(* The windows of a day, listed. *)
LEMMA DayParsed ==
  ASSUME NEW list \in Seq(Int \X Int), \A i \in DOMAIN list : WellFormed(list[i]),
         \A i, j \in DOMAIN list : i # j => list[i][2] <= list[j][1] \/ list[j][2] <= list[i][1]
  PROVE  LET windows == Range(list)
             l == Sorted(windows, {r \in windows \X windows : r[1][1] < r[2][1]})
         IN  /\ IsFiniteSet(DOMAIN l) /\ DOMAIN l \subseteq Nat
             /\ \A k \in DOMAIN l :
                  /\ l[k][1] \in 0..(DayMinutes - 1) /\ l[k][2] \in 0..(DayMinutes - 1)
                  /\ l[k][1] < l[k][2] /\ l[k][1] % 5 = 0 /\ l[k][2] % 5 = 0
             /\ \A j, k \in DOMAIN l : j < k => l[j][2] <= l[k][1]
             /\ \A k \in DOMAIN l : l[k] \in windows
             /\ \A w \in windows : \E k \in DOMAIN l : l[k] = w
<1>. DEFINE windows == Range(list)
            R == {r \in windows \X windows : r[1][1] < r[2][1]}
            l == Sorted(windows, R)
            n == Cardinality(windows)
            m == Len(list)
<1>1. m \in Nat /\ DOMAIN list = 1..m
  OBVIOUS
<1>2. IsFiniteSet(windows)
  <2>1. IsFiniteSet(1..m)
    BY <1>1, FS_Interval
  <2>2. list = [i \in 1..m |-> list[i]] /\ windows = {list[i] : i \in 1..m}
    BY <1>1 DEF Range
  <2>. HIDE DEF windows, m
  <2>3. DOMAIN list = 1..m
    BY <1>1
  <2>. QED  BY <2>1, <2>2, <2>3, ImageIsFinite
<1>3. \A w \in windows : \E i \in DOMAIN list : list[i] = w
  BY DEF Range
<1>4. ASSUME NEW w \in windows
      PROVE  /\ w[1] \in 0..(DayMinutes - 1) /\ w[2] \in 0..(DayMinutes - 1)
             /\ w[1] < w[2] /\ w[1] % 5 = 0 /\ w[2] % 5 = 0
             /\ w[1] \in Int /\ w[2] \in Int
  <2>1. PICK i \in DOMAIN list : list[i] = w
    BY <1>3
  <2>2. WellFormed(w)
    BY <2>1
  <2>3. /\ w[1] \in 0..(DayMinutes - 1) /\ w[2] \in 0..(DayMinutes - 1)
        /\ w[1] < w[2] /\ w[1] % 5 = 0 /\ w[2] % 5 = 0
    BY <2>2 DEF WellFormed, CELL_MINUTES
  <2>. QED  BY <2>3, TimeOfDay
<1>5. ASSUME NEW v \in windows, NEW w \in windows, v # w
      PROVE  v[2] <= w[1] \/ w[2] <= v[1]
  <2>1. PICK i \in DOMAIN list : list[i] = v
    BY <1>3
  <2>2. PICK j \in DOMAIN list : list[j] = w
    BY <1>3
  <2>. QED  BY <1>5, <2>1, <2>2
<1>6. \A v, w \in windows : <<v, w>> \in R <=> v[1] < w[1]
  OBVIOUS
<1>. HIDE DEF windows, R, l, n
<1>7. Strict(windows, R)
  <2>0. \A x \in windows : x[1] \in Int
    BY <1>4
  <2>1. \A x \in windows : <<x, x>> \notin R
    BY <1>6, <2>0
  <2>2. ASSUME NEW x \in windows, NEW y \in windows, NEW w \in windows,
               <<x, y>> \in R, <<y, w>> \in R
        PROVE  <<x, w>> \in R
    <3>1. x[1] < y[1] /\ y[1] < w[1] /\ x[1] \in Int /\ y[1] \in Int /\ w[1] \in Int
      BY <1>6, <2>0, <2>2
    <3>2. x[1] < w[1]
      BY <3>1
    <3>. QED  BY <1>6, <3>2
  <2>3. ASSUME NEW x \in windows, NEW y \in windows, x # y PROVE <<x, y>> \in R \/ <<y, x>> \in R
    <3>1. x[2] <= y[1] \/ y[2] <= x[1]
      BY <1>5, <2>3
    <3>2. x[1] < x[2] /\ y[1] < y[2] /\ x[1] \in Int /\ x[2] \in Int /\ y[1] \in Int /\ y[2] \in Int
      BY <1>4
    <3>3. x[1] < y[1] \/ y[1] < x[1]
      BY <3>1, <3>2
    <3>. QED  BY <1>6, <3>3
  <2>. QED  BY <2>1, <2>2, <2>3 DEF Strict
<1>8. /\ n \in Nat /\ DOMAIN l = 1..n
      /\ \A k \in 1..n : l[k] \in windows
      /\ \A x \in windows : \E k \in 1..n : l[k] = x
      /\ \A i, j \in 1..n : i < j => <<l[i], l[j]>> \in R
  BY <1>2, <1>7, SortedIs DEF l, n
<1>9. IsFiniteSet(DOMAIN l) /\ DOMAIN l \subseteq Nat
  BY <1>8, FS_Interval
<1>10. \A k \in DOMAIN l :
         /\ l[k][1] \in 0..(DayMinutes - 1) /\ l[k][2] \in 0..(DayMinutes - 1)
         /\ l[k][1] < l[k][2] /\ l[k][1] % 5 = 0 /\ l[k][2] % 5 = 0
  BY <1>4, <1>8
<1>11. ASSUME NEW j \in DOMAIN l, NEW k \in DOMAIN l, j < k PROVE l[j][2] <= l[k][1]
  <2>1. l[j] \in windows /\ l[k] \in windows /\ l[j][1] < l[k][1]
    BY <1>6, <1>8, <1>11
  <2>2. l[j][2] <= l[k][1] \/ l[k][2] <= l[j][1]
    BY <1>4, <1>5, <2>1
  <2>3. /\ l[k][1] < l[k][2] /\ l[j][1] \in Int /\ l[j][2] \in Int
        /\ l[k][1] \in Int /\ l[k][2] \in Int
    BY <1>4, <2>1
  <2>. QED  BY <2>1, <2>2, <2>3
<1>12. (\A k \in DOMAIN l : l[k] \in windows) /\ \A w \in windows : \E k \in DOMAIN l : l[k] = w
  BY <1>8
<1>. QED  BY <1>9, <1>10, <1>11, <1>12 DEF l, windows, R

(* What a binding that loads is. *)
BindingFits(b) ==
  /\ HoursFit(b.hours)
  /\ \A duration \in b.durations : duration \in Nat \ {0} /\ duration % 5 = 0
  /\ b.defaultDuration \in b.durations
  /\ b.step \in Nat \ {0} /\ b.step % 5 = 0
  /\ b.buffer \in Nat /\ b.buffer % 5 = 0
  /\ b.notice \in Nat /\ b.ahead \in Nat /\ b.searchDays \in Nat /\ b.maxSlots \in Nat \ {0}
  /\ \A duration \in b.durations : claim_cells_fit_budget((duration + b.buffer) \div CELL_MINUTES)

(* What fits the budget of the claims fits it with fewer cells.            *)
LEMMA MoreFits ==
  ASSUME NEW few \in Nat, NEW many \in Nat, few <= many, claim_cells_fit_budget(many)
  PROVE  claim_cells_fit_budget(few)
<1>. DEFINE more == many - few
            each == EXPECTED_CLAIM_LATENCY
<1>1. /\ more \in Nat /\ each \in Nat
      /\ {TOTAL_BUDGET, RESERVE, PROVIDER_TIMEOUT, CLAIM_TIMEOUT} \subseteq Nat
  BY DeadlineAssumption
<1>. HIDE DEF more
<1>2. many = few + more
  BY DEF more
<1>3. (few + more) * each = few * each + more * each
  BY <1>1
<1>4. few * each \in Nat /\ more * each \in Nat
  BY <1>1
<1>. QED  BY <1>1, <1>2, <1>3, <1>4 DEF claim_cells_fit_budget

(* A document that the loader accepts makes such a binding.                *)
LEMMA LoadedFits ==
  ASSUME NEW raw, Typed(raw), Valid(raw)
  PROVE  BindingFits(_binding(raw))
<1>. DEFINE b == _binding(raw)
<1>1. /\ b.hours = Parsed(raw.hours) /\ b.durations = Range(raw.durations)
      /\ b.defaultDuration = raw.defaultDuration /\ b.step = raw.step /\ b.buffer = raw.buffer
      /\ b.notice = raw.notice /\ b.ahead = raw.ahead /\ b.searchDays = raw.searchDays
      /\ b.maxSlots = raw.maxSlots
  BY DEF _binding, Typed
<1>. HIDE DEF b
<1>2. HoursFit(Parsed(raw.hours))
  <2>. SUFFICES ASSUME NEW day \in 0..6
                PROVE  LET l == Parsed(raw.hours)[day]
                       IN  /\ IsFiniteSet(DOMAIN l) /\ DOMAIN l \subseteq Nat
                           /\ \A k \in DOMAIN l :
                                /\ l[k][1] \in 0..(DayMinutes - 1) /\ l[k][2] \in 0..(DayMinutes - 1)
                                /\ l[k][1] < l[k][2] /\ l[k][1] % 5 = 0 /\ l[k][2] % 5 = 0
                           /\ \A j, k \in DOMAIN l : j < k => l[j][2] <= l[k][1]
    BY DEF HoursFit
  <2>1. CASE day \in DOMAIN raw.hours
    <3>. DEFINE list == raw.hours[day]
    <3>1. /\ list \in Seq(Int \X Int) /\ \A i \in DOMAIN list : WellFormed(list[i])
          /\ \A i, j \in DOMAIN list : i # j => list[i][2] <= list[j][1] \/ list[j][2] <= list[i][1]
      BY <2>1 DEF Typed, Valid, _bookable_hours
    <3>2. Parsed(raw.hours)[day] = Sorted(Range(list), {r \in Range(list) \X Range(list) : r[1][1] < r[2][1]})
      BY <2>1 DEF Parsed
    <3>. HIDE DEF list
    <3>3. LET l == Sorted(Range(list), {r \in Range(list) \X Range(list) : r[1][1] < r[2][1]})
          IN  /\ IsFiniteSet(DOMAIN l) /\ DOMAIN l \subseteq Nat
              /\ \A k \in DOMAIN l :
                  /\ l[k][1] \in 0..(DayMinutes - 1) /\ l[k][2] \in 0..(DayMinutes - 1)
                  /\ l[k][1] < l[k][2] /\ l[k][1] % 5 = 0 /\ l[k][2] % 5 = 0
              /\ \A j, k \in DOMAIN l : j < k => l[j][2] <= l[k][1]
      BY <3>1, DayParsed
    <3>. QED  BY <3>2, <3>3
  <2>2. CASE day \notin DOMAIN raw.hours
    <3>1. Parsed(raw.hours)[day] = <<>>
      BY <2>2 DEF Parsed
    <3>2. DOMAIN Parsed(raw.hours)[day] = {}
      BY <3>1
    <3>. QED  BY <3>2, FS_EmptySet
  <2>. QED  BY <2>1, <2>2
<1>3. \A duration \in Range(raw.durations) : duration \in Nat \ {0} /\ duration % 5 = 0
  <2>1. \A i \in DOMAIN raw.durations :
          raw.durations[i] \in Int /\ raw.durations[i] >= 1 /\ raw.durations[i] % 5 = 0
    BY DEF Valid, _durations, _multiple_of_five, Typed, CELL_MINUTES
  <2>. QED  BY <2>1 DEF Range
<1>4. /\ raw.step \in Int /\ raw.step >= 1 /\ raw.step % 5 = 0
      /\ raw.buffer \in Int /\ raw.buffer >= 0 /\ raw.buffer % 5 = 0
  BY DEF Valid, _multiple_of_five, Typed, CELL_MINUTES
<1>5. /\ raw.notice \in Int /\ raw.notice >= 0 /\ raw.ahead \in 1..60
      /\ raw.searchDays \in Int /\ raw.searchDays >= 1 /\ raw.maxSlots \in 1..10
      /\ raw.defaultDuration \in Range(raw.durations)
  BY DEF Valid, Typed
<1>6. ASSUME NEW duration \in Range(raw.durations)
      PROVE  claim_cells_fit_budget((duration + raw.buffer) \div CELL_MINUTES)
  <2>. DEFINE most  == Max(Range(raw.durations))
              cells == (duration + raw.buffer) \div 5
              limit == (most + raw.buffer) \div 5
  <2>1. IsFiniteSet(Range(raw.durations))
    <3>1. IsFiniteSet(DOMAIN raw.durations) /\ raw.durations = [i \in DOMAIN raw.durations |-> raw.durations[i]]
      BY FS_Interval DEF Typed
    <3>2. Range(raw.durations) = {raw.durations[i] : i \in DOMAIN raw.durations}
      BY DEF Range
    <3>. QED  BY <3>1, <3>2, ImageIsFinite
  <2>2. most \in Nat /\ duration \in Nat /\ duration <= most
    BY <1>3, <2>1, GreatestOfFinite
  <2>3. claim_cells_fit_budget(limit)
    BY DEF Valid, CELL_MINUTES
  <2>. HIDE DEF most
  <2>4. cells \in Nat /\ limit \in Nat /\ cells <= limit
    BY <1>4, <2>2
  <2>. HIDE DEF cells, limit
  <2>5. claim_cells_fit_budget(cells)
    BY <2>3, <2>4, MoreFits
  <2>. QED  BY <2>5 DEF cells, CELL_MINUTES
<1>. QED  BY <1>1, <1>2, <1>3, <1>4, <1>5, <1>6 DEF BindingFits, b

-----------------------------------------------------------------------------
(* 8. What an answer promises. *)

(* The first instant that has reached a local time, as the reference finds *)
(* it and as the engine does.                                              *)
LEMMA ReachedIs ==
  ASSUME NEW z, ZoneFits(z), NEW day \in Int, NEW wall \in Int
  PROVE  Reached(z, day * DayMinutes + wall) = resolve_local(z, day, wall)
<1>. DEFINE r == resolve_local(z, day, wall)
            w == day * DayMinutes + wall
            S == {i \in (w - Change(z))..(w + Change(z)) : Wall(z, i) >= w}
<1>1. r \in Int /\ Wall(z, r) >= w /\ \A i \in Int : i < r => Wall(z, i) < w
  BY ResolvesToFirst DEF ZoneFits
<1>2. w \in Int
  BY DEF DayMinutes
<1>3. Reached(z, w) = Min(S)
  BY DEF Reached
<1>. HIDE DEF r, w
<1>4. Change(z) \in Nat /\ -Change(z) <= z.by /\ z.by <= Change(z)
  BY DEF Change, ZoneFits
<1>5. S \in SUBSET Int
  BY <1>2, <1>4
<1>6. r \in S
  <2>1. Wall(z, w + Change(z)) >= w
    BY <1>2, <1>4 DEF Wall, ZoneFits
  <2>2. r <= w + Change(z)
    <3>1. ~(w + Change(z) < r)
      <4>1. Wall(z, w + Change(z)) \in Int
        BY <1>2, <1>4 DEF Wall, ZoneFits
      <4>. QED  BY <1>1, <1>2, <1>4, <2>1, <4>1
    <3>. QED  BY <1>1, <1>2, <1>4, <3>1
  <2>3. w - Change(z) <= r
    BY <1>1, <1>2, <1>4 DEF Wall, ZoneFits
  <2>. QED  BY <1>1, <1>2, <1>4, <2>2, <2>3
<1>7. \A i \in S : r <= i
  <2>. SUFFICES ASSUME NEW i \in S, i < r PROVE FALSE
    BY <1>1, <1>5
  <2>1. i \in Int /\ Wall(z, i) >= w
    BY <1>5
  <2>2. Wall(z, i) \in Int
    BY <2>1 DEF Wall, ZoneFits
  <2>. QED  BY <1>1, <1>2, <2>1, <2>2
<1>. HIDE DEF S
<1>8. Min(S) = r
  BY <1>5, <1>6, <1>7, MinIs
<1>. QED  BY <1>3, <1>8 DEF r, w

(* A window of the engine is one of a date that was asked for.             *)
LEMMA WindowOfDay ==
  ASSUME NEW z, ZoneFits(z), NEW q, QueryFits(q), NEW i \in 1..Len(WindowsOf(z, q))
  PROVE  \E day \in q.first..Min({q.last, q.horizon}) : \E k \in DOMAIN q.hours[day % 7] :
           /\ day \in Int /\ day % 7 \in 0..6
           /\ WindowsOf(z, q)[i] = Window(z, q.hours, day, k)
           /\ q.hours[day % 7][k][1] \in 0..(DayMinutes - 1)
           /\ q.hours[day % 7][k][2] \in 0..(DayMinutes - 1)
           /\ q.hours[day % 7][k][1] % 5 = 0
<1>. DEFINE until == Min({q.last, q.horizon})
            first == q.first
            hours == q.hours
            ws    == WindowsOf(z, q)
<1>1. until \in Int /\ first \in Int /\ HoursFit(hours)
  BY MinOfTwo DEF QueryFits
<1>2. ws = _windows(z, hours, first, until)
  BY DEF WindowsOf
<1>3. i \in 1..Len(ws)
  OBVIOUS
<1>. HIDE DEF until, first, hours, ws
<1>4. PICK day \in first..until : \E k \in DOMAIN hours[day % 7] : ws[i] = Window(z, hours, day, k)
  <2>1. LET v == _windows(z, hours, first, until)
        IN  /\ v \in Seq(Range(v)) /\ Len(v) \in Nat /\ DOMAIN v = 1..Len(v)
            /\ \A j \in 1..Len(v) :
                  /\ v[j].start \in Int /\ v[j].end \in Int /\ v[j].start < v[j].end
                  /\ \E day \in first..until : \E k \in DOMAIN hours[day % 7] :
                       v[j] = Window(z, hours, day, k)
            /\ \A day \in first..until : \A k \in DOMAIN hours[day % 7] :
                  Window(z, hours, day, k).end > Window(z, hours, day, k).start =>
                    \E j \in 1..Len(v) : v[j] = Window(z, hours, day, k)
            /\ \A j, k \in 1..Len(v) : j < k => v[j].end <= v[k].start
    BY <1>1, WindowsAre
  <2>. QED  BY <1>2, <1>3, <2>1
<1>5. PICK k \in DOMAIN hours[day % 7] : ws[i] = Window(z, hours, day, k)
  BY <1>4
<1>6. day \in Int /\ day % 7 \in 0..6
  BY <1>1
<1>7. /\ hours[day % 7][k][1] \in 0..(DayMinutes - 1) /\ hours[day % 7][k][2] \in 0..(DayMinutes - 1)
      /\ hours[day % 7][k][1] % 5 = 0
  BY <1>1, <1>6 DEF HoursFit
<1>. QED  BY <1>5, <1>6, <1>7 DEF first, until, hours, ws

(* A window of the engine is one of the bookable times. *)
LEMMA WindowIsOpenTime ==
  ASSUME NEW z, ZoneFits(z), NEW q, QueryFits(q), NEW i \in 1..Len(WindowsOf(z, q))
  PROVE  \E w \in OpenTimes(z, q) : /\ w.start = WindowsOf(z, q)[i].start
                                 /\ w.end = WindowsOf(z, q)[i].end
                                 /\ w.day = WindowsOf(z, q)[i].day
<1>. DEFINE until == Min({q.last, q.horizon})
            first == q.first
            hours == q.hours
            ws    == WindowsOf(z, q)
<1>1. until \in Int /\ first \in Int /\ HoursFit(hours)
  BY MinOfTwo DEF QueryFits
<1>2. ws = _windows(z, hours, first, until)
  BY DEF WindowsOf
<1>3. OpenTimes(z, q) = UNION {{[day   |-> day,
           start |-> Reached(z, day * DayMinutes + h[1]),
           end   |-> Reached(z, day * DayMinutes + h[2])] : h \in Range(hours[day % 7])} :
         day \in first..until}
  BY DEF OpenTimes
<1>4. \E day \in first..until : \E k \in DOMAIN hours[day % 7] :
        /\ day \in Int /\ day % 7 \in 0..6 /\ ws[i] = Window(z, hours, day, k)
        /\ hours[day % 7][k][1] \in 0..(DayMinutes - 1)
        /\ hours[day % 7][k][2] \in 0..(DayMinutes - 1)
        /\ hours[day % 7][k][1] % 5 = 0
  BY WindowOfDay
<1>. HIDE DEF until, first, hours, ws
<1>5. PICK day \in first..until : \E k \in DOMAIN hours[day % 7] :
        /\ day \in Int /\ ws[i] = Window(z, hours, day, k)
        /\ hours[day % 7][k][1] \in 0..(DayMinutes - 1)
        /\ hours[day % 7][k][2] \in 0..(DayMinutes - 1)
  BY <1>4
<1>6. PICK k \in DOMAIN hours[day % 7] :
        /\ ws[i] = Window(z, hours, day, k)
        /\ hours[day % 7][k][1] \in 0..(DayMinutes - 1)
        /\ hours[day % 7][k][2] \in 0..(DayMinutes - 1)
  BY <1>5
<1>. DEFINE h  == hours[day % 7][k]
            t1 == h[1]
            t2 == h[2]
            w  == [day |-> day, start |-> Reached(z, day * DayMinutes + t1), end |-> Reached(z, day * DayMinutes + t2)]
<1>7. day \in Int
  BY <1>5
<1>8. t1 \in Int /\ t2 \in Int
  BY <1>6, TimeOfDay
<1>9. ws[i] = [day |-> day, start |-> resolve_local(z, day, t1), end |-> resolve_local(z, day, t2)]
  BY <1>6 DEF Window
<1>10. w \in OpenTimes(z, q)
  <2>1. h \in Range(hours[day % 7])
    BY DEF Range
  <2>. HIDE DEF h
  <2>. QED  BY <1>3, <2>1
<1>. HIDE DEF t1, t2
<1>11. Reached(z, day * DayMinutes + t1) = resolve_local(z, day, t1)
       /\ Reached(z, day * DayMinutes + t2) = resolve_local(z, day, t2)
  BY <1>7, <1>8, ReachedIs
<1>12. w.start = ws[i].start /\ w.end = ws[i].end /\ w.day = ws[i].day
  BY <1>9, <1>11
<1>. HIDE DEF w
<1>. QED  BY <1>10, <1>12 DEF ws

(* An empty list is in order. *)
LEMMA EmptyList ==
  ASSUME NEW T, NEW l, l = <<>>
  PROVE  l \in Seq(T) /\ Len(l) \in Nat /\ \A i, j \in 1..Len(l) : i < j => l[i].start < l[j].start
OBVIOUS

(* What is read of the calendar for a query, and what its answer promises. *)
Around(z, q, at, events) ==
  LET searched == compute_slots(z, q, {}, at).searched
  IN  {e \in events : e.start < searched[2] + q.buffer /\ e.end > searched[1] - q.buffer}

(* Within open hours, after the notice, clear of the calendar by the       *)
(* buffer, in order, and no local start twice.                             *)
SlotsGood(z, q, at, events, slots) ==
  \A k \in DOMAIN slots :
    /\ \E w \in OpenTimes(z, q) : w.start <= slots[k].start /\ slots[k].end <= w.end
    /\ slots[k].start >= at + q.notice
    /\ \A e \in events : Apart(slots[k], e, q.buffer)
    /\ \A j \in 1..(k - 1) : /\ slots[j].start < slots[k].start
                             /\ Wall(z, slots[j].start) # Wall(z, slots[k].start)

(* The calendar around the searched span is read wide enough: what get_busy*)
(* leaves out is no closer to what could be offered than the buffer.       *)
LEMMA ReadsEnough ==
  ASSUME NEW z, ZoneFits(z), NEW q, QueryFits(q), NEW at, NEW events, BusyFits(events),
         compute_slots(z, q, {}, at).reason = "ok",
         NEW c \in Open(z, q, at), NEW e \in events, e \notin Around(z, q, at, events)
  PROVE  Apart(c, e, q.buffer)
<1>. DEFINE early == compute_slots(z, q, {}, at)
            ws    == WindowsOf(z, q)
            n     == Len(ws)
<1>1. early.reason = "ok" /\ ~(e.start < early.searched[2] + q.buffer /\ e.end > early.searched[1] - q.buffer)
  BY DEF Around
<1>2. early = compute_slots(z, q, {}, at)
  OBVIOUS
<1>. HIDE DEF early
<1>3. LiesIn(z, q, c)
  BY OpenIs
<1>4. ws # <<>> /\ early.searched = <<ws[1].start, ws[n].end>>
  <2>. DEFINE searched == IF ws = <<>> THEN <<>> ELSE <<ws[1].start, Last(ws).end>>
  <2>1. BusyFits({})
    BY FS_EmptySet DEF BusyFits
  <2>2. early.searched = searched
    BY <1>1, <1>2, <2>1, EngineIs DEF Nothing
  <2>3. ws # <<>>
    <3>1. Len(<<>>) = 0
      OBVIOUS
    <3>. QED  BY <1>3, <3>1 DEF LiesIn
  <2>. QED  BY <2>2, <2>3 DEF Last
<1>5. WindowsFit(ws)
  BY OpenIs
<1>6. PICK i \in 1..n : ws[i].start <= c.start /\ c.end <= ws[i].end
  BY <1>3 DEF LiesIn
<1>. HIDE DEF ws
<1>7. n \in Nat /\ 1 \in 1..n /\ n \in 1..n /\ i \in Nat
  BY <1>5, <1>6 DEF WindowsFit
<1>8. /\ c.start \in Int /\ c.end \in Int /\ e.start \in Int /\ e.end \in Int /\ q.buffer \in Nat
      /\ ws[1].start \in Int /\ ws[n].end \in Int /\ ws[i].start \in Int /\ ws[i].end \in Int
  <2>1. c.start \in Int /\ c.end = c.start + q.duration /\ q.duration \in Nat
    BY <1>3 DEF LiesIn, QueryFits
  <2>2. e.start \in Int /\ e.end \in Int /\ q.buffer \in Nat
    BY DEF BusyFits, QueryFits
  <2>3. ws[1].start \in Int /\ ws[n].end \in Int /\ ws[i].start \in Int /\ ws[i].end \in Int
    BY <1>5, <1>6, <1>7 DEF WindowsFit
  <2>4. c.end \in Int
    BY <2>1
  <2>. QED  BY <2>1, <2>2, <2>3, <2>4
<1>9. ws[1].start <= ws[i].start
  <2>1. i # 1 => 1 < i
    BY <1>6, <1>7
  <2>2. i # 1 => /\ ws[1].start < ws[1].end /\ ws[1].end <= ws[i].start
                 /\ ws[1].end \in Int
    BY <1>5, <1>6, <1>7, <2>1 DEF WindowsFit
  <2>. QED  BY <1>8, <2>2
<1>10. ws[i].end <= ws[n].end
  <2>1. i # n => i < n
    BY <1>6, <1>7
  <2>2. i # n => /\ ws[i].end <= ws[n].start /\ ws[n].start < ws[n].end
                 /\ ws[n].start \in Int
    BY <1>5, <1>6, <1>7, <2>1 DEF WindowsFit
  <2>. QED  BY <1>8, <2>2
<1>11. ~(e.start < ws[n].end + q.buffer /\ e.end > ws[1].start - q.buffer)
  BY <1>1, <1>4
<1>. DEFINE a == ws[1].start
            b == ws[n].end
<1>12. a \in Int /\ b \in Int /\ a <= c.start /\ c.end <= b
  BY <1>6, <1>8, <1>9, <1>10
<1>13. ~(e.start < b + q.buffer /\ e.end > a - q.buffer)
  BY <1>11
<1>. HIDE DEF a, b
<1>14. e.start >= b + q.buffer \/ e.end <= a - q.buffer
  BY <1>8, <1>12, <1>13
<1>15. c.end + q.buffer <= e.start \/ e.end + q.buffer <= c.start
  <2>1. /\ c.start \in Int /\ c.end \in Int /\ e.start \in Int /\ e.end \in Int /\ q.buffer \in Int
        /\ a <= c.start /\ c.end <= b
    BY <1>8, <1>12
  <2>2. ASSUME e.start >= b + q.buffer PROVE c.end + q.buffer <= e.start
    BY <1>12, <2>1, <2>2
  <2>3. ASSUME e.end <= a - q.buffer PROVE e.end + q.buffer <= c.start
    BY <1>12, <2>1, <2>3
  <2>. QED  BY <1>14, <2>2, <2>3
<1>. QED  BY <1>15 DEF Apart

(* What an answer offers, with the calendar read around the searched span. *)
LEMMA OfferIsGood ==
  ASSUME NEW z, ZoneFits(z), NEW q, QueryFits(q), NEW at, NEW events, BusyFits(events),
         compute_slots(z, q, {}, at).reason = "ok"
  PROVE  /\ BusyFits(Around(z, q, at, events))
         /\ SlotsGood(z, q, at, events, compute_slots(z, q, Around(z, q, at, events), at).slots)
<1>. DEFINE early == compute_slots(z, q, {}, at)
            busy  == Around(z, q, at, events)
            slots == compute_slots(z, q, busy, at).slots
<1>0. busy = {e \in events : e.start < early.searched[2] + q.buffer /\ e.end > early.searched[1] - q.buffer}
      /\ early.reason = "ok"
  BY DEF Around
<1>00. early = compute_slots(z, q, {}, at) /\ slots = compute_slots(z, q, busy, at).slots
  OBVIOUS
<1>. HIDE DEF early, busy, slots
<1>. DEFINE ws   == WindowsOf(z, q)
            free == Free(z, q, busy, at)
            n    == Len(ws)
<1>1. BusyFits({}) /\ BusyFits(busy)
  <2>1. busy \subseteq events
    BY <1>0
  <2>. QED  BY <2>1, FS_EmptySet, FS_Subset DEF BusyFits
<1>3. WindowsFit(ws) /\ SlotsFit(free)
  BY OpenIs
<1>5. slots = <<>> \/ slots = _select(free, q.selection, q.max)
  BY <1>00, <1>1, EngineIs DEF Nothing
<1>6. /\ slots \in Seq(free) /\ Len(slots) \in Nat
      /\ \A i, j \in 1..Len(slots) : i < j => slots[i].start < slots[j].start
  <2>1. CASE slots = <<>>
    BY <2>1, EmptyList
  <2>2. CASE slots = _select(free, q.selection, q.max)
    <3>1. q.max \in Nat
      BY DEF QueryFits
    <3>. HIDE DEF free
    <3>2. LET l == _select(free, q.selection, q.max)
          IN  /\ l \in Seq(free) /\ Len(l) \in Nat
              /\ Len(l) = Min({q.max, Cardinality(free)}) /\ Cardinality(Range(l)) = Len(l)
              /\ \A i, j \in 1..Len(l) : i < j => l[i].start < l[j].start
              /\ \A c \in Range(l), d \in free \ Range(l) :
                   IF q.selection = "earliest" THEN c.start < d.start ELSE TurnBefore(free, c, d)
      BY <1>3, <3>1, SelectIs
    <3>. QED  BY <2>2, <3>2
  <2>. QED  BY <1>5, <2>1, <2>2
<1>7. ASSUME NEW c \in free
      PROVE  /\ c.start \in Int /\ c.end \in Int /\ c.start < c.end
             /\ \E i \in 1..n : ws[i].start <= c.start /\ c.end <= ws[i].end
             /\ ~fold(z, c.start) /\ c.start >= at + q.notice /\ ClearOf(c, busy, q.buffer)
  <2>1. c \in Open(z, q, at) /\ ClearOf(c, busy, q.buffer)
    BY DEF Free
  <2>2. LiesIn(z, q, c) /\ Admits(z, q, at + q.notice, c)
    BY <2>1, OpenIs
  <2>3. c.start \in Int /\ c.end = c.start + q.duration /\ q.duration \in Nat /\ q.duration > 0
    BY <2>2 DEF LiesIn, QueryFits
  <2>. QED  BY <2>1, <2>2, <2>3 DEF LiesIn, Admits
<1>8. \A k \in 1..Len(slots) : slots[k] \in free
  BY <1>6
<1>. HIDE DEF ws, free, n
<1>9. ASSUME NEW c \in free PROVE \E w \in OpenTimes(z, q) : w.start <= c.start /\ c.end <= w.end
  <2>1. PICK i \in 1..n : ws[i].start <= c.start /\ c.end <= ws[i].end
    BY <1>7
  <2>2. PICK w \in OpenTimes(z, q) : w.start = ws[i].start /\ w.end = ws[i].end
    BY WindowIsOpenTime DEF ws, n
  <2>. QED  BY <2>1, <2>2
<1>10. ASSUME NEW c \in free, NEW e \in events PROVE Apart(c, e, q.buffer)
  <2>1. /\ c.start \in Int /\ c.end \in Int /\ e.start \in Int /\ e.end \in Int
        /\ q.buffer \in Nat
    BY <1>7 DEF BusyFits, QueryFits
  <2>2. CASE e \in busy
    <3>1. ~(e.start - q.buffer < c.end /\ c.start < e.end + q.buffer)
      BY <1>7, <2>2 DEF ClearOf
    <3>. QED  BY <2>1, <3>1 DEF Apart
  <2>3. CASE e \notin busy
    <3>1. c \in Open(z, q, at)
      BY DEF free, Free
    <3>. QED  BY <2>3, <3>1, ReadsEnough DEF busy
  <2>. QED  BY <2>2, <2>3
<1>11. ASSUME NEW c \in free, NEW d \in free, c.start < d.start
       PROVE  Wall(z, c.start) # Wall(z, d.start)
  <2>1. c.start \in Int /\ d.start \in Int /\ ~fold(z, d.start)
    BY <1>7
  <2>. QED  BY <1>11, <2>1 DEF fold, Wall, ZoneFits
<1>12. DOMAIN slots = 1..Len(slots)
  BY <1>6
<1>13. ASSUME NEW k \in DOMAIN slots, NEW j \in 1..(k - 1)
       PROVE  /\ slots[j].start < slots[k].start
              /\ Wall(z, slots[j].start) # Wall(z, slots[k].start)
  <2>1. k \in 1..Len(slots) /\ j \in 1..Len(slots) /\ j < k
    BY <1>6, <1>12
  <2>. QED  BY <1>6, <1>8, <1>11, <2>1
<1>14. SlotsGood(z, q, at, events, slots)
  BY <1>7, <1>8, <1>9, <1>10, <1>12, <1>13 DEF SlotsGood
<1>. QED  BY <1>1, <1>14 DEF busy, slots

(* An instant is the second of two that read the same wall time, if there  *)
(* is an earlier one.                                                      *)
LEMMA FoldIsSecond ==
  ASSUME NEW z, ZoneFits(z), NEW s \in Int
  PROVE  fold(z, s) <=> \E i \in (s - Change(z))..(s - 1) : Wall(z, i) = Wall(z, s)
<1>1. z.at \in Int /\ z.by \in Int /\ Change(z) \in Nat /\ -Change(z) <= z.by /\ z.by <= Change(z)
  BY DEF Change, ZoneFits
<1>2. ASSUME fold(z, s) PROVE \E i \in (s - Change(z))..(s - 1) : Wall(z, i) = Wall(z, s)
  <2>1. z.at <= s /\ s < z.at - z.by
    BY <1>2 DEF fold
  <2>2. s + z.by \in (s - Change(z))..(s - 1)
    BY <1>1, <2>1
  <2>3. Wall(z, s + z.by) = Wall(z, s)
    BY <1>1, <2>1 DEF Wall
  <2>. QED  BY <2>2, <2>3
<1>3. ASSUME NEW i \in (s - Change(z))..(s - 1), Wall(z, i) = Wall(z, s) PROVE fold(z, s)
  BY <1>1, <1>3 DEF Wall, fold
<1>. QED  BY <1>2, <1>3

(* The slots of a window are those that start a number of steps after it   *)
(* and end in it.                                                          *)
LEMMA GridIsStepped ==
  ASSUME NEW w, w.start \in Int, w.end \in Int, NEW duration \in Nat \ {0}, NEW step \in Nat \ {0}
  PROVE  Grid(w, duration, step) =
           {[day |-> w.day, start |-> t, end |-> t + duration] :
              t \in {u \in w.start..(w.end - duration) : (u - w.start) % step = 0}}
<1>. DEFINE slot(t) == [day |-> w.day, start |-> t, end |-> t + duration]
            T == {u \in w.start..(w.end - duration) : (u - w.start) % step = 0}
            room == w.end - w.start - duration
            last == room \div step
<1>1. Grid(w, duration, step) = {slot(w.start + k * step) : k \in 0..last}
  BY DEF Grid
<1>2. ASSUME NEW k \in 0..last PROVE w.start + k * step \in T
  <2>. DEFINE m == k * step
  <2>1. m \in Nat /\ w.start + m <= w.end - duration
    OBVIOUS
  <2>2. m % step = 0
    OBVIOUS
  <2>. HIDE DEF m
  <2>3. w.start + m \in w.start..(w.end - duration) /\ (w.start + m) - w.start = m
    BY <2>1
  <2>4. w.start + m \in T
    BY <2>2, <2>3
  <2>. QED  BY <2>4 DEF m
<1>3. ASSUME NEW t \in T PROVE \E k \in 0..last : t = w.start + k * step
  <2>. DEFINE k == (t - w.start) \div step
  <2>1. t - w.start \in Nat /\ (t - w.start) % step = 0
    OBVIOUS
  <2>2. k \in Nat /\ t - w.start = k * step
    <3>. DEFINE u == t - w.start
    <3>1. u \in Nat /\ u % step = 0
      BY <2>1
    <3>. HIDE DEF u
    <3>2. u \div step \in Nat /\ u = (u \div step) * step
      BY <3>1
    <3>. QED  BY <3>2 DEF u
  <2>3. k <= last
    OBVIOUS
  <2>. QED  BY <2>2, <2>3
<1>. HIDE DEF slot, T, last
<1>4. {slot(w.start + k * step) : k \in 0..last} = {slot(t) : t \in T}
  BY <1>2, <1>3
<1>. QED  BY <1>1, <1>4 DEF slot, T

(* A bookable time that has any time in it is a window of the engine.      *)
LEMMA OpenTimeIsWindow ==
  ASSUME NEW z, ZoneFits(z), NEW q, QueryFits(q), NEW w \in OpenTimes(z, q)
  PROVE  /\ w.start \in Int /\ w.end \in Int
         /\ w.start < w.end => \E i \in 1..Len(WindowsOf(z, q)) : WindowsOf(z, q)[i] = w
<1>. DEFINE until == Min({q.last, q.horizon})
            first == q.first
            hours == q.hours
            ws    == WindowsOf(z, q)
<1>1. until \in Int /\ first \in Int /\ HoursFit(hours)
  BY MinOfTwo DEF QueryFits
<1>2. ws = _windows(z, hours, first, until)
  BY DEF WindowsOf
<1>3. \E day \in first..until : \E h \in Range(hours[day % 7]) :
        w = [day   |-> day,
             start |-> Reached(z, day * DayMinutes + h[1]),
             end   |-> Reached(z, day * DayMinutes + h[2])]
  BY DEF OpenTimes
<1>. HIDE DEF until, first, hours, ws
<1>4. PICK day \in first..until : \E h \in Range(hours[day % 7]) :
        w = [day   |-> day,
             start |-> Reached(z, day * DayMinutes + h[1]),
             end   |-> Reached(z, day * DayMinutes + h[2])]
  BY <1>3
<1>5. PICK k \in DOMAIN hours[day % 7] :
        w = [day   |-> day,
             start |-> Reached(z, day * DayMinutes + hours[day % 7][k][1]),
             end   |-> Reached(z, day * DayMinutes + hours[day % 7][k][2])]
  BY <1>4 DEF Range
<1>. DEFINE t1 == hours[day % 7][k][1]
            t2 == hours[day % 7][k][2]
<1>6. day \in Int /\ day % 7 \in 0..6
  BY <1>1
<1>7. t1 \in Int /\ t2 \in Int
  <2>1. t1 \in 0..(DayMinutes - 1) /\ t2 \in 0..(DayMinutes - 1)
    BY <1>1, <1>5, <1>6 DEF HoursFit
  <2>. QED  BY <2>1, TimeOfDay
<1>8. Window(z, hours, day, k) =
        [day |-> day, start |-> resolve_local(z, day, t1), end |-> resolve_local(z, day, t2)]
  BY DEF Window
<1>9. w = [day |-> day, start |-> Reached(z, day * DayMinutes + t1), end |-> Reached(z, day * DayMinutes + t2)]
  BY <1>5
<1>. HIDE DEF t1, t2
<1>10. /\ Reached(z, day * DayMinutes + t1) = resolve_local(z, day, t1)
       /\ Reached(z, day * DayMinutes + t2) = resolve_local(z, day, t2)
  BY <1>6, <1>7, ReachedIs
<1>11. resolve_local(z, day, t1) \in Int /\ resolve_local(z, day, t2) \in Int
  BY <1>6, <1>7, ResolvesToFirst DEF ZoneFits
<1>12. w = Window(z, hours, day, k)
  BY <1>8, <1>9, <1>10
<1>13. w.start \in Int /\ w.end \in Int
  BY <1>9, <1>10, <1>11
<1>14. ASSUME w.start < w.end PROVE \E i \in 1..Len(ws) : ws[i] = w
  <2>1. LET v == _windows(z, hours, first, until)
        IN  /\ v \in Seq(Range(v)) /\ Len(v) \in Nat /\ DOMAIN v = 1..Len(v)
            /\ \A j \in 1..Len(v) :
                  /\ v[j].start \in Int /\ v[j].end \in Int /\ v[j].start < v[j].end
                  /\ \E d \in first..until : \E l \in DOMAIN hours[d % 7] :
                       v[j] = Window(z, hours, d, l)
            /\ \A d \in first..until : \A l \in DOMAIN hours[d % 7] :
                  Window(z, hours, d, l).end > Window(z, hours, d, l).start =>
                    \E j \in 1..Len(v) : v[j] = Window(z, hours, d, l)
            /\ \A j, l \in 1..Len(v) : j < l => v[j].end <= v[l].start
    BY <1>1, WindowsAre
  <2>2. Window(z, hours, day, k).end > Window(z, hours, day, k).start
    BY <1>12, <1>13, <1>14
  <2>3. \E i \in 1..Len(ws) : ws[i] = Window(z, hours, day, k)
    BY <1>2, <1>5, <2>1, <2>2
  <2>. QED  BY <1>12, <2>3
<1>. QED  BY <1>13, <1>14 DEF ws

(* What the engine has before busy time is what the reference calls        *)
(* bookable.                                                               *)
LEMMA OpenIsBookable ==
  ASSUME NEW z, ZoneFits(z), NEW q, QueryFits(q), NEW at
  PROVE  Open(z, q, at) = Bookable(z, q, at)
<1>. DEFINE On(w) == {[day |-> w.day, start |-> t, end |-> t + q.duration] :
                        t \in {u \in w.start..(w.end - q.duration) : (u - w.start) % q.step = 0}}
            Of(w) == Grid(w, q.duration, q.step)
            ws    == WindowsOf(z, q)
            C     == Candidates(ws, q.duration, q.step)
            Is(s) == /\ \A i \in (s.start - Change(z))..(s.start - 1) : Wall(z, i) # Wall(z, s.start)
                     /\ s.start >= at + q.notice
                     /\ q.earliest <= TimeOf(z, s.start) /\ TimeOf(z, s.end) <= q.latest
<1>1. q.duration \in Nat \ {0} /\ q.step \in Nat \ {0}
  BY DEF QueryFits
<1>2. WindowsFit(ws)
  BY OpenIs
<1>3. \A w : w.start \in Int /\ w.end \in Int => Of(w) = On(w)
  <2>. SUFFICES ASSUME NEW w, w.start \in Int, w.end \in Int PROVE Of(w) = On(w)
    OBVIOUS
  <2>. DEFINE duration == q.duration
              step     == q.step
  <2>1. duration \in Nat \ {0} /\ step \in Nat \ {0}
    BY <1>1
  <2>. HIDE DEF duration, step
  <2>2. Grid(w, duration, step) =
           {[day |-> w.day, start |-> t, end |-> t + duration] :
              t \in {u \in w.start..(w.end - duration) : (u - w.start) % step = 0}}
    BY <2>1, GridIsStepped
  <2>. QED  BY <2>2 DEF duration, step
<1>4. \A w \in OpenTimes(z, q) : w.start \in Int /\ w.end \in Int
  BY OpenTimeIsWindow
<1>. HIDE DEF ws
<1>5. /\ \A c \in C : c.start \in Int /\ \E i \in 1..Len(ws) : c \in Of(ws[i])
      /\ \A i \in 1..Len(ws) : Of(ws[i]) \subseteq C
  BY <1>1, <1>2, CandidatesAre
<1>6. \A w : w.start \in Int /\ w.end \in Int => \A c \in Of(w) : w.start < w.end
  <2>. SUFFICES ASSUME NEW w, w.start \in Int, w.end \in Int, NEW c \in Of(w) PROVE w.start < w.end
    OBVIOUS
  <2>1. c.start \in Int /\ w.start <= c.start /\ c.start + q.duration <= w.end
    BY <1>1, GridIs
  <2>. QED  BY <1>1, <2>1
<1>. HIDE DEF C, Of, On
<1>7. ASSUME NEW w \in OpenTimes(z, q) PROVE On(w) \subseteq C
  <2>. SUFFICES ASSUME NEW s \in On(w) PROVE s \in C
    OBVIOUS
  <2>1. s \in Of(w) /\ w.start < w.end
    BY <1>3, <1>4, <1>6
  <2>2. PICK i \in 1..Len(ws) : ws[i] = w
    BY <2>1, OpenTimeIsWindow DEF ws
  <2>. QED  BY <1>5, <2>1, <2>2
<1>8. ASSUME NEW s \in C PROVE \E w \in OpenTimes(z, q) : s \in On(w)
  <2>1. PICK i \in 1..Len(ws) : s \in Of(ws[i])
    BY <1>5
  <2>2. PICK w \in OpenTimes(z, q) : /\ w.start = ws[i].start /\ w.end = ws[i].end
                                     /\ w.day = ws[i].day
    BY WindowIsOpenTime DEF ws
  <2>3. On(w) = On(ws[i])
    BY <2>2 DEF On
  <2>4. On(ws[i]) = Of(ws[i])
    BY <1>2, <1>3 DEF WindowsFit
  <2>. QED  BY <2>1, <2>3, <2>4
<1>9. C = UNION {On(w) : w \in OpenTimes(z, q)}
  BY <1>7, <1>8
<1>10. ASSUME NEW c \in C PROVE Admits(z, q, at + q.notice, c) <=> Is(c)
  <2>1. c.start \in Int
    BY <1>5
  <2>2. fold(z, c.start) <=> \E i \in (c.start - Change(z))..(c.start - 1) : Wall(z, i) = Wall(z, c.start)
    BY <2>1, FoldIsSecond
  <2>. QED  BY <2>2 DEF Admits
<1>11. Open(z, q, at) = {c \in C : Admits(z, q, at + q.notice, c)}
  BY DEF Open, C, ws
<1>12. Bookable(z, q, at) = {c \in UNION {On(w) : w \in OpenTimes(z, q)} : Is(c)}
  BY DEF Bookable, On
<1>. HIDE DEF Is
<1>. QED  BY <1>9, <1>10, <1>11, <1>12

(* Of finitely many slots one is the first and one the last.               *)
LEMMA FirstAndLast ==
  ASSUME NEW S, SlotsFit(S), S # {}
  PROVE  /\ \E c \in S : \A d \in S : c.start <= d.start
         /\ \E c \in S : \A d \in S : d.start <= c.start
<1>. DEFINE l == InTimeOrder(S)
            n == Len(l)
<1>1. /\ l \in Seq(S) /\ n \in Nat
      /\ \A c \in S : \E k \in 1..n : l[k] = c
      /\ \A i, j \in 1..n : i < j => l[i].start < l[j].start
  BY TimeOrderIs DEF SlotsFit
<1>. HIDE DEF l
<1>2. 1 \in 1..n /\ n \in 1..n
  <2>1. PICK c \in S : TRUE
    OBVIOUS
  <2>2. PICK k \in 1..n : l[k] = c
    BY <1>1
  <2>. QED  BY <1>1, <2>2
<1>. HIDE DEF n
<1>3. \A k \in 1..n : l[k] \in S
  BY <1>1 DEF n
<1>4. \A c \in S : c.start \in Int
  BY DEF SlotsFit
<1>5. ASSUME NEW d \in S PROVE l[1].start <= d.start /\ d.start <= l[n].start
  <2>1. PICK k \in 1..n : l[k] = d
    BY <1>1
  <2>2. 1 < k => l[1].start < d.start
    BY <1>1, <1>2, <2>1
  <2>3. k < n => d.start < l[n].start
    BY <1>1, <1>2, <2>1
  <2>4. k \in Nat /\ n \in Nat /\ 1 <= k /\ k <= n
    BY <1>1
  <2>5. k = 1 => l[1].start = d.start
    BY <2>1
  <2>6. k = n => l[n].start = d.start
    BY <2>1
  <2>7. l[1].start \in Int /\ l[n].start \in Int /\ d.start \in Int
    BY <1>2, <1>3, <1>4
  <2>. QED  BY <2>2, <2>3, <2>4, <2>5, <2>6, <2>7
<1>. QED  BY <1>2, <1>3, <1>5

(* Taking each day's slots in turn leaves no day behind: a day with a slot *)
(* left over has at most one slot less than any other.                     *)
LEMMA TurnsAreFair ==
  ASSUME NEW free, SlotsFit(free), NEW told \in SUBSET free,
         \A c \in told, d \in free \ told : TurnBefore(free, c, d),
         NEW s \in told, NEW t \in free \ told
  PROVE  /\ s.day = t.day => s.start < t.start
         /\ Cardinality({x \in told : x.day = s.day}) <= Cardinality({x \in told : x.day = t.day}) + 1
<1>. DEFINE Earlier(x) == {y \in free : y.day = x.day /\ y.start < x.start}
            S    == {x \in told : x.day = s.day}
            T    == {x \in told : x.day = t.day}
            rest == {x \in free \ told : x.day = t.day}
<1>1. IsFiniteSet(free) /\ \A x \in free : RankIn(free, x) = Cardinality(Earlier(x)) /\ RankIn(free, x) \in Nat
  BY RankIs DEF SlotsFit, RankIn
<1>2. \A x \in free : x.start \in Int
  BY DEF SlotsFit
<1>3. \A P : P \subseteq free => IsFiniteSet(P) /\ Cardinality(P) \in Nat /\ SlotsFit(P)
  BY <1>1, FS_Subset, FS_CardinalityType DEF SlotsFit
<1>4. s.day = t.day => s.start < t.start
  <2>. SUFFICES ASSUME s.day = t.day, ~(s.start < t.start) PROVE FALSE
    OBVIOUS
  <2>1. TurnBefore(free, s, t) /\ RankIn(free, s) \in Nat /\ RankIn(free, t) \in Nat
    BY <1>1
  <2>2. t.start < s.start
    BY <1>2 DEF SlotsFit
  <2>3. RankIn(free, t) < RankIn(free, s)
    BY <2>2, RankIs
  <2>4. ~(s.day < t.day)
    BY DEF SlotsFit
  <2>. QED  BY <2>1, <2>3, <2>4 DEF TurnBefore
<1>5. PICK late \in rest : \A x \in rest : late.start <= x.start
  <2>1. rest \subseteq free /\ t \in rest
    OBVIOUS
  <2>. HIDE DEF rest
  <2>. QED  BY <1>3, <2>1, FirstAndLast
<1>6. PICK last \in S : \A x \in S : x.start <= last.start
  <2>1. S \subseteq free /\ s \in S
    OBVIOUS
  <2>. HIDE DEF S
  <2>. QED  BY <1>3, <2>1, FirstAndLast
<1>7. RankIn(free, late) <= Cardinality(T)
  <2>1. ASSUME NEW y \in Earlier(late) PROVE y \in T
    <3>1. y \in free /\ y.day = t.day /\ y.start < late.start
      BY <1>5
    <3>2. y \notin rest
      BY <1>2, <1>5, <3>1
    <3>. QED  BY <3>1, <3>2
  <2>2. Earlier(late) \subseteq T /\ IsFiniteSet(T)
    BY <1>3, <2>1
  <2>3. late \in free
    BY <1>5
  <2>. HIDE DEF Earlier, T
  <2>4. Cardinality(Earlier(late)) <= Cardinality(T)
    BY <2>2, FS_Subset
  <2>. QED  BY <1>1, <2>3, <2>4
<1>8. Cardinality(S) <= RankIn(free, last) + 1
  <2>1. ASSUME NEW y \in S, y # last PROVE y \in Earlier(last)
    <3>1. y \in free /\ last \in free /\ y.day = last.day /\ y.start # last.start
      BY <1>6, <2>1 DEF SlotsFit
    <3>2. y.start < last.start
      BY <1>2, <1>6, <3>1
    <3>. QED  BY <3>1, <3>2
  <2>2. S \subseteq Earlier(last) \cup {last} /\ last \in free /\ Earlier(last) \subseteq free
        /\ last \notin Earlier(last)
    BY <1>2, <1>6, <2>1
  <2>. HIDE DEF Earlier, S
  <2>3. IsFiniteSet(Earlier(last)) /\ Cardinality(Earlier(last)) \in Nat
    BY <1>3, <2>2
  <2>4. /\ IsFiniteSet(Earlier(last) \cup {last})
        /\ Cardinality(Earlier(last) \cup {last}) = Cardinality(Earlier(last)) + 1
    BY <2>2, <2>3, FS_AddElement
  <2>5. Cardinality(S) <= Cardinality(Earlier(last) \cup {last})
    BY <2>2, <2>4, FS_Subset
  <2>. QED  BY <1>1, <2>2, <2>4, <2>5
<1>9. RankIn(free, last) <= RankIn(free, late)
  <2>1. last \in told /\ late \in free \ told
    BY <1>5, <1>6
  <2>2. TurnBefore(free, last, late) /\ RankIn(free, last) \in Nat /\ RankIn(free, late) \in Nat
    BY <1>1, <2>1
  <2>. QED  BY <2>2 DEF TurnBefore
<1>10. /\ RankIn(free, last) \in Nat /\ RankIn(free, late) \in Nat
       /\ Cardinality(S) \in Nat /\ Cardinality(T) \in Nat
  BY <1>1, <1>3, <1>5, <1>6
<1>. HIDE DEF S, T
<1>11. Cardinality(S) <= Cardinality(T) + 1
  BY <1>7, <1>8, <1>9, <1>10
<1>. QED  BY <1>4, <1>11 DEF S, T

(* The slots of a day; what NothingIsHidden asks of the answer r to a query *)
(* q, where open could be told, free is free and told was told.            *)
OfDay(S, day) == {s \in S : s.day = day}

Tells(open, free, told, q, r) ==
  /\ told \subseteq free
  /\ r.more <=> told # free
  /\ r.more => Cardinality(told) = q.max
  /\ r.reason = "ok" <=> free # {}
  /\ r.reason = "fully_booked" <=> free = {} /\ open # {}
  /\ r.reason = "beyond_booking_horizon" <=> q.first > q.horizon
  /\ \A s \in told, t \in free \ told :
       IF q.selection = "earliest" THEN s.start < t.start
       ELSE /\ s.day = t.day => s.start < t.start
            /\ Cardinality(OfDay(told, s.day)) <= Cardinality(OfDay(told, t.day)) + 1

(* The same, for a calendar of events. *)
TellsAll(z, q, at, events, r) ==
  Tells(Bookable(z, q, at), {s \in Bookable(z, q, at) : \A e \in events : Apart(s, e, q.buffer)},
        {r.slots[k] : k \in DOMAIN r.slots}, q, r)

(* Nothing is bookable beyond the horizon. *)
LEMMA NothingBeyond ==
  ASSUME NEW z, NEW q, QueryFits(q), q.first > q.horizon, NEW at
  PROVE  Bookable(z, q, at) = {}
<1>. DEFINE until == Min({q.last, q.horizon})
<1>1. q.first \in Int /\ q.last \in Int /\ q.horizon \in Int
  BY DEF QueryFits
<1>2. until \in Int /\ until < q.first
  BY <1>1, MinOfTwo
<1>3. q.first..until = {}
  BY <1>1, <1>2
<1>4. OpenTimes(z, q) = {}
  BY <1>3 DEF OpenTimes
<1>. QED  BY <1>4 DEF Bookable

(* The engine's answer hides nothing, if the busy time it was given rules  *)
(* out what the calendar does.                                             *)
LEMMA EngineTells ==
  ASSUME NEW z, ZoneFits(z), NEW q, QueryFits(q), NEW at, NEW busy, BusyFits(busy), NEW events,
         \A c \in Open(z, q, at) : ClearOf(c, busy, q.buffer) <=> \A e \in events : Apart(c, e, q.buffer)
  PROVE  TellsAll(z, q, at, events, compute_slots(z, q, busy, at))
<1>. DEFINE open == Open(z, q, at)
            free == Free(z, q, busy, at)
            ws   == WindowsOf(z, q)
            searched == IF ws = <<>> THEN <<>> ELSE <<ws[1].start, Last(ws).end>>
            l    == _select(free, q.selection, q.max)
            r    == compute_slots(z, q, busy, at)
            told == {r.slots[k] : k \in DOMAIN r.slots}
<1>1. Bookable(z, q, at) = open
  BY OpenIsBookable
<1>2. free = {s \in open : \A e \in events : Apart(s, e, q.buffer)}
  BY DEF Free
<1>3. r = IF q.first > q.horizon THEN Nothing("beyond_booking_horizon", <<>>)
          ELSE IF open = {} THEN Nothing("outside_bookable_hours", searched)
          ELSE IF free = {} THEN Nothing("fully_booked", searched)
          ELSE [slots |-> l, more |-> Cardinality(free) > Len(l), reason |-> "ok", searched |-> searched]
  BY EngineIs
<1>4. SlotsFit(free)
  BY OpenIs
<1>5. q.max \in Nat
  BY DEF QueryFits
<1>6. free \subseteq open
  BY <1>2
<1>7. q.first > q.horizon => open = {}
  BY <1>1, NothingBeyond
<1>. HIDE DEF open, free, searched, r
<1>8. ASSUME q.first > q.horizon \/ free = {} PROVE Tells(open, free, told, q, r)
  <2>1. r.slots = <<>> /\ r.more = FALSE /\ free = {}
    BY <1>3, <1>6, <1>7, <1>8 DEF Nothing
  <2>2. told = {}
    BY <2>1
  <2>3. r.reason = IF q.first > q.horizon THEN "beyond_booking_horizon"
                   ELSE IF open = {} THEN "outside_bookable_hours" ELSE "fully_booked"
    BY <1>3, <1>6, <1>8, <2>1 DEF Nothing
  <2>. HIDE DEF told
  <2>. QED  BY <1>7, <2>1, <2>2, <2>3 DEF Tells
<1>9. ASSUME ~(q.first > q.horizon), free # {} PROVE Tells(open, free, told, q, r)
  <2>1. r = [slots |-> l, more |-> Cardinality(free) > Len(l), reason |-> "ok", searched |-> searched]
    BY <1>3, <1>6, <1>9
  <2>2. r.slots = l /\ r.more = (Cardinality(free) > Len(l)) /\ r.reason = "ok"
    BY <2>1
  <2>3. told = {l[k] : k \in DOMAIN l}
    BY <2>2
  <2>4. /\ told \subseteq free
        /\ Len(l) = Min({q.max, Cardinality(free)}) /\ Cardinality(told) = Len(l)
        /\ \A c \in told, d \in free \ told :
             IF q.selection = "earliest" THEN c.start < d.start ELSE TurnBefore(free, c, d)
    <3>. HIDE DEF told
    <3>. DEFINE selection == q.selection
                max       == q.max
    <3>1. l = _select(free, selection, max) /\ max \in Nat /\ told = Range(l)
      BY <1>5, <2>3 DEF Range
    <3>. HIDE DEF l, selection, max
    <3>2. LET m == _select(free, selection, max)
          IN  /\ m \in Seq(free) /\ Len(m) \in Nat
              /\ Len(m) = Min({max, Cardinality(free)}) /\ Cardinality(Range(m)) = Len(m)
              /\ \A i, j \in 1..Len(m) : i < j => m[i].start < m[j].start
              /\ \A c \in Range(m), d \in free \ Range(m) :
                   IF selection = "earliest" THEN c.start < d.start ELSE TurnBefore(free, c, d)
      BY <1>4, <3>1, SelectIs
    <3>3. /\ l \in Seq(free) /\ Len(l) = Min({max, Cardinality(free)})
          /\ Cardinality(Range(l)) = Len(l)
          /\ \A c \in Range(l), d \in free \ Range(l) :
               IF selection = "earliest" THEN c.start < d.start ELSE TurnBefore(free, c, d)
      BY <3>1, <3>2
    <3>4. Range(l) \subseteq free
      BY <3>3 DEF Range
    <3>. QED  BY <3>1, <3>3, <3>4 DEF selection, max
  <2>. HIDE DEF told, l
  <2>5. IsFiniteSet(free) /\ Cardinality(free) \in Nat
    BY <1>4, FS_CardinalityType DEF SlotsFit
  <2>6. Len(l) = IF q.max <= Cardinality(free) THEN q.max ELSE Cardinality(free)
    BY <1>5, <2>4, <2>5, MinOfTwo
  <2>7. told # free => Cardinality(free) > Len(l)
    <3>1. told # free => Cardinality(told) < Cardinality(free)
      BY <2>4, <2>5, FS_Subset
    <3>. QED  BY <2>4, <3>1
  <2>8. Cardinality(free) > Len(l) => told # free
    BY <1>5, <2>4, <2>5
  <2>9. Cardinality(free) > Len(l) => Cardinality(told) = q.max
    <3>1. Cardinality(told) = Len(l)
      BY <2>4
    <3>. QED  BY <1>5, <2>5, <2>6, <3>1
  <2>10. ASSUME NEW s \in told, NEW t \in free \ told
         PROVE  IF q.selection = "earliest" THEN s.start < t.start
                ELSE /\ s.day = t.day => s.start < t.start
                     /\ Cardinality(OfDay(told, s.day)) <= Cardinality(OfDay(told, t.day)) + 1
    <3>1. CASE q.selection = "earliest"
      BY <2>4, <3>1
    <3>2. CASE q.selection # "earliest"
      BY <1>4, <2>4, <3>2, TurnsAreFair DEF OfDay
    <3>. QED  BY <3>1, <3>2
  <2>11. open # {}
    BY <1>6, <1>9
  <2>. HIDE DEF OfDay
  <2>. QED  BY <1>9, <2>2, <2>4, <2>7, <2>8, <2>9, <2>10, <2>11 DEF Tells
<1>10. Tells(open, free, told, q, r)
  BY <1>8, <1>9
<1>. QED  BY <1>1, <1>2, <1>10 DEF TellsAll, r

(* An answer found without busy time, of a calendar nobody has looked at. *)
LEMMA FirstPassTells ==
  ASSUME NEW z, ZoneFits(z), NEW q, QueryFits(q), NEW at
  PROVE  TellsAll(z, q, at, {}, compute_slots(z, q, {}, at))
<1>1. BusyFits({})
  BY FS_EmptySet DEF BusyFits
<1>2. \A c \in Open(z, q, at) : ClearOf(c, {}, q.buffer) <=> \A e \in {} : Apart(c, e, q.buffer)
  BY DEF ClearOf
<1>. QED  BY <1>1, <1>2, EngineTells

(* And one of the calendar around the searched span. *)
LEMMA SecondPassTells ==
  ASSUME NEW z, ZoneFits(z), NEW q, QueryFits(q), NEW at, NEW events, BusyFits(events),
         compute_slots(z, q, {}, at).reason = "ok"
  PROVE  TellsAll(z, q, at, events, compute_slots(z, q, Around(z, q, at, events), at))
<1>. DEFINE busy == Around(z, q, at, events)
<1>1. BusyFits(busy)
  BY OfferIsGood
<1>2. busy \subseteq events
  BY DEF Around
<1>3. ASSUME NEW c \in Open(z, q, at), NEW e \in events, e \notin busy PROVE Apart(c, e, q.buffer)
  BY <1>3, ReadsEnough
<1>4. ASSUME NEW c \in Open(z, q, at), NEW e \in events
      PROVE  Apart(c, e, q.buffer) <=> ~(e.start - q.buffer < c.end /\ c.start < e.end + q.buffer)
  <2>1. LiesIn(z, q, c)
    BY OpenIs
  <2>2. /\ c.start \in Int /\ c.end \in Int /\ e.start \in Int /\ e.end \in Int
        /\ q.buffer \in Nat
    <3>1. c.start \in Int /\ c.end = c.start + q.duration /\ q.duration \in Nat
      BY <2>1 DEF LiesIn, QueryFits
    <3>. QED  BY <3>1 DEF BusyFits, QueryFits
  <2>. QED  BY <2>2 DEF Apart
<1>. HIDE DEF busy
<1>5. \A c \in Open(z, q, at) : ClearOf(c, busy, q.buffer) <=> \A e \in events : Apart(c, e, q.buffer)
  BY <1>2, <1>3, <1>4 DEF ClearOf
<1>6. TellsAll(z, q, at, events, compute_slots(z, q, busy, at))
  BY <1>1, <1>5, EngineTells
<1>. QED  BY <1>6 DEF busy

-----------------------------------------------------------------------------
(* 9. The ledger. *)

(* The inductive invariant. NoOverlap is not inductive by itself: that two *)
(* placed ranges are disjoint follows from each being held by one booker.  *)
SlotsInv == SlotsTypeOK /\ PlacedIsHeld

(* Cells are held by bookers or by nobody, whatever is taken, given up,    *)
(* placed or removed.                                                      *)
THEOREM SlotsTyped == SlotsSpec => []SlotsTypeOK
<1>1. SlotsInit => SlotsTypeOK
  BY DEF SlotsInit, SlotsTypeOK
<1>2. SlotsTypeOK /\ [SlotsNext]_slotVars => SlotsTypeOK'
  BY SlotsAssumption
     DEF SlotsTypeOK, SlotsNext, slotVars, Take, GiveUp, Place, Delete
<1>. QED  BY <1>1, <1>2, PTL DEF SlotsSpec

(* The range of a placed event stays held by its booker: no step gives up  *)
(* one of its cells, and nobody takes a cell that is held.                 *)
LEMMA SlotsStep == SlotsInv /\ [SlotsNext]_slotVars => PlacedIsHeld'
<1> SUFFICES ASSUME SlotsInv, [SlotsNext]_slotVars PROVE PlacedIsHeld'
  OBVIOUS
<1>. USE SlotsAssumption DEF SlotsInv, SlotsTypeOK, PlacedIsHeld
<1>1. ASSUME NEW b \in Booker, NEW c \in Slots, Take(b, c) PROVE PlacedIsHeld'
  BY <1>1 DEF Take
<1>2. ASSUME NEW b \in Booker, NEW c \in Slots, GiveUp(b, c) PROVE PlacedIsHeld'
  BY <1>2 DEF GiveUp
<1>3. ASSUME NEW b \in Booker, Place(b) PROVE PlacedIsHeld'
  BY <1>3 DEF Place
<1>4. ASSUME NEW b \in Booker, Delete(b) PROVE PlacedIsHeld'
  BY <1>4 DEF Delete
<1>5. CASE UNCHANGED slotVars
  BY <1>5 DEF slotVars
<1>. QED  BY <1>1, <1>2, <1>3, <1>4, <1>5 DEF SlotsNext

(* A placed event's range is held by its booker in every reachable state.  *)
THEOREM SlotsHeld == SlotsSpec => []PlacedIsHeld
<1>1. SlotsInit => PlacedIsHeld
  BY DEF SlotsInit, PlacedIsHeld
<1>2. SlotsTypeOK /\ PlacedIsHeld /\ [SlotsNext]_slotVars => PlacedIsHeld'
  BY SlotsStep DEF SlotsInv
<1>. QED  BY <1>1, <1>2, SlotsTyped, PTL DEF SlotsSpec

(* No two placed events have a cell in common. *)
THEOREM SlotsDisjoint == SlotsSpec => []NoOverlap
<1>1. SlotsTypeOK /\ PlacedIsHeld => NoOverlap
  BY SlotsAssumption DEF SlotsTypeOK, PlacedIsHeld, NoOverlap
<1>. QED  BY <1>1, SlotsTyped, SlotsHeld, PTL

-----------------------------------------------------------------------------
(* 10. Cells. *)

(* A time lies in the cell that starts at its floor. *)
LEMMA FloorOf ==
  ASSUME NEW t \in Int
  PROVE  \E k \in Int : floor5(t) = 5 * k /\ 5 * k <= t /\ t < 5 * k + 5
<1>1. t = 5 * (t \div 5) + (t % 5) /\ t \div 5 \in Int /\ t % 5 \in 0..4
  OBVIOUS
<1>2. floor5(t) = 5 * (t \div 5)
  BY <1>1 DEF floor5, CELL_MINUTES
<1>. QED  BY <1>1, <1>2

(* The ceiling of a time is the first cell boundary that is not before it. *)
LEMMA CeilOf ==
  ASSUME NEW t \in Int
  PROVE  \E k \in Int : ceil5(t) = 5 * k /\ t <= 5 * k /\ 5 * k < t + 5
<1>1. PICK k \in Int : floor5(t) = 5 * k /\ 5 * k <= t /\ t < 5 * k + 5
  BY FloorOf
<1>2. CASE floor5(t) = t
  BY <1>1, <1>2 DEF ceil5
<1>3. CASE floor5(t) # t
  <2>1. ceil5(t) = 5 * (k + 1)
    BY <1>1, <1>3 DEF ceil5, CELL_MINUTES
  <2>. QED  BY <1>1, <1>3, <2>1
<1>. QED  BY <1>2, <1>3

(* A buffer that was loaded is not negative: the loader refuses the whole  *)
(* document otherwise, and no caller would have a binding.                 *)
LEMMA BuffersAreNat ==
  ASSUME NEW b \in Booker
  PROVE  BufferOf(b) \in Nat
<1>. DEFINE id == BindingOf[b.caller]
<1>1. id \in DOMAIN Config
  BY AvailabilityAssumption
<1>2. ASSUME ~(\A d \in DOMAIN Document : Valid(Document[d])) PROVE FALSE
  <2>1. Config = <<>>
    BY <1>2 DEF Config, load_bindings
  <2>. QED  BY <1>1, <2>1
<1>3. Config = [d \in DOMAIN Document |-> _binding(Document[d])]
  BY <1>2 DEF Config, load_bindings
<1>4. id \in DOMAIN Document /\ Valid(Document[id]) /\ Config[id] = _binding(Document[id])
  BY <1>1, <1>2, <1>3
<1>5. "buffer" \in DOMAIN Document[id] /\ Document[id].buffer \in Int
  BY <1>4, AvailabilityAssumption DEF Typed
<1>6. Config[id].buffer = Document[id].buffer
  BY <1>4, <1>5 DEF _binding
<1>7. Document[id].buffer >= 0
  BY <1>4 DEF Valid, _multiple_of_five
<1>. QED  BY <1>5, <1>6, <1>7 DEF BufferOf

(* A booking's cells are the consecutive ones from the cell its start lies *)
(* in to the last one that begins before the end of its buffer.            *)
LEMMA RangeIs ==
  ASSUME NEW b \in Booker
  PROVE  \E lo, hi \in Int :
           /\ lo <= hi
           /\ 5 * lo <= b.start /\ b.start < 5 * lo + 5
           /\ 5 * hi < b.end + BufferOf(b) /\ b.end + BufferOf(b) <= 5 * hi + 5
           /\ RangeOf[b] = {5 * k : k \in lo..hi}
<1>1. b.start \in Int /\ b.end \in Int /\ b.start < b.end /\ BufferOf(b) \in Nat
  BY AvailabilityAssumption, BuffersAreNat
<1>. DEFINE until == b.end + BufferOf(b)
<1>2. PICK lo \in Int : floor5(b.start) = 5 * lo /\ 5 * lo <= b.start /\ b.start < 5 * lo + 5
  BY <1>1, FloorOf
<1>3. PICK top \in Int : ceil5(until) = 5 * top /\ until <= 5 * top /\ 5 * top < until + 5
  BY <1>1, CeilOf
<1>. DEFINE hi == top - 1
<1>4. lo <= hi
  BY <1>1, <1>2, <1>3
<1>5. (ceil5(until) - floor5(b.start)) \div CELL_MINUTES = hi - lo + 1
  BY <1>1, <1>2, <1>3 DEF CELL_MINUTES
<1>6. cell_range(b.start, b.end, BufferOf(b)) = {5 * lo + i * 5 : i \in 0..(hi - lo)}
  <2>1. (hi - lo + 1) - 1 = hi - lo
    BY <1>2, <1>3
  <2>. QED  BY <1>2, <1>5, <2>1 DEF cell_range, CELL_MINUTES
<1>7. {5 * lo + i * 5 : i \in 0..(hi - lo)} = {5 * k : k \in lo..hi}
  <2>1. ASSUME NEW i \in 0..(hi - lo) PROVE lo + i \in lo..hi /\ 5 * lo + i * 5 = 5 * (lo + i)
    BY <2>1, <1>2, <1>3
  <2>2. ASSUME NEW k \in lo..hi PROVE k - lo \in 0..(hi - lo) /\ 5 * k = 5 * lo + (k - lo) * 5
    BY <2>2, <1>2, <1>3
  <2>3. {5 * lo + i * 5 : i \in 0..(hi - lo)} \subseteq {5 * k : k \in lo..hi}
    BY <2>1
  <2>4. {5 * k : k \in lo..hi} \subseteq {5 * lo + i * 5 : i \in 0..(hi - lo)}
    BY <2>2
  <2>. QED  BY <2>3, <2>4
<1>8. RangeOf[b] = {5 * k : k \in lo..hi}
  BY <1>6, <1>7, AvailabilityAssumption
<1>9. hi \in Int /\ 5 * hi < b.end + BufferOf(b) /\ b.end + BufferOf(b) <= 5 * hi + 5
  BY <1>1, <1>3
<1>. HIDE DEF hi, until
<1>. QED  BY <1>2, <1>4, <1>8, <1>9

(* Claims start at the least cell, and stop at the greatest one: between   *)
(* them the next cell is five minutes on.                                  *)
LEMMA CellsInOrder ==
  ASSUME NEW b \in Booker
  PROVE  /\ RangeOf[b] \subseteq Int
         /\ Min(RangeOf[b]) \in RangeOf[b]
         /\ \A x \in RangeOf[b] : Min(RangeOf[b]) <= x
         /\ \A x \in RangeOf[b] : x <= Max(RangeOf[b])
         /\ \A x \in RangeOf[b] : x # Max(RangeOf[b]) =>
              /\ x + CELL_MINUTES \in RangeOf[b]
              /\ \A y \in RangeOf[b] : y < x + CELL_MINUTES => y <= x
<1>1. PICK lo, hi \in Int : lo <= hi /\ RangeOf[b] = {5 * k : k \in lo..hi}
  BY RangeIs
<1>2. RangeOf[b] \subseteq Int
  BY <1>1
<1>3. 5 * lo \in RangeOf[b] /\ \A x \in RangeOf[b] : 5 * lo <= x
  BY <1>1
<1>4. 5 * hi \in RangeOf[b] /\ \A x \in RangeOf[b] : x <= 5 * hi
  BY <1>1
<1>5. Min(RangeOf[b]) = 5 * lo
  BY <1>2, <1>3, MinIs
<1>6. Max(RangeOf[b]) = 5 * hi
  BY <1>2, <1>4, MaxIs
<1>7. ASSUME NEW x \in RangeOf[b], x # Max(RangeOf[b])
      PROVE  /\ x + CELL_MINUTES \in RangeOf[b]
             /\ \A y \in RangeOf[b] : y < x + CELL_MINUTES => y <= x
  <2>1. PICK k \in lo..hi : x = 5 * k
    BY <1>1
  <2>2. k # hi
    BY <1>6, <1>7, <2>1
  <2>3. k + 1 \in lo..hi /\ x + CELL_MINUTES = 5 * (k + 1)
    BY <2>1, <2>2, <1>1 DEF CELL_MINUTES
  <2>4. x + CELL_MINUTES \in RangeOf[b]
    BY <2>3, <1>1
  <2>5. ASSUME NEW y \in RangeOf[b], y < x + CELL_MINUTES PROVE y <= x
    <3>1. PICK j \in lo..hi : y = 5 * j
      BY <1>1
    <3>. QED  BY <2>1, <2>3, <2>5, <3>1
  <2>. QED  BY <2>4, <2>5
<1>. QED  BY <1>2, <1>3, <1>4, <1>5, <1>6, <1>7

(* Two bookings that are too close share a cell: the one that starts later *)
(* starts in a cell of the other.                                          *)
THEOREM TooCloseSharesACell ==
  ASSUME NEW b1 \in Booker, NEW b2 \in Booker,
         RangeOf[b1] \cap RangeOf[b2] = {}
  PROVE  b1.end + BufferOf(b1) <= b2.start \/ b2.end + BufferOf(b2) <= b1.start
<1>1. PICK lo1, hi1 \in Int :
        /\ lo1 <= hi1 /\ 5 * lo1 <= b1.start /\ b1.start < 5 * lo1 + 5
        /\ b1.end + BufferOf(b1) <= 5 * hi1 + 5
        /\ RangeOf[b1] = {5 * k : k \in lo1..hi1}
  BY RangeIs
<1>2. PICK lo2, hi2 \in Int :
        /\ lo2 <= hi2 /\ 5 * lo2 <= b2.start /\ b2.start < 5 * lo2 + 5
        /\ b2.end + BufferOf(b2) <= 5 * hi2 + 5
        /\ RangeOf[b2] = {5 * k : k \in lo2..hi2}
  BY RangeIs
<1>3. /\ b1.start \in Int /\ b1.end \in Int /\ BufferOf(b1) \in Nat
      /\ b2.start \in Int /\ b2.end \in Int /\ BufferOf(b2) \in Nat
  BY AvailabilityAssumption, BuffersAreNat
<1>4. lo2 \notin lo1..hi1
  <2>1. ASSUME lo2 \in lo1..hi1 PROVE FALSE
    <3>1. 5 * lo2 \in RangeOf[b1]
      BY <1>1, <2>1
    <3>2. 5 * lo2 \in RangeOf[b2]
      BY <1>2
    <3>. QED  BY <3>1, <3>2
  <2>. QED  BY <2>1
<1>5. lo1 \notin lo2..hi2
  <2>1. ASSUME lo1 \in lo2..hi2 PROVE FALSE
    <3>1. 5 * lo1 \in RangeOf[b2]
      BY <1>2, <2>1
    <3>2. 5 * lo1 \in RangeOf[b1]
      BY <1>1
    <3>. QED  BY <3>1, <3>2
  <2>. QED  BY <2>1
<1>6. lo2 > hi1 \/ lo1 > hi2
  BY <1>1, <1>2, <1>4, <1>5
<1>. QED  BY <1>1, <1>2, <1>3, <1>6

-----------------------------------------------------------------------------
(* 11. From the offer to the booking. *)

(* A request is a record of the fields of NoBook. *)
BookShape ==
  /\ DOMAIN book = Caller
  /\ \A c \in Caller : DOMAIN book[c] = DOMAIN NoBook

(* A request books for its own caller. *)
BooksForItself ==
  \A c \in Caller : book[c].pc \in {"keys", "checks", "busy", "claim", "create"} =>
    book[c].of \in Booker /\ book[c].of.caller = c

(* A request that claims holds the cells before the one it is at.          *)
ClaimsInOrder ==
  \A c \in Caller : book[c].pc = "claim" =>
    /\ book[c].at \in RangeOf[book[c].of]
    /\ \A x \in RangeOf[book[c].of] : x < book[c].at => holder[x] = book[c].of

(* A request that creates holds its whole range. *)
CreatesHoldAll ==
  \A c \in Caller : book[c].pc = "create" =>
    \A x \in RangeOf[book[c].of] : holder[x] = book[c].of

(* An event is placed by a request that is over: it gives up no more cells. *)
PlacedIsOver == \A b \in placed : book[b.caller].pc = "done"

(* The inductive invariant. That placed ranges are disjoint follows from   *)
(* PlacedIsHeld; the rest is what makes the place and release steps keep   *)
(* that: what a creator holds, and that nobody releases after placing.     *)
OffersInv ==
  /\ SlotsTypeOK /\ BookShape /\ BooksForItself /\ ClaimsInOrder /\ CreatesHoldAll
  /\ PlacedIsOver /\ PlacedIsHeld

(* The fields of a request. *)
LEMMA BookFields ==
  DOMAIN NoBook = {"pc", "verdict", "token", "start", "of", "at"}
BY DEF NoBook

(* An answer ends the request. *)
LEMMA OverIsDone ==
  ASSUME NEW b, NEW v
  PROVE  DOMAIN Over(b, v) = DOMAIN NoBook /\ Over(b, v).pc = "done"
BY DEF Over, NoBook

(* A step of one caller's request keeps the invariant if it leaves the     *)
(* cells of the others alone, if what it claims to hold is held, and if it *)
(* is over once its event is placed.                                       *)
LEMMA RequestStep ==
  ASSUME OffersInv, NEW c \in Caller, NEW r,
         DOMAIN r = DOMAIN NoBook,
         book' = [book EXCEPT ![c] = r],
         book[c].pc # "done",
         SlotsTypeOK',
         \A x \in Slots : holder[x] \in Booker /\ holder[x].caller # c => holder'[x] = holder[x],
         \A b \in placed' : b \in placed \/
            (b.caller = c /\ r.pc = "done" /\ \A x \in RangeOf[b] : holder'[x] = b),
         r.pc \in {"keys", "checks", "busy", "claim", "create"} =>
            r.of \in Booker /\ r.of.caller = c,
         r.pc = "claim" => /\ r.at \in RangeOf[r.of]
                           /\ \A x \in RangeOf[r.of] : x < r.at => holder'[x] = r.of,
         r.pc = "create" => \A x \in RangeOf[r.of] : holder'[x] = r.of
  PROVE  OffersInv'
<1>1. /\ SlotsTypeOK /\ BookShape /\ BooksForItself /\ ClaimsInOrder /\ CreatesHoldAll
      /\ PlacedIsOver /\ PlacedIsHeld
  BY DEF OffersInv
<1>2. book'[c] = r /\ \A d \in Caller : d # c => book'[d] = book[d]
  BY <1>1 DEF BookShape
<1>3. BookShape'
  BY <1>1, <1>2 DEF BookShape
<1>4. BooksForItself'
  BY <1>1, <1>2 DEF BooksForItself
<1>5. \A b \in Booker : b.caller \in Caller /\ RangeOf[b] \subseteq Slots
  BY SlotsAssumption, AvailabilityAssumption
<1>6. ASSUME NEW b \in Booker, b.caller # c, NEW x \in RangeOf[b], holder[x] = b
      PROVE  holder'[x] = b
  BY <1>5, <1>6
<1>7. ClaimsInOrder'
  <2>. SUFFICES ASSUME NEW d \in Caller, book'[d].pc = "claim"
                PROVE  /\ book'[d].at \in RangeOf[book'[d].of]
                       /\ \A x \in RangeOf[book'[d].of] :
                            x < book'[d].at => holder'[x] = book'[d].of
    BY DEF ClaimsInOrder
  <2>1. CASE d = c
    BY <2>1, <1>2
  <2>2. CASE d # c
    <3>1. book'[d] = book[d] /\ book[d].of \in Booker /\ book[d].of.caller = d
      BY <2>2, <1>1, <1>2 DEF BooksForItself
    <3>. QED  BY <3>1, <2>2, <1>1, <1>6 DEF ClaimsInOrder
  <2>. QED  BY <2>1, <2>2
<1>8. CreatesHoldAll'
  <2>. SUFFICES ASSUME NEW d \in Caller, book'[d].pc = "create",
                       NEW x \in RangeOf[book'[d].of]
                PROVE  holder'[x] = book'[d].of
    BY DEF CreatesHoldAll
  <2>1. CASE d = c
    BY <2>1, <1>2
  <2>2. CASE d # c
    <3>1. book'[d] = book[d] /\ book[d].of \in Booker /\ book[d].of.caller = d
      BY <2>2, <1>1, <1>2 DEF BooksForItself
    <3>. QED  BY <3>1, <2>2, <1>1, <1>6 DEF CreatesHoldAll
  <2>. QED  BY <2>1, <2>2
<1>9. \A b \in placed : b \in Booker /\ b.caller \in Caller /\ b.caller # c
  BY <1>1, <1>5 DEF SlotsTypeOK, PlacedIsOver
<1>10. PlacedIsOver'
  BY <1>1, <1>2, <1>9 DEF PlacedIsOver
<1>11. PlacedIsHeld'
  BY <1>1, <1>6, <1>9 DEF PlacedIsHeld
<1>. QED  BY <1>3, <1>4, <1>7, <1>8, <1>10, <1>11 DEF OffersInv

(* Whatever leaves requests and ledger alone keeps the invariant. *)
LEMMA NothingClaimed ==
  ASSUME OffersInv, UNCHANGED <<holder, placed, book>>
  PROVE  OffersInv'
BY DEF OffersInv, SlotsTypeOK, BookShape, BooksForItself, ClaimsInOrder, CreatesHoldAll,
       PlacedIsOver, PlacedIsHeld

(* Choosing an offer starts a request for a booking of the caller's own. *)
LEMMA Chosen ==
  ASSUME NEW c, Choose(c)
  PROVE  \E t, b, s :
           /\ b \in BookingOf(c, t)
           /\ book' = [book EXCEPT ![c] =
                [NoBook EXCEPT !.pc = "keys", !.token = t, !.of = b, !.start = s]]
<1>1. PICK d \in Caller : \E k \in DOMAIN ask[d].tokens :
        LET token == ask[d].tokens[k]
        IN  \E sent \in {token, Garbled(token)} : \E b \in BookingOf(c, sent) :
              /\ d = c \/ sent = token
              /\ c \in Faulty \/ (d = c /\ sent = token)
              /\ book' = [book EXCEPT ![c] =
                   [NoBook EXCEPT !.pc = "keys", !.token = sent, !.of = b,
                      !.start = _parse_start(Wall(zone, token.start))]]
              /\ ask' = [ask EXCEPT ![c] = [Ended("none") EXCEPT !.tokens = ask[c].tokens]]
  BY DEF Choose
<1>2. PICK k \in DOMAIN ask[d].tokens :
        LET token == ask[d].tokens[k]
        IN  \E sent \in {token, Garbled(token)} : \E b \in BookingOf(c, sent) :
              /\ d = c \/ sent = token
              /\ c \in Faulty \/ (d = c /\ sent = token)
              /\ book' = [book EXCEPT ![c] =
                   [NoBook EXCEPT !.pc = "keys", !.token = sent, !.of = b,
                      !.start = _parse_start(Wall(zone, token.start))]]
              /\ ask' = [ask EXCEPT ![c] = [Ended("none") EXCEPT !.tokens = ask[c].tokens]]
  BY <1>1
<1>. DEFINE token == ask[d].tokens[k]
            begin == _parse_start(Wall(zone, token.start))
<1>3. PICK sent \in {token, Garbled(token)} : \E b \in BookingOf(c, sent) :
        book' = [book EXCEPT ![c] =
          [NoBook EXCEPT !.pc = "keys", !.token = sent, !.of = b, !.start = begin]]
  BY <1>2
<1>4. PICK b \in BookingOf(c, sent) :
        book' = [book EXCEPT ![c] =
          [NoBook EXCEPT !.pc = "keys", !.token = sent, !.of = b, !.start = begin]]
  BY <1>3
<1>. HIDE DEF token, begin
<1>. QED  BY <1>4

(* Choosing claims nothing yet. *)
LEMMA ChooseStep ==
  ASSUME OffersInv, NEW c \in Caller, Choose(c)
  PROVE  OffersInv'
<1>1. PICK t, b, s :
        /\ b \in BookingOf(c, t)
        /\ book' = [book EXCEPT ![c] =
             [NoBook EXCEPT !.pc = "keys", !.token = t, !.of = b, !.start = s]]
  BY Chosen
<1>. DEFINE r == [NoBook EXCEPT !.pc = "keys", !.token = t, !.of = b, !.start = s]
<1>2. b \in Booker /\ b.caller = c
  BY <1>1 DEF BookingOf
<1>3. DOMAIN r = DOMAIN NoBook /\ r.pc = "keys" /\ r.of = b
  BY DEF NoBook
<1>4. book[c].pc # "done" /\ UNCHANGED <<holder, placed>>
  BY DEF Choose
<1>5. SlotsTypeOK'
  BY <1>4 DEF OffersInv, SlotsTypeOK
<1>. HIDE DEF r
<1>6. book' = [book EXCEPT ![c] = r]
  BY <1>1 DEF r
<1>. QED  BY <1>2, <1>3, <1>4, <1>5, <1>6, RequestStep

(* A step that only moves a request on, to a point where it claims to hold *)
(* nothing, or ends it.                                                    *)
LEMMA MovesOn ==
  ASSUME OffersInv, NEW c \in Caller, NEW r,
         book' = [book EXCEPT ![c] = r], UNCHANGED <<holder, placed>>,
         book[c].pc \in {"keys", "checks", "busy"},
         DOMAIN r = DOMAIN NoBook,
         r.pc = "done" \/ (r.pc \in {"checks", "busy"} /\ r.of = book[c].of)
  PROVE  OffersInv'
<1>1. book[c].of \in Booker /\ book[c].of.caller = c
  BY DEF OffersInv, BooksForItself
<1>2. SlotsTypeOK'
  BY DEF OffersInv, SlotsTypeOK
<1>. QED  BY <1>1, <1>2, RequestStep

(* Step 1. *)
LEMMA ValidateStep ==
  ASSUME OffersInv, NEW c \in Caller, _step1_validate(c)
  PROVE  OffersInv'
<1>1. book[c].pc = "keys" /\ UNCHANGED <<holder, placed>>
  BY DEF _step1_validate
<1>2. DOMAIN book[c] = DOMAIN NoBook
  BY DEF OffersInv, BookShape
<1>3. PICK v : \/ book' = [book EXCEPT ![c] = IF v = "ok" THEN [@ EXCEPT !.pc = "checks"]
                                              ELSE Over(@, v)]
               \/ book' = [book EXCEPT ![c] = Over(@, "calendar_unavailable")]
  BY DEF _step1_validate
<1>4. PICK r : /\ book' = [book EXCEPT ![c] = r]
               /\ r = [book[c] EXCEPT !.pc = "checks"] \/ \E u : r = Over(book[c], u)
  <2>1. c \in DOMAIN book
    BY DEF OffersInv, BookShape
  <2>. QED  BY <1>3, <2>1
<1>5. DOMAIN r = DOMAIN NoBook /\ (r.pc = "done" \/ (r.pc = "checks" /\ r.of = book[c].of))
  BY <1>2, <1>4, OverIsDone, BookFields
<1>. QED  BY <1>1, <1>4, <1>5, MovesOn

(* Step 4. *)
LEMMA TimeChecksStep ==
  ASSUME OffersInv, NEW c \in Caller, _step4_time_checks(c)
  PROVE  OffersInv'
<1>1. book[c].pc = "checks" /\ UNCHANGED <<holder, placed>>
  BY DEF _step4_time_checks
<1>2. DOMAIN book[c] = DOMAIN NoBook /\ c \in DOMAIN book
  BY DEF OffersInv, BookShape
<1>3. PICK r : /\ book' = [book EXCEPT ![c] = r]
               /\ r = [book[c] EXCEPT !.pc = "busy"] \/ \E u : r = Over(book[c], u)
  BY <1>2 DEF _step4_time_checks
<1>4. DOMAIN r = DOMAIN NoBook /\ (r.pc = "done" \/ (r.pc = "busy" /\ r.of = book[c].of))
  BY <1>2, <1>3, OverIsDone, BookFields
<1>. QED  BY <1>1, <1>3, <1>4, MovesOn

(* Step 5: the first cell to claim is the least one. *)
LEMMA RecheckStep ==
  ASSUME OffersInv, NEW c \in Caller, _step5_recheck(c)
  PROVE  OffersInv'
<1>1. book[c].pc = "busy" /\ UNCHANGED <<holder, placed>>
  BY DEF _step5_recheck
<1>2. DOMAIN book[c] = DOMAIN NoBook /\ c \in DOMAIN book
  BY DEF OffersInv, BookShape
<1>. DEFINE b == book[c].of
<1>3. b \in Booker /\ b.caller = c
  BY <1>1 DEF OffersInv, BooksForItself
<1>4. PICK r : /\ book' = [book EXCEPT ![c] = r]
               /\ \/ r = [book[c] EXCEPT !.pc = "claim", !.at = Min(RangeOf[b])]
                  \/ \E u : r = Over(book[c], u)
  BY <1>2 DEF _step5_recheck
<1>5. CASE \E u : r = Over(book[c], u)
  <2>1. DOMAIN r = DOMAIN NoBook /\ r.pc = "done"
    BY <1>5, OverIsDone
  <2>. QED  BY <1>1, <1>4, <2>1, MovesOn
<1>6. CASE r = [book[c] EXCEPT !.pc = "claim", !.at = Min(RangeOf[b])]
  <2>1. DOMAIN r = DOMAIN NoBook /\ r.pc = "claim" /\ r.of = b /\ r.at = Min(RangeOf[b])
    BY <1>2, <1>6, BookFields
  <2>2. RangeOf[b] \subseteq Int /\ r.at \in RangeOf[b] /\ \A x \in RangeOf[b] : ~(x < r.at)
    BY <2>1, <1>3, CellsInOrder
  <2>3. SlotsTypeOK'
    BY <1>1 DEF OffersInv, SlotsTypeOK
  <2>. QED  BY <1>1, <1>3, <1>4, <2>1, <2>2, <2>3, RequestStep
<1>. QED  BY <1>4, <1>5, <1>6

(* Step 6: a cell is taken only from nobody; what is given back is the     *)
(* request's own.                                                          *)
LEMMA ClaimStep ==
  ASSUME OffersInv, NEW c \in Caller, _step6_claim(c)
  PROVE  OffersInv'
<1>. DEFINE b == book[c].of
            cell == book[c].at
<1>1. book[c].pc = "claim"
  BY DEF _step6_claim
<1>2. DOMAIN book[c] = DOMAIN NoBook /\ c \in DOMAIN book
  BY DEF OffersInv, BookShape
<1>3. b \in Booker /\ b.caller = c
  BY <1>1 DEF OffersInv, BooksForItself
<1>4. cell \in RangeOf[b] /\ \A x \in RangeOf[b] : x < cell => holder[x] = b
  BY <1>1 DEF OffersInv, ClaimsInOrder
<1>5. RangeOf[b] \subseteq Slots /\ RangeOf[b] \subseteq Int
  BY <1>3, SlotsAssumption, CellsInOrder
<1>6. SlotsTypeOK /\ Nobody \notin Booker
  BY SlotsAssumption DEF OffersInv
<1>7. CASE /\ Take(b, cell)
           /\ book' = [book EXCEPT ![c] =
                IF cell = Max(RangeOf[b]) THEN [@ EXCEPT !.pc = "create"]
                ELSE [@ EXCEPT !.at = cell + CELL_MINUTES]]
  <2>1. holder' = [holder EXCEPT ![cell] = b] /\ placed' = placed /\ holder[cell] = Nobody
    BY <1>7 DEF Take
  <2>2. SlotsTypeOK'
    BY <2>1, <1>3, <1>6 DEF SlotsTypeOK
  <2>3. holder'[cell] = b /\ \A x \in Slots : x # cell => holder'[x] = holder[x]
    BY <2>1, <1>4, <1>5, <1>6 DEF SlotsTypeOK
  <2>4. \A x \in Slots : holder[x] \in Booker => holder'[x] = holder[x]
    BY <2>1, <2>3, <1>6
  <2>5. PICK r : /\ book' = [book EXCEPT ![c] = r]
                 /\ r = IF cell = Max(RangeOf[b]) THEN [book[c] EXCEPT !.pc = "create"]
                        ELSE [book[c] EXCEPT !.at = cell + CELL_MINUTES]
    BY <1>2, <1>7
  <2>6. CASE cell = Max(RangeOf[b])
    <3>1. DOMAIN r = DOMAIN NoBook /\ r.pc = "create" /\ r.of = b
      BY <1>2, <2>5, <2>6, BookFields
    <3>2. \A x \in RangeOf[b] : x <= cell
      BY <1>3, <2>6, CellsInOrder
    <3>3. \A x \in RangeOf[b] : x = cell \/ x < cell
      BY <3>2, <1>4, <1>5
    <3>4. \A x \in RangeOf[b] : holder'[x] = b
      BY <3>3, <1>3, <1>4, <1>5, <2>3
    <3>. QED  BY <1>1, <1>3, <2>1, <2>2, <2>4, <2>5, <3>1, <3>4, RequestStep
  <2>7. CASE cell # Max(RangeOf[b])
    <3>1. DOMAIN r = DOMAIN NoBook /\ r.pc = "claim" /\ r.of = b /\ r.at = cell + CELL_MINUTES
      BY <1>1, <1>2, <2>5, <2>7, BookFields
    <3>2. /\ cell + CELL_MINUTES \in RangeOf[b]
          /\ \A x \in RangeOf[b] : x < cell + CELL_MINUTES => x <= cell
      BY <1>3, <1>4, <2>7, CellsInOrder
    <3>3. \A x \in RangeOf[b] : x < cell + CELL_MINUTES => x = cell \/ x < cell
      BY <3>2, <1>4, <1>5
    <3>4. \A x \in RangeOf[b] : x < cell + CELL_MINUTES => holder'[x] = b
      BY <3>3, <1>3, <1>4, <1>5, <2>3
    <3>5. r.at \in RangeOf[r.of] /\ \A x \in RangeOf[r.of] : x < r.at => holder'[x] = r.of
      BY <3>1, <3>2, <3>4
    <3>6. book' = [book EXCEPT ![c] = r]
      BY <2>5
    <3>7. r.of \in Booker /\ r.of.caller = c /\ placed' = placed /\ book[c].pc # "done"
      BY <1>1, <1>3, <2>1, <3>1
    <3>8. \A x \in Slots : holder[x] \in Booker /\ holder[x].caller # c => holder'[x] = holder[x]
      BY <2>4
    <3>. HIDE DEF b, cell
    <3>. QED  BY <2>2, <3>1, <3>5, <3>6, <3>7, <3>8, RequestStep
  <2>. QED  BY <2>6, <2>7
<1>8. CASE /\ holder' = [x \in Slots |-> IF holder[x] = b THEN Nobody ELSE holder[x]]
           /\ book' = [book EXCEPT ![c] = Over(@, "taken")]
           /\ UNCHANGED placed
  <2>1. SlotsTypeOK'
    BY <1>6, <1>8 DEF SlotsTypeOK
  <2>2. \A x \in Slots : holder[x] \in Booker /\ holder[x].caller # c => holder'[x] = holder[x]
    BY <1>3, <1>8
  <2>3. PICK r : book' = [book EXCEPT ![c] = r] /\ r = Over(book[c], "taken")
    BY <1>2, <1>8
  <2>4. DOMAIN r = DOMAIN NoBook /\ r.pc = "done"
    BY <2>3, OverIsDone
  <2>. QED  BY <1>1, <1>8, <2>1, <2>2, <2>3, <2>4, RequestStep
<1>. QED  BY <1>7, <1>8 DEF _step6_claim

(* Step 7: the event of a request that holds its range. *)
LEMMA CreateStep ==
  ASSUME OffersInv, NEW c \in Caller, _step7_create(c)
  PROVE  OffersInv'
<1>. DEFINE b == book[c].of
<1>1. book[c].pc = "create" /\ holder' = holder /\ placed' = placed \cup {b}
  BY DEF _step7_create
<1>2. DOMAIN book[c] = DOMAIN NoBook /\ c \in DOMAIN book
  BY DEF OffersInv, BookShape
<1>3. b \in Booker /\ b.caller = c
  BY <1>1 DEF OffersInv, BooksForItself
<1>4. \A x \in RangeOf[b] : holder[x] = b
  BY <1>1 DEF OffersInv, CreatesHoldAll
<1>5. PICK r : book' = [book EXCEPT ![c] = r] /\ \E u : r = Over(book[c], u)
  BY <1>2 DEF _step7_create
<1>6. DOMAIN r = DOMAIN NoBook /\ r.pc = "done"
  BY <1>5, OverIsDone
<1>7. SlotsTypeOK'
  BY <1>1, <1>3 DEF OffersInv, SlotsTypeOK
<1>8. /\ \A x \in Slots : holder[x] \in Booker /\ holder[x].caller # c => holder'[x] = holder[x]
      /\ \A e \in placed' : e \in placed \/
           (e.caller = c /\ r.pc = "done" /\ \A x \in RangeOf[e] : holder'[x] = e)
  BY <1>1, <1>3, <1>4, <1>6
<1>9. book' = [book EXCEPT ![c] = r] /\ book[c].pc # "done"
  BY <1>1, <1>5
<1>. HIDE DEF b
<1>. QED  BY <1>6, <1>7, <1>8, <1>9, RequestStep

(* OffersInv holds whatever the two callers' steps and the surroundings do. *)
THEOREM OffersHold == Spec => []OffersInv
<1>1. Init => OffersInv
  <2>. SUFFICES ASSUME Init PROVE OffersInv
    OBVIOUS
  <2>1. SlotsTypeOK /\ placed = {}
    BY DEF Init, SlotsInit, SlotsTypeOK
  <2>2. book = [c \in Caller |-> NoBook] /\ NoBook.pc = "idle"
    BY DEF Init, NoBook
  <2>. QED  BY <2>1, <2>2 DEF OffersInv, BookShape, BooksForItself, ClaimsInOrder, CreatesHoldAll,
                              PlacedIsOver, PlacedIsHeld
<1>2. OffersInv /\ [Next]_offersVars => OffersInv'
  <2>. SUFFICES ASSUME OffersInv, [Next]_offersVars PROVE OffersInv'
    OBVIOUS
  <2>1. CASE UNCHANGED <<holder, placed, book>>
    BY <2>1, NothingClaimed
  <2>2. ASSUME NEW c \in Caller, book_appointment(c) PROVE OffersInv'
    BY <2>2, ChooseStep, ValidateStep, TimeChecksStep, RecheckStep, ClaimStep, CreateStep
       DEF book_appointment
  <2>. QED  BY <2>1, <2>2 DEF Next, offersVars
<1>. QED  BY <1>1, <1>2, PTL DEF Spec

(* Any two events this service places are apart by the buffer of the       *)
(* earlier one (core/identity.py, core/booking.py steps 5 to 7): each      *)
(* holds all its cells, so their ranges are disjoint.                      *)
THEOREM BookingsApart == Spec => []BookedTimesApart
<1>1. OffersInv => BookedTimesApart
  <2>. SUFFICES ASSUME OffersInv, NEW b1 \in placed, NEW b2 \in placed, b1 # b2
                PROVE  b1.end + BufferOf(b1) <= b2.start \/ b2.end + BufferOf(b2) <= b1.start
    BY DEF BookedTimesApart
  <2>1. b1 \in Booker /\ b2 \in Booker
    BY DEF OffersInv, SlotsTypeOK
  <2>2. RangeOf[b1] \cap RangeOf[b2] = {}
    BY DEF OffersInv, PlacedIsHeld
  <2>. QED  BY <2>1, <2>2, TooCloseSharesACell
<1>. QED  BY <1>1, OffersHold, PTL

(* The ledger's invariants in this composition as well: what is placed is  *)
(* held, and no two placed events have a cell in common.                   *)
THEOREM OffersKeepLedger == Spec => [](PlacedIsHeld /\ NoOverlap)
<1>1. OffersInv => PlacedIsHeld /\ NoOverlap
  BY DEF OffersInv, SlotsTypeOK, PlacedIsHeld, NoOverlap
<1>. QED  BY <1>1, OffersHold, PTL

-----------------------------------------------------------------------------
(* 12. Types. *)

(* A record of the fields of NoAsk, in a place of check_availability.      *)
AskTyped(a) ==
  /\ DOMAIN a = DOMAIN NoAsk
  /\ a.pc \in {"idle", "keys", "busy", "answered"}
  /\ a.status \in Statuses

(* A booking request is at one of its steps. *)
BookTyped(b) == b.pc \in Waiting /\ b.verdict \in Verdicts

(* The parts of the type invariant, by the variables they are about.       *)
SurroundingsTyped ==
  /\ zone \in Zone /\ now \in Times /\ host \in HostEdits \cup {{}}
  /\ keys.current \in Nat \ {0} /\ keys.previous = keys.current - 1

(* Every request is. *)
AsksTyped == DOMAIN ask = Caller /\ \A c \in Caller : AskTyped(ask[c])

(* And every booking. *)
BooksTyped == \A c \in Caller : BookTyped(book[c])

(* A cell is held only by a booking whose range has it.                    *)
HeldIsNeeded == \A x \in Slots : holder[x] # Nobody => x \in RangeOf[holder[x]]

(* What OffersTypeOK says, in parts that the proof can take up one by one. *)
OffersTypedInv == SurroundingsTyped /\ AsksTyped /\ BooksTyped /\ HeldIsNeeded

(* The fields of an availability request. *)
LEMMA AskFields ==
  DOMAIN NoAsk = {"pc", "body", "at", "keys", "seen", "status", "result", "tokens"}
BY DEF NoAsk

(* An answer that ends the request. *)
LEMMA EndedIs ==
  ASSUME NEW s
  PROVE  DOMAIN Ended(s) = DOMAIN NoAsk /\ Ended(s).pc = "answered" /\ Ended(s).status = s
BY DEF Ended, NoAsk

(* The other fields of an answer do not change that it is one. *)
LEMMA EndedWith ==
  ASSUME NEW s \in Statuses, NEW f, NEW g, NEW h
  PROVE  /\ AskTyped(Ended(s))
         /\ AskTyped([Ended(s) EXCEPT !.tokens = f])
         /\ AskTyped([Ended(s) EXCEPT !.body = f, !.at = g, !.result = h])
         /\ AskTyped([NoAsk EXCEPT !.pc = "keys", !.body = f, !.at = g, !.result = h])
<1>1. DOMAIN Ended(s) = DOMAIN NoAsk /\ Ended(s).pc = "answered" /\ Ended(s).status = s
  BY EndedIs
<1>2. AskTyped(Ended(s))
  BY <1>1 DEF AskTyped
<1>3. AskTyped([Ended(s) EXCEPT !.tokens = f])
  BY <1>1, AskFields DEF AskTyped
<1>4. AskTyped([Ended(s) EXCEPT !.body = f, !.at = g, !.result = h])
  BY <1>1, AskFields DEF AskTyped
<1>5. AskTyped([NoAsk EXCEPT !.pc = "keys", !.body = f, !.at = g, !.result = h])
  BY DEF AskTyped, NoAsk, Statuses
<1>. QED  BY <1>2, <1>3, <1>4, <1>5

(* One request's step. *)
LEMMA AskStep ==
  ASSUME AsksTyped, NEW c \in Caller, NEW r, AskTyped(r), ask' = [ask EXCEPT ![c] = r]
  PROVE  AsksTyped'
BY DEF AsksTyped

(* The slots offered, or an answer that there are none. *)
LEMMA OfferedTyped ==
  ASSUME NEW c, NEW busy, NEW a, AskTyped(a)
  PROVE  AskTyped(Offered(a, c, busy))
<1>. DEFINE cfg      == Config[BindingOf[c]]
            result   == compute_slots(zone, QueryOf(a, c), busy, a.at)
            good     == InTimeOrder({slot \in Range(result.slots) : Issuable(slot)})
            Token(slot) == issue(a.keys, BindingOf[c], slot, a.at + cfg.ttl)
            tokens   == [k \in DOMAIN good |-> Token(good[k])]
            status   == IF result.reason = "ok" THEN "available" ELSE "no_availability"
            answer   == [a EXCEPT !.pc = "answered", !.keys = <<>>, !.seen = Events,
                           !.result = result, !.status = status, !.tokens = tokens]
<1>1. Offered(a, c, busy) =
        IF result.reason = "ok" /\ good = <<>> THEN Ended("calendar_unavailable") ELSE answer
  BY DEF Offered
<1>2. AskTyped(Ended("calendar_unavailable"))
  BY EndedWith DEF Statuses
<1>3. status \in Statuses
  BY DEF Statuses
<1>. HIDE DEF result, good, tokens, status
<1>4. AskTyped(answer)
  BY <1>3, AskFields DEF AskTyped
<1>. QED  BY <1>1, <1>2, <1>4

(* check_availability. *)
LEMMA AvailabilityTyped ==
  ASSUME OffersTypedInv, NEW c \in Caller, check_availability(c)
  PROVE  AsksTyped'
<1>1. AsksTyped /\ AskTyped(ask[c]) /\ c \in DOMAIN ask
  BY DEF OffersTypedInv, AsksTyped
<1>2. CASE Ask(c)
  <2>1. PICK body \in BodyOf[c] :
        LET cfg    == Config[BindingOf[c]]
            q      == Query(cfg, body, now)
            result == compute_slots(zone, q, {}, now)
        IN  ask' = [ask EXCEPT ![c] =
             IF Invalid(cfg, body, DateOf(zone, now)) THEN Ended("invalid_request")
             ELSE IF result.reason # "ok"
             THEN [Ended("no_availability") EXCEPT !.body = body, !.at = now, !.result = result]
             ELSE [NoAsk EXCEPT !.pc = "keys", !.body = body, !.at = now, !.result = result]]
    BY <1>2 DEF Ask
  <2>. DEFINE cfg    == Config[BindingOf[c]]
              q      == Query(cfg, body, now)
              result == compute_slots(zone, q, {}, now)
              r == IF Invalid(cfg, body, DateOf(zone, now)) THEN Ended("invalid_request")
             ELSE IF result.reason # "ok"
             THEN [Ended("no_availability") EXCEPT !.body = body, !.at = now, !.result = result]
             ELSE [NoAsk EXCEPT !.pc = "keys", !.body = body, !.at = now, !.result = result]
  <2>2. ask' = [ask EXCEPT ![c] = r]
    BY <2>1
  <2>. HIDE DEF result
  <2>3. AskTyped(r)
    BY EndedWith DEF Statuses
  <2>. HIDE DEF r
  <2>. QED  BY <1>1, <2>2, <2>3, AskStep
<1>3. CASE _load_keys(c)
  <2>. DEFINE r == [ask[c] EXCEPT !.pc = "busy", !.keys = keys]
  <2>1. ask' = [ask EXCEPT ![c] = r] \/ ask' = [ask EXCEPT ![c] = Ended("calendar_unavailable")]
    BY <1>3 DEF _load_keys
  <2>2. AskTyped(r)
    BY <1>1, AskFields DEF AskTyped
  <2>3. AskTyped(Ended("calendar_unavailable"))
    BY EndedWith DEF Statuses
  <2>. HIDE DEF r
  <2>. QED  BY <1>1, <2>1, <2>2, <2>3, AskStep
<1>4. CASE _get_busy(c)
  <2>1. \/ \E busy : ask' = [ask EXCEPT ![c] = Offered(ask[c], c, busy)]
        \/ ask' = [ask EXCEPT ![c] = Ended("calendar_unavailable")]
    BY <1>4 DEF _get_busy
  <2>2. \A busy : AskTyped(Offered(ask[c], c, busy))
    BY <1>1, OfferedTyped
  <2>3. AskTyped(Ended("calendar_unavailable"))
    BY EndedWith DEF Statuses
  <2>. QED  BY <1>1, <2>1, <2>2, <2>3, AskStep
<1>. QED  BY <1>2, <1>3, <1>4 DEF check_availability

(* One booking request's step. *)
LEMMA BookStep ==
  ASSUME BooksTyped, BookShape, NEW c \in Caller, NEW r, BookTyped(r),
         book' = [book EXCEPT ![c] = r]
  PROVE  BooksTyped'
BY DEF BooksTyped, BookShape

(* An answer is one of the tool's. *)
LEMMA OverTyped ==
  ASSUME NEW b, NEW v \in Verdicts
  PROVE  BookTyped(Over(b, v))
BY DEF Over, NoBook, BookTyped, Waiting

(* A request that moves on keeps its verdict. *)
LEMMA MovedTyped ==
  ASSUME NEW b, BookTyped(b), DOMAIN b = DOMAIN NoBook, NEW r,
         \/ \E p \in Waiting : r = [b EXCEPT !.pc = p]
         \/ \E x : r = [b EXCEPT !.at = x]
         \/ \E p \in Waiting : \E x : r = [b EXCEPT !.pc = p, !.at = x]
         \/ \E v \in Verdicts : r = Over(b, v)
  PROVE  BookTyped(r)
<1>1. ASSUME NEW p \in Waiting, r = [b EXCEPT !.pc = p] PROVE BookTyped(r)
  BY <1>1, BookFields DEF BookTyped
<1>2. ASSUME NEW x, r = [b EXCEPT !.at = x] PROVE BookTyped(r)
  BY <1>2, BookFields DEF BookTyped
<1>3. ASSUME NEW p \in Waiting, NEW x, r = [b EXCEPT !.pc = p, !.at = x] PROVE BookTyped(r)
  BY <1>3, BookFields DEF BookTyped
<1>4. ASSUME NEW v \in Verdicts, r = Over(b, v) PROVE BookTyped(r)
  BY <1>4, OverTyped
<1>. QED  BY <1>1, <1>2, <1>3, <1>4, Zenon

(* book_appointment. *)
LEMMA AppointmentTyped ==
  ASSUME OffersTypedInv, OffersInv, NEW c \in Caller, book_appointment(c)
  PROVE  OffersTypedInv'
<1>1. BooksTyped /\ BookShape /\ BookTyped(book[c]) /\ c \in DOMAIN book
      /\ DOMAIN book[c] = DOMAIN NoBook
  BY DEF OffersTypedInv, OffersInv, BooksTyped, BookShape
<1>2. UNCHANGED <<zone, now, host, keys>>
  BY DEF book_appointment, Choose, _step1_validate, _step4_time_checks, _step5_recheck,
         _step6_claim, _step7_create
<1>3. SurroundingsTyped'
  BY <1>2 DEF OffersTypedInv, SurroundingsTyped
<1>4. AsksTyped'
  <2>1. CASE Choose(c)
    <3>1. \E r : ask' = [ask EXCEPT ![c] = [Ended("none") EXCEPT !.tokens = r]]
      BY <2>1 DEF Choose
    <3>. QED  BY <3>1, EndedWith, AskStep DEF OffersTypedInv, Statuses
  <2>2. CASE ~Choose(c)
    <3>1. ask' = ask
      BY <2>2 DEF book_appointment, _step1_validate, _step4_time_checks, _step5_recheck,
         _step6_claim, _step7_create
    <3>. QED  BY <3>1 DEF OffersTypedInv, AsksTyped
  <2>. QED  BY <2>1, <2>2
<1>5. BooksTyped'
  <2>1. CASE Choose(c)
    <3>1. PICK t, b, s :
            /\ b \in BookingOf(c, t)
            /\ book' = [book EXCEPT ![c] =
                 [NoBook EXCEPT !.pc = "keys", !.token = t, !.of = b, !.start = s]]
      BY <2>1, Chosen
    <3>2. BookTyped([NoBook EXCEPT !.pc = "keys", !.token = t, !.of = b, !.start = s])
      BY DEF BookTyped, NoBook, Waiting, Verdicts
    <3>. QED  BY <1>1, <3>1, <3>2, BookStep
  <2>2. CASE _step1_validate(c)
    <3>1. PICK r : /\ book' = [book EXCEPT ![c] = r]
                   /\ \/ \E p \in Waiting : r = [book[c] EXCEPT !.pc = p]
                      \/ \E v \in Verdicts : r = Over(book[c], v)
      BY <1>1, <2>2 DEF _step1_validate, verify, Verdicts, Waiting
    <3>2. BookTyped(r)
      BY <1>1, <3>1, MovedTyped
    <3>. QED  BY <1>1, <3>1, <3>2, BookStep
  <2>3. CASE _step4_time_checks(c)
    <3>0. TimeChecks(c) \in Verdicts \cup {"ok"}
      BY DEF TimeChecks, Verdicts
    <3>1. PICK r : /\ book' = [book EXCEPT ![c] = r]
                   /\ \/ \E p \in Waiting : r = [book[c] EXCEPT !.pc = p]
                      \/ \E v \in Verdicts : r = Over(book[c], v)
      BY <1>1, <2>3, <3>0 DEF _step4_time_checks, Waiting
    <3>2. BookTyped(r)
      BY <1>1, <3>1, MovedTyped
    <3>. QED  BY <1>1, <3>1, <3>2, BookStep
  <2>4. CASE _step5_recheck(c)
    <3>1. PICK r : /\ book' = [book EXCEPT ![c] = r]
                   /\ \/ \E p \in Waiting : \E x : r = [book[c] EXCEPT !.pc = p, !.at = x]
                      \/ \E v \in Verdicts : r = Over(book[c], v)
      BY <1>1, <2>4 DEF _step5_recheck, Verdicts, Waiting
    <3>2. BookTyped(r)
      BY <1>1, <3>1, MovedTyped
    <3>. QED  BY <1>1, <3>1, <3>2, BookStep
  <2>5. CASE _step6_claim(c)
    <3>1. PICK r : /\ book' = [book EXCEPT ![c] = r]
                   /\ \/ \E p \in Waiting : r = [book[c] EXCEPT !.pc = p]
                      \/ \E x : r = [book[c] EXCEPT !.at = x]
                      \/ \E v \in Verdicts : r = Over(book[c], v)
      BY <1>1, <2>5 DEF _step6_claim, Verdicts, Waiting
    <3>2. BookTyped(r)
      BY <1>1, <3>1, MovedTyped
    <3>. QED  BY <1>1, <3>1, <3>2, BookStep
  <2>6. CASE _step7_create(c)
    <3>1. PICK v \in Verdicts : book' = [book EXCEPT ![c] = Over(book[c], v)]
      BY <1>1, <2>6 DEF _step7_create, Verdicts
    <3>. QED  BY <1>1, <3>1, OverTyped, BookStep
  <2>. QED  BY <2>1, <2>2, <2>3, <2>4, <2>5, <2>6 DEF book_appointment
<1>6. HeldIsNeeded'
  <2>. DEFINE b    == book[c].of
              cell == book[c].at
  <2>0. HeldIsNeeded /\ SlotsTypeOK
    BY DEF OffersTypedInv, OffersInv
  <2>1. CASE _step6_claim(c)
    <3>1. CASE Take(b, cell)
      BY <2>0, <3>1 DEF Take, HeldIsNeeded, SlotsTypeOK
    <3>2. CASE holder' = [x \in Slots |-> IF holder[x] = b THEN Nobody ELSE holder[x]]
      BY <2>0, <3>2 DEF HeldIsNeeded
    <3>. QED  BY <2>1, <3>1, <3>2 DEF _step6_claim
  <2>2. CASE ~_step6_claim(c)
    <3>1. holder' = holder
      BY <2>2 DEF book_appointment, Choose, _step1_validate, _step4_time_checks, _step5_recheck,
         _step7_create
    <3>. QED  BY <2>0, <3>1 DEF HeldIsNeeded
  <2>. QED  BY <2>1, <2>2
<1>. QED  BY <1>3, <1>4, <1>5, <1>6 DEF OffersTypedInv

(* The clock starts at the first instant. *)
LEMMA FirstTime == Min(Times) \in Times
<1>1. PICK x \in Times : \A y \in Times : x <= y
  BY AvailabilityAssumption
<1>. QED  BY <1>1, MinIs, AvailabilityAssumption

(* The types are kept by every step. *)
LEMMA OffersTypedHold == Spec => []OffersTypedInv
<1>1. Init => OffersTypedInv
  <2>. SUFFICES ASSUME Init PROVE OffersTypedInv
    OBVIOUS
  <2>1. SurroundingsTyped
    BY FirstTime DEF Init, AvailabilityInit, SurroundingsTyped, NoKey
  <2>2. AsksTyped
    BY DEF Init, AvailabilityInit, AsksTyped, AskTyped, NoAsk, Statuses
  <2>3. BooksTyped
    BY DEF Init, BooksTyped, BookTyped, NoBook, Waiting, Verdicts
  <2>4. HeldIsNeeded
    BY DEF Init, SlotsInit, HeldIsNeeded
  <2>. QED  BY <2>1, <2>2, <2>3, <2>4 DEF OffersTypedInv
<1>2. OffersInv /\ OffersTypedInv /\ [Next]_offersVars => OffersTypedInv'
  <2>. SUFFICES ASSUME OffersInv, OffersTypedInv, [Next]_offersVars PROVE OffersTypedInv'
    OBVIOUS
  <2>1. ASSUME UNCHANGED <<holder, placed, book>> PROVE BooksTyped' /\ HeldIsNeeded'
    BY <2>1 DEF OffersTypedInv, BooksTyped, HeldIsNeeded
  <2>2. CASE UNCHANGED offersVars
    BY <2>1, <2>2 DEF offersVars, OffersTypedInv, SurroundingsTyped, AsksTyped
  <2>3. CASE Environment /\ UNCHANGED <<holder, placed, book>>
    <3>1. ask' = ask
      BY <2>3 DEF Environment, Tick, Rotate, HostAdds
    <3>2. SurroundingsTyped'
      BY <2>3 DEF Environment, Tick, Rotate, HostAdds, OffersTypedInv, SurroundingsTyped
    <3>. QED  BY <2>1, <2>3, <3>1, <3>2 DEF OffersTypedInv, AsksTyped
  <2>4. ASSUME NEW c \in Caller, check_availability(c), UNCHANGED <<holder, placed, book>>
        PROVE  OffersTypedInv'
    <3>1. AsksTyped'
      BY <2>4, AvailabilityTyped
    <3>2. UNCHANGED <<zone, now, host, keys>>
      BY <2>4 DEF check_availability, Ask, _load_keys, _get_busy
    <3>. QED  BY <2>1, <2>4, <3>1, <3>2 DEF OffersTypedInv, SurroundingsTyped
  <2>5. ASSUME NEW c \in Caller, book_appointment(c) PROVE OffersTypedInv'
    BY <2>5, AppointmentTyped
  <2>. QED  BY <2>2, <2>3, <2>4, <2>5 DEF Next
<1>. QED  BY <1>1, <1>2, OffersHold, PTL DEF Spec

(* Time, the keys, the host's calendar, every request and every cell stay  *)
(* among the values the module is written for.                             *)
THEOREM OffersTyped == Spec => []OffersTypeOK
<1>1. OffersInv /\ OffersTypedInv => OffersTypeOK
  <2>. SUFFICES ASSUME OffersInv, OffersTypedInv PROVE OffersTypeOK
    OBVIOUS
  <2>1. DOMAIN holder = Slots /\ placed \subseteq Booker
    BY DEF OffersInv, SlotsTypeOK
  <2>2. \A c \in Caller : book[c].pc \in {"busy", "claim", "create"} => book[c].of \in Booker
    BY DEF OffersInv, BooksForItself
  <2>. QED  BY <2>1, <2>2 DEF OffersTypeOK, OffersTypedInv, SurroundingsTyped, AsksTyped, AskTyped,
                             BooksTyped, BookTyped, HeldIsNeeded
<1>. QED  BY <1>1, OffersHold, OffersTypedHold, PTL

-----------------------------------------------------------------------------
(* 13. Every answer is good. *)

(* The binding of every caller is one that loaded. *)
LEMMA ConfigFits ==
  ASSUME NEW c \in Caller
  PROVE  BindingFits(Config[BindingOf[c]])
<1>. DEFINE id == BindingOf[c]
<1>1. id \in DOMAIN Config
  BY AvailabilityAssumption
<1>2. ASSUME ~(\A d \in DOMAIN Document : Valid(Document[d])) PROVE FALSE
  <2>1. Config = <<>>
    BY <1>2 DEF Config, load_bindings
  <2>. QED  BY <1>1, <2>1
<1>3. Config = [d \in DOMAIN Document |-> _binding(Document[d])]
  BY <1>2 DEF Config, load_bindings
<1>4. id \in DOMAIN Document /\ Valid(Document[id]) /\ Config[id] = _binding(Document[id])
  BY <1>1, <1>2, <1>3
<1>5. Typed(Document[id])
  BY <1>4, AvailabilityAssumption
<1>. QED  BY <1>4, <1>5, LoadedFits

(* What a request that is not invalid asks the engine is what it needs.    *)
LEMMA QueryIsFit ==
  ASSUME ZoneFits(zone), NEW c \in Caller, NEW body \in BodyOf[c], NEW at \in Int,
         ~Invalid(Config[BindingOf[c]], body, DateOf(zone, at))
  PROVE  /\ QueryFits(Query(Config[BindingOf[c]], body, at))
         /\ Query(Config[BindingOf[c]], body, at).duration \in Config[BindingOf[c]].durations
<1>. DEFINE cfg   == Config[BindingOf[c]]
            today == DateOf(zone, at)
            first == Max({Default(body.from, today), today})
            q     == Query(cfg, body, at)
<1>1. BindingFits(cfg)
  BY ConfigFits
<1>2. ~Invalid(cfg, body, today)
  OBVIOUS
<1>. HIDE DEF cfg
<1>3. today \in Int
  <2>1. Wall(zone, at) \in Int
    BY DEF Wall, ZoneFits
  <2>. QED  BY <2>1 DEF DateOf, DayMinutes
<1>4. body.from \in Int /\ body.to \in Int
  BY AvailabilityAssumption
<1>5. Default(body.from, today) \in Int
  BY <1>3, <1>4 DEF Default
<1>6. first \in Int
  BY <1>3, <1>5, MaxOfTwo
<1>7. q.first = first /\ q.horizon = today + cfg.ahead
      /\ q.last = Min({Default(body.to, first + cfg.searchDays - 1), today + cfg.ahead})
      /\ q.hours = cfg.hours /\ q.duration = Default(body.duration, cfg.defaultDuration)
      /\ q.step = cfg.step /\ q.buffer = cfg.buffer /\ q.max = cfg.maxSlots
  BY DEF Query
<1>. HIDE DEF first, today
<1>8. Default(body.to, first + cfg.searchDays - 1) \in Int /\ today + cfg.ahead \in Int
  BY <1>1, <1>3, <1>4, <1>6 DEF Default, BindingFits
<1>9. q.last \in Int
  BY <1>7, <1>8, MinOfTwo
<1>10. q.duration \in cfg.durations
  BY <1>1, <1>2, <1>7 DEF Default, Invalid, BindingFits
<1>11. q.duration \in Nat \ {0}
  BY <1>1, <1>10 DEF BindingFits
<1>. HIDE DEF q
<1>. QED  BY <1>1, <1>6, <1>7, <1>8, <1>9, <1>10, <1>11 DEF QueryFits, BindingFits, q, cfg

(* A request between its first pass and its answer knows what the engine   *)
(* found without busy time; what it offers is good, and what it answers    *)
(* hides nothing.                                                          *)
KnowsItsQuery(z, a, c) ==
  /\ QueryFits(QueryOf(a, c)) /\ QueryOf(a, c).duration \in Config[BindingOf[c]].durations
  /\ a.status = "none" /\ a.result.reason = "ok"
  /\ a.result = compute_slots(z, QueryOf(a, c), {}, a.at)

(* What is so of each request, wherever it is in its code.                 *)
AskKnows(z, a, c) ==
  /\ a.pc \in {"keys", "busy"} => KnowsItsQuery(z, a, c)
  /\ a.status = "available" => SlotsGood(z, QueryOf(a, c), a.at, a.seen, a.result.slots)
  /\ a.status \in {"available", "no_availability"} =>
       TellsAll(z, QueryOf(a, c), a.at, a.seen, a.result)

(* And of all of them: the inductive invariant, besides the types.         *)
AsksInv == IsFiniteSet(placed) /\ \A c \in Caller : AskKnows(zone, ask[c], c)

(* The zone, the clock and the calendar are what the engine takes.         *)
LEMMA SurroundingsFit ==
  ASSUME OffersTypedInv, OffersInv, IsFiniteSet(placed)
  PROVE  ZoneFits(zone) /\ now \in Int /\ BusyFits(Events)
<1>1. ZoneFits(zone) /\ now \in Int
  BY AvailabilityAssumption DEF OffersTypedInv, SurroundingsTyped, ZoneFits
<1>2. IsFiniteSet(host) /\ \A e \in host : e.start \in Int /\ e.end \in Int /\ e.start < e.end
  BY AvailabilityAssumption, FS_EmptySet DEF OffersTypedInv, SurroundingsTyped
<1>. DEFINE f    == [b \in placed |-> [start |-> b.start, end |-> b.end]]
            ours == {[start |-> b.start, end |-> b.end] : b \in placed}
<1>3. IsFiniteSet(ours)
  <2>1. DOMAIN f = placed /\ f = [b \in placed |-> f[b]] /\ {f[b] : b \in placed} = ours
    OBVIOUS
  <2>. HIDE DEF f, ours
  <2>. QED  BY <2>1, ImageIsFinite
<1>4. \A e \in ours : e.start \in Int /\ e.end \in Int /\ e.start < e.end
  BY AvailabilityAssumption DEF OffersInv, SlotsTypeOK
<1>5. Events = host \cup ours
  BY DEF Events
<1>. HIDE DEF ours
<1>6. IsFiniteSet(Events)
  BY <1>2, <1>3, <1>5, FS_Union
<1>. QED  BY <1>1, <1>2, <1>4, <1>5, <1>6 DEF BusyFits

(* One request's step. *)
LEMMA AsksStep ==
  ASSUME AsksInv, OffersTypedInv, NEW c \in Caller, NEW r, AskKnows(zone, r, c),
         ask' = [ask EXCEPT ![c] = r], zone' = zone, IsFiniteSet(placed')
  PROVE  AsksInv'
<1>1. \A d \in Caller : ask'[d] = IF d = c THEN r ELSE ask[d]
  BY DEF OffersTypedInv, AsksTyped
<1>2. \A d \in Caller : AskKnows(zone, ask'[d], d)
  BY <1>1 DEF AsksInv
<1>3. \A d \in Caller : AskKnows(zone, ask[d], d)'
  BY <1>2 DEF AskKnows, KnowsItsQuery, QueryOf, Query
<1>. QED  BY <1>3 DEF AsksInv

(* A request that ended without an answer about slots.                     *)
LEMMA EndedKnows ==
  ASSUME NEW s, s \notin {"available", "no_availability"}, NEW c, NEW f
  PROVE  /\ AskKnows(zone, Ended(s), c)
         /\ AskKnows(zone, [Ended(s) EXCEPT !.tokens = f], c)
BY DEF AskKnows, Ended, NoAsk

(* The first pass. *)
LEMMA AskKeeps ==
  ASSUME AsksInv, OffersTypedInv, OffersInv, NEW c \in Caller, Ask(c), UNCHANGED placed
  PROVE  AsksInv'
<1>1. PICK body \in BodyOf[c] :
        LET cfg    == Config[BindingOf[c]]
            q      == Query(cfg, body, now)
            result == compute_slots(zone, q, {}, now)
        IN  ask' = [ask EXCEPT ![c] =
             IF Invalid(cfg, body, DateOf(zone, now)) THEN Ended("invalid_request")
             ELSE IF result.reason # "ok"
             THEN [Ended("no_availability") EXCEPT !.body = body, !.at = now, !.result = result]
             ELSE [NoAsk EXCEPT !.pc = "keys", !.body = body, !.at = now, !.result = result]]
  BY DEF Ask
<1>. DEFINE cfg    == Config[BindingOf[c]]
            q      == Query(cfg, body, now)
            result == compute_slots(zone, q, {}, now)
            next   == [NoAsk EXCEPT !.pc = "keys", !.body = body, !.at = now, !.result = result]
<1>2. zone' = zone /\ IsFiniteSet(placed')
  BY DEF Ask, AsksInv
<1>3. ZoneFits(zone) /\ now \in Int
  BY SurroundingsFit DEF AsksInv
<1>4. CASE Invalid(cfg, body, DateOf(zone, now))
  <2>1. ask' = [ask EXCEPT ![c] = Ended("invalid_request")]
    BY <1>1, <1>4
  <2>. QED  BY <1>2, <2>1, EndedKnows, AsksStep
<1>5. CASE ~Invalid(cfg, body, DateOf(zone, now)) /\ result.reason # "ok"
  <2>1. ask' = [ask EXCEPT ![c] = [Ended("no_availability") EXCEPT !.body = body, !.at = now, !.result = result]]
    BY <1>1, <1>5
  <2>. HIDE DEF result
  <2>. DEFINE none == [Ended("no_availability") EXCEPT !.body = body, !.at = now, !.result = result]
  <2>2. /\ none.pc = "answered" /\ none.body = body /\ none.at = now /\ none.result = result
        /\ none.status = "no_availability" /\ none.seen = {}
    BY DEF Ended, NoAsk
  <2>. HIDE DEF none
  <2>3. QueryOf(none, c) = q
    BY <2>2 DEF QueryOf
  <2>4. QueryFits(q)
    BY <1>3, <1>5, QueryIsFit
  <2>. HIDE DEF q
  <2>5. TellsAll(zone, q, now, {}, result)
    BY <1>3, <2>4, FirstPassTells DEF result
  <2>6. AskKnows(zone, none, c)
    BY <2>2, <2>3, <2>5 DEF AskKnows
  <2>. QED  BY <1>2, <2>1, <2>6, AsksStep DEF none
<1>6. CASE ~Invalid(cfg, body, DateOf(zone, now)) /\ result.reason = "ok"
  <2>1. ask' = [ask EXCEPT ![c] = next]
    BY <1>1, <1>6
  <2>2. QueryFits(q) /\ q.duration \in cfg.durations
    BY <1>3, <1>6, QueryIsFit
  <2>3. /\ next.pc = "keys" /\ next.body = body /\ next.at = now /\ next.result = result
        /\ next.status = "none"
    <3>. HIDE DEF result
    <3>. QED  BY DEF NoAsk
  <2>4. QueryOf(next, c) = q
    <3>. HIDE DEF next
    <3>. QED  BY <2>3 DEF QueryOf
  <2>. HIDE DEF next, q
  <2>5. AskKnows(zone, next, c)
    BY <1>6, <2>2, <2>3, <2>4 DEF AskKnows, KnowsItsQuery
  <2>. QED  BY <1>2, <2>1, <2>5, AsksStep
<1>. QED  BY <1>4, <1>5, <1>6

(* The key load. *)
LEMMA KeysKeep ==
  ASSUME AsksInv, OffersTypedInv, NEW c \in Caller, _load_keys(c), UNCHANGED placed
  PROVE  AsksInv'
<1>. DEFINE r == [ask[c] EXCEPT !.pc = "busy", !.keys = keys]
<1>1. zone' = zone /\ IsFiniteSet(placed') /\ ask[c].pc = "keys" /\ c \in DOMAIN ask
  BY DEF _load_keys, AsksInv, OffersTypedInv, AsksTyped
<1>2. ask' = [ask EXCEPT ![c] = r] \/ ask' = [ask EXCEPT ![c] = Ended("calendar_unavailable")]
  BY <1>1 DEF _load_keys
<1>3. /\ r.pc = "busy" /\ r.body = ask[c].body /\ r.at = ask[c].at /\ r.result = ask[c].result
      /\ r.status = ask[c].status
  BY AskFields DEF OffersTypedInv, AsksTyped, AskTyped
<1>. HIDE DEF r
<1>4. QueryOf(r, c) = QueryOf(ask[c], c)
  BY <1>3 DEF QueryOf
<1>5. KnowsItsQuery(zone, ask[c], c)
  BY <1>1 DEF AsksInv, AskKnows
<1>6. AskKnows(zone, r, c)
  BY <1>3, <1>4, <1>5 DEF AskKnows, KnowsItsQuery
<1>7. AskKnows(zone, Ended("calendar_unavailable"), c)
  BY EndedKnows
<1>. QED  BY <1>1, <1>2, <1>6, <1>7, AsksStep

(* The busy read and the offer. *)
LEMMA BusyKeeps ==
  ASSUME AsksInv, OffersTypedInv, OffersInv, NEW c \in Caller, _get_busy(c), UNCHANGED placed
  PROVE  AsksInv'
<1>. DEFINE a      == ask[c]
            q      == QueryOf(a, c)
            span   == Span(q, a.result)
            busy   == get_busy(span[1], span[2])
            result == compute_slots(zone, q, busy, a.at)
            good   == InTimeOrder({slot \in Range(result.slots) : Issuable(slot)})
            tokens == [k \in DOMAIN good |-> issue(a.keys, BindingOf[c], good[k], a.at + Config[BindingOf[c]].ttl)]
            status == IF result.reason = "ok" THEN "available" ELSE "no_availability"
            r      == [a EXCEPT !.pc = "answered", !.keys = <<>>, !.seen = Events,
                         !.result = result, !.status = status, !.tokens = tokens]
<1>1. zone' = zone /\ IsFiniteSet(placed') /\ a.pc = "busy"
  BY DEF _get_busy, AsksInv
<1>2. \/ ask' = [ask EXCEPT ![c] = Ended("calendar_unavailable")]
      \/ ask' = [ask EXCEPT ![c] = r]
  <2>1. Offered(a, c, busy) = r \/ Offered(a, c, busy) = Ended("calendar_unavailable")
    BY DEF Offered
  <2>2. \/ ask' = [ask EXCEPT ![c] = Offered(a, c, busy)]
        \/ ask' = [ask EXCEPT ![c] = Ended("calendar_unavailable")]
    BY DEF _get_busy
  <2>. QED  BY <2>1, <2>2
<1>3. ZoneFits(zone) /\ BusyFits(Events)
  BY SurroundingsFit DEF AsksInv
<1>4. /\ QueryFits(q) /\ a.result.reason = "ok"
      /\ a.result = compute_slots(zone, q, {}, a.at)
  BY <1>1 DEF AsksInv, AskKnows, KnowsItsQuery
<1>5. busy = Around(zone, q, a.at, Events)
  BY <1>4 DEF get_busy, Span, Around
<1>6. /\ r.pc = "answered" /\ r.body = a.body /\ r.at = a.at /\ r.result = result /\ r.seen = Events
  <2>. HIDE DEF result, tokens, status
  <2>. QED  BY AskFields DEF OffersTypedInv, AsksTyped, AskTyped
<1>7. QueryOf(r, c) = q
  <2>. HIDE DEF r
  <2>. QED  BY <1>6 DEF QueryOf
<1>8. SlotsGood(zone, q, a.at, Events, result.slots)
  <2>. HIDE DEF q, busy
  <2>1. compute_slots(zone, q, {}, a.at).reason = "ok"
    BY <1>4
  <2>2. SlotsGood(zone, q, a.at, Events, compute_slots(zone, q, Around(zone, q, a.at, Events), a.at).slots)
    BY <1>3, <1>4, <2>1, OfferIsGood
  <2>. QED  BY <1>5, <2>2
<1>11. TellsAll(zone, q, a.at, Events, result)
  <2>. HIDE DEF q, busy
  <2>1. compute_slots(zone, q, {}, a.at).reason = "ok"
    BY <1>4
  <2>2. TellsAll(zone, q, a.at, Events, compute_slots(zone, q, Around(zone, q, a.at, Events), a.at))
    BY <1>3, <1>4, <2>1, SecondPassTells
  <2>. QED  BY <1>5, <2>2
<1>. HIDE DEF result, r, q
<1>9. /\ r.status = "available" => SlotsGood(zone, QueryOf(r, c), r.at, r.seen, r.result.slots)
      /\ TellsAll(zone, QueryOf(r, c), r.at, r.seen, r.result)
  BY <1>6, <1>7, <1>8, <1>11
<1>10. AskKnows(zone, r, c) /\ AskKnows(zone, Ended("calendar_unavailable"), c)
  BY <1>6, <1>9, EndedKnows DEF AskKnows
<1>. QED  BY <1>1, <1>2, <1>10, AsksStep

(* The invariant holds, whatever the callers and their surroundings do.    *)
THEOREM AsksHold == Spec => []AsksInv
<1>1. Init => AsksInv
  BY FS_EmptySet DEF Init, SlotsInit, AvailabilityInit, AsksInv, AskKnows, NoAsk
<1>2. AsksInv /\ OffersTypedInv /\ OffersInv /\ [Next]_offersVars => AsksInv'
  <2>. SUFFICES ASSUME AsksInv, OffersTypedInv, OffersInv, [Next]_offersVars PROVE AsksInv'
    OBVIOUS
  <2>1. ASSUME UNCHANGED <<ask, zone, placed>> PROVE AsksInv'
    <3>1. \A c \in Caller : AskKnows(zone, ask[c], c)' <=> AskKnows(zone, ask[c], c)
      BY <2>1 DEF AskKnows, KnowsItsQuery, QueryOf, Query
    <3>. QED  BY <2>1, <3>1 DEF AsksInv
  <2>2. CASE UNCHANGED offersVars \/ (Environment /\ UNCHANGED <<holder, placed, book>>)
    BY <2>1, <2>2 DEF offersVars, Environment, Tick, Rotate, HostAdds
  <2>3. ASSUME NEW c \in Caller, check_availability(c), UNCHANGED <<holder, placed, book>>
        PROVE  AsksInv'
    BY <2>3, AskKeeps, KeysKeep, BusyKeeps DEF check_availability
  <2>4. ASSUME NEW c \in Caller, book_appointment(c) PROVE AsksInv'
    <3>1. IsFiniteSet(placed')
      <4>1. placed' = placed \/ placed' = placed \cup {book[c].of}
        BY <2>4 DEF book_appointment, Choose, _step1_validate, _step4_time_checks, _step5_recheck,
                    _step6_claim, _step7_create, Take
      <4>. QED  BY <4>1, FS_AddElement DEF AsksInv
    <3>2. CASE Choose(c)
      <4>1. \E f : ask' = [ask EXCEPT ![c] = [Ended("none") EXCEPT !.tokens = f]]
        BY <3>2 DEF Choose
      <4>2. zone' = zone
        BY <3>2 DEF Choose
      <4>. QED  BY <3>1, <4>1, <4>2, EndedKnows, AsksStep
    <3>3. CASE ~Choose(c)
      <4>1. ask' = ask /\ zone' = zone
        BY <2>4, <3>3 DEF book_appointment, _step1_validate, _step4_time_checks, _step5_recheck,
                    _step6_claim, _step7_create
      <4>2. \A d \in Caller : AskKnows(zone, ask[d], d)' <=> AskKnows(zone, ask[d], d)
        BY <4>1 DEF AskKnows, KnowsItsQuery, QueryOf, Query
      <4>. QED  BY <3>1, <4>2 DEF AsksInv
    <3>. QED  BY <3>2, <3>3
  <2>. QED  BY <2>2, <2>3, <2>4 DEF Next
<1>. QED  BY <1>1, <1>2, OffersHold, OffersTypedHold, PTL DEF Spec

(* Every offered slot can be kept (core/slots.py, core/availability.py).   *)
THEOREM EveryOfferIsGood == Spec => []OffersAreGood
<1>1. AsksInv => OffersAreGood
  BY DEF AsksInv, AskKnows, SlotsGood, OffersAreGood
<1>. QED  BY <1>1, AsksHold, PTL

(* An answer tells the truth about what it leaves out (core/slots.py).     *)
THEOREM EveryAnswerTells == Spec => []NothingIsHidden
<1>1. AsksInv => NothingIsHidden
  <2>. SUFFICES ASSUME AsksInv, NEW c \in Caller, ask[c].status \in {"available", "no_availability"}
                PROVE  TellsAll(zone, QueryOf(ask[c], c), ask[c].at, ask[c].seen, ask[c].result)
    BY DEF NothingIsHidden, TellsAll, Tells, OfDay
  <2>. QED  BY DEF AsksInv, AskKnows
<1>. QED  BY <1>1, AsksHold, PTL

-----------------------------------------------------------------------------
(* 14. Every token is honoured, where clocks keep to the five-minute grid. *)

(* A zone whose offset changes on the five-minute grid, and by a multiple  *)
(* of five minutes.                                                        *)
OnGrid(z) == z.at % CELL_MINUTES = 0 /\ z.by % CELL_MINUTES = 0

(* There, every local time on the grid is reached on the grid.             *)
LEMMA ResolvesOnGrid ==
  ASSUME NEW z, ZoneFits(z), OnGrid(z), NEW day \in Int, NEW wall \in Int, wall % 5 = 0
  PROVE  resolve_local(z, day, wall) % 5 = 0
<1>. DEFINE r == resolve_local(z, day, wall)
            naive == day * DayMinutes + wall
<1>1. /\ r \in Int /\ Wall(z, r) >= naive
      /\ \A i \in Int : i < r => Wall(z, i) < naive
  BY ResolvesToFirst DEF ZoneFits
<1>2. naive \in Int /\ naive % 5 = 0
  BY DEF DayMinutes
<1>. HIDE DEF r, naive
<1>3. Wall(z, r - 1) < naive
  BY <1>1
<1>4. z.at \in Int /\ z.by \in Int /\ z.at % 5 = 0 /\ z.by % 5 = 0
  BY DEF ZoneFits, OnGrid, CELL_MINUTES
<1>5. CASE r < z.at
  <2>1. r = naive
    BY <1>1, <1>2, <1>3, <1>4, <1>5 DEF Wall
  <2>. QED  BY <1>2, <2>1 DEF r
<1>6. CASE r = z.at
  BY <1>4, <1>6 DEF r
<1>7. CASE r > z.at
  <2>1. r + z.by >= naive /\ r - 1 + z.by < naive
    <3>1. ~(r < z.at) /\ ~(r - 1 < z.at)
      BY <1>1, <1>4, <1>7
    <3>. QED  BY <1>1, <1>3, <3>1 DEF Wall
  <2>2. r % 5 = 0
    BY <1>1, <1>2, <1>4, <2>1
  <2>. QED  BY <2>2 DEF r
<1>. QED  BY <1>1, <1>4, <1>5, <1>6, <1>7

(* So every slot of the engine gets a token.                               *)
LEMMA SlotsOnGrid ==
  ASSUME NEW z, ZoneFits(z), OnGrid(z), NEW q, QueryFits(q), q.duration % 5 = 0, q.step % 5 = 0,
         NEW c, LiesIn(z, q, c)
  PROVE  Issuable(c)
<1>. DEFINE ws == WindowsOf(z, q)
            last == Min({q.last, q.horizon})
<1>1. PICK i \in 1..Len(ws) : c \in Grid(ws[i], q.duration, q.step)
  BY DEF LiesIn
<1>2. PICK day \in q.first..last : \E k \in DOMAIN q.hours[day % 7] :
        /\ day \in Int /\ ws[i] = Window(z, q.hours, day, k)
        /\ q.hours[day % 7][k][1] \in 0..(DayMinutes - 1)
        /\ q.hours[day % 7][k][2] \in 0..(DayMinutes - 1)
        /\ q.hours[day % 7][k][1] % 5 = 0
  BY WindowOfDay
<1>3. PICK k \in DOMAIN q.hours[day % 7] :
        /\ ws[i] = Window(z, q.hours, day, k)
        /\ q.hours[day % 7][k][1] \in 0..(DayMinutes - 1)
        /\ q.hours[day % 7][k][2] \in 0..(DayMinutes - 1)
        /\ q.hours[day % 7][k][1] % 5 = 0
  BY <1>2
<1>. DEFINE t1 == q.hours[day % 7][k][1]
            t2 == q.hours[day % 7][k][2]
<1>4. day \in Int /\ t1 \in Int /\ t1 % 5 = 0 /\ t2 \in Int
  BY <1>2, <1>3, TimeOfDay
<1>5. ws[i].start = resolve_local(z, day, t1) /\ ws[i].end = resolve_local(z, day, t2)
  BY <1>3 DEF Window
<1>. HIDE DEF ws, t1, t2
<1>7. ws[i].start % 5 = 0 /\ ws[i].start \in Int /\ ws[i].end \in Int
  BY <1>4, <1>5, ResolvesOnGrid, ResolvesToFirst DEF ZoneFits
<1>8. PICK n \in Nat : c.start = ws[i].start + n * q.step
  <2>. DEFINE w == ws[i]
  <2>1. c \in Grid(w, q.duration, q.step)
    BY <1>1
  <2>2. w.start \in Int /\ w.end \in Int /\ q.duration \in Nat \ {0} /\ q.step \in Nat \ {0}
    BY <1>7 DEF QueryFits
  <2>. HIDE DEF w
  <2>3. \E n \in Nat : c.start = w.start + n * q.step
    BY <2>1, <2>2, GridIs
  <2>. QED  BY <2>3 DEF w
<1>9. PICK m \in Nat : q.step = 5 * m
  <2>. DEFINE s == q.step
  <2>1. s \in Nat /\ s % 5 = 0
    BY DEF QueryFits
  <2>. HIDE DEF s
  <2>2. s \div 5 \in Nat /\ s = 5 * (s \div 5)
    BY <2>1
  <2>. QED  BY <2>2 DEF s
<1>10. n * q.step = 5 * (n * m) /\ n * m \in Nat
  BY <1>9
<1>. DEFINE p == n * m
<1>11. p \in Nat /\ c.start = ws[i].start + 5 * p
  BY <1>8, <1>10
<1>. HIDE DEF p
<1>12. c.start \in Int /\ c.start % 5 = 0
  BY <1>7, <1>11
<1>13. c.end = c.start + q.duration /\ q.duration \in Int
  BY DEF LiesIn, QueryFits
<1>14. c.end % 5 = 0
  BY <1>12, <1>13
<1>. QED  BY <1>12, <1>14 DEF Issuable, _aligned, CELL_MINUTES

(* How many cells a booking on the grid claims.                            *)
LEMMA CellsOnGrid ==
  ASSUME NEW start \in Int, NEW end \in Int, NEW buffer \in Nat, start < end,
         start % 5 = 0, end % 5 = 0, buffer % 5 = 0
  PROVE  Cardinality(cell_range(start, end, buffer)) = (end - start + buffer) \div 5
<1>. DEFINE count == (ceil5(end + buffer) - floor5(start)) \div CELL_MINUTES
            n     == (end - start + buffer) \div 5
            Cell(i) == floor5(start) + i * CELL_MINUTES
            f     == [i \in 0..(n - 1) |-> Cell(i)]
<1>1. floor5(start) = start /\ ceil5(end + buffer) = end + buffer
  <2>1. start % 5 = 0 /\ (end + buffer) % 5 = 0
    OBVIOUS
  <2>. QED  BY <2>1 DEF floor5, ceil5, CELL_MINUTES
<1>2. count = n /\ n \in Nat
  BY <1>1 DEF CELL_MINUTES
<1>3. cell_range(start, end, buffer) = {Cell(i) : i \in 0..(n - 1)}
  BY <1>2 DEF cell_range
<1>. HIDE DEF n
<1>4. f \in Bijection(0..(n - 1), {Cell(i) : i \in 0..(n - 1)})
  <2>1. \A i, j \in 0..(n - 1) : i # j => Cell(i) # Cell(j)
    BY <1>1, <1>2 DEF CELL_MINUTES
  <2>. HIDE DEF Cell
  <2>2. f \in Injection(0..(n - 1), {Cell(i) : i \in 0..(n - 1)})
    BY <2>1 DEF Injection, IsInjective
  <2>3. f \in Surjection(0..(n - 1), {Cell(i) : i \in 0..(n - 1)})
    BY DEF Surjection
  <2>. QED  BY <2>2, <2>3 DEF Bijection
<1>5. IsFiniteSet(0..(n - 1)) /\ Cardinality(0..(n - 1)) = n
  <2>. DEFINE m == n - 1
  <2>1. m \in Int
    BY <1>2
  <2>. HIDE DEF m
  <2>2. IsFiniteSet(0..m) /\ Cardinality(0..m) = IF 0 > m THEN 0 ELSE m - 0 + 1
    BY <2>1, FS_Interval
  <2>. QED  BY <1>2, <2>2 DEF m
<1>6. Cardinality({Cell(i) : i \in 0..(n - 1)}) = n
  BY <1>4, <1>5, FS_Bijection DEF ExistsBijection
<1>. QED  BY <1>3, <1>6 DEF n

(* A booking on the grid, of a length that its binding allows, passes the  *)
(* guard of booking's step 5.                                              *)
LEMMA ClaimsFit ==
  ASSUME NEW b, BindingFits(b), NEW start \in Int, NEW end \in Int, start % 5 = 0, end % 5 = 0,
         end - start \in b.durations
  PROVE  booking_fits(remaining(RESERVE), Cardinality(cell_range(start, end, b.buffer)))
<1>. DEFINE d == end - start
            cells == (d + b.buffer) \div 5
<1>1. d \in Nat \ {0} /\ b.buffer \in Nat /\ b.buffer % 5 = 0
  BY DEF BindingFits
<1>2. claim_cells_fit_budget(cells)
  BY DEF BindingFits, CELL_MINUTES
<1>. DEFINE buffer == b.buffer
<1>3. start < end /\ Cardinality(cell_range(start, end, buffer)) = cells
  <2>1. start < end
    BY <1>1
  <2>2. buffer \in Nat /\ buffer % 5 = 0
    BY <1>1
  <2>. HIDE DEF buffer
  <2>3. Cardinality(cell_range(start, end, buffer)) = (end - start + buffer) \div 5
    BY <2>1, <2>2, CellsOnGrid
  <2>. QED  BY <2>1, <2>3 DEF buffer
<1>4. remaining(RESERVE) = TOTAL_BUDGET - RESERVE /\ {RESERVE, TOTAL_BUDGET} \subseteq Nat
  BY DeadlineAssumption DEF remaining
<1>. HIDE DEF cells
<1>. QED  BY <1>2, <1>3, <1>4 DEF claim_cells_fit_budget, booking_fits

(* A binding that loads serves its consumers on such zones, as Sound says: *)
(* its windows are in order and apart, whatever the clock does, and what   *)
(* the engine finds in them can be signed and its claims fit the budget    *)
(* (core/bindings.py).                                                     *)
THEOREM LoadedIsSound ==
  ASSUME NEW raw, Typed(raw), Valid(raw), NEW z, ZoneFits(z), OnGrid(z),
         NEW dates \in SUBSET Int, NEW first \in dates, NEW last \in dates,
         \A d \in dates : first <= d /\ d <= last
  PROVE  Sound(_binding(raw), z, dates)
<1>. DEFINE b     == _binding(raw)
            hours == b.hours
            ws    == _windows(z, hours, first, last)
<1>1. BindingFits(b) /\ Min(dates) = first /\ Max(dates) = last
  BY LoadedFits, MinIs, MaxIs
<1>. HIDE DEF b
<1>2. HoursFit(hours)
  BY <1>1 DEF BindingFits
<1>. HIDE DEF hours
<1>3. WindowsFit(ws)
  <2>1. LET v == _windows(z, hours, first, last)
        IN  /\ v \in Seq(Range(v)) /\ Len(v) \in Nat /\ DOMAIN v = 1..Len(v)
            /\ \A j \in 1..Len(v) :
                  /\ v[j].start \in Int /\ v[j].end \in Int /\ v[j].start < v[j].end
                  /\ \E day \in first..last : \E k \in DOMAIN hours[day % 7] :
                       v[j] = Window(z, hours, day, k)
            /\ \A day \in first..last : \A k \in DOMAIN hours[day % 7] :
                  Window(z, hours, day, k).end > Window(z, hours, day, k).start =>
                    \E j \in 1..Len(v) : v[j] = Window(z, hours, day, k)
            /\ \A j, k \in 1..Len(v) : j < k => v[j].end <= v[k].start
    BY <1>2, WindowsAre
  <2>. QED  BY <2>1 DEF WindowsFit
<1>4. \A k \in 1..(Len(ws) - 1) : ws[k].end <= ws[k + 1].start
  BY <1>3 DEF WindowsFit
<1>5. ASSUME NEW duration \in b.durations, NEW w \in Range(ws), NEW slot \in Grid(w, duration, b.step)
      PROVE  /\ slot.start % CELL_MINUTES = 0 /\ slot.end % CELL_MINUTES = 0
             /\ booking_fits(remaining(RESERVE), Cardinality(cell_range(slot.start, slot.end, b.buffer)))
  <2>. DEFINE q == [hours |-> hours, first |-> first, last |-> last, horizon |-> last,
                    duration |-> duration, step |-> b.step, buffer |-> b.buffer, max |-> 1]
              start == slot.start
              end   == slot.end
  <2>1. duration \in Nat \ {0} /\ duration % 5 = 0 /\ b.step \in Nat \ {0} /\ b.step % 5 = 0 /\ b.buffer \in Nat
    BY <1>1 DEF BindingFits
  <2>2. /\ q.hours = hours /\ q.first = first /\ q.last = last /\ q.horizon = last
        /\ q.duration = duration /\ q.step = b.step /\ q.buffer = b.buffer /\ q.max = 1
    OBVIOUS
  <2>. HIDE DEF q
  <2>3. QueryFits(q)
    BY <1>2, <2>1, <2>2 DEF QueryFits
  <2>4. Min({last, last}) = last
    BY MinOfTwo
  <2>5. WindowsOf(z, q) = ws
    BY <2>2, <2>4 DEF WindowsOf
  <2>. HIDE DEF ws
  <2>6. PICK i \in 1..Len(ws) : w = ws[i]
    BY <1>3 DEF WindowsFit, Range
  <2>7. ws[i].start \in Int /\ ws[i].end \in Int
    BY <1>3 DEF WindowsFit
  <2>8. /\ start \in Int /\ ws[i].start <= start /\ slot.day = ws[i].day
        /\ end = start + duration /\ end <= ws[i].end
    <3>1. w.start \in Int /\ w.end \in Int
      BY <2>6, <2>7
    <3>2. /\ slot.start \in Int /\ w.start <= slot.start
          /\ slot = [day |-> w.day, start |-> slot.start, end |-> slot.start + duration]
          /\ slot.start + duration <= w.end
      BY <2>1, <3>1, GridIs
    <3>3. slot.day = w.day /\ slot.end = slot.start + duration
      BY <3>2
    <3>. QED  BY <2>6, <3>2, <3>3
  <2>9. LiesIn(z, q, slot)
    BY <1>5, <2>2, <2>5, <2>6, <2>8 DEF LiesIn
  <2>10. Issuable(slot)
    BY <2>1, <2>2, <2>3, <2>9, SlotsOnGrid
  <2>11. start % 5 = 0 /\ end % 5 = 0 /\ end \in Int
    BY <2>1, <2>8, <2>10 DEF Issuable, _aligned, CELL_MINUTES
  <2>12. end - start \in b.durations
    <3>1. end - start = duration
      BY <2>1, <2>8
    <3>. QED  BY <3>1
  <2>. HIDE DEF start, end
  <2>13. booking_fits(remaining(RESERVE), Cardinality(cell_range(start, end, b.buffer)))
    BY <1>1, <2>8, <2>11, <2>12, ClaimsFit
  <2>. QED  BY <2>11, <2>13 DEF start, end, CELL_MINUTES
<1>6. b.defaultDuration \in b.durations
  BY <1>1 DEF BindingFits
<1>. HIDE DEF ws
<1>7. Sound(b, z, dates)
  BY <1>1, <1>4, <1>5, <1>6 DEF Sound, ws, hours
<1>. QED  BY <1>7 DEF b

(* What the engine chooses is free, and it chooses something if it can.    *)
LEMMA ChosenAreFree ==
  ASSUME NEW z, ZoneFits(z), NEW q, QueryFits(q), NEW at, NEW busy, BusyFits(busy),
         compute_slots(z, q, busy, at).reason = "ok"
  PROVE  LET chosen == Range(compute_slots(z, q, busy, at).slots)
         IN  chosen \subseteq Free(z, q, busy, at) /\ chosen # {}
<1>. DEFINE free == Free(z, q, busy, at)
            l    == _select(free, q.selection, q.max)
            r    == compute_slots(z, q, busy, at)
<1>1. r.slots = l /\ free # {}
  BY EngineIs DEF Nothing
<1>2. SlotsFit(free) /\ q.max \in Nat \ {0}
  BY OpenIs DEF QueryFits
<1>. HIDE DEF free
<1>3. l \in Seq(free) /\ Len(l) \in Nat /\ Len(l) = Min({q.max, Cardinality(free)})
  BY <1>2, SelectIs
<1>4. Cardinality(free) \in Nat /\ Cardinality(free) # 0
  BY <1>1, <1>2, FS_CardinalityType, FS_EmptySet DEF SlotsFit
<1>5. Len(l) >= 1
  BY <1>2, <1>3, <1>4, MinOfTwo
<1>. HIDE DEF l, r
<1>6. Range(l) \subseteq free /\ l[1] \in Range(l)
  <2>1. DOMAIN l = 1..Len(l) /\ \A k \in DOMAIN l : l[k] \in free
    BY <1>3
  <2>2. 1 \in DOMAIN l
    BY <1>3, <1>5, <2>1
  <2>. QED  BY <2>1, <2>2 DEF Range
<1>. QED  BY <1>1, <1>6 DEF free, r

(* A slot of the engine lies within one window of the hours of a day.      *)
LEMMA LiesInHours ==
  ASSUME NEW z, ZoneFits(z), NEW q, QueryFits(q), NEW c, LiesIn(z, q, c)
  PROVE  \E day \in Int : \E k \in DOMAIN q.hours[day % 7] :
           /\ q.hours[day % 7][k][1] \in 0..(DayMinutes - 1)
           /\ q.hours[day % 7][k][2] \in 0..(DayMinutes - 1)
           /\ resolve_local(z, day, q.hours[day % 7][k][1]) <= c.start
           /\ c.end <= resolve_local(z, day, q.hours[day % 7][k][2])
<1>1. PICK i \in 1..Len(WindowsOf(z, q)) :
        WindowsOf(z, q)[i].start <= c.start /\ c.end <= WindowsOf(z, q)[i].end
  BY DEF LiesIn
<1>2. PICK day \in q.first..Min({q.last, q.horizon}) : \E k \in DOMAIN q.hours[day % 7] :
        /\ day \in Int /\ day % 7 \in 0..6
        /\ WindowsOf(z, q)[i] = Window(z, q.hours, day, k)
        /\ q.hours[day % 7][k][1] \in 0..(DayMinutes - 1)
        /\ q.hours[day % 7][k][2] \in 0..(DayMinutes - 1)
        /\ q.hours[day % 7][k][1] % 5 = 0
  BY WindowOfDay
<1>3. PICK k \in DOMAIN q.hours[day % 7] :
        /\ WindowsOf(z, q)[i] = Window(z, q.hours, day, k)
        /\ q.hours[day % 7][k][1] \in 0..(DayMinutes - 1)
        /\ q.hours[day % 7][k][2] \in 0..(DayMinutes - 1)
  BY <1>2
<1>4. /\ WindowsOf(z, q)[i].start = resolve_local(z, day, q.hours[day % 7][k][1])
      /\ WindowsOf(z, q)[i].end = resolve_local(z, day, q.hours[day % 7][k][2])
  BY <1>3 DEF Window
<1>. QED  BY <1>1, <1>2, <1>3, <1>4

(* A token as it was issued, or altered on its way: for a slot on the grid *)
(* that its binding's hours allow, at the first of two equal local times,  *)
(* with a key there has been.                                              *)
Honest(t) ==
  /\ DOMAIN t = {"binding", "start", "duration", "expiry", "key"}
  /\ t.start \in Int /\ t.duration \in Config[t.binding].durations
  /\ t.key \in 0..keys.current
  /\ _aligned(t.start) /\ _aligned(t.start + t.duration)
  /\ ~fold(zone, t.start)
  /\ _within_bookable_hours(Config[t.binding], t.start, t.start + t.duration)

(* The token of a slot that a binding has open is one.                     *)
LEMMA OpenIsHonest ==
  ASSUME ZoneFits(zone), OnGrid(zone), NEW c \in Caller, NEW q, QueryFits(q), NEW at,
         q.hours = Config[BindingOf[c]].hours, q.step = Config[BindingOf[c]].step,
         q.duration \in Config[BindingOf[c]].durations,
         NEW s \in Open(zone, q, at), NEW k, k.current \in 0..keys.current, NEW e
  PROVE  Issuable(s) /\ Honest(issue(k, BindingOf[c], s, e))
<1>. DEFINE cfg == Config[BindingOf[c]]
            t   == issue(k, BindingOf[c], s, e)
<1>1. BindingFits(cfg)
  BY ConfigFits
<1>2. cfg.hours = q.hours /\ cfg.step = q.step /\ q.duration \in cfg.durations
  OBVIOUS
<1>3. LiesIn(zone, q, s) /\ ~fold(zone, s.start)
  BY OpenIs DEF Admits
<1>. HIDE DEF cfg
<1>4. q.duration \in Nat \ {0} /\ q.duration % 5 = 0 /\ q.step % 5 = 0
  BY <1>1, <1>2 DEF BindingFits
<1>5. Issuable(s)
  BY <1>3, <1>4, SlotsOnGrid
<1>6. s.start \in Int /\ s.end = s.start + q.duration
  BY <1>3 DEF LiesIn
<1>7. PICK day \in Int : \E j \in DOMAIN q.hours[day % 7] :
        /\ q.hours[day % 7][j][1] \in 0..(DayMinutes - 1)
        /\ q.hours[day % 7][j][2] \in 0..(DayMinutes - 1)
        /\ resolve_local(zone, day, q.hours[day % 7][j][1]) <= s.start
        /\ s.end <= resolve_local(zone, day, q.hours[day % 7][j][2])
  BY <1>3, LiesInHours
<1>8. PICK j \in DOMAIN q.hours[day % 7] :
        /\ q.hours[day % 7][j][1] \in 0..(DayMinutes - 1)
        /\ q.hours[day % 7][j][2] \in 0..(DayMinutes - 1)
        /\ resolve_local(zone, day, q.hours[day % 7][j][1]) <= s.start
        /\ s.end <= resolve_local(zone, day, q.hours[day % 7][j][2])
  BY <1>7
<1>9. /\ resolve_local(zone, day, cfg.hours[day % 7][j][1]) <= s.start
       /\ s.end <= resolve_local(zone, day, cfg.hours[day % 7][j][2])
  BY <1>2, <1>8
<1>10. /\ j \in DOMAIN cfg.hours[day % 7] /\ day \in Int
       /\ cfg.hours[day % 7][j][1] \in 0..(DayMinutes - 1)
       /\ cfg.hours[day % 7][j][2] \in 0..(DayMinutes - 1)
  BY <1>2, <1>8
<1>. DEFINE start == s.start  end == s.end
<1>11. start \in Int /\ end \in Int /\ start < end /\ end = start + q.duration
  BY <1>4, <1>6
<1>12. ~fold(zone, start)
  BY <1>3
<1>13. /\ resolve_local(zone, day, cfg.hours[day % 7][j][1]) <= start
       /\ end <= resolve_local(zone, day, cfg.hours[day % 7][j][2])
  BY <1>9
<1>. HIDE DEF start, end
<1>14. _within_bookable_hours(cfg, start, end)
  BY <1>10, <1>11, <1>12, <1>13, OfferedHoursAreBookable DEF ZoneFits
<1>15. /\ DOMAIN t = {"binding", "start", "duration", "expiry", "key"}
       /\ t.start = start /\ t.duration = end - start /\ t.key = k.current
       /\ t.binding = BindingOf[c]
  BY DEF issue, start, end
<1>16. t.duration = q.duration /\ t.start + t.duration = end /\ Config[t.binding] = cfg
  BY <1>4, <1>11, <1>15 DEF cfg
<1>17. _aligned(start) /\ _aligned(end)
  BY <1>5 DEF Issuable, start, end
<1>. HIDE DEF t
<1>18. Honest(t)
  BY <1>2, <1>11, <1>12, <1>14, <1>15, <1>16, <1>17 DEF Honest
<1>. QED  BY <1>5, <1>18 DEF t

(* What check_availability answers after the busy read: never, without a   *)
(* fault, that the calendar is unavailable; and its tokens are honest.     *)
LEMMA AnswerIsHonest ==
  ASSUME ZoneFits(zone), OnGrid(zone), NEW c \in Caller, NEW a, AskTyped(a),
         KnowsItsQuery(zone, a, c), a.keys.current \in 0..keys.current,
         NEW busy, BusyFits(busy)
  PROVE  LET r == Offered(a, c, busy)
         IN  /\ r.status # "calendar_unavailable" /\ r.pc = "answered"
             /\ \A k \in DOMAIN r.tokens : Honest(r.tokens[k])
<1>. DEFINE cfg    == Config[BindingOf[c]]
            q      == QueryOf(a, c)
            result == compute_slots(zone, q, busy, a.at)
            S      == {slot \in Range(result.slots) : Issuable(slot)}
            good   == InTimeOrder(S)
            Token(slot) == issue(a.keys, BindingOf[c], slot, a.at + cfg.ttl)
            tokens == [k \in DOMAIN good |-> Token(good[k])]
            status == IF result.reason = "ok" THEN "available" ELSE "no_availability"
            r      == [a EXCEPT !.pc = "answered", !.keys = <<>>, !.seen = Events,
                         !.result = result, !.status = status, !.tokens = tokens]
<1>1. /\ QueryFits(q) /\ q.duration \in cfg.durations
  BY DEF KnowsItsQuery
<1>2. q.hours = cfg.hours /\ q.step = cfg.step
  BY DEF QueryOf, Query
<1>. HIDE DEF q
<1>3. \A s \in Open(zone, q, a.at) : Issuable(s) /\ Honest(Token(s))
  <2>1. q.hours = Config[BindingOf[c]].hours /\ q.step = Config[BindingOf[c]].step
        /\ q.duration \in Config[BindingOf[c]].durations
    BY <1>1, <1>2
  <2>. QED  BY <1>1, <2>1, OpenIsHonest
<1>4. CASE result.reason = "ok"
  <2>1. Range(result.slots) \subseteq Free(zone, q, busy, a.at) /\ Range(result.slots) # {}
    BY <1>1, <1>4, ChosenAreFree
  <2>2. SlotsFit(Free(zone, q, busy, a.at)) /\ Free(zone, q, busy, a.at) \subseteq Open(zone, q, a.at)
    BY <1>1, OpenIs DEF Free
  <2>3. S = Range(result.slots) /\ S \subseteq Open(zone, q, a.at)
    BY <1>3, <2>1, <2>2
  <2>. HIDE DEF S, result
  <2>4. /\ IsFiniteSet(S) /\ \A x \in S : x.start \in Int
        /\ \A x, y \in S : x # y => x.start # y.start
    BY <2>1, <2>2, <2>3, FS_Subset DEF SlotsFit
  <2>5. good \in Seq(S) /\ \A x \in S : \E k \in 1..Len(good) : good[k] = x
    BY <2>4, TimeOrderIs
  <2>6. good # <<>> /\ \A k \in DOMAIN good : good[k] \in S
    BY <2>1, <2>3, <2>5
  <2>. HIDE DEF good
  <2>7. Offered(a, c, busy) = r
    BY <1>4, <2>6 DEF Offered, good, S, result, q
  <2>8. r.status = "available" /\ r.pc = "answered" /\ r.tokens = tokens
    <3>. HIDE DEF tokens
    <3>. QED  BY <1>4, AskFields DEF AskTyped
  <2>9. \A k \in DOMAIN tokens : Honest(tokens[k])
    BY <1>3, <2>3, <2>6
  <2>. QED  BY <2>7, <2>8, <2>9
<1>5. CASE result.reason # "ok"
  <2>1. result.slots = <<>>
    BY <1>1, <1>5, EngineIs DEF Nothing
  <2>2. S = {}
    BY <2>1 DEF Range
  <2>3. DOMAIN good = {}
    <3>1. Cardinality(S) = 0
      BY <2>2, FS_EmptySet
    <3>2. DOMAIN good = 1..Cardinality(S)
      BY DEF InTimeOrder, Sorted
    <3>. QED  BY <3>1, <3>2
  <2>. HIDE DEF good, S
  <2>4. Offered(a, c, busy) = r
    BY <1>5 DEF Offered, good, S, q
  <2>. HIDE DEF result
  <2>5. r.status = "no_availability" /\ r.pc = "answered" /\ r.tokens = tokens
    <3>. HIDE DEF tokens
    <3>. QED  BY <1>5, AskFields DEF AskTyped, result
  <2>6. DOMAIN tokens = {}
    BY <2>3
  <2>. QED  BY <2>4, <2>5, <2>6
<1>. QED  BY <1>4, <1>5

(* What is so of each availability request: a key it has loaded is one     *)
(* there has been, its tokens are honest, and only a fault stops it.       *)
AskHonest(a, c) ==
  /\ a.pc = "busy" => a.keys.current \in 0..keys.current
  /\ \A k \in DOMAIN a.tokens : Honest(a.tokens[k])
  /\ a.status = "calendar_unavailable" => c \in Faulty

(* A refused token was of another binding, altered, or of a lost key.      *)
RefusedForAge(b, c) ==
  /\ Honest(b.token)
  /\ (b.token.key # NoKey /\ b.token.binding = BindingOf[c]) =>
       b.verdict = "malformed" /\ b.token.key \notin slot_keys(keys)

(* And of each booking request: until it claims, its token is honest, its  *)
(* start is the token's, and what it asks for is what the token says.      *)
BookHonest(b, c) ==
  /\ b.pc \in {"keys", "checks", "busy"} =>
       Honest(b.token) /\ b.start = b.token.start /\ b.of \in BookingOf(c, b.token)
  /\ b.pc \in {"checks", "busy"} => b.token.binding = BindingOf[c]
  /\ b.verdict \in Refusals => RefusedForAge(b, c)
  /\ b.verdict = "calendar_unavailable" => c \in Faulty

(* And of all of them: the inductive invariant, besides types and AsksInv. *)
HonestInv ==
  \A c \in Caller : AskHonest(ask[c], c) /\ BookHonest(book[c], c)

(* A token stays honest while the keys go on: the zone does not change.    *)
LEMMA StaysHonest ==
  ASSUME zone' = zone, keys.current \in Nat, keys'.current \in Nat, keys.current <= keys'.current,
         NEW t, Honest(t)
  PROVE  Honest(t)'
<1>1. t.key \in 0..keys'.current
  BY DEF Honest
<1>. QED  BY <1>1 DEF Honest, _within_bookable_hours

(* The keys stay, or the current one becomes the previous one.             *)
KeysGoOn == keys' = keys \/ keys' = [current |-> keys.current + 1, previous |-> keys.current]

(* What is so of a request stays so while the keys go on.                  *)
LEMMA HonestStays ==
  ASSUME SurroundingsTyped, zone' = zone, KeysGoOn, NEW c
  PROVE  /\ \A a : AskHonest(a, c) => AskHonest(a, c)'
         /\ \A b : BookHonest(b, c) => BookHonest(b, c)'
<1>1. /\ keys.current \in Nat \ {0} /\ keys.previous = keys.current - 1
      /\ keys'.current \in Nat \ {0} /\ keys'.previous = keys'.current - 1
      /\ keys.current <= keys'.current
  BY DEF SurroundingsTyped, KeysGoOn
<1>2. \A t : Honest(t) => Honest(t)'
  BY <1>1, StaysHonest
<1>3. ASSUME NEW a, AskHonest(a, c) PROVE AskHonest(a, c)'
  <2>1. a.keys.current \in 0..keys.current => a.keys.current \in 0..keys'.current
    BY <1>1
  <2>. QED  BY <1>2, <1>3, <2>1 DEF AskHonest
<1>4. ASSUME NEW b, RefusedForAge(b, c) PROVE RefusedForAge(b, c)'
  <2>1. b.token.key \in 0..keys.current
    BY <1>4 DEF RefusedForAge, Honest
  <2>2. ASSUME b.token.key \notin slot_keys(keys), b.token.key # NoKey
        PROVE  b.token.key \notin slot_keys(keys')
    BY <1>1, <2>1, <2>2 DEF slot_keys, NoKey, KeysGoOn
  <2>. QED  BY <1>2, <1>4, <2>2 DEF RefusedForAge
<1>5. ASSUME NEW b, BookHonest(b, c) PROVE BookHonest(b, c)'
  <2>1. b.pc \in {"keys", "checks", "busy"} => Honest(b.token)'
    BY <1>2, <1>5 DEF BookHonest
  <2>2. b.verdict \in Refusals => RefusedForAge(b, c)'
    BY <1>4, <1>5 DEF BookHonest
  <2>. QED  BY <1>5, <2>1, <2>2 DEF BookHonest, BookingOf
<1>. QED  BY <1>3, <1>4, <1>5

(* A step of one availability request. *)
LEMMA HonestAskStep ==
  ASSUME HonestInv, SurroundingsTyped, AsksTyped, NEW c \in Caller, NEW r, AskHonest(r, c),
         ask' = [ask EXCEPT ![c] = r], UNCHANGED <<zone, keys, book>>
  PROVE  HonestInv'
<1>1. /\ \A d : \A a : AskHonest(a, d) => AskHonest(a, d)'
      /\ \A d : \A b : BookHonest(b, d) => BookHonest(b, d)'
  BY HonestStays DEF KeysGoOn
<1>2. \A d \in Caller : ask'[d] = IF d = c THEN r ELSE ask[d]
  BY DEF AsksTyped
<1>3. \A d \in Caller : AskHonest(ask'[d], d) /\ BookHonest(book[d], d)
  BY <1>2 DEF HonestInv
<1>4. \A d \in Caller : AskHonest(ask[d], d)' /\ BookHonest(book[d], d)'
  <2>. SUFFICES ASSUME NEW d \in Caller PROVE AskHonest(ask[d], d)' /\ BookHonest(book[d], d)'
    OBVIOUS
  <2>1. AskHonest(ask'[d], d)
    BY <1>3
  <2>2. BookHonest(book[d], d)'
    BY <1>1, <1>3
  <2>3. AskHonest(ask[d], d)'
    BY <2>1 DEF AskHonest, Honest, _within_bookable_hours
  <2>. QED  BY <2>2, <2>3
<1>. QED  BY <1>4 DEF HonestInv

(* A step of one booking request. *)
LEMMA HonestBookStep ==
  ASSUME HonestInv, BookShape, NEW c \in Caller, NEW r, BookHonest(r, c),
         book' = [book EXCEPT ![c] = r], UNCHANGED <<zone, keys>>,
         \A d \in Caller : AskHonest(ask'[d], d)
  PROVE  HonestInv'
<1>1. \A d \in Caller : book'[d] = IF d = c THEN r ELSE book[d]
  BY DEF BookShape
<1>2. \A d \in Caller : BookHonest(book'[d], d)
  BY <1>1 DEF HonestInv
<1>3. ASSUME NEW d \in Caller PROVE AskHonest(ask[d], d)'
  <2>1. AskHonest(ask'[d], d)
    OBVIOUS
  <2>. QED  BY <2>1 DEF AskHonest, Honest, _within_bookable_hours
<1>4. ASSUME NEW d \in Caller PROVE BookHonest(book[d], d)'
  <2>. DEFINE b == book'[d]
  <2>1. BookHonest(b, d)
    BY <1>2
  <2>. QED  BY <2>1 DEF BookHonest, RefusedForAge, BookingOf, Honest, _within_bookable_hours
<1>. QED  BY <1>3, <1>4 DEF HonestInv

(* A request that ends, or has asked, without tokens or with honest ones.  *)
LEMMA EndedHonest ==
  ASSUME NEW c, NEW s \in Statuses, s = "calendar_unavailable" => c \in Faulty, NEW f, NEW g, NEW h
  PROVE  /\ AskHonest(Ended(s), c)
         /\ AskHonest([Ended(s) EXCEPT !.body = f, !.at = g, !.result = h], c)
         /\ AskHonest([NoAsk EXCEPT !.pc = "keys", !.body = f, !.at = g, !.result = h], c)
         /\ (\A k \in DOMAIN f : Honest(f[k])) => AskHonest([Ended(s) EXCEPT !.tokens = f], c)
<1>1. DOMAIN <<>> = {}
  OBVIOUS
<1>. QED  BY <1>1 DEF AskHonest, Ended, NoAsk

(* The first pass, the key load, and the answer.                           *)
LEMMA HonestAsk ==
  ASSUME HonestInv, OffersTypedInv, NEW c \in Caller, Ask(c), UNCHANGED <<keys, book>>
  PROVE  HonestInv'
<1>1. PICK body, result :
        \/ ask' = [ask EXCEPT ![c] = Ended("invalid_request")]
        \/ ask' = [ask EXCEPT ![c] =
             [Ended("no_availability") EXCEPT !.body = body, !.at = now, !.result = result]]
        \/ ask' = [ask EXCEPT ![c] =
             [NoAsk EXCEPT !.pc = "keys", !.body = body, !.at = now, !.result = result]]
  BY DEF Ask
<1>2. /\ AskHonest(Ended("invalid_request"), c)
      /\ AskHonest([Ended("no_availability") EXCEPT !.body = body, !.at = now, !.result = result], c)
      /\ AskHonest([NoAsk EXCEPT !.pc = "keys", !.body = body, !.at = now, !.result = result], c)
  BY EndedHonest DEF Statuses
<1>3. zone' = zone
  BY DEF Ask
<1>. QED  BY <1>1, <1>2, <1>3, HonestAskStep DEF OffersTypedInv

(* The keys that are loaded are those of now.                              *)
LEMMA HonestKeys ==
  ASSUME HonestInv, OffersTypedInv, NEW c \in Caller, _load_keys(c), UNCHANGED book
  PROVE  HonestInv'
<1>. DEFINE r == [ask[c] EXCEPT !.pc = "busy", !.keys = keys]
<1>1. \/ ask' = [ask EXCEPT ![c] = r]
      \/ c \in Faulty /\ ask' = [ask EXCEPT ![c] = Ended("calendar_unavailable")]
  BY DEF _load_keys, OffersTypedInv, AsksTyped
<1>2. UNCHANGED <<zone, keys, book>>
  BY DEF _load_keys
<1>3. r.keys = keys /\ r.tokens = ask[c].tokens /\ r.status = ask[c].status
  BY AskFields DEF OffersTypedInv, AsksTyped, AskTyped
<1>. HIDE DEF r
<1>4. AskHonest(r, c)
  BY <1>3 DEF AskHonest, HonestInv, OffersTypedInv, SurroundingsTyped
<1>5. c \in Faulty => AskHonest(Ended("calendar_unavailable"), c)
  BY EndedHonest DEF Statuses
<1>. QED  BY <1>1, <1>2, <1>4, <1>5, HonestAskStep DEF OffersTypedInv

(* The answer, which signs what the engine offers.                         *)
LEMMA HonestAnswer ==
  ASSUME HonestInv, AsksInv, OffersTypedInv, OffersInv, OnGrid(zone),
         NEW c \in Caller, _get_busy(c), UNCHANGED <<book, placed>>
  PROVE  HonestInv'
<1>. DEFINE a    == ask[c]
            span == Span(QueryOf(a, c), a.result)
            busy == get_busy(span[1], span[2])
            r    == Offered(a, c, busy)
<1>1. /\ \/ ask' = [ask EXCEPT ![c] = r]
         \/ c \in Faulty /\ ask' = [ask EXCEPT ![c] = Ended("calendar_unavailable")]
      /\ a.pc = "busy" /\ UNCHANGED <<zone, keys, book>>
  BY DEF _get_busy
<1>2. ZoneFits(zone) /\ BusyFits(busy)
  <2>1. ZoneFits(zone) /\ BusyFits(Events)
    BY SurroundingsFit DEF AsksInv
  <2>2. busy \subseteq Events
    BY DEF get_busy
  <2>. QED  BY <2>1, <2>2, FS_Subset DEF BusyFits
<1>. HIDE DEF busy
<1>3. AskTyped(a) /\ KnowsItsQuery(zone, a, c) /\ a.keys.current \in 0..keys.current
  BY <1>1 DEF OffersTypedInv, AsksTyped, AsksInv, AskKnows, HonestInv, AskHonest
<1>. HIDE DEF a
<1>4. /\ r.status # "calendar_unavailable" /\ r.pc = "answered"
      /\ \A k \in DOMAIN r.tokens : Honest(r.tokens[k])
  BY <1>2, <1>3, AnswerIsHonest
<1>. HIDE DEF r
<1>5. AskHonest(r, c)
  BY <1>4 DEF AskHonest
<1>6. c \in Faulty => AskHonest(Ended("calendar_unavailable"), c)
  BY EndedHonest DEF Statuses
<1>. QED  BY <1>1, <1>5, <1>6, HonestAskStep DEF OffersTypedInv

(* The caller names a slot by its local time: it is read as the slot's.    *)
LEMMA HonestChoose ==
  ASSUME HonestInv, OffersTypedInv, OffersInv, ZoneFits(zone), NEW c \in Caller, Choose(c)
  PROVE  HonestInv'
<1>1. PICK d \in Caller : \E k \in DOMAIN ask[d].tokens :
        LET token == ask[d].tokens[k]
        IN  \E sent \in {token, Garbled(token)} : \E b \in BookingOf(c, sent) :
              /\ d = c \/ sent = token
              /\ c \in Faulty \/ (d = c /\ sent = token)
              /\ book' = [book EXCEPT ![c] =
                   [NoBook EXCEPT !.pc = "keys", !.token = sent, !.of = b,
                      !.start = _parse_start(Wall(zone, token.start))]]
              /\ ask' = [ask EXCEPT ![c] = [Ended("none") EXCEPT !.tokens = ask[c].tokens]]
  BY Zenon DEF Choose
<1>2. PICK k \in DOMAIN ask[d].tokens :
        LET token == ask[d].tokens[k]
        IN  \E sent \in {token, Garbled(token)} : \E b \in BookingOf(c, sent) :
              /\ d = c \/ sent = token
              /\ c \in Faulty \/ (d = c /\ sent = token)
              /\ book' = [book EXCEPT ![c] =
                   [NoBook EXCEPT !.pc = "keys", !.token = sent, !.of = b,
                      !.start = _parse_start(Wall(zone, token.start))]]
              /\ ask' = [ask EXCEPT ![c] = [Ended("none") EXCEPT !.tokens = ask[c].tokens]]
  BY <1>1
<1>. DEFINE token == ask[d].tokens[k]
            start == _parse_start(Wall(zone, token.start))
<1>3. Honest(token)
  BY DEF HonestInv, AskHonest
<1>4. PICK sent \in {token, Garbled(token)} : \E b \in BookingOf(c, sent) :
        /\ book' = [book EXCEPT ![c] =
             [NoBook EXCEPT !.pc = "keys", !.token = sent, !.of = b, !.start = start]]
        /\ ask' = [ask EXCEPT ![c] = [Ended("none") EXCEPT !.tokens = ask[c].tokens]]
  BY <1>2
<1>. HIDE DEF token
<1>5. Honest(sent) /\ sent.start = token.start
  <2>1. CASE sent = token
    BY <1>3, <2>1
  <2>2. CASE sent = Garbled(token)
    <3>1. /\ DOMAIN sent = {"binding", "start", "duration", "expiry", "key"}
          /\ sent.start = token.start /\ sent.duration = token.duration
          /\ sent.binding = token.binding /\ sent.key = 0
      BY <1>3, <2>2 DEF Garbled, Honest, NoKey
    <3>2. 0 \in 0..keys.current
      BY DEF OffersTypedInv, SurroundingsTyped
    <3>. QED  BY <1>3, <3>1, <3>2 DEF Honest
  <2>. QED  BY <2>1, <2>2
<1>6. start = token.start
  BY <1>3, LocalTimeReadsBack DEF Honest, ZoneFits, _parse_start
<1>. HIDE DEF start
<1>7. PICK b \in BookingOf(c, sent) :
        /\ book' = [book EXCEPT ![c] =
             [NoBook EXCEPT !.pc = "keys", !.token = sent, !.of = b, !.start = start]]
        /\ ask' = [ask EXCEPT ![c] = [Ended("none") EXCEPT !.tokens = ask[c].tokens]]
  BY <1>4
<1>. DEFINE r == [NoBook EXCEPT !.pc = "keys", !.token = sent, !.of = b, !.start = start]
<1>8. r.pc = "keys" /\ r.token = sent /\ r.of = b /\ r.start = start /\ r.verdict = "none"
  BY DEF NoBook
<1>9. book' = [book EXCEPT ![c] = r]
  BY <1>7
<1>. HIDE DEF r
<1>10. BookHonest(r, c)
  BY <1>5, <1>6, <1>8 DEF BookHonest, Refusals
<1>11. \A e \in Caller : AskHonest(ask'[e], e)
  <2>1. ask' = [ask EXCEPT ![c] = [Ended("none") EXCEPT !.tokens = ask[c].tokens]]
    BY <1>7
  <2>2. AskHonest([Ended("none") EXCEPT !.tokens = ask[c].tokens], c)
    BY EndedHonest DEF Statuses, HonestInv, AskHonest
  <2>3. \A e \in Caller : ask'[e] = IF e = c THEN [Ended("none") EXCEPT !.tokens = ask[c].tokens] ELSE ask[e]
    BY <2>1 DEF OffersTypedInv, AsksTyped
  <2>. QED  BY <2>2, <2>3 DEF HonestInv
<1>12. UNCHANGED <<zone, keys>>
  BY DEF Choose
<1>. QED  BY <1>9, <1>10, <1>11, <1>12, HonestBookStep DEF OffersInv

(* An answer: no refusal of the token, or one that it deserved.            *)
LEMMA OverHonest ==
  ASSUME NEW c, NEW b, NEW v, v = "calendar_unavailable" => c \in Faulty,
         v \in Refusals =>
           /\ Honest(b.token)
           /\ (b.token.key # NoKey /\ b.token.binding = BindingOf[c]) =>
                v = "malformed" /\ b.token.key \notin slot_keys(keys)
  PROVE  BookHonest(Over(b, v), c)
<1>. DEFINE r == Over(b, v)
<1>1. r.pc = "done" /\ r.verdict = v /\ (v \in Refusals => r.token = b.token)
  BY DEF Over, NoBook
<1>. HIDE DEF r
<1>2. BookHonest(r, c)
  BY <1>1 DEF BookHonest, RefusedForAge
<1>. QED  BY <1>2 DEF r

(* A request that moves on, with the token it has.                         *)
LEMMA MovesHonest ==
  ASSUME NEW c, NEW b, BookHonest(b, c), NEW r, r.token = b.token, r.verdict = b.verdict,
         r.pc \in {"checks", "busy"} =>
           /\ b.pc \in {"keys", "checks"} /\ r.start = b.start /\ r.of = b.of
           /\ b.token.binding = BindingOf[c],
         r.pc # "keys"
  PROVE  BookHonest(r, c)
BY DEF BookHonest, RefusedForAge

(* Step 1 lets an honest token of this binding pass, while its key is      *)
(* there.                                                                  *)
LEMMA HonestValidate ==
  ASSUME HonestInv, OffersInv, NEW c \in Caller, _step1_validate(c)
  PROVE  HonestInv'
<1>. DEFINE b       == book[c]
            verdict == verify(keys, BindingOf[c], b.token, b.start)
            moved   == [b EXCEPT !.pc = "checks"]
<1>1. /\ \/ book' = [book EXCEPT ![c] = IF verdict = "ok" THEN moved ELSE Over(b, verdict)]
         \/ c \in Faulty /\ book' = [book EXCEPT ![c] = Over(b, "calendar_unavailable")]
      /\ b.pc = "keys" /\ UNCHANGED <<zone, keys, ask>>
  BY DEF _step1_validate, OffersInv, BookShape
<1>2. /\ BookHonest(b, c) /\ Honest(b.token) /\ b.start = b.token.start
      /\ DOMAIN b = DOMAIN NoBook
  BY <1>1 DEF HonestInv, BookHonest, OffersInv, BookShape
<1>. HIDE DEF b
<1>3. /\ verdict \in {"ok", "wrong_binding", "malformed", "start_mismatch"}
      /\ verdict = "ok" => b.token.binding = BindingOf[c]
      /\ b.token.binding = BindingOf[c] =>
           verdict = "ok" \/ (verdict = "malformed" /\ b.token.key \notin slot_keys(keys))
  BY <1>2 DEF verify, Honest
<1>. HIDE DEF verdict
<1>4. verdict = "ok" => BookHonest(moved, c)
  <2>1. /\ moved.pc = "checks" /\ moved.token = b.token /\ moved.verdict = b.verdict
        /\ moved.start = b.start /\ moved.of = b.of
    BY <1>2, BookFields
  <2>. HIDE DEF moved
  <2>. QED  BY <1>1, <1>2, <1>3, <2>1, MovesHonest
<1>. HIDE DEF moved
<1>5. verdict # "ok" => BookHonest(Over(b, verdict), c)
  BY <1>2, <1>3, OverHonest
<1>6. c \in Faulty => BookHonest(Over(b, "calendar_unavailable"), c)
  BY OverHonest DEF Refusals
<1>7. PICK r : book' = [book EXCEPT ![c] = r] /\ BookHonest(r, c)
  BY <1>1, <1>4, <1>5, <1>6
<1>. QED  BY <1>1, <1>7, HonestBookStep DEF OffersInv, HonestInv

(* Step 4 finds the hours and the length allowed.                          *)
LEMMA HonestChecks ==
  ASSUME HonestInv, OffersInv, NEW c \in Caller, _step4_time_checks(c)
  PROVE  HonestInv'
<1>. DEFINE b       == book[c]
            moved   == [b EXCEPT !.pc = "busy"]
            verdict == TimeChecks(c)
<1>1. /\ book' = [book EXCEPT ![c] = IF verdict = "ok" THEN moved ELSE Over(b, verdict)]
      /\ b.pc = "checks" /\ UNCHANGED <<zone, keys, ask>>
  BY DEF _step4_time_checks, OffersInv, BookShape
<1>2. /\ BookHonest(b, c) /\ Honest(b.token) /\ b.token.binding = BindingOf[c]
      /\ DOMAIN b = DOMAIN NoBook
  BY <1>1 DEF HonestInv, BookHonest, OffersInv, BookShape
<1>3. verdict \in {"ok", "expired", "too_soon"}
  BY <1>2 DEF TimeChecks, Honest
<1>. HIDE DEF verdict
<1>4. BookHonest(Over(b, verdict), c)
  BY <1>3, OverHonest DEF Refusals
<1>5. BookHonest(moved, c)
  <2>1. /\ moved.pc = "busy" /\ moved.token = b.token /\ moved.verdict = b.verdict
        /\ moved.start = b.start /\ moved.of = b.of
    BY <1>2, BookFields
  <2>. HIDE DEF moved, b
  <2>. QED  BY <1>1, <1>2, <2>1, MovesHonest
<1>. HIDE DEF moved, b
<1>6. PICK r : book' = [book EXCEPT ![c] = r] /\ BookHonest(r, c)
  BY <1>1, <1>4, <1>5
<1>. QED  BY <1>1, <1>6, HonestBookStep DEF OffersInv, HonestInv

(* Step 5 has time for the claims of what was offered.                     *)
LEMMA HonestRecheck ==
  ASSUME HonestInv, OffersInv, NEW c \in Caller, _step5_recheck(c)
  PROVE  HonestInv'
<1>. DEFINE b     == book[c]
            of    == b.of
            fits  == booking_fits(remaining(RESERVE), Cardinality(RangeOf[of]))
            moved == [b EXCEPT !.pc = "claim", !.at = Min(RangeOf[of])]
            cfg   == Config[BindingOf[c]]
<1>1. /\ \/ book' = [book EXCEPT ![c] = Over(b, "taken")]
         \/ fits /\ book' = [book EXCEPT ![c] = moved]
         \/ ~fits /\ book' = [book EXCEPT ![c] = Over(b, "calendar_unavailable")]
         \/ c \in Faulty /\ book' = [book EXCEPT ![c] = Over(b, "calendar_unavailable")]
      /\ b.pc = "busy" /\ UNCHANGED <<zone, keys, ask>>
  BY DEF _step5_recheck, OffersInv, BookShape
<1>2. /\ BookHonest(b, c) /\ Honest(b.token) /\ b.token.binding = BindingOf[c]
      /\ of \in BookingOf(c, b.token) /\ DOMAIN b = DOMAIN NoBook
  BY <1>1 DEF HonestInv, BookHonest, OffersInv, BookShape
<1>3. fits
  <2>. DEFINE start == of.start  end == of.end  token == b.token
  <2>1. /\ of \in Booker /\ of.caller = c /\ start = token.start
        /\ end = token.start + token.duration
    BY <1>2 DEF BookingOf
  <2>2. RangeOf[of] = cell_range(start, end, cfg.buffer)
    BY <2>1, AvailabilityAssumption DEF BufferOf
  <2>3. start \in Int /\ end \in Int
    BY <2>1, AvailabilityAssumption
  <2>4. BindingFits(cfg)
    BY ConfigFits
  <2>5. token.duration \in cfg.durations /\ start % 5 = 0 /\ end % 5 = 0
    BY <1>2, <2>1 DEF Honest, _aligned, CELL_MINUTES
  <2>. HIDE DEF start, end, token, cfg
  <2>6. token.duration \in Nat /\ token.start \in Int
    BY <1>2, <2>4, <2>5 DEF BindingFits, Honest, token
  <2>7. end - start \in cfg.durations
    BY <2>1, <2>5, <2>6
  <2>. QED  BY <2>2, <2>3, <2>4, <2>5, <2>7, ClaimsFit
<1>4. BookHonest(moved, c)
  <2>1. moved.pc = "claim" /\ moved.token = b.token /\ moved.verdict = b.verdict
    BY <1>2, BookFields
  <2>. HIDE DEF moved, b
  <2>. QED  BY <1>2, <2>1, MovesHonest
<1>. HIDE DEF moved, b, fits
<1>5. BookHonest(Over(b, "taken"), c) /\ (c \in Faulty => BookHonest(Over(b, "calendar_unavailable"), c))
  BY OverHonest DEF Refusals
<1>6. PICK r : book' = [book EXCEPT ![c] = r] /\ BookHonest(r, c)
  BY <1>1, <1>3, <1>4, <1>5
<1>. QED  BY <1>1, <1>6, HonestBookStep DEF OffersInv, HonestInv

(* Steps 6 and 7 look at no token any more.                                *)
LEMMA HonestClaim ==
  ASSUME HonestInv, OffersInv, NEW c \in Caller, _step6_claim(c) \/ _step7_create(c)
  PROVE  HonestInv'
<1>. DEFINE b == book[c]
<1>1. /\ \/ book' = [book EXCEPT ![c] = [b EXCEPT !.pc = "create"]]
         \/ b.pc = "claim" /\ \E x : book' = [book EXCEPT ![c] = [b EXCEPT !.at = x]]
         \/ \E v \in {"taken", "booked", "unconfirmed"} : book' = [book EXCEPT ![c] = Over(b, v)]
      /\ UNCHANGED <<zone, keys, ask>>
  BY DEF _step6_claim, _step7_create, OffersInv, BookShape
<1>2. BookHonest(b, c) /\ DOMAIN b = DOMAIN NoBook
  BY DEF HonestInv, OffersInv, BookShape
<1>. HIDE DEF b
<1>3. BookHonest([b EXCEPT !.pc = "create"], c)
  <2>. DEFINE r == [b EXCEPT !.pc = "create"]
  <2>1. r.pc = "create" /\ r.token = b.token /\ r.verdict = b.verdict
    BY <1>2, BookFields
  <2>. HIDE DEF r
  <2>2. BookHonest(r, c)
    BY <1>2, <2>1, MovesHonest
  <2>. QED  BY <2>2 DEF r
<1>4. \A x, r : b.pc = "claim" /\ r = [b EXCEPT !.at = x] => BookHonest(r, c)
  <2>. SUFFICES ASSUME NEW x, NEW r, b.pc = "claim", r = [b EXCEPT !.at = x] PROVE BookHonest(r, c)
    OBVIOUS
  <2>1. r.pc = "claim" /\ r.token = b.token /\ r.verdict = b.verdict
    BY <1>2, BookFields
  <2>. QED  BY <1>2, <2>1, MovesHonest
<1>5. \A v \in {"taken", "booked", "unconfirmed"} : BookHonest(Over(b, v), c)
  BY OverHonest DEF Refusals
<1>6. PICK r : book' = [book EXCEPT ![c] = r] /\ BookHonest(r, c)
  BY <1>1, <1>3, <1>4, <1>5
<1>. QED  BY <1>1, <1>6, HonestBookStep DEF OffersInv, HonestInv

(* The invariant holds, if the zones change their offsets on the grid.     *)
THEOREM HonestHold ==
  ASSUME \A z \in Zone : OnGrid(z)
  PROVE  Spec => []HonestInv
<1>1. Init => HonestInv
  <2>1. DOMAIN <<>> = {}
    OBVIOUS
  <2>. QED  BY <2>1 DEF Init, AvailabilityInit, HonestInv, AskHonest, BookHonest, NoAsk, NoBook, Refusals
<1>2. HonestInv /\ AsksInv /\ OffersTypedInv /\ OffersInv /\ [Next]_offersVars => HonestInv'
  <2>. SUFFICES ASSUME HonestInv, AsksInv, OffersTypedInv, OffersInv, [Next]_offersVars PROVE HonestInv'
    OBVIOUS
  <2>1. OnGrid(zone) /\ ZoneFits(zone)
    BY SurroundingsFit DEF OffersTypedInv, SurroundingsTyped, AsksInv
  <2>2. ASSUME KeysGoOn, UNCHANGED <<zone, ask, book>> PROVE HonestInv'
    <3>1. ASSUME NEW c \in Caller PROVE AskHonest(ask[c], c)' /\ BookHonest(book[c], c)'
      <4>1. AskHonest(ask[c], c) /\ BookHonest(book[c], c)
        BY DEF HonestInv
      <4>2. /\ \A a : AskHonest(a, c) => AskHonest(a, c)'
            /\ \A b : BookHonest(b, c) => BookHonest(b, c)'
        BY <2>2, HonestStays DEF OffersTypedInv
      <4>. QED  BY <2>2, <4>1, <4>2
    <3>. QED  BY <3>1 DEF HonestInv
  <2>3. CASE UNCHANGED offersVars \/ (Environment /\ UNCHANGED <<holder, placed, book>>)
    BY <2>2, <2>3 DEF offersVars, Environment, Tick, Rotate, HostAdds, KeysGoOn
  <2>4. ASSUME NEW c \in Caller, check_availability(c), UNCHANGED <<holder, placed, book>>
        PROVE  HonestInv'
    <3>1. UNCHANGED keys
      BY <2>4 DEF check_availability, Ask, _load_keys, _get_busy
    <3>. QED  BY <2>1, <2>4, <3>1, HonestAsk, HonestKeys, HonestAnswer DEF check_availability
  <2>5. ASSUME NEW c \in Caller, book_appointment(c) PROVE HonestInv'
    BY <2>1, <2>5, HonestChoose, HonestValidate, HonestChecks, HonestRecheck, HonestClaim
       DEF book_appointment
  <2>. QED  BY <2>3, <2>4, <2>5 DEF Next
<1>. QED  BY <1>1, <1>2, AsksHold, OffersHold, OffersTypedHold, PTL DEF Spec

(* A token as it was issued is refused only for age, and no offer meets a  *)
(* claim budget that it never fits (core/tokens.py, core/bindings.py,      *)
(* core/booking.py).                                                       *)
THEOREM TokensAreHonoured ==
  ASSUME \A z \in Zone : OnGrid(z)
  PROVE  Spec => []OffersAreHonoured
<1>1. HonestInv => OffersAreHonoured
  BY DEF HonestInv, AskHonest, BookHonest, RefusedForAge, OffersAreHonoured
<1>. QED  BY <1>1, HonestHold, PTL
=============================================================================
