--------------------------- MODULE ExclusiveSlots ---------------------------
(***************************************************************************)
(* What the claim-based booking promises, without requests, etags, states  *)
(* or failures: bookers take cells that nobody holds, an event is placed   *)
(* only by a booker that holds its whole range, and while the event stands *)
(* (or may still come to stand) none of those cells is given up.           *)
(***************************************************************************)
CONSTANTS
  Booker,   \* whoever books: one book_appointment request each
  Slots,    \* the cells of one physical calendar
  RangeOf,  \* the cells a booker needs: its times and its trailing buffer
  Nobody

ASSUME SlotsAssumption ==
  /\ RangeOf \in [Booker -> SUBSET Slots]
  /\ \A b \in Booker : RangeOf[b] # {}
  /\ Nobody \notin Booker

VARIABLES
  holder,   \* who holds each cell
  placed    \* the bookers whose event stands, or may still come to stand

slotVars == <<holder, placed>>

SlotsTypeOK ==
  /\ holder \in [Slots -> Booker \cup {Nobody}]
  /\ placed \subseteq Booker

SlotsInit ==
  /\ holder = [c \in Slots |-> Nobody]
  /\ placed = {}

Take(b, c) ==
  /\ holder[c] = Nobody
  /\ c \in RangeOf[b]
  /\ holder' = [holder EXCEPT ![c] = b]
  /\ UNCHANGED placed

GiveUp(b, c) ==
  /\ holder[c] = b
  /\ b \notin placed
  /\ holder' = [holder EXCEPT ![c] = Nobody]
  /\ UNCHANGED placed

Place(b) ==
  /\ \A c \in RangeOf[b] : holder[c] = b
  /\ placed' = placed \cup {b}
  /\ UNCHANGED holder

Delete(b) ==
  /\ placed' = placed \ {b}
  /\ UNCHANGED holder

SlotsNext == \E b \in Booker :
  \/ Place(b) \/ Delete(b)
  \/ \E c \in Slots : Take(b, c) \/ GiveUp(b, c)

SlotsSpec == SlotsInit /\ [][SlotsNext]_slotVars

-----------------------------------------------------------------------------
(* A placed event's whole range is held by its booker: what "a cell has    *)
(* exactly one holder" has to mean for the calendar.                       *)
PlacedIsHeld == \A b \in placed : \A c \in RangeOf[b] : holder[c] = b

(* Two placed events never claim a cell in common: no double booking, and  *)
(* no second event for two requests that are invocations of one booking.   *)
NoOverlap == \A b1, b2 \in placed : b1 # b2 => RangeOf[b1] \cap RangeOf[b2] = {}
=============================================================================
