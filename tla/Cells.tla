-------------------------------- MODULE Cells --------------------------------
(***************************************************************************)
(* Claim cells: the fixed five-minute UTC cells of core/identity.py that   *)
(* turn "two bookings overlap" into "two bookings claim one cell". Times   *)
(* are whole minutes.                                                      *)
(***************************************************************************)
EXTENDS Integers

CELL_MINUTES == 5

floor5(t) == t - (t % CELL_MINUTES)

ceil5(t) == IF floor5(t) = t THEN t ELSE floor5(t) + CELL_MINUTES

(* The last cell of a booking, without building the range. *)
last_cell(start, end, buffer) == ceil5(end + buffer) - CELL_MINUTES

(* Mutated form: the booking's own cells, without its trailing buffer. *)
cell_range_tight(start, end, buffer) ==
  {floor5(t) : t \in start..(end - 1)}

(* From floor5(start) up to, not including, ceil5(end + buffer): the      *)
(* buffer follows the booking.                                             *)
cell_range(start, end, buffer) ==
  LET count == (ceil5(end + buffer) - floor5(start)) \div CELL_MINUTES
  IN  {floor5(start) + i * CELL_MINUTES : i \in 0..(count - 1)}
=============================================================================
