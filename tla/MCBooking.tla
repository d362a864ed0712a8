------------------------------ MODULE MCBooking ------------------------------
(***************************************************************************)
(* Instances of Booking for TLC.  Requests a1 and a2 are two invocations   *)
(* of one booking (fingerprint f), b1 is another contact's request for an  *)
(* overlapping slot (fingerprint g): f takes cells 0 and 1, g takes 1.     *)
(***************************************************************************)
EXTENDS Booking, TLC

CONSTANTS a1, a2, b1, f, g, alice, bob, main, other

FpRace == (a1 :> f) @@ (b1 :> g)
FpAll == (a1 :> f) @@ (a2 :> f) @@ (b1 :> g)

ContactOfFp == [h \in Fingerprint |-> IF h = f THEN alice ELSE bob]
StartOfFp == [h \in Fingerprint |-> IF h = f THEN 0 ELSE 1]
EndOfFp == [h \in Fingerprint |-> 2]

OneBinding == [r \in Request |-> main]
TwoBindings == [r \in Request |-> IF r = a1 THEN main ELSE other]
(* Back to back: f ends where g starts, and f's binding adds a buffer cell. *)
StartNext == [h \in Fingerprint |-> IF h = f THEN 0 ELSE 2]
EndNext == [h \in Fingerprint |-> IF h = f THEN 2 ELSE 4]
TrailingBuffer == [r \in Request |-> IF r = a1 THEN 1 ELSE 0]
NoBuffer == [r \in Request |-> 0]
=============================================================================
