----------------------------- MODULE MCSmsNotify -----------------------------
(***************************************************************************)
(* An instance of SmsNotify for TLC: two requests with one text, and one   *)
(* or two with texts of their own.                                         *)
(***************************************************************************)
EXTENDS SmsNotify, TLC

CONSTANTS r1, r2, r3, s, t

Texts == (r1 :> s) @@ (r2 :> s) @@ (r3 :> t)

OneText == [r \in Request |-> s]

(* Requests with one text are interchangeable. *)
Twins == Permutations({r1, r2})
Triplets == Permutations({r1, r2, r3})
=============================================================================
