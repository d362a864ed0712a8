------------------------------ MODULE MCGateway ------------------------------
(***************************************************************************)
(* Two requests at a time at one of the tools, a kid the tenant rotates,   *)
(* one it keeps, and one that nobody publishes.                            *)
(***************************************************************************)
EXTENDS Gateway, TLC

CONSTANTS k1, kept, forged

From(kid, flaws, writes) == [kid |-> kid, flaws |-> flaws, writes |-> writes]

Requests ==
  ("calendar" :> {From(k1, {}, TRUE), From(forged, {}, FALSE), From(k1, {"size", "token"}, TRUE),
                  From(kept, {"principal_not_allowed", "body"}, TRUE)}) @@
  ("sms" :> {From(k1, {}, FALSE), From(forged, {}, FALSE), From(k1, {"config", "alg"}, FALSE),
             From(kept, {"role", "size"}, FALSE)})
=============================================================================
