------------------------------- MODULE Tokens -------------------------------
(***************************************************************************)
(* Slot tokens (core/tokens.py) under a key ring that rotates              *)
(* (core/keys.py). A MAC is the key it was made with: only issue makes     *)
(* tokens that carry a key, and a token altered on its way has none.       *)
(***************************************************************************)
EXTENDS Cells

NoKey == 0

(* KeySet.slot_keys: the keys to try. *)
slot_keys(keys) == {keys.current, keys.previous} \ {NoKey}

_aligned(t) == t % CELL_MINUTES = 0

(* SlotMisaligned: a slot off the five-minute grid gets no token. *)
Issuable(slot) == _aligned(slot.start) /\ _aligned(slot.end)

issue(keys, binding, slot, expiry) ==
  [binding |-> binding, start |-> slot.start, duration |-> slot.end - slot.start,
   expiry |-> expiry, key |-> keys.current]

Garbled(token) == [token EXCEPT !.key = NoKey]

verify(keys, binding, token, start) ==
  IF token.binding # binding THEN "wrong_binding"
  ELSE IF token.key \notin slot_keys(keys) THEN "malformed"
  ELSE IF ~(_aligned(token.start) /\ _aligned(token.start + token.duration)) THEN "malformed"
  ELSE IF start # token.start THEN "start_mismatch"
  ELSE "ok"

check_expiry(token, now) == now < token.expiry
=============================================================================
