---------------------------- MODULE SmsSigningKeys ----------------------------
(***************************************************************************)
(* JwksCache of the SMS tool (sms_notify/http/auth.py): every fetch after  *)
(* the first waits for a pause since the last attempt, failed or not, and  *)
(* a held key is served through an outage without a limit.                 *)
(***************************************************************************)
EXTENDS Ages

CONSTANTS UNKNOWN_KID_REFRESH_SECONDS, JWKS_MAX_AGE_SECONDS

JwksCache == [keys |-> {}, fetched |-> Never, attempted |-> Never, last_failed |-> FALSE]

Comes(cache, to) == [cache |-> cache, to |-> to]

_attempted_recently(cache) == Recent(cache.attempted, UNKNOWN_KID_REFRESH_SECONDS)

(* JwksUnavailable: only the refresh of an old key set lives with it.      *)
Unavailable(cache, kid, reason) ==
  Comes(cache, IF reason = "age" /\ kid \in cache.keys THEN "key" ELSE "unreachable")

(* _fetch_tracked: without time left nothing is attempted.                 *)
_fetch(cache, kid, reason, late) ==
  IF late THEN Unavailable([cache EXCEPT !.last_failed = TRUE], kid, reason)
  ELSE Comes([cache EXCEPT !.last_failed = TRUE, !.attempted = 0], reason)

(* Mutated form: the pause is not kept for an unknown key.                 *)
_lookup_eager(cache, kid, late) ==
  IF kid \in cache.keys THEN Comes(cache, "key") ELSE _fetch(cache, kid, "kid", late)

_lookup(cache, kid, late) ==
  IF kid \in cache.keys THEN Comes(cache, "key")
  ELSE IF _attempted_recently(cache) THEN Comes(cache, "none")
  ELSE _fetch(cache, kid, "kid", late)

get_key(cache, kid, late) ==
  IF cache.fetched = Never
  THEN IF _attempted_recently(cache) /\ cache.last_failed THEN Comes(cache, "unreachable")
       ELSE _fetch(cache, kid, "first", late)
  ELSE IF cache.fetched >= JWKS_MAX_AGE_SECONDS /\ ~_attempted_recently(cache)
       THEN _fetch(cache, kid, "age", late)
  ELSE _lookup(cache, kid, late)

(* The GET has answered: the key set is as old as the answer.              *)
Fetched(cache, kid, keys, reason) ==
  LET new == [cache EXCEPT !.keys = keys, !.fetched = 0, !.last_failed = FALSE]
  IN  IF reason = "kid" THEN Comes(new, IF kid \in keys THEN "key" ELSE "none")
      ELSE _lookup(new, kid, FALSE)

Failed(cache, kid, reason) == Unavailable(cache, kid, reason)

Later(cache) ==
  [cache EXCEPT !.fetched = Aged(@, JWKS_MAX_AGE_SECONDS),
                !.attempted = Forgetting(@, UNKNOWN_KID_REFRESH_SECONDS)]
=============================================================================
