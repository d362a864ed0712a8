----------------------------- MODULE SigningKeys -----------------------------
(***************************************************************************)
(* JwksCache of the calendar tools (http/auth.py): the tenant's signing    *)
(* keys, fetched under a lock. A lookup either ends at once or sends a GET *)
(* for one of three reasons, after which Fetched or Failed continues it.   *)
(***************************************************************************)
EXTENDS Ages

CONSTANTS JWKS_MAX_AGE, JWKS_MAX_STALE_AGE,
          UNKNOWN_KID_REFRESH_INTERVAL, JWKS_RETRY_AFTER_FAILURE

Reasons == {"first", "age", "kid"}
Ends == {"key", "none", "unreachable"}

JwksCache == [keys |-> {}, fetched |-> Never, failed |-> Never, kid_refresh |-> Never]

(* What a lookup comes to: the cache as it leaves it, and its end, or the  *)
(* reason for which its GET is out.                                        *)
Comes(cache, to) == [cache |-> cache, to |-> to]

(* Mutated form: a held key is served however old it is.                   *)
UnreachableUncapped(cache, kid, reason) ==
  Comes(cache, IF reason = "age" /\ kid \in cache.keys THEN "key" ELSE "unreachable")

(* JwksUnreachable out of _fetch: only the refresh of an old key set lives *)
(* with it, for a key it holds, up to the stale cap.                       *)
Unreachable(cache, kid, reason) ==
  LET served == reason = "age" /\ kid \in cache.keys
                  /\ Recent(cache.fetched, JWKS_MAX_STALE_AGE)
  IN  Comes(cache, IF served THEN "key" ELSE "unreachable")

_fetch(cache, kid, reason, late) ==
  IF Recent(cache.failed, JWKS_RETRY_AFTER_FAILURE) \/ late
  THEN Unreachable(cache, kid, reason)
  ELSE Comes(cache, reason)

Known(cache, kid) == Comes(cache, IF kid \in cache.keys THEN "key" ELSE "none")

(* Mutated form: the pause starts again with every unknown key.            *)
_refresh_for_sliding(cache, kid, late) ==
  LET tried == [cache EXCEPT !.kid_refresh = 0]
  IN  IF Recent(cache.kid_refresh, UNKNOWN_KID_REFRESH_INTERVAL) THEN Comes(tried, "none")
      ELSE _fetch(tried, kid, "kid", late)

(* An unknown kid: one refresh per interval, counted even when no GET      *)
(* leaves.                                                                 *)
_refresh_for(cache, kid, late) ==
  IF Recent(cache.kid_refresh, UNKNOWN_KID_REFRESH_INTERVAL) THEN Comes(cache, "none")
  ELSE _fetch([cache EXCEPT !.kid_refresh = 0], kid, "kid", late)

_get_key_locked(cache, kid, late) ==
  IF cache.fetched = Never THEN _fetch(cache, kid, "first", late)
  ELSE IF cache.fetched >= JWKS_MAX_AGE THEN _fetch(cache, kid, "age", late)
  ELSE IF kid \in cache.keys THEN Known(cache, kid)
  ELSE _refresh_for(cache, kid, late)

(* The GET has answered: the key set is as old as the start of its fetch.  *)
Fetched(cache, kid, keys, began) ==
  Known([cache EXCEPT !.keys = keys, !.fetched = began, !.failed = Never], kid)

Failed(cache, kid, reason, began) ==
  Unreachable([cache EXCEPT !.failed = began], kid, reason)

Later(cache) ==
  [cache EXCEPT !.fetched = Aged(@, JWKS_MAX_STALE_AGE),
                !.failed = Forgetting(@, JWKS_RETRY_AFTER_FAILURE),
                !.kid_refresh = Forgetting(@, UNKNOWN_KID_REFRESH_INTERVAL)]
=============================================================================
