\* Two requests at a time, one rotated and one lasting kid, scaled intervals.
SPECIFICATION Spec
CONSTANTS
  k1 = k1
  kept = kept
  forged = forged
  Caller = {c1, c2}
  Tools = {"calendar", "sms"}
  Kid = {k1, kept}
  Lasting = {kept}
  Request <- Requests
  FetchTicks = 1
  JWKS_RETRY_AFTER_FAILURE = 2
  UNKNOWN_KID_REFRESH_INTERVAL = 3
  JWKS_MAX_AGE = 6
  JWKS_MAX_STALE_AGE = 7
  UNKNOWN_KID_REFRESH_SECONDS = 2
  JWKS_MAX_AGE_SECONDS = 3
INVARIANT GatewayTypeOK
PROPERTY KeysAreFresh
PROPERTY FetchesAreSpaced
INVARIANT RotatedKeyIsKnown
