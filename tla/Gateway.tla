------------------------------- MODULE Gateway -------------------------------
(***************************************************************************)
(* The front of the two agent tools: the checks a request passes in their  *)
(* order (calendar http/app.py and http/auth.py, SMS http/dispatcher.py    *)
(* and http/auth.py), with the signing keys they share a cache of. The     *)
(* tenant rotates its keys and its key endpoint fails at times. A request  *)
(* is what is wrong with it, the kid of its token, and whether it writes.  *)
(***************************************************************************)
EXTENDS Ages, Sequences, FiniteSets

CONSTANTS Caller, Tools, Kid, Request,
          Lasting,     \* the kids the tenant keeps throughout
          JWKS_MAX_AGE, JWKS_MAX_STALE_AGE,
          UNKNOWN_KID_REFRESH_INTERVAL, JWKS_RETRY_AFTER_FAILURE,
          UNKNOWN_KID_REFRESH_SECONDS, JWKS_MAX_AGE_SECONDS,
          FetchTicks   \* how many ticks a GET may take, at most

Calendar == INSTANCE SigningKeys
Sms == INSTANCE SmsSigningKeys

ASSUME GatewayAssumption ==
  /\ Tools \subseteq {"calendar", "sms"}
  /\ Lasting \in SUBSET Kid \ {{}}
  /\ FetchTicks \in Nat
  /\ FetchTicks < JWKS_RETRY_AFTER_FAILURE
  /\ JWKS_RETRY_AFTER_FAILURE \in Nat
  /\ JWKS_RETRY_AFTER_FAILURE < UNKNOWN_KID_REFRESH_INTERVAL
  /\ UNKNOWN_KID_REFRESH_INTERVAL \in Nat
  /\ UNKNOWN_KID_REFRESH_INTERVAL + JWKS_RETRY_AFTER_FAILURE <= JWKS_MAX_STALE_AGE
  /\ UNKNOWN_KID_REFRESH_INTERVAL < JWKS_MAX_AGE
  /\ JWKS_MAX_AGE \in Nat
  /\ JWKS_MAX_AGE < JWKS_MAX_STALE_AGE
  /\ JWKS_MAX_STALE_AGE \in Nat
  /\ FetchTicks < UNKNOWN_KID_REFRESH_SECONDS
  /\ UNKNOWN_KID_REFRESH_SECONDS \in Nat
  /\ UNKNOWN_KID_REFRESH_SECONDS <= UNKNOWN_KID_REFRESH_INTERVAL
  /\ UNKNOWN_KID_REFRESH_SECONDS < JWKS_MAX_AGE_SECONDS
  /\ JWKS_MAX_AGE_SECONDS \in Nat

(* What may be wrong with a request, in the order the code looks at it:    *)
(* before the keys are asked and after.                                    *)
BeforeKey(tool) ==
  IF tool = "calendar" THEN <<"path", "method", "size", "token", "alg">>
  ELSE <<"path", "method", "config", "token", "alg">>

AfterKey(tool) ==
  IF tool = "calendar"
  THEN <<"signature", "issuer", "audience", "tenant", "exp", "nbf", "role", "principal",
         "binding_unknown", "binding_disabled", "principal_not_allowed", "body">>
  ELSE <<"claims", "tenant", "principal", "role", "size", "body">>

Flaws == UNION {{BeforeKey(t)[i] : i \in DOMAIN BeforeKey(t)}
                \cup {AfterKey(t)[i] : i \in DOMAIN AfterKey(t)} : t \in Tools}

Answers == {"none", "not_found", "method_not_allowed", "too_large", "unauthorized", "forbidden",
            "invalid_request", "unavailable", "unreachable", "kid_unknown", "unconfirmed",
            "done"}

CalendarAnswer(flaw) ==
  CASE flaw = "path" -> "not_found"
    [] flaw = "method" -> "method_not_allowed"
    [] flaw = "size" -> "too_large"
    [] flaw \in {"binding_unknown", "binding_disabled", "principal_not_allowed"} -> "forbidden"
    [] flaw = "body" -> "invalid_request"
    [] OTHER -> "unauthorized"

SmsAnswer(flaw) ==
  CASE flaw = "path" -> "not_found"
    [] flaw = "method" -> "method_not_allowed"
    [] flaw = "config" -> "unavailable"
    [] flaw \in {"principal", "role"} -> "forbidden"
    [] flaw \in {"size", "body"} -> "invalid_request"
    [] OTHER -> "unauthorized"

AnswerTo(tool, flaw) == IF tool = "calendar" THEN CalendarAnswer(flaw) ELSE SmsAnswer(flaw)

(* The first check of an order that a request fails.                       *)
Failing(order, request) == {i \in DOMAIN order : order[i] \in request.flaws}
FirstFlaw(order, request) ==
  order[CHOOSE i \in Failing(order, request) : \A j \in Failing(order, request) : i <= j]

Rotating == Kid \ Lasting

(* The ages of the tenant's changes are kept up to the longest interval.   *)
Longest == JWKS_MAX_STALE_AGE

VARIABLES tool,      \* which of the two services this process is
          published, \* the kids the tenant publishes now
          up,        \* whether the tenant's key endpoint answers in time
          since,     \* how long a rotating kid has been withdrawn, or published and up
          cache,     \* the process's JwksCache
          lock,      \* the requests at the cache's lock, its holder first
          gets,      \* the last two GETs that left, the newest first
          call,      \* each caller's request
          reply      \* the response the last step sent, if it sent one

tenant == <<published, up, since>>
vars == <<tool, published, up, since, cache, lock, gets, call, reply>>

NoGet == [age |-> Never, ok |-> FALSE]
Idle == [pc |-> "idle", request |-> <<>>, waited |-> FALSE]

Silence == [to |-> <<>>, answer |-> "none"]

Respond(c, request, answer) ==
  /\ call' = [call EXCEPT ![c] = Idle]
  /\ reply' = [to |-> request, answer |-> answer]

(* The request goes on to pc, without a response yet.                      *)
Proceed(c, pc) ==
  /\ call' = [call EXCEPT ![c].pc = pc, ![c].waited = FALSE]
  /\ reply' = Silence

Init ==
  /\ tool \in Tools
  /\ published \in {K \in SUBSET Kid : Lasting \subseteq K}
  /\ up \in BOOLEAN
  /\ since = [k \in Rotating |-> IF k \in published THEN 0 ELSE Longest]
  /\ cache = IF tool = "calendar" THEN Calendar!JwksCache ELSE Sms!JwksCache
  /\ lock = <<>>
  /\ gets = <<NoGet, NoGet>>
  /\ call = [c \in Caller |-> Idle]
  /\ reply = Silence

(* A request comes in: it is refused at once, or goes on to the lock.      *)
Arrive(c) ==
  /\ call[c].pc = "idle"
  /\ \E r \in Request[tool] :
       IF Failing(BeforeKey(tool), r) # {}
       THEN /\ Respond(c, r, AnswerTo(tool, FirstFlaw(BeforeKey(tool), r)))
            /\ lock' = lock
       ELSE /\ reply' = Silence
            /\ call' = [call EXCEPT ![c] =
                  [Idle EXCEPT !.pc = "lock", !.request = r, !.waited = lock # <<>>]]
            /\ lock' = Append(lock, c)
  /\ UNCHANGED <<tool, tenant, cache, gets>>

(* Mutated form: the request's turn at the lock outlives it.               *)
GiveUpQueued(c) ==
  /\ tool = "calendar"
  /\ call[c].pc = "lock"
  /\ Head(lock) # c
  /\ Respond(c, call[c].request, "unreachable")
  /\ UNCHANGED <<tool, tenant, cache, lock, gets>>

(* The request's time is up while another one fetches. The SMS tool waits  *)
(* for the lock without a limit.                                           *)
GiveUp(c) ==
  /\ tool = "calendar"
  /\ call[c].pc = "lock"
  /\ \E i \in 2..Len(lock) :
       /\ lock[i] = c
       /\ lock' = SubSeq(lock, 1, i - 1) \o SubSeq(lock, i + 1, Len(lock))
  /\ Respond(c, call[c].request, "unreachable")
  /\ UNCHANGED <<tool, tenant, cache, gets>>

(* No key: 401, or for the SMS tool "unavailable" when it was unreachable. *)
NoKeyAnswer(end) ==
  IF end = "none" THEN "kid_unknown"
  ELSE IF tool = "calendar" THEN "unreachable" ELSE "unavailable"

(* authenticate after its lookup, and the checks up to the operation.      *)
Checked(c, r) ==
  IF Failing(AfterKey(tool), r) = {} THEN Proceed(c, "operation")
  ELSE Respond(c, r, AnswerTo(tool, FirstFlaw(AfterKey(tool), r)))

(* What a lookup came to: its GET leaves, or the lock is released and the  *)
(* request goes on.                                                        *)
Continue(c, result, before) ==
  /\ cache' = result.cache
  /\ IF result.to \in Calendar!Reasons
     THEN /\ gets' = <<[age |-> 0, ok |-> FALSE], before[1]>>
          /\ Proceed(c, result.to)
          /\ lock' = lock
     ELSE /\ gets' = before
          /\ lock' = Tail(lock)
          /\ IF result.to = "key" THEN Checked(c, call[c].request)
             ELSE Respond(c, call[c].request, NoKeyAnswer(result.to))

(* get_key with the lock held. A request that had to wait for another      *)
(* one's GET may have no time left for its own.                            *)
get_key(c) ==
  /\ call[c].pc = "lock"
  /\ Head(lock) = c
  /\ \E late \in {FALSE, call[c].waited /\ Recent(gets[1].age, FetchTicks + 1)} :
       Continue(c, IF tool = "calendar"
                   THEN Calendar!_get_key_locked(cache, call[c].request.kid, late)
                   ELSE Sms!get_key(cache, call[c].request.kid, late), gets)
  /\ UNCHANGED <<tool, tenant>>

Fetching(c) == call[c].pc \in Calendar!Reasons

(* The GET answers with the kids published now.                            *)
FetchAnswers(c) ==
  /\ Fetching(c)
  /\ up
  /\ LET kid == call[c].request.kid
         reason == call[c].pc
     IN  Continue(c, IF tool = "calendar"
                     THEN Calendar!Fetched(cache, kid, published, gets[1].age)
                     ELSE Sms!Fetched(cache, kid, published, reason),
                  [gets EXCEPT ![1].ok = TRUE])
  /\ UNCHANGED <<tool, tenant>>

(* It times out, is refused, or answers something unusable.                *)
FetchFails(c) ==
  /\ Fetching(c)
  /\ ~up
  /\ LET kid == call[c].request.kid
         reason == call[c].pc
     IN  Continue(c, IF tool = "calendar"
                     THEN Calendar!Failed(cache, kid, reason, gets[1].age)
                     ELSE Sms!Failed(cache, kid, reason), gets)
  /\ UNCHANGED <<tool, tenant>>

(* fallback_status: an operation that may write answers "unknown".         *)
Fallback(request) ==
  IF tool = "calendar" /\ request.writes THEN "unconfirmed" ELSE "unavailable"

(* The operation runs and answers, or it fails: a ProviderError, a result  *)
(* off the contract, or any exception. Of the booking and of the SMS       *)
(* (SmsNotify) only the answer is left here.                               *)
Operation(c) ==
  /\ call[c].pc = "operation"
  /\ \E answer \in {"done", Fallback(call[c].request)} : Respond(c, call[c].request, answer)
  /\ UNCHANGED <<tool, tenant, cache, lock, gets>>

(* The tenant adds a key, or withdraws one.                                *)
Publish(k) ==
  /\ k \notin published
  /\ published' = published \cup {k}
  /\ since' = [since EXCEPT ![k] = 0]
  /\ reply' = Silence
  /\ UNCHANGED <<tool, up, cache, lock, gets, call>>

Withdraw(k) ==
  /\ k \in published
  /\ published' = published \ {k}
  /\ since' = [since EXCEPT ![k] = 0]
  /\ reply' = Silence
  /\ UNCHANGED <<tool, up, cache, lock, gets, call>>

Outage ==
  /\ up' = ~up
  /\ since' = [k \in Rotating |-> IF k \in published THEN 0 ELSE since[k]]
  /\ reply' = Silence
  /\ UNCHANGED <<tool, published, cache, lock, gets, call>>

(* Time passes; no GET outlives its timeout.                               *)
Tick ==
  /\ \A c \in Caller : Fetching(c) => gets[1].age < FetchTicks
  /\ since' = [k \in Rotating |-> IF k \in published /\ ~up THEN 0 ELSE Aged(since[k], Longest)]
  /\ cache' = IF tool = "calendar" THEN Calendar!Later(cache) ELSE Sms!Later(cache)
  /\ gets' = [i \in 1..2 |-> [gets[i] EXCEPT !.age = Aged(@, UNKNOWN_KID_REFRESH_INTERVAL)]]
  /\ reply' = Silence
  /\ UNCHANGED <<tool, published, up, lock, call>>

Next ==
  \/ \E c \in Caller : Arrive(c) \/ GiveUp(c) \/ get_key(c)
                         \/ FetchAnswers(c) \/ FetchFails(c) \/ Operation(c)
  \/ \E k \in Rotating : Publish(k) \/ Withdraw(k)
  \/ Outage
  \/ Tick

Spec == Init /\ [][Next]_vars
-----------------------------------------------------------------------------
Ages(limit) == 0..limit \cup {Never}

(* The process's cache, queue and requests have their types.               *)
GatewayTypeOK ==
  /\ tool \in Tools
  /\ published \in SUBSET Kid /\ Lasting \subseteq published
  /\ up \in BOOLEAN
  /\ since \in [Rotating -> 0..Longest]
  /\ cache \in IF tool = "calendar"
       THEN [keys : SUBSET Kid, fetched : Ages(JWKS_MAX_STALE_AGE),
             failed : Ages(JWKS_RETRY_AFTER_FAILURE),
             kid_refresh : Ages(UNKNOWN_KID_REFRESH_INTERVAL)]
       ELSE [keys : SUBSET Kid, fetched : Ages(JWKS_MAX_AGE_SECONDS),
             attempted : Ages(UNKNOWN_KID_REFRESH_SECONDS), last_failed : BOOLEAN]
  /\ lock \in Seq(Caller)
  /\ \A i, j \in DOMAIN lock : lock[i] = lock[j] => i = j
  /\ reply.answer \in Answers
  /\ \A c \in Caller :
       /\ call[c].pc \in {"idle", "lock", "operation"} \cup Calendar!Reasons
       /\ (\E i \in DOMAIN lock : lock[i] = c)
            <=> call[c].pc \in {"lock"} \cup Calendar!Reasons
       /\ Fetching(c) => Head(lock) = c /\ ~gets[1].ok

(* A token is accepted only under a key that the tenant published less     *)
(* than the stale cap ago, and past the maximum age of a key set only      *)
(* while its refresh fails: an outage or a queue of requests out of time   *)
(* does not keep a withdrawn key alive (JwksCache in both tools).          *)
KeysAreFresh ==
  [][\A c \in Caller :
       call[c].pc # "operation" /\ call'[c].pc = "operation" =>
         LET kid == call'[c].request.kid
             age == IF kid \in published THEN 0 ELSE since[kid]
         IN  IF tool = "calendar"
             THEN /\ age < JWKS_MAX_STALE_AGE
                  /\ age >= JWKS_MAX_AGE => Recent(cache'.failed, JWKS_RETRY_AFTER_FAILURE)
             ELSE age >= JWKS_MAX_AGE_SECONDS => cache'.last_failed]_vars

(* Whatever tokens come in, and in whatever order the maximum age, the     *)
(* unknown kids and the failures strike: the calendar never asks the       *)
(* tenant again within the pause after a failure, nor, after two that      *)
(* succeeded, a third time within the interval for unknown kids; the SMS   *)
(* tool never twice within its.                                            *)
FetchesAreSpaced ==
  [][(\E c \in Caller : ~Fetching(c) /\ Fetching(c)') =>
       IF tool = "calendar"
       THEN /\ Recent(gets[1].age, JWKS_RETRY_AFTER_FAILURE) => gets[1].ok
            /\ Recent(gets[2].age, UNKNOWN_KID_REFRESH_INTERVAL) => ~(gets[1].ok /\ gets[2].ok)
       ELSE ~Recent(gets[1].age, UNKNOWN_KID_REFRESH_SECONDS)]_vars

(* However many unknown kids come in: a key that has been published, and   *)
(* to be had, for the interval between two refreshes (and, in the          *)
(* calendar, the pause after a last failure) is not refused as unknown.    *)
RotatedKeyIsKnown ==
  reply.answer = "kid_unknown" /\ reply.to.kid \in published \ Lasting =>
    since[reply.to.kid] <
      IF tool = "calendar" THEN UNKNOWN_KID_REFRESH_INTERVAL + JWKS_RETRY_AFTER_FAILURE
      ELSE UNKNOWN_KID_REFRESH_SECONDS
=============================================================================
