---------------------------- MODULE GatewayProofs ----------------------------
(***************************************************************************)
(* The signing keys of the two agent tools, for any requests, kids and     *)
(* intervals that satisfy GatewayAssumption: keys are fresh, fetches are   *)
(* spaced, and a rotated key is known in time.                             *)
(***************************************************************************)
EXTENDS Gateway, TLAPS

-----------------------------------------------------------------------------
(* The inductive invariant. *)

Waiting == {"lock"} \cup Calendar!Reasons
GetOut == \E c \in Caller : Fetching(c)

CallsOK ==
  call \in [Caller -> [pc : {"idle", "lock", "operation"} \cup Calendar!Reasons,
                       request : Request[tool] \cup {<<>>}, waited : BOOLEAN]]

(* The lock's queue: each request that waits or fetches once, and only its *)
(* head fetches.                                                           *)
QueueOK ==
  /\ lock \in Seq(Caller)
  /\ \A i, j \in 1..Len(lock) : lock[i] = lock[j] => i = j
  /\ \A c \in Caller : (\E i \in 1..Len(lock) : lock[i] = c) <=> call[c].pc \in Waiting
  /\ \A c \in Caller : Fetching(c) => lock[1] = c

CacheType == cache \in
  IF tool = "calendar"
  THEN [keys : SUBSET Kid, fetched : Ages(JWKS_MAX_STALE_AGE),
        failed : Ages(JWKS_RETRY_AFTER_FAILURE),
        kid_refresh : Ages(UNKNOWN_KID_REFRESH_INTERVAL)]
  ELSE [keys : SUBSET Kid, fetched : Ages(JWKS_MAX_AGE_SECONDS),
        attempted : Ages(UNKNOWN_KID_REFRESH_SECONDS), last_failed : BOOLEAN]

(* The GETs: the newest first, and the one that is out has not answered.   *)
GetsOK ==
  /\ DOMAIN gets = 1..2
  /\ \A i \in 1..2 : gets[i] \in [age : Ages(UNKNOWN_KID_REFRESH_INTERVAL), ok : BOOLEAN]
  /\ \A i \in 1..2 : gets[i].age = Never => ~gets[i].ok
  /\ gets[2].age # Never => gets[1].age # Never /\ gets[1].age <= gets[2].age
  /\ GetOut => gets[1].age \in 0..FetchTicks /\ ~gets[1].ok

(* The tenant: a key that cannot be had is not counted as published.       *)
TenantOK ==
  /\ tool \in Tools
  /\ published \in SUBSET Kid /\ Lasting \subseteq published
  /\ up \in BOOLEAN
  /\ since \in [Rotating -> 0..Longest]
  /\ \A k \in Rotating \cap published : ~up => since[k] = 0

Missing == (Rotating \cap published) \ cache.keys

(* What the calendar's cache remembers of the tenant and of its own GETs.  *)
CalendarKeys ==
  /\ cache.keys # {} => cache.fetched # Never
  /\ \A k \in Rotating \cap cache.keys : k \notin published => since[k] <= cache.fetched
  /\ cache.fetched # Never => \A k \in Missing : since[k] <= cache.fetched
  /\ cache.failed # Never => \A k \in Rotating \cap published : since[k] <= cache.failed
  /\ ~GetOut /\ cache.kid_refresh # Never =>
       \A k \in Missing : since[k] <= cache.kid_refresh + JWKS_RETRY_AFTER_FAILURE

CalendarGets ==
  /\ ~GetOut /\ gets[1].age # Never =>
       IF gets[1].ok
       THEN /\ cache.fetched # Never
            /\ gets[1].age < UNKNOWN_KID_REFRESH_INTERVAL => cache.fetched = gets[1].age
       ELSE gets[1].age < JWKS_RETRY_AFTER_FAILURE => cache.failed = gets[1].age
  /\ gets[2].ok => cache.fetched # Never
  /\ gets[2].ok /\ gets[2].age < UNKNOWN_KID_REFRESH_INTERVAL =>
       cache.kid_refresh # Never /\ cache.kid_refresh <= gets[2].age

(* The same for the SMS tool's cache.                                      *)
SmsKeys ==
  /\ cache.keys # {} => cache.fetched # Never
  /\ \A k \in Rotating \cap cache.keys :
       k \notin published => since[k] <= cache.fetched \/ cache.fetched >= JWKS_MAX_AGE_SECONDS
  /\ ~GetOut /\ cache.attempted # Never => \A k \in Missing : since[k] <= cache.attempted
  /\ ~cache.last_failed /\ cache.attempted # Never =>
       cache.fetched # Never /\ cache.fetched <= cache.attempted

SmsGets ==
  /\ Recent(gets[1].age, UNKNOWN_KID_REFRESH_SECONDS) => cache.attempted = gets[1].age
  /\ GetOut => cache.last_failed

KeysOK == IF tool = "calendar" THEN CalendarKeys /\ CalendarGets ELSE SmsKeys /\ SmsGets

GatewayInv ==
  /\ TenantOK /\ CacheType /\ CallsOK /\ QueueOK /\ GetsOK /\ KeysOK
  /\ reply.answer \in Answers

-----------------------------------------------------------------------------
(* What a lookup of the calendar comes to. *)

CalendarCache ==
  [keys : SUBSET Kid, fetched : Ages(JWKS_MAX_STALE_AGE), failed : Ages(JWKS_RETRY_AFTER_FAILURE),
   kid_refresh : Ages(UNKNOWN_KID_REFRESH_INTERVAL)]

(* A lookup asks the tenant only outside the pause after a failure, for an *)
(* unknown kid only once per interval; it finds a key that is not too old, *)
(* and calls a kid unknown only shortly after it tried to refresh.         *)
LEMMA CalendarLookup ==
  ASSUME NEW kept \in CalendarCache, NEW kid, NEW late \in BOOLEAN,
         NEW result, result = Calendar!_get_key_locked(kept, kid, late)
  PROVE  /\ result.to \in Calendar!Reasons \cup Calendar!Ends
         /\ result.to \in {"first", "age", "key", "none"} => result.cache = kept
         /\ result.to = "kid" => result.cache = [kept EXCEPT !.kid_refresh = 0]
         /\ result.to = "unreachable" =>
              \/ result.cache = kept
              \/ /\ result.cache = [kept EXCEPT !.kid_refresh = 0]
                 /\ kept.fetched # Never
                 /\ Recent(kept.failed, JWKS_RETRY_AFTER_FAILURE) \/ late
         /\ result.to \in Calendar!Reasons =>
              ~Recent(kept.failed, JWKS_RETRY_AFTER_FAILURE)
         /\ result.to = "first" => kept.fetched = Never
         /\ result.to = "age" => kept.fetched >= JWKS_MAX_AGE
         /\ result.to = "kid" => /\ kept.fetched # Never
                                 /\ ~Recent(kept.kid_refresh, UNKNOWN_KID_REFRESH_INTERVAL)
         /\ result.to = "key" =>
              /\ kid \in kept.keys
              /\ kept.fetched # Never /\ kept.fetched < JWKS_MAX_STALE_AGE
              /\ kept.fetched >= JWKS_MAX_AGE =>
                   Recent(kept.failed, JWKS_RETRY_AFTER_FAILURE) \/ late
         /\ result.to = "none" =>
              /\ kid \notin kept.keys
              /\ Recent(kept.kid_refresh, UNKNOWN_KID_REFRESH_INTERVAL)
<1>. USE GatewayAssumption DEF CalendarCache, Ages, Never, Recent, Calendar!Recent, Calendar!Never,
           Calendar!Reasons, Calendar!Ends, Calendar!Comes, Calendar!_fetch, Calendar!Unreachable
<1>1. CASE kept.fetched = Never
  BY <1>1 DEF Calendar!_get_key_locked
<1>2. CASE kept.fetched # Never /\ kept.fetched >= JWKS_MAX_AGE
  BY <1>2 DEF Calendar!_get_key_locked
<1>3. CASE kept.fetched # Never /\ kept.fetched < JWKS_MAX_AGE /\ kid \in kept.keys
  BY <1>3 DEF Calendar!_get_key_locked, Calendar!Known
<1>4. CASE kept.fetched # Never /\ kept.fetched < JWKS_MAX_AGE /\ kid \notin kept.keys
  BY <1>4 DEF Calendar!_get_key_locked, Calendar!_refresh_for
<1>. QED  BY <1>1, <1>2, <1>3, <1>4

(* A GET's answer replaces the keys; they are as old as its start.         *)
LEMMA CalendarFetched ==
  ASSUME NEW kept, NEW kid, NEW keys, NEW began,
         NEW result, result = Calendar!Fetched(kept, kid, keys, began)
  PROVE  /\ result.cache = [kept EXCEPT !.keys = keys, !.fetched = began, !.failed = Never]
         /\ result.to = IF kid \in result.cache.keys THEN "key" ELSE "none"
  BY DEF Calendar!Fetched, Calendar!Known, Calendar!Comes, Calendar!Never, Never

(* After a failure only a key that is held, and not too old, is served.    *)
LEMMA CalendarFailed ==
  ASSUME NEW kept \in CalendarCache, NEW kid, NEW reason, NEW began,
         NEW result, result = Calendar!Failed(kept, kid, reason, began)
  PROVE  /\ result.cache = [kept EXCEPT !.failed = began]
         /\ result.to \in {"key", "unreachable"}
         /\ result.to = "key" => /\ kid \in kept.keys
                                 /\ kept.fetched # Never /\ kept.fetched < JWKS_MAX_STALE_AGE
  BY DEF CalendarCache, Calendar!Failed, Calendar!Unreachable, Calendar!Comes, Calendar!Recent,
         Calendar!Never, Never

-----------------------------------------------------------------------------
(* What a lookup of the SMS tool comes to. *)

SmsCache ==
  [keys : SUBSET Kid, fetched : Ages(JWKS_MAX_AGE_SECONDS),
   attempted : Ages(UNKNOWN_KID_REFRESH_SECONDS), last_failed : BOOLEAN]

(* It asks the tenant only outside the pause since the last attempt, and   *)
(* says that a kid is unknown only inside it.                              *)
LEMMA SmsLookup ==
  ASSUME NEW kept \in SmsCache, NEW kid, NEW late \in BOOLEAN,
         ~kept.last_failed /\ kept.attempted # Never => kept.fetched # Never,
         NEW result, result = Sms!get_key(kept, kid, late)
  PROVE  /\ result.to \in Calendar!Reasons \cup Calendar!Ends
         /\ result.to \in Calendar!Reasons =>
              /\ result.cache = [kept EXCEPT !.last_failed = TRUE, !.attempted = 0]
              /\ ~Recent(kept.attempted, UNKNOWN_KID_REFRESH_SECONDS)
         /\ result.to \notin Calendar!Reasons =>
              result.cache \in {kept, [kept EXCEPT !.last_failed = TRUE]}
         /\ result.to = "key" =>
              /\ kid \in kept.keys
              /\ kept.fetched >= JWKS_MAX_AGE_SECONDS =>
                   \/ result.cache.last_failed
                   \/ Recent(kept.attempted, UNKNOWN_KID_REFRESH_SECONDS)
         /\ result.to = "none" =>
              /\ kid \notin kept.keys
              /\ Recent(kept.attempted, UNKNOWN_KID_REFRESH_SECONDS)
<1>. USE GatewayAssumption DEF SmsCache, Ages, Never, Recent, Sms!Recent, Sms!Never,
           Calendar!Reasons, Calendar!Ends, Sms!Comes, Sms!_fetch, Sms!Unavailable,
           Sms!_attempted_recently
<1>1. CASE kept.fetched = Never
  BY <1>1 DEF Sms!get_key
<1>2. CASE /\ kept.fetched # Never /\ kept.fetched >= JWKS_MAX_AGE_SECONDS
           /\ ~Recent(kept.attempted, UNKNOWN_KID_REFRESH_SECONDS)
  BY <1>2 DEF Sms!get_key
<1>3. CASE /\ kept.fetched # Never
           /\ \/ kept.fetched < JWKS_MAX_AGE_SECONDS
              \/ Recent(kept.attempted, UNKNOWN_KID_REFRESH_SECONDS)
  BY <1>3 DEF Sms!get_key, Sms!_lookup
<1>. QED  BY <1>1, <1>2, <1>3

(* An answer ends the lookup: the GET was an attempt just now, so no other *)
(* one follows it.                                                         *)
LEMMA SmsFetched ==
  ASSUME NEW kept \in SmsCache, NEW kid, NEW keys \in SUBSET Kid, NEW reason,
         Recent(kept.attempted, UNKNOWN_KID_REFRESH_SECONDS),
         NEW result, result = Sms!Fetched(kept, kid, keys, reason)
  PROVE  /\ result.cache \in SmsCache
         /\ result.cache.keys = keys /\ result.cache.fetched = 0
         /\ result.cache.attempted = kept.attempted
         /\ result.to = IF kid \in keys THEN "key" ELSE "none"
<1>. DEFINE new == [kept EXCEPT !.keys = keys, !.fetched = 0, !.last_failed = FALSE]
<1>1. /\ new \in SmsCache
      /\ new.keys = keys /\ new.fetched = 0 /\ new.attempted = kept.attempted
  <2>1. 0 \in Ages(JWKS_MAX_AGE_SECONDS) /\ FALSE \in BOOLEAN
    BY GatewayAssumption DEF Ages
  <2>. QED  BY <2>1 DEF SmsCache
<1>2. result.cache = new /\ result.to = IF kid \in keys THEN "key" ELSE "none"
  BY DEF SmsCache, Sms!Fetched, Sms!_lookup, Sms!_attempted_recently, Sms!Comes,
         Recent, Sms!Recent, Never, Sms!Never
<1>. QED  BY <1>1, <1>2

(* After a failure the SMS tool serves any key it holds.                   *)
LEMMA SmsFailed ==
  ASSUME NEW kept, NEW kid, NEW reason, NEW result, result = Sms!Failed(kept, kid, reason)
  PROVE  /\ result.cache = kept
         /\ result.to \in {"key", "unreachable"}
         /\ result.to = "key" => kid \in kept.keys
  BY DEF Sms!Failed, Sms!Unavailable, Sms!Comes

-----------------------------------------------------------------------------
(* The queue at the lock. *)

(* The lock is released: the head leaves the queue and waits no longer.    *)
LEMMA QueueReleased ==
  ASSUME QueueOK, CallsOK, NEW c \in Caller, call[c].pc \in Waiting, lock[1] = c,
         lock' = Tail(lock), CallsOK', call'[c].pc \notin Waiting,
         \A d \in Caller : d # c => call'[d] = call[d]
  PROVE  QueueOK' /\ ~GetOut'
<1>1. /\ lock \in Seq(Caller) /\ Len(lock) \in Nat /\ Len(lock) >= 1
      /\ \A i \in 1..Len(lock) : lock[i] \in Caller
  <2>1. \E i \in 1..Len(lock) : lock[i] = c
    BY DEF QueueOK
  <2>. QED  BY <2>1 DEF QueueOK
<1>2. /\ lock' \in Seq(Caller) /\ Len(lock') = Len(lock) - 1
      /\ \A i \in 1..Len(lock') : lock'[i] = lock[i + 1]
  BY <1>1
<1>3. ASSUME NEW d \in Caller
      PROVE  (\E i \in 1..Len(lock') : lock'[i] = d) <=> call'[d].pc \in Waiting
  <2>1. CASE d = c
    <3>1. \A i \in 1..Len(lock') : lock'[i] # c
      BY <1>1, <1>2 DEF QueueOK
    <3>. QED  BY <2>1, <3>1
  <2>2. CASE d # c
    <3>1. (\E i \in 1..Len(lock) : lock[i] = d) <=> call'[d].pc \in Waiting
      BY <2>2 DEF QueueOK
    <3>2. (\E i \in 1..Len(lock) : lock[i] = d) => \E i \in 1..Len(lock') : lock'[i] = d
      <4> SUFFICES ASSUME NEW i \in 1..Len(lock), lock[i] = d
                   PROVE  \E j \in 1..Len(lock') : lock'[j] = d
        OBVIOUS
      <4>1. i # 1 /\ i - 1 \in 1..Len(lock') /\ lock'[i - 1] = lock[(i - 1) + 1]
        BY <1>1, <1>2, <2>2
      <4>. QED  BY <4>1
    <3>3. (\E i \in 1..Len(lock') : lock'[i] = d) => \E i \in 1..Len(lock) : lock[i] = d
      <4> SUFFICES ASSUME NEW i \in 1..Len(lock'), lock'[i] = d
                   PROVE  \E j \in 1..Len(lock) : lock[j] = d
        OBVIOUS
      <4>1. i + 1 \in 1..Len(lock) /\ lock[i + 1] = d
        BY <1>1, <1>2
      <4>. QED  BY <4>1
    <3>. QED  BY <3>1, <3>2, <3>3
  <2>. QED  BY <2>1, <2>2
<1>4. \A i, j \in 1..Len(lock') : lock'[i] = lock'[j] => i = j
  <2> SUFFICES ASSUME NEW i \in 1..Len(lock'), NEW j \in 1..Len(lock'), lock'[i] = lock'[j]
               PROVE  i = j
    OBVIOUS
  <2>1. lock[i + 1] = lock[j + 1] /\ i + 1 \in 1..Len(lock) /\ j + 1 \in 1..Len(lock)
    BY <1>1, <1>2
  <2>2. i + 1 = j + 1
    BY <2>1 DEF QueueOK
  <2>. QED  BY <1>1, <1>2, <2>2
<1>5. \A d \in Caller : ~(Fetching(d)')
  BY DEF QueueOK, Fetching, Waiting
<1>. QED  BY <1>2, <1>3, <1>4, <1>5 DEF QueueOK, GetOut

(* The queue stays as it is while its head fetches.                        *)
LEMMA QueueKept ==
  ASSUME QueueOK, CallsOK, NEW c \in Caller, call[c].pc \in Waiting, lock[1] = c,
         lock' = lock, CallsOK', call'[c].pc \in Waiting,
         \A d \in Caller : d # c => call'[d] = call[d]
  PROVE  QueueOK'
  BY DEF QueueOK, Fetching

(* A request joins the queue.                                              *)
LEMMA QueueJoined ==
  ASSUME QueueOK, CallsOK, NEW c \in Caller, call[c].pc \notin Waiting,
         lock' = Append(lock, c), CallsOK', call'[c].pc = "lock",
         \A d \in Caller : d # c => call'[d] = call[d]
  PROVE  QueueOK'
<1>1. lock \in Seq(Caller) /\ Len(lock) \in Nat /\ \A i \in 1..Len(lock) : lock[i] \in Caller
  BY DEF QueueOK
<1>2. /\ lock' \in Seq(Caller) /\ Len(lock') = Len(lock) + 1
      /\ \A i \in 1..Len(lock) : lock'[i] = lock[i]
      /\ lock'[Len(lock) + 1] = c
  BY <1>1
<1>3. \A i \in 1..Len(lock) : lock[i] # c
  BY DEF QueueOK
<1>4. \A d \in Caller : (\E i \in 1..Len(lock') : lock'[i] = d) <=> call'[d].pc \in Waiting
  <2> SUFFICES ASSUME NEW d \in Caller
               PROVE  (\E i \in 1..Len(lock') : lock'[i] = d) <=> call'[d].pc \in Waiting
    OBVIOUS
  <2>1. CASE d = c
    BY <1>1, <1>2, <2>1 DEF Waiting
  <2>2. CASE d # c
    <3>1. (\E i \in 1..Len(lock') : lock'[i] = d) <=> \E i \in 1..Len(lock) : lock[i] = d
      BY <1>1, <1>2, <2>2
    <3>. QED  BY <2>2, <3>1 DEF QueueOK
  <2>. QED  BY <2>1, <2>2
<1>5. \A i, j \in 1..Len(lock') : lock'[i] = lock'[j] => i = j
  <2> SUFFICES ASSUME NEW i \in 1..Len(lock'), NEW j \in 1..Len(lock'), lock'[i] = lock'[j]
               PROVE  i = j
    OBVIOUS
  <2>. QED  BY <1>1, <1>2, <1>3 DEF QueueOK
<1>6. \A d \in Caller : Fetching(d)' => lock'[1] = d
  <2> SUFFICES ASSUME NEW d \in Caller, Fetching(d)' PROVE lock'[1] = d
    OBVIOUS
  <2>1. d # c
    BY DEF Fetching, Calendar!Reasons
  <2>2. Fetching(d) /\ lock[1] = d
    BY <2>1 DEF QueueOK, Fetching
  <2>3. \E i \in 1..Len(lock) : lock[i] = d
    BY <2>2 DEF QueueOK, Fetching, Waiting
  <2>. QED  BY <1>1, <1>2, <2>2, <2>3
<1>. QED  BY <1>2, <1>4, <1>5, <1>6 DEF QueueOK

(* A request that is not the head gives up its place.                      *)
LEMMA QueueLeft ==
  ASSUME QueueOK, CallsOK, NEW c \in Caller, call[c].pc = "lock",
         NEW n \in 2..Len(lock), lock[n] = c,
         lock' = SubSeq(lock, 1, n - 1) \o SubSeq(lock, n + 1, Len(lock)),
         CallsOK', call'[c].pc \notin Waiting,
         \A d \in Caller : d # c => call'[d] = call[d]
  PROVE  QueueOK'
<1>1. lock \in Seq(Caller) /\ Len(lock) \in Nat /\ \A i \in 1..Len(lock) : lock[i] \in Caller
  BY DEF QueueOK
<1>2. /\ lock' \in Seq(Caller) /\ Len(lock') = Len(lock) - 1
      /\ \A i \in 1..Len(lock') : lock'[i] = lock[IF i < n THEN i ELSE i + 1]
  <2>1. /\ SubSeq(lock, 1, n - 1) \in Seq(Caller) /\ Len(SubSeq(lock, 1, n - 1)) = n - 1
        /\ \A i \in 1..n - 1 : SubSeq(lock, 1, n - 1)[i] = lock[i]
    BY <1>1
  <2>2. /\ SubSeq(lock, n + 1, Len(lock)) \in Seq(Caller)
        /\ Len(SubSeq(lock, n + 1, Len(lock))) = Len(lock) - n
        /\ \A i \in 1..Len(lock) - n : SubSeq(lock, n + 1, Len(lock))[i] = lock[n + i]
    BY <1>1
  <2>. QED  BY <1>1, <2>1, <2>2
<1>3. ASSUME NEW d \in Caller, d # c
      PROVE  (\E i \in 1..Len(lock') : lock'[i] = d) <=> \E i \in 1..Len(lock) : lock[i] = d
  <2>1. ASSUME NEW i \in 1..Len(lock), lock[i] = d PROVE \E j \in 1..Len(lock') : lock'[j] = d
    <3>1. i # n
      BY <1>3, <2>1
    <3>2. CASE i < n
      BY <1>1, <1>2, <2>1, <3>2
    <3>3. CASE i > n
      <4>1. i - 1 \in 1..Len(lock') /\ lock'[i - 1] = lock[(i - 1) + 1]
        BY <1>1, <1>2, <3>3
      <4>2. lock[(i - 1) + 1] = lock[i]
        BY <1>1
      <4>. QED  BY <2>1, <4>1, <4>2
    <3>4. i < n \/ i > n
      BY <1>1, <3>1
    <3>. QED  BY <3>2, <3>3, <3>4
  <2>2. ASSUME NEW i \in 1..Len(lock'), lock'[i] = d PROVE \E j \in 1..Len(lock) : lock[j] = d
    BY <1>1, <1>2, <2>2
  <2>. QED  BY <2>1, <2>2
<1>4. \A i \in 1..Len(lock') : lock'[i] # c
  BY <1>1, <1>2 DEF QueueOK
<1>5. \A d \in Caller : (\E i \in 1..Len(lock') : lock'[i] = d) <=> call'[d].pc \in Waiting
  BY <1>3, <1>4 DEF QueueOK
<1>6. \A i, j \in 1..Len(lock') : lock'[i] = lock'[j] => i = j
  <2> SUFFICES ASSUME NEW i \in 1..Len(lock'), NEW j \in 1..Len(lock'), lock'[i] = lock'[j]
               PROVE  i = j
    OBVIOUS
  <2>. DEFINE at(m) == IF m < n THEN m ELSE m + 1
  <2>1. at(i) \in 1..Len(lock) /\ at(j) \in 1..Len(lock) /\ lock[at(i)] = lock[at(j)]
    BY <1>1, <1>2
  <2>2. at(i) = at(j)
    BY <2>1 DEF QueueOK
  <2>. QED  BY <1>1, <1>2, <2>2
<1>7. \A d \in Caller : Fetching(d)' => lock'[1] = d
  <2> SUFFICES ASSUME NEW d \in Caller, Fetching(d)' PROVE lock'[1] = d
    OBVIOUS
  <2>1. d # c
    BY DEF Fetching, Waiting
  <2>2. lock[1] = d
    BY <2>1 DEF QueueOK, Fetching
  <2>. QED  BY <1>1, <1>2, <2>2
<1>. QED  BY <1>2, <1>5, <1>6, <1>7 DEF QueueOK

-----------------------------------------------------------------------------
(* Requests and their responses. *)

(* The response to a request that ended.                                   *)
LEMMA Responded ==
  ASSUME CallsOK, UNCHANGED tool, NEW c \in Caller, NEW r, NEW answer, Respond(c, r, answer)
  PROVE  /\ CallsOK' /\ call'[c] = Idle
         /\ \A d \in Caller : d # c => call'[d] = call[d]
         /\ reply' = [to |-> r, answer |-> answer]
  BY DEF CallsOK, Respond, Idle

(* A request that goes on, without a response.                             *)
LEMMA Proceeded ==
  ASSUME CallsOK, UNCHANGED tool, NEW c \in Caller,
         NEW pc \in {"operation"} \cup Calendar!Reasons, Proceed(c, pc)
  PROVE  /\ CallsOK' /\ call'[c] = [call[c] EXCEPT !.pc = pc, !.waited = FALSE]
         /\ \A d \in Caller : d # c => call'[d] = call[d]
         /\ reply' = Silence
  BY DEF CallsOK, Proceed

(* Whatever is wrong with a request, it is answered, and never by "unknown *)
(* kid".                                                                   *)
LEMMA FlawsAnswered ==
  ASSUME NEW t, NEW flaw
  PROVE  AnswerTo(t, flaw) \in Answers \ {"kid_unknown"}
  BY DEF AnswerTo, CalendarAnswer, SmsAnswer, Answers

(* The lookup sends a GET and its request waits for it, or it releases the *)
(* lock, and its request goes on only with a key.                          *)
LEMMA Continued ==
  ASSUME CallsOK, QueueOK, UNCHANGED tool, NEW c \in Caller, call[c].pc \in Waiting, lock[1] = c,
         NEW result, result.to \in Calendar!Reasons \cup Calendar!Ends,
         NEW before, Continue(c, result, before)
  PROVE  /\ CallsOK' /\ QueueOK' /\ reply'.answer \in Answers
         /\ cache' = result.cache
         /\ \A d \in Caller : d # c => call'[d] = call[d]
         /\ call'[c].pc = "operation" =>
              result.to = "key" /\ call'[c].request = call[c].request
         /\ reply'.answer = "kid_unknown" =>
              result.to = "none" /\ reply'.to = call[c].request
         /\ result.to \in Calendar!Reasons =>
              /\ gets' = <<[age |-> 0, ok |-> FALSE], before[1]>>
              /\ call'[c].pc = result.to
         /\ result.to \notin Calendar!Reasons => gets' = before /\ ~GetOut'
<1>1. cache' = result.cache
  BY DEF Continue
<1>2. CASE result.to \in Calendar!Reasons
  <2>1. /\ gets' = <<[age |-> 0, ok |-> FALSE], before[1]>>
        /\ Proceed(c, result.to) /\ lock' = lock
    BY <1>2 DEF Continue
  <2>2. /\ CallsOK' /\ call'[c] = [call[c] EXCEPT !.pc = result.to, !.waited = FALSE]
        /\ \A d \in Caller : d # c => call'[d] = call[d]
        /\ reply' = Silence
    BY <1>2, <2>1, Proceeded
  <2>3. call'[c].pc = result.to /\ call'[c].pc \in Waiting
    BY <1>2, <2>2 DEF CallsOK, Waiting
  <2>4. QueueOK'
    BY <2>1, <2>2, <2>3, QueueKept
  <2>. QED  BY <1>1, <1>2, <2>1, <2>2, <2>3, <2>4 DEF Silence, Answers, Calendar!Reasons
<1>3. CASE result.to = "key" /\ Failing(AfterKey(tool), call[c].request) = {}
  <2>1. gets' = before /\ lock' = Tail(lock) /\ Proceed(c, "operation")
    BY <1>3 DEF Continue, Checked, Calendar!Reasons
  <2>2. /\ CallsOK' /\ call'[c] = [call[c] EXCEPT !.pc = "operation", !.waited = FALSE]
        /\ \A d \in Caller : d # c => call'[d] = call[d]
        /\ reply' = Silence
    BY <2>1, Proceeded
  <2>3. /\ call'[c].pc = "operation" /\ call'[c].request = call[c].request
        /\ call'[c].pc \notin Waiting
    BY <2>2 DEF CallsOK, Waiting, Calendar!Reasons
  <2>4. QueueOK' /\ ~GetOut'
    BY <2>1, <2>2, <2>3, QueueReleased
  <2>. QED  BY <1>1, <1>3, <2>1, <2>2, <2>3, <2>4 DEF Silence, Answers, Calendar!Reasons
<1>4. ASSUME result.to \notin Calendar!Reasons, NEW answer \in Answers,
             answer = "kid_unknown" => result.to = "none",
             gets' = before, lock' = Tail(lock), Respond(c, call[c].request, answer)
      PROVE  /\ CallsOK' /\ QueueOK' /\ reply'.answer \in Answers
             /\ \A d \in Caller : d # c => call'[d] = call[d]
             /\ call'[c].pc = "idle"
             /\ reply'.answer = "kid_unknown" =>
                  result.to = "none" /\ reply'.to = call[c].request
             /\ gets' = before /\ ~GetOut'
  <2>1. /\ CallsOK' /\ call'[c] = Idle
        /\ \A d \in Caller : d # c => call'[d] = call[d]
        /\ reply' = [to |-> call[c].request, answer |-> answer]
    BY <1>4, Responded
  <2>2. call'[c].pc = "idle" /\ call'[c].pc \notin Waiting
    BY <2>1 DEF Idle, Waiting, Calendar!Reasons
  <2>3. QueueOK' /\ ~GetOut'
    BY <1>4, <2>1, <2>2, QueueReleased
  <2>. QED  BY <1>4, <2>1, <2>2, <2>3
<1>5. CASE result.to = "key" /\ Failing(AfterKey(tool), call[c].request) # {}
  <2>. DEFINE answer == AnswerTo(tool, FirstFlaw(AfterKey(tool), call[c].request))
  <2>1. gets' = before /\ lock' = Tail(lock) /\ Respond(c, call[c].request, answer)
    BY <1>5 DEF Continue, Checked, Calendar!Reasons
  <2>2. answer \in Answers /\ answer # "kid_unknown" /\ result.to \notin Calendar!Reasons
    BY <1>5, FlawsAnswered DEF Calendar!Reasons
  <2>. HIDE DEF answer
  <2>. QED  BY <1>1, <1>4, <1>5, <2>1, <2>2
<1>6. CASE result.to \in {"none", "unreachable"}
  <2>. DEFINE answer == NoKeyAnswer(result.to)
  <2>1. gets' = before /\ lock' = Tail(lock) /\ Respond(c, call[c].request, answer)
    BY <1>6 DEF Continue, Calendar!Reasons
  <2>2. /\ answer \in Answers /\ result.to \notin Calendar!Reasons
        /\ answer = "kid_unknown" => result.to = "none"
    BY <1>6 DEF NoKeyAnswer, Answers, Calendar!Reasons
  <2>. HIDE DEF answer
  <2>. QED  BY <1>1, <1>4, <1>6, <2>1, <2>2
<1>. QED  BY <1>2, <1>3, <1>5, <1>6 DEF Calendar!Ends

-----------------------------------------------------------------------------
(* The three properties, step by step. *)

KeyAge(k) == IF k \in published THEN 0 ELSE since[k]

(* A request c that goes on to its operation has a fresh key.              *)
Fresh(c) ==
  call[c].pc # "operation" /\ call'[c].pc = "operation" =>
    IF tool = "calendar"
    THEN /\ KeyAge(call'[c].request.kid) < JWKS_MAX_STALE_AGE
         /\ KeyAge(call'[c].request.kid) >= JWKS_MAX_AGE =>
              Recent(cache'.failed, JWKS_RETRY_AFTER_FAILURE)
    ELSE KeyAge(call'[c].request.kid) >= JWKS_MAX_AGE_SECONDS => cache'.last_failed

(* A request that sends a GET keeps the distance.                          *)
Spaced(c) ==
  ~Fetching(c) /\ Fetching(c)' =>
    IF tool = "calendar"
    THEN /\ Recent(gets[1].age, JWKS_RETRY_AFTER_FAILURE) => gets[1].ok
         /\ Recent(gets[2].age, UNKNOWN_KID_REFRESH_INTERVAL) => ~(gets[1].ok /\ gets[2].ok)
    ELSE ~Recent(gets[1].age, UNKNOWN_KID_REFRESH_SECONDS)

Good == \A c \in Caller : Fresh(c) /\ Spaced(c)

(* A held key is at most as old as the key set.                            *)
LEMMA HeldKeys ==
  ASSUME TenantOK, CacheType, KeysOK, NEW k \in cache.keys
  PROVE  /\ KeyAge(k) \in Nat /\ cache.fetched \in Nat
         /\ tool = "calendar" => KeyAge(k) <= cache.fetched
         /\ tool = "sms" => KeyAge(k) <= cache.fetched \/ cache.fetched >= JWKS_MAX_AGE_SECONDS
<1>1. k \in Kid /\ cache.fetched \in Nat
  BY GatewayAssumption DEF CacheType, KeysOK, CalendarKeys, SmsKeys, Ages, Never
<1>2. k \notin published => k \in Rotating /\ since[k] \in Nat
  BY <1>1, GatewayAssumption DEF TenantOK, Rotating, Longest
<1>. QED  BY <1>1, <1>2, GatewayAssumption DEF TenantOK, KeysOK, CalendarKeys, SmsKeys, KeyAge

(* Out of time after another one's GET: that GET has just answered, or has *)
(* just failed.                                                            *)
LEMMA LateMeans ==
  ASSUME CacheType, GetsOK, KeysOK, tool = "calendar", ~GetOut, Recent(gets[1].age, FetchTicks + 1)
  PROVE  \/ cache.fetched \in 0..FetchTicks
         \/ cache.failed \in 0..FetchTicks
  BY GatewayAssumption DEF CacheType, GetsOK, KeysOK, CalendarGets, Recent, Ages, Never

(* What holds of the head of the queue before it looks its key up.         *)
LEMMA AtHead ==
  ASSUME CallsOK, QueueOK, NEW c \in Caller, call[c].pc = "lock", Head(lock) = c
  PROVE  ~GetOut /\ call[c].pc \in Waiting /\ lock[1] = c
<1>1. lock[1] = c
  BY DEF QueueOK
<1>. QED  BY <1>1 DEF QueueOK, GetOut, Fetching, Waiting, Calendar!Reasons

(* A GET leaves. *)
LEMMA GetPushed ==
  ASSUME NEW last \in [age : Ages(UNKNOWN_KID_REFRESH_INTERVAL), ok : BOOLEAN],
         last.age = Never => ~last.ok,
         gets' = <<[age |-> 0, ok |-> FALSE], last>>
  PROVE  GetsOK'
<1>. USE GatewayAssumption
<1>1. gets'[1] = [age |-> 0, ok |-> FALSE] /\ gets'[2] = last
  OBVIOUS
<1>2. DOMAIN gets' = 1..2
  OBVIOUS
<1>. QED  BY <1>1, <1>2 DEF GetsOK, Ages, Never

(* The tenant stays as it is. *)
LEMMA TenantKept == TenantOK /\ UNCHANGED <<tool, tenant>> => TenantOK'
  BY DEF TenantOK, tenant, Rotating, Longest

(* The calendar's lookup.                                                  *)
LEMMA CalendarGetKey ==
  ASSUME GatewayInv, tool = "calendar", NEW c \in Caller, get_key(c)
  PROVE  GatewayInv' /\ Good /\ RotatedKeyIsKnown'
<1>. DEFINE kid == call[c].request.kid
<1>1. PICK late \in {FALSE, call[c].waited /\ Recent(gets[1].age, FetchTicks + 1)} :
        Continue(c, Calendar!_get_key_locked(cache, kid, late), gets)
  BY DEF get_key
<1>. DEFINE result == Calendar!_get_key_locked(cache, kid, late)
<1>2. cache \in CalendarCache /\ late \in BOOLEAN
  BY DEF GatewayInv, CacheType, CalendarCache, CallsOK
<1>3. /\ result.to \in Calendar!Reasons \cup Calendar!Ends
      /\ result.to \in {"first", "age", "key", "none"} => result.cache = cache
      /\ result.to = "kid" => result.cache = [cache EXCEPT !.kid_refresh = 0]
      /\ result.to = "unreachable" =>
           \/ result.cache = cache
           \/ /\ result.cache = [cache EXCEPT !.kid_refresh = 0]
              /\ cache.fetched # Never
              /\ Recent(cache.failed, JWKS_RETRY_AFTER_FAILURE) \/ late
      /\ result.to \in Calendar!Reasons => ~Recent(cache.failed, JWKS_RETRY_AFTER_FAILURE)
      /\ result.to = "first" => cache.fetched = Never
      /\ result.to = "age" => cache.fetched >= JWKS_MAX_AGE
      /\ result.to = "kid" => /\ cache.fetched # Never
                              /\ ~Recent(cache.kid_refresh, UNKNOWN_KID_REFRESH_INTERVAL)
      /\ result.to = "key" =>
           /\ kid \in cache.keys
           /\ cache.fetched # Never /\ cache.fetched < JWKS_MAX_STALE_AGE
           /\ cache.fetched >= JWKS_MAX_AGE =>
                Recent(cache.failed, JWKS_RETRY_AFTER_FAILURE) \/ late
      /\ result.to = "none" =>
           /\ kid \notin cache.keys
           /\ Recent(cache.kid_refresh, UNKNOWN_KID_REFRESH_INTERVAL)
  BY <1>2, CalendarLookup
<1>. HIDE DEF result
<1>4. /\ ~GetOut /\ call[c].pc = "lock" /\ call[c].pc \in Waiting /\ lock[1] = c
      /\ UNCHANGED <<tool, tenant>>
  BY AtHead DEF get_key, GatewayInv
<1>5. /\ CallsOK' /\ QueueOK' /\ reply'.answer \in Answers
      /\ cache' = result.cache
      /\ \A d \in Caller : d # c => call'[d] = call[d]
      /\ call'[c].pc = "operation" =>
           result.to = "key" /\ call'[c].request = call[c].request
      /\ reply'.answer = "kid_unknown" =>
           result.to = "none" /\ reply'.to = call[c].request
      /\ result.to \in Calendar!Reasons =>
           /\ gets' = <<[age |-> 0, ok |-> FALSE], gets[1]>>
           /\ call'[c].pc = result.to
      /\ result.to \notin Calendar!Reasons => gets' = gets /\ ~GetOut'
  BY <1>1, <1>3, <1>4, Continued DEF GatewayInv, result
<1>6. late => \/ cache.fetched \in 0..FetchTicks
              \/ cache.failed \in 0..FetchTicks
  BY <1>4, LateMeans DEF GatewayInv
<1>. USE GatewayAssumption
<1>7. CacheType'
  BY <1>2, <1>3, <1>4, <1>5
     DEF CacheType, CalendarCache, Ages, Calendar!Reasons, Calendar!Ends
<1>8. GetsOK'
  <2>1. CASE result.to \in Calendar!Reasons
    <3>1. gets' = <<[age |-> 0, ok |-> FALSE], gets[1]>>
      BY <1>5, <2>1
    <3>2. /\ gets[1] \in [age : Ages(UNKNOWN_KID_REFRESH_INTERVAL), ok : BOOLEAN]
          /\ gets[1].age = Never => ~gets[1].ok
      BY DEF GatewayInv, GetsOK
    <3>. QED  BY <3>1, <3>2, GetPushed
  <2>2. CASE result.to \notin Calendar!Reasons
    BY <1>5, <2>2 DEF GatewayInv, GetsOK
  <2>. QED  BY <2>1, <2>2
<1>9. CalendarKeys'
  <2>1. /\ cache'.keys = cache.keys /\ cache'.fetched = cache.fetched
        /\ cache'.failed = cache.failed
        /\ cache'.kid_refresh \in {cache.kid_refresh, 0}
    BY <1>2, <1>3, <1>5 DEF CalendarCache, Calendar!Reasons, Calendar!Ends
  <2>2. ASSUME ~GetOut', cache'.kid_refresh # Never, NEW k \in Missing
        PROVE  since[k] <= cache'.kid_refresh + JWKS_RETRY_AFTER_FAILURE
    <3>1. result.to \notin Calendar!Reasons
      BY <1>5, <2>2 DEF GetOut, Fetching
    <3>2. CASE cache' = cache
      BY <1>4, <2>2, <3>2 DEF GatewayInv, KeysOK, CalendarKeys
    <3>3. CASE cache' # cache
      <4>1. /\ cache'.kid_refresh = 0 /\ cache.fetched # Never
            /\ Recent(cache.failed, JWKS_RETRY_AFTER_FAILURE) \/ late
        BY <1>2, <1>3, <1>5, <3>1, <3>3 DEF CalendarCache, Calendar!Reasons, Calendar!Ends
      <4>2. /\ since[k] <= cache.fetched
            /\ cache.failed # Never => since[k] <= cache.failed
        BY <2>2, <4>1 DEF GatewayInv, KeysOK, CalendarKeys, Missing
      <4>3. since[k] \in Nat
        BY <2>2 DEF GatewayInv, TenantOK, Missing, Longest
      <4>. QED  BY <1>2, <1>6, <4>1, <4>2, <4>3 DEF Recent, CalendarCache, Ages, Never
    <3>. QED  BY <3>2, <3>3
  <2>. QED  BY <1>4, <2>1, <2>2
            DEF GatewayInv, KeysOK, CalendarKeys, Missing, Rotating, tenant
<1>10. CalendarGets'
  <2>1. CASE result.to \in Calendar!Reasons
    <3>1. GetOut'
      BY <1>5, <2>1 DEF GetOut, Fetching
    <3>2. gets'[2] = gets[1] /\ cache'.fetched = cache.fetched
      BY <1>2, <1>3, <1>5, <2>1 DEF CalendarCache, Calendar!Reasons
    <3>3. gets[1].ok => gets[1].age # Never
      BY DEF GatewayInv, GetsOK
    <3>4. gets[1].ok /\ gets[1].age < UNKNOWN_KID_REFRESH_INTERVAL =>
            result.to = "kid"
      BY <1>3, <1>4, <2>1, <3>3 DEF GatewayInv, KeysOK, CalendarGets, CacheType, Ages, Never,
                             Calendar!Reasons, GetsOK
    <3>5. result.to = "kid" => cache'.kid_refresh = 0
      BY <1>2, <1>3, <1>5 DEF CalendarCache
    <3>. QED  BY <1>4, <3>1, <3>2, <3>3, <3>4, <3>5
              DEF GatewayInv, KeysOK, CalendarGets, GetsOK, Ages, Never
  <2>2. CASE result.to \notin Calendar!Reasons
    <3>1. /\ cache'.fetched = cache.fetched /\ cache'.failed = cache.failed
          /\ cache'.kid_refresh \in {cache.kid_refresh, 0}
      BY <1>2, <1>3, <1>5 DEF CalendarCache, Calendar!Reasons, Calendar!Ends
    <3>. QED  BY <1>4, <1>5, <2>2, <3>1
              DEF GatewayInv, KeysOK, CalendarGets, GetsOK, Ages, Never
  <2>. QED  BY <2>1, <2>2
<1>11. ASSUME NEW d \in Caller PROVE Fresh(d)
  <2> SUFFICES ASSUME call[d].pc # "operation", call'[d].pc = "operation" PROVE Fresh(d)
    BY DEF Fresh
  <2>1. d = c /\ result.to = "key" /\ call'[c].request = call[c].request
    BY <1>5
  <2>2. /\ kid \in cache.keys
        /\ cache.fetched # Never /\ cache.fetched < JWKS_MAX_STALE_AGE
        /\ cache.fetched >= JWKS_MAX_AGE => Recent(cache.failed, JWKS_RETRY_AFTER_FAILURE) \/ late
        /\ cache' = cache
    BY <1>3, <1>5, <2>1
  <2>3. KeyAge(kid) \in Nat /\ cache.fetched \in Nat /\ KeyAge(kid) <= cache.fetched
    BY <2>2, HeldKeys DEF GatewayInv
  <2>4. cache.fetched >= JWKS_MAX_AGE => Recent(cache.failed, JWKS_RETRY_AFTER_FAILURE)
    BY <1>6, <2>2, <2>3 DEF Recent, Never
  <2>. QED  BY <2>1, <2>2, <2>3, <2>4 DEF Fresh
<1>12. ASSUME NEW d \in Caller PROVE Spaced(d)
  <2> SUFFICES ASSUME ~Fetching(d), Fetching(d)' PROVE Spaced(d)
    BY DEF Spaced
  <2>1. result.to \in Calendar!Reasons
    BY <1>5 DEF GetOut, Fetching
  <2>2. ~Recent(cache.failed, JWKS_RETRY_AFTER_FAILURE)
    BY <1>3, <2>1
  <2>3. Recent(gets[1].age, JWKS_RETRY_AFTER_FAILURE) => gets[1].ok
    BY <1>4, <2>2 DEF GatewayInv, KeysOK, CalendarGets, Recent
  <2>4. ASSUME Recent(gets[2].age, UNKNOWN_KID_REFRESH_INTERVAL), gets[1].ok, gets[2].ok
        PROVE  FALSE
    <3>1. /\ gets[1].age \in Nat /\ gets[1].age < UNKNOWN_KID_REFRESH_INTERVAL
          /\ gets[2].age \in Nat /\ gets[2].age < UNKNOWN_KID_REFRESH_INTERVAL
      BY <2>4 DEF GatewayInv, GetsOK, Recent, Ages, Never
    <3>2. cache.fetched = gets[1].age
      BY <1>4, <2>4, <3>1 DEF GatewayInv, KeysOK, CalendarGets, Never
    <3>3. Recent(cache.kid_refresh, UNKNOWN_KID_REFRESH_INTERVAL)
      BY <1>2, <2>4, <3>1 DEF GatewayInv, KeysOK, CalendarGets, Recent, CalendarCache, Ages, Never
    <3>. QED  BY <1>3, <2>1, <3>1, <3>2, <3>3 DEF Calendar!Reasons, Never
  <2>. QED  BY <2>3, <2>4 DEF Spaced
<1>13. RotatedKeyIsKnown'
  <2> SUFFICES ASSUME reply'.answer = "kid_unknown", reply'.to.kid \in published' \ Lasting
               PROVE  since'[reply'.to.kid] <
                        UNKNOWN_KID_REFRESH_INTERVAL + JWKS_RETRY_AFTER_FAILURE
    BY <1>4 DEF RotatedKeyIsKnown
  <2>1. result.to = "none" /\ reply'.to.kid = kid
    BY <1>5
  <2>2. kid \notin cache.keys /\ Recent(cache.kid_refresh, UNKNOWN_KID_REFRESH_INTERVAL)
    BY <1>3, <2>1
  <2>3. kid \in Missing /\ since[kid] \in Nat
    BY <1>4, <2>1, <2>2 DEF GatewayInv, TenantOK, Missing, Rotating, tenant, Longest
  <2>4. since[kid] <= cache.kid_refresh + JWKS_RETRY_AFTER_FAILURE
    BY <1>4, <2>2, <2>3 DEF GatewayInv, KeysOK, CalendarKeys, Recent
  <2>. QED  BY <1>2, <1>4, <2>1, <2>2, <2>3, <2>4 DEF tenant, CalendarCache, Ages, Recent, Never
<1>. QED
  BY <1>4, <1>5, <1>6, <1>7, <1>8, <1>9, <1>10, <1>11, <1>12, <1>13, TenantKept
     DEF GatewayInv, KeysOK, Good

(* The SMS tool's lookup. *)
LEMMA SmsGetKey ==
  ASSUME GatewayInv, tool = "sms", NEW c \in Caller, get_key(c)
  PROVE  GatewayInv' /\ Good /\ RotatedKeyIsKnown'
<1>. DEFINE kid == call[c].request.kid
<1>1. PICK late \in {FALSE, call[c].waited /\ Recent(gets[1].age, FetchTicks + 1)} :
        Continue(c, Sms!get_key(cache, kid, late), gets)
  BY DEF get_key
<1>. DEFINE result == Sms!get_key(cache, kid, late)
<1>2. cache \in SmsCache /\ late \in BOOLEAN
  BY DEF GatewayInv, CacheType, SmsCache, CallsOK
<1>3. /\ result.to \in Calendar!Reasons \cup Calendar!Ends
      /\ result.to \in Calendar!Reasons =>
           /\ result.cache = [cache EXCEPT !.last_failed = TRUE, !.attempted = 0]
           /\ ~Recent(cache.attempted, UNKNOWN_KID_REFRESH_SECONDS)
      /\ result.to \notin Calendar!Reasons =>
           result.cache \in {cache, [cache EXCEPT !.last_failed = TRUE]}
      /\ result.to = "key" =>
           /\ kid \in cache.keys
           /\ cache.fetched >= JWKS_MAX_AGE_SECONDS =>
                \/ result.cache.last_failed
                \/ Recent(cache.attempted, UNKNOWN_KID_REFRESH_SECONDS)
      /\ result.to = "none" =>
           /\ kid \notin cache.keys
           /\ Recent(cache.attempted, UNKNOWN_KID_REFRESH_SECONDS)
  <2>1. ~cache.last_failed /\ cache.attempted # Never => cache.fetched # Never
    BY DEF GatewayInv, KeysOK, SmsKeys
  <2>. QED  BY <1>2, <2>1, SmsLookup
<1>. HIDE DEF result
<1>4. /\ ~GetOut /\ call[c].pc = "lock" /\ call[c].pc \in Waiting /\ lock[1] = c
      /\ UNCHANGED <<tool, tenant>>
  BY AtHead DEF get_key, GatewayInv
<1>5. /\ CallsOK' /\ QueueOK' /\ reply'.answer \in Answers
      /\ cache' = result.cache
      /\ \A d \in Caller : d # c => call'[d] = call[d]
      /\ call'[c].pc = "operation" =>
           result.to = "key" /\ call'[c].request = call[c].request
      /\ reply'.answer = "kid_unknown" =>
           result.to = "none" /\ reply'.to = call[c].request
      /\ result.to \in Calendar!Reasons =>
           /\ gets' = <<[age |-> 0, ok |-> FALSE], gets[1]>>
           /\ call'[c].pc = result.to
      /\ result.to \notin Calendar!Reasons => gets' = gets /\ ~GetOut'
  BY <1>1, <1>3, <1>4, Continued DEF GatewayInv, result
<1>. USE GatewayAssumption
<1>6. /\ cache'.keys = cache.keys /\ cache'.fetched = cache.fetched
      /\ cache.last_failed => cache'.last_failed
      /\ result.to \notin Calendar!Reasons => cache'.attempted = cache.attempted
      /\ result.to \in Calendar!Reasons => cache'.attempted = 0 /\ cache'.last_failed
      /\ cache' \in SmsCache
  <2>1. CASE result.to \in Calendar!Reasons
    <3>1. cache' = [cache EXCEPT !.last_failed = TRUE, !.attempted = 0]
      BY <1>3, <1>5, <2>1
    <3>2. cache' \in SmsCache
      <4>1. 0 \in Ages(UNKNOWN_KID_REFRESH_SECONDS) /\ TRUE \in BOOLEAN
        BY DEF Ages
      <4>. QED  BY <1>2, <3>1, <4>1 DEF SmsCache
    <3>3. /\ cache'.keys = cache.keys /\ cache'.fetched = cache.fetched
          /\ cache'.attempted = 0 /\ cache'.last_failed = TRUE
      BY <1>2, <3>1 DEF SmsCache
    <3>. QED  BY <2>1, <3>2, <3>3
  <2>2. CASE result.to \notin Calendar!Reasons /\ cache' = cache
    BY <1>2, <2>2
  <2>3. CASE result.to \notin Calendar!Reasons /\ cache' = [cache EXCEPT !.last_failed = TRUE]
    BY <1>2, <2>3 DEF SmsCache
  <2>. QED  BY <1>3, <1>5, <2>1, <2>2, <2>3
<1>7. CacheType'
  BY <1>4, <1>6 DEF CacheType, SmsCache
<1>8. GetsOK'
  <2>1. CASE result.to \in Calendar!Reasons
    <3>1. gets' = <<[age |-> 0, ok |-> FALSE], gets[1]>>
      BY <1>5, <2>1
    <3>2. /\ gets[1] \in [age : Ages(UNKNOWN_KID_REFRESH_INTERVAL), ok : BOOLEAN]
          /\ gets[1].age = Never => ~gets[1].ok
      BY DEF GatewayInv, GetsOK
    <3>. QED  BY <3>1, <3>2, GetPushed
  <2>2. CASE result.to \notin Calendar!Reasons
    BY <1>5, <2>2 DEF GatewayInv, GetsOK
  <2>. QED  BY <2>1, <2>2
<1>9. result.to \in Calendar!Reasons => GetOut'
  BY <1>5 DEF GetOut, Fetching
<1>10. SmsKeys'
  <2>1. result.to \in Calendar!Reasons \/ cache'.attempted = cache.attempted
    BY <1>6
  <2>. QED  BY <1>4, <1>6, <1>9, <2>1
            DEF GatewayInv, KeysOK, SmsKeys, Missing, Rotating, tenant
<1>11. SmsGets'
  <2>1. CASE result.to \in Calendar!Reasons
    BY <1>5, <1>6, <2>1 DEF SmsGets
  <2>2. CASE result.to \notin Calendar!Reasons
    BY <1>5, <1>6, <2>2 DEF GatewayInv, KeysOK, SmsGets
  <2>. QED  BY <2>1, <2>2
<1>12. ASSUME NEW d \in Caller PROVE Fresh(d)
  <2> SUFFICES ASSUME call[d].pc # "operation", call'[d].pc = "operation",
                      KeyAge(kid) >= JWKS_MAX_AGE_SECONDS
               PROVE  d = c /\ call'[c].request = call[c].request /\ cache'.last_failed
    BY <1>5 DEF Fresh
  <2>1. d = c /\ result.to = "key" /\ call'[c].request = call[c].request
    BY <1>5
  <2>2. kid \in cache.keys
    BY <1>3, <2>1
  <2>3. KeyAge(kid) \in Nat /\ cache.fetched \in Nat /\ cache.fetched >= JWKS_MAX_AGE_SECONDS
    BY <2>2, HeldKeys DEF GatewayInv
  <2>4. CASE Recent(cache.attempted, UNKNOWN_KID_REFRESH_SECONDS)
    <3>1. cache.attempted # Never /\ cache.attempted < JWKS_MAX_AGE_SECONDS
      BY <1>2, <2>4 DEF Recent, SmsCache, Ages, Never
    <3>2. cache.last_failed
      BY <1>2, <2>3, <3>1 DEF GatewayInv, KeysOK, SmsKeys, SmsCache, Ages, Never
    <3>. QED  BY <1>6, <2>1, <3>2
  <2>5. CASE result.cache.last_failed
    BY <1>5, <2>1, <2>5
  <2>. QED  BY <1>3, <2>1, <2>3, <2>4, <2>5
<1>13. ASSUME NEW d \in Caller PROVE Spaced(d)
  <2> SUFFICES ASSUME ~Fetching(d), Fetching(d)' PROVE Spaced(d)
    BY DEF Spaced
  <2>1. result.to \in Calendar!Reasons
    BY <1>5 DEF GetOut, Fetching
  <2>. QED  BY <1>3, <2>1 DEF GatewayInv, KeysOK, SmsGets, Spaced
<1>14. RotatedKeyIsKnown'
  <2> SUFFICES ASSUME reply'.answer = "kid_unknown", reply'.to.kid \in published' \ Lasting
               PROVE  since'[reply'.to.kid] < UNKNOWN_KID_REFRESH_SECONDS
    BY <1>4 DEF RotatedKeyIsKnown
  <2>1. result.to = "none" /\ reply'.to.kid = kid
    BY <1>5
  <2>2. kid \notin cache.keys /\ Recent(cache.attempted, UNKNOWN_KID_REFRESH_SECONDS)
    BY <1>3, <2>1
  <2>3. kid \in Missing /\ since[kid] \in Nat
    BY <1>4, <2>1, <2>2 DEF GatewayInv, TenantOK, Missing, Rotating, tenant, Longest
  <2>4. since[kid] <= cache.attempted
    BY <1>4, <2>2, <2>3 DEF GatewayInv, KeysOK, SmsKeys, Recent
  <2>. QED  BY <1>2, <1>4, <2>1, <2>2, <2>3, <2>4 DEF tenant, SmsCache, Ages, Recent, Never
<1>. QED
  BY <1>4, <1>5, <1>6, <1>7, <1>8, <1>10, <1>11, <1>12, <1>13, <1>14, TenantKept
     DEF GatewayInv, KeysOK, Good

-----------------------------------------------------------------------------
(* The end of a GET. *)

(* What holds while a GET is out. *)
LEMMA GetIsOut ==
  ASSUME GatewayInv, NEW c \in Caller, Fetching(c)
  PROVE  /\ GetOut /\ lock[1] = c /\ call[c].pc \in Waiting /\ call[c].pc # "operation"
         /\ gets[1].age \in 0..FetchTicks /\ ~gets[1].ok
         /\ tool = "sms" => cache.attempted = gets[1].age /\ cache.last_failed
<1>1. /\ GetOut /\ lock[1] = c /\ call[c].pc \in Waiting /\ call[c].pc # "operation"
      /\ gets[1].age \in 0..FetchTicks /\ ~gets[1].ok
  BY DEF GatewayInv, GetOut, QueueOK, GetsOK, Fetching, Waiting, Calendar!Reasons
<1>. QED  BY <1>1, GatewayAssumption DEF GatewayInv, KeysOK, SmsGets, Recent, Never

(* Whoever ends a GET sends none, and nobody else goes on. *)
LEMMA EndingIsGood ==
  ASSUME NEW c \in Caller, Fetching(c), Fresh(c),
         \A d \in Caller : d # c => call'[d] = call[d]
  PROVE  Good
<1>1. ASSUME NEW d \in Caller, d # c PROVE Fresh(d) /\ Spaced(d)
  BY <1>1 DEF Fresh, Spaced, Fetching
<1>2. Spaced(c)
  BY DEF Spaced
<1>. QED  BY <1>1, <1>2 DEF Good

(* The GET that is out has answered. *)
LEMMA GetAnswered ==
  ASSUME GatewayInv, GetOut, gets' = [gets EXCEPT ![1].ok = TRUE], ~GetOut'
  PROVE  /\ GetsOK'
         /\ gets'[1].age = gets[1].age /\ gets'[1].ok /\ gets'[2] = gets[2]
<1>1. /\ DOMAIN gets = 1..2 /\ gets[1].age \in 0..FetchTicks
      /\ \A i \in 1..2 : gets[i] \in [age : Ages(UNKNOWN_KID_REFRESH_INTERVAL), ok : BOOLEAN]
  BY DEF GatewayInv, GetsOK
<1>2. /\ DOMAIN gets' = 1..2 /\ gets'[2] = gets[2]
      /\ gets'[1] = [gets[1] EXCEPT !.ok = TRUE]
  BY <1>1
<1>3. /\ gets'[1].age = gets[1].age /\ gets'[1].ok
      /\ gets'[1] \in [age : Ages(UNKNOWN_KID_REFRESH_INTERVAL), ok : BOOLEAN]
  <2>1. ASSUME NEW A, NEW g \in [age : A, ok : BOOLEAN], NEW h, h = [g EXCEPT !.ok = TRUE]
        PROVE  h.age = g.age /\ h.ok /\ h \in [age : A, ok : BOOLEAN]
    BY <2>1
  <2>. QED  BY <1>1, <1>2, <2>1
<1>4. gets[1].age # Never
  BY <1>1, GatewayAssumption DEF Never
<1>. QED  BY <1>1, <1>2, <1>3, <1>4 DEF GatewayInv, GetsOK

(* The calendar's GET answers: the cache holds what the tenant publishes.  *)
LEMMA CalendarAnswers ==
  ASSUME GatewayInv, tool = "calendar", NEW c \in Caller, FetchAnswers(c)
  PROVE  GatewayInv' /\ Good /\ RotatedKeyIsKnown'
<1>. DEFINE kid == call[c].request.kid
            result == Calendar!Fetched(cache, kid, published, gets[1].age)
            before == [gets EXCEPT ![1].ok = TRUE]
<1>1. Continue(c, result, before) /\ UNCHANGED <<tool, tenant>> /\ Fetching(c)
  BY DEF FetchAnswers
<1>2. /\ result.cache = [cache EXCEPT !.keys = published, !.fetched = gets[1].age, !.failed = Never]
      /\ result.to = IF kid \in result.cache.keys THEN "key" ELSE "none"
  BY CalendarFetched
<1>3. cache \in CalendarCache
  BY DEF GatewayInv, CacheType, CalendarCache
<1>. HIDE DEF result
<1>4. result.to \in Calendar!Ends /\ result.to \notin Calendar!Reasons
  BY <1>2 DEF Calendar!Ends, Calendar!Reasons
<1>5. /\ lock[1] = c /\ call[c].pc \in Waiting
      /\ gets[1].age \in 0..FetchTicks
  BY <1>1, GetIsOut
<1>6. /\ CallsOK' /\ QueueOK' /\ reply'.answer \in Answers
      /\ cache' = result.cache
      /\ \A d \in Caller : d # c => call'[d] = call[d]
      /\ call'[c].pc = "operation" =>
           result.to = "key" /\ call'[c].request = call[c].request
      /\ reply'.answer = "kid_unknown" =>
           result.to = "none" /\ reply'.to = call[c].request
      /\ gets' = before /\ ~GetOut'
  BY <1>1, <1>4, <1>5, Continued DEF GatewayInv
<1>. USE GatewayAssumption
<1>7. /\ cache' \in CalendarCache
      /\ cache'.keys = published /\ cache'.fetched = gets[1].age /\ cache'.failed = Never
      /\ cache'.kid_refresh = cache.kid_refresh
  <2>1. /\ published \in SUBSET Kid
        /\ gets[1].age \in Ages(JWKS_MAX_STALE_AGE)
        /\ Never \in Ages(JWKS_RETRY_AFTER_FAILURE)
    BY <1>5 DEF GatewayInv, TenantOK, Ages
  <2>2. cache' = [cache EXCEPT !.keys = published, !.fetched = gets[1].age, !.failed = Never]
    BY <1>2, <1>6
  <2>. QED  BY <1>3, <2>1, <2>2 DEF CalendarCache
<1>8. GetsOK' /\ gets'[1].age = gets[1].age /\ gets'[1].ok /\ gets'[2] = gets[2]
  BY <1>1, <1>6, GetIsOut, GetAnswered
<1>9. CacheType'
  BY <1>1, <1>7 DEF CacheType, CalendarCache
<1>10. CalendarKeys'
  <2>1. Missing' = {} /\ cache'.keys = published'
    BY <1>1, <1>7 DEF Missing, tenant
  <2>. QED  BY <1>5, <1>7, <2>1 DEF CalendarKeys, Never
<1>11. CalendarGets'
  BY <1>5, <1>6, <1>7, <1>8 DEF GatewayInv, KeysOK, CalendarGets, GetsOK, Never
<1>12. Good
  <2>1. call'[c].pc = "operation" => kid \in published /\ call'[c].request.kid = kid
    BY <1>2, <1>6, <1>7
  <2>2. Fresh(c)
    BY <2>1 DEF Fresh, KeyAge
  <2>. QED  BY <1>1, <1>6, <2>2, EndingIsGood
<1>13. RotatedKeyIsKnown'
  <2>1. reply'.answer = "kid_unknown" => reply'.to.kid \notin published'
    BY <1>1, <1>2, <1>6, <1>7 DEF tenant
  <2>. QED  BY <2>1 DEF RotatedKeyIsKnown
<1>. QED
  BY <1>1, <1>5, <1>6, <1>8, <1>9, <1>10, <1>11, <1>12, <1>13, TenantKept
     DEF GatewayInv, KeysOK

(* So does the SMS tool's. *)
LEMMA SmsAnswers ==
  ASSUME GatewayInv, tool = "sms", NEW c \in Caller, FetchAnswers(c)
  PROVE  GatewayInv' /\ Good /\ RotatedKeyIsKnown'
<1>. DEFINE kid == call[c].request.kid
            result == Sms!Fetched(cache, kid, published, call[c].pc)
            before == [gets EXCEPT ![1].ok = TRUE]
<1>1. Continue(c, result, before) /\ UNCHANGED <<tool, tenant>> /\ Fetching(c)
  BY DEF FetchAnswers
<1>2. /\ lock[1] = c /\ call[c].pc \in Waiting
      /\ gets[1].age \in 0..FetchTicks
      /\ cache.attempted = gets[1].age
  BY <1>1, GetIsOut
<1>3. cache \in SmsCache
  BY DEF GatewayInv, CacheType, SmsCache
<1>4. /\ result.cache \in SmsCache
      /\ result.cache.keys = published /\ result.cache.fetched = 0
      /\ result.cache.attempted = cache.attempted
      /\ result.to = IF kid \in published THEN "key" ELSE "none"
  <2>1. Recent(cache.attempted, UNKNOWN_KID_REFRESH_SECONDS)
    BY <1>2, GatewayAssumption DEF Recent, Never
  <2>2. published \in SUBSET Kid
    BY DEF GatewayInv, TenantOK
  <2>. QED  BY <1>3, <2>1, <2>2, SmsFetched
<1>. HIDE DEF result
<1>5. result.to \in Calendar!Ends /\ result.to \notin Calendar!Reasons
  BY <1>4 DEF Calendar!Ends, Calendar!Reasons
<1>6. /\ CallsOK' /\ QueueOK' /\ reply'.answer \in Answers
      /\ cache' = result.cache
      /\ \A d \in Caller : d # c => call'[d] = call[d]
      /\ call'[c].pc = "operation" =>
           result.to = "key" /\ call'[c].request = call[c].request
      /\ reply'.answer = "kid_unknown" =>
           result.to = "none" /\ reply'.to = call[c].request
      /\ gets' = before /\ ~GetOut'
  BY <1>1, <1>2, <1>5, Continued DEF GatewayInv
<1>. USE GatewayAssumption
<1>7. /\ cache' \in SmsCache
      /\ cache'.keys = published /\ cache'.fetched = 0 /\ cache'.attempted = gets[1].age
  BY <1>2, <1>4, <1>6
<1>8. GetsOK' /\ gets'[1].age = gets[1].age /\ gets'[1].ok /\ gets'[2] = gets[2]
  BY <1>1, <1>6, GetIsOut, GetAnswered
<1>9. CacheType'
  BY <1>1, <1>7 DEF CacheType, SmsCache
<1>10. SmsKeys'
  <2>1. Missing' = {} /\ cache'.keys = published'
    BY <1>1, <1>7 DEF Missing, tenant
  <2>. QED  BY <1>2, <1>7, <2>1 DEF SmsKeys, Never
<1>11. SmsGets'
  BY <1>6, <1>7, <1>8 DEF SmsGets
<1>12. Good
  <2>1. call'[c].pc = "operation" => kid \in published /\ call'[c].request.kid = kid
    BY <1>4, <1>6, <1>7
  <2>2. Fresh(c)
    BY <2>1 DEF Fresh, KeyAge
  <2>. QED  BY <1>1, <1>6, <2>2, EndingIsGood
<1>13. RotatedKeyIsKnown'
  <2>1. reply'.answer = "kid_unknown" => reply'.to.kid \notin published'
    BY <1>1, <1>4, <1>6 DEF tenant
  <2>. QED  BY <2>1 DEF RotatedKeyIsKnown
<1>. QED
  BY <1>1, <1>5, <1>6, <1>8, <1>9, <1>10, <1>11, <1>12, <1>13, TenantKept
     DEF GatewayInv, KeysOK

(* The calendar's GET fails: no key of the tenant can be had, so none has  *)
(* been to be had for long, and an old key is served within the stale cap. *)
LEMMA CalendarFails ==
  ASSUME GatewayInv, tool = "calendar", NEW c \in Caller, FetchFails(c)
  PROVE  GatewayInv' /\ Good /\ RotatedKeyIsKnown'
<1>. DEFINE kid == call[c].request.kid
            result == Calendar!Failed(cache, kid, call[c].pc, gets[1].age)
<1>1. Continue(c, result, gets) /\ UNCHANGED <<tool, tenant>> /\ Fetching(c) /\ ~up
  BY DEF FetchFails
<1>2. cache \in CalendarCache
  BY DEF GatewayInv, CacheType, CalendarCache
<1>3. /\ result.cache = [cache EXCEPT !.failed = gets[1].age]
      /\ result.to \in {"key", "unreachable"}
      /\ result.to = "key" => /\ kid \in cache.keys
                              /\ cache.fetched # Never /\ cache.fetched < JWKS_MAX_STALE_AGE
  BY <1>2, CalendarFailed
<1>. HIDE DEF result
<1>4. result.to \in Calendar!Ends /\ result.to \notin Calendar!Reasons
  BY <1>3 DEF Calendar!Ends, Calendar!Reasons
<1>5. /\ lock[1] = c /\ call[c].pc \in Waiting
      /\ gets[1].age \in 0..FetchTicks /\ ~gets[1].ok
  BY <1>1, GetIsOut
<1>6. /\ CallsOK' /\ QueueOK' /\ reply'.answer \in Answers
      /\ cache' = result.cache
      /\ \A d \in Caller : d # c => call'[d] = call[d]
      /\ call'[c].pc = "operation" =>
           result.to = "key" /\ call'[c].request = call[c].request
      /\ reply'.answer = "kid_unknown" => result.to = "none"
      /\ gets' = gets /\ ~GetOut'
  BY <1>1, <1>4, <1>5, Continued DEF GatewayInv
<1>. USE GatewayAssumption
<1>7. /\ cache' \in CalendarCache
      /\ cache'.keys = cache.keys /\ cache'.fetched = cache.fetched
      /\ cache'.failed = gets[1].age /\ cache'.kid_refresh = cache.kid_refresh
  BY <1>2, <1>3, <1>5, <1>6 DEF CalendarCache, Ages
<1>8. CacheType'
  BY <1>1, <1>7 DEF CacheType, CalendarCache
<1>9. GetsOK'
  BY <1>6 DEF GatewayInv, GetsOK
<1>10. \A k \in Rotating \cap published : since[k] = 0
  BY <1>1 DEF GatewayInv, TenantOK
<1>11. CalendarKeys'
  <2>1. \A k \in Missing' : since'[k] = 0
    BY <1>1, <1>10 DEF Missing, tenant
  <2>2. \A k \in (Rotating \cap published)' : since'[k] = 0
    BY <1>1, <1>10 DEF tenant
  <2>3. /\ cache'.fetched # Never => cache'.fetched >= 0
        /\ cache'.kid_refresh # Never => cache'.kid_refresh >= 0
        /\ cache'.failed >= 0
    BY <1>5, <1>7 DEF CalendarCache, Ages, Never
  <2>4. cache'.keys # {} => cache'.fetched # Never
    BY <1>7 DEF GatewayInv, KeysOK, CalendarKeys
  <2>5. \A k \in (Rotating \cap cache.keys)' : k \notin published' => since'[k] <= cache'.fetched
    BY <1>1, <1>7 DEF GatewayInv, KeysOK, CalendarKeys, tenant
  <2>6. cache'.kid_refresh # Never => 0 <= cache'.kid_refresh + JWKS_RETRY_AFTER_FAILURE
    BY <1>7, <2>3 DEF CalendarCache, Ages
  <2>. QED  BY <2>1, <2>2, <2>3, <2>4, <2>5, <2>6 DEF CalendarKeys
<1>12. CalendarGets'
  BY <1>5, <1>6, <1>7 DEF GatewayInv, KeysOK, CalendarGets, GetsOK, Never
<1>13. Good
  <2> SUFFICES ASSUME call'[c].pc = "operation" PROVE Fresh(c)
    BY <1>1, <1>6, EndingIsGood DEF Fresh
  <2>1. kid \in cache.keys /\ cache.fetched < JWKS_MAX_STALE_AGE /\ call'[c].request.kid = kid
    BY <1>3, <1>6
  <2>2. KeyAge(kid) \in Nat /\ cache.fetched \in Nat /\ KeyAge(kid) <= cache.fetched
    BY <2>1, HeldKeys DEF GatewayInv
  <2>3. Recent(cache'.failed, JWKS_RETRY_AFTER_FAILURE)
    BY <1>5, <1>7 DEF Recent, Never
  <2>. QED  BY <2>1, <2>2, <2>3 DEF Fresh
<1>14. RotatedKeyIsKnown'
  BY <1>3, <1>6 DEF RotatedKeyIsKnown
<1>. QED
  BY <1>1, <1>5, <1>6, <1>8, <1>9, <1>11, <1>12, <1>13, <1>14, TenantKept
     DEF GatewayInv, KeysOK

(* The SMS tool's GET fails: the cache stays as the attempt left it.       *)
LEMMA SmsFails ==
  ASSUME GatewayInv, tool = "sms", NEW c \in Caller, FetchFails(c)
  PROVE  GatewayInv' /\ Good /\ RotatedKeyIsKnown'
<1>. DEFINE kid == call[c].request.kid
            result == Sms!Failed(cache, kid, call[c].pc)
<1>1. Continue(c, result, gets) /\ UNCHANGED <<tool, tenant>> /\ Fetching(c) /\ ~up
  BY DEF FetchFails
<1>2. /\ result.cache = cache
      /\ result.to \in {"key", "unreachable"}
      /\ result.to = "key" => kid \in cache.keys
  BY SmsFailed
<1>. HIDE DEF result
<1>3. result.to \in Calendar!Ends /\ result.to \notin Calendar!Reasons
  BY <1>2 DEF Calendar!Ends, Calendar!Reasons
<1>4. /\ lock[1] = c /\ call[c].pc \in Waiting
      /\ cache.attempted = gets[1].age /\ gets[1].age \in 0..FetchTicks /\ cache.last_failed
  BY <1>1, GetIsOut
<1>5. /\ CallsOK' /\ QueueOK' /\ reply'.answer \in Answers
      /\ cache' = cache
      /\ \A d \in Caller : d # c => call'[d] = call[d]
      /\ reply'.answer = "kid_unknown" => result.to = "none"
      /\ gets' = gets /\ ~GetOut'
  BY <1>1, <1>2, <1>3, <1>4, Continued DEF GatewayInv
<1>6. CacheType' /\ GetsOK'
  BY <1>1, <1>5 DEF GatewayInv, CacheType, GetsOK
<1>7. SmsKeys'
  <2>1. \A k \in Missing' : since'[k] = 0
    BY <1>1 DEF GatewayInv, TenantOK, Missing, tenant
  <2>2. cache'.attempted >= 0
    BY <1>4, <1>5
  <2>. QED  BY <1>1, <1>4, <1>5, <2>1, <2>2 DEF GatewayInv, KeysOK, SmsKeys, tenant
<1>8. SmsGets'
  BY <1>4, <1>5 DEF GatewayInv, KeysOK, SmsGets
<1>9. Good
  <2>1. Fresh(c)
    BY <1>4, <1>5 DEF Fresh, GatewayInv, TenantOK
  <2>. QED  BY <1>1, <1>5, <2>1, EndingIsGood
<1>10. RotatedKeyIsKnown'
  BY <1>2, <1>5 DEF RotatedKeyIsKnown
<1>. QED  BY <1>1, <1>5, <1>6, <1>7, <1>8, <1>9, <1>10, TenantKept DEF GatewayInv, KeysOK

-----------------------------------------------------------------------------
(* Requests come, give up and end. *)

(* Where only the request c moves, and sends no GET, the cache stays true. *)
LEMMA CacheStays ==
  ASSUME GatewayInv, NEW c \in Caller, UNCHANGED <<tool, tenant, cache, gets>>,
         ~Fetching(c), call'[c].pc \notin Calendar!Reasons \cup {"operation"},
         \A d \in Caller : d # c => call'[d] = call[d]
  PROVE  TenantOK' /\ CacheType' /\ GetsOK' /\ KeysOK' /\ Good
<1>1. GetOut' = GetOut
  BY DEF GetOut, Fetching
<1>2. TenantOK'
  BY DEF GatewayInv, TenantOK, tenant, Rotating, Longest
<1>3. CacheType'
  BY DEF GatewayInv, CacheType
<1>4. GetsOK'
  BY <1>1 DEF GatewayInv, GetsOK
<1>5. CalendarKeys' = CalendarKeys /\ CalendarGets' = CalendarGets
  BY <1>1 DEF CalendarKeys, CalendarGets, tenant, Missing
<1>6. SmsKeys' = SmsKeys /\ SmsGets' = SmsGets
  BY <1>1 DEF SmsKeys, SmsGets, tenant, Missing
<1>7. ASSUME NEW d \in Caller PROVE Fresh(d) /\ Spaced(d)
  BY DEF Fresh, Spaced, Fetching
<1>. QED  BY <1>2, <1>3, <1>4, <1>5, <1>6, <1>7 DEF GatewayInv, KeysOK, Good

(* A new request is refused, or waits at the end of the queue. *)
LEMMA ArriveSafe ==
  ASSUME GatewayInv, NEW c \in Caller, Arrive(c)
  PROVE  GatewayInv' /\ Good /\ RotatedKeyIsKnown'
<1>1. UNCHANGED <<tool, tenant, cache, gets>> /\ call[c].pc = "idle"
  BY DEF Arrive
<1>2. ~Fetching(c) /\ call[c].pc \notin Waiting
  BY <1>1 DEF Fetching, Waiting, Calendar!Reasons
<1>3. PICK r \in Request[tool] :
        IF Failing(BeforeKey(tool), r) # {}
        THEN /\ Respond(c, r, AnswerTo(tool, FirstFlaw(BeforeKey(tool), r)))
             /\ lock' = lock
        ELSE /\ reply' = Silence
             /\ call' = [call EXCEPT ![c] =
                   [Idle EXCEPT !.pc = "lock", !.request = r, !.waited = lock # <<>>]]
             /\ lock' = Append(lock, c)
  BY DEF Arrive
<1>4. /\ CallsOK' /\ QueueOK'
      /\ \A d \in Caller : d # c => call'[d] = call[d]
      /\ call'[c].pc \in {"idle", "lock"}
      /\ reply'.answer \in Answers \ {"kid_unknown"}
  <2>1. CASE Failing(BeforeKey(tool), r) # {}
    <3>. DEFINE answer == AnswerTo(tool, FirstFlaw(BeforeKey(tool), r))
    <3>1. Respond(c, r, answer) /\ lock' = lock
      BY <1>3, <2>1
    <3>2. answer \in Answers \ {"kid_unknown"}
      BY FlawsAnswered
    <3>. HIDE DEF answer
    <3>3. /\ CallsOK' /\ call'[c] = Idle
          /\ \A d \in Caller : d # c => call'[d] = call[d]
          /\ reply' = [to |-> r, answer |-> answer]
      BY <1>1, <3>1, Responded DEF GatewayInv
    <3>4. call'[c].pc = "idle"
      BY <3>3 DEF Idle
    <3>5. QueueOK'
      BY <1>1, <3>1, <3>3, <3>4 DEF GatewayInv, QueueOK, Waiting, Fetching, Calendar!Reasons
    <3>. QED  BY <3>2, <3>3, <3>4, <3>5
  <2>2. CASE Failing(BeforeKey(tool), r) = {}
    <3>. DEFINE w == lock # <<>>
                new == [pc |-> "lock", request |-> r, waited |-> w]
    <3>1. reply' = Silence /\ call' = [call EXCEPT ![c] = new] /\ lock' = Append(lock, c)
      BY <1>3, <2>2 DEF Idle
    <3>2. w \in BOOLEAN
      OBVIOUS
    <3>. HIDE DEF w
    <3>3. new \in [pc : {"idle", "lock", "operation"} \cup Calendar!Reasons,
                   request : Request[tool] \cup {<<>>}, waited : BOOLEAN]
      BY <3>2
    <3>4. new.pc = "lock"
      OBVIOUS
    <3>. HIDE DEF new
    <3>5. /\ CallsOK' /\ call'[c].pc = "lock"
          /\ \A d \in Caller : d # c => call'[d] = call[d]
      BY <1>1, <3>1, <3>3, <3>4 DEF GatewayInv, CallsOK
    <3>6. QueueOK'
      BY <1>2, <3>1, <3>5, QueueJoined DEF GatewayInv
    <3>. QED  BY <3>1, <3>5, <3>6 DEF Silence, Answers
  <2>. QED  BY <2>1, <2>2
<1>5. TenantOK' /\ CacheType' /\ GetsOK' /\ KeysOK' /\ Good
  BY <1>1, <1>2, <1>4, CacheStays DEF Calendar!Reasons
<1>. QED  BY <1>4, <1>5 DEF GatewayInv, RotatedKeyIsKnown

(* A request runs out of time in the queue. *)
LEMMA GiveUpSafe ==
  ASSUME GatewayInv, NEW c \in Caller, GiveUp(c)
  PROVE  GatewayInv' /\ Good /\ RotatedKeyIsKnown'
<1>1. /\ UNCHANGED <<tool, tenant, cache, gets>> /\ call[c].pc = "lock"
      /\ Respond(c, call[c].request, "unreachable")
  BY DEF GiveUp
<1>2. /\ CallsOK' /\ call'[c] = Idle
      /\ \A d \in Caller : d # c => call'[d] = call[d]
      /\ reply' = [to |-> call[c].request, answer |-> "unreachable"]
  BY <1>1, Responded DEF GatewayInv
<1>3. ~Fetching(c) /\ call'[c].pc \notin Calendar!Reasons \cup {"lock", "operation"}
  BY <1>1, <1>2 DEF Fetching, Idle, Calendar!Reasons
<1>4. QueueOK'
  <2>1. PICK n \in 2..Len(lock) :
          lock[n] = c /\ lock' = SubSeq(lock, 1, n - 1) \o SubSeq(lock, n + 1, Len(lock))
    BY DEF GiveUp
  <2>. QED  BY <1>1, <1>2, <1>3, <2>1, QueueLeft DEF GatewayInv, Waiting
<1>5. TenantOK' /\ CacheType' /\ GetsOK' /\ KeysOK' /\ Good
  BY <1>1, <1>2, <1>3, CacheStays
<1>. QED  BY <1>2, <1>4, <1>5 DEF GatewayInv, RotatedKeyIsKnown, Answers

(* An operation answers. *)
LEMMA OperationSafe ==
  ASSUME GatewayInv, NEW c \in Caller, Operation(c)
  PROVE  GatewayInv' /\ Good /\ RotatedKeyIsKnown'
<1>1. PICK answer \in {"done", Fallback(call[c].request)} :
        Respond(c, call[c].request, answer)
  BY DEF Operation
<1>2. UNCHANGED <<tool, tenant, cache, gets, lock>> /\ call[c].pc = "operation"
  BY DEF Operation
<1>3. answer \in Answers \ {"kid_unknown"}
  BY DEF Fallback, Answers
<1>4. /\ CallsOK' /\ call'[c] = Idle
      /\ \A d \in Caller : d # c => call'[d] = call[d]
      /\ reply' = [to |-> call[c].request, answer |-> answer]
  BY <1>1, <1>2, Responded DEF GatewayInv
<1>5. ~Fetching(c) /\ call'[c].pc \notin Calendar!Reasons \cup {"lock", "operation"}
  BY <1>2, <1>4 DEF Fetching, Idle, Calendar!Reasons
<1>6. QueueOK'
  BY <1>2, <1>4, <1>5 DEF GatewayInv, QueueOK, Waiting, Fetching, Calendar!Reasons
<1>7. TenantOK' /\ CacheType' /\ GetsOK' /\ KeysOK' /\ Good
  BY <1>2, <1>4, <1>5, CacheStays
<1>. QED  BY <1>3, <1>4, <1>6, <1>7 DEF GatewayInv, RotatedKeyIsKnown

-----------------------------------------------------------------------------
(* The tenant, and time. *)

(* No request moves. *)
LEMMA NobodyMoves ==
  ASSUME GatewayInv, UNCHANGED <<tool, lock, call>>, reply' = Silence
  PROVE  /\ CallsOK' /\ QueueOK' /\ GetOut' = GetOut /\ Good
         /\ RotatedKeyIsKnown' /\ reply'.answer \in Answers
<1>1. CallsOK' /\ QueueOK'
  BY DEF GatewayInv, CallsOK, QueueOK, Fetching
<1>2. GetOut' = GetOut
  BY DEF GetOut, Fetching
<1>3. Good
  BY DEF Good, Fresh, Spaced, Fetching
<1>. QED  BY <1>1, <1>2, <1>3 DEF RotatedKeyIsKnown, Silence, Answers

(* A key that is published, or withdrawn, has been so for no time. *)
LEMMA TenantSafe ==
  ASSUME GatewayInv, NEW k \in Rotating, Publish(k) \/ Withdraw(k)
  PROVE  GatewayInv' /\ Good /\ RotatedKeyIsKnown'
<1>1. /\ UNCHANGED <<tool, up, cache, lock, gets, call>> /\ reply' = Silence
      /\ since' = [since EXCEPT ![k] = 0]
      /\ published' \in {published \cup {k}, published \ {k}}
  BY DEF Publish, Withdraw
<1>2. /\ CallsOK' /\ QueueOK' /\ GetOut' = GetOut /\ Good
      /\ RotatedKeyIsKnown' /\ reply'.answer \in Answers
  BY <1>1, NobodyMoves
<1>3. /\ since'[k] = 0
      /\ \A j \in Rotating : j # k => since'[j] = since[j] /\ (j \in published' <=> j \in published)
  BY <1>1 DEF GatewayInv, TenantOK
<1>. USE GatewayAssumption
<1>4. TenantOK'
  BY <1>1, <1>3 DEF GatewayInv, TenantOK, Rotating, Longest
<1>5. CacheType' /\ GetsOK'
  BY <1>1, <1>2 DEF GatewayInv, CacheType, GetsOK
<1>6. CASE tool = "calendar"
  <2>1. /\ cache.fetched # Never => cache.fetched >= 0
        /\ cache.failed # Never => cache.failed >= 0
        /\ cache.kid_refresh # Never => cache.kid_refresh + JWKS_RETRY_AFTER_FAILURE >= 0
    BY <1>6 DEF GatewayInv, CacheType, Ages
  <2>2. \A j \in Missing' : j = k \/ (j \in Missing /\ since'[j] = since[j])
    BY <1>1, <1>3 DEF Missing
  <2>3. CalendarKeys'
    BY <1>1, <1>2, <1>3, <1>6, <2>1, <2>2 DEF GatewayInv, KeysOK, CalendarKeys
  <2>4. CalendarGets'
    BY <1>1, <1>2, <1>6 DEF GatewayInv, KeysOK, CalendarGets
  <2>. QED  BY <1>1, <1>2, <1>4, <1>5, <1>6, <2>3, <2>4 DEF GatewayInv, KeysOK
<1>7. CASE tool # "calendar"
  <2>1. /\ cache.fetched # Never => cache.fetched >= 0
        /\ cache.attempted # Never => cache.attempted >= 0
    BY <1>7 DEF GatewayInv, CacheType, Ages
  <2>2. \A j \in Missing' : j = k \/ (j \in Missing /\ since'[j] = since[j])
    BY <1>1, <1>3 DEF Missing
  <2>3. SmsKeys'
    BY <1>1, <1>2, <1>3, <1>7, <2>1, <2>2 DEF GatewayInv, KeysOK, SmsKeys
  <2>4. SmsGets'
    BY <1>1, <1>2, <1>7 DEF GatewayInv, KeysOK, SmsGets
  <2>. QED  BY <1>1, <1>2, <1>4, <1>5, <1>7, <2>3, <2>4 DEF GatewayInv, KeysOK
<1>. QED  BY <1>6, <1>7

(* The endpoint fails or comes back: no key can be had, or only just. *)
LEMMA OutageSafe ==
  ASSUME GatewayInv, Outage
  PROVE  GatewayInv' /\ Good /\ RotatedKeyIsKnown'
<1>1. /\ UNCHANGED <<tool, published, cache, lock, gets, call>> /\ reply' = Silence
      /\ up' = ~up
      /\ since' = [k \in Rotating |-> IF k \in published THEN 0 ELSE since[k]]
  BY DEF Outage
<1>2. /\ CallsOK' /\ QueueOK' /\ GetOut' = GetOut /\ Good
      /\ RotatedKeyIsKnown' /\ reply'.answer \in Answers
  BY <1>1, NobodyMoves
<1>. USE GatewayAssumption
<1>3. \A j \in Rotating : since'[j] = IF j \in published THEN 0 ELSE since[j]
  BY <1>1
<1>4. TenantOK'
  <2>1. since' \in [Rotating -> 0..Longest]
    BY <1>1 DEF GatewayInv, TenantOK, Longest
  <2>2. up' \in BOOLEAN
    BY <1>1
  <2>. QED  BY <1>1, <1>3, <2>1, <2>2 DEF GatewayInv, TenantOK, Rotating, Longest
<1>5. CacheType' /\ GetsOK'
  BY <1>1, <1>2 DEF GatewayInv, CacheType, GetsOK
<1>6. Missing' = Missing /\ \A j \in Missing : since'[j] = 0
  BY <1>1, <1>3 DEF Missing
<1>7. CASE tool = "calendar"
  <2>1. /\ cache.fetched # Never => cache.fetched >= 0
        /\ cache.failed # Never => cache.failed >= 0
        /\ cache.kid_refresh # Never => cache.kid_refresh + JWKS_RETRY_AFTER_FAILURE >= 0
    BY <1>7 DEF GatewayInv, CacheType, Ages
  <2>2. CalendarKeys'
    BY <1>1, <1>2, <1>3, <1>6, <1>7, <2>1 DEF GatewayInv, KeysOK, CalendarKeys
  <2>3. CalendarGets'
    BY <1>1, <1>2, <1>7 DEF GatewayInv, KeysOK, CalendarGets
  <2>. QED  BY <1>1, <1>2, <1>4, <1>5, <1>7, <2>2, <2>3 DEF GatewayInv, KeysOK
<1>8. CASE tool # "calendar"
  <2>1. /\ cache.fetched # Never => cache.fetched >= 0
        /\ cache.attempted # Never => cache.attempted >= 0
    BY <1>8 DEF GatewayInv, CacheType, Ages
  <2>2. SmsKeys'
    BY <1>1, <1>2, <1>3, <1>6, <1>8, <2>1 DEF GatewayInv, KeysOK, SmsKeys
  <2>3. SmsGets'
    BY <1>1, <1>2, <1>8 DEF GatewayInv, KeysOK, SmsGets
  <2>. QED  BY <1>1, <1>2, <1>4, <1>5, <1>8, <2>2, <2>3 DEF GatewayInv, KeysOK
<1>. QED  BY <1>7, <1>8

(* Everything grows older together. *)
LEMMA TickSafe ==
  ASSUME GatewayInv, Tick
  PROVE  GatewayInv' /\ Good /\ RotatedKeyIsKnown'
<1>1. /\ UNCHANGED <<tool, published, up, lock, call>> /\ reply' = Silence
      /\ since' = [k \in Rotating |->
                     IF k \in published /\ ~up THEN 0 ELSE Aged(since[k], Longest)]
      /\ cache' = IF tool = "calendar" THEN Calendar!Later(cache) ELSE Sms!Later(cache)
      /\ gets' = [i \in 1..2 |-> [gets[i] EXCEPT !.age = Aged(@, UNKNOWN_KID_REFRESH_INTERVAL)]]
      /\ GetOut => gets[1].age < FetchTicks
  BY DEF Tick, GetOut
<1>2. /\ CallsOK' /\ QueueOK' /\ GetOut' = GetOut /\ Good
      /\ RotatedKeyIsKnown' /\ reply'.answer \in Answers
  BY <1>1, NobodyMoves
<1>. USE GatewayAssumption
<1>3. \A k \in Rotating :
        /\ since[k] \in 0..Longest
        /\ since'[k] = IF k \in published /\ ~up THEN 0 ELSE Aged(since[k], Longest)
  BY <1>1 DEF GatewayInv, TenantOK
<1>4. TenantOK'
  <2>1. \A k \in Rotating : since'[k] \in 0..Longest
    BY <1>3 DEF Aged, Recent, Never, Longest
  <2>2. since' \in [Rotating -> 0..Longest]
    BY <1>1, <2>1
  <2>. QED  BY <1>1, <1>3, <2>2 DEF GatewayInv, TenantOK, Rotating
<1>5. /\ DOMAIN gets' = 1..2
      /\ \A i \in 1..2 :
           /\ gets[i] \in [age : Ages(UNKNOWN_KID_REFRESH_INTERVAL), ok : BOOLEAN]
           /\ gets'[i] = [gets[i] EXCEPT !.age = Aged(gets[i].age, UNKNOWN_KID_REFRESH_INTERVAL)]
  BY <1>1 DEF GatewayInv, GetsOK
<1>6. \A i \in 1..2 :
        /\ gets'[i] \in [age : Ages(UNKNOWN_KID_REFRESH_INTERVAL), ok : BOOLEAN]
        /\ gets'[i].ok = gets[i].ok
        /\ gets'[i].age = Aged(gets[i].age, UNKNOWN_KID_REFRESH_INTERVAL)
        /\ gets[i].age \in Ages(UNKNOWN_KID_REFRESH_INTERVAL)
  <2> SUFFICES ASSUME NEW i \in 1..2
               PROVE  /\ gets'[i] \in [age : Ages(UNKNOWN_KID_REFRESH_INTERVAL), ok : BOOLEAN]
                      /\ gets'[i].ok = gets[i].ok
                      /\ gets'[i].age = Aged(gets[i].age, UNKNOWN_KID_REFRESH_INTERVAL)
                      /\ gets[i].age \in Ages(UNKNOWN_KID_REFRESH_INTERVAL)
    OBVIOUS
  <2>1. gets[i].age \in Ages(UNKNOWN_KID_REFRESH_INTERVAL)
    BY <1>5
  <2>2. Aged(gets[i].age, UNKNOWN_KID_REFRESH_INTERVAL) \in Ages(UNKNOWN_KID_REFRESH_INTERVAL)
    BY <2>1 DEF Aged, Ages, Recent, Never
  <2>. QED  BY <1>5, <2>1, <2>2
<1>7. GetsOK'
  <2>1. \A i \in 1..2 : gets'[i].age = Never => ~gets'[i].ok
    BY <1>6 DEF GatewayInv, GetsOK, Aged, Ages, Recent, Never
  <2>2. gets'[2].age # Never => gets'[1].age # Never /\ gets'[1].age <= gets'[2].age
    BY <1>6 DEF GatewayInv, GetsOK, Aged, Ages, Recent, Never
  <2>3. GetOut' => gets'[1].age \in 0..FetchTicks /\ ~gets'[1].ok
    BY <1>1, <1>2, <1>6 DEF GatewayInv, GetsOK, Aged, Recent, Never
  <2>. QED  BY <1>5, <1>6, <2>1, <2>2, <2>3 DEF GetsOK
<1>8. CASE tool = "calendar"
  <2>1. cache \in CalendarCache
    BY <1>8 DEF GatewayInv, CacheType, CalendarCache
  <2>2. /\ cache' \in CalendarCache
        /\ cache'.keys = cache.keys
        /\ cache'.fetched = Aged(cache.fetched, JWKS_MAX_STALE_AGE)
        /\ cache'.failed = Forgetting(cache.failed, JWKS_RETRY_AFTER_FAILURE)
        /\ cache'.kid_refresh = Forgetting(cache.kid_refresh, UNKNOWN_KID_REFRESH_INTERVAL)
    <3>1. cache' = [cache EXCEPT
              !.fetched = Aged(cache.fetched, JWKS_MAX_STALE_AGE),
              !.failed = Forgetting(cache.failed, JWKS_RETRY_AFTER_FAILURE),
              !.kid_refresh = Forgetting(cache.kid_refresh, UNKNOWN_KID_REFRESH_INTERVAL)]
      BY <1>1, <1>8 DEF Calendar!Later, Calendar!Aged, Calendar!Forgetting, Calendar!Recent,
                        Calendar!Never, Aged, Forgetting, Recent, Never
    <3>2. /\ Aged(cache.fetched, JWKS_MAX_STALE_AGE) \in Ages(JWKS_MAX_STALE_AGE)
          /\ Forgetting(cache.failed, JWKS_RETRY_AFTER_FAILURE) \in Ages(JWKS_RETRY_AFTER_FAILURE)
          /\ Forgetting(cache.kid_refresh, UNKNOWN_KID_REFRESH_INTERVAL)
               \in Ages(UNKNOWN_KID_REFRESH_INTERVAL)
      BY <2>1 DEF CalendarCache, Aged, Forgetting, Ages, Recent, Never
    <3>. QED  BY <2>1, <3>1, <3>2 DEF CalendarCache
  <2>3. /\ cache.fetched \in Ages(JWKS_MAX_STALE_AGE)
        /\ cache.failed \in Ages(JWKS_RETRY_AFTER_FAILURE)
        /\ cache.kid_refresh \in Ages(UNKNOWN_KID_REFRESH_INTERVAL)
    BY <2>1 DEF CalendarCache
  <2>4. CacheType'
    BY <1>1, <1>8, <2>2 DEF CacheType, CalendarCache
  <2>5. CalendarKeys'
    <3>1. Missing' = Missing /\ Missing \subseteq Rotating
      BY <1>1, <2>2 DEF Missing
    <3>2. cache'.keys # {} => cache'.fetched # Never
      BY <1>8, <2>2, <2>3 DEF GatewayInv, KeysOK, CalendarKeys, Aged, Ages, Recent, Never
    <3>3. \A k \in Rotating : cache.fetched # Never /\ since[k] <= cache.fetched =>
                                since'[k] <= cache'.fetched
      BY <1>3, <2>2, <2>3 DEF Aged, Ages, Recent, Never, Longest
    <3>4. \A k \in (Rotating \cap cache.keys)' : k \notin published' => since'[k] <= cache'.fetched
      BY <1>1, <1>8, <2>2, <3>3 DEF GatewayInv, KeysOK, CalendarKeys
    <3>5. cache'.fetched # Never => \A k \in Missing : since'[k] <= cache'.fetched
      BY <1>8, <2>2, <2>3, <3>1, <3>3
         DEF GatewayInv, KeysOK, CalendarKeys, Aged, Recent, Never
    <3>6. cache'.failed # Never => \A k \in (Rotating \cap published)' : since'[k] <= cache'.failed
      BY <1>1, <1>3, <1>8, <2>2, <2>3
         DEF GatewayInv, KeysOK, CalendarKeys, Aged, Forgetting, Ages, Recent, Never, Longest
    <3>7. ~GetOut /\ cache'.kid_refresh # Never =>
            \A k \in Missing : since'[k] <= cache'.kid_refresh + JWKS_RETRY_AFTER_FAILURE
      BY <1>3, <1>8, <2>2, <2>3, <3>1
         DEF GatewayInv, KeysOK, CalendarKeys, Aged, Forgetting, Ages, Recent, Never, Longest
    <3>. QED  BY <1>2, <3>1, <3>2, <3>4, <3>5, <3>6, <3>7 DEF CalendarKeys
  <2>6. CalendarGets'
    <3>1. ~GetOut /\ gets'[1].age # Never /\ gets'[1].ok =>
            /\ cache'.fetched # Never
            /\ gets'[1].age < UNKNOWN_KID_REFRESH_INTERVAL => cache'.fetched = gets'[1].age
      BY <1>6, <1>8, <2>2, <2>3
         DEF GatewayInv, KeysOK, CalendarGets, GetsOK, Aged, Ages, Recent, Never
    <3>2. ~GetOut /\ gets'[1].age # Never /\ ~gets'[1].ok =>
            (gets'[1].age < JWKS_RETRY_AFTER_FAILURE => cache'.failed = gets'[1].age)
      BY <1>6, <1>8, <2>2, <2>3
         DEF GatewayInv, KeysOK, CalendarGets, Aged, Forgetting, Ages, Recent, Never
    <3>3. gets'[2].ok => cache'.fetched # Never
      BY <1>6, <1>8, <2>2, <2>3 DEF GatewayInv, KeysOK, CalendarGets, Aged, Ages, Recent, Never
    <3>4. gets'[2].ok /\ gets'[2].age < UNKNOWN_KID_REFRESH_INTERVAL =>
            cache'.kid_refresh # Never /\ cache'.kid_refresh <= gets'[2].age
      BY <1>6, <1>8, <2>2, <2>3
         DEF GatewayInv, KeysOK, CalendarGets, GetsOK, Aged, Forgetting, Ages, Recent, Never
    <3>. QED  BY <1>2, <3>1, <3>2, <3>3, <3>4 DEF CalendarGets
  <2>. QED  BY <1>1, <1>2, <1>4, <1>7, <1>8, <2>4, <2>5, <2>6 DEF GatewayInv, KeysOK
<1>9. CASE tool # "calendar"
  <2>1. cache \in SmsCache
    BY <1>9 DEF GatewayInv, CacheType, SmsCache
  <2>2. /\ cache' \in SmsCache
        /\ cache'.keys = cache.keys /\ cache'.last_failed = cache.last_failed
        /\ cache'.fetched = Aged(cache.fetched, JWKS_MAX_AGE_SECONDS)
        /\ cache'.attempted = Forgetting(cache.attempted, UNKNOWN_KID_REFRESH_SECONDS)
    <3>1. cache' = [cache EXCEPT
              !.fetched = Aged(cache.fetched, JWKS_MAX_AGE_SECONDS),
              !.attempted = Forgetting(cache.attempted, UNKNOWN_KID_REFRESH_SECONDS)]
      BY <1>1, <1>9 DEF Sms!Later, Sms!Aged, Sms!Forgetting, Sms!Recent,
                        Sms!Never, Aged, Forgetting, Recent, Never
    <3>2. /\ Aged(cache.fetched, JWKS_MAX_AGE_SECONDS) \in Ages(JWKS_MAX_AGE_SECONDS)
          /\ Forgetting(cache.attempted, UNKNOWN_KID_REFRESH_SECONDS)
               \in Ages(UNKNOWN_KID_REFRESH_SECONDS)
      BY <2>1 DEF SmsCache, Aged, Forgetting, Ages, Recent, Never
    <3>. QED  BY <2>1, <3>1, <3>2 DEF SmsCache
  <2>3. /\ cache.fetched \in Ages(JWKS_MAX_AGE_SECONDS)
        /\ cache.attempted \in Ages(UNKNOWN_KID_REFRESH_SECONDS)
    BY <2>1 DEF SmsCache
  <2>4. CacheType'
    BY <1>1, <1>9, <2>2 DEF CacheType, SmsCache
  <2>5. SmsKeys'
    <3>1. Missing' = Missing /\ Missing \subseteq Rotating
      BY <1>1, <2>2 DEF Missing
    <3>2. cache'.keys # {} => cache'.fetched # Never
      BY <1>9, <2>2, <2>3 DEF GatewayInv, KeysOK, SmsKeys, Aged, Ages, Recent, Never
    <3>3. \A k \in (Rotating \cap cache.keys)' : k \notin published' =>
            since'[k] <= cache'.fetched \/ cache'.fetched >= JWKS_MAX_AGE_SECONDS
      BY <1>1, <1>3, <1>9, <2>2, <2>3
         DEF GatewayInv, KeysOK, SmsKeys, Aged, Ages, Recent, Never, Longest
    <3>4. ~GetOut /\ cache'.attempted # Never => \A k \in Missing : since'[k] <= cache'.attempted
      BY <1>3, <1>9, <2>2, <2>3, <3>1
         DEF GatewayInv, KeysOK, SmsKeys, Aged, Forgetting, Ages, Recent, Never, Longest
    <3>5. ~cache'.last_failed /\ cache'.attempted # Never =>
            cache'.fetched # Never /\ cache'.fetched <= cache'.attempted
      BY <1>9, <2>2, <2>3
         DEF GatewayInv, KeysOK, SmsKeys, Aged, Forgetting, Ages, Recent, Never
    <3>. QED  BY <1>2, <3>1, <3>2, <3>3, <3>4, <3>5 DEF SmsKeys
  <2>6. SmsGets'
    <3>1. Recent(gets'[1].age, UNKNOWN_KID_REFRESH_SECONDS) => cache'.attempted = gets'[1].age
      BY <1>6, <1>9, <2>2, <2>3
         DEF GatewayInv, KeysOK, SmsGets, Aged, Forgetting, Ages, Recent, Never
    <3>2. GetOut' => cache'.last_failed
      BY <1>2, <1>9, <2>2 DEF GatewayInv, KeysOK, SmsGets
    <3>. QED  BY <3>1, <3>2 DEF SmsGets
  <2>. QED  BY <1>1, <1>2, <1>4, <1>7, <1>9, <2>4, <2>5, <2>6 DEF GatewayInv, KeysOK
<1>. QED  BY <1>8, <1>9

-----------------------------------------------------------------------------
(* The theorems. *)

(* A lookup and the end of a GET, at either tool. *)
LEMMA LookupSafe ==
  ASSUME GatewayInv, NEW c \in Caller, get_key(c) \/ FetchAnswers(c) \/ FetchFails(c)
  PROVE  GatewayInv' /\ Good /\ RotatedKeyIsKnown'
<1>1. tool \in {"calendar", "sms"}
  BY GatewayAssumption DEF GatewayInv, TenantOK
<1>. QED  BY <1>1, CalendarGetKey, SmsGetKey, CalendarAnswers, SmsAnswers, CalendarFails, SmsFails

(* A step keeps the invariant, and has the three properties. *)
LEMMA GatewayStep ==
  ASSUME GatewayInv, [Next]_vars
  PROVE  GatewayInv' /\ (UNCHANGED vars \/ (Good /\ RotatedKeyIsKnown'))
<1>1. CASE UNCHANGED vars
  BY <1>1 DEF vars, tenant, GatewayInv, TenantOK, CacheType, CallsOK, QueueOK, GetsOK, KeysOK,
              CalendarKeys, CalendarGets, SmsKeys, SmsGets, GetOut, Fetching, Missing
<1>2. CASE Next
  BY <1>2, ArriveSafe, GiveUpSafe, LookupSafe, OperationSafe, TenantSafe, OutageSafe, TickSafe
     DEF Next
<1>. QED  BY <1>1, <1>2

(* Initially nobody has asked for anything. *)
LEMMA GatewayStart == Init => GatewayInv /\ RotatedKeyIsKnown
<1> SUFFICES ASSUME Init PROVE GatewayInv /\ RotatedKeyIsKnown
  OBVIOUS
<1>. USE GatewayAssumption DEF Init
<1>1. TenantOK
  BY DEF TenantOK, Rotating, Longest
<1>2. CacheType
  BY DEF CacheType, Calendar!JwksCache, Sms!JwksCache, Calendar!Never, Sms!Never, Ages, Never
<1>3. \A c \in Caller : call[c] = Idle /\ ~Fetching(c) /\ call[c].pc \notin Waiting
  BY DEF Idle, Fetching, Waiting, Calendar!Reasons
<1>4. CallsOK
  BY DEF CallsOK, Idle
<1>5. QueueOK
  BY <1>3 DEF QueueOK
<1>6. GetsOK
  <2>1. gets[1] = NoGet /\ gets[2] = NoGet /\ DOMAIN gets = 1..2
    OBVIOUS
  <2>2. NoGet \in [age : Ages(UNKNOWN_KID_REFRESH_INTERVAL), ok : BOOLEAN]
    BY DEF NoGet, Ages
  <2>. QED  BY <1>3, <2>1, <2>2 DEF GetsOK, GetOut, NoGet
<1>7. KeysOK
  BY <1>3 DEF KeysOK, CalendarKeys, CalendarGets, SmsKeys, SmsGets, GetOut, NoGet, Recent, Never,
              Calendar!JwksCache, Sms!JwksCache, Calendar!Never, Sms!Never
<1>. QED  BY <1>1, <1>2, <1>4, <1>5, <1>6, <1>7
          DEF GatewayInv, RotatedKeyIsKnown, Silence, Answers

(* The inductive invariant holds always: the calls and their queue, what   *)
(* the cache remembers of the tenant, and of the GETs.                     *)
THEOREM GatewayHolds == Spec => []GatewayInv
  BY GatewayStart, GatewayStep, PTL DEF Spec

(* The process's cache, queue and requests keep their types; only the head *)
(* of the lock's queue fetches, and nobody else waits in it twice.         *)
THEOREM GatewayTyped == Spec => []GatewayTypeOK
<1>1. GatewayInv => GatewayTypeOK
  <2> SUFFICES ASSUME GatewayInv PROVE GatewayTypeOK
    OBVIOUS
  <2>1. /\ lock \in Seq(Caller) /\ DOMAIN lock = 1..Len(lock) /\ Len(lock) \in Nat
        /\ lock # <<>> => Head(lock) = lock[1]
    BY DEF GatewayInv, QueueOK
  <2>2. \A c \in Caller : Fetching(c) => Head(lock) = c /\ ~gets[1].ok
    <3> SUFFICES ASSUME NEW c \in Caller, Fetching(c) PROVE Head(lock) = c /\ ~gets[1].ok
      OBVIOUS
    <3>1. lock[1] = c /\ ~gets[1].ok /\ \E i \in 1..Len(lock) : lock[i] = c
      BY GetIsOut DEF GatewayInv, QueueOK
    <3>. QED  BY <2>1, <3>1
  <2>3. \A c \in Caller : call[c].pc \in {"idle", "lock", "operation"} \cup Calendar!Reasons
    BY DEF GatewayInv, CallsOK
  <2>. QED  BY <2>1, <2>2, <2>3
            DEF GatewayTypeOK, GatewayInv, TenantOK, CacheType, QueueOK, Waiting
<1>. QED  BY <1>1, GatewayHolds, PTL

(* A token is accepted only under a key that the tenant published less     *)
(* than the stale cap ago, and past the maximum age only while the refresh *)
(* fails: for any number of requests and kids, and any intervals.          *)
THEOREM FreshKeys == Spec => KeysAreFresh
<1>. DEFINE FreshStep == [\A c \in Caller :
       call[c].pc # "operation" /\ call'[c].pc = "operation" =>
         LET kid == call'[c].request.kid
             age == IF kid \in published THEN 0 ELSE since[kid]
         IN  IF tool = "calendar"
             THEN /\ age < JWKS_MAX_STALE_AGE
                  /\ age >= JWKS_MAX_AGE => Recent(cache'.failed, JWKS_RETRY_AFTER_FAILURE)
             ELSE age >= JWKS_MAX_AGE_SECONDS => cache'.last_failed]_vars
<1>1. GatewayInv /\ [Next]_vars => FreshStep
  BY GatewayStep DEF Good, Fresh, KeyAge
<1>. QED  BY <1>1, GatewayHolds, PTL DEF Spec, KeysAreFresh

(* Whatever tokens come in: the calendar never asks the tenant within the  *)
(* pause after a failure, nor a third time within the interval for unknown *)
(* kids; the SMS tool never twice within its.                              *)
THEOREM SpacedFetches == Spec => FetchesAreSpaced
<1>. DEFINE SpacedStep == [(\E c \in Caller : ~Fetching(c) /\ Fetching(c)') =>
       IF tool = "calendar"
       THEN /\ Recent(gets[1].age, JWKS_RETRY_AFTER_FAILURE) => gets[1].ok
            /\ Recent(gets[2].age, UNKNOWN_KID_REFRESH_INTERVAL) => ~(gets[1].ok /\ gets[2].ok)
       ELSE ~Recent(gets[1].age, UNKNOWN_KID_REFRESH_SECONDS)]_vars
<1>1. GatewayInv /\ [Next]_vars => SpacedStep
  BY GatewayStep DEF Good, Spaced
<1>. QED  BY <1>1, GatewayHolds, PTL DEF Spec, FetchesAreSpaced

(* A key that has been published, and to be had, for the interval between  *)
(* two refreshes (and, in the calendar, the pause after a last failure) is *)
(* not refused as unknown, however many unknown kids come in.              *)
THEOREM RotatedKeysKnown == Spec => []RotatedKeyIsKnown
<1>1. GatewayInv /\ RotatedKeyIsKnown /\ [Next]_vars => RotatedKeyIsKnown'
  BY GatewayStep DEF vars, tenant, RotatedKeyIsKnown
<1>. QED  BY <1>1, GatewayStart, GatewayHolds, PTL DEF Spec
=============================================================================
