-------------------------- MODULE RequestBudgetProofs --------------------------
(***************************************************************************)
(* What a booking request has of its budget at each of its calls.          *)
(***************************************************************************)
EXTENDS RequestBudget, TLAPS

(* What the modules assume of the constants, taken apart. *)
LEMMA Consts ==
  /\ TOTAL_BUDGET \in Nat /\ RESERVE \in Nat /\ PROVIDER_TIMEOUT \in Nat
  /\ CLAIM_TIMEOUT \in Nat /\ SECRET_TIMEOUT \in Nat /\ EXPECTED_CLAIM_LATENCY \in Nat
  /\ TOTAL_BUDGET > 0 /\ PROVIDER_TIMEOUT > 0 /\ CLAIM_TIMEOUT > 0 /\ SECRET_TIMEOUT > 0
  /\ POLL_INTERVAL \in Nat /\ RELEASE_GRACE \in Nat
  /\ RELEASE_GRACE > 0
  /\ CLAIM_TTL \in Nat /\ MAX_ROUNDS \in Nat /\ MAX_ROUNDS > 0 /\ MAX_CAS_ROUNDS \in Nat
  /\ MAX_CAS_ROUNDS > 0
  /\ CellCounts \subseteq Nat \ {0} /\ Lapses \subseteq Nat /\ MaxExtras \in Nat
  /\ RELEASE_GRACE <= CLAIM_TIMEOUT
  /\ TOTAL_BUDGET + 2 * RELEASE_GRACE < CLAIM_TTL
  BY DeadlineAssumption, BudgetAssumption

Recovery == {"recover", "siblings", "recWrite", "recSiblings", "recRead"}

(* What a request r may have spent, by the call it is at: n. *)
InTime(r, n) ==
  /\ n <= TOTAL_BUDGET + 2 * RELEASE_GRACE
  /\ r.pc \in {"release", "read", "poll", "pollLookup", "finalize"} =>
       n <= TOTAL_BUDGET + RELEASE_GRACE
  /\ r.pc = "release" /\ r.next # "done" => n <= TOTAL_BUDGET
  /\ r.pc \notin {"done", "release", "read", "poll", "pollLookup", "finalize"} => n <= TOTAL_BUDGET
  /\ r.pc = "claim" \/ (r.caller = "step6" /\ r.pc \in Recovery) =>
       r.claimed < r.cells /\ n + PROVIDER_TIMEOUT + CLAIM_TIMEOUT <= TOTAL_BUDGET
  /\ r.pc = "create" /\ r.tries = 0 => n + PROVIDER_TIMEOUT + CLAIM_TIMEOUT <= TOTAL_BUDGET
  /\ r.pc = "finalize" /\ r.tries = 0 /\ r.next # "finalize" => n + CLAIM_TIMEOUT <= TOTAL_BUDGET
  /\ r.pc = "readAttempt" => r.next \in {"release", "finalize"}
  /\ r.pc = "release" => r.next \in {"again", "poll", "done"}
  /\ r.pc \in {"lookup", "dedupe"} => r.tries # 0
  /\ r.pc = "dedupe" => r.extras > 0
  /\ r.next = "finalize" => r.pc \in {"readAttempt", "finalize", "done"}
  /\ r.pc = "pollRead" \/ (r.slept /\ r.pc \in {"poll", "pollLookup"}) =>
       n + PROVIDER_TIMEOUT + 2 * CLAIM_TIMEOUT <= TOTAL_BUDGET
  /\ r.pc = "readAttempt" /\ r.slept /\ r.next = "finalize" => n + 2 * CLAIM_TIMEOUT <= TOTAL_BUDGET
  /\ r.pc = "finalize" /\ r.slept /\ r.next = "finalize" => n + CLAIM_TIMEOUT <= TOTAL_BUDGET

(* The inductive invariant, and what a step to s at time n has to show. *)
Safe(r) == r \in Local /\ r.claimed <= r.cells /\ InTime(r, r.spent)
BudgetInv == Safe(req)

(* The request at another time. *)
At(s, n) == [s EXCEPT !.spent = n]

(* The times a request may be at after a call that left a reserve, after   *)
(* one that was made or not, and after a release or a read in best effort. *)
Made(n, limit, reserve) ==
  req.spent <= n /\ n <= req.spent + limit /\ n + reserve <= TOTAL_BUDGET
MadeOrNot(n, limit, reserve) == Made(n, limit, reserve) \/ n = req.spent
Graced(n) ==
  /\ req.spent <= n /\ n <= req.spent + CLAIM_TIMEOUT
  /\ n <= TOTAL_BUDGET \/ n <= req.spent + RELEASE_GRACE

-----------------------------------------------------------------------------
(* The parts of a request, and the time of its calls. *)

(* Time spent changes nothing else of a request. *)
LEMMA AtFields ==
  ASSUME NEW s \in Local, NEW n \in Nat
  PROVE  /\ At(s, n) \in Local /\ At(s, n).spent = n
         /\ At(s, n).pc = s.pc /\ At(s, n).cells = s.cells /\ At(s, n).claimed = s.claimed
         /\ At(s, n).caller = s.caller /\ At(s, n).next = s.next /\ At(s, n).slept = s.slept
         /\ At(s, n).tries = s.tries /\ At(s, n).extras = s.extras
  BY DEF At, Local

(* A request is itself at the time it is. *)
LEMMA NowIs == ASSUME NEW s \in Local PROVE s = At(s, s.spent)
  BY DEF At, Local

(* A call ends within its limit and leaves its reserve, or is not made. *)
LEMMA CallSpends ==
  ASSUME req \in Local, NEW limit \in Nat \ {0}, NEW reserve \in Nat, NEW A, NEW F,
         Call(limit, reserve, A, F)
  PROVE  \/ req.spent + reserve >= TOTAL_BUDGET /\ req' \in F
         \/ \E s \in A \cup F, n \in Nat : req' = At(s, n) /\ Made(n, limit, reserve)
<1> DEFINE timeout == timeout_for(req.spent, limit, reserve)
<1>0. req.spent \in Nat
  BY DEF Local
<1>1. timeout \in Int /\ timeout <= limit /\ (timeout > 0 => req.spent + timeout + reserve <= TOTAL_BUDGET)
      /\ (timeout <= 0 => req.spent + reserve >= TOTAL_BUDGET)
  BY <1>0, Consts DEF timeout_for, remaining
<1>2. CASE timeout <= 0
  BY <1>1, <1>2, <1>0, Consts DEF Call
<1>3. CASE timeout > 0
  <2>1. PICK d \in Lapses \cup {timeout}, s \in A \cup F : d <= timeout
        /\ req' = [s EXCEPT !.spent = req.spent + d]
    BY <1>1, <1>3 DEF Call
  <2>2. d \in Nat
    BY <1>1, <1>3, Consts
  <2> QED BY <2>1, <2>2, <1>0, <1>1, <1>3, Consts DEF At, Made
<1> QED BY <1>1, <1>2, <1>3

(* Best effort ends in time, or within one grace. *)
LEMMA GraceSpends ==
  ASSUME req \in Local, NEW A, BestEffort(A)
  PROVE  \E s \in A, n \in Nat : req' = At(s, n) /\ Graced(n)
  <1>1. _release_timeout \in Nat /\ _release_timeout <= CLAIM_TIMEOUT
      /\ (req.spent + _release_timeout <= TOTAL_BUDGET \/ _release_timeout = RELEASE_GRACE)
  BY Consts DEF _release_timeout, timeout_for, remaining, Local
<1>2. req.spent \in Nat
  BY DEF Local
<1>3. PICK d \in Lapses \cup {_release_timeout}, s \in A : d <= _release_timeout
      /\ req' = [s EXCEPT !.spent = req.spent + d]
  BY DEF BestEffort
<1>4. d \in Nat
  BY <1>1, <1>3, Consts
<1>5. /\ req.spent + d \in Nat /\ req.spent <= req.spent + d
      /\ req.spent + d <= req.spent + CLAIM_TIMEOUT
      /\ req.spent + d <= TOTAL_BUDGET \/ req.spent + d <= req.spent + RELEASE_GRACE
  BY <1>1, <1>2, <1>3, <1>4, Consts
<1> QED BY <1>3, <1>5 DEF At, Graced

(* The parts of a request. *)
LEMMA Types ==
  ASSUME req \in Local
  PROVE  /\ req.spent \in Nat /\ req.claimed \in Nat /\ req.cells \in CellCounts
         /\ req.cells \in Nat \ {0}
         /\ req.round \in 1..MAX_ROUNDS /\ req.pass \in 1..MAX_ROUNDS /\ req.recOnce \in BOOLEAN
         /\ req.cas \in 1..MAX_CAS_ROUNDS /\ 1 \in 1..MAX_CAS_ROUNDS
         /\ req.cas # MAX_CAS_ROUNDS => req.cas + 1 \in 1..MAX_CAS_ROUNDS
         /\ 0 \in 0..MaxExtras /\ 1 \in 0..2 /\ 2 \in 0..2
         /\ req.extras \in 0..MaxExtras /\ (req.extras > 0 => req.extras - 1 \in 0..MaxExtras)
<1>1. 1 \in 1..MAX_CAS_ROUNDS /\ 0 \in 0..MaxExtras /\ 1 \in 0..2 /\ 2 \in 0..2
  BY Consts
<1>2. req.cas \in 1..MAX_CAS_ROUNDS /\ req.extras \in 0..MaxExtras
  BY DEF Local
<1>3. /\ req.cas # MAX_CAS_ROUNDS => req.cas + 1 \in 1..MAX_CAS_ROUNDS
      /\ req.extras > 0 => req.extras - 1 \in 0..MaxExtras
  BY <1>2, Consts
<1> QED BY <1>1, <1>2, <1>3, Consts DEF Local

(* A request before its first call. *)
LEMMA ArrivedFields ==
  ASSUME NEW c \in CellCounts
  PROVE  /\ Arrived(c) \in Local
         /\ Arrived(c).claimed = 0 /\ Arrived(c).cells = c /\ Arrived(c).next = "done"
         /\ ~Arrived(c).slept /\ Arrived(c).pc = "arrived" /\ Arrived(c).spent = 0 
         /\ Arrived(c).tries = 0 /\ Arrived(c).caller = "step2"
<1>1. 1 \in 1..MAX_ROUNDS /\ 1 \in 1..MAX_CAS_ROUNDS /\ 0 \in 0..MaxExtras /\ 0 \in Nat
      /\ 0 \in 0..2
  BY Consts
<1> QED BY <1>1 DEF Arrived, Local, Calls

(* It is enough to look at what InTime reads. *)
LEMMA SafeAt ==
  ASSUME NEW s \in Local, NEW n \in Nat, s.claimed <= s.cells, InTime(s, n)
  PROVE  Safe(At(s, n))
<1> DEFINE r == At(s, n)
<1>1. /\ r \in Local /\ r.spent = n /\ r.pc = s.pc /\ r.cells = s.cells /\ r.claimed = s.claimed
      /\ r.caller = s.caller /\ r.next = s.next /\ r.slept = s.slept /\ r.tries = s.tries
      /\ r.extras = s.extras
  BY AtFields
<1> HIDE DEF r
<1>2. Safe(r)
  BY <1>1 DEF Safe, InTime
<1> QED BY <1>2 DEF r

Keeps(s, n) == Safe(At(s, n)) /\ s = At(s, req.spent)

(* The next call changes nothing else, *)
LEMMA ToFields ==
  ASSUME req \in Local, NEW p \in Calls
  PROVE  /\ To(p) \in Local /\ To(p).pc = p /\ To(p).spent = req.spent
         /\ To(p).cells = req.cells /\ To(p).claimed = req.claimed /\ To(p).caller = req.caller
         /\ To(p).next = req.next /\ To(p).slept = req.slept /\ To(p).tries = req.tries
         /\ To(p).extras = req.extras
  BY DEF To, Local

(* so only its time has to be right. *)
LEMMA ToKeeps ==
  ASSUME req \in Local, NEW p \in Calls, NEW n \in Nat, req.claimed <= req.cells,
         InTime(To(p), n)
  PROVE  Keeps(To(p), n)
  BY ToFields, SafeAt, NowIs DEF Keeps

Done(s) ==
  s \in Local /\ s.pc = "done" /\ s.claimed <= s.cells /\ s.next = "done" /\ s.spent = req.spent
Reading(s) ==
  s \in Local /\ s.claimed <= s.cells /\ s.next = "done" /\ s.spent = req.spent
  /\ s.pc \in {"read", "done"} /\ ~s.slept

(* An answer ends the request. *)
LEMMA OverDone == ASSUME req \in Local PROVE Done(Over)
<1>1. Arrived(req.cells) \in Local /\ req.spent \in Nat
  BY Types, ArrivedFields
<1>2. Over \in Local /\ Over.pc = "done" /\ Over.claimed = 0 /\ Over.cells = req.cells
      /\ Over.next = "done"
      /\ Over.spent = req.spent
  BY <1>1, Types, ArrivedFields DEF Over, Local, Calls
<1> QED BY <1>2, Types DEF Done

(* A request may answer until two graces after its budget. *)
LEMMA OverSafe ==
  ASSUME req \in Local, NEW n \in Nat, n <= TOTAL_BUDGET + 2 * RELEASE_GRACE
  PROVE  Safe(At(Over, n))
<1>1. InTime(Over, n)
  BY OverDone, Consts DEF Done, InTime, Recovery
<1> QED BY <1>1, OverDone, SafeAt DEF Done

(* Another round starts at step 2, or answers if it was the last, *)
LEMMA AgainReads == ASSUME req \in Local PROVE Reading(Again)
<1>1. CASE req.round = MAX_ROUNDS
  <2>1. ~Over.slept
    BY Types, ArrivedFields DEF Over, Local
  <2> QED BY <1>1, <2>1, OverDone DEF Again, Done, Reading
<1>2. CASE req.round # MAX_ROUNDS
  <2>1. Arrived(req.cells) \in Local /\ req.spent \in Nat /\ req.round + 1 \in 1..MAX_ROUNDS
    BY <1>2, Types, ArrivedFields, Consts
  <2>2. Again \in Local /\ Again.pc = "read" /\ Again.claimed = 0
        /\ Again.cells = req.cells /\ Again.next = "done"
        /\ Again.slept = FALSE /\ Again.spent = req.spent
    BY <1>2, <2>1, Types, ArrivedFields DEF Again, Local, Calls
  <2> QED BY <2>2, Types DEF Reading
<1> QED BY <1>1, <1>2

(* at most a grace late, since a release may come before. *)
LEMMA AgainSafe ==
  ASSUME req \in Local, NEW n \in Nat, n <= TOTAL_BUDGET + RELEASE_GRACE
  PROVE  Safe(At(Again, n))
<1>1. InTime(Again, n)
  BY AgainReads, Consts DEF Reading, InTime, Recovery
<1> QED BY <1>1, AgainReads, SafeAt DEF Reading

(* So does another pass of step 2, *)
LEMMA RereadReads == ASSUME req \in Local PROVE Reading(Reread)
<1>1. CASE req.pass = MAX_ROUNDS
  <2>1. ~Over.slept
    BY Types, ArrivedFields DEF Over, Local
  <2> QED BY <1>1, <2>1, OverDone DEF Reread, Done, Reading
<1>2. CASE req.pass # MAX_ROUNDS
  <2>1. Arrived(req.cells) \in Local /\ req.spent \in Nat /\ req.pass + 1 \in 1..MAX_ROUNDS
    BY <1>2, Types, ArrivedFields, Consts
  <2>2. Reread \in Local /\ Reread.pc = "read" /\ Reread.claimed = 0
        /\ Reread.cells = req.cells /\ Reread.next = "done"
        /\ Reread.slept = FALSE /\ Reread.spent = req.spent
    BY <1>2, <2>1, Types, ArrivedFields DEF Reread, Local, Calls
  <2> QED BY <2>2, Types DEF Reading
<1> QED BY <1>1, <1>2

(* which is not later than a round. *)
LEMMA RereadSafe ==
  ASSUME req \in Local, NEW n \in Nat, n <= TOTAL_BUDGET + RELEASE_GRACE
  PROVE  Safe(At(Reread, n))
<1>1. InTime(Reread, n)
  BY RereadReads, Consts DEF Reading, InTime, Recovery
<1> QED BY <1>1, RereadReads, SafeAt DEF Reading

-----------------------------------------------------------------------------
(* Steps 1 to 5, polls and replays. *)

(* The caller is known while there is time. *)
LEMMA AuthenticateKeeps == BudgetInv /\ Authenticate => Safe(req')
<1> SUFFICES ASSUME BudgetInv, Authenticate PROVE Safe(req')
  OBVIOUS
<1>0. req \in Local /\ req.pc = "arrived" /\ req.claimed <= req.cells /\ InTime(req, req.spent)
  BY DEF BudgetInv, Safe, Authenticate
<1>1. ASSUME NEW n \in Nat, Made(n, TOTAL_BUDGET, 0)
     PROVE  Keeps(To("keys"), n)
  <2>1. InTime(To("keys"), n)
    BY <1>0, <1>1, ToFields, Types, Consts DEF InTime, Recovery, Calls, Made
  <2> QED BY <1>0, <2>1, ToKeeps DEF Calls
<1>2. ASSUME NEW n \in Nat, MadeOrNot(n, TOTAL_BUDGET, 0)
     PROVE  Keeps(Over, n)
  BY <1>0, <1>2, OverSafe, OverDone, NowIs, Types, Consts DEF InTime, Recovery, Made,
     MadeOrNot, Done, Keeps
<1>3. TOTAL_BUDGET \in Nat \ {0} /\ 0 \in Nat /\ req.spent \in Nat
  BY <1>0, Consts, Types DEF CreateReserve, PollReserve
<1> QED BY <1>0, <1>1, <1>2, <1>3, CallSpends DEF Authenticate, Keeps, MadeOrNot

(* The keys are loaded while there is time. *)
LEMMA _load_keysKeeps == BudgetInv /\ _load_keys => Safe(req')
<1> SUFFICES ASSUME BudgetInv, _load_keys PROVE Safe(req')
  OBVIOUS
<1>0. req \in Local /\ req.pc = "keys" /\ req.claimed <= req.cells /\ InTime(req, req.spent)
  BY DEF BudgetInv, Safe, _load_keys
<1>1. ASSUME NEW n \in Nat, Made(n, SECRET_TIMEOUT, 0)
     PROVE  Keeps(To("identity"), n)
  <2>1. InTime(To("identity"), n)
    BY <1>0, <1>1, ToFields, Types, Consts DEF InTime, Recovery, Calls, Made
  <2> QED BY <1>0, <2>1, ToKeeps DEF Calls
<1>2. ASSUME NEW n \in Nat, MadeOrNot(n, SECRET_TIMEOUT, 0)
     PROVE  Keeps(Over, n)
  BY <1>0, <1>2, OverSafe, OverDone, NowIs, Types, Consts DEF InTime, Recovery, Made,
     MadeOrNot, Done, Keeps
<1>3. SECRET_TIMEOUT \in Nat \ {0} /\ 0 \in Nat /\ req.spent \in Nat
  BY <1>0, Consts, Types DEF CreateReserve, PollReserve
<1> QED BY <1>0, <1>1, <1>2, <1>3, CallSpends DEF _load_keys, Keeps, MadeOrNot

(* The identity is known while there is time. *)
LEMMA calendar_keyKeeps == BudgetInv /\ calendar_key => Safe(req')
<1> SUFFICES ASSUME BudgetInv, calendar_key PROVE Safe(req')
  OBVIOUS
<1>0. req \in Local /\ req.pc = "identity" /\ req.claimed <= req.cells /\ InTime(req, req.spent)
  BY DEF BudgetInv, Safe, calendar_key
<1>1. ASSUME NEW n \in Nat, MadeOrNot(n, PROVIDER_TIMEOUT, 0)
     PROVE  Keeps(To("read"), n)
  <2>1. InTime(To("read"), n)
    BY <1>0, <1>1, ToFields, Types, Consts DEF InTime, Recovery, Calls, Made, MadeOrNot
  <2> QED BY <1>0, <2>1, ToKeeps DEF Calls
<1>2. ASSUME NEW n \in Nat, MadeOrNot(n, PROVIDER_TIMEOUT, 0)
     PROVE  Keeps(Over, n)
  BY <1>0, <1>2, OverSafe, OverDone, NowIs, Types, Consts DEF InTime, Recovery, Made,
     MadeOrNot, Done, Keeps
<1>3. PROVIDER_TIMEOUT \in Nat \ {0} /\ 0 \in Nat /\ req.spent \in Nat
  BY <1>0, Consts, Types DEF CreateReserve, PollReserve
<1> QED BY <1>0, <1>1, <1>2, <1>3, CallSpends DEF calendar_key, Keeps, MadeOrNot

(* A first read after a release may find no time left, and then answers. *)
LEMMA _step2_replay_claimsKeeps == BudgetInv /\ _step2_replay_claims => Safe(req')
<1> SUFFICES ASSUME BudgetInv, _step2_replay_claims PROVE Safe(req')
  OBVIOUS
<1>0. req \in Local /\ req.pc = "read" /\ req.claimed <= req.cells /\ InTime(req, req.spent)
  BY DEF BudgetInv, Safe, _step2_replay_claims
<1>1. ASSUME NEW n \in Nat, Made(n, CLAIM_TIMEOUT, 0)
     PROVE  Keeps(To("find"), n)
  <2>1. InTime(To("find"), n)
    BY <1>0, <1>1, ToFields, Types, Consts DEF InTime, Recovery, Calls, Made
  <2> QED BY <1>0, <2>1, ToKeeps DEF Calls
<1>2. ASSUME NEW n \in Nat, Made(n, CLAIM_TIMEOUT, 0)
     PROVE  Keeps(To("replay"), n)
  <2>1. InTime(To("replay"), n)
    BY <1>0, <1>2, ToFields, Types, Consts DEF InTime, Recovery, Calls, Made
  <2> QED BY <1>0, <2>1, ToKeeps DEF Calls
<1>3. ASSUME NEW n \in Nat, Made(n, CLAIM_TIMEOUT, 0)
     PROVE  Keeps(Polling("step2"), n)
  <2> DEFINE s == Polling("step2")
  <2>1. s \in Local /\ s.pc = "poll" /\ s.cells = req.cells /\ s.claimed = req.claimed
        /\ s.caller = "step2" /\ s.next = req.next /\ s.slept = FALSE
        /\ s.spent = req.spent /\ s.tries = req.tries
    BY <1>0, <1>3, Types DEF Polling, Local, Calls
  <2> HIDE DEF s
  <2>2. s.claimed <= s.cells /\ InTime(s, n)
    BY <1>0, <1>3, <2>1, Types, Consts DEF InTime, Recovery, Made
  <2>3. Keeps(s, n)
    BY <2>1, <2>2, SafeAt, NowIs DEF Keeps
  <2> QED BY <2>3 DEF s
<1>4. ASSUME NEW n \in Nat, Made(n, CLAIM_TIMEOUT, 0)
     PROVE  Keeps([Recovering("step2") EXCEPT !.recOnce = TRUE], n)
  <2> DEFINE s == [Recovering("step2") EXCEPT !.recOnce = TRUE]
  <2>1. s \in Local /\ s.pc = "recover" /\ s.cells = req.cells /\ s.claimed = req.claimed
        /\ s.caller = "step2" /\ s.next = req.next /\ s.slept = req.slept
        /\ s.spent = req.spent /\ s.tries = req.tries
    BY <1>0, <1>4, Types DEF Recovering, Local, Calls
  <2> HIDE DEF s
  <2>2. s.claimed <= s.cells /\ InTime(s, n)
    BY <1>0, <1>4, <2>1, Types, Consts DEF InTime, Recovery, Made
  <2>3. Keeps(s, n)
    BY <2>1, <2>2, SafeAt, NowIs DEF Keeps
  <2> QED BY <2>3 DEF s
<1>5. ASSUME NEW n \in Nat, MadeOrNot(n, CLAIM_TIMEOUT, 0)
     PROVE  Keeps(Over, n)
  BY <1>0, <1>5, OverSafe, OverDone, NowIs, Types, Consts DEF InTime, Recovery, Made,
     MadeOrNot, Done, Keeps
<1>6. CLAIM_TIMEOUT \in Nat \ {0} /\ 0 \in Nat /\ req.spent \in Nat
  BY <1>0, Consts, Types DEF CreateReserve, PollReserve
<1> DEFINE recovering == [Recovering("step2") EXCEPT !.recOnce = TRUE]
             answers == {To("find"), To("replay"), Polling("step2"),
             IF req.recOnce THEN Over ELSE recovering}
<1>7. Call(CLAIM_TIMEOUT, 0, answers, {Over})
  BY DEF _step2_replay_claims
<1>8. ASSUME NEW n \in Nat, Made(n, CLAIM_TIMEOUT, 0), NEW s \in answers
     PROVE  Safe(At(s, n))
  BY <1>1, <1>2, <1>3, <1>4, <1>5, <1>8 DEF Keeps, MadeOrNot
<1> HIDE DEF answers
<1>9. \/ req' \in {Over}
      \/ \E s \in answers \cup {Over}, n \in Nat :
           req' = At(s, n) /\ Made(n, CLAIM_TIMEOUT, 0)
  BY <1>0, <1>6, <1>7, CallSpends
<1> QED BY <1>5, <1>6, <1>8, <1>9, Consts DEF Keeps, MadeOrNot

(* A replay answers, or goes on to read the cells of its attempt. *)
LEMMA _replay_bookedKeeps == BudgetInv /\ _replay_booked => Safe(req')
<1> SUFFICES ASSUME BudgetInv, _replay_booked PROVE Safe(req')
  OBVIOUS
<1>0. req \in Local /\ req.pc = "replay" /\ req.claimed <= req.cells /\ InTime(req, req.spent)
  BY DEF BudgetInv, Safe, _replay_booked
<1>1. ASSUME NEW n \in Nat, MadeOrNot(n, PROVIDER_TIMEOUT, 0)
     PROVE  Keeps([To("readAttempt") EXCEPT !.next = "release"], n)
  <2> DEFINE s == [To("readAttempt") EXCEPT !.next = "release"]
  <2>1. s \in Local /\ s.pc = "readAttempt" /\ s.cells = req.cells
        /\ s.claimed = req.claimed /\ s.caller = req.caller /\ s.next = "release"
        /\ s.slept = req.slept /\ s.spent = req.spent /\ s.tries = req.tries
    BY <1>0, <1>1, Types DEF To, Local, Calls
  <2> HIDE DEF s
  <2>2. s.claimed <= s.cells /\ InTime(s, n)
    BY <1>0, <1>1, <2>1, Types, Consts DEF InTime, Recovery, Made, MadeOrNot
  <2>3. Keeps(s, n)
    BY <2>1, <2>2, SafeAt, NowIs DEF Keeps
  <2> QED BY <2>3 DEF s
<1>2. ASSUME NEW n \in Nat, MadeOrNot(n, PROVIDER_TIMEOUT, 0)
     PROVE  Keeps(Over, n)
  BY <1>0, <1>2, OverSafe, OverDone, NowIs, Types, Consts DEF InTime, Recovery, Made,
     MadeOrNot, Done, Keeps
<1>3. PROVIDER_TIMEOUT \in Nat \ {0} /\ 0 \in Nat /\ req.spent \in Nat
  BY <1>0, Consts, Types DEF CreateReserve, PollReserve
<1> DEFINE after == [To("readAttempt") EXCEPT !.next = "release"]
<1>4. CASE req' \in {Over, after}
  BY <1>1, <1>2, <1>3, <1>4, Consts DEF Keeps, MadeOrNot
<1>5. CASE Call(PROVIDER_TIMEOUT, 0, {Over, after}, {Over})
  <2>1. \/ req' \in {Over}
        \/ \E s \in {Over, after} \cup {Over}, n \in Nat :
             req' = At(s, n) /\ Made(n, PROVIDER_TIMEOUT, 0)
    BY <1>0, <1>3, <1>5, CallSpends
  <2> QED BY <1>1, <1>2, <1>3, <2>1, Consts DEF Keeps, MadeOrNot
<1> QED BY <1>4, <1>5 DEF _replay_booked

(* What a poll reads, or fails to read, leaves the time after the poll. *)
LEMMA PollReadKeeps == BudgetInv /\ PollRead => Safe(req')
<1> SUFFICES ASSUME BudgetInv, PollRead PROVE Safe(req')
  OBVIOUS
<1>0. req \in Local /\ req.pc = "pollRead" /\ req.claimed <= req.cells /\ InTime(req, req.spent)
  BY DEF BudgetInv, Safe, PollRead
<1>1. ASSUME NEW n \in Nat, Made(n, CLAIM_TIMEOUT, PollReserve)
     PROVE  Keeps(To("replay"), n)
  <2>1. InTime(To("replay"), n)
    BY <1>0, <1>1, ToFields, Types, Consts DEF InTime, Recovery, Calls, Made, PollReserve
  <2> QED BY <1>0, <2>1, ToKeeps DEF Calls
<1>2. ASSUME NEW n \in Nat, Made(n, CLAIM_TIMEOUT, PollReserve)
     PROVE  Keeps(To("poll"), n)
  <2>1. InTime(To("poll"), n)
    BY <1>0, <1>2, ToFields, Types, Consts DEF InTime, Recovery, Calls, Made, PollReserve
  <2> QED BY <1>0, <2>1, ToKeeps DEF Calls
<1>3. ASSUME NEW n \in Nat, Made(n, CLAIM_TIMEOUT, PollReserve)
     PROVE  Keeps(To("find"), n)
  <2>1. InTime(To("find"), n)
    BY <1>0, <1>3, ToFields, Types, Consts DEF InTime, Recovery, Calls, Made, PollReserve
  <2> QED BY <1>0, <2>1, ToKeeps DEF Calls
<1>4. ASSUME NEW n \in Nat, Made(n, CLAIM_TIMEOUT, PollReserve)
     PROVE  Keeps(Reread, n)
  BY <1>0, <1>4, RereadSafe, RereadReads, NowIs, Types, Consts DEF InTime, Recovery, Made,
     PollReserve, Reading, Keeps
<1>5. ASSUME NEW n \in Nat, Made(n, CLAIM_TIMEOUT, PollReserve)
     PROVE  Keeps(Again, n)
  BY <1>0, <1>5, AgainSafe, AgainReads, NowIs, Types, Consts DEF InTime, Recovery, Made,
     PollReserve, Reading, Keeps
<1>6. ASSUME NEW n \in Nat, MadeOrNot(n, CLAIM_TIMEOUT, PollReserve)
     PROVE  Keeps(To("pollLookup"), n)
  <2>1. InTime(To("pollLookup"), n)
    BY <1>0, <1>6, ToFields, Types, Consts DEF InTime, Recovery, Calls, Made, MadeOrNot,
       PollReserve
  <2> QED BY <1>0, <2>1, ToKeeps DEF Calls
<1>7. ASSUME NEW n \in Nat, MadeOrNot(n, CLAIM_TIMEOUT, PollReserve)
     PROVE  Keeps(Over, n)
  BY <1>0, <1>7, OverSafe, OverDone, NowIs, Types, Consts DEF InTime, Recovery, Made,
     MadeOrNot, PollReserve, Done, Keeps
<1>8. CLAIM_TIMEOUT \in Nat \ {0} /\ PollReserve \in Nat /\ req.spent \in Nat
  BY <1>0, Consts, Types DEF CreateReserve, PollReserve
<1> QED BY <1>0, <1>1, <1>2, <1>3, <1>4, <1>5, <1>6, <1>7, <1>8, CallSpends DEF PollRead,
Keeps, MadeOrNot

(* The lookup leaves the time of a read and a finalize. *)
LEMMA PollLookupKeeps == BudgetInv /\ PollLookup => Safe(req')
<1> SUFFICES ASSUME BudgetInv, PollLookup PROVE Safe(req')
  OBVIOUS
<1>0. req \in Local /\ req.pc = "pollLookup" /\ req.claimed <= req.cells
      /\ InTime(req, req.spent)
  BY DEF BudgetInv, Safe, PollLookup
<1>1. ASSUME NEW n \in Nat, Made(n, PROVIDER_TIMEOUT, 0)
     PROVE  Keeps([To("readAttempt") EXCEPT !.next = "finalize"], n)
  <2> DEFINE s == [To("readAttempt") EXCEPT !.next = "finalize"]
  <2>1. s \in Local /\ s.pc = "readAttempt" /\ s.cells = req.cells
        /\ s.claimed = req.claimed /\ s.caller = req.caller /\ s.next = "finalize"
        /\ s.slept = req.slept /\ s.spent = req.spent /\ s.tries = req.tries
    BY <1>0, <1>1, Types DEF To, Local, Calls
  <2> HIDE DEF s
  <2>2. s.claimed <= s.cells /\ InTime(s, n)
    BY <1>0, <1>1, <2>1, Types, Consts DEF InTime, Recovery, Made
  <2>3. Keeps(s, n)
    BY <2>1, <2>2, SafeAt, NowIs DEF Keeps
  <2> QED BY <2>3 DEF s
<1>2. ASSUME NEW n \in Nat, MadeOrNot(n, PROVIDER_TIMEOUT, 0)
     PROVE  Keeps(Over, n)
  BY <1>0, <1>2, OverSafe, OverDone, NowIs, Types, Consts DEF InTime, Recovery, Made,
     MadeOrNot, Done, Keeps
<1>3. PROVIDER_TIMEOUT \in Nat \ {0} /\ 0 \in Nat /\ req.spent \in Nat
  BY <1>0, Consts, Types DEF CreateReserve, PollReserve
<1> DEFINE answers == {Over, [To("readAttempt") EXCEPT !.next = "finalize"]}
<1>4. \/ req' \in {Over}
      \/ \E s \in answers \cup {Over}, n \in Nat : req' = At(s, n) /\ Made(n, PROVIDER_TIMEOUT, 0)
  BY <1>0, <1>3, CallSpends DEF PollLookup
<1> QED BY <1>1, <1>2, <1>3, <1>4 DEF Keeps, MadeOrNot

(* Step 3 is made in time. *)
LEMMA _step3_replay_calendar_and_limitKeeps == BudgetInv /\ _step3_replay_calendar_and_limit => Safe(req')
<1> SUFFICES ASSUME BudgetInv, _step3_replay_calendar_and_limit PROVE Safe(req')
  OBVIOUS
<1>0. req \in Local /\ req.pc = "find" /\ req.claimed <= req.cells /\ InTime(req, req.spent)
  BY DEF BudgetInv, Safe, _step3_replay_calendar_and_limit
<1>1. ASSUME NEW n \in Nat, Made(n, PROVIDER_TIMEOUT, 0)
     PROVE  Keeps(To("busy"), n)
  <2>1. InTime(To("busy"), n)
    BY <1>0, <1>1, ToFields, Types, Consts DEF InTime, Recovery, Calls, Made
  <2> QED BY <1>0, <2>1, ToKeeps DEF Calls
<1>2. ASSUME NEW n \in Nat, MadeOrNot(n, PROVIDER_TIMEOUT, 0)
     PROVE  Keeps(Over, n)
  BY <1>0, <1>2, OverSafe, OverDone, NowIs, Types, Consts DEF InTime, Recovery, Made,
     MadeOrNot, Done, Keeps
<1>3. PROVIDER_TIMEOUT \in Nat \ {0} /\ 0 \in Nat /\ req.spent \in Nat
  BY <1>0, Consts, Types DEF CreateReserve, PollReserve
<1> QED BY <1>0, <1>1, <1>2, <1>3, CallSpends DEF _step3_replay_calendar_and_limit, Keeps,
MadeOrNot

(* So is step 5, *)
LEMMA _step5_recheckKeeps == BudgetInv /\ _step5_recheck => Safe(req')
<1> SUFFICES ASSUME BudgetInv, _step5_recheck PROVE Safe(req')
  OBVIOUS
<1>0. req \in Local /\ req.pc = "busy" /\ req.claimed <= req.cells /\ InTime(req, req.spent)
  BY DEF BudgetInv, Safe, _step5_recheck
<1>1. ASSUME NEW n \in Nat, Made(n, PROVIDER_TIMEOUT, 0)
     PROVE  Keeps(To("busyRead"), n)
  <2>1. InTime(To("busyRead"), n)
    BY <1>0, <1>1, ToFields, Types, Consts DEF InTime, Recovery, Calls, Made
  <2> QED BY <1>0, <2>1, ToKeeps DEF Calls
<1>2. ASSUME NEW n \in Nat, Made(n, PROVIDER_TIMEOUT, 0)
     PROVE  Keeps(To("guard"), n)
  <2>1. InTime(To("guard"), n)
    BY <1>0, <1>2, ToFields, Types, Consts DEF InTime, Recovery, Calls, Made
  <2> QED BY <1>0, <2>1, ToKeeps DEF Calls
<1>3. ASSUME NEW n \in Nat, MadeOrNot(n, PROVIDER_TIMEOUT, 0)
     PROVE  Keeps(Over, n)
  BY <1>0, <1>3, OverSafe, OverDone, NowIs, Types, Consts DEF InTime, Recovery, Made,
     MadeOrNot, Done, Keeps
<1>4. PROVIDER_TIMEOUT \in Nat \ {0} /\ 0 \in Nat /\ req.spent \in Nat
  BY <1>0, Consts, Types DEF CreateReserve, PollReserve
<1> QED BY <1>0, <1>1, <1>2, <1>3, <1>4, CallSpends DEF _step5_recheck, Keeps, MadeOrNot

(* and its look at our own claim. *)
LEMMA BusyReadKeeps == BudgetInv /\ BusyRead => Safe(req')
<1> SUFFICES ASSUME BudgetInv, BusyRead PROVE Safe(req')
  OBVIOUS
<1>0. req \in Local /\ req.pc = "busyRead" /\ req.claimed <= req.cells /\ InTime(req, req.spent)
  BY DEF BudgetInv, Safe, BusyRead
<1>1. ASSUME NEW n \in Nat, Made(n, CLAIM_TIMEOUT, 0)
     PROVE  Keeps(Again, n)
  BY <1>0, <1>1, AgainSafe, AgainReads, NowIs, Types, Consts DEF InTime, Recovery, Made,
     Reading, Keeps
<1>2. ASSUME NEW n \in Nat, MadeOrNot(n, CLAIM_TIMEOUT, 0)
     PROVE  Keeps(Over, n)
  BY <1>0, <1>2, OverSafe, OverDone, NowIs, Types, Consts DEF InTime, Recovery, Made,
     MadeOrNot, Done, Keeps
<1>3. CLAIM_TIMEOUT \in Nat \ {0} /\ 0 \in Nat /\ req.spent \in Nat
  BY <1>0, Consts, Types DEF CreateReserve, PollReserve
<1> QED BY <1>0, <1>1, <1>2, <1>3, CallSpends DEF BusyRead, Keeps, MadeOrNot

(* A finalize that has no time left is skipped. *)
LEMMA _finalize_cellsKeeps == BudgetInv /\ _finalize_cells => Safe(req')
<1> SUFFICES ASSUME BudgetInv, _finalize_cells PROVE Safe(req')
  OBVIOUS
<1>0. req \in Local /\ req.pc = "finalize" /\ req.claimed <= req.cells /\ InTime(req, req.spent)
  BY DEF BudgetInv, Safe, _finalize_cells
<1>1. ASSUME NEW n \in Nat, MadeOrNot(n, CLAIM_TIMEOUT, 0)
     PROVE  Keeps(Over, n)
  BY <1>0, <1>1, OverSafe, OverDone, NowIs, Types, Consts DEF InTime, Recovery, Made,
     MadeOrNot, Done, Keeps
<1>2. CLAIM_TIMEOUT \in Nat \ {0} /\ 0 \in Nat /\ req.spent \in Nat
  BY <1>0, Consts, Types DEF CreateReserve, PollReserve
<1> QED BY <1>0, <1>1, <1>2, CallSpends DEF _finalize_cells, Keeps, MadeOrNot

-----------------------------------------------------------------------------
(* Releases, polls, and the claims. *)

(* A release starts in time, then the request answers, *)
LEMMA ReleaseThen_done ==
  ASSUME BudgetInv, NEW m \in Nat, req.spent <= m, m <= TOTAL_BUDGET, req.next # "finalize"
  PROVE  Keeps(ReleaseThen("done"), m)
<1>0. req \in Local /\ req.claimed <= req.cells /\ InTime(req, req.spent)
  BY DEF BudgetInv, Safe
<1>1. ASSUME NEW n \in Nat, MadeOrNot(n, m, 0)
     PROVE  Keeps(Releasing("done"), n)
  <2> DEFINE s == Releasing("done")
  <2>1. s \in Local /\ s.pc = "release" /\ s.cells = req.cells /\ s.claimed = req.claimed
        /\ s.caller = req.caller /\ s.next = "done" /\ s.slept = req.slept
        /\ s.spent = req.spent /\ s.tries = req.tries
    BY <1>0, <1>1, Types DEF Releasing, Local, Calls
  <2> HIDE DEF s
  <2>2. s.claimed <= s.cells /\ InTime(s, n)
    BY <1>0, <1>1, <2>1, Types, Consts DEF InTime, Recovery, Made, MadeOrNot
  <2>3. Keeps(s, n)
    BY <2>1, <2>2, SafeAt, NowIs DEF Keeps
  <2> QED BY <2>3 DEF s
<1>2. ASSUME NEW n \in Nat, MadeOrNot(n, m, 0)
     PROVE  Keeps(Over, n)
  BY <1>0, <1>2, OverSafe, OverDone, NowIs, Types, Consts DEF InTime, Recovery, Made,
     MadeOrNot, Done, Keeps
<1> QED BY <1>0, <1>1, <1>2, Types DEF ReleaseThen, Made, MadeOrNot

(* or starts another round. *)
LEMMA ReleaseThen_again ==
  ASSUME BudgetInv, NEW m \in Nat, req.spent <= m, m <= TOTAL_BUDGET, req.next # "finalize"
  PROVE  Keeps(ReleaseThen("again"), m)
<1>0. req \in Local /\ req.claimed <= req.cells /\ InTime(req, req.spent)
  BY DEF BudgetInv, Safe
<1>1. ASSUME NEW n \in Nat, MadeOrNot(n, m, 0)
     PROVE  Keeps(Releasing("again"), n)
  <2> DEFINE s == Releasing("again")
  <2>1. s \in Local /\ s.pc = "release" /\ s.cells = req.cells /\ s.claimed = req.claimed
        /\ s.caller = req.caller /\ s.next = "again" /\ s.slept = req.slept
        /\ s.spent = req.spent /\ s.tries = req.tries
    BY <1>0, <1>1, Types DEF Releasing, Local, Calls
  <2> HIDE DEF s
  <2>2. s.claimed <= s.cells /\ InTime(s, n)
    BY <1>0, <1>1, <2>1, Types, Consts DEF InTime, Recovery, Made, MadeOrNot
  <2>3. Keeps(s, n)
    BY <2>1, <2>2, SafeAt, NowIs DEF Keeps
  <2> QED BY <2>3 DEF s
<1>2. ASSUME NEW n \in Nat, MadeOrNot(n, m, 0)
     PROVE  Keeps(Again, n)
  BY <1>0, <1>2, AgainSafe, AgainReads, NowIs, Types, Consts DEF InTime, Recovery, Made,
     MadeOrNot, Reading, Keeps
<1> QED BY <1>0, <1>1, <1>2, Types DEF ReleaseThen, Made, MadeOrNot

(* Reading an attempt's cells takes no more than the time left, or a grace. *)
LEMMA _for_attemptKeeps == BudgetInv /\ _for_attempt => Safe(req')
<1> SUFFICES ASSUME BudgetInv, _for_attempt PROVE Safe(req')
  OBVIOUS
<1>0. req \in Local /\ req.pc = "readAttempt" /\ req.claimed <= req.cells
      /\ InTime(req, req.spent)
  BY DEF BudgetInv, Safe, _for_attempt
<1>1. ASSUME NEW n \in Nat, Graced(n)
     PROVE  Keeps(Releasing("done"), n)
  <2> DEFINE s == Releasing("done")
  <2>1. s \in Local /\ s.pc = "release" /\ s.cells = req.cells /\ s.claimed = req.claimed
        /\ s.caller = req.caller /\ s.next = "done" /\ s.slept = req.slept
        /\ s.spent = req.spent /\ s.tries = req.tries
    BY <1>0, <1>1, Types DEF Releasing, Local, Calls
  <2> HIDE DEF s
  <2>2. s.claimed <= s.cells /\ InTime(s, n)
    BY <1>0, <1>1, <2>1, Types, Consts DEF InTime, Recovery, Graced
  <2>3. Keeps(s, n)
    BY <2>1, <2>2, SafeAt, NowIs DEF Keeps
  <2> QED BY <2>3 DEF s
<1>2. ASSUME NEW n \in Nat, Graced(n)
     PROVE  Keeps(Over, n)
  BY <1>0, <1>2, OverSafe, OverDone, NowIs, Types, Consts DEF InTime, Recovery, Graced, Done,
     Keeps
<1>3. ASSUME NEW n \in Nat, Graced(n), req.next = "finalize"
     PROVE  Keeps(To("finalize"), n)
  <2>1. InTime(To("finalize"), n)
    BY <1>0, <1>3, ToFields, Types, Consts DEF InTime, Recovery, Calls, Graced
  <2> QED BY <1>0, <2>1, ToKeeps DEF Calls
<1>4. req.next \in {"release", "finalize"} /\ req.spent <= TOTAL_BUDGET /\ req.spent \in Nat
  BY <1>0, Types DEF InTime
<1> QED BY <1>0, <1>1, <1>2, <1>3, <1>4, GraceSpends, Consts DEF _for_attempt, Keeps

(* So does releasing them. *)
LEMMA _release_allKeeps == BudgetInv /\ _release_all => Safe(req')
<1> SUFFICES ASSUME BudgetInv, _release_all PROVE Safe(req')
  OBVIOUS
<1>0. req \in Local /\ req.pc = "release" /\ req.claimed <= req.cells /\ InTime(req, req.spent)
  BY DEF BudgetInv, Safe, _release_all
<1>1. ASSUME NEW n \in Nat, Graced(n)
     PROVE  Keeps(Over, n)
  BY <1>0, <1>1, OverSafe, OverDone, NowIs, Types, Consts DEF InTime, Recovery, Graced, Done,
     Keeps
<1>2. ASSUME NEW n \in Nat, Graced(n), req.next = "again"
     PROVE  Safe(At(Again, n))
  BY <1>0, <1>2, AgainSafe, Types, Consts DEF InTime, Graced
<1>3. ASSUME NEW n \in Nat, Graced(n), req.next = "poll"
     PROVE  Keeps([Polling("step6") EXCEPT !.claimed = 0], n)
  <2> DEFINE s == [Polling("step6") EXCEPT !.claimed = 0]
  <2>1. s \in Local /\ s.pc = "poll" /\ s.cells = req.cells /\ s.claimed = 0
        /\ s.caller = "step6" /\ s.next = req.next /\ s.slept = FALSE
        /\ s.spent = req.spent /\ s.tries = req.tries
    BY <1>0, <1>3, Types DEF Polling, Local, Calls
  <2> HIDE DEF s
  <2>2. s.claimed <= s.cells /\ InTime(s, n)
    BY <1>0, <1>3, <2>1, Types, Consts DEF InTime, Recovery, Graced
  <2>3. Keeps(s, n)
    BY <2>1, <2>2, SafeAt, NowIs DEF Keeps
  <2> QED BY <2>3 DEF s
<1>4. req.next \in {"again", "poll", "done"}
  BY <1>0 DEF InTime
<1> QED BY <1>0, <1>1, <1>2, <1>3, <1>4, GraceSpends DEF _release_all, Keeps

(* A poll sleeps only while the calls after it still fit. *)
LEMMA _poll_own_pendingKeeps == BudgetInv /\ _poll_own_pending => Safe(req')
<1> SUFFICES ASSUME BudgetInv, _poll_own_pending PROVE Safe(req')
  OBVIOUS
<1>0. req \in Local /\ req.pc = "poll" /\ req.claimed <= req.cells /\ InTime(req, req.spent)
  BY DEF BudgetInv, Safe, _poll_own_pending
<1>1. ASSUME NEW n \in Nat, Made(n, POLL_INTERVAL, PollReserve)
     PROVE  Keeps([To("pollRead") EXCEPT !.slept = TRUE], n)
  <2> DEFINE s == [To("pollRead") EXCEPT !.slept = TRUE]
  <2>1. s \in Local /\ s.pc = "pollRead" /\ s.cells = req.cells /\ s.claimed = req.claimed
        /\ s.caller = req.caller /\ s.next = req.next /\ s.slept = TRUE
        /\ s.spent = req.spent /\ s.tries = req.tries
    BY <1>0, <1>1, Types DEF To, Local, Calls
  <2> HIDE DEF s
  <2>2. s.claimed <= s.cells /\ InTime(s, n)
    BY <1>0, <1>1, <2>1, Types, Consts DEF InTime, Recovery, Made, PollReserve
  <2>3. Keeps(s, n)
    BY <2>1, <2>2, SafeAt, NowIs DEF Keeps
  <2> QED BY <2>3 DEF s
<1>2. ASSUME NEW n \in Nat, MadeOrNot(n, POLL_INTERVAL, 0), n = req.spent
     PROVE  Keeps(To("pollLookup"), n)
  <2>1. InTime(To("pollLookup"), n)
    BY <1>0, <1>2, ToFields, Types, Consts DEF InTime, Recovery, Calls, Made, MadeOrNot
  <2> QED BY <1>0, <2>1, ToKeeps DEF Calls
<1>3. CASE Polls
  <2>1. req.spent + POLL_INTERVAL + PollReserve <= TOTAL_BUDGET
        /\ req.spent + POLL_INTERVAL \in Nat
    BY <1>0, <1>3, Types, Consts DEF Polls, PollReserve, Left, remaining
  <2>2. req' = At([To("pollRead") EXCEPT !.slept = TRUE], req.spent + POLL_INTERVAL)
    BY <1>0, <1>3, Types DEF _poll_own_pending, At, To, Local
  <2>3. PollReserve \in Nat /\ req.spent \in Nat
    BY <1>0, Types, Consts DEF PollReserve
  <2> DEFINE n == req.spent + POLL_INTERVAL
  <2>4. n \in Nat /\ req.spent <= n /\ n <= req.spent + POLL_INTERVAL
        /\ n + PollReserve <= TOTAL_BUDGET
    BY <2>1, <2>3, Consts
  <2> HIDE DEF n
  <2>5. Safe(At([To("pollRead") EXCEPT !.slept = TRUE], n))
    BY <1>1, <2>4 DEF Keeps, Made
  <2> QED BY <2>2, <2>5 DEF n
<1>4. CASE ~Polls
  BY <1>0, <1>2, <1>4, Types, Consts DEF _poll_own_pending, Keeps, Made, MadeOrNot
<1> QED BY <1>3, <1>4

(* Behind the guard the create and the finalize fit. *)
LEMMA GuardKeeps == BudgetInv /\ Guard => Safe(req')
<1> SUFFICES ASSUME BudgetInv, Guard PROVE Safe(req')
  OBVIOUS
<1>0. req \in Local /\ req.pc = "guard" /\ req.claimed <= req.cells /\ InTime(req, req.spent)
  BY DEF BudgetInv, Safe, Guard
<1>1. ASSUME NEW n \in Nat, Made(n, 0, CreateReserve)
     PROVE  Keeps([To("claim") EXCEPT !.claimed = 0, !.retried = FALSE], n)
  <2> DEFINE s == [To("claim") EXCEPT !.claimed = 0, !.retried = FALSE]
  <2>1. s \in Local /\ s.pc = "claim" /\ s.cells = req.cells /\ s.claimed = 0
        /\ s.caller = req.caller /\ s.next = req.next /\ s.slept = req.slept
        /\ s.spent = req.spent /\ s.tries = req.tries
    BY <1>0, <1>1, Types DEF To, Local, Calls
  <2> HIDE DEF s
  <2>2. s.claimed <= s.cells /\ InTime(s, n)
    BY <1>0, <1>1, <2>1, Types, Consts DEF InTime, Recovery, Made, CreateReserve
  <2>3. Keeps(s, n)
    BY <2>1, <2>2, SafeAt, NowIs DEF Keeps
  <2> QED BY <2>3 DEF s
<1>2. ASSUME NEW n \in Nat, MadeOrNot(n, 0, 0)
     PROVE  Keeps(Over, n)
  BY <1>0, <1>2, OverSafe, OverDone, NowIs, Types, Consts DEF InTime, Recovery, Made,
     MadeOrNot, Done, Keeps
<1>3. CASE booking_fits(Left, req.cells)
  <2>1. req.cells * EXPECTED_CLAIM_LATENCY \in Nat
    BY <1>0, Types, Consts
  <2>2. req.spent + CreateReserve <= TOTAL_BUDGET
    BY <1>0, <1>3, <2>1, Types, Consts DEF booking_fits, Left, remaining, CreateReserve
  <2> QED BY <1>0, <1>1, <1>3, <2>2, Types, Consts DEF Guard, Keeps, Made, MadeOrNot
<1>4. CASE ~booking_fits(Left, req.cells)
  BY <1>0, <1>2, <1>4, Types, Consts DEF Guard, Keeps, Made, MadeOrNot
<1> QED BY <1>3, <1>4

(* They still do after every claim, which leaves their time in reserve. *)
LEMMA _step6_claimKeeps == BudgetInv /\ _step6_claim => Safe(req')
<1> SUFFICES ASSUME BudgetInv, _step6_claim PROVE Safe(req')
  OBVIOUS
<1>0. req \in Local /\ req.pc = "claim" /\ req.claimed <= req.cells /\ InTime(req, req.spent)
  BY DEF BudgetInv, Safe, _step6_claim
<1>a. req.next # "finalize"
  BY <1>0 DEF InTime
<1>1. ASSUME NEW n \in Nat, Made(n, CLAIM_TIMEOUT, CreateReserve)
     PROVE  Keeps(Claimed, n)
  <2> DEFINE s == Claimed
  <2>1. s \in Local /\ s.pc = (IF req.claimed + 1 = req.cells THEN "create" ELSE "claim")
        /\ s.cells = req.cells /\ s.claimed = req.claimed + 1 /\ s.caller = req.caller
        /\ s.next = req.next /\ s.slept = req.slept /\ s.spent = req.spent
        /\ s.tries = req.tries
    <3>1. req.claimed + 1 \in Nat
      BY <1>0, Types
    <3>2. CASE req.claimed + 1 = req.cells
      BY <1>0, <3>1, <3>2 DEF Claimed, Local, Calls
    <3>3. CASE req.claimed + 1 # req.cells
      BY <1>0, <3>1, <3>3 DEF Claimed, Local, Calls
    <3> QED BY <3>2, <3>3
  <2> HIDE DEF s
  <2>2. s.claimed <= s.cells /\ InTime(s, n)
    BY <1>0, <1>1, <2>1, Types, Consts DEF InTime, Recovery, Made, CreateReserve
  <2>3. Keeps(s, n)
    BY <2>1, <2>2, SafeAt, NowIs DEF Keeps
  <2> QED BY <2>3 DEF s
<1>2. ASSUME NEW n \in Nat, MadeOrNot(n, CLAIM_TIMEOUT, CreateReserve)
     PROVE  Keeps(Again, n)
  BY <1>0, <1>2, AgainSafe, AgainReads, NowIs, Types, Consts DEF InTime, Recovery, Made,
     MadeOrNot, CreateReserve, Reading, Keeps
<1>3. ASSUME NEW n \in Nat, Made(n, CLAIM_TIMEOUT, CreateReserve)
     PROVE  Keeps(Recovering("step6"), n)
  <2> DEFINE s == Recovering("step6")
  <2>1. s \in Local /\ s.pc = "recover" /\ s.cells = req.cells /\ s.claimed = req.claimed
        /\ s.caller = "step6" /\ s.next = req.next /\ s.slept = req.slept
        /\ s.spent = req.spent /\ s.tries = req.tries
    BY <1>0, <1>3, Types DEF Recovering, Local, Calls
  <2> HIDE DEF s
  <2>2. s.claimed <= s.cells /\ InTime(s, n)
    BY <1>0, <1>3, <2>1, Types, Consts DEF InTime, Recovery, Made, CreateReserve
  <2>3. Keeps(s, n)
    BY <2>1, <2>2, SafeAt, NowIs DEF Keeps
  <2> QED BY <2>3 DEF s
<1>4. ASSUME NEW n \in Nat, Made(n, CLAIM_TIMEOUT, CreateReserve)
     PROVE  Keeps(Releasing("poll"), n)
  <2> DEFINE s == Releasing("poll")
  <2>1. s \in Local /\ s.pc = "release" /\ s.cells = req.cells /\ s.claimed = req.claimed
        /\ s.caller = req.caller /\ s.next = "poll" /\ s.slept = req.slept
        /\ s.spent = req.spent /\ s.tries = req.tries
    BY <1>0, <1>4, Types DEF Releasing, Local, Calls
  <2> HIDE DEF s
  <2>2. s.claimed <= s.cells /\ InTime(s, n)
    BY <1>0, <1>4, <2>1, Types, Consts DEF InTime, Recovery, Made, CreateReserve
  <2>3. Keeps(s, n)
    BY <2>1, <2>2, SafeAt, NowIs DEF Keeps
  <2> QED BY <2>3 DEF s
<1>5. ASSUME NEW n \in Nat, MadeOrNot(n, CLAIM_TIMEOUT, CreateReserve), NEW x \in {"done",
             "again"}
     PROVE  Keeps(ReleaseThen(x), n)
  <2>1. n <= TOTAL_BUDGET
    BY <1>0, <1>5, Types, Consts DEF CreateReserve, InTime, Made, MadeOrNot
  <2>2. req.spent <= n
    BY <1>0, <1>5, Types DEF Made, MadeOrNot
  <2> QED BY <1>a, <1>5, <2>1, <2>2, ReleaseThen_done, ReleaseThen_again
<1>6. CLAIM_TIMEOUT \in Nat \ {0} /\ CreateReserve \in Nat /\ req.spent \in Nat
  BY <1>0, Consts, Types DEF CreateReserve
<1>7. ASSUME NEW n \in Nat, Made(n, CLAIM_TIMEOUT, CreateReserve),
             NEW s \in {Claimed} \cup _on_held \cup {ReleaseThen("done")}
     PROVE  Safe(At(s, n))
  BY <1>1, <1>2, <1>3, <1>4, <1>5, <1>7 DEF _on_held, Keeps, MadeOrNot
<1> QED BY <1>0, <1>5, <1>6, <1>7, CallSpends DEF _step6_claim, Keeps, MadeOrNot

-----------------------------------------------------------------------------
(* Recovery. *)

(* A recovery hands back what its caller kept in reserve. *)
LEMMA RecoveredKeeps ==
  ASSUME BudgetInv, req.pc \in Recovery, NEW m \in Nat, req.spent <= m,
         m + Reserve <= TOTAL_BUDGET \/ m = req.spent, NEW way \in Recovered \cup Failed
  PROVE  Keeps(way, m)
<1>0. req \in Local /\ req.pc \in Recovery /\ req.claimed <= req.cells /\ InTime(req, req.spent)
      /\ req.next # "finalize" /\ req.caller \in {"step2", "step6"}
  BY DEF BudgetInv, Safe, InTime, Recovery, Local
<1>a. m <= TOTAL_BUDGET
  BY <1>0, Types, Consts DEF Reserve, CreateReserve, InTime, Recovery
<1>1. ASSUME NEW n \in Nat, MadeOrNot(n, m, 0)
     PROVE  Keeps(Over, n)
  BY <1>0, <1>1, OverSafe, OverDone, NowIs, Types, Consts DEF InTime, Recovery, Made,
     MadeOrNot, Done, Keeps
<1>2. ASSUME NEW n \in Nat, MadeOrNot(n, m, 0)
     PROVE  Keeps(Reread, n)
  BY <1>0, <1>2, RereadSafe, RereadReads, NowIs, Types, Consts DEF InTime, Recovery, Made,
     MadeOrNot, Reading, Keeps
<1>3. ASSUME NEW n \in Nat, MadeOrNot(n, m, Reserve), req.caller = "step6"
     PROVE  Keeps(Retry, n)
  <2> DEFINE s == Retry
  <2>1. s \in Local /\ s.pc = "claim" /\ s.cells = req.cells /\ s.claimed = req.claimed
        /\ s.caller = req.caller /\ s.next = req.next /\ s.slept = req.slept
        /\ s.spent = req.spent /\ s.tries = req.tries
    BY <1>0, <1>3, Types DEF Retry, Local, Calls
  <2> HIDE DEF s
  <2>2. s.claimed <= s.cells /\ InTime(s, n)
    BY <1>0, <1>3, <2>1, Types, Consts DEF InTime, Recovery, Made, MadeOrNot, Reserve,
       CreateReserve
  <2>3. Keeps(s, n)
    BY <2>1, <2>2, SafeAt, NowIs DEF Keeps
  <2> QED BY <2>3 DEF s
<1>4. ASSUME NEW x \in {"done", "again"}
     PROVE  Keeps(ReleaseThen(x), m)
  BY <1>0, <1>a, ReleaseThen_done, ReleaseThen_again
<1>5. req.spent \in Nat /\ m <= req.spent + m
  BY <1>0, Types
<1>6. CASE req.caller = "step2"
  BY <1>0, <1>a, <1>1, <1>2, <1>5, <1>6 DEF Recovered, Failed, Made, MadeOrNot
<1>7. CASE req.caller = "step6"
  BY <1>0, <1>a, <1>3, <1>4, <1>5, <1>7 DEF Recovered, Failed, Made, MadeOrNot
<1> QED BY <1>0, <1>6, <1>7

(* Its lookup leaves the reserve, *)
LEMMA _evaluateKeeps == BudgetInv /\ _evaluate => Safe(req')
<1> SUFFICES ASSUME BudgetInv, _evaluate PROVE Safe(req')
  OBVIOUS
<1>0. req \in Local /\ req.pc = "recover" /\ req.claimed <= req.cells /\ InTime(req, req.spent)
  BY DEF BudgetInv, Safe, _evaluate
<1>a. Reserve \in Nat /\ PROVIDER_TIMEOUT \in Nat \ {0} /\ req.spent \in Nat
      /\ req.pc \in Recovery
  BY <1>0, Types, Consts DEF Reserve, CreateReserve, Recovery
<1>1. ASSUME NEW n \in Nat, MadeOrNot(n, PROVIDER_TIMEOUT, Reserve)
     PROVE  Keeps(To("siblings"), n)
  <2>1. InTime(To("siblings"), n)
    BY <1>0, <1>1, ToFields, Types, Consts DEF InTime, Recovery, Calls, Made, MadeOrNot,
       Reserve, CreateReserve
  <2> QED BY <1>0, <2>1, ToKeeps DEF Calls
<1>2. ASSUME NEW n \in Nat, MadeOrNot(n, PROVIDER_TIMEOUT, Reserve)
     PROVE  Keeps(To("recWrite"), n)
  <2>1. InTime(To("recWrite"), n)
    BY <1>0, <1>2, ToFields, Types, Consts DEF InTime, Recovery, Calls, Made, MadeOrNot,
       Reserve, CreateReserve
  <2> QED BY <1>0, <2>1, ToKeeps DEF Calls
<1> DEFINE answers == {To("siblings"), To("recWrite")} \cup Recovered
           failures == Failed
<1>3. ASSUME NEW n \in Nat, MadeOrNot(n, PROVIDER_TIMEOUT, Reserve),
             NEW s \in answers \cup failures
     PROVE  Keeps(s, n)
  BY <1>a, <1>1, <1>2, RecoveredKeeps, <1>3 DEF Made, MadeOrNot
<1>4. CASE Call(PROVIDER_TIMEOUT, Reserve, answers, failures)
  <2>1. \/ req' \in failures
        \/ \E s \in answers \cup failures, n \in Nat :
             req' = At(s, n) /\ Made(n, PROVIDER_TIMEOUT, Reserve)
    BY <1>0, <1>a, <1>4, CallSpends
  <2> QED BY <1>a, <1>3, <2>1, Consts DEF Keeps, MadeOrNot
<1>5. CASE req' \in Recovered \cup {To("recWrite")}
  BY <1>a, <1>3, <1>5, Consts DEF Keeps, MadeOrNot
<1> QED BY <1>4, <1>5 DEF _evaluate

(* its reads of the siblings do, *)
LEMMA _stale_siblingsKeeps == BudgetInv /\ _stale_siblings => Safe(req')
<1> SUFFICES ASSUME BudgetInv, _stale_siblings PROVE Safe(req')
  OBVIOUS
<1>0. req \in Local /\ req.pc = "siblings" /\ req.claimed <= req.cells /\ InTime(req, req.spent)
  BY DEF BudgetInv, Safe, _stale_siblings
<1>a. Reserve \in Nat /\ CLAIM_TIMEOUT \in Nat \ {0} /\ req.spent \in Nat /\ req.pc \in Recovery
  BY <1>0, Types, Consts DEF Reserve, CreateReserve, Recovery
<1>1. ASSUME NEW n \in Nat, MadeOrNot(n, CLAIM_TIMEOUT, Reserve)
     PROVE  Keeps(To("recWrite"), n)
  <2>1. InTime(To("recWrite"), n)
    BY <1>0, <1>1, ToFields, Types, Consts DEF InTime, Recovery, Calls, Made, MadeOrNot,
       Reserve, CreateReserve
  <2> QED BY <1>0, <2>1, ToKeeps DEF Calls
<1> DEFINE answers == {To("recWrite")} \cup Recovered
           failures == answers
<1>2. ASSUME NEW n \in Nat, MadeOrNot(n, CLAIM_TIMEOUT, Reserve),
             NEW s \in answers \cup failures
     PROVE  Keeps(s, n)
  BY <1>a, <1>1, RecoveredKeeps, <1>2 DEF Made, MadeOrNot
<1>3. CASE Call(CLAIM_TIMEOUT, Reserve, answers, failures)
  <2>1. \/ req' \in failures
        \/ \E s \in answers \cup failures, n \in Nat :
             req' = At(s, n) /\ Made(n, CLAIM_TIMEOUT, Reserve)
    BY <1>0, <1>a, <1>3, CallSpends
  <2> QED BY <1>a, <1>2, <2>1, Consts DEF Keeps, MadeOrNot
<1> QED BY <1>3 DEF _stale_siblings

(* its write does, *)
LEMMA _casKeeps == BudgetInv /\ _cas => Safe(req')
<1> SUFFICES ASSUME BudgetInv, _cas PROVE Safe(req')
  OBVIOUS
<1>0. req \in Local /\ req.pc = "recWrite" /\ req.claimed <= req.cells /\ InTime(req, req.spent)
  BY DEF BudgetInv, Safe, _cas
<1>a. Reserve \in Nat /\ CLAIM_TIMEOUT \in Nat \ {0} /\ req.spent \in Nat /\ req.pc \in Recovery
  BY <1>0, Types, Consts DEF Reserve, CreateReserve, Recovery
<1>1. ASSUME NEW n \in Nat, MadeOrNot(n, CLAIM_TIMEOUT, Reserve)
     PROVE  Keeps(To("recSiblings"), n)
  <2>1. InTime(To("recSiblings"), n)
    BY <1>0, <1>1, ToFields, Types, Consts DEF InTime, Recovery, Calls, Made, MadeOrNot,
       Reserve, CreateReserve
  <2> QED BY <1>0, <2>1, ToKeeps DEF Calls
<1>2. ASSUME NEW n \in Nat, MadeOrNot(n, CLAIM_TIMEOUT, Reserve)
     PROVE  Keeps(To("recRead"), n)
  <2>1. InTime(To("recRead"), n)
    BY <1>0, <1>2, ToFields, Types, Consts DEF InTime, Recovery, Calls, Made, MadeOrNot,
       Reserve, CreateReserve
  <2> QED BY <1>0, <2>1, ToKeeps DEF Calls
<1> DEFINE answers == {To("recSiblings"), To("recRead")} \cup Recovered
           failures == Failed
<1>3. ASSUME NEW n \in Nat, MadeOrNot(n, CLAIM_TIMEOUT, Reserve),
             NEW s \in answers \cup failures
     PROVE  Keeps(s, n)
  BY <1>a, <1>1, <1>2, RecoveredKeeps, <1>3 DEF Made, MadeOrNot
<1>4. CASE Call(CLAIM_TIMEOUT, Reserve, answers, failures)
  <2>1. \/ req' \in failures
        \/ \E s \in answers \cup failures, n \in Nat :
             req' = At(s, n) /\ Made(n, CLAIM_TIMEOUT, Reserve)
    BY <1>0, <1>a, <1>4, CallSpends
  <2> QED BY <1>a, <1>3, <2>1, Consts DEF Keeps, MadeOrNot
<1> QED BY <1>4 DEF _cas

(* its writes of the siblings do, *)
LEMMA _best_effortKeeps == BudgetInv /\ _best_effort => Safe(req')
<1> SUFFICES ASSUME BudgetInv, _best_effort PROVE Safe(req')
  OBVIOUS
<1>0. req \in Local /\ req.pc = "recSiblings" /\ req.claimed <= req.cells
      /\ InTime(req, req.spent)
  BY DEF BudgetInv, Safe, _best_effort
<1>a. Reserve \in Nat /\ CLAIM_TIMEOUT \in Nat \ {0} /\ req.spent \in Nat /\ req.pc \in Recovery
  BY <1>0, Types, Consts DEF Reserve, CreateReserve, Recovery
<1> DEFINE answers == Recovered
           failures == answers
<1>1. ASSUME NEW n \in Nat, MadeOrNot(n, CLAIM_TIMEOUT, Reserve),
             NEW s \in answers \cup failures
     PROVE  Keeps(s, n)
  BY <1>a, RecoveredKeeps, <1>1 DEF Made, MadeOrNot
<1>2. CASE Call(CLAIM_TIMEOUT, Reserve, answers, failures)
  <2>1. \/ req' \in failures
        \/ \E s \in answers \cup failures, n \in Nat :
             req' = At(s, n) /\ Made(n, CLAIM_TIMEOUT, Reserve)
    BY <1>0, <1>a, <1>2, CallSpends
  <2> QED BY <1>a, <1>1, <2>1, Consts DEF Keeps, MadeOrNot
<1> QED BY <1>2 DEF _best_effort

(* and its reading the cell again. *)
LEMMA ReadAgainKeeps == BudgetInv /\ ReadAgain => Safe(req')
<1> SUFFICES ASSUME BudgetInv, ReadAgain PROVE Safe(req')
  OBVIOUS
<1>0. req \in Local /\ req.pc = "recRead" /\ req.claimed <= req.cells /\ InTime(req, req.spent)
  BY DEF BudgetInv, Safe, ReadAgain
<1>a. Reserve \in Nat /\ CLAIM_TIMEOUT \in Nat \ {0} /\ req.spent \in Nat /\ req.pc \in Recovery
  BY <1>0, Types, Consts DEF Reserve, CreateReserve, Recovery
<1>1. ASSUME NEW n \in Nat, MadeOrNot(n, CLAIM_TIMEOUT, Reserve), req.cas # MAX_CAS_ROUNDS
     PROVE  Keeps([To("recover") EXCEPT !.cas = @ + 1], n)
  <2> DEFINE s == [To("recover") EXCEPT !.cas = @ + 1]
  <2>1. s \in Local /\ s.pc = "recover" /\ s.cells = req.cells /\ s.claimed = req.claimed
        /\ s.caller = req.caller /\ s.next = req.next /\ s.slept = req.slept
        /\ s.spent = req.spent /\ s.tries = req.tries
    BY <1>0, <1>1, Types DEF To, Local, Calls
  <2> HIDE DEF s
  <2>2. s.claimed <= s.cells /\ InTime(s, n)
    BY <1>0, <1>1, <2>1, Types, Consts DEF InTime, Recovery, Made, MadeOrNot, Reserve,
       CreateReserve
  <2>3. Keeps(s, n)
    BY <2>1, <2>2, SafeAt, NowIs DEF Keeps
  <2> QED BY <2>3 DEF s
<1> DEFINE answers == (IF req.cas = MAX_CAS_ROUNDS THEN {} ELSE {[To("recover") EXCEPT !.cas = @ + 1]}) \cup Recovered
           failures == Failed
<1>2. ASSUME NEW n \in Nat, MadeOrNot(n, CLAIM_TIMEOUT, Reserve),
             NEW s \in answers \cup failures
     PROVE  Keeps(s, n)
  BY <1>a, <1>1, RecoveredKeeps, <1>2 DEF Made, MadeOrNot
<1>3. CASE Call(CLAIM_TIMEOUT, Reserve, answers, failures)
  <2>1. \/ req' \in failures
        \/ \E s \in answers \cup failures, n \in Nat :
             req' = At(s, n) /\ Made(n, CLAIM_TIMEOUT, Reserve)
    BY <1>0, <1>a, <1>3, CallSpends
  <2> QED BY <1>a, <1>2, <2>1, Consts DEF Keeps, MadeOrNot
<1> QED BY <1>3 DEF ReadAgain

-----------------------------------------------------------------------------
(* The create and what follows. *)

(* A create that answers leaves the finalize its time; one that does not is looked up. *)
LEMMA _createKeeps == BudgetInv /\ _create => Safe(req')
<1> SUFFICES ASSUME BudgetInv, _create PROVE Safe(req')
  OBVIOUS
<1>0. req \in Local /\ req.pc = "create" /\ req.claimed <= req.cells /\ InTime(req, req.spent)
  BY DEF BudgetInv, Safe, _create
<1>a. req.next # "finalize" /\ req.spent <= TOTAL_BUDGET /\ req.spent \in Nat
      /\ PROVIDER_TIMEOUT \in Nat \ {0}
  BY <1>0, Types, Consts DEF InTime
<1>1. ASSUME NEW n \in Nat, MadeOrNot(n, PROVIDER_TIMEOUT, 0), req.tries = 0
     PROVE  Keeps(To("finalize"), n)
  <2>1. InTime(To("finalize"), n)
    BY <1>0, <1>1, ToFields, Types, Consts DEF InTime, Recovery, Calls, Made, MadeOrNot
  <2> QED BY <1>0, <2>1, ToKeeps DEF Calls
<1>2. ASSUME NEW n \in Nat, MadeOrNot(n, PROVIDER_TIMEOUT, 0)
     PROVE  Keeps([To("lookup") EXCEPT !.tries = 1], n)
  <2> DEFINE s == [To("lookup") EXCEPT !.tries = 1]
  <2>1. s \in Local /\ s.pc = "lookup" /\ s.cells = req.cells /\ s.claimed = req.claimed
        /\ s.caller = req.caller /\ s.next = req.next /\ s.slept = req.slept
        /\ s.spent = req.spent /\ s.tries = 1
    BY <1>0, <1>2, Types DEF To, Local, Calls
  <2> HIDE DEF s
  <2>2. s.claimed <= s.cells /\ InTime(s, n)
    BY <1>0, <1>2, <2>1, Types, Consts DEF InTime, Recovery, Made, MadeOrNot
  <2>3. Keeps(s, n)
    BY <2>1, <2>2, SafeAt, NowIs DEF Keeps
  <2> QED BY <2>3 DEF s
<1>3. ASSUME NEW n \in Nat, MadeOrNot(n, PROVIDER_TIMEOUT, 0)
     PROVE  Keeps([To("lookup") EXCEPT !.tries = 2], n)
  <2> DEFINE s == [To("lookup") EXCEPT !.tries = 2]
  <2>1. s \in Local /\ s.pc = "lookup" /\ s.cells = req.cells /\ s.claimed = req.claimed
        /\ s.caller = req.caller /\ s.next = req.next /\ s.slept = req.slept
        /\ s.spent = req.spent /\ s.tries = 2
    BY <1>0, <1>3, Types DEF To, Local, Calls
  <2> HIDE DEF s
  <2>2. s.claimed <= s.cells /\ InTime(s, n)
    BY <1>0, <1>3, <2>1, Types, Consts DEF InTime, Recovery, Made, MadeOrNot
  <2>3. Keeps(s, n)
    BY <2>1, <2>2, SafeAt, NowIs DEF Keeps
  <2> QED BY <2>3 DEF s
<1>4. ASSUME NEW n \in Nat, MadeOrNot(n, PROVIDER_TIMEOUT, 0)
     PROVE  Keeps(ReleaseThen("done"), n)
  BY <1>a, <1>4, ReleaseThen_done, Consts DEF Made, MadeOrNot
<1> DEFINE unsure == {ReleaseThen("done"), [To("lookup") EXCEPT !.tries = 1]}
           again == {[To("lookup") EXCEPT !.tries = 2]}
<1>5. CASE req.tries = 0
  <2>1. \/ req' \in unsure
        \/ \E s \in {To("finalize")} \cup unsure, n \in Nat :
             req' = At(s, n) /\ Made(n, PROVIDER_TIMEOUT, 0)
    BY <1>0, <1>a, <1>5, CallSpends DEF _create
  <2> QED BY <1>a, <1>1, <1>2, <1>4, <1>5, <2>1, Consts DEF Keeps, MadeOrNot
<1>6. CASE req.tries # 0
  <2>1. \/ req' \in again
        \/ \E s \in again \cup again, n \in Nat :
             req' = At(s, n) /\ Made(n, PROVIDER_TIMEOUT, 0)
    BY <1>0, <1>a, <1>6, CallSpends DEF _create
  <2> QED BY <1>a, <1>3, <2>1, Consts DEF Keeps, MadeOrNot
<1> QED BY <1>5, <1>6

(* Lookups of an uncertain create end within the budget. *)
LEMMA _lookup_oursKeeps == BudgetInv /\ _lookup_ours => Safe(req')
<1> SUFFICES ASSUME BudgetInv, _lookup_ours PROVE Safe(req')
  OBVIOUS
<1>0. req \in Local /\ req.pc = "lookup" /\ req.claimed <= req.cells /\ InTime(req, req.spent)
  BY DEF BudgetInv, Safe, _lookup_ours
<1>a. req.next # "finalize" /\ req.tries # 0 /\ req.spent \in Nat
      /\ PROVIDER_TIMEOUT \in Nat \ {0}
  BY <1>0, Types, Consts DEF InTime
<1>1. ASSUME NEW n \in Nat, MadeOrNot(n, PROVIDER_TIMEOUT, 0)
     PROVE  Keeps(To("create"), n)
  <2>1. InTime(To("create"), n)
    BY <1>0, <1>1, ToFields, Types, Consts DEF InTime, Recovery, Calls, Made, MadeOrNot
  <2> QED BY <1>0, <2>1, ToKeeps DEF Calls
<1>2. ASSUME NEW n \in Nat, MadeOrNot(n, PROVIDER_TIMEOUT, 0)
     PROVE  Keeps(To("finalize"), n)
  <2>1. InTime(To("finalize"), n)
    BY <1>0, <1>2, ToFields, Types, Consts DEF InTime, Recovery, Calls, Made, MadeOrNot
  <2> QED BY <1>0, <2>1, ToKeeps DEF Calls
<1>3. ASSUME NEW n \in Nat, MadeOrNot(n, PROVIDER_TIMEOUT, 0)
     PROVE  Keeps(Over, n)
  BY <1>0, <1>3, OverSafe, OverDone, NowIs, Types, Consts DEF InTime, Recovery, Made,
     MadeOrNot, Done, Keeps
<1>4. ASSUME NEW n \in Nat, MadeOrNot(n, PROVIDER_TIMEOUT, 0)
     PROVE  Keeps([req EXCEPT !.pc = "finalize", !.extras = 0], n)
  <2> DEFINE s == [req EXCEPT !.pc = "finalize", !.extras = 0]
  <2>1. s \in Local /\ s.pc = "finalize" /\ s.cells = req.cells /\ s.claimed = req.claimed
        /\ s.caller = req.caller /\ s.next = req.next /\ s.slept = req.slept
        /\ s.spent = req.spent /\ s.tries = req.tries
    BY <1>0, <1>4, Types DEF Local, Calls
  <2> HIDE DEF s
  <2>2. s.claimed <= s.cells /\ InTime(s, n)
    BY <1>0, <1>4, <2>1, Types, Consts DEF InTime, Recovery, Made, MadeOrNot
  <2>3. Keeps(s, n)
    BY <2>1, <2>2, SafeAt, NowIs DEF Keeps
  <2> QED BY <2>3 DEF s
<1>5. ASSUME NEW n \in Nat, MadeOrNot(n, PROVIDER_TIMEOUT, 0), NEW x \in 0..MaxExtras, x > 0
     PROVE  Keeps([req EXCEPT !.pc = "dedupe", !.extras = x], n)
  <2> DEFINE s == [req EXCEPT !.pc = "dedupe", !.extras = x]
  <2>1. s \in Local /\ s.pc = "dedupe" /\ s.cells = req.cells /\ s.claimed = req.claimed
        /\ s.caller = req.caller /\ s.next = req.next /\ s.slept = req.slept
        /\ s.spent = req.spent /\ s.tries = req.tries /\ s.extras = x
    BY <1>0, <1>5, Types DEF Local, Calls
  <2> HIDE DEF s
  <2>2. s.claimed <= s.cells /\ InTime(s, n)
    BY <1>0, <1>5, <2>1, Types, Consts DEF InTime, Recovery, Made, MadeOrNot
  <2>3. Keeps(s, n)
    BY <2>1, <2>2, SafeAt, NowIs DEF Keeps
  <2> QED BY <2>3 DEF s
<1>6. ASSUME NEW n \in Nat, MadeOrNot(n, PROVIDER_TIMEOUT, 0), NEW s \in Keeping
     PROVE  Safe(At(s, n))
  <2>1. PICK x \in 0..MaxExtras : s = [req EXCEPT !.pc = IF x = 0 THEN "finalize" ELSE "dedupe", !.extras = x]
    BY <1>6 DEF Keeping
  <2>2. CASE x = 0
    BY <1>4, <1>6, <2>1, <2>2 DEF Keeps
  <2>3. CASE x # 0
    <3>1. s = [req EXCEPT !.pc = "dedupe", !.extras = x] /\ x > 0
      BY <2>1, <2>3, Consts
    <3> QED BY <1>5, <1>6, <3>1 DEF Keeps
  <2> QED BY <2>2, <2>3
<1> DEFINE answers == Keeping \cup {IF req.tries = 1 THEN To("create") ELSE Over}
           failures == {Over} \cup (IF req.tries = 1 THEN {} ELSE {To("finalize")})
<1>7. \/ req' \in failures
      \/ \E s \in answers \cup failures, n \in Nat :
           req' = At(s, n) /\ Made(n, PROVIDER_TIMEOUT, 0)
  BY <1>0, <1>a, CallSpends DEF _lookup_ours
<1> QED BY <1>a, <1>1, <1>2, <1>3, <1>6, <1>7, Consts DEF Keeps, MadeOrNot

(* So do the deletes of duplicates. *)
LEMMA _keep_oneKeeps == BudgetInv /\ _keep_one => Safe(req')
<1> SUFFICES ASSUME BudgetInv, _keep_one PROVE Safe(req')
  OBVIOUS
<1>0. req \in Local /\ req.pc = "dedupe" /\ req.claimed <= req.cells /\ InTime(req, req.spent)
  BY DEF BudgetInv, Safe, _keep_one
<1>a. req.next # "finalize" /\ req.tries # 0 /\ req.extras - 1 \in 0..MaxExtras
      /\ req.spent \in Nat /\ PROVIDER_TIMEOUT \in Nat \ {0}
  BY <1>0, Types, Consts DEF InTime
<1>1. ASSUME NEW n \in Nat, MadeOrNot(n, PROVIDER_TIMEOUT, 0)
     PROVE  Keeps([req EXCEPT !.extras = @ - 1,
            !.pc = IF req.extras = 1 THEN "finalize" ELSE "dedupe"], n)
  <2> DEFINE s == [req EXCEPT !.extras = @ - 1,
  !.pc = IF req.extras = 1 THEN "finalize" ELSE "dedupe"]
  <2>1. s \in Local /\ s.pc = (IF req.extras = 1 THEN "finalize" ELSE "dedupe")
        /\ s.cells = req.cells /\ s.claimed = req.claimed /\ s.caller = req.caller
        /\ s.next = req.next /\ s.slept = req.slept /\ s.spent = req.spent
        /\ s.tries = req.tries /\ s.extras = req.extras - 1
    <3>1. CASE req.extras = 1
      BY <1>0, <1>a, <3>1, Types DEF Local, Calls
    <3>2. CASE req.extras # 1
      BY <1>0, <1>a, <3>2, Types DEF Local, Calls
    <3> QED BY <3>1, <3>2
  <2> HIDE DEF s
  <2>2. s.claimed <= s.cells /\ InTime(s, n)
    BY <1>0, <1>1, <2>1, Types, Consts DEF InTime, Recovery, Made, MadeOrNot
  <2>3. Keeps(s, n)
    BY <2>1, <2>2, SafeAt, NowIs DEF Keeps
  <2> QED BY <2>3 DEF s
<1> DEFINE rest == {[req EXCEPT !.extras = @ - 1,
!.pc = IF req.extras = 1 THEN "finalize" ELSE "dedupe"]}
<1>2. \/ req' \in rest
      \/ \E s \in rest \cup rest, n \in Nat :
           req' = At(s, n) /\ Made(n, PROVIDER_TIMEOUT, 0)
  BY <1>0, <1>a, CallSpends DEF _keep_one
<1> QED BY <1>a, <1>1, <1>2, Consts DEF Keeps, MadeOrNot

-----------------------------------------------------------------------------
(* The theorems. *)

(* A request arrives with all of its budget. *)
LEMMA BudgetInit == Init => BudgetInv
<1> SUFFICES ASSUME NEW c \in CellCounts, req = Arrived(c) PROVE Safe(req)
  BY DEF Init, BudgetInv
<1>1. /\ req \in Local /\ req.claimed = 0 /\ req.pc = "arrived" /\ req.spent = 0
      /\ req.next = "done" /\ ~req.slept /\ req.cells \in Nat
  BY ArrivedFields, Consts
<1> QED BY <1>1, Consts DEF Safe, InTime, Recovery

(* No step of a request breaks it. *)
LEMMA BudgetKept == BudgetInv /\ [Next]_req => BudgetInv'
<1> SUFFICES ASSUME BudgetInv, [Next]_req PROVE Safe(req')
  BY DEF BudgetInv
<1>1. CASE UNCHANGED req
  BY <1>1 DEF BudgetInv
<1>2. CASE Authenticate \/ _load_keys \/ calendar_key \/ _step2_replay_claims \/ _replay_booked
             \/ _for_attempt \/ _poll_own_pending \/ PollRead \/ PollLookup
             \/ _step3_replay_calendar_and_limit
  BY <1>2, AuthenticateKeeps, _load_keysKeeps, calendar_keyKeeps, _step2_replay_claimsKeeps,
     _replay_bookedKeeps, _for_attemptKeeps, _poll_own_pendingKeeps, PollReadKeeps,
     PollLookupKeeps, _step3_replay_calendar_and_limitKeeps
<1>3. CASE _step5_recheck \/ BusyRead \/ Guard \/ _step6_claim \/ _release_all
  BY <1>3, _step5_recheckKeeps, BusyReadKeeps, GuardKeeps, _step6_claimKeeps, _release_allKeeps
<1>4. CASE _evaluate \/ _stale_siblings \/ _cas \/ _best_effort \/ ReadAgain
  BY <1>4, _evaluateKeeps, _stale_siblingsKeeps, _casKeeps, _best_effortKeeps, ReadAgainKeeps
<1>5. CASE _create \/ _lookup_ours \/ _keep_one \/ _finalize_cells
  BY <1>5, _createKeeps, _lookup_oursKeeps, _keep_oneKeeps, _finalize_cellsKeeps
<1> QED BY <1>1, <1>2, <1>3, <1>4, <1>5 DEF Next

(* Every reachable state of a request satisfies the inductive invariant.   *)
THEOREM BudgetInvHolds == Spec => []BudgetInv
  BY BudgetInit, BudgetKept, PTL DEF Spec

(* The loops go round as often as they may, at most, and no more cells are *)
(* claimed than needed.                                                    *)
THEOREM BudgetTyped == Spec => []BudgetTypeOK
<1>1. BudgetInv => BudgetTypeOK
  BY DEF BudgetInv, Safe, BudgetTypeOK
<1> QED BY <1>1, BudgetInvHolds, PTL

(* A request is over before a claim of its own can count as abandoned.     *)
THEOREM RequestsEndInTime == Spec => []OverBeforeStale
<1>1. BudgetInv => OverBeforeStale
  BY Types, Consts DEF BudgetInv, Safe, InTime, OverBeforeStale
<1> QED BY <1>1, BudgetInvHolds, PTL

(* The create after the claims gets its full timeout, the finalize too.    *)
THEOREM CreateGetsItsTime == Spec => []CreateHasItsTime
<1>1. BudgetInv => CreateHasItsTime
  BY Types, Consts DEF BudgetInv, Safe, InTime, CreateHasItsTime, Left, remaining
<1> QED BY <1>1, BudgetInvHolds, PTL

(* A poll ends in time for the calls that follow it. *)
THEOREM PollEndsInTime == Spec => []PollLeavesItsTime
<1>1. BudgetInv => PollLeavesItsTime
  BY Types, Consts DEF BudgetInv, Safe, InTime, PollLeavesItsTime, Left, remaining
<1> QED BY <1>1, BudgetInvHolds, PTL
=============================================================================
