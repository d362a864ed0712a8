------------------------------ MODULE SmsNotify ------------------------------
(***************************************************************************)
(* The follow-up SMS tool (agent-tools/sms-notify): notify() of            *)
(* core/service.py with the claims of core/limits.py.  Requests on any     *)
(* number of instances share one blob container; each blob is changed by   *)
(* conditional writes only.  Every await is an action.                     *)
(*                                                                         *)
(* A request writes a blob at most once with a given content, so the       *)
(* content stands for the etag as well.  Time is the wall clock in whole   *)
(* units, the same on every instance.                                      *)
(***************************************************************************)
EXTENDS Integers, FiniteSets

CONSTANTS
  Request,     \* notify() invocations
  TextOf,      \* the normalized text of a request
  Recipients,  \* number of recipients in the sms-recipients secret
  Window,      \* SMS_DEDUPE_MINUTES
  MinInterval, \* SMS_MIN_INTERVAL_SECONDS
  HourLen,     \* an hour
  MaxPerHour,  \* SMS_MAX_PER_HOUR
  MaxRun,      \* how long a request runs after reading the clock (K5)
  Retain,      \* age at which the lifecycle rule may delete a blob
  MaxTime,     \* bound of the model: the clock stops here
  None         \* an absent blob

Text == {TextOf[r] : r \in Request}
To   == 1..Recipients
Time == 0..MaxTime
HourOf(t) == t \div HourLen

ASSUME ConfigAssumption ==
  /\ DOMAIN TextOf = Request
  /\ Recipients \in Nat \ {0} /\ MaxPerHour \in Nat \ {0} /\ HourLen \in Nat \ {0}
  /\ MinInterval \in Nat /\ MaxRun \in Nat /\ MaxTime \in Nat
  /\ Window \in Nat /\ Retain \in Nat
  /\ MaxRun < Window /\ Window + MaxRun <= Retain /\ HourLen + MaxRun <= Retain
  /\ None \notin Request

SendCodes == {"sent", "send_failed", "send_unconfirmed", "unavailable"}
Answers   == SendCodes \cup {"already_sent", "rate_limited", "refused", "crashed", "none"}
Outcomes  == SendCodes \cup {"pending", "rate_limited"}

(* The body of a dedupe blob; the owner is implied by its etag.            *)
Claim == [owner : Request, at : Time, outcome : Outcomes]
ASSUME NoClaimAssumption == None \notin Claim

VARIABLES
  now,       \* the wall clock
  dedupe,    \* dedupe/<hash>: a claim or None
  cooldown,  \* the cooldown blob: the request that stamped it, or None
  rate,      \* rate/<hour>/<n>: the request that holds the slot, or None
  req,       \* the local state of every request
  accepted   \* the recipients for whom Twilio accepted a request's message

vars == <<now, dedupe, cooldown, rate, req, accepted>>
blobs == <<dedupe, cooldown, rate>>

Waits == {"start", "create", "get", "createAgain", "takeOver", "cooldown", "stamp",
          "slot", "send", "record", "done"}

Local == [pc     : Waits,
          at     : Time,                                \* `now` of _notify
          old    : Claim \cup {None},                   \* the expired claim met
          before : Request \cup {None},                 \* the cooldown stamp met
          slot   : 1..MaxPerHour,                       \* n of claim_hourly_slot
          to     : To,                                  \* the recipient served next
          codes  : [To -> SendCodes \cup {"none"}],     \* per recipient
          code   : Answers]                             \* the result code

Slots == (0..HourOf(MaxTime)) \X (1..MaxPerHour)

Init ==
  /\ now = 0
  /\ dedupe = [t \in Text |-> None]
  /\ cooldown = None
  /\ rate = [s \in Slots |-> None]
  /\ req = [r \in Request |->
              [pc |-> "start", at |-> 0, old |-> None, before |-> None, slot |-> 1,
               to |-> 1, codes |-> [i \in To |-> "none"], code |-> "none"]]
  /\ accepted = [r \in Request |-> {}]

Running(r) == req[r].pc \notin {"start", "done"}

Become(r, local) == req' = [req EXCEPT ![r] = local]

Goto(r, loc)    == Become(r, [req[r] EXCEPT !.pc = loc, !.old = None, !.before = None])
Answer(r, code) == Become(r, [req[r] EXCEPT !.pc = "done", !.code = code,
                                            !.old = None, !.before = None])

(* Once the text is claimed, every way out records its outcome first.      *)
Conclude(r, code) == Become(r, [req[r] EXCEPT !.pc = "record", !.code = code,
                                              !.before = None])

MyClaim(r) == [owner |-> r, at |-> req[r].at, outcome |-> "pending"]
WriteDedupe(r, claim) == dedupe' = [dedupe EXCEPT ![TextOf[r]] = claim]
SameText(r, s) == TextOf[r] = TextOf[s]
MySlot(r) == <<HourOf(req[r].at), req[r].slot>>

(* Steps 1 to 3: a request refused before any claim, or one that reads the *)
(* clock and goes on.                                                      *)
Arrive(r) ==
  /\ req[r].pc = "start"
  /\ \/ Answer(r, "refused")
     \/ Become(r, [req[r] EXCEPT !.pc = "create", !.at = now])
  /\ UNCHANGED <<now, blobs, accepted>>

(* claim_dedupe: create-if-absent, and once more if the blob vanished.     *)
(* A failed write may have been applied.                                   *)
CreateDedupe(r) ==
  LET held == dedupe[TextOf[r]] IN
  /\ req[r].pc \in {"create", "createAgain"}
  /\ \/ held = None /\ WriteDedupe(r, MyClaim(r)) /\ Goto(r, "cooldown")
     \/ /\ held # None /\ UNCHANGED dedupe
        /\ \/ req[r].pc = "create" /\ Goto(r, "get")
           \/ req[r].pc = "createAgain" /\ Answer(r, "rate_limited")
     \/ /\ Answer(r, "unavailable")
        /\ (held = None /\ WriteDedupe(r, MyClaim(r))) \/ UNCHANGED dedupe
  /\ UNCHANGED <<now, cooldown, rate, accepted>>

MeetExpired(r) == Become(r, [req[r] EXCEPT !.pc = "takeOver", !.old = dedupe[TextOf[r]]])

(* claim_dedupe: the claim that was in the way.                            *)
ReadDedupe(r) ==
  LET held == dedupe[TextOf[r]]
      fresh == held # None /\ req[r].at - held.at < Window
  IN
  /\ req[r].pc = "get"
  /\ \/ held = None /\ Goto(r, "createAgain")
     \/ fresh /\ Answer(r, IF held.outcome = "sent" THEN "already_sent" ELSE "rate_limited")
     \/ held # None /\ ~fresh /\ MeetExpired(r)
     \/ Answer(r, "unavailable")
  /\ UNCHANGED <<now, blobs, accepted>>

(* Mutated form: the expired claim is overwritten unconditionally.         *)
TakeOverBlind(r) ==
  /\ req[r].pc = "takeOver"
  /\ WriteDedupe(r, MyClaim(r)) /\ Goto(r, "cooldown")
  /\ UNCHANGED <<now, cooldown, rate, accepted>>

(* claim_dedupe: an expired claim is replaced by compare-and-swap.         *)
TakeOver(r) ==
  LET same == dedupe[TextOf[r]] = req[r].old IN
  /\ req[r].pc = "takeOver"
  /\ \/ same /\ WriteDedupe(r, MyClaim(r)) /\ Goto(r, "cooldown")
     \/ ~same /\ UNCHANGED dedupe /\ Answer(r, "rate_limited")
     \/ /\ Answer(r, "unavailable")
        /\ (same /\ WriteDedupe(r, MyClaim(r))) \/ UNCHANGED dedupe
  /\ UNCHANGED <<now, cooldown, rate, accepted>>

(* claim_cooldown: the time of the last stamp.                             *)
ReadCooldown(r) ==
  LET inside == cooldown # None /\ req[r].at - req[cooldown].at < MinInterval IN
  /\ req[r].pc = "cooldown"
  /\ \/ inside /\ Conclude(r, "rate_limited")
     \/ ~inside /\ Become(r, [req[r] EXCEPT !.pc = "stamp", !.before = cooldown])
     \/ Conclude(r, "unavailable")
  /\ UNCHANGED <<now, blobs, accepted>>

(* Mutated form: the stamp is written whoever stamped in between.          *)
StampBlind(r) ==
  /\ req[r].pc = "stamp"
  /\ cooldown' = r /\ Goto(r, "slot")
  /\ UNCHANGED <<now, dedupe, rate, accepted>>

(* claim_cooldown: stamped if nobody stamped in between.                   *)
Stamp(r) ==
  LET same == cooldown = req[r].before IN
  /\ req[r].pc = "stamp"
  /\ \/ same /\ cooldown' = r /\ Goto(r, "slot")
     \/ ~same /\ UNCHANGED cooldown /\ Conclude(r, "rate_limited")
     \/ /\ Conclude(r, "unavailable")
        /\ (same /\ cooldown' = r) \/ UNCHANGED cooldown
  /\ UNCHANGED <<now, dedupe, rate, accepted>>

(* Mutated form: a slot is taken without asking whether it is free.        *)
ClaimSlotBlind(r) ==
  /\ req[r].pc = "slot"
  /\ rate' = [rate EXCEPT ![MySlot(r)] = r] /\ Goto(r, "send")
  /\ UNCHANGED <<now, dedupe, cooldown, accepted>>

(* claim_hourly_slot: the first free slot of the hour of `now`.            *)
ClaimSlot(r) ==
  LET free == rate[MySlot(r)] = None
      claim == rate' = [rate EXCEPT ![MySlot(r)] = r]
  IN
  /\ req[r].pc = "slot"
  /\ \/ free /\ claim /\ Goto(r, "send")
     \/ /\ ~free /\ UNCHANGED rate
        /\ \/ req[r].slot < MaxPerHour /\ Become(r, [req[r] EXCEPT !.slot = @ + 1])
           \/ req[r].slot = MaxPerHour /\ Conclude(r, "rate_limited")
     \/ Conclude(r, "unavailable") /\ ((free /\ claim) \/ UNCHANGED rate)
  /\ UNCHANGED <<now, dedupe, cooldown, accepted>>

(* Mutated form: one accepted recipient is enough for sent.                *)
BestCode(codes) == IF "sent" \in codes THEN "sent" ELSE "send_failed"

(* Mutated form: the severities in the wrong order.                        *)
MildCode(codes) ==
  IF "send_failed" \in codes THEN "send_failed"
  ELSE IF "unavailable" \in codes THEN "unavailable"
  ELSE IF "send_unconfirmed" \in codes THEN "send_unconfirmed" ELSE "sent"

(* worst_code *)
WorstCode(codes) ==
  IF "send_unconfirmed" \in codes THEN "send_unconfirmed"
  ELSE IF "unavailable" \in codes THEN "unavailable"
  ELSE IF "send_failed" \in codes THEN "send_failed" ELSE "sent"

(* Twilio accepts a message; the caller may not learn of it.               *)
Accept(r) == accepted' = [accepted EXCEPT ![r] = @ \cup {req[r].to}]

(* The recipient just served, and after the last one the worst code.       *)
Served(r, c) ==
  LET i == req[r].to
      codes == [req[r].codes EXCEPT ![i] = c]
  IN Become(r, IF i < Recipients
       THEN [req[r] EXCEPT !.codes = codes, !.to = i + 1]
       ELSE [req[r] EXCEPT !.codes = codes, !.pc = "record",
                           !.code = WorstCode({codes[j] : j \in To})])

(* _send_one: accepted, certainly not accepted, or unknown.                *)
Send(r) ==
  /\ req[r].pc = "send"
  /\ \/ Served(r, "sent") /\ Accept(r)
     \/ (Served(r, "send_failed") \/ Served(r, "unavailable")) /\ UNCHANGED accepted
     \/ Served(r, "send_unconfirmed") /\ (Accept(r) \/ UNCHANGED accepted)
  /\ UNCHANGED <<now, blobs>>

(* record_outcome: best effort, over this request's own claim only.        *)
RecordOutcome(r) ==
  /\ req[r].pc = "record"
  /\ \/ /\ dedupe[TextOf[r]] = MyClaim(r)
        /\ WriteDedupe(r, [MyClaim(r) EXCEPT !.at = now, !.outcome = req[r].code])
     \/ UNCHANGED dedupe
  /\ Goto(r, "done")
  /\ UNCHANGED <<now, cooldown, rate, accepted>>

(* The instance dies between two awaits, or with a message on its way.     *)
Crash(r) ==
  /\ Running(r)
  /\ Answer(r, "crashed")
  /\ UNCHANGED accepted \/ (req[r].pc = "send" /\ Accept(r))
  /\ UNCHANGED <<now, blobs>>

(* Time passes; the deadline ends every request within MaxRun.             *)
Tick ==
  /\ now < MaxTime
  /\ \A r \in Request : Running(r) => now < req[r].at + MaxRun
  /\ now' = now + 1
  /\ UNCHANGED <<blobs, req, accepted>>

(* The lifecycle rule deletes old blobs under dedupe/ and rate/.           *)
Expire(t) ==
  /\ dedupe[t] # None
  /\ now >= dedupe[t].at + Retain
  /\ dedupe' = [dedupe EXCEPT ![t] = None]
  /\ UNCHANGED <<now, cooldown, rate, req, accepted>>

ExpireSlot(s) ==
  /\ rate[s] # None
  /\ now >= req[rate[s]].at + Retain
  /\ rate' = [rate EXCEPT ![s] = None]
  /\ UNCHANGED <<now, dedupe, cooldown, req, accepted>>

Step(r) ==
  \/ CreateDedupe(r) \/ ReadDedupe(r) \/ TakeOver(r)
  \/ ReadCooldown(r) \/ Stamp(r) \/ ClaimSlot(r)
  \/ Send(r) \/ RecordOutcome(r)

Next ==
  \/ \E r \in Request : Arrive(r) \/ Step(r) \/ Crash(r)
  \/ Tick
  \/ \E t \in Text : Expire(t)
  \/ \E s \in Slots : ExpireSlot(s)

Spec == Init /\ [][Next]_vars

-----------------------------------------------------------------------------
TypeOK ==
  /\ now \in Time
  /\ dedupe \in [Text -> Claim \cup {None}]
  /\ cooldown \in Request \cup {None}
  /\ rate \in [Slots -> Request \cup {None}]
  /\ req \in [Request -> Local]
  /\ accepted \in [Request -> SUBSET To]

Apart(r, s, gap) == req[r].at - req[s].at >= gap \/ req[s].at - req[r].at >= gap

(* The same text never reaches a recipient for two requests that read the  *)
(* clock within one dedupe window, whoever else took the claim over, lost  *)
(* an answer or crashed in between.                                        *)
NeverTwiceInWindow ==
  \A r, s \in Request :
    r # s /\ SameText(r, s) /\ accepted[r] # {} /\ accepted[s] # {} => Apart(r, s, Window)

(* Two requests that sent anything were claimed MinInterval apart.         *)
CooldownSpacing ==
  \A r, s \in Request :
    r # s /\ accepted[r] # {} /\ accepted[s] # {} => Apart(r, s, MinInterval)

(* At most MaxPerHour requests that read the clock in one hour ever send,  *)
(* even after the lifecycle rule has deleted that hour's slots.            *)
HourlyCap ==
  \A h \in 0..HourOf(MaxTime) :
    Cardinality({r \in Request : accepted[r] # {} /\ HourOf(req[r].at) = h}) <= MaxPerHour

(* already_sent is answered only if that text did go out to every          *)
(* recipient, for a request that was still running within the window.      *)
AlreadySentIsTrue ==
  \A r \in Request : req[r].code = "already_sent" =>
    \E s \in Request : /\ SameText(r, s) /\ accepted[s] = To
                       /\ req[r].at - req[s].at < Window + MaxRun

(* The answer tells the worst that happened: sent means every recipient,   *)
(* and a message that may or may not have gone out is never reported as    *)
(* one that failed, nor hidden behind another recipient's failure.         *)
CodeIsHonest ==
  \A r \in Request :
    /\ req[r].code = "sent" => accepted[r] = To
    /\ req[r].code \in {"send_failed", "unavailable", "rate_limited"} =>
         \A i \in accepted[r] : req[r].codes[i] = "sent"

(* A request that runs with a claim on its text keeps it until it answers: *)
(* no takeover, clean-up or other request's outcome replaces it, so the    *)
(* outcome write-back loses its race only to the store itself.             *)
ClaimKept ==
  \A r \in Request : req[r].pc \in {"cooldown", "stamp", "slot", "send", "record"} =>
    dedupe[TextOf[r]] = MyClaim(r)
=============================================================================
