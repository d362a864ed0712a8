--------------------------- MODULE SmsNotifyProofs ---------------------------
(***************************************************************************)
(* The limits of SmsNotify for every number of requests, texts, recipients *)
(* and slots and for every setting: nothing is sent twice in a window, the *)
(* cooldown separates the senders, an hour has no more senders than slots, *)
(* and the answers are true.                                               *)
(***************************************************************************)
EXTENDS SmsNotify, FiniteSetTheorems, TLAPS

-----------------------------------------------------------------------------
(* The inductive invariant, in named parts. *)

Claimed(r) == req[r].pc \in {"cooldown", "stamp", "slot", "send"} \/ accepted[r] # {}
Stamped(r) == req[r].pc \in {"slot", "send"} \/ accepted[r] # {}
Slotted(r) == req[r].pc = "send" \/ accepted[r] # {}

(* Nothing is older than its request or younger than the clock.            *)
ClockInv ==
  /\ \A r \in Request : req[r].at <= now
  /\ \A r \in Request : Running(r) => now <= req[r].at + MaxRun
  /\ \A r \in Request : req[r].pc \notin {"send", "record", "done"} => accepted[r] = {}
  /\ cooldown # None => req[cooldown].pc # "start"
  /\ \A r \in Request : req[r].before # None => req[req[r].before].pc # "start"
  /\ \A s \in Slots : rate[s] # None => req[rate[s]].pc # "start"

(* A claim belongs to its text and was written while its owner was running. *)
DedupeInv ==
  \A t \in Text : dedupe[t] # None =>
    /\ TextOf[dedupe[t].owner] = t
    /\ req[dedupe[t].owner].pc # "start"
    /\ dedupe[t].at <= now
    /\ dedupe[t].at <= req[dedupe[t].owner].at + MaxRun

(* A claim about to be taken over has expired. *)
TakeOverInv ==
  \A r \in Request : req[r].pc = "takeOver" =>
    req[r].old # None /\ req[r].at - req[r].old.at >= Window

(* The claim on a sender's text is at least as young as the sender, or the *)
(* lifecycle rule has deleted it since.                                    *)
WindowInv ==
  /\ \A r \in Request : Claimed(r) =>
       \/ dedupe[TextOf[r]] # None /\ dedupe[TextOf[r]].at >= req[r].at
       \/ dedupe[TextOf[r]] = None /\ now >= req[r].at + Retain
  /\ \A r, s \in Request :
       r # s /\ SameText(r, s) /\ Claimed(r) /\ Claimed(s) => Apart(r, s, Window)

(* The cooldown stamp is at least as young as every request that passed it. *)
CooldownInv ==
  /\ \A r \in Request : Stamped(r) => cooldown # None /\ req[cooldown].at >= req[r].at
  /\ \A r \in Request : req[r].pc = "stamp" /\ req[r].before # None =>
       req[r].at - req[req[r].before].at >= MinInterval
  /\ \A r, s \in Request : r # s /\ Stamped(r) /\ Stamped(s) => Apart(r, s, MinInterval)

(* A sender holds its own slot, or the lifecycle rule has deleted it since. *)
SlotInv ==
  /\ \A r \in Request : Slotted(r) =>
       rate[MySlot(r)] = r \/ now >= req[r].at + Retain
  /\ \A r, s \in Request : r # s /\ Slotted(r) /\ Slotted(s) => MySlot(r) # MySlot(s)

(* What is about to be recorded is an outcome. *)
RecordInv == \A r \in Request : req[r].pc = "record" => req[r].code \in Outcomes

(* What is known of the recipients served so far, and of recorded outcomes. *)
CodesInv ==
  /\ \A r \in Request : \A i \in To :
       /\ req[r].codes[i] = "sent" => i \in accepted[r]
       /\ i \in accepted[r] => req[r].codes[i] \in {"sent", "send_unconfirmed"}
                               \/ req[r].code = "crashed"
  /\ \A r \in Request : req[r].pc \notin {"send", "record", "done"} => req[r].to = 1
  /\ \A r \in Request : req[r].pc \notin {"record", "done"} =>
       /\ req[r].code = "none"
       /\ \A i \in To : req[r].codes[i] = "none" <=> i >= req[r].to
  /\ \A r \in Request : req[r].code = "sent" => accepted[r] = To
  /\ \A r \in Request : req[r].code \in {"send_failed", "unavailable", "rate_limited"} =>
       \A i \in To : req[r].codes[i] # "send_unconfirmed"
  /\ \A t \in Text : dedupe[t] # None /\ dedupe[t].outcome = "sent" =>
       accepted[dedupe[t].owner] = To

SmsInv == /\ TypeOK /\ RecordInv /\ ClockInv /\ DedupeInv /\ TakeOverInv
          /\ ClaimKept /\ WindowInv /\ CooldownInv /\ SlotInv /\ CodesInv
          /\ AlreadySentIsTrue

-----------------------------------------------------------------------------
(* Facts about the parameters. *)

(* The same hour means less than an hour apart. *)
LEMMA SameHour ==
  ASSUME NEW a \in Nat, NEW b \in Nat, HourOf(a) = HourOf(b)
  PROVE  a < b + HourLen
<1>. DEFINE q == a \div HourLen
<1>1. HourLen \in Nat /\ HourLen > 0
  BY ConfigAssumption
<1>2. a = HourLen * (a \div HourLen) + (a % HourLen) /\ a % HourLen \in 0..(HourLen - 1)
  BY <1>1
<1>3. b = HourLen * (b \div HourLen) + (b % HourLen) /\ b % HourLen \in 0..(HourLen - 1)
  BY <1>1
<1>4. HourLen * (a \div HourLen) = HourLen * (b \div HourLen)
  BY DEF HourOf
<1>5. HourLen * (a \div HourLen) \in Int
  BY <1>1
<1>. QED  BY <1>1, <1>2, <1>3, <1>4, <1>5

(* An earlier time is in no later hour. *)
LEMMA HourInRange ==
  ASSUME NEW a \in Time
  PROVE  HourOf(a) \in 0..HourOf(MaxTime)
<1>1. HourLen \in Nat /\ HourLen > 0 /\ MaxTime \in Nat /\ a \in Nat /\ a <= MaxTime
  BY ConfigAssumption DEF Time
<1>. QED  BY <1>1 DEF HourOf

(* Time is a set of naturals, a slot of a request is one of the slots. *)
LEMMA SlotIsSlot ==
  ASSUME TypeOK, NEW r \in Request
  PROVE  MySlot(r) \in Slots
  BY HourInRange DEF TypeOK, MySlot, Slots, Local

-----------------------------------------------------------------------------
(* Types. *)

(* The initial state has its types.                                        *)
LEMMA TypeInit == Init => TypeOK
  BY ConfigAssumption DEF Init, TypeOK, Local, Waits, Answers, SendCodes, Time, To

(* One request moves on; the others stay where they are.                   *)
LEMMA Moved ==
  ASSUME TypeOK, NEW r \in Request, NEW local \in Local, Become(r, local)
  PROVE  /\ req' \in [Request -> Local]
         /\ req'[r] = local
         /\ \A q \in Request : q # r => req'[q] = req[q]
  BY DEF TypeOK, Become

(* Every local state a request moves to has the type of one.               *)
LEMMA LocalFacts ==
  ASSUME TypeOK, NEW r \in Request
  PROVE  /\ \A loc \in Waits :
              [req[r] EXCEPT !.pc = loc, !.old = None, !.before = None] \in Local
         /\ \A code \in Answers :
              /\ [req[r] EXCEPT !.pc = "done", !.code = code,
                                !.old = None, !.before = None] \in Local
              /\ [req[r] EXCEPT !.pc = "record", !.code = code, !.before = None] \in Local
         /\ [req[r] EXCEPT !.pc = "create", !.at = now] \in Local
         /\ MyClaim(r) \in Claim
  BY DEF TypeOK, Local, Waits, MyClaim, Claim, Outcomes

(* The local states a send moves to have the type of one.                  *)
LEMMA SendFacts ==
  ASSUME TypeOK, NEW r \in Request, NEW c \in SendCodes
  PROVE  LET i == req[r].to
             codes == [req[r].codes EXCEPT ![i] = c]
         IN /\ codes \in [To -> SendCodes \cup {"none"}]
            /\ i < Recipients => [req[r] EXCEPT !.codes = codes, !.to = i + 1] \in Local
            /\ [req[r] EXCEPT !.codes = codes, !.pc = "record",
                   !.code = WorstCode({codes[j] : j \in To})] \in Local
<1>1. req[r] \in Local /\ req[r].to \in To /\ req[r].codes \in [To -> SendCodes \cup {"none"}]
  BY DEF TypeOK, Local
<1>2. req[r].to < Recipients => req[r].to + 1 \in To
  BY <1>1, ConfigAssumption DEF To
<1>3. \A codes : WorstCode(codes) \in Answers
  BY DEF WorstCode, Answers, SendCodes
<1>. QED  BY <1>1, <1>2, <1>3 DEF Local, Waits

(* Every step keeps the types; outcomes are recorded from RecordInv.       *)
LEMMA TypeStep == TypeOK /\ RecordInv /\ [Next]_vars => TypeOK'
<1>. SUFFICES ASSUME TypeOK, RecordInv, [Next]_vars PROVE TypeOK'
  OBVIOUS
<1>1. \A r \in Request : req[r] \in Local /\ TextOf[r] \in Text
  BY DEF TypeOK, Text
<1>2. ASSUME NEW r \in Request, Arrive(r) PROVE TypeOK'
  <2>1. "refused" \in Answers
    BY DEF Answers
  <2>. QED  BY <1>2, <2>1, Moved, LocalFacts DEF Arrive, Answer, blobs, TypeOK
<1>3. ASSUME NEW r \in Request, CreateDedupe(r) PROVE TypeOK'
  <2>1. {"rate_limited", "unavailable"} \subseteq Answers /\ {"cooldown", "get"} \subseteq Waits
    BY DEF Answers, SendCodes, Waits
  <2>2. req' \in [Request -> Local]
    BY <1>3, <2>1, Moved, LocalFacts DEF CreateDedupe, Answer, Goto
  <2>. QED  BY <1>1, <1>3, <2>2, LocalFacts DEF CreateDedupe, WriteDedupe, TypeOK
<1>4. ASSUME NEW r \in Request, ReadDedupe(r) PROVE TypeOK'
  <2>1. {"rate_limited", "unavailable", "already_sent"} \subseteq Answers /\ "createAgain" \in Waits
    BY DEF Answers, SendCodes, Waits
  <2>2. dedupe[TextOf[r]] # None => [req[r] EXCEPT !.pc = "takeOver", !.old = dedupe[TextOf[r]]] \in Local
    BY <1>1 DEF Local, TypeOK, Waits
  <2>. QED  BY <1>4, <2>1, <2>2, Moved, LocalFacts DEF ReadDedupe, MeetExpired, Goto, Answer, blobs, TypeOK
<1>5. ASSUME NEW r \in Request, TakeOver(r) PROVE TypeOK'
  <2>1. {"rate_limited", "unavailable"} \subseteq Answers /\ "cooldown" \in Waits
    BY DEF Answers, SendCodes, Waits
  <2>2. req' \in [Request -> Local]
    BY <1>5, <2>1, Moved, LocalFacts DEF TakeOver, Answer, Goto
  <2>. QED  BY <1>1, <1>5, <2>2, LocalFacts DEF TakeOver, WriteDedupe, TypeOK
<1>6. ASSUME NEW r \in Request, ReadCooldown(r) PROVE TypeOK'
  <2>1. {"rate_limited", "unavailable"} \subseteq Answers
    BY DEF Answers, SendCodes
  <2>2. [req[r] EXCEPT !.pc = "stamp", !.before = cooldown] \in Local
    BY <1>1 DEF Local, TypeOK, Waits
  <2>. QED  BY <1>6, <2>1, <2>2, Moved, LocalFacts DEF ReadCooldown, Conclude, blobs, TypeOK
<1>7. ASSUME NEW r \in Request, Stamp(r) PROVE TypeOK'
  <2>1. {"rate_limited", "unavailable"} \subseteq Answers /\ "slot" \in Waits
    BY DEF Answers, SendCodes, Waits
  <2>. QED  BY <1>7, <2>1, Moved, LocalFacts DEF Stamp, Goto, Conclude, TypeOK
<1>8. ASSUME NEW r \in Request, ClaimSlot(r) PROVE TypeOK'
  <2>1. {"rate_limited", "unavailable"} \subseteq Answers /\ "send" \in Waits
    BY DEF Answers, SendCodes, Waits
  <2>2. req[r].slot < MaxPerHour => [req[r] EXCEPT !.slot = @ + 1] \in Local
    BY <1>1, ConfigAssumption DEF Local
  <2>3. req' \in [Request -> Local]
    BY <1>8, <2>1, <2>2, Moved, LocalFacts DEF ClaimSlot, Goto, Conclude
  <2>. QED  BY <1>8, <2>3 DEF ClaimSlot, TypeOK
<1>9. ASSUME NEW r \in Request, Send(r) PROVE TypeOK'
  <2>1. SendCodes = {"sent", "send_failed", "send_unconfirmed", "unavailable"}
    BY DEF SendCodes
  <2>2. req' \in [Request -> Local]
    BY <1>9, <2>1, Moved, SendFacts DEF Send, Served
  <2>3. accepted' \in [Request -> SUBSET To]
    BY <1>1, <1>9 DEF Send, Accept, TypeOK, Local
  <2>. QED  BY <1>9, <2>2, <2>3 DEF Send, blobs, TypeOK
<1>10. ASSUME NEW r \in Request, RecordOutcome(r) PROVE TypeOK'
  <2>1. req' \in [Request -> Local]
    BY <1>10, Moved, LocalFacts DEF RecordOutcome, Goto, Waits
  <2>2. [MyClaim(r) EXCEPT !.at = now, !.outcome = req[r].code] \in Claim
    <3>1. req[r].code \in Outcomes /\ now \in Time /\ MyClaim(r) \in Claim
      BY <1>10, LocalFacts DEF RecordOutcome, RecordInv, TypeOK
    <3>. QED  BY <3>1 DEF Claim
  <2>. QED  BY <1>1, <1>10, <2>1, <2>2 DEF RecordOutcome, WriteDedupe, TypeOK
<1>11. ASSUME NEW r \in Request, Crash(r) PROVE TypeOK'
  <2>1. req' \in [Request -> Local]
    BY <1>11, Moved, LocalFacts DEF Crash, Answer, Answers
  <2>2. accepted' \in [Request -> SUBSET To]
    BY <1>1, <1>11 DEF Crash, Accept, TypeOK, Local
  <2>. QED  BY <1>11, <2>1, <2>2 DEF Crash, blobs, TypeOK
<1>12. ASSUME Tick PROVE TypeOK'
  BY <1>12, ConfigAssumption DEF Tick, Time, blobs, TypeOK
<1>13. ASSUME NEW t \in Text, Expire(t) PROVE TypeOK'
  BY <1>13 DEF Expire, TypeOK
<1>14. ASSUME NEW s \in Slots, ExpireSlot(s) PROVE TypeOK'
  BY <1>14 DEF ExpireSlot, TypeOK
<1>15. CASE UNCHANGED vars
  BY <1>15 DEF vars, TypeOK
<1>. QED
  BY <1>2, <1>3, <1>4, <1>5, <1>6, <1>7, <1>8, <1>9, <1>10, <1>11, <1>12, <1>13, <1>14, <1>15
     DEF Next, Step

-----------------------------------------------------------------------------
(* What one step of a request may change. *)

(* Each way on leaves the other requests and its own history alone.        *)
Kept(r) == /\ req'[r].at = req[r].at /\ req'[r].slot = req[r].slot
           /\ \A q \in Request : q # r => req'[q] = req[q]

(* What Goto does to the request, field by field.                          *)
LEMMA GotoEffect ==
  ASSUME TypeOK, NEW r \in Request, NEW loc, Goto(r, loc)
  PROVE  /\ Kept(r) /\ req'[r].pc = loc /\ req'[r].code = req[r].code
         /\ req'[r].to = req[r].to /\ req'[r].codes = req[r].codes
         /\ req'[r].old = None /\ req'[r].before = None
  BY DEF TypeOK, Goto, Become, Kept, Local

(* What Answer does to the request.                                        *)
LEMMA AnswerEffect ==
  ASSUME TypeOK, NEW r \in Request, NEW code, Answer(r, code)
  PROVE  /\ Kept(r) /\ req'[r].pc = "done" /\ req'[r].code = code
         /\ req'[r].to = req[r].to /\ req'[r].codes = req[r].codes
         /\ req'[r].old = None /\ req'[r].before = None
  BY DEF TypeOK, Answer, Become, Kept, Local

(* What Conclude does to the request.                                      *)
LEMMA ConcludeEffect ==
  ASSUME TypeOK, NEW r \in Request, NEW code, Conclude(r, code)
  PROVE  /\ Kept(r) /\ req'[r].pc = "record" /\ req'[r].code = code
         /\ req'[r].to = req[r].to /\ req'[r].codes = req[r].codes
         /\ req'[r].old = req[r].old /\ req'[r].before = None
  BY DEF TypeOK, Conclude, Become, Kept, Local

(* What Served does to the request.                                        *)
LEMMA ServedEffect ==
  ASSUME TypeOK, NEW r \in Request, NEW c, Served(r, c)
  PROVE  LET codes == [req[r].codes EXCEPT ![req[r].to] = c]
         IN /\ Kept(r) /\ req'[r].codes = codes
            /\ req'[r].before = req[r].before
            /\ \/ /\ req[r].to < Recipients /\ req'[r].to = req[r].to + 1
                  /\ req'[r].pc = req[r].pc /\ req'[r].code = req[r].code
               \/ /\ ~(req[r].to < Recipients) /\ req'[r].to = req[r].to
                  /\ req'[r].pc = "record"
                  /\ req'[r].code = WorstCode({codes[j] : j \in To})
  BY DEF TypeOK, Served, Become, Kept, Local

(* What MeetExpired does to the request.                                   *)
LEMMA TakenOverEffect ==
  ASSUME TypeOK, NEW r \in Request, MeetExpired(r)
  PROVE  /\ Kept(r) /\ req'[r].pc = "takeOver" /\ req'[r].code = req[r].code
         /\ req'[r].to = req[r].to /\ req'[r].codes = req[r].codes
         /\ req'[r].old = dedupe[TextOf[r]] /\ req'[r].before = req[r].before
  BY DEF TypeOK, MeetExpired, Become, Kept, Local

(* What remembering the cooldown stamp does to the request.                *)
LEMMA StampingEffect ==
  ASSUME TypeOK, NEW r \in Request,
         Become(r, [req[r] EXCEPT !.pc = "stamp", !.before = cooldown])
  PROVE  /\ Kept(r) /\ req'[r].pc = "stamp" /\ req'[r].code = req[r].code
         /\ req'[r].to = req[r].to /\ req'[r].codes = req[r].codes
         /\ req'[r].before = cooldown
  BY DEF TypeOK, Become, Kept, Local

(* What trying the next slot does to the request.                          *)
LEMMA NextSlotEffect ==
  ASSUME TypeOK, NEW r \in Request,
         Become(r, [req[r] EXCEPT !.slot = @ + 1])
  PROVE  /\ req'[r].at = req[r].at /\ req'[r].pc = req[r].pc /\ req'[r].code = req[r].code
         /\ req'[r].to = req[r].to /\ req'[r].codes = req[r].codes
         /\ req'[r].before = req[r].before
         /\ \A q \in Request : q # r => req'[q] = req[q]
  BY DEF TypeOK, Become, Kept, Local

(* It moves only itself, keeps its time and what was accepted.             *)
LEMMA StepFrame ==
  ASSUME TypeOK, NEW r \in Request, Step(r) \/ Crash(r)
  PROVE  /\ now' = now
         /\ req'[r].at = req[r].at
         /\ Running(r) /\ req'[r].pc # "start"
         /\ req[r].pc \in {"send", "record", "done"} => req'[r].pc \in {"send", "record", "done"}
         /\ \A q \in Request : q # r => req'[q] = req[q] /\ accepted'[q] = accepted[q]
         /\ accepted[r] \subseteq accepted'[r]
         /\ accepted'[r] # accepted[r] => req[r].pc = "send"
         /\ cooldown' \in {cooldown, r}
         /\ \A s \in Slots : rate'[s] \in {rate[s], r}
         /\ req'[r].before \in {req[r].before, cooldown, None}
         /\ \A t \in Text : t # TextOf[r] => dedupe'[t] = dedupe[t]
<1>. DEFINE T == TextOf[r]
<1>0. req[r] \in Local /\ T \in Text /\ MySlot(r) \in Slots
  BY SlotIsSlot DEF TypeOK, Text
<1>. USE <1>0, GotoEffect, AnswerEffect, ConcludeEffect DEF Kept, TypeOK
<1>1. CASE CreateDedupe(r)
  BY <1>1 DEF CreateDedupe, WriteDedupe, Running
<1>2. CASE ReadDedupe(r)
  BY <1>2, TakenOverEffect DEF ReadDedupe, Running, blobs
<1>3. CASE TakeOver(r)
  BY <1>3 DEF TakeOver, WriteDedupe, Running
<1>4. CASE ReadCooldown(r)
  BY <1>4, StampingEffect DEF ReadCooldown, Running, blobs
<1>5. CASE Stamp(r)
  BY <1>5 DEF Stamp, Running
<1>6. CASE ClaimSlot(r)
  BY <1>6, NextSlotEffect DEF ClaimSlot, Running
<1>7. CASE Send(r)
  <2>1. PICK c : Served(r, c) /\ (Accept(r) \/ UNCHANGED accepted)
    BY <1>7 DEF Send
  <2>2. /\ Kept(r) /\ req'[r].pc \in {"send", "record"} /\ req'[r].before = req[r].before
    BY <1>7, <2>1, ServedEffect DEF Send
  <2>. QED  BY <1>7, <2>1, <2>2 DEF Send, Accept, Running, blobs
<1>8. CASE RecordOutcome(r)
  BY <1>8 DEF RecordOutcome, WriteDedupe, Running
<1>9. CASE Crash(r)
  BY <1>9 DEF Crash, Accept, Running, blobs
<1>. QED  BY <1>1, <1>2, <1>3, <1>4, <1>5, <1>6, <1>7, <1>8, <1>9 DEF Step

(* The claim on its text: created, taken over, or finished with an outcome. *)
LEMMA StepClaim ==
  ASSUME TypeOK, NEW r \in Request, Step(r) \/ Crash(r)
  PROVE  LET t == TextOf[r]
             claims == /\ dedupe'[t] = MyClaim(r)
                       /\ \/ req[r].pc \in {"create", "createAgain"} /\ dedupe[t] = None
                          \/ req[r].pc = "takeOver" /\ dedupe[t] = req[r].old
         IN /\ \/ dedupe'[t] = dedupe[t]
               \/ claims
               \/ /\ req[r].pc = "record" /\ req'[r].pc = "done" /\ dedupe[t] = MyClaim(r)
                  /\ dedupe'[t] = [MyClaim(r) EXCEPT !.at = now, !.outcome = req[r].code]
            /\ Claimed(r)' => claims \/ (Claimed(r) /\ (dedupe' = dedupe \/ req'[r].pc = "done"))
            /\ req'[r].pc \in {"cooldown", "stamp", "slot", "send", "record"} =>
                  \/ claims
                  \/ dedupe' = dedupe /\ req[r].pc \in {"cooldown", "stamp", "slot", "send"}
            /\ req'[r].pc = "takeOver" =>
                  /\ req'[r].old = dedupe[t] /\ dedupe[t] # None
                  /\ ~(req[r].at - dedupe[t].at < Window)
<1>0. req[r] \in Local /\ TextOf[r] \in Text
  BY DEF TypeOK, Text
<1>. USE <1>0, GotoEffect, AnswerEffect, ConcludeEffect DEF Kept, TypeOK, Claimed
<1>1. CASE CreateDedupe(r)
  <2>1. CASE dedupe' = dedupe /\ req'[r].pc \in {"get", "done"}
    BY <1>1, <2>1 DEF CreateDedupe
  <2>2. CASE dedupe[TextOf[r]] = None /\ dedupe'[TextOf[r]] = MyClaim(r)
    <3>1. req[r].pc \in {"create", "createAgain"} /\ req'[r].pc \in {"cooldown", "done"} /\ accepted' = accepted
      BY <1>1, <2>2, NoClaimAssumption DEF CreateDedupe
    <3>. QED  BY <2>2, <3>1
  <2>. QED  BY <1>1, <2>1, <2>2 DEF CreateDedupe, WriteDedupe
<1>2. CASE ReadDedupe(r)
  BY <1>2, TakenOverEffect DEF ReadDedupe, blobs
<1>3. CASE TakeOver(r)
  <2>1. CASE dedupe' = dedupe /\ req'[r].pc = "done"
    BY <1>3, <2>1 DEF TakeOver
  <2>2. CASE dedupe[TextOf[r]] = req[r].old /\ dedupe'[TextOf[r]] = MyClaim(r)
    <3>1. req[r].pc \in {"takeOver"} /\ req'[r].pc \in {"cooldown", "done"} /\ accepted' = accepted
      BY <1>3, <2>2, NoClaimAssumption DEF TakeOver
    <3>. QED  BY <2>2, <3>1
  <2>. QED  BY <1>3, <2>1, <2>2 DEF TakeOver, WriteDedupe
<1>4. CASE ReadCooldown(r)
  BY <1>4, StampingEffect DEF ReadCooldown, blobs
<1>5. CASE Stamp(r)
  BY <1>5 DEF Stamp
<1>6. CASE ClaimSlot(r)
  BY <1>6, NextSlotEffect DEF ClaimSlot
<1>7. CASE Send(r)
  BY <1>7, ServedEffect DEF Send, Accept, blobs
<1>8. CASE RecordOutcome(r)
  BY <1>8 DEF RecordOutcome, WriteDedupe
<1>9. CASE Crash(r)
  BY <1>9 DEF Crash, Accept, blobs
<1>. QED  BY <1>1, <1>2, <1>3, <1>4, <1>5, <1>6, <1>7, <1>8, <1>9 DEF Step

(* The cooldown stamp and the hourly slot.                                 *)
LEMMA StepLimits ==
  ASSUME TypeOK, ClockInv, NEW r \in Request, Step(r) \/ Crash(r)
  PROVE  /\ \/ cooldown' = cooldown
            \/ cooldown' = r /\ req[r].pc = "stamp" /\ cooldown = req[r].before
         /\ Stamped(r)' => \/ Stamped(r) /\ cooldown' = cooldown
                           \/ cooldown' = r /\ req[r].pc = "stamp" /\ cooldown = req[r].before
         /\ req'[r].pc = "stamp" =>
               /\ req'[r].before = cooldown /\ cooldown' = cooldown
               /\ ~(cooldown # None /\ req[r].at - req[cooldown].at < MinInterval)
         /\ Slotted(r)' => /\ req'[r].slot = req[r].slot
                           /\ \/ Slotted(r) /\ rate' = rate
                              \/ rate[MySlot(r)] = None /\ rate'[MySlot(r)] = r
         /\ \A s \in Slots : rate'[s] # rate[s] => rate[s] = None
<1>0. req[r] \in Local /\ MySlot(r) \in Slots
  BY SlotIsSlot DEF TypeOK
<1>. USE <1>0, GotoEffect, AnswerEffect, ConcludeEffect DEF Kept, TypeOK, Stamped, Slotted
<1>1. CASE CreateDedupe(r)
  BY <1>1 DEF CreateDedupe
<1>2. CASE ReadDedupe(r)
  BY <1>2, TakenOverEffect DEF ReadDedupe, blobs
<1>3. CASE TakeOver(r)
  BY <1>3 DEF TakeOver
<1>4. CASE ReadCooldown(r)
  BY <1>4, StampingEffect DEF ReadCooldown, blobs
<1>5. CASE Stamp(r)
  BY <1>5 DEF Stamp
<1>6. CASE ClaimSlot(r)
  <2>1. accepted[r] = {} /\ accepted'[r] = {}
    BY <1>6 DEF ClaimSlot, ClockInv
  <2>. QED  BY <1>6, <2>1, NextSlotEffect DEF ClaimSlot
<1>7. CASE Send(r)
  <2>1. PICK c : Served(r, c)
    BY <1>7 DEF Send
  <2>. QED  BY <1>7, <2>1, ServedEffect DEF Send, blobs
<1>8. CASE RecordOutcome(r)
  BY <1>8 DEF RecordOutcome
<1>9. CASE Crash(r)
  BY <1>9 DEF Crash, blobs
<1>. QED  BY <1>1, <1>2, <1>3, <1>4, <1>5, <1>6, <1>7, <1>8, <1>9 DEF Step

(* A request arrives, and only that.                                       *)
LEMMA ArriveFrame ==
  ASSUME TypeOK, NEW r \in Request, Arrive(r)
  PROVE  /\ UNCHANGED <<now, dedupe, cooldown, rate, accepted>>
         /\ \A q \in Request : q # r => req'[q] = req[q]
         /\ req[r].pc = "start"
         /\ \/ req'[r].pc = "done" /\ req'[r].at = req[r].at /\ req'[r].code = "refused"
            \/ req'[r].pc = "create" /\ req'[r].at = now /\ req'[r].code = req[r].code
         /\ req'[r].before \in {req[r].before, None}
         /\ req'[r].to = req[r].to /\ req'[r].codes = req[r].codes
<1>1. req[r] \in Local
  BY DEF TypeOK
<1>2. CASE Answer(r, "refused")
  BY <1>2, AnswerEffect DEF Arrive, Kept, blobs
<1>3. CASE Become(r, [req[r] EXCEPT !.pc = "create", !.at = now])
  BY <1>1, <1>3 DEF Arrive, Become, Local, TypeOK, blobs
<1>. QED  BY <1>2, <1>3 DEF Arrive

-----------------------------------------------------------------------------
(* Every part of the invariant is preserved. *)

(* What the cases of the steps below have in common. *)
LEMMA Cases ==
  ASSUME [Next]_vars
  PROVE  \/ \E r \in Request : Arrive(r)
         \/ \E r \in Request : Step(r) \/ Crash(r)
         \/ Tick
         \/ \E t \in Text : Expire(t)
         \/ \E s \in Slots : ExpireSlot(s)
         \/ UNCHANGED vars
  BY DEF Next

(* Every step keeps requests between their clock reading and their deadline. *)
LEMMA ClockStep ==
  ASSUME TypeOK, TypeOK', ClockInv, [Next]_vars
  PROVE  ClockInv'
<1>0. /\ \A r \in Request : req[r].at \in Int /\ req'[r].at \in Int
      /\ now \in Int /\ now' \in Int /\ MaxRun \in Nat
  BY ConfigAssumption DEF TypeOK, Local, Time
<1>1. ASSUME NEW r \in Request, Arrive(r) PROVE ClockInv'
  <2>1. /\ UNCHANGED <<now, cooldown, rate, accepted>>
        /\ \A q \in Request : q # r => req'[q] = req[q]
        /\ req[r].pc = "start" /\ req'[r].pc \in {"create", "done"}
        /\ req'[r].at \in {req[r].at, now} /\ (req'[r].pc = "create" => req'[r].at = now)
        /\ req'[r].before \in {req[r].before, None}
    BY <1>1, ArriveFrame
  <2>2. \A q \in Request : req'[q].pc # "start" => q = r \/ req[q].pc # "start"
    BY <2>1
  <2>3. \A q \in Request : req[q].pc # "start" => req'[q] = req[q]
    BY <2>1
  <2>4. /\ \A q \in Request : req'[q].at <= now'
        /\ \A q \in Request : Running(q)' => now' <= req'[q].at + MaxRun
    BY <1>0, <2>1 DEF ClockInv, Running
  <2>5. \A q \in Request : req'[q].pc \notin {"send", "record", "done"} => accepted'[q] = {}
    BY <2>1 DEF ClockInv
  <2>6. cooldown' # None => req'[cooldown'].pc # "start"
    BY <2>1, <2>3 DEF ClockInv, TypeOK
  <2>7. \A q \in Request : req'[q].before # None => req'[req'[q].before].pc # "start"
    <3>. SUFFICES ASSUME NEW q \in Request, req'[q].before # None
                  PROVE  req'[req'[q].before].pc # "start"
      OBVIOUS
    <3>1. req'[q].before = req[q].before /\ req[q].before \in Request
      BY <2>1 DEF TypeOK, Local
    <3>. QED  BY <2>3, <3>1 DEF ClockInv
  <2>8. \A s \in Slots : rate'[s] # None => req'[rate'[s]].pc # "start"
    BY <2>1, <2>3 DEF ClockInv, TypeOK
  <2>. QED  BY <2>4, <2>5, <2>6, <2>7, <2>8 DEF ClockInv
<1>2. ASSUME NEW r \in Request, Step(r) \/ Crash(r) PROVE ClockInv'
  <2>1. \A q \in Request : req'[q].at = req[q].at /\ (Running(q)' => Running(q))
    BY <1>2, StepFrame DEF Running
  <2>2. \A q \in Request : req[q].pc # "start" \/ q = r => req'[q].pc # "start"
    BY <1>2, StepFrame
  <2>3. \A q \in Request : q # r => req'[q] = req[q] /\ accepted'[q] = accepted[q]
    BY <1>2, StepFrame
  <2>4. now' = now /\ cooldown' \in {cooldown, r} /\ (\A s \in Slots : rate'[s] \in {rate[s], r})
        /\ req'[r].before \in {req[r].before, cooldown, None}
    BY <1>2, StepFrame
  <2>5. /\ \A q \in Request : req'[q].at <= now'
        /\ \A q \in Request : Running(q)' => now' <= req'[q].at + MaxRun
    BY <1>0, <2>1, <2>4 DEF ClockInv
  <2>6. \A q \in Request : req'[q].pc \notin {"send", "record", "done"} => accepted'[q] = {}
    BY <1>2, <2>3, StepFrame DEF ClockInv
  <2>7. cooldown' # None => req'[cooldown'].pc # "start"
    BY <2>2, <2>4 DEF ClockInv, TypeOK
  <2>8. \A q \in Request : req'[q].before # None => req'[req'[q].before].pc # "start"
    <3>. SUFFICES ASSUME NEW q \in Request, req'[q].before # None
                  PROVE  req'[req'[q].before].pc # "start"
      OBVIOUS
    <3>1. req'[q].before \in Request
      BY DEF TypeOK, Local
    <3>2. req'[q].before = req[q].before \/ req'[q].before = cooldown
      BY <2>3, <2>4
    <3>3. req[req'[q].before].pc # "start"
      BY <3>1, <3>2 DEF ClockInv
    <3>. QED  BY <2>2, <3>1, <3>3
  <2>9. \A s \in Slots : rate'[s] # None => req'[rate'[s]].pc # "start"
    BY <2>2, <2>4 DEF ClockInv, TypeOK
  <2>. QED  BY <2>5, <2>6, <2>7, <2>8, <2>9 DEF ClockInv
<1>3. CASE Tick
  BY <1>0, <1>3 DEF Tick, ClockInv, Running, blobs
<1>4. ASSUME NEW t \in Text, Expire(t) PROVE ClockInv'
  BY <1>4 DEF Expire, ClockInv, Running
<1>5. ASSUME NEW s \in Slots, ExpireSlot(s) PROVE ClockInv'
  BY <1>5 DEF ExpireSlot, ClockInv, Running, TypeOK
<1>6. CASE UNCHANGED vars
  BY <1>6 DEF vars, ClockInv, Running
<1>. QED  BY <1>1, <1>2, <1>3, <1>4, <1>5, <1>6, Cases

(* Claims stay with their text and are no younger than their owner's run.  *)
LEMMA DedupeStep ==
  ASSUME TypeOK, TypeOK', ClockInv, DedupeInv, [Next]_vars
  PROVE  DedupeInv'
<1>0. /\ \A r \in Request : req[r].at \in Int /\ TextOf[r] \in Text
      /\ now \in Int /\ MaxRun \in Nat
      /\ \A t \in Text : dedupe[t] # None =>
            dedupe[t] \in Claim /\ dedupe[t].owner \in Request /\ dedupe[t].at \in Int
  BY ConfigAssumption DEF TypeOK, Local, Time, Text, Claim
<1>1. ASSUME NEW r \in Request, Arrive(r) PROVE DedupeInv'
  BY <1>0, <1>1, ArriveFrame DEF DedupeInv
<1>2. ASSUME NEW r \in Request, Step(r) \/ Crash(r) PROVE DedupeInv'
  <2>1. req[r].at <= now /\ now <= req[r].at + MaxRun
    BY <1>2, StepFrame DEF ClockInv
  <2>2. \A q \in Request : req'[q].at = req[q].at /\ (req[q].pc # "start" \/ q = r => req'[q].pc # "start")
    BY <1>2, StepFrame
  <2>. SUFFICES ASSUME NEW t \in Text, dedupe'[t] # None
       PROVE /\ TextOf[dedupe'[t].owner] = t
             /\ req'[dedupe'[t].owner].pc # "start"
             /\ dedupe'[t].at <= now'
             /\ dedupe'[t].at <= req'[dedupe'[t].owner].at + MaxRun
    BY DEF DedupeInv
  <2>3. now' = now
    BY <1>2, StepFrame
  <2>4. CASE dedupe'[t] = dedupe[t]
    BY <1>0, <2>2, <2>3, <2>4 DEF DedupeInv
  <2>5. CASE dedupe'[t] # dedupe[t]
    <3>1. t = TextOf[r]
      BY <1>2, <2>5, StepFrame
    <3>2. dedupe'[t] = MyClaim(r) \/ dedupe'[t] = [MyClaim(r) EXCEPT !.at = now, !.outcome = req[r].code]
      BY <1>2, <2>5, <3>1, StepClaim
    <3>3. MyClaim(r) \in Claim /\ MyClaim(r).owner = r /\ MyClaim(r).at = req[r].at
      BY LocalFacts DEF MyClaim
    <3>4. dedupe'[t].owner = r /\ dedupe'[t].at \in {req[r].at, now}
      BY <3>2, <3>3 DEF Claim
    <3>. QED  BY <1>0, <2>1, <2>2, <2>3, <3>1, <3>4
  <2>. QED  BY <2>4, <2>5
<1>3. CASE Tick
  BY <1>0, <1>3 DEF Tick, DedupeInv, blobs
<1>4. ASSUME NEW t \in Text, Expire(t) PROVE DedupeInv'
  BY <1>0, <1>4 DEF Expire, DedupeInv, TypeOK
<1>5. ASSUME NEW s \in Slots, ExpireSlot(s) PROVE DedupeInv'
  BY <1>5 DEF ExpireSlot, DedupeInv
<1>6. CASE UNCHANGED vars
  BY <1>6 DEF vars, DedupeInv
<1>. QED  BY <1>1, <1>2, <1>3, <1>4, <1>5, <1>6, Cases

(* A claim about to be taken over stays the expired one that was read.     *)
LEMMA TakeOverStep ==
  ASSUME TypeOK, TypeOK', TakeOverInv, [Next]_vars
  PROVE  TakeOverInv'
<1>0. /\ \A r \in Request : req[r].at \in Int /\ TextOf[r] \in Text
      /\ \A t \in Text : dedupe[t] # None => dedupe[t].at \in Int
      /\ Window \in Nat
  BY ConfigAssumption DEF TypeOK, Local, Time, Text, Claim
<1>1. ASSUME NEW r \in Request, Arrive(r) PROVE TakeOverInv'
  BY <1>1, ArriveFrame DEF TakeOverInv
<1>2. ASSUME NEW r \in Request, Step(r) \/ Crash(r) PROVE TakeOverInv'
  <2>1. \A q \in Request : q # r => req'[q] = req[q]
    BY <1>2, StepFrame
  <2>2. req'[r].at = req[r].at
    BY <1>2, StepFrame
  <2>3. req'[r].pc = "takeOver" =>
           /\ req'[r].old # None /\ req'[r].old = dedupe[TextOf[r]]
           /\ ~(req[r].at - dedupe[TextOf[r]].at < Window)
    BY <1>2, StepClaim
  <2>. QED  BY <1>0, <2>1, <2>2, <2>3 DEF TakeOverInv
<1>3. CASE Tick
  BY <1>3 DEF Tick, TakeOverInv
<1>4. ASSUME NEW t \in Text, Expire(t) PROVE TakeOverInv'
  BY <1>4 DEF Expire, TakeOverInv
<1>5. ASSUME NEW s \in Slots, ExpireSlot(s) PROVE TakeOverInv'
  BY <1>5 DEF ExpireSlot, TakeOverInv
<1>6. CASE UNCHANGED vars
  BY <1>6 DEF vars, TakeOverInv
<1>. QED  BY <1>1, <1>2, <1>3, <1>4, <1>5, <1>6, Cases

(* Nobody else writes the text of a request that runs with a claim on it:  *)
(* a claim about to be taken over is older than any running request's.     *)
LEMMA KeptStep ==
  ASSUME TypeOK, TypeOK', ClockInv, DedupeInv, TakeOverInv, ClaimKept, [Next]_vars
  PROVE  ClaimKept'
<1>. DEFINE Holds(s) == s.pc \in {"cooldown", "stamp", "slot", "send", "record"}
<1>0. /\ \A r \in Request : req[r].at \in Int /\ TextOf[r] \in Text
      /\ now \in Int /\ MaxRun \in Nat /\ Window \in Nat /\ Retain \in Nat
      /\ MaxRun < Window /\ Window + MaxRun <= Retain
  BY ConfigAssumption DEF TypeOK, Local, Time, Text
<1>1. ASSUME NEW r \in Request, Arrive(r) PROVE ClaimKept'
  BY <1>1, ArriveFrame DEF ClaimKept, MyClaim
<1>2. ASSUME NEW r \in Request, Step(r) \/ Crash(r) PROVE ClaimKept'
  <2>1. \A q \in Request : req'[q].at = req[q].at
    BY <1>2, StepFrame
  <2>2. \A q \in Request : MyClaim(q)' = MyClaim(q)
    BY <2>1 DEF MyClaim
  <2>3. ASSUME NEW q \in Request, Holds(req'[q]) PROVE dedupe'[TextOf[q]] = MyClaim(q)
    <3>1. CASE q = r
      BY <1>2, <2>3, <3>1, StepClaim DEF ClaimKept
    <3>2. CASE q # r
      <4>1. req'[q] = req[q] /\ dedupe[TextOf[q]] = MyClaim(q) /\ Running(q)
        BY <1>2, <2>3, <3>2, StepFrame DEF ClaimKept, Running
      <4>2. ASSUME dedupe'[TextOf[q]] # dedupe[TextOf[q]] PROVE FALSE
        <5>1. TextOf[q] = TextOf[r]
          BY <1>0, <1>2, <4>2, StepFrame
        <5>2. dedupe[TextOf[r]] # MyClaim(r)
          BY <3>2, <4>1, <5>1 DEF MyClaim
        <5>3. dedupe[TextOf[r]] # None
          BY <4>1, <5>1, NoClaimAssumption, LocalFacts
        <5>4. req[r].pc = "takeOver" /\ dedupe[TextOf[r]] = req[r].old
          BY <1>2, <4>2, <5>1, <5>2, <5>3, StepClaim
        <5>5. req[r].at - req[q].at >= Window
          BY <4>1, <5>1, <5>4 DEF TakeOverInv, MyClaim
        <5>. QED  BY <1>0, <4>1, <5>5 DEF ClockInv
      <4>. QED  BY <4>1, <4>2
    <3>. QED  BY <3>1, <3>2
  <2>. QED  BY <2>2, <2>3 DEF ClaimKept
<1>3. CASE Tick
  BY <1>3 DEF Tick, ClaimKept, MyClaim, blobs
<1>4. ASSUME NEW t \in Text, Expire(t) PROVE ClaimKept'
  <2>1. ASSUME NEW q \in Request, Holds(req[q]) PROVE TextOf[q] # t
    <3>1. dedupe[TextOf[q]].at = req[q].at /\ Running(q)
      <4>1. dedupe[TextOf[q]] = MyClaim(q)
        BY <2>1 DEF ClaimKept
      <4>2. MyClaim(q).at = req[q].at
        BY DEF MyClaim
      <4>. QED  BY <2>1, <4>1, <4>2 DEF Running
    <3>. QED  BY <1>0, <1>4, <3>1 DEF ClockInv, Expire
  <2>. QED  BY <1>0, <1>4, <2>1 DEF Expire, ClaimKept, MyClaim, TypeOK
<1>5. ASSUME NEW s \in Slots, ExpireSlot(s) PROVE ClaimKept'
  BY <1>5 DEF ExpireSlot, ClaimKept, MyClaim
<1>6. CASE UNCHANGED vars
  BY <1>6 DEF vars, ClaimKept, MyClaim
<1>. QED  BY <1>1, <1>2, <1>3, <1>4, <1>5, <1>6, Cases

(* A request that claims a text read the clock a window after every sender *)
(* of that text: their claim has expired, or is gone for longer than that. *)
LEMMA ClaimsAfterWindow ==
  ASSUME TypeOK, ClockInv, TakeOverInv, WindowInv,
         NEW r \in Request, NEW q \in Request, Claimed(q), SameText(q, r), Running(r),
         \/ req[r].pc \in {"create", "createAgain"} /\ dedupe[TextOf[r]] = None
         \/ req[r].pc = "takeOver" /\ dedupe[TextOf[r]] = req[r].old
  PROVE  req[r].at - req[q].at >= Window
<1>0. /\ req[r].at \in Int /\ req[q].at \in Int /\ TextOf[r] \in Text /\ TextOf[q] = TextOf[r]
      /\ now \in Int /\ MaxRun \in Nat /\ Window \in Nat /\ Retain \in Nat
      /\ Window + MaxRun <= Retain
      /\ dedupe[TextOf[r]] # None => dedupe[TextOf[r]].at \in Int
  BY ConfigAssumption DEF TypeOK, Local, Time, Text, SameText, Claim
<1>1. CASE dedupe[TextOf[r]] = None
  <2>1. now >= req[q].at + Retain
    BY <1>0, <1>1 DEF WindowInv
  <2>2. now <= req[r].at + MaxRun
    BY DEF ClockInv
  <2>. QED  BY <1>0, <2>1, <2>2
<1>2. CASE dedupe[TextOf[r]] # None
  <2>1. dedupe[TextOf[r]].at >= req[q].at
    BY <1>0, <1>2 DEF WindowInv
  <2>2. req[r].at - dedupe[TextOf[r]].at >= Window
    BY <1>2 DEF TakeOverInv
  <2>. QED  BY <1>0, <1>2, <2>1, <2>2
<1>. QED  BY <1>1, <1>2

(* Every step keeps the senders of one text a window apart.                *)
LEMMA WindowStep ==
  ASSUME TypeOK, TypeOK', RecordInv, ClockInv, TakeOverInv, WindowInv, [Next]_vars
  PROVE  WindowInv'
<1>. DEFINE Covered(q) == \/ dedupe[TextOf[q]] # None /\ dedupe[TextOf[q]].at >= req[q].at
                          \/ dedupe[TextOf[q]] = None /\ now >= req[q].at + Retain
<1>0. /\ \A r \in Request : req[r].at \in Int /\ req'[r].at \in Int /\ TextOf[r] \in Text
      /\ now \in Int /\ MaxRun \in Nat /\ Window \in Nat /\ Retain \in Nat /\ MaxRun < Window
      /\ \A t \in Text : dedupe[t] # None => dedupe[t].at \in Int
  BY ConfigAssumption DEF TypeOK, Local, Time, Text, Claim
<1>1. ASSUME NEW r \in Request, Arrive(r) PROVE WindowInv'
  <2>1. \A q \in Request : Claimed(q)' => Claimed(q) /\ req'[q] = req[q]
    BY <1>1, ArriveFrame DEF Claimed, ClockInv
  <2>. QED  BY <1>1, <2>1, ArriveFrame DEF WindowInv, Apart
<1>2. ASSUME NEW r \in Request, Step(r) \/ Crash(r) PROVE WindowInv'
  <2>. DEFINE Claims == /\ dedupe'[TextOf[r]] = MyClaim(r)
                        /\ \/ req[r].pc \in {"create", "createAgain"} /\ dedupe[TextOf[r]] = None
                           \/ req[r].pc = "takeOver" /\ dedupe[TextOf[r]] = req[r].old
  <2>1. /\ now' = now /\ Running(r) /\ \A q \in Request : req'[q].at = req[q].at
        /\ \A q \in Request : q # r => (Claimed(q)' <=> Claimed(q))
        /\ \A t \in Text : t # TextOf[r] => dedupe'[t] = dedupe[t]
    BY <1>2, StepFrame DEF Claimed
  <2>2. Claimed(r)' => Claimed(r) \/ Claims
    BY <1>2, StepClaim
  <2>3. ASSUME Claims, NEW q \in Request, Claimed(q), SameText(q, r)
        PROVE  req[r].at - req[q].at >= Window
    BY <2>1, <2>3, ClaimsAfterWindow
  <2>4. MyClaim(r) # None /\ MyClaim(r).at = req[r].at /\ MyClaim(r) \in Claim
    BY LocalFacts, NoClaimAssumption DEF MyClaim
  <2>5. ASSUME NEW q \in Request, Claimed(q)' PROVE Covered(q)'
    <3>1. CASE TextOf[q] # TextOf[r]
      BY <1>0, <2>1, <2>5, <3>1 DEF WindowInv
    <3>2. CASE TextOf[q] = TextOf[r] /\ Claims
      <4>1. req[r].at >= req[q].at
        BY <1>0, <2>1, <2>2, <2>3, <2>5, <3>2 DEF SameText
      <4>. QED  BY <2>1, <2>4, <3>2, <4>1
    <3>3. CASE TextOf[q] = TextOf[r] /\ ~Claims /\ dedupe'[TextOf[r]] = dedupe[TextOf[r]]
      BY <2>1, <2>2, <2>5, <3>3 DEF WindowInv
    <3>4. CASE TextOf[q] = TextOf[r] /\ ~Claims /\ dedupe'[TextOf[r]] # dedupe[TextOf[r]]
      <4>1. dedupe'[TextOf[r]] = [MyClaim(r) EXCEPT !.at = now, !.outcome = req[r].code]
        BY <1>2, <3>4, StepClaim
      <4>2. dedupe'[TextOf[r]].at = now
        BY <2>4, <4>1 DEF Claim
      <4>3. dedupe'[TextOf[r]] # None
        <5>1. req[r].code \in Outcomes /\ now \in Time
          BY <1>2, <3>4, StepClaim DEF RecordInv, TypeOK
        <5>2. dedupe'[TextOf[r]] \in Claim
          BY <2>4, <4>1, <5>1 DEF Claim
        <5>. QED  BY <5>2, NoClaimAssumption
      <4>4. req[q].at <= now
        BY DEF ClockInv
      <4>. QED  BY <2>1, <3>4, <4>2, <4>3, <4>4
    <3>. QED  BY <3>1, <3>2, <3>3, <3>4
  <2>6. ASSUME NEW q \in Request, NEW s \in Request, q # s, SameText(q, s), Claimed(q)', Claimed(s)'
        PROVE  Apart(q, s, Window)'
    <3>1. CASE Claimed(q) /\ Claimed(s)
      BY <2>1, <2>6, <3>1 DEF WindowInv, Apart
    <3>2. CASE q = r /\ ~Claimed(r)
      BY <2>1, <2>2, <2>3, <2>6, <3>2 DEF Apart, SameText
    <3>3. CASE s = r /\ ~Claimed(r)
      BY <2>1, <2>2, <2>3, <2>6, <3>3 DEF Apart, SameText
    <3>. QED  BY <2>1, <2>6, <3>1, <3>2, <3>3
  <2>. QED  BY <2>5, <2>6 DEF WindowInv, SameText
<1>3. CASE Tick
  BY <1>0, <1>3 DEF Tick, WindowInv, Claimed, Apart, SameText, blobs
<1>4. ASSUME NEW t \in Text, Expire(t) PROVE WindowInv'
  <2>1. ASSUME NEW q \in Request, Claimed(q) PROVE Covered(q)'
    <3>1. CASE TextOf[q] # t
      BY <1>0, <1>4, <2>1, <3>1 DEF Expire, WindowInv, TypeOK
    <3>2. CASE TextOf[q] = t
      BY <1>0, <1>4, <2>1, <3>2 DEF Expire, WindowInv, TypeOK
    <3>. QED  BY <3>1, <3>2
  <2>. QED  BY <1>4, <2>1 DEF Expire, WindowInv, Claimed, Apart, SameText
<1>5. ASSUME NEW s \in Slots, ExpireSlot(s) PROVE WindowInv'
  BY <1>5 DEF ExpireSlot, WindowInv, Claimed, Apart, SameText
<1>6. CASE UNCHANGED vars
  BY <1>6 DEF vars, WindowInv, Claimed, Apart, SameText
<1>. QED  BY <1>1, <1>2, <1>3, <1>4, <1>5, <1>6, Cases

(* Every step keeps the senders a cooldown apart.                          *)
LEMMA CooldownStep ==
  ASSUME TypeOK, TypeOK', ClockInv, CooldownInv, [Next]_vars
  PROVE  CooldownInv'
<1>0. /\ \A r \in Request : req[r].at \in Int /\ req[r].before \in Request \cup {None}
      /\ MinInterval \in Nat /\ cooldown \in Request \cup {None} /\ None \notin Request
  BY ConfigAssumption DEF TypeOK, Local, Time
<1>1. ASSUME NEW r \in Request, Arrive(r) PROVE CooldownInv'
  <2>1. \A q \in Request : req[q].pc # "start" => req'[q] = req[q]
    BY <1>1, ArriveFrame
  <2>2. req[r].pc = "start" /\ req'[r].pc \in {"create", "done"} /\ accepted' = accepted /\ cooldown' = cooldown
    BY <1>1, ArriveFrame
  <2>3. \A q \in Request : (Stamped(q)' => Stamped(q) /\ req'[q] = req[q])
                            /\ (req'[q].pc = "stamp" => req'[q] = req[q])
    BY <1>1, <2>1, <2>2, ArriveFrame DEF Stamped, ClockInv
  <2>4. cooldown # None => req'[cooldown].at = req[cooldown].at
    BY <1>0, <2>1 DEF ClockInv
  <2>5. \A q \in Request : req[q].before # None => req'[req[q].before].at = req[req[q].before].at
    BY <1>0, <2>1 DEF ClockInv
  <2>. QED  BY <1>0, <2>2, <2>3, <2>4, <2>5 DEF CooldownInv, Apart
<1>2. ASSUME NEW r \in Request, Step(r) \/ Crash(r) PROVE CooldownInv'
  <2>. DEFINE Stamps == cooldown' = r /\ req[r].pc = "stamp" /\ cooldown = req[r].before
  <2>1. /\ \A q \in Request : req'[q].at = req[q].at
        /\ \A q \in Request : q # r => req'[q] = req[q] /\ (Stamped(q)' <=> Stamped(q))
    BY <1>2, StepFrame DEF Stamped
  <2>2. /\ cooldown' = cooldown \/ Stamps
        /\ Stamped(r)' => (Stamped(r) /\ cooldown' = cooldown) \/ Stamps
        /\ req'[r].pc = "stamp" =>
             /\ req'[r].before = cooldown /\ cooldown' = cooldown
             /\ ~(cooldown # None /\ req[r].at - req[cooldown].at < MinInterval)
    BY <1>2, StepLimits
  <2>3. ASSUME Stamps, NEW q \in Request, Stamped(q) PROVE req[r].at - req[q].at >= MinInterval
    <3>1. cooldown # None /\ req[cooldown].at >= req[q].at
      BY <2>3 DEF CooldownInv
    <3>2. req[r].at - req[cooldown].at >= MinInterval
      BY <2>3, <3>1 DEF CooldownInv
    <3>. QED  BY <1>0, <3>1, <3>2
  <2>4. ASSUME NEW q \in Request, Stamped(q)' PROVE cooldown' # None /\ req'[cooldown'].at >= req'[q].at
    <3>1. CASE Stamps
      BY <1>0, <2>1, <2>2, <2>3, <2>4, <3>1
    <3>2. CASE ~Stamps
      BY <1>0, <2>1, <2>2, <2>4, <3>2 DEF CooldownInv
    <3>. QED  BY <3>1, <3>2
  <2>5. ASSUME NEW q \in Request, req'[q].pc = "stamp", req'[q].before # None
        PROVE  req'[q].at - req'[req'[q].before].at >= MinInterval
    <3>1. CASE q = r
      BY <1>0, <2>1, <2>2, <2>5, <3>1
    <3>2. CASE q # r
      BY <1>0, <2>1, <2>5, <3>2 DEF CooldownInv
    <3>. QED  BY <3>1, <3>2
  <2>6. ASSUME NEW q \in Request, NEW s \in Request, q # s, Stamped(q)', Stamped(s)'
        PROVE  Apart(q, s, MinInterval)'
    <3>1. CASE Stamped(q) /\ Stamped(s)
      BY <2>1, <2>6, <3>1 DEF CooldownInv, Apart
    <3>2. CASE q = r /\ ~Stamped(r)
      BY <2>1, <2>2, <2>3, <2>6, <3>2 DEF Apart
    <3>3. CASE s = r /\ ~Stamped(r)
      BY <2>1, <2>2, <2>3, <2>6, <3>3 DEF Apart
    <3>. QED  BY <2>1, <2>6, <3>1, <3>2, <3>3
  <2>. QED  BY <2>4, <2>5, <2>6 DEF CooldownInv
<1>3. CASE Tick
  BY <1>3 DEF Tick, CooldownInv, Stamped, Apart, blobs
<1>4. ASSUME NEW t \in Text, Expire(t) PROVE CooldownInv'
  BY <1>4 DEF Expire, CooldownInv, Stamped, Apart
<1>5. ASSUME NEW s \in Slots, ExpireSlot(s) PROVE CooldownInv'
  BY <1>5 DEF ExpireSlot, CooldownInv, Stamped, Apart
<1>6. CASE UNCHANGED vars
  BY <1>6 DEF vars, CooldownInv, Stamped, Apart
<1>. QED  BY <1>1, <1>2, <1>3, <1>4, <1>5, <1>6, Cases

(* Every step keeps the senders of one hour in different slots.            *)
LEMMA SlotStep ==
  ASSUME TypeOK, TypeOK', ClockInv, SlotInv, [Next]_vars
  PROVE  SlotInv'
<1>0. /\ \A r \in Request : req[r].at \in Nat /\ MySlot(r) \in Slots
      /\ now \in Int /\ MaxRun \in Nat /\ Retain \in Nat /\ HourLen \in Nat
      /\ HourLen + MaxRun <= Retain /\ None \notin Request
  BY ConfigAssumption, SlotIsSlot DEF TypeOK, Local, Time
<1>1. ASSUME NEW r \in Request, Arrive(r) PROVE SlotInv'
  <2>1. \A q \in Request : Slotted(q)' => Slotted(q) /\ req'[q] = req[q]
    BY <1>1, ArriveFrame DEF Slotted, ClockInv
  <2>. QED  BY <1>1, <2>1, ArriveFrame DEF SlotInv, MySlot
<1>2. ASSUME NEW r \in Request, Step(r) \/ Crash(r) PROVE SlotInv'
  <2>. DEFINE Takes == rate[MySlot(r)] = None /\ rate'[MySlot(r)] = r
  <2>1. /\ now' = now /\ Running(r)
        /\ \A q \in Request : req'[q].at = req[q].at
        /\ \A q \in Request : q # r => req'[q] = req[q] /\ (Slotted(q)' <=> Slotted(q))
    BY <1>2, StepFrame DEF Slotted
  <2>2. /\ Slotted(r)' => req'[r].slot = req[r].slot /\ ((Slotted(r) /\ rate' = rate) \/ Takes)
        /\ \A s \in Slots : rate'[s] # rate[s] => rate[s] = None
    BY <1>2, StepLimits
  <2>3. \A q \in Request : Slotted(q)' => MySlot(q)' = MySlot(q)
    BY <2>1, <2>2 DEF MySlot
  <2>4. ASSUME Takes, NEW q \in Request, Slotted(q) PROVE MySlot(q) # MySlot(r)
    <3>. SUFFICES ASSUME MySlot(q) = MySlot(r) PROVE FALSE
      OBVIOUS
    <3>1. now >= req[q].at + Retain
      BY <1>0, <2>4 DEF SlotInv
    <3>2. now <= req[r].at + MaxRun
      BY <2>1 DEF ClockInv
    <3>3. req[r].at < req[q].at + HourLen
      BY <1>0, SameHour DEF MySlot
    <3>. QED  BY <1>0, <3>1, <3>2, <3>3
  <2>5. ASSUME NEW q \in Request, Slotted(q)'
        PROVE  rate'[MySlot(q)] = q \/ now >= req[q].at + Retain
    <3>1. CASE q = r /\ Takes
      BY <3>1
    <3>2. CASE Slotted(q)
      BY <1>0, <2>2, <3>2 DEF SlotInv
    <3>. QED  BY <2>1, <2>2, <2>5, <3>1, <3>2
  <2>6. ASSUME NEW q \in Request, NEW s \in Request, q # s, Slotted(q)', Slotted(s)'
        PROVE  MySlot(q) # MySlot(s)
    <3>1. CASE Slotted(q) /\ Slotted(s)
      BY <2>6, <3>1 DEF SlotInv
    <3>2. CASE q = r /\ ~Slotted(r)
      BY <2>1, <2>2, <2>4, <2>6, <3>2
    <3>3. CASE s = r /\ ~Slotted(r)
      BY <2>1, <2>2, <2>4, <2>6, <3>3
    <3>. QED  BY <2>1, <2>6, <3>1, <3>2, <3>3
  <2>. QED  BY <2>1, <2>3, <2>5, <2>6 DEF SlotInv
<1>3. CASE Tick
  BY <1>0, <1>3 DEF Tick, SlotInv, Slotted, MySlot, blobs
<1>4. ASSUME NEW t \in Text, Expire(t) PROVE SlotInv'
  BY <1>4 DEF Expire, SlotInv, Slotted, MySlot
<1>5. ASSUME NEW s \in Slots, ExpireSlot(s) PROVE SlotInv'
  <2>1. ASSUME NEW q \in Request, Slotted(q)
        PROVE  rate'[MySlot(q)] = q \/ now >= req[q].at + Retain
    BY <1>0, <1>5, <2>1 DEF ExpireSlot, SlotInv, TypeOK
  <2>. QED  BY <1>5, <2>1 DEF ExpireSlot, SlotInv, Slotted, MySlot
<1>6. CASE UNCHANGED vars
  BY <1>6 DEF vars, SlotInv, Slotted, MySlot
<1>. QED  BY <1>1, <1>2, <1>3, <1>4, <1>5, <1>6, Cases

-----------------------------------------------------------------------------
(* What a step does to the codes of the recipients and to the answer.      *)
LEMMA StepCodes ==
  ASSUME TypeOK, NEW r \in Request, Step(r) \/ Crash(r)
  PROVE  LET served(c) == req'[r].codes = [req[r].codes EXCEPT ![req[r].to] = c]
         IN \/ /\ req'[r].codes = req[r].codes /\ req'[r].to = req[r].to
               /\ \/ accepted' = accepted
                  \/ req'[r].code = "crashed" /\ accepted'[r] = accepted[r] \cup {req[r].to}
               /\ \/ req'[r].pc \notin {"send", "record", "done"} /\ req'[r].code = req[r].code
                     /\ req[r].pc \notin {"send", "record", "done"}
                  \/ req'[r].pc = "send" /\ req[r].pc = "slot" /\ req'[r].code = req[r].code
                  \/ /\ req'[r].pc \in {"record", "done"} /\ req'[r].code \in {"unavailable", "rate_limited"}
                     /\ req[r].pc \notin {"send", "record", "done"}
                  \/ req'[r].pc = "done" /\ req'[r].code = req[r].code /\ req[r].pc = "record"
                  \/ req'[r].pc = "done" /\ req'[r].code = "crashed"
                  \/ /\ req'[r].pc = "done" /\ req'[r].code = "already_sent"
                     /\ req[r].pc = "get" /\ dedupe[TextOf[r]] # None
                     /\ dedupe[TextOf[r]].outcome = "sent"
                     /\ req[r].at - dedupe[TextOf[r]].at < Window
            \/ /\ req[r].pc = "send"
               /\ \E c \in SendCodes :
                    /\ served(c)
                    /\ \/ accepted' = accepted /\ c # "sent"
                       \/ accepted'[r] = accepted[r] \cup {req[r].to} /\ c \in {"sent", "send_unconfirmed"}
               /\ \/ /\ req[r].to < Recipients /\ req'[r].to = req[r].to + 1
                     /\ req'[r].pc = "send" /\ req'[r].code = req[r].code
                  \/ /\ ~(req[r].to < Recipients) /\ req'[r].to = req[r].to
                     /\ req'[r].pc = "record"
                     /\ req'[r].code = WorstCode({req'[r].codes[j] : j \in To})
<1>0. req[r] \in Local /\ MySlot(r) \in Slots
  BY SlotIsSlot DEF TypeOK
<1>. USE <1>0, GotoEffect, AnswerEffect, ConcludeEffect DEF Kept, TypeOK
<1>1. CASE CreateDedupe(r)
  BY <1>1 DEF CreateDedupe
<1>2. CASE ReadDedupe(r)
  BY <1>2, TakenOverEffect DEF ReadDedupe, blobs
<1>3. CASE TakeOver(r)
  BY <1>3 DEF TakeOver
<1>4. CASE ReadCooldown(r)
  BY <1>4, StampingEffect DEF ReadCooldown, blobs
<1>5. CASE Stamp(r)
  BY <1>5 DEF Stamp
<1>6. CASE ClaimSlot(r)
  BY <1>6, NextSlotEffect DEF ClaimSlot
<1>7. CASE Send(r)
  <2>1. PICK c \in SendCodes :
          /\ Served(r, c)
          /\ \/ accepted' = accepted /\ c # "sent"
             \/ accepted'[r] = accepted[r] \cup {req[r].to} /\ c \in {"sent", "send_unconfirmed"}
    BY <1>7 DEF Send, SendCodes, Accept
  <2>2. req[r].pc = "send"
    BY <1>7 DEF Send
  <2>3. /\ req'[r].codes = [req[r].codes EXCEPT ![req[r].to] = c]
        /\ \/ /\ req[r].to < Recipients /\ req'[r].to = req[r].to + 1
              /\ req'[r].pc = req[r].pc /\ req'[r].code = req[r].code
           \/ /\ ~(req[r].to < Recipients) /\ req'[r].to = req[r].to
              /\ req'[r].pc = "record"
              /\ req'[r].code = WorstCode({[req[r].codes EXCEPT ![req[r].to] = c][j] : j \in To})
    BY <2>1, ServedEffect
  <2>. QED  BY <2>1, <2>2, <2>3
<1>8. CASE RecordOutcome(r)
  BY <1>8 DEF RecordOutcome
<1>9. CASE Crash(r)
  BY <1>9 DEF Crash, Accept, blobs
<1>. QED  BY <1>1, <1>2, <1>3, <1>4, <1>5, <1>6, <1>7, <1>8, <1>9 DEF Step

(* The worst of a set of codes: nothing uncertain or failed is hidden.     *)
LEMMA WorstCodeFacts ==
  ASSUME NEW codes
  PROVE  /\ WorstCode(codes) \in SendCodes
         /\ WorstCode(codes) = "sent" => codes \cap SendCodes \subseteq {"sent"}
         /\ WorstCode(codes) # "send_unconfirmed" => "send_unconfirmed" \notin codes
  BY DEF WorstCode, SendCodes

(* Only outcomes are recorded.                                             *)
LEMMA RecordStep ==
  ASSUME TypeOK, RecordInv, [Next]_vars
  PROVE  RecordInv'
<1>1. ASSUME NEW r \in Request, Arrive(r) PROVE RecordInv'
  BY <1>1, ArriveFrame DEF RecordInv
<1>2. ASSUME NEW r \in Request, Step(r) \/ Crash(r) PROVE RecordInv'
  <2>1. \A q \in Request : q # r => req'[q] = req[q]
    BY <1>2, StepFrame
  <2>2. req'[r].pc = "record" => req'[r].code \in Outcomes
    BY <1>2, StepCodes, WorstCodeFacts DEF Outcomes, SendCodes
  <2>. QED  BY <2>1, <2>2 DEF RecordInv
<1>3. CASE Tick
  BY <1>3 DEF Tick, RecordInv
<1>4. ASSUME NEW t \in Text, Expire(t) PROVE RecordInv'
  BY <1>4 DEF Expire, RecordInv
<1>5. ASSUME NEW s \in Slots, ExpireSlot(s) PROVE RecordInv'
  BY <1>5 DEF ExpireSlot, RecordInv
<1>6. CASE UNCHANGED vars
  BY <1>6 DEF vars, RecordInv
<1>. QED  BY <1>1, <1>2, <1>3, <1>4, <1>5, <1>6, Cases

(* The text of a request and the owner of a claim.                         *)
LEMMA Kinds ==
  ASSUME TypeOK
  PROVE  /\ \A r \in Request : TextOf[r] \in Text /\ req[r].at \in Int
         /\ \A t \in Text : dedupe[t] # None =>
              dedupe[t] \in Claim /\ dedupe[t].owner \in Request /\ dedupe[t].at \in Int
<1>1. \A r \in Request : TextOf[r] \in Text
  BY DEF Text
<1>2. Time \subseteq Int
  BY ConfigAssumption DEF Time
<1>3. \A r \in Request : req[r].at \in Int
  BY <1>2 DEF TypeOK, Local
<1>4. \A t \in Text : dedupe[t] # None => dedupe[t] \in Claim
  BY DEF TypeOK
<1>5. \A c \in Claim : c.owner \in Request /\ c.at \in Int
  BY <1>2 DEF Claim
<1>. QED  BY <1>1, <1>3, <1>4, <1>5

(* Codes, answers and recorded outcomes agree with what Twilio accepted.   *)
LEMMA CodesStep ==
  ASSUME TypeOK, TypeOK', ClockInv, DedupeInv, CodesInv, [Next]_vars
  PROVE  CodesInv'
<1>. DEFINE Told(s, got) ==
       /\ \A i \in To : /\ s.codes[i] = "sent" => i \in got
                        /\ i \in got => s.codes[i] \in {"sent", "send_unconfirmed"} \/ s.code = "crashed"
       /\ s.pc \notin {"send", "record", "done"} => s.to = 1
       /\ s.pc \notin {"record", "done"} =>
            s.code = "none" /\ \A i \in To : s.codes[i] = "none" <=> i >= s.to
       /\ s.code = "sent" => got = To
       /\ s.code \in {"send_failed", "unavailable", "rate_limited"} =>
            \A i \in To : s.codes[i] # "send_unconfirmed"
<1>. DEFINE Recorded == \A t \in Text : dedupe[t] # None /\ dedupe[t].outcome = "sent" =>
                          accepted[dedupe[t].owner] = To
<1>0. CodesInv <=> (\A r \in Request : Told(req[r], accepted[r])) /\ Recorded
  BY DEF CodesInv
<1>00. CodesInv' <=> (\A r \in Request : Told(req'[r], accepted'[r])) /\ Recorded'
  BY DEF CodesInv
<1>01. /\ To \subseteq Nat /\ Recipients \in Nat /\ 1 \in To /\ To = 1..Recipients
       /\ \A r \in Request : /\ req[r].to \in To /\ TextOf[r] \in Text
                             /\ req[r].codes \in [To -> SendCodes \cup {"none"}]
                             /\ accepted[r] \subseteq To /\ accepted'[r] \subseteq To
       /\ \A t \in Text : dedupe[t] # None => dedupe[t].owner \in Request
  <2>1. To \subseteq Nat /\ Recipients \in Nat /\ 1 \in To /\ To = 1..Recipients
    BY ConfigAssumption DEF To
  <2>2. \A r \in Request : req[r].to \in To /\ req[r].codes \in [To -> SendCodes \cup {"none"}]
    BY DEF TypeOK, Local
  <2>3. \A r \in Request : accepted[r] \subseteq To /\ accepted'[r] \subseteq To
    BY DEF TypeOK
  <2>. QED  BY <2>1, <2>2, <2>3, Kinds
<1>1. ASSUME NEW r \in Request, Arrive(r) PROVE CodesInv'
  <2>1. Told(req[r], accepted[r])
    BY <1>0
  <2>2. Told(req'[r], accepted'[r])
    BY <1>1, <2>1, ArriveFrame
  <2>. QED  BY <1>0, <1>00, <1>1, <2>2, ArriveFrame
<1>2. ASSUME NEW r \in Request, Step(r) \/ Crash(r) PROVE CodesInv'
  <2>. DEFINE s == req[r]  s2 == req'[r]
  <2>1. Told(s, accepted[r])
    BY <1>0
  <2>2. Told(s2, accepted'[r])
    <3>1. CASE s2.codes = s.codes /\ s2.to = s.to
      <4>0. \A c \in SendCodes : ~(s.pc = "send" /\ s2.codes = [s.codes EXCEPT ![s.to] = c])
        <5>1. ASSUME NEW c \in SendCodes, s.pc = "send", s2.codes = [s.codes EXCEPT ![s.to] = c]
              PROVE  FALSE
          <6>1. s.codes[s.to] = "none"
            BY <1>01, <2>1, <5>1
          <6>2. s2.codes[s.to] = c
            BY <1>01, <5>1
          <6>. QED  BY <3>1, <6>1, <6>2 DEF SendCodes
        <5>. QED  BY <5>1
      <4>1. \/ accepted'[r] = accepted[r]
            \/ s2.code = "crashed" /\ accepted'[r] = accepted[r] \cup {s.to}
        BY <1>2, <3>1, <4>0, StepCodes
      <4>2. \A i \in To : /\ s2.codes[i] = "sent" => i \in accepted'[r]
                          /\ i \in accepted'[r] => s2.codes[i] \in {"sent", "send_unconfirmed"} \/ s2.code = "crashed" \/ s.code = "crashed"
        BY <2>1, <3>1, <4>1
      <4>3. \/ s2.pc \notin {"send", "record", "done"} /\ s2.code = s.code /\ s.pc \notin {"send", "record", "done"}
            \/ s2.pc = "send" /\ s.pc = "slot" /\ s2.code = s.code
            \/ /\ s2.pc \in {"record", "done"} /\ s2.code \in {"unavailable", "rate_limited"}
               /\ s.pc \notin {"send", "record", "done"}
            \/ s2.pc = "done" /\ s2.code = s.code /\ s.pc = "record"
            \/ s2.pc = "done" /\ s2.code = "crashed"
            \/ s2.pc = "done" /\ s2.code = "already_sent" /\ s.pc = "get"
        BY <1>2, <3>1, <4>0, StepCodes
      <4>4. s.pc \notin {"send", "record", "done"} => accepted[r] = {} /\ \A i \in To : s.codes[i] = "none"
        BY <1>01, <2>1 DEF ClockInv
      <4>5. CASE s2.code = s.code
        BY <2>1, <3>1, <4>1, <4>2, <4>3, <4>5
      <4>6. CASE s2.code # s.code
        BY <1>01, <2>1, <3>1, <4>1, <4>2, <4>3, <4>4, <4>6
      <4>. QED  BY <4>5, <4>6
    <3>2. CASE ~(s2.codes = s.codes /\ s2.to = s.to)
      <4>1. PICK c \in SendCodes :
              /\ s.pc = "send" /\ s2.codes = [s.codes EXCEPT ![s.to] = c]
              /\ \/ accepted'[r] = accepted[r] /\ c # "sent"
                 \/ accepted'[r] = accepted[r] \cup {s.to} /\ c \in {"sent", "send_unconfirmed"}
              /\ \/ /\ s.to < Recipients /\ s2.to = s.to + 1
                    /\ s2.pc = "send" /\ s2.code = s.code
                 \/ /\ ~(s.to < Recipients) /\ s2.to = s.to
                    /\ s2.pc = "record" /\ s2.code = WorstCode({s2.codes[j] : j \in To})
        BY <1>2, <3>2, StepCodes
      <4>2. s2.codes[s.to] = c /\ \A i \in To : i # s.to => s2.codes[i] = s.codes[i]
        BY <1>01, <4>1
      <4>3. s.codes[s.to] = "none" /\ s.to \notin accepted[r] /\ s.code = "none"
        BY <1>01, <2>1, <4>1
      <4>4. c # "none"
        BY DEF SendCodes
      <4>5. \A i \in To : /\ s2.codes[i] = "sent" => i \in accepted'[r]
                          /\ i \in accepted'[r] => s2.codes[i] \in {"sent", "send_unconfirmed"}
        BY <2>1, <4>1, <4>2, <4>3
      <4>6. CASE s.to < Recipients
        BY <1>01, <2>1, <4>1, <4>2, <4>3, <4>4, <4>5, <4>6
      <4>7. CASE ~(s.to < Recipients)
        <5>. DEFINE cs == {s2.codes[j] : j \in To}
        <5>1. \A i \in To : i # s.to => i < s.to
          BY <1>01, <4>7
        <5>2. \A i \in To : s2.codes[i] \in SendCodes
          BY <1>01, <2>1, <4>1, <4>2, <5>1
        <5>3. s2.pc = "record" /\ s2.code = WorstCode(cs)
          BY <4>1, <4>7
        <5>4. s2.code = "sent" => \A i \in To : s2.codes[i] = "sent"
          BY <5>2, <5>3, WorstCodeFacts
        <5>5. s2.code # "send_unconfirmed" => \A i \in To : s2.codes[i] # "send_unconfirmed"
          BY <5>3, WorstCodeFacts
        <5>. QED  BY <1>01, <4>5, <5>3, <5>4, <5>5
      <4>. QED  BY <4>6, <4>7
    <3>. QED  BY <3>1, <3>2
  <2>3. /\ \A q \in Request : q # r => req'[q] = req[q] /\ accepted'[q] = accepted[q]
        /\ \A q \in Request : accepted[q] \subseteq accepted'[q]
        /\ \A t \in Text : t # TextOf[r] => dedupe'[t] = dedupe[t]
    BY <1>2, StepFrame
  <2>4. Recorded'
    <3>. SUFFICES ASSUME NEW t \in Text, dedupe'[t] # None, dedupe'[t].outcome = "sent"
                  PROVE  accepted'[dedupe'[t].owner] = To
      OBVIOUS
    <3>1. CASE dedupe'[t] = dedupe[t]
      <4>. DEFINE o == dedupe[t].owner
      <4>1. o \in Request /\ accepted[o] = To
        BY <1>0, <1>01, <3>1
      <4>2. accepted[o] \subseteq accepted'[o] /\ accepted'[o] \subseteq To
        BY <1>01, <2>3, <4>1
      <4>. QED  BY <3>1, <4>1, <4>2
    <3>2. CASE dedupe'[t] # dedupe[t]
      <4>1. dedupe'[TextOf[r]] = MyClaim(r) \/
              (req[r].pc = "record" /\ dedupe'[TextOf[r]] = [MyClaim(r) EXCEPT !.at = now, !.outcome = req[r].code])
        BY <1>2, <2>3, <3>2, StepClaim
      <4>2. MyClaim(r) \in Claim /\ MyClaim(r).outcome = "pending" /\ MyClaim(r).owner = r
        BY LocalFacts DEF MyClaim
      <4>3. LET c == [MyClaim(r) EXCEPT !.at = now, !.outcome = req[r].code]
            IN c.owner = r /\ c.outcome = req[r].code
        BY DEF MyClaim
      <4>4. t = TextOf[r]
        BY <2>3, <3>2
      <4>5. dedupe'[t].owner = r /\ req[r].code = "sent"
        BY <4>1, <4>2, <4>3, <4>4
      <4>. QED  BY <1>01, <2>1, <2>3, <4>5
    <3>. QED  BY <3>1, <3>2
  <2>. QED  BY <1>0, <1>00, <2>2, <2>3, <2>4
<1>3. CASE Tick
  BY <1>3 DEF Tick, CodesInv, blobs
<1>4. ASSUME NEW t \in Text, Expire(t) PROVE CodesInv'
  BY <1>4 DEF Expire, CodesInv, TypeOK
<1>5. ASSUME NEW s \in Slots, ExpireSlot(s) PROVE CodesInv'
  BY <1>5 DEF ExpireSlot, CodesInv
<1>6. CASE UNCHANGED vars
  BY <1>6 DEF vars, CodesInv
<1>. QED  BY <1>1, <1>2, <1>3, <1>4, <1>5, <1>6, Cases

(* already_sent stays true once answered, and is true when answered.       *)
LEMMA AlreadySentStep ==
  ASSUME TypeOK, TypeOK', ClockInv, DedupeInv, CodesInv, AlreadySentIsTrue, [Next]_vars
  PROVE  AlreadySentIsTrue'
<1>0. /\ \A r \in Request : req[r].at \in Int /\ TextOf[r] \in Text
      /\ MaxRun \in Nat /\ Window \in Nat /\ To # {}
      /\ \A t \in Text : dedupe[t] # None => dedupe[t].owner \in Request /\ dedupe[t].at \in Int
      /\ \A r \in Request : accepted'[r] \subseteq To
  <2>1. MaxRun \in Nat /\ Window \in Nat /\ To # {}
    BY ConfigAssumption DEF To
  <2>2. \A r \in Request : accepted'[r] \subseteq To
    BY DEF TypeOK
  <2>. QED  BY <2>1, <2>2, Kinds
<1>1. ASSUME NEW r \in Request, Arrive(r) PROVE AlreadySentIsTrue'
  <2>1. \A s \in Request : accepted[s] = To => req'[s] = req[s] /\ accepted'[s] = To
    BY <1>0, <1>1, ArriveFrame DEF ClockInv
  <2>2. \A q \in Request : req'[q].code = "already_sent" => req'[q] = req[q]
    BY <1>1, ArriveFrame DEF CodesInv
  <2>. QED  BY <2>1, <2>2 DEF AlreadySentIsTrue, SameText
<1>2. ASSUME NEW r \in Request, Step(r) \/ Crash(r) PROVE AlreadySentIsTrue'
  <2>1. /\ \A q \in Request : q # r => req'[q] = req[q]
        /\ \A q \in Request : req'[q].at = req[q].at /\ accepted[q] \subseteq accepted'[q]
    BY <1>2, StepFrame
  <2>2. \A s \in Request : accepted[s] = To => accepted'[s] = To
    BY <1>0, <2>1
  <2>3. ASSUME req'[r].code = "already_sent", req[r].code # "already_sent"
        PROVE  \E s \in Request : SameText(r, s) /\ accepted[s] = To
                                  /\ req[r].at - req[s].at < Window + MaxRun
    <3>1. /\ dedupe[TextOf[r]] # None /\ dedupe[TextOf[r]].outcome = "sent"
          /\ req[r].at - dedupe[TextOf[r]].at < Window
      BY <1>2, <2>3, StepCodes, WorstCodeFacts DEF SendCodes
    <3>. DEFINE s == dedupe[TextOf[r]].owner
    <3>2. TextOf[s] = TextOf[r] /\ dedupe[TextOf[r]].at <= req[s].at + MaxRun /\ accepted[s] = To
      BY <1>0, <3>1 DEF DedupeInv, CodesInv
    <3>. QED  BY <1>0, <3>1, <3>2 DEF SameText
  <2>. QED  BY <2>1, <2>2, <2>3 DEF AlreadySentIsTrue, SameText
<1>3. CASE Tick
  BY <1>3 DEF Tick, AlreadySentIsTrue, SameText, blobs
<1>4. ASSUME NEW t \in Text, Expire(t) PROVE AlreadySentIsTrue'
  BY <1>4 DEF Expire, AlreadySentIsTrue, SameText
<1>5. ASSUME NEW s \in Slots, ExpireSlot(s) PROVE AlreadySentIsTrue'
  BY <1>5 DEF ExpireSlot, AlreadySentIsTrue, SameText
<1>6. CASE UNCHANGED vars
  BY <1>6 DEF vars, AlreadySentIsTrue, SameText
<1>. QED  BY <1>1, <1>2, <1>3, <1>4, <1>5, <1>6, Cases
-----------------------------------------------------------------------------
(* The theorems. *)

(* The initial state satisfies the invariant: nothing is claimed or sent.  *)
LEMMA InitInv == Init => SmsInv
<1>. SUFFICES ASSUME Init PROVE SmsInv
  OBVIOUS
<1>1. TypeOK
  BY TypeInit
<1>2. /\ \A r \in Request : req[r].pc = "start" /\ req[r].before = None /\ req[r].at = 0
                           /\ req[r].to = 1 /\ req[r].code = "none" /\ accepted[r] = {}
                           /\ \A i \in To : req[r].codes[i] = "none"
      /\ \A t \in Text : dedupe[t] = None
      /\ \A s \in Slots : rate[s] = None
      /\ cooldown = None /\ now = 0
  BY DEF Init
<1>3. To \subseteq Nat \ {0} /\ To # {}
  BY ConfigAssumption DEF To
<1>4. ClockInv
  BY <1>2 DEF ClockInv, Running
<1>5. CodesInv
  BY <1>2, <1>3 DEF CodesInv
<1>6. RecordInv /\ DedupeInv /\ TakeOverInv /\ ClaimKept /\ AlreadySentIsTrue
  BY <1>2 DEF RecordInv, DedupeInv, TakeOverInv, ClaimKept, AlreadySentIsTrue
<1>7. WindowInv /\ CooldownInv /\ SlotInv
  BY <1>2 DEF WindowInv, CooldownInv, SlotInv, Claimed, Stamped, Slotted
<1>. QED  BY <1>1, <1>4, <1>5, <1>6, <1>7 DEF SmsInv

(* Every step keeps it.                                                    *)
LEMMA NextInv == SmsInv /\ [Next]_vars => SmsInv'
<1>. SUFFICES ASSUME SmsInv, [Next]_vars PROVE SmsInv'
  OBVIOUS
<1>. USE DEF SmsInv
<1>1. TypeOK'
  BY TypeStep
<1>2. RecordInv'
  BY RecordStep
<1>3. ClockInv'
  BY <1>1, ClockStep
<1>4. DedupeInv'
  BY <1>1, DedupeStep
<1>5. TakeOverInv'
  BY <1>1, TakeOverStep
<1>6. ClaimKept'
  BY <1>1, KeptStep
<1>7. WindowInv'
  BY <1>1, WindowStep
<1>8. CooldownInv'
  BY <1>1, CooldownStep
<1>9. SlotInv'
  BY <1>1, SlotStep
<1>10. CodesInv'
  BY <1>1, CodesStep
<1>11. AlreadySentIsTrue'
  BY <1>1, AlreadySentStep
<1>. QED  BY <1>1, <1>2, <1>3, <1>4, <1>5, <1>6, <1>7, <1>8, <1>9, <1>10, <1>11

(* The claims, the stamp, the slots and the codes agree with what was sent *)
(* in every reachable state of core/service.py and core/limits.py.         *)
THEOREM InvariantHolds == Spec => []SmsInv
<1>. QED  BY InitInv, NextInv, PTL DEF Spec

(* Every blob and every local state stays what the code writes there.      *)
THEOREM TypeCorrect == Spec => []TypeOK
<1>1. SmsInv => TypeOK
  BY DEF SmsInv
<1>. QED  BY <1>1, InvariantHolds, PTL

(* No text goes out for two requests of one dedupe window, for any number  *)
(* of racing requests, takeovers, lost answers and crashes.                *)
THEOREM NeverTwice == Spec => []NeverTwiceInWindow
<1>1. SmsInv => NeverTwiceInWindow
  BY DEF SmsInv, WindowInv, Claimed, NeverTwiceInWindow
<1>. QED  BY <1>1, InvariantHolds, PTL

(* Whatever was sent was claimed MinInterval apart, whoever raced for the  *)
(* cooldown blob.                                                          *)
THEOREM Spacing == Spec => []CooldownSpacing
<1>1. SmsInv => CooldownSpacing
  BY DEF SmsInv, CooldownInv, Stamped, CooldownSpacing
<1>. QED  BY <1>1, InvariantHolds, PTL

(* Senders of one hour hold different slots, so there are no more of them  *)
(* than the hour has slots.                                                *)
LEMMA SlotsCount == SmsInv => HourlyCap
<1>. SUFFICES ASSUME SmsInv, NEW h \in 0..HourOf(MaxTime)
     PROVE  Cardinality({r \in Request : accepted[r] # {} /\ HourOf(req[r].at) = h}) <= MaxPerHour
  BY DEF HourlyCap
<1>. DEFINE S == {r \in Request : accepted[r] # {} /\ HourOf(req[r].at) = h}
            f == [r \in S |-> req[r].slot]
<1>1. \A r \in S : req[r].slot \in 1..MaxPerHour
  BY DEF SmsInv, TypeOK, Local
<1>2. \A r, s \in S : req[r].slot = req[s].slot => r = s
  BY DEF SmsInv, SlotInv, Slotted, MySlot
<1>3. f \in Injection(S, 1..MaxPerHour)
  BY <1>1, <1>2 DEF Injection, IsInjective
<1>4. MaxPerHour \in Nat /\ MaxPerHour > 0
  BY ConfigAssumption
<1>5. IsFiniteSet(1..MaxPerHour) /\ Cardinality(1..MaxPerHour) = MaxPerHour
  BY <1>4, FS_Interval
<1>. HIDE DEF S, f
<1>6. Cardinality(S) <= MaxPerHour
  BY <1>3, <1>5, FS_Injection
<1>. QED  BY <1>6 DEF S

(* No more requests of one hour ever send than SMS_MAX_PER_HOUR.           *)
THEOREM HourCap == Spec => []HourlyCap
<1>. QED  BY SlotsCount, InvariantHolds, PTL

(* A running request keeps its claim until it answers.                     *)
THEOREM KeptClaims == Spec => []ClaimKept
<1>1. SmsInv => ClaimKept
  BY DEF SmsInv
<1>. QED  BY <1>1, InvariantHolds, PTL

(* already_sent is answered only when the text went out to everybody.      *)
THEOREM AlreadySent == Spec => []AlreadySentIsTrue
<1>1. SmsInv => AlreadySentIsTrue
  BY DEF SmsInv
<1>. QED  BY <1>1, InvariantHolds, PTL

(* The answer never claims more, or less, than what may have been sent.    *)
THEOREM Honest == Spec => []CodeIsHonest
<1>1. SmsInv => CodeIsHonest
  <2>. SUFFICES ASSUME SmsInv, NEW r \in Request
       PROVE  /\ req[r].code = "sent" => accepted[r] = To
              /\ req[r].code \in {"send_failed", "unavailable", "rate_limited"} =>
                   \A i \in accepted[r] : req[r].codes[i] = "sent"
    BY DEF CodeIsHonest
  <2>1. accepted[r] \subseteq To
    BY DEF SmsInv, TypeOK
  <2>. QED  BY <2>1 DEF SmsInv, CodesInv
<1>. QED  BY <1>1, InvariantHolds, PTL
=============================================================================
