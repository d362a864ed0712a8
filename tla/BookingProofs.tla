---------------------------- MODULE BookingProofs ----------------------------
(***************************************************************************)
(* Booking, for every number of requests, cells, rounds and bindings. The  *)
(* first part is type correctness, and that claims name their own booking. *)
(* The second is what the claims protect: no two events stand in a common  *)
(* cell, a refusal created nothing, a booked answer was created and stays  *)
(* so, and no one touches the claims of a running attempt.                 *)
(*                                                                         *)
(* Its core is SafetyInv.  "Knows" relates what a request has read to the  *)
(* calendar as it is: everything it relies on can only become truer while  *)
(* it waits.  "ClaimsTrue" says the same of the claims.  "Covered": the    *)
(* cells an attempt needs are held by it, as long as no event of its       *)
(* booking was edited by the host or deleted as a duplicate.  It needs     *)
(* nothing of the vendor or the host.                                      *)
(*                                                                         *)
(* "Spoiled" events are then the whole difficulty.  At a vendor that       *)
(* recognises a repeated request_key AnchorInv gives a booking one event   *)
(* that no clean-up deletes; SoloInv and NoSpoil say when a claim          *)
(* may be given up; and KeptInv joins them: an event that stands holds all *)
(* its cells.  Exclusion, the refinement of ExclusiveSlots and the answer  *)
(* slot_taken follow, under the hypothesis "Sound".                        *)
(***************************************************************************)
EXTENDS Booking, TLAPS

-----------------------------------------------------------------------------
(* The inductive invariant. *)

(* A record whose event, once it is finalized, belongs to its own booking. *)
GoodRecord == {rec \in Record :
  rec.state = "booked" => rec.event \in Carrying(FpOf[rec.owner])}

ClaimInv ==
  /\ claims \in [Cell -> GoodRecord \cup {None}]
  /\ stale \subseteq Cell
  /\ \A c \in Cell : claims[c] # None => c \in CellsOf(claims[c].owner)

(* Where the record last read is used by the next await. *)
UsesSeen == {"replay", "poll", "pollLookup", "recover", "recWrite", "recRead",
             "siblings", "dedupe", "finalize"}

Polling(s) == s.pc \in {"poll", "pollLookup"} \/ (s.pc = "release" /\ s.next = "poll")

(* What the locals of request r have in common with the claims: the record *)
(* it read is a good one, and the event it is about to write into claims   *)
(* belongs to that record's booking.                                       *)
Coherent(r, s) ==
  /\ s.at \in CellsOf(r)
  /\ s.cas <= MaxCas
  /\ s.seen \in GoodRecord \cup {None}
  /\ s.pc \in UsesSeen => s.seen # None
  /\ Polling(s) => Ours(r, s.seen)
  /\ s.pc \in {"dedupe", "finalize"} => s.found # None
  /\ s.pc \in {"dedupe", "finalize", "recWrite", "siblings"} /\ s.found # None
       => s.found \in Carrying(FpOf[s.seen.owner])
  /\ s.pc \in {"busy", "claim", "create", "lookup"} /\ s.found # None
       => s.found \in Carrying(FpOf[r])

Fine(r, s) == s \in Local /\ Coherent(r, s)

ReqInv == req \in [Request -> Local] /\ \A r \in Request : Coherent(r, req[r])

BookingInv == ClaimInv /\ CalendarTypeOK /\ ReqInv

-----------------------------------------------------------------------------
(* Facts about the parameters. *)

(* The cells of a request are cells, its first one among them. *)
LEMMA CellFacts ==
  ASSUME NEW r \in Request
  PROVE  /\ FpOf[r] \in Fingerprint
         /\ CellsOf(r) \subseteq Cell
         /\ First(r) \in CellsOf(r)
         /\ First(r) \in Cell
<1>1. FpOf[r] \in Fingerprint
  BY DEF Fingerprint
<1>2. StartOf[FpOf[r]] \in Nat /\ EndOf[FpOf[r]] \in Nat /\ BufferOf[r] \in Nat
  BY <1>1, CalendarAssumption
<1>3. StartOf[FpOf[r]] < EndOf[FpOf[r]]
  BY <1>1, CalendarAssumption
<1>4. First(r) \in CellsOf(r)
  BY <1>2, <1>3 DEF First, CellsOf
<1>. QED  BY <1>1, <1>4, CellsAssumption

(* A good record is a record, so it is not the empty cell. *)
LEMMA GoodRecordFacts ==
  ASSUME NEW rec \in GoodRecord
  PROVE  /\ rec \in Record /\ rec # None
         /\ rec.owner \in Request
         /\ rec.event \in Event \cup {None}
  BY NoneAssumption DEF GoodRecord, Record

(* A pending record names no event. *)
LEMMA PendingGood ==
  ASSUME NEW r \in Request, NEW n \in 1..MaxRounds
  PROVE  Pending(r, n) \in GoodRecord /\ Pending(r, n).owner = r
  BY DEF Pending, GoodRecord, Record

(* Finalizing with an event of the same booking gives a good record. *)
LEMMA BookedGood ==
  ASSUME NEW rec \in GoodRecord, NEW e \in Carrying(FpOf[rec.owner])
  PROVE  BookedAs(rec, e) \in GoodRecord /\ BookedAs(rec, e).owner = rec.owner
  BY DEF BookedAs, GoodRecord, Record, Carrying

-----------------------------------------------------------------------------
(* Where control goes: every way on from a good local state is a good one. *)

(* A request that starts afresh at a location that reads no record. *)
LEMMA BlankFine ==
  ASSUME NEW r \in Request, NEW loc \in Waits, NEW k \in Continuations,
         loc \notin UsesSeen, loc = "release" => k # "poll"
  PROVE  Fine(r, Blank(r, loc, k))
<1>1. Blank(r, loc, k) \in Local
  BY CellFacts, StoreAssumption, CasAssumption
     DEF Blank, Local, NoCache, EventStatus
<1>2. Coherent(r, Blank(r, loc, k))
  BY CellFacts, CasAssumption DEF Blank, Coherent, Polling, UsesSeen
<1>. QED  BY <1>1, <1>2 DEF Fine

(* A request that answers. *)
LEMMA DoneFine ==
  ASSUME NEW r \in Request, NEW a \in Answers
  PROVE  Fine(r, Done(r, a))
<1>1. a \in Continuations /\ "done" \in Waits /\ "done" \notin UsesSeen
  BY DEF Continuations, Waits, UsesSeen
<1>. QED  BY <1>1, BlankFine DEF Done

(* _AGAIN: another round, or the answer after the last one. *)
LEMMA AgainFine ==
  ASSUME NEW r \in Request, NEW s \in Local
  PROVE  Fine(r, Again(r, s))
<1>1. CASE s.round = MaxRounds
  BY <1>1, DoneFine DEF Again, Answers
<1>2. CASE s.round # MaxRounds
  <2>1. Fine(r, Blank(r, "read", "none"))
    BY BlankFine DEF Waits, Continuations, UsesSeen
  <2>2. s.round + 1 \in 1..MaxRounds
    BY <1>2, StoreAssumption DEF Local
  <2>. DEFINE t == [Blank(r, "read", "none") EXCEPT
          !.round = s.round + 1, !.seenOwn = TRUE, !.cache = s.cache]
  <2>3. t \in Local
    BY <2>1, <2>2 DEF Fine, Local
  <2>4. Coherent(r, t)
    BY <2>1 DEF Fine, Coherent, Polling, Blank
  <2>. QED  BY <1>2, <2>3, <2>4 DEF Again, Fine
<1>. QED  BY <1>1, <1>2

(* continue in step 2: another reading of the first cell. *)
LEMMA RereadFine ==
  ASSUME NEW r \in Request, NEW s \in Local
  PROVE  Fine(r, Reread(r, s))
<1>1. CASE s.pass = MaxRounds
  BY <1>1, DoneFine DEF Reread, Answers
<1>2. CASE s.pass # MaxRounds
  <2>1. Fine(r, Blank(r, "read", "none"))
    BY BlankFine DEF Waits, Continuations, UsesSeen
  <2>2. s.pass + 1 \in 1..MaxRounds
    BY <1>2, StoreAssumption DEF Local
  <2>. DEFINE t == [Blank(r, "read", "none") EXCEPT
          !.round = s.round, !.pass = s.pass + 1, !.recOnce = s.recOnce,
          !.seenOwn = s.seenOwn, !.cache = s.cache]
  <2>3. t \in Local
    BY <2>1, <2>2 DEF Fine, Local
  <2>4. Coherent(r, t)
    BY <2>1 DEF Fine, Coherent, Polling, Blank
  <2>5. Reread(r, s) = t
    BY <1>2 DEF Reread
  <2>. HIDE DEF t
  <2>. QED  BY <2>3, <2>4, <2>5 DEF Fine
<1>. QED  BY <1>1, <1>2

(* From step 2 on to step 3 and 5. *)
LEMMA OnwardFine ==
  ASSUME NEW r \in Request, NEW s \in Local, NEW loc \in Waits, loc \notin UsesSeen
  PROVE  Fine(r, Onward(r, s, loc))
<1>1. Fine(r, Blank(r, loc, "none"))
  BY BlankFine DEF Continuations
<1>2. Onward(r, s, loc) \in Local
  BY <1>1 DEF Onward, Fine, Local
<1>3. Coherent(r, Onward(r, s, loc))
  BY <1>1 DEF Onward, Fine, Coherent, Polling, Blank
<1>. QED  BY <1>2, <1>3 DEF Fine

(* What follows a release_all. *)
LEMMA FollowFine ==
  ASSUME NEW r \in Request, NEW s, Fine(r, s),
         NEW k \in Continuations, k = "poll" => Ours(r, s.seen)
  PROVE  Fine(r, Follow(r, s, k))
<1>. USE DEF Fine
<1>1. CASE k = "again"
  BY <1>1, AgainFine DEF Follow
<1>2. CASE k = "poll"
  BY <1>2 DEF Follow, Local, Coherent, Polling, UsesSeen, Ours, Waits, Continuations
<1>3. CASE k \notin {"again", "poll"}
  BY <1>3, BlankFine DEF Follow, Done, Waits, UsesSeen
<1>. QED  BY <1>1, <1>2, <1>3

(* release_all itself, whatever follows it. *)
LEMMA ReleaseThenFine ==
  ASSUME NEW r \in Request, NEW s, s \in Local, s.at \in CellsOf(r),
         s.seen \in GoodRecord \cup {None}, NEW cells \in SUBSET Cell,
         NEW k \in Answers \cup {"again", "poll"}, k = "poll" => Fine(r, s) /\ Ours(r, s.seen)
  PROVE  Fine(r, ReleaseThen(r, s, cells, k))
<1>1. CASE cells = {}
  <2>1. CASE k = "again"
    BY <1>1, <2>1, AgainFine DEF ReleaseThen, Follow
  <2>2. CASE k = "poll"
    BY <1>1, <2>2, FollowFine DEF ReleaseThen, Continuations
  <2>3. CASE k \in Answers
    BY <1>1, <2>3, DoneFine DEF ReleaseThen, Follow, Answers
  <2>. QED  BY <2>1, <2>2, <2>3
<1>2. CASE cells # {}
  <2>1. Fine(r, Onward(r, s, "release"))
    BY OnwardFine DEF Waits, UsesSeen
  <2>2. k \in Continuations
    BY DEF Continuations
  <2>. DEFINE t == [Onward(r, s, "release") EXCEPT
          !.next = k, !.todo = cells, !.at = s.at, !.caller = s.caller,
          !.seen = IF k \in {"poll", "cancelled"} THEN s.seen ELSE None]
  <2>3. t \in Local
    BY <2>1, <2>2, GoodRecordFacts DEF Fine, Local
  <2>4. Coherent(r, t)
    BY <2>1 DEF Fine, Coherent, Polling, UsesSeen, Onward, Blank
  <2>. QED  BY <1>2, <2>3, <2>4 DEF ReleaseThen, Fine
<1>. QED  BY <1>1, <1>2

-----------------------------------------------------------------------------
(* Where recovery returns to. *)

Outcomes == {"released", "finalized", "kept", "held", "failed"}

(* A local state recovery may return from: the record it judged is a good  *)
(* one, whatever the counters and the event found say.                     *)
Judging(r, s) ==
  s \in Local /\ s.at \in CellsOf(r) /\ s.seen \in GoodRecord

(* What step 6 has acquired are cells. *)
LEMMA AcquiredCells ==
  ASSUME NEW r \in Request
  PROVE  Acquired(r) \in SUBSET Cell
  BY CellFacts DEF Acquired

(* The outcome of recover_cell at step 6 (_on_held). *)
LEMMA ResumeClaimFine ==
  ASSUME NEW r \in Request, NEW s, Judging(r, s), NEW action \in Outcomes
  PROVE  Fine(r, ResumeClaim(r, s, action))
<1>. DEFINE release(k) == ReleaseThen(r, s, Acquired(r), k)
            retry == [s EXCEPT !.pc = "claim", !.retried = TRUE, !.seen = None,
                               !.cas = 1, !.found = None, !.todo = {}]
<1>1. \A k \in {"unavailable", "unconfirmed", "booked", "taken"} : Fine(r, release(k))
  BY AcquiredCells, ReleaseThenFine DEF Judging, Answers
<1>2. retry \in Local
  <2>1. 1 \in 1..(MaxCas + 1)
    BY CasAssumption
  <2>2. s \in Local
    BY DEF Judging
  <2>. QED  BY <2>1, <2>2 DEF Local, Waits
<1>3. Coherent(r, retry)
  BY CasAssumption DEF Judging, Local, Coherent, Polling, UsesSeen
<1>4. Fine(r, retry)
  BY <1>2, <1>3 DEF Fine
<1>. DEFINE answer == IF Ours(r, s.seen)
                      THEN IF action = "failed" THEN "unconfirmed" ELSE "booked"
                      ELSE IF action = "failed" THEN "unavailable" ELSE "taken"
<1>5. Fine(r, release(answer))
  BY <1>1
<1>6. ResumeClaim(r, s, action) =
        IF action = "released" \/ (s.cas > 1 /\ (Ours(r, s.seen) \/ action # "failed"))
        THEN retry ELSE release(answer)
  BY DEF ResumeClaim
<1>. HIDE DEF release, retry, answer
<1>. QED  BY <1>4, <1>5, <1>6

(* The outcome of recover_cell at step 2. *)
LEMMA ResumeReplayFine ==
  ASSUME NEW r \in Request, NEW s, Judging(r, s), NEW action \in Outcomes
  PROVE  Fine(r, ResumeReplay(r, s, action))
<1>. DEFINE t == [s EXCEPT !.cache[s.found] =
                    IF events[s.found] = "moved" THEN "moved" ELSE "live"]
<1>1. t \in Local
  BY DEF Judging, Local, EventStatus
<1>2. Fine(r, Reread(r, t)) /\ Fine(r, Reread(r, s))
  BY <1>1, RereadFine DEF Judging
<1>3. Fine(r, Done(r, "unconfirmed"))
  BY DoneFine DEF Answers
<1>4. ResumeReplay(r, s, action) \in {Done(r, "unconfirmed"), Reread(r, t), Reread(r, s)}
  BY DEF ResumeReplay
<1>. HIDE DEF t
<1>. QED  BY <1>2, <1>3, <1>4

(* The outcome of recover_cell, whoever called it. *)
LEMMA ResumeFine ==
  ASSUME NEW r \in Request, NEW s, Judging(r, s), NEW action \in Outcomes
  PROVE  Fine(r, Resume(r, s, action))
  BY ResumeClaimFine, ResumeReplayFine DEF Resume

-----------------------------------------------------------------------------
(* Steps: what a step of one request must show to keep the invariant. *)

(* A step to a good local state keeps every request's. *)
LEMMA GotoKeeps ==
  ASSUME NEW r \in Request, NEW t, ReqInv, Fine(r, t), Goto(r, t)
  PROVE  ReqInv'
<1>1. req' \in [Request -> Local]
  BY DEF ReqInv, Fine, Goto
<1>2. \A q \in Request : Coherent(q, req'[q])
  BY DEF ReqInv, Fine, Goto
<1>. QED  BY <1>1, <1>2 DEF ReqInv, Coherent, Polling, Ours, CellsOf, Carrying, Creator, GoodRecord

(* A write of a good record to one of its own cells. *)
LEMMA WriteKeeps ==
  ASSUME NEW c \in Cell, NEW v \in GoodRecord \cup {None}, ClaimInv, Write(c, v),
         v # None => c \in CellsOf(v.owner)
  PROVE  ClaimInv'
  BY DEF ClaimInv, Write

(* try_claim writes the pending record of the claimant. *)
LEMMA TryClaimKeeps ==
  ASSUME NEW r \in Request, NEW c \in CellsOf(r), ClaimInv, ReqInv, TryClaim(c, MyRecord(r))
  PROVE  ClaimInv'
<1>1. req[r].round \in 1..MaxRounds
  BY DEF ReqInv, Local
<1>2. MyRecord(r) \in GoodRecord /\ MyRecord(r).owner = r
  BY <1>1, PendingGood DEF MyRecord
<1>. QED  BY <1>2, WriteKeeps, CellFacts DEF TryClaim

(* A compare-and-swap keeps the owner of a cell: the new record is the old *)
(* one finalized with an event of the same booking.                        *)
LEMMA FinalizeKeeps ==
  ASSUME NEW c \in Cell, NEW rec \in GoodRecord, ClaimInv,
         NEW e \in Carrying(FpOf[rec.owner]), Replace(c, rec, BookedAs(rec, e))
  PROVE  ClaimInv'
<1>1. claims[c] = rec /\ Write(c, BookedAs(rec, e))
  BY DEF Replace
<1>2. c \in CellsOf(rec.owner)
  BY <1>1, GoodRecordFacts DEF ClaimInv
<1>3. BookedAs(rec, e) \in GoodRecord /\ BookedAs(rec, e).owner = rec.owner
  BY BookedGood
<1>. QED  BY <1>1, <1>2, <1>3, WriteKeeps

(* release leaves an empty cell. *)
LEMMA ReleaseKeeps ==
  ASSUME NEW c \in Cell, NEW old, ClaimInv, Release(c, old)
  PROVE  ClaimInv'
<1>1. Write(c, None)
  BY DEF Release
<1>. QED  BY <1>1, WriteKeeps

(* A step that only moves the request on. *)
LEMMA QuietStep ==
  ASSUME NEW r \in Request, NEW t, BookingInv, Fine(r, t), Goto(r, t),
         StoreAndCalendarUnchanged
  PROVE  BookingInv'
<1>1. ReqInv'
  BY GotoKeeps DEF BookingInv
<1>2. ClaimInv' /\ CalendarTypeOK'
  BY DEF BookingInv, StoreAndCalendarUnchanged, claimVars, ClaimInv, CalendarTypeOK
<1>. QED  BY <1>1, <1>2 DEF BookingInv

(* A step that moves the request on and writes a claim. *)
LEMMA ClaimStep ==
  ASSUME NEW r \in Request, NEW t, BookingInv, Fine(r, t), Goto(r, t),
         ClaimInv', UNCHANGED events
  PROVE  BookingInv'
<1>1. ReqInv'
  BY GotoKeeps DEF BookingInv
<1>2. CalendarTypeOK'
  BY DEF BookingInv, CalendarTypeOK
<1>. QED  BY <1>1, <1>2 DEF BookingInv

(* A step that answers. *)
LEMMA AnswerStep ==
  ASSUME NEW r \in Request, NEW a \in Answers, BookingInv, Answer(r, a),
         StoreAndCalendarUnchanged
  PROVE  BookingInv'
  BY DoneFine, QuietStep DEF Answer

(* What holds of the record in a cell. *)
LEMMA HeldFacts ==
  ASSUME ClaimInv, NEW c \in Cell
  PROVE  claims[c] \in GoodRecord \cup {None}
  BY DEF ClaimInv

(* What the invariant says of one request. *)
LEMMA LocalFine ==
  ASSUME BookingInv, NEW r \in Request
  PROVE  Fine(r, req[r]) /\ req[r] \in Local /\ Coherent(r, req[r])
  BY DEF BookingInv, ReqInv, Fine

(* A good local state stays one when it moves on to another await with a   *)
(* record just read from a claim.                                          *)
LEMMA MetFine ==
  ASSUME NEW r \in Request, NEW s, Fine(r, s), NEW held \in GoodRecord,
         NEW loc \in {"replay", "recover", "poll"}, loc = "poll" => Ours(r, held),
         NEW caller \in {"step2", "step6"}, NEW b \in BOOLEAN
  PROVE  /\ Fine(r, [s EXCEPT !.pc = loc, !.seen = held])
         /\ Fine(r, [s EXCEPT !.pc = loc, !.seen = held, !.caller = caller])
         /\ Fine(r, [s EXCEPT !.pc = loc, !.seen = held, !.caller = caller, !.recOnce = b])
         /\ Fine(r, [s EXCEPT !.pc = loc, !.seen = held, !.caller = caller, !.seenOwn = b])
<1>1. loc \in Waits /\ held \in Record
  BY GoodRecordFacts DEF Waits
<1>2. /\ [s EXCEPT !.pc = loc, !.seen = held] \in Local
      /\ [s EXCEPT !.pc = loc, !.seen = held, !.caller = caller] \in Local
      /\ [s EXCEPT !.pc = loc, !.seen = held, !.caller = caller, !.recOnce = b] \in Local
      /\ [s EXCEPT !.pc = loc, !.seen = held, !.caller = caller, !.seenOwn = b] \in Local
  BY <1>1 DEF Fine, Local
<1>3. /\ Coherent(r, [s EXCEPT !.pc = loc, !.seen = held])
      /\ Coherent(r, [s EXCEPT !.pc = loc, !.seen = held, !.caller = caller])
      /\ Coherent(r, [s EXCEPT !.pc = loc, !.seen = held, !.caller = caller, !.recOnce = b])
      /\ Coherent(r, [s EXCEPT !.pc = loc, !.seen = held, !.caller = caller, !.seenOwn = b])
  BY <1>1, GoodRecordFacts DEF Fine, Local, Coherent, Polling, UsesSeen
<1>. QED  BY <1>2, <1>3 DEF Fine

-----------------------------------------------------------------------------
(* Steps 1 to 5. *)

(* Arrive (step 1) keeps the invariant. *)
LEMMA ArriveKeeps ==
  ASSUME NEW r \in Request, BookingInv, Arrive(r) PROVE BookingInv'
<1>1. CASE Goto(r, Blank(r, "read", "none"))
  <2>1. Fine(r, Blank(r, "read", "none"))
    BY BlankFine DEF Waits, Continuations, UsesSeen
  <2>. QED  BY <1>1, <2>1, QuietStep DEF Arrive
<1>2. CASE Answer(r, "refused") \/ Answer(r, "unavailable")
  BY <1>2, AnswerStep DEF Arrive, Answers
<1>. QED  BY <1>1, <1>2 DEF Arrive

(* ReadFirst (the read of step 2) keeps the invariant. *)
LEMMA ReadFirstKeeps ==
  ASSUME NEW r \in Request, BookingInv, ReadFirst(r) PROVE BookingInv'
<1>. DEFINE s == req[r]
            held == claims[First(r)]
<1>1. Fine(r, s) /\ s \in Local /\ StoreAndCalendarUnchanged
  BY LocalFine DEF ReadFirst
<1>2. Ours(r, held) => held \in GoodRecord
  BY CellFacts, HeldFacts DEF BookingInv, Ours
<1>3. CASE Answer(r, IF s.seenOwn THEN "unconfirmed" ELSE "unavailable")
  BY <1>1, <1>3, AnswerStep DEF Answers
<1>4. CASE Goto(r, Onward(r, s, "find"))
  <2>1. Fine(r, Onward(r, s, "find"))
    BY <1>1, OnwardFine DEF Waits, UsesSeen
  <2>. QED  BY <1>1, <1>4, <2>1, QuietStep
<1>5. ASSUME Ours(r, held), NEW loc \in {"replay", "poll"},
             Goto(r, [[s EXCEPT !.seen = held, !.caller = "step2"] EXCEPT !.pc = loc])
      PROVE  BookingInv'
  <2>1. Fine(r, [s EXCEPT !.pc = loc, !.seen = held, !.caller = "step2"])
    BY <1>1, <1>2, <1>5, MetFine
  <2>2. [[s EXCEPT !.seen = held, !.caller = "step2"] EXCEPT !.pc = loc]
          = [s EXCEPT !.pc = loc, !.seen = held, !.caller = "step2"]
    BY <1>1 DEF Local
  <2>. QED  BY <1>1, <1>5, <2>1, <2>2, QuietStep
<1>6. ASSUME Ours(r, held),
             Goto(r, [[s EXCEPT !.seen = held, !.caller = "step2"]
                        EXCEPT !.pc = "recover", !.recOnce = TRUE])
      PROVE  BookingInv'
  <2>1. Fine(r, [s EXCEPT !.pc = "recover", !.seen = held, !.caller = "step2", !.recOnce = TRUE])
    BY <1>1, <1>2, <1>6, MetFine
  <2>2. [[s EXCEPT !.seen = held, !.caller = "step2"] EXCEPT !.pc = "recover", !.recOnce = TRUE]
          = [s EXCEPT !.pc = "recover", !.seen = held, !.caller = "step2", !.recOnce = TRUE]
    BY <1>1 DEF Local
  <2>. QED  BY <1>1, <1>6, <2>1, <2>2, QuietStep
<1>7. CASE Goto(r, Done(r, "unconfirmed"))
  BY <1>1, <1>7, AnswerStep DEF Answer, Answers
<1>. QED  BY <1>3, <1>4, <1>5, <1>6, <1>7 DEF ReadFirst

(* The record last read, where an await is about to use it. *)
LEMMA SeenCells ==
  ASSUME NEW r \in Request, BookingInv, req[r].pc \in UsesSeen
  PROVE  /\ req[r].seen \in GoodRecord
         /\ req[r].seen.owner \in Request
         /\ CellsOfSeen(req[r]) \in SUBSET Cell
<1>1. req[r].seen \in GoodRecord
  BY LocalFine DEF Coherent
<1>2. req[r].seen.owner \in Request
  BY <1>1, GoodRecordFacts
<1>. QED  BY <1>1, <1>2, CellFacts DEF CellsOfSeen

(* Replay (_replay_booked) keeps the invariant. *)
LEMMA ReplayKeeps ==
  ASSUME NEW r \in Request, BookingInv, Replay(r) PROVE BookingInv'
<1>. DEFINE s == req[r]
<1>1. Fine(r, s) /\ s \in Local /\ s.at \in CellsOf(r) /\ StoreAndCalendarUnchanged
  BY LocalFine DEF Replay, Coherent
<1>2. CASE Answer(r, "unconfirmed") \/ Answer(r, "booked")
  BY <1>1, <1>2, AnswerStep DEF Answers
<1>3. CASE Goto(r, ReleaseThen(r, s, CellsOfSeen(s), "cancelled"))
  <2>1. CellsOfSeen(s) \in SUBSET Cell /\ s.seen \in GoodRecord
    BY SeenCells DEF Replay, UsesSeen
  <2>2. Fine(r, ReleaseThen(r, s, CellsOfSeen(s), "cancelled"))
    BY <1>1, <2>1, ReleaseThenFine DEF Answers
  <2>. QED  BY <1>1, <1>3, <2>2, QuietStep
<1>. QED  BY <1>2, <1>3 DEF Replay

(* Poll (a read of _poll_own_pending) keeps the invariant. *)
LEMMA PollKeeps ==
  ASSUME NEW r \in Request, BookingInv, Poll(r) PROVE BookingInv'
<1>. DEFINE s == req[r]
            held == claims[s.at]
            back == IF s.caller = "step2" THEN Reread(r, s) ELSE Again(r, s)
<1>1. /\ Fine(r, s) /\ s \in Local /\ s.at \in Cell
      /\ StoreAndCalendarUnchanged /\ s.pc = "poll"
  BY LocalFine DEF Poll, Local
<1>2. Ours(r, held) => held \in GoodRecord
  BY <1>1, HeldFacts DEF BookingInv, Ours
<1>3. Fine(r, Reread(r, s)) /\ Fine(r, Again(r, s)) /\ Fine(r, Onward(r, s, "find"))
  BY <1>1, RereadFine, AgainFine, OnwardFine DEF Waits, UsesSeen
<1>4. CASE Goto(r, [s EXCEPT !.pc = "pollLookup"])
  <2>1. [s EXCEPT !.pc = "pollLookup"] \in Local
    BY <1>1 DEF Local, Waits
  <2>2. Coherent(r, [s EXCEPT !.pc = "pollLookup"])
    BY <1>1 DEF Fine, Local, Coherent, Polling, UsesSeen
  <2>. QED  BY <1>1, <1>4, <2>1, <2>2, QuietStep DEF Fine
<1>5. CASE Answer(r, "unconfirmed")
  BY <1>1, <1>5, AnswerStep DEF Answers
<1>6. CASE Goto(r, IF s.caller = "step2" THEN Onward(r, s, "find") ELSE Again(r, s))
  BY <1>1, <1>3, <1>6, QuietStep
<1>7. CASE Ours(r, held) /\ Goto(r, [s EXCEPT !.pc = "replay", !.seen = held])
  BY <1>1, <1>2, <1>7, MetFine, QuietStep
<1>8. CASE Goto(r, back)
  BY <1>1, <1>3, <1>8, QuietStep
<1>9. CASE Ours(r, held) /\ Goto(r, [s EXCEPT !.seen = held])
  <2>1. Fine(r, [s EXCEPT !.pc = "poll", !.seen = held])
    BY <1>1, <1>2, <1>9, MetFine
  <2>2. [s EXCEPT !.pc = "poll", !.seen = held] = [s EXCEPT !.seen = held]
    BY <1>1 DEF Local
  <2>. QED  BY <1>1, <1>9, <2>1, <2>2, QuietStep
<1>. QED  BY <1>4, <1>5, <1>6, <1>7, <1>8, <1>9 DEF Poll

(* Every lookup drops the events of other fingerprints. *)
LEMMA LookupsCarry ==
  ASSUME NEW f, NEW b, NEW hits \in Lookups(f, b)
  PROVE  hits \subseteq Carrying(f) /\ hits \subseteq Event
  BY DEF Lookups, Carrying

(* PollLookup (the SF-7 lookup) keeps the invariant. *)
LEMMA PollLookupKeeps ==
  ASSUME NEW r \in Request, BookingInv, PollLookup(r) PROVE BookingInv'
<1>. DEFINE s == req[r]
<1>1. /\ Fine(r, s) /\ s \in Local /\ s.pc = "pollLookup" /\ StoreAndCalendarUnchanged
      /\ Ours(r, s.seen)
  BY LocalFine DEF PollLookup, Coherent, Polling
<1>2. CellsOfSeen(s) \in SUBSET Cell /\ s.seen \in GoodRecord
  BY <1>1, SeenCells DEF UsesSeen
<1>3. ASSUME NEW hits \in Lookups(FpOf[r], BindingOf[s.seen.owner]), NEW e \in hits,
             Goto(r, [s EXCEPT !.pc = "finalize", !.found = e, !.todo = CellsOfSeen(s)])
      PROVE  BookingInv'
  <2>. DEFINE t == [s EXCEPT !.pc = "finalize", !.found = e, !.todo = CellsOfSeen(s)]
  <2>1. e \in Carrying(FpOf[r]) /\ e \in Event
    BY LookupsCarry
  <2>2. e \in Carrying(FpOf[s.seen.owner]) /\ e # None
    BY <1>1, <2>1, NoneAssumption DEF Ours
  <2>3. t \in Local
    BY <1>1, <1>2, <2>1 DEF Local, Waits
  <2>4. Coherent(r, t)
    BY <1>1, <1>2, <2>2, GoodRecordFacts DEF Fine, Local, Coherent, Polling, UsesSeen
  <2>. QED  BY <1>1, <1>3, <2>3, <2>4, QuietStep DEF Fine
<1>4. CASE Answer(r, "unconfirmed")
  BY <1>1, <1>4, AnswerStep DEF Answers
<1>. QED  BY <1>3, <1>4 DEF PollLookup

(* FindBookings (steps 3 and 4) keeps the invariant. *)
LEMMA FindBookingsKeeps ==
  ASSUME NEW r \in Request, BookingInv, FindBookings(r) PROVE BookingInv'
<1>. DEFINE s == req[r]
<1>1. s \in Local /\ StoreAndCalendarUnchanged
  BY LocalFine DEF FindBookings
<1>2. CASE \E a \in Answers : Answer(r, a)
  BY <1>1, <1>2, AnswerStep
<1>3. CASE Goto(r, Onward(r, s, "busy"))
  <2>1. Fine(r, Onward(r, s, "busy"))
    BY <1>1, OnwardFine DEF Waits, UsesSeen
  <2>. QED  BY <1>1, <1>3, <2>1, QuietStep
<1>. QED  BY <1>2, <1>3 DEF FindBookings, Answers

(* Busy (step 5) keeps the invariant. *)
LEMMA BusyKeeps ==
  ASSUME NEW r \in Request, BookingInv, Busy(r) PROVE BookingInv'
<1>. DEFINE s == req[r]
<1>1. Fine(r, s) /\ s \in Local /\ s.pc = "busy" /\ StoreAndCalendarUnchanged
  BY LocalFine DEF Busy
<1>2. CASE Answer(r, "unavailable")
  BY <1>1, <1>2, AnswerStep DEF Answers
<1>3. ASSUME NEW loc \in {"busyRead", "claim"}, Goto(r, [s EXCEPT !.pc = loc])
      PROVE  BookingInv'
  <2>1. [s EXCEPT !.pc = loc] \in Local
    BY <1>1 DEF Local, Waits
  <2>2. Coherent(r, [s EXCEPT !.pc = loc])
    BY <1>1 DEF Fine, Local, Coherent, Polling, UsesSeen
  <2>. QED  BY <1>1, <1>3, <2>1, <2>2, QuietStep DEF Fine
<1>. QED  BY <1>2, <1>3 DEF Busy

(* BusyRead (the re-check of step 5) keeps the invariant. *)
LEMMA BusyReadKeeps ==
  ASSUME NEW r \in Request, BookingInv, BusyRead(r) PROVE BookingInv'
<1>1. req[r] \in Local /\ StoreAndCalendarUnchanged
  BY LocalFine DEF BusyRead
<1>2. CASE Answer(r, "unconfirmed") \/ Answer(r, "taken")
  BY <1>1, <1>2, AnswerStep DEF Answers
<1>3. CASE Goto(r, Again(r, req[r]))
  BY <1>1, <1>3, AgainFine, QuietStep
<1>. QED  BY <1>2, <1>3 DEF BusyRead

-----------------------------------------------------------------------------
(* Step 6. *)

(* ClaimCell (try_claim at step 6) keeps the invariant. *)
LEMMA ClaimCellKeeps ==
  ASSUME NEW r \in Request, BookingInv, ClaimCell(r) PROVE BookingInv'
<1>. DEFINE s == req[r]
            c == s.at
            onward == [s EXCEPT !.at = c + 1, !.retried = FALSE]
            create == [s EXCEPT !.pc = "create", !.retried = FALSE]
<1>1. /\ Fine(r, s) /\ s \in Local /\ c \in CellsOf(r) /\ c \in Cell /\ s.pc = "claim"
      /\ s.seen \in GoodRecord \cup {None} /\ UNCHANGED events
  BY LocalFine DEF ClaimCell, Coherent, Local
<1>2. TryClaim(c, MyRecord(r)) => ClaimInv'
  BY <1>1, TryClaimKeeps DEF BookingInv
<1>3. UNCHANGED claimVars => ClaimInv'
  BY DEF BookingInv, ClaimInv, claimVars
<1>4. CASE TryClaim(c, MyRecord(r)) /\ c + 1 \in CellsOf(r) /\ Goto(r, onward)
  <2>1. c + 1 \in Cell
    BY <1>4, CellFacts
  <2>2. onward \in Local
    BY <1>1, <2>1 DEF Local
  <2>3. Coherent(r, onward)
    BY <1>1, <1>4 DEF Fine, Local, Coherent, Polling, UsesSeen
  <2>. QED  BY <1>1, <1>2, <1>4, <2>2, <2>3, ClaimStep DEF Fine
<1>5. CASE TryClaim(c, MyRecord(r)) /\ Goto(r, create)
  <2>1. create \in Local
    BY <1>1 DEF Local, Waits
  <2>2. Coherent(r, create)
    BY <1>1 DEF Fine, Local, Coherent, Polling, UsesSeen
  <2>. QED  BY <1>1, <1>2, <1>5, <2>1, <2>2, ClaimStep DEF Fine
<1>6. CASE Goto(r, ReleaseThen(r, s, Acquired(r), "unavailable"))
  <2>1. Fine(r, ReleaseThen(r, s, Acquired(r), "unavailable"))
    BY <1>1, AcquiredCells, ReleaseThenFine DEF Answers
  <2>. QED  BY <1>1, <1>2, <1>3, <1>6, <2>1, ClaimStep DEF ClaimCell
<1>. QED  BY <1>4, <1>5, <1>6 DEF ClaimCell

(* MeetHeld (_on_held) keeps the invariant. *)
LEMMA MeetHeldKeeps ==
  ASSUME NEW r \in Request, BookingInv, MeetHeld(r) PROVE BookingInv'
<1>. DEFINE s == req[r]
            held == claims[s.at]
            met == [s EXCEPT !.seen = held, !.caller = "step6"]
            polling == [met EXCEPT !.seenOwn = TRUE]
<1>1. /\ Fine(r, s) /\ s \in Local /\ s.at \in CellsOf(r) /\ s.at \in Cell
      /\ s.pc = "claim" /\ s.seen \in GoodRecord \cup {None} /\ StoreAndCalendarUnchanged
  BY LocalFine DEF MeetHeld, Coherent, Local
<1>2. held \in GoodRecord /\ held \in Record /\ held # None
  BY <1>1, HeldFacts, GoodRecordFacts DEF MeetHeld, BookingInv
<1>3. CASE Goto(r, Again(r, s))
  BY <1>1, <1>3, AgainFine, QuietStep
<1>4. CASE \E k \in {"taken", "again"} : Goto(r, ReleaseThen(r, s, Acquired(r), k))
  BY <1>1, <1>4, AcquiredCells, ReleaseThenFine, QuietStep DEF Answers
<1>5. CASE Ours(r, held) /\ Goto(r, ReleaseThen(r, polling, Acquired(r), "poll"))
  <2>1. polling \in Local
    BY <1>1, <1>2 DEF Local
  <2>2. Coherent(r, polling)
    BY <1>1, <1>2 DEF Fine, Local, Coherent, Polling, UsesSeen
  <2>3. polling.seen = held /\ polling.at = s.at
    BY <1>1 DEF Local
  <2>. HIDE DEF polling
  <2>4. Fine(r, ReleaseThen(r, polling, Acquired(r), "poll"))
    BY <1>1, <1>2, <1>5, <2>1, <2>2, <2>3, AcquiredCells, ReleaseThenFine DEF Fine
  <2>. QED  BY <1>1, <1>5, <2>4, QuietStep
<1>6. CASE Goto(r, [met EXCEPT !.pc = "recover"])
  <2>1. Fine(r, [s EXCEPT !.pc = "recover", !.seen = held, !.caller = "step6"])
    BY <1>1, <1>2, MetFine
  <2>2. [met EXCEPT !.pc = "recover"]
          = [s EXCEPT !.pc = "recover", !.seen = held, !.caller = "step6"]
    BY <1>1 DEF Local
  <2>. QED  BY <1>1, <1>6, <2>1, <2>2, QuietStep
<1>. QED  BY <1>3, <1>4, <1>5, <1>6 DEF MeetHeld

-----------------------------------------------------------------------------
(* Recovery. *)

(* A recovery starts from a good local state. *)
LEMMA JudgingFine ==
  ASSUME NEW r \in Request, BookingInv, req[r].pc \in UsesSeen
  PROVE  Judging(r, req[r])
  BY LocalFine, SeenCells DEF Judging, Coherent

(* RecoverPending (the lookup of recover_cell) keeps the invariant. *)
LEMMA RecoverPendingKeeps ==
  ASSUME NEW r \in Request, BookingInv, RecoverPending(r) PROVE BookingInv'
<1>. DEFINE s == req[r]
<1>1. /\ Fine(r, s) /\ s \in Local /\ s.pc = "recover" /\ StoreAndCalendarUnchanged
      /\ Judging(r, s)
  BY LocalFine, JudgingFine DEF RecoverPending, StoreAndCalendarUnchanged, UsesSeen
<1>2. ASSUME NEW e, e = None \/ e \in Carrying(FpOf[s.seen.owner]),
             Goto(r, [s EXCEPT !.pc = "recWrite", !.found = e])
      PROVE  BookingInv'
  <2>1. [s EXCEPT !.pc = "recWrite", !.found = e] \in Local
    BY <1>1, <1>2 DEF Local, Waits, Carrying
  <2>2. Coherent(r, [s EXCEPT !.pc = "recWrite", !.found = e])
    BY <1>1, <1>2 DEF Fine, Local, Coherent, Polling, UsesSeen
  <2>. QED  BY <1>1, <1>2, <2>1, <2>2, QuietStep DEF Fine
<1>3. CASE Goto(r, Resume(r, s, "failed"))
  BY <1>1, <1>3, ResumeFine, QuietStep DEF Outcomes
<1>. QED  BY <1>2, <1>3, LookupsCarry DEF RecoverPending

(* RecoverBooked (the verification of recover_cell) keeps the invariant. *)
LEMMA RecoverBookedKeeps ==
  ASSUME NEW r \in Request, BookingInv, RecoverBooked(r) PROVE BookingInv'
<1>. DEFINE s == req[r]
            e == s.seen.event
            status == IF s.cache[e] = "none" THEN events[e] ELSE s.cache[e]
            known == [s EXCEPT !.cache[e] = status]
<1>1. /\ Fine(r, s) /\ s \in Local /\ s.pc = "recover" /\ StoreAndCalendarUnchanged
      /\ Judging(r, s) /\ s.seen \in GoodRecord /\ s.seen.state = "booked"
  BY LocalFine, JudgingFine DEF RecoverBooked, StoreAndCalendarUnchanged, UsesSeen, Judging
<1>2. e \in Event
  BY <1>1 DEF GoodRecord, Carrying
<1>3. status \in EventStatus
  BY <1>1, <1>2 DEF Local, BookingInv, CalendarTypeOK
<1>4. known \in Local /\ known.at = s.at /\ known.seen = s.seen /\ known.cas = s.cas
  BY <1>1, <1>2, <1>3 DEF Local
<1>5. Judging(r, known)
  BY <1>1, <1>4 DEF Judging
<1>. HIDE DEF known, status
<1>6. CASE Goto(r, Resume(r, known, "kept"))
  BY <1>1, <1>5, <1>6, ResumeFine, QuietStep DEF Outcomes
<1>7. CASE Goto(r, [known EXCEPT !.pc = "recWrite", !.found = None])
  <2>1. [known EXCEPT !.pc = "recWrite", !.found = None] \in Local
    BY <1>4 DEF Local, Waits
  <2>2. Coherent(r, [known EXCEPT !.pc = "recWrite", !.found = None])
    BY <1>1, <1>4, GoodRecordFacts DEF Fine, Local, Coherent, Polling, UsesSeen
  <2>. QED  BY <1>1, <1>7, <2>1, <2>2, QuietStep DEF Fine
<1>8. CASE Goto(r, Resume(r, s, "failed"))
  BY <1>1, <1>8, ResumeFine, QuietStep DEF Outcomes
<1>. QED  BY <1>6, <1>7, <1>8 DEF RecoverBooked, known, status

(* The recoverer's verdict, written over the record it judged. *)
LEMMA VerdictKeeps ==
  ASSUME NEW r \in Request, BookingInv, NEW c \in Cell,
         req[r].pc \in {"recWrite", "siblings"}, claims[c] = req[r].seen,
         Write(c, Verdict(req[r]))
  PROVE  ClaimInv'
<1>. DEFINE s == req[r]
<1>1. /\ s.seen \in GoodRecord
      /\ s.found # None => s.found \in Carrying(FpOf[s.seen.owner])
  BY LocalFine, SeenCells DEF Coherent, UsesSeen
<1>2. CASE s.found = None
  BY <1>2, WriteKeeps DEF Verdict, BookingInv
<1>3. CASE s.found # None
  <2>1. Replace(c, s.seen, BookedAs(s.seen, s.found))
    BY <1>3 DEF Verdict, Replace
  <2>. QED  BY <1>1, <1>3, <2>1, FinalizeKeeps DEF BookingInv
<1>. QED  BY <1>2, <1>3

(* RecoverWrite (the compare-and-swap of recover_cell) keeps the invariant. *)
LEMMA RecoverWriteKeeps ==
  ASSUME NEW r \in Request, BookingInv, RecoverWrite(r) PROVE BookingInv'
<1>. DEFINE s == req[r]
            others == IF s.seen.state = "pending" THEN CellsOfSeen(s) \ {s.at} ELSE {}
            swap == IF s.found = None THEN Release(s.at, s.seen)
                    ELSE Replace(s.at, s.seen, Verdict(s))
            done == IF s.found = None THEN "released" ELSE "finalized"
<1>1. /\ Fine(r, s) /\ s \in Local /\ s.pc = "recWrite" /\ UNCHANGED events
      /\ Judging(r, s) /\ s.at \in Cell
  BY LocalFine, JudgingFine DEF RecoverWrite, UsesSeen, Local
<1>2. swap => ClaimInv'
  <2>1. CASE s.found = None
    BY <1>1, <2>1, ReleaseKeeps DEF BookingInv
  <2>2. CASE s.found # None
    BY <1>1, <2>2, VerdictKeeps DEF Replace
  <2>. QED  BY <2>1, <2>2
<1>3. UNCHANGED claimVars => ClaimInv'
  BY DEF BookingInv, ClaimInv, claimVars
<1>4. others \in SUBSET Cell
  BY <1>1, SeenCells DEF UsesSeen
<1>5. CASE Goto(r, Resume(r, s, done)) \/ Goto(r, Resume(r, s, "failed"))
  <2>1. ClaimInv'
    BY <1>2, <1>3 DEF RecoverWrite
  <2>2. done \in Outcomes /\ "failed" \in Outcomes
    BY DEF Outcomes
  <2>. HIDE DEF done
  <2>. QED  BY <1>1, <1>5, <2>1, <2>2, ResumeFine, ClaimStep
<1>6. ASSUME NEW loc \in {"siblings", "recRead"}, NEW cells \in {others, s.todo},
             Goto(r, [s EXCEPT !.pc = loc, !.todo = cells])
      PROVE  BookingInv'
  <2>1. ClaimInv'
    BY <1>2, <1>3 DEF RecoverWrite
  <2>2. [s EXCEPT !.pc = loc, !.todo = cells] \in Local
    BY <1>1, <1>4 DEF Local, Waits
  <2>3. Coherent(r, [s EXCEPT !.pc = loc, !.todo = cells])
    BY <1>1 DEF Fine, Local, Coherent, Polling, UsesSeen
  <2>. QED  BY <1>1, <1>6, <2>1, <2>2, <2>3, ClaimStep DEF Fine
<1>7. [s EXCEPT !.pc = "recRead"] = [s EXCEPT !.pc = "recRead", !.todo = s.todo]
  BY <1>1 DEF Local
<1>. QED  BY <1>5, <1>6, <1>7 DEF RecoverWrite

(* RecoverRead (the re-read of recover_cell) keeps the invariant. *)
LEMMA RecoverReadKeeps ==
  ASSUME NEW r \in Request, BookingInv, RecoverRead(r) PROVE BookingInv'
<1>. DEFINE s == req[r]
            held == claims[s.at]
            lost == [s EXCEPT !.cas = @ + 1, !.found = None]
            again == [lost EXCEPT !.seen = held]
<1>1. /\ Fine(r, s) /\ s \in Local /\ s.pc = "recRead" /\ StoreAndCalendarUnchanged
      /\ Judging(r, s) /\ s.at \in Cell
  BY LocalFine, JudgingFine
     DEF RecoverRead, StoreAndCalendarUnchanged, UsesSeen, Local
<1>2. s.cas \in 1..MaxCas
  BY <1>1, CasAssumption DEF Fine, Coherent, Local
<1>3. lost \in Local /\ lost.at = s.at /\ lost.seen = s.seen
  <2>1. s.cas + 1 \in 1..(MaxCas + 1)
    BY <1>2, CasAssumption
  <2>. QED  BY <1>1, <2>1 DEF Local
<1>4. Judging(r, lost)
  BY <1>1, <1>3 DEF Judging
<1>5. CASE Goto(r, Resume(r, lost, "released")) \/ Goto(r, Resume(r, lost, "failed"))
  <2>. HIDE DEF lost
  <2>. QED  BY <1>1, <1>4, <1>5, ResumeFine, QuietStep DEF Outcomes
<1>6. CASE held # None /\ Goto(r, Judge(r, again, s.cas = MaxCas \/ LivePending(s.at)))
  <2>1. held \in GoodRecord /\ held \in Record
    BY <1>1, <1>6, HeldFacts, GoodRecordFacts DEF BookingInv
  <2>2. again \in Local /\ again.at = s.at /\ again.seen = held
    BY <1>3, <2>1 DEF Local
  <2>3. Judging(r, again)
    BY <1>1, <2>1, <2>2 DEF Judging
  <2>4. CASE s.cas = MaxCas \/ LivePending(s.at)
    <3>. HIDE DEF again
    <3>. QED  BY <1>1, <1>6, <2>3, <2>4, ResumeFine, QuietStep DEF Judge, Outcomes
  <2>5. CASE ~(s.cas = MaxCas \/ LivePending(s.at))
    <3>1. [again EXCEPT !.pc = "recover"] \in Local
      BY <2>2 DEF Local, Waits
    <3>2. again.cas = s.cas + 1 /\ s.cas + 1 <= MaxCas
      BY <1>1, <1>2, <2>5, CasAssumption DEF Local
    <3>3. again.found = None
      BY <1>1 DEF Local
    <3>. HIDE DEF again
    <3>4. Coherent(r, [again EXCEPT !.pc = "recover"])
      BY <1>1, <2>1, <2>2, <3>2, <3>3, GoodRecordFacts
         DEF Judging, Local, Coherent, Polling, UsesSeen
    <3>. QED  BY <1>1, <1>6, <2>5, <3>1, <3>4, QuietStep DEF Judge, Fine
  <2>. QED  BY <2>4, <2>5
<1>. QED  BY <1>5, <1>6 DEF RecoverRead

(* RecoverSiblings (a sibling cell of recover_cell) keeps the invariant. *)
LEMMA RecoverSiblingsKeeps ==
  ASSUME NEW r \in Request, BookingInv, RecoverSiblings(r) PROVE BookingInv'
<1>. DEFINE s == req[r]
            rest(c) == [s EXCEPT !.todo = @ \ {c}]
            end == IF s.found = None THEN "released" ELSE "finalized"
<1>1. /\ Fine(r, s) /\ s \in Local /\ s.pc = "siblings" /\ UNCHANGED events
      /\ Judging(r, s) /\ s.todo \in SUBSET Cell
  BY LocalFine, JudgingFine DEF RecoverSiblings, UsesSeen, Local
<1>2. PICK c \in s.todo :
        /\ \/ claims[c] = s.seen /\ c \in stale /\ Write(c, Verdict(s))
           \/ UNCHANGED claimVars
        /\ Goto(r, IF s.todo = {c} THEN Resume(r, rest(c), end) ELSE rest(c))
  BY DEF RecoverSiblings
<1>3. ClaimInv'
  <2>1. CASE UNCHANGED claimVars
    BY <2>1 DEF BookingInv, ClaimInv, claimVars
  <2>2. CASE claims[c] = s.seen /\ Write(c, Verdict(s))
    BY <1>1, <1>2, <2>2, VerdictKeeps
  <2>. QED  BY <1>2, <2>1, <2>2
<1>4. rest(c) \in Local
  BY <1>1, <1>2 DEF Local
<1>5. Judging(r, rest(c)) /\ Coherent(r, rest(c))
  BY <1>1, <1>4 DEF Judging, Fine, Local, Coherent, Polling, UsesSeen
<1>6. end \in Outcomes
  BY DEF Outcomes
<1>. HIDE DEF rest, end
<1>. QED  BY <1>1, <1>2, <1>3, <1>4, <1>5, <1>6, ResumeFine, ClaimStep DEF Fine

-----------------------------------------------------------------------------
(* Steps 7 and 8, and what happens to a request from outside. *)

(* A step that moves the request on and changes the calendar. *)
LEMMA EventStep ==
  ASSUME NEW r \in Request, NEW t, BookingInv, Fine(r, t), Goto(r, t),
         CalendarTypeOK', UNCHANGED claimVars
  PROVE  BookingInv'
<1>1. ReqInv'
  BY GotoKeeps DEF BookingInv
<1>2. ClaimInv'
  BY DEF BookingInv, claimVars, ClaimInv
<1>. QED  BY <1>1, <1>2 DEF BookingInv

(* The events a request creates carry its fingerprint. *)
LEMMA CreateIdFacts ==
  ASSUME NEW r \in Request
  PROVE  CreateId(r) \in Carrying(FpOf[r]) /\ CreateId(r) \in Event
  BY DEF CreateId, Carrying, Creator, Event

(* The record step 6 writes. *)
LEMMA MyRecordGood ==
  ASSUME NEW r \in Request, BookingInv
  PROVE  MyRecord(r) \in GoodRecord /\ MyRecord(r).owner = r
<1>1. req[r].round \in 1..MaxRounds
  BY LocalFine DEF Local
<1>. QED  BY <1>1, PendingGood DEF MyRecord

(* create_event answers with an event of the same booking, its own or, at a *)
(* vendor that recognises request_key, the one it already has.             *)
LEMMA CommitFacts ==
  ASSUME NEW r \in Request, NEW e \in Carrying(FpOf[r]), NEW k \in Event,
         CalendarTypeOK, CommitCreate(e, k)
  PROVE  k \in Carrying(FpOf[r]) /\ CalendarTypeOK'
<1>1. FpOf[Creator(e)] = FpOf[r] /\ e \in Event
  BY DEF Carrying
<1>. QED  BY <1>1 DEF CommitCreate, ActiveFor, CalendarTypeOK, Committed, EventStatus

(* Create (create_event) keeps the invariant. *)
LEMMA CreateKeeps ==
  ASSUME NEW r \in Request, BookingInv, Create(r) PROVE BookingInv'
<1>. DEFINE s == req[r]
            e == CreateId(r)
            looked(k) == [s EXCEPT !.pc = "lookup", !.found = k]
            final(k) == [s EXCEPT !.pc = "finalize", !.found = k,
                                  !.seen = MyRecord(r), !.todo = CellsOf(r)]
            lookup == [s EXCEPT !.pc = "lookup"]
            released == ReleaseThen(r, s, CellsOf(r), "unavailable")
<1>1. /\ Fine(r, s) /\ s \in Local /\ s.pc = "create" /\ UNCHANGED claimVars
      /\ s.at \in CellsOf(r) /\ s.seen \in GoodRecord \cup {None}
  BY LocalFine DEF Create, Coherent
<1>2. CellsOf(r) \in SUBSET Cell
  BY CellFacts
<1>3. Fine(r, lookup)
  <2>1. lookup \in Local
    BY <1>1 DEF Local, Waits
  <2>2. Coherent(r, lookup)
    BY <1>1 DEF Fine, Local, Coherent, Polling, UsesSeen
  <2>. QED  BY <2>1, <2>2 DEF Fine
<1>4. ASSUME NEW k \in Event, CommitCreate(e, k), Goto(r, looked(k)) \/ Goto(r, final(k))
      PROVE  BookingInv'
  <2>1. k \in Carrying(FpOf[r]) /\ CalendarTypeOK'
    BY <1>4, CreateIdFacts, CommitFacts DEF BookingInv
  <2>2. Fine(r, looked(k))
    <3>1. looked(k) \in Local
      BY <1>1 DEF Local, Waits
    <3>2. Coherent(r, looked(k))
      BY <1>1, <2>1 DEF Fine, Local, Coherent, Polling, UsesSeen
    <3>. QED  BY <3>1, <3>2 DEF Fine
  <2>3. Fine(r, final(k))
    <3>1. /\ MyRecord(r) \in GoodRecord /\ MyRecord(r) \in Record
          /\ MyRecord(r) # None /\ MyRecord(r).owner = r /\ k # None
      BY MyRecordGood, GoodRecordFacts, NoneAssumption
    <3>2. final(k) \in Local
      BY <1>1, <1>2, <3>1 DEF Local, Waits
    <3>3. Coherent(r, final(k))
      BY <1>1, <2>1, <3>1 DEF Fine, Local, Coherent, Polling, UsesSeen
    <3>. QED  BY <3>2, <3>3 DEF Fine
  <2>. HIDE DEF looked, final
  <2>. QED  BY <1>1, <1>4, <2>1, <2>2, <2>3, EventStep
<1>5. CASE UNCHANGED events /\ (Goto(r, lookup) \/ Goto(r, released))
  <2>1. Fine(r, released)
    BY <1>1, <1>2, ReleaseThenFine DEF Answers
  <2>. HIDE DEF lookup, released
  <2>. QED  BY <1>1, <1>3, <1>5, <2>1, QuietStep DEF StoreAndCalendarUnchanged
<1>6. CASE SendCreate(e) /\ Goto(r, lookup)
  <2>1. CalendarTypeOK'
    BY <1>6, CreateIdFacts DEF SendCreate, BookingInv, CalendarTypeOK, EventStatus
  <2>. HIDE DEF lookup
  <2>. QED  BY <1>1, <1>3, <1>6, <2>1, EventStep
<1>. QED  BY <1>4, <1>5, <1>6 DEF Create

(* _keep_one: the event kept is one of this booking. *)
LEMMA KeepOneFine ==
  ASSUME NEW r \in Request, BookingInv, NEW keep \in Carrying(FpOf[r]),
         NEW hits \in SUBSET Event
  PROVE  Fine(r, KeepOne(r, req[r], keep, hits))
<1>. DEFINE s == req[r]
<1>1. Fine(r, s) /\ s \in Local
  BY LocalFine
<1>2. keep \in Event /\ keep # None
  BY NoneAssumption DEF Carrying
<1>3. /\ MyRecord(r) \in GoodRecord /\ MyRecord(r) \in Record
      /\ MyRecord(r) # None /\ MyRecord(r).owner = r
  BY MyRecordGood, GoodRecordFacts
<1>4. KeepOne(r, s, keep, hits) \in Local
  BY <1>1, <1>2, <1>3, CellFacts DEF KeepOne, Local, Waits
<1>5. Coherent(r, KeepOne(r, s, keep, hits))
  BY <1>1, <1>2, <1>3 DEF KeepOne, Fine, Local, Coherent, Polling, UsesSeen
<1>. QED  BY <1>4, <1>5 DEF Fine

(* Lookup (the lookup after an uncertain create) keeps the invariant. *)
LEMMA LookupKeeps ==
  ASSUME NEW r \in Request, BookingInv, Lookup(r) PROVE BookingInv'
<1>. DEFINE s == req[r]
<1>1. /\ Fine(r, s) /\ s \in Local /\ s.pc = "lookup" /\ StoreAndCalendarUnchanged
      /\ s.found # None => s.found \in Carrying(FpOf[r])
  BY LocalFine DEF Lookup, Coherent
<1>2. ASSUME NEW keep \in Carrying(FpOf[r]), NEW hits \in SUBSET Event,
             Goto(r, KeepOne(r, s, keep, hits))
      PROVE  BookingInv'
  BY <1>1, <1>2, KeepOneFine, QuietStep
<1>3. CASE Goto(r, Done(r, "unconfirmed"))
  BY <1>1, <1>3, AnswerStep DEF Answer, Answers
<1>4. CASE Goto(r, [s EXCEPT !.pc = "create", !.second = TRUE])
  <2>1. [s EXCEPT !.pc = "create", !.second = TRUE] \in Local
    BY <1>1 DEF Local, Waits
  <2>2. Coherent(r, [s EXCEPT !.pc = "create", !.second = TRUE])
    BY <1>1 DEF Fine, Local, Coherent, Polling, UsesSeen
  <2>. QED  BY <1>1, <1>4, <2>1, <2>2, QuietStep DEF Fine
<1>5. \A hits \in Lookups(FpOf[r], BindingOf[r]) :
        hits \subseteq Carrying(FpOf[r]) /\ hits \in SUBSET Event
  BY LookupsCarry
<1>. QED  BY <1>1, <1>2, <1>3, <1>4, <1>5 DEF Lookup

(* DeleteExtra (the delete of a duplicate) keeps the invariant. *)
LEMMA DeleteExtraKeeps ==
  ASSUME NEW r \in Request, BookingInv, DeleteExtra(r) PROVE BookingInv'
<1>. DEFINE s == req[r]
            t(e) == [s EXCEPT !.extras = @ \ {e},
                              !.pc = IF s.extras = {e} THEN "finalize" ELSE "dedupe"]
<1>1. /\ Fine(r, s) /\ s \in Local /\ s.pc = "dedupe" /\ UNCHANGED claimVars
      /\ s.extras \in SUBSET Event
  BY LocalFine DEF DeleteExtra, Local
<1>2. PICK e \in s.extras : Goto(r, t(e)) /\ (DeleteEvent(e) \/ UNCHANGED events)
  BY DEF DeleteExtra
<1>3. CalendarTypeOK'
  BY <1>1, <1>2 DEF DeleteEvent, BookingInv, CalendarTypeOK, EventStatus
<1>4. t(e) \in Local
  BY <1>1, <1>2 DEF Local, Waits
<1>5. Coherent(r, t(e))
  BY <1>1, <1>2 DEF Fine, Local, Coherent, Polling, UsesSeen
<1>. HIDE DEF t
<1>. QED  BY <1>1, <1>2, <1>3, <1>4, <1>5, EventStep DEF Fine

(* Finalize (step 8, one cell) keeps the invariant. *)
LEMMA FinalizeStepKeeps ==
  ASSUME NEW r \in Request, BookingInv, Finalize(r) PROVE BookingInv'
<1>. DEFINE s == req[r]
            t(c) == [s EXCEPT !.todo = @ \ {c}]
<1>1. /\ Fine(r, s) /\ s \in Local /\ s.pc = "finalize" /\ UNCHANGED events
      /\ s.todo \in SUBSET Cell /\ s.found \in Carrying(FpOf[s.seen.owner])
  BY LocalFine DEF Finalize, Local, Coherent
<1>2. PICK c \in s.todo :
        /\ Replace(c, s.seen, BookedAs(s.seen, s.found)) \/ UNCHANGED claimVars
        /\ Goto(r, IF s.todo = {c} THEN Done(r, "booked") ELSE t(c))
  BY DEF Finalize
<1>3. s.seen \in GoodRecord
  BY <1>1, SeenCells DEF UsesSeen
<1>4. ClaimInv'
  <2>1. CASE Replace(c, s.seen, BookedAs(s.seen, s.found))
    BY <1>1, <1>2, <1>3, <2>1, FinalizeKeeps DEF BookingInv
  <2>2. CASE UNCHANGED claimVars
    BY <2>2 DEF BookingInv, ClaimInv, claimVars
  <2>. QED  BY <1>2, <2>1, <2>2
<1>5. t(c) \in Local
  BY <1>1, <1>2 DEF Local
<1>6. Coherent(r, t(c))
  BY <1>1 DEF Fine, Local, Coherent, Polling, UsesSeen
<1>7. Fine(r, Done(r, "booked"))
  BY DoneFine DEF Answers
<1>. HIDE DEF t
<1>. QED  BY <1>1, <1>2, <1>4, <1>5, <1>6, <1>7, ClaimStep DEF Fine

(* ReleaseCells (release_all, one cell) keeps the invariant. *)
LEMMA ReleaseCellsKeeps ==
  ASSUME NEW r \in Request, BookingInv, ReleaseCells(r) PROVE BookingInv'
<1>. DEFINE s == req[r]
            mine == IF s.next = "cancelled" THEN s.seen ELSE MyRecord(r)
            t(c) == [s EXCEPT !.todo = @ \ {c}]
<1>1. /\ Fine(r, s) /\ s \in Local /\ s.pc = "release" /\ UNCHANGED events
      /\ s.todo \in SUBSET Cell /\ (s.next = "poll" => Ours(r, s.seen))
  BY LocalFine DEF ReleaseCells, Local, Coherent, Polling
<1>2. PICK c \in s.todo :
        /\ (claims[c] = mine /\ Release(c, mine)) \/ UNCHANGED claimVars
        /\ Goto(r, IF s.todo = {c} THEN Follow(r, s, s.next) ELSE t(c))
  BY DEF ReleaseCells
<1>3. ClaimInv'
  <2>1. CASE Release(c, mine)
    BY <1>1, <1>2, <2>1, ReleaseKeeps DEF BookingInv
  <2>2. CASE UNCHANGED claimVars
    BY <2>2 DEF BookingInv, ClaimInv, claimVars
  <2>. QED  BY <1>2, <2>1, <2>2
<1>4. t(c) \in Local
  BY <1>1, <1>2 DEF Local
<1>5. Coherent(r, t(c))
  BY <1>1 DEF Fine, Local, Coherent, Polling, UsesSeen
<1>6. s.next \in Continuations
  BY <1>1 DEF Local
<1>7. Fine(r, Follow(r, s, s.next))
  BY <1>1, <1>6, FollowFine
<1>. HIDE DEF t
<1>. QED  BY <1>1, <1>2, <1>3, <1>4, <1>5, <1>7, ClaimStep DEF Fine

(* Every step of a running request keeps the invariant. *)
LEMMA StepKeeps ==
  ASSUME NEW r \in Request, BookingInv, Step(r) PROVE BookingInv'
  BY ReadFirstKeeps, ReplayKeeps, PollKeeps, PollLookupKeeps, FindBookingsKeeps,
     BusyKeeps, BusyReadKeeps, ClaimCellKeeps, MeetHeldKeeps, RecoverPendingKeeps,
     RecoverBookedKeeps, RecoverWriteKeeps, RecoverReadKeeps, RecoverSiblingsKeeps,
     CreateKeeps, LookupKeeps, DeleteExtraKeeps, FinalizeStepKeeps, ReleaseCellsKeeps
     DEF Step

(* The instance dies. *)
LEMMA CrashKeeps ==
  ASSUME NEW r \in Request, BookingInv, Crash(r) PROVE BookingInv'
<1>1. CASE UNCHANGED events
  BY <1>1, AnswerStep DEF Crash, Answers, StoreAndCalendarUnchanged
<1>2. CASE SendCreate(CreateId(r))
  <2>1. CalendarTypeOK'
    BY <1>2, CreateIdFacts DEF SendCreate, BookingInv, CalendarTypeOK, EventStatus
  <2>. QED  BY <2>1, DoneFine, EventStep DEF Crash, Answer, Answers
<1>. QED  BY <1>1, <1>2 DEF Crash

(* Claims age, creates in flight land or are lost, the host edits. *)
LEMMA OutsideKeeps ==
  ASSUME BookingInv,
         (\E c \in Cell : Age(c)) \/ (\E e \in Event : Vendor(e) \/ Host(e))
  PROVE  BookingInv'
<1>1. ReqInv => (req' = req => ReqInv')
  BY DEF ReqInv, Coherent, Polling, Ours, CellsOf, Carrying, Creator, GoodRecord
<1>2. ASSUME NEW c \in Cell, Age(c) PROVE BookingInv'
  <2>1. ClaimInv'
    BY <1>2 DEF Age, BookingInv, ClaimInv
  <2>. QED  BY <1>1, <1>2, <2>1 DEF Age, BookingInv, CalendarTypeOK
<1>3. ASSUME NEW e \in Event, Vendor(e) \/ Host(e) PROVE BookingInv'
  <2>1. ClaimInv'
    BY <1>3 DEF Vendor, Host, BookingInv, ClaimInv, claimVars
  <2>2. CalendarTypeOK'
    BY <1>3 DEF Vendor, Host, BookingInv, CalendarTypeOK, EventStatus, Land, Lose,
                Publish, HostCancel, HostMove, DeleteEvent, Committed
  <2>. QED  BY <1>1, <1>3, <2>1, <2>2 DEF Vendor, Host, BookingInv
<1>. QED  BY <1>2, <1>3

-----------------------------------------------------------------------------
(* The invariant. *)

(* Empty claims and a fresh calendar. *)
LEMMA InitInv == Init => BookingInv
<1>. SUFFICES ASSUME Init PROVE BookingInv
  OBVIOUS
<1>1. ClaimInv
  BY DEF Init, ClaimInit, ClaimInv
<1>2. CalendarTypeOK
  BY DEF Init, CalendarInit, CalendarTypeOK, EventStatus
<1>3. \A r \in Request : Fine(r, Blank(r, "start", "none"))
  BY BlankFine DEF Waits, Continuations, UsesSeen
<1>4. ReqInv
  BY <1>3 DEF Init, RequestInit, ReqInv, Fine
<1>. QED  BY <1>1, <1>2, <1>4 DEF BookingInv

(* Every step keeps the invariant. *)
LEMMA NextInv == BookingInv /\ [Next]_vars => BookingInv'
<1>. SUFFICES ASSUME BookingInv, [Next]_vars PROVE BookingInv'
  OBVIOUS
<1>1. ASSUME NEW r \in Request, Arrive(r) \/ Step(r) \/ Crash(r) PROVE BookingInv'
  BY <1>1, ArriveKeeps, StepKeeps, CrashKeeps
<1>2. CASE (\E c \in Cell : Age(c)) \/ (\E e \in Event : Vendor(e) \/ Host(e))
  BY <1>2, OutsideKeeps
<1>3. CASE UNCHANGED vars
  BY <1>3 DEF vars, claimVars, BookingInv, ClaimInv, CalendarTypeOK, ReqInv,
              Coherent, Polling, Ours, CellsOf, Carrying, Creator, GoodRecord
<1>. QED  BY <1>1, <1>2, <1>3 DEF Next

(* The inductive invariant holds in every reachable state: claims and the  *)
(* locals of requests agree on whose event is whose.                       *)
THEOREM InvariantHolds == Spec => []BookingInv
<1>. QED  BY InitInv, NextInv, PTL DEF Spec

(* Type correctness: every claim, event status and request local stays in  *)
(* its domain; in particular no request goes through more than MAX_ROUNDS  *)
(* rounds or MAX_CAS_ROUNDS recoveries of one cell.                        *)
THEOREM TypeCorrect == Spec => []TypeOK
<1>1. BookingInv => TypeOK
  BY GoodRecordFacts
     DEF BookingInv, ClaimInv, ReqInv, TypeOK, ClaimTypeOK, RequestTypeOK, GoodRecord
<1>. QED  BY <1>1, InvariantHolds, PTL

(* A claim stays with its booking: it covers only cells of its owner's     *)
(* range, and whoever finalizes it (step 8, the SF-7 lookup of a retry, or *)
(* another contact's recovery) writes an event of that same booking.       *)
THEOREM ClaimsStayTrue == Spec => []ClaimsNameTheirBooking
<1>1. BookingInv => ClaimsNameTheirBooking
  BY DEF BookingInv, ClaimInv, ClaimsNameTheirBooking, GoodRecord
<1>. QED  BY <1>1, InvariantHolds, PTL

-----------------------------------------------------------------------------
(* The calendar. *)

By(r) == {e \in Event : Creator(e) = r}

(* The create was committed at some time. *)
Happened(ev, e) == ev[e] \notin {"none", "sent"}

(* The event was edited by the host or deleted as a duplicate. *)
Spoiled(ev, e) == ev[e] \in {"moved", "gone", "deleted"}
SpoiltFp(ev, f) == \E e \in Carrying(f) : Spoiled(ev, e)

(* The event stands in its slot, or its create is still on its way. *)
Standing(ev, e) == ev[e] \in {"sent", "hidden", "live"}

Nothing(ev, r) == \A e \in By(r) : ev[e] = "none"

EndedOnes == {q \in Request : req[q].pc = "done"}

(* The request has ended and its creates have landed, visibly, or are lost. *)
Settled(ev, ended, q) ==
  q \in ended /\ \A e \in By(q) : ev[e] \notin {"sent", "hidden"}

(* ... and none of them stands in its slot. *)
Barren(ev, ended, q) == q \in ended /\ \A e \in By(q) : ~Standing(ev, e)

(* What may become of the events while the requests in "movers" take a step. *)
Aging(ev, after, movers) ==
  \A e \in Event :
    /\ Happened(ev, e) => Happened(after, e)
    /\ Spoiled(ev, e) => Spoiled(after, e)
    /\ Creator(e) \notin movers =>
         /\ ev[e] = "none" => after[e] = "none"
         /\ ev[e] \notin {"sent", "hidden"} => after[e] \notin {"sent", "hidden"}
         /\ ~Standing(ev, e) => ~Standing(after, e)

-----------------------------------------------------------------------------
(* What a request relies on. *)

Recovering == {"recover", "recWrite", "recRead", "siblings"}
Refusals == {"unavailable", "taken", "limit", "refused"}

CacheTrue(ev, s) ==
  \A e \in Event :
    /\ s.cache[e] # "none" => Happened(ev, e)
    /\ s.cache[e] \in {"moved", "gone", "deleted"} => Spoiled(ev, e)

FoundTrue(ev, s) ==
  /\ s.found # None => Happened(ev, s.found)
  /\ \A e \in s.extras : Happened(ev, e)

RecordTrue(ev, rec) == rec # None /\ rec.state = "booked" => Happened(ev, rec.event)

(* A record is recovered only once its owner's fate is decided, and it is  *)
(* given up only if no event of that owner needs it.                       *)
RecoveryTrue(ev, ended, s) ==
  /\ s.pc \in Recovering /\ s.seen.state = "pending" => Settled(ev, ended, s.seen.owner)
  /\ s.pc \in {"recWrite", "siblings"} /\ s.found = None =>
       IF s.seen.state = "pending" THEN Barren(ev, ended, s.seen.owner)
                                   ELSE Spoiled(ev, s.seen.event)

(* The answer a request gives or is about to give is true. *)
AnswerTrue(ev, r, s) ==
  /\ s.pc \in {"replay", "dedupe", "finalize"} => Ours(r, s.seen)
  /\ s.pc = "replay" => s.seen.state = "booked"
  /\ s.pc = "release" /\ s.next = "cancelled" =>
       s.seen # None /\ s.seen.state = "booked" /\ Spoiled(ev, s.seen.event)
  /\ s.pc \in {"release", "done"} /\ s.next = "booked" =>
       \E e \in Carrying(FpOf[r]) : Happened(ev, e)

(* Step 6 starts at the first cell, nothing is created before step 7, and  *)
(* the retry only once.                                                    *)
CreateTrue(ev, r, s) ==
  /\ s.pc = "busy" => s.at = First(r)
  /\ s.pc \notin {"create", "lookup", "dedupe", "finalize", "done"} => Nothing(ev, r)
  /\ s.pc = "create" /\ ~s.second => Nothing(ev, r)
  /\ s.pc = "done" /\ s.next \in Refusals => Nothing(ev, r)
  /\ (s.pc = "create" /\ s.second) \/ (s.pc = "lookup" /\ ~s.second) =>
       ev[<<r, 2>>] = "none"

Knows(ev, ended, r, s) ==
  /\ CacheTrue(ev, s)
  /\ FoundTrue(ev, s)
  /\ RecordTrue(ev, s.seen)
  /\ RecoveryTrue(ev, ended, s)
  /\ AnswerTrue(ev, r, s)
  /\ CreateTrue(ev, r, s)

ClaimsTrue(ev, ended) ==
  /\ \A c \in Cell : RecordTrue(ev, claims[c])
  /\ \A c \in stale :
       claims[c] # None /\ claims[c].state = "pending" /\ Settled(ev, ended, claims[c].owner)

-----------------------------------------------------------------------------
(* The cells a request needs, and has. *)

Claiming(s) == s.pc = "claim" \/ (s.pc \in Recovering /\ s.caller = "step6")
Below(r, a) == {c \in CellsOf(r) : c < a}

Needed(ev, r, s) ==
  IF s.pc \in {"create", "lookup"} \/ \E e \in By(r) : Standing(ev, e)
  THEN CellsOf(r)
  ELSE IF Claiming(s) THEN Below(r, s.at) ELSE {}

Holds(r, c) == claims[c] # None /\ claims[c].owner = r

Covered(r) ==
  ~SpoiltFp(events, FpOf[r]) => \A c \in Needed(events, r, req[r]) : Holds(r, c)

SafetyInv ==
  /\ \A r \in Request : Knows(events, EndedOnes, r, req[r])
  /\ ClaimsTrue(events, EndedOnes)
  /\ \A r \in Request : Covered(r)

-----------------------------------------------------------------------------
(* What stays true while others move. *)

(* The events of a request are events of its fingerprint. *)
LEMMA ByFacts ==
  ASSUME NEW r \in Request
  PROVE  /\ By(r) = {<<r, 1>>, <<r, 2>>}
         /\ By(r) \subseteq Event
         /\ By(r) \subseteq Carrying(FpOf[r])
         /\ \A e \in By(r) : Creator(e) = r
  BY DEF By, Carrying, Creator, Event

(* An ended request's fate, once decided, stays so. *)
LEMMA FateKept ==
  ASSUME NEW ev, NEW after, NEW movers, NEW ended, NEW more,
         Aging(ev, after, movers), ended \subseteq more, movers \cap ended = {},
         NEW q \in Request
  PROVE  /\ Settled(ev, ended, q) => Settled(after, more, q)
         /\ Barren(ev, ended, q) => Barren(after, more, q)
  BY DEF Aging, Settled, Barren, By

(* What a request relies on stays true while another one takes a step. *)
LEMMA KnowsLater ==
  ASSUME NEW ev, NEW after, NEW movers, NEW ended, NEW more,
         Aging(ev, after, movers), ended \subseteq more, movers \cap ended = {},
         NEW r \in Request, r \notin movers,
         NEW s, Fine(r, s), Knows(ev, ended, r, s)
  PROVE  Knows(after, more, r, s)
<1>. USE DEF Knows
<1>1. s \in Local /\ s.extras \subseteq Event /\ s.found \in Event \cup {None}
  BY DEF Fine, Local
<1>2. s.seen \in GoodRecord \cup {None}
  BY DEF Fine, Coherent
<1>3. s.seen # None => s.seen \in GoodRecord /\ s.seen.owner \in Request
  BY <1>2, GoodRecordFacts
<1>4. s.seen # None /\ s.seen.state = "booked" => s.seen.event \in Event
  BY <1>3 DEF GoodRecord, Carrying
<1>5. CacheTrue(after, s)
  BY DEF CacheTrue, Aging
<1>6. FoundTrue(after, s)
  BY <1>1 DEF FoundTrue, Aging
<1>7. RecordTrue(after, s.seen)
  BY <1>4 DEF RecordTrue, Aging
<1>8. RecoveryTrue(after, more, s)
  <2>1. s.pc \in Recovering => s.seen # None
    BY DEF Fine, Coherent, UsesSeen, Recovering
  <2>2. s.pc \in {"recWrite", "siblings"} => s.pc \in Recovering
    BY DEF Recovering
  <2>3. s.pc \in Recovering => s.seen.state \in {"pending", "booked"}
    BY <1>3, <2>1 DEF GoodRecord, Record
  <2>4. s.pc \in {"recWrite", "siblings"} /\ s.seen.state = "booked" /\ s.found = None
          => Spoiled(after, s.seen.event)
    BY <1>4, <2>1, <2>2 DEF RecoveryTrue, Aging
  <2>5. s.pc \in Recovering /\ s.seen.state = "pending"
          => Settled(after, more, s.seen.owner)
    BY <1>3, <2>1, FateKept DEF RecoveryTrue
  <2>6. s.pc \in {"recWrite", "siblings"} /\ s.seen.state = "pending" /\ s.found = None
          => Barren(after, more, s.seen.owner)
    BY <1>3, <2>1, <2>2, FateKept DEF RecoveryTrue
  <2>. QED  BY <2>2, <2>3, <2>4, <2>5, <2>6 DEF RecoveryTrue
<1>9. AnswerTrue(after, r, s)
  <2>1. \A e \in Carrying(FpOf[r]) : Happened(ev, e) => Happened(after, e)
    BY DEF Aging, Carrying
  <2>. QED  BY <1>4, <2>1 DEF AnswerTrue, Aging
<1>10. CreateTrue(after, r, s)
  <2>1. Nothing(ev, r) => Nothing(after, r)
    BY DEF Nothing, Aging, By
  <2>2. ev[<<r, 2>>] = "none" => after[<<r, 2>>] = "none"
    BY ByFacts DEF Aging
  <2>. QED  BY <2>1, <2>2 DEF CreateTrue
<1>. QED  BY <1>5, <1>6, <1>7, <1>8, <1>9, <1>10

(* Nothing happens to the calendar. *)
LEMMA NoAging == \A ev, movers : Aging(ev, ev, movers)
  BY DEF Aging

(* What has ended has ended. *)
LEMMA EndedGrows ==
  ASSUME NEW r \in Request, NEW t, ReqInv, Goto(r, t), req[r].pc # "done"
  PROVE  EndedOnes \subseteq EndedOnes' /\ r \notin EndedOnes
  BY DEF EndedOnes, Goto, ReqInv

(* Nobody else comes to need more cells. *)
LEMMA NeedsNoMore ==
  ASSUME NEW ev, NEW after, NEW movers, Aging(ev, after, movers),
         NEW q \in Request, q \notin movers, NEW s
  PROVE  Needed(after, q, s) \subseteq Needed(ev, q, s)
<1>1. \A e \in By(q) : Standing(after, e) => Standing(ev, e)
  BY DEF Aging, By
<1>. QED  BY <1>1 DEF Needed, Below

-----------------------------------------------------------------------------
(* What one step must show to keep the invariant. *)

(* How a step of request r may change the claims: a cell it writes holds   *)
(* nothing false, and no other request loses a cell that it needs.         *)
ClaimsMove(r) ==
  \A c \in Cell :
    \/ claims'[c] = claims[c] /\ (c \in stale' => c \in stale)
    \/ /\ c \notin stale'
       /\ RecordTrue(events', claims'[c])
       /\ \A q \in Request \ {r} : Holds(q, c) =>
            Holds(q, c)' \/ Barren(events, EndedOnes, q) \/ SpoiltFp(events, FpOf[q])

(* Whoever needs a cell has not ended with nothing in the calendar. *)
LEMMA BarrenNeedsNothing ==
  ASSUME NEW q \in Request, Barren(events, EndedOnes, q)
  PROVE  Needed(events, q, req[q]) = {}
<1>1. req[q].pc = "done" /\ ~ \E e \in By(q) : Standing(events, e)
  BY DEF Barren, EndedOnes
<1>. QED  BY <1>1 DEF Needed, Claiming, Recovering

(* A spoilt booking stays one. *)
LEMMA SpoiltStays ==
  ASSUME NEW ev, NEW after, NEW movers, Aging(ev, after, movers), NEW f
  PROVE  SpoiltFp(ev, f) => SpoiltFp(after, f)
  BY DEF Aging, SpoiltFp, Carrying

(* The claims of the others, through a step of request r. *)
LEMMA OthersCovered ==
  ASSUME NEW r, BookingInv, SafetyInv, ClaimsMove(r),
         Aging(events, events', {r}), NEW q \in Request, q # r, req'[q] = req[q]
  PROVE  Covered(q)'
<1>. SUFFICES ASSUME ~SpoiltFp(events', FpOf[q]), NEW c \in Needed(events', q, req'[q])
              PROVE  Holds(q, c)'
  BY DEF Covered
<1>1. ~SpoiltFp(events, FpOf[q])
  BY SpoiltStays
<1>2. c \in Needed(events, q, req[q])
  BY NeedsNoMore
<1>3. Holds(q, c)
  BY <1>1, <1>2 DEF SafetyInv, Covered
<1>4. c \in Cell
  BY <1>2, CellFacts DEF Needed, Below
<1>5. ~Barren(events, EndedOnes, q)
  BY <1>2, BarrenNeedsNothing
<1>. QED  BY <1>1, <1>3, <1>4, <1>5 DEF ClaimsMove, Holds

(* What the claims say, through a step of request r. *)
LEMMA ClaimsStayTrueThrough ==
  ASSUME NEW movers, BookingInv, SafetyInv, Aging(events, events', movers),
         EndedOnes \subseteq EndedOnes', movers \cap EndedOnes = {}, stale' \subseteq Cell,
         \A c \in Cell : \/ claims'[c] = claims[c] /\ (c \in stale' => c \in stale)
                         \/ c \notin stale' /\ RecordTrue(events', claims'[c])
  PROVE  ClaimsTrue(events, EndedOnes)'
<1>1. \A c \in Cell : RecordTrue(events', claims[c])
  <2>. SUFFICES ASSUME NEW c \in Cell, claims[c] # None, claims[c].state = "booked"
                PROVE  Happened(events', claims[c].event)
    BY DEF RecordTrue
  <2>1. claims[c] \in GoodRecord
    BY HeldFacts DEF BookingInv
  <2>2. claims[c].event \in Event
    BY <2>1 DEF GoodRecord, Carrying
  <2>3. Happened(events, claims[c].event)
    BY DEF SafetyInv, ClaimsTrue, RecordTrue
  <2>. QED  BY <2>2, <2>3 DEF Aging
<1>2. ASSUME NEW c \in stale'
      PROVE  /\ claims'[c] # None /\ claims'[c].state = "pending"
             /\ Settled(events', EndedOnes', claims'[c].owner)
  <2>1. c \in Cell /\ c \in stale /\ claims'[c] = claims[c]
    BY <1>2
  <2>2. /\ claims[c] # None /\ claims[c].state = "pending"
        /\ Settled(events, EndedOnes, claims[c].owner)
    BY <2>1 DEF SafetyInv, ClaimsTrue
  <2>3. claims[c].owner \in Request
    BY <2>1, <2>2, HeldFacts, GoodRecordFacts DEF BookingInv
  <2>. QED  BY <2>1, <2>2, <2>3, FateKept
<1>3. \A c \in Cell : RecordTrue(events', claims'[c])
  BY <1>1
<1>. QED  BY <1>2, <1>3 DEF ClaimsTrue

(* The local state a step leads to is a good one. *)
LEMMA FineAfter ==
  ASSUME NEW r \in Request, NEW t, BookingInv, BookingInv', Goto(r, t)
  PROVE  Fine(r, t) /\ stale' \subseteq Cell
<1>1. req'[r] = t
  BY DEF BookingInv, ReqInv, Goto
<1>2. req'[r] \in Local /\ stale' \subseteq Cell
  BY DEF BookingInv, ReqInv, ClaimInv
<1>3. Coherent(r, req'[r])
  BY DEF BookingInv, ReqInv, Coherent, Polling, Ours, CellsOf, Carrying, Creator, GoodRecord
<1>. QED  BY <1>1, <1>2, <1>3 DEF Fine

(* A step of request r that ends in local state t. *)
LEMMA MoveSafe ==
  ASSUME NEW r \in Request, NEW t, BookingInv, BookingInv', SafetyInv, Goto(r, t),
         req[r].pc # "done", Knows(events', EndedOnes, r, t), Aging(events, events', {r}),
         ClaimsMove(r),
         ~SpoiltFp(events', FpOf[r]) => \A c \in Needed(events', r, t) : Holds(r, c)'
  PROVE  SafetyInv'
<1>0. Fine(r, t) /\ stale' \subseteq Cell
  BY FineAfter
<1>1. EndedOnes \subseteq EndedOnes' /\ r \notin EndedOnes
  BY EndedGrows DEF BookingInv
<1>2. req'[r] = t /\ \A q \in Request : q # r => req'[q] = req[q]
  BY DEF BookingInv, ReqInv, Goto
<1>3. Knows(events', EndedOnes', r, req'[r])
  <2>1. Aging(events', events', {})
    BY NoAging
  <2>2. Knows(events', EndedOnes', r, t)
    BY <1>0, <1>1, <2>1, KnowsLater
  <2>. QED  BY <1>2, <2>2
<1>4. ASSUME NEW q \in Request, q # r PROVE Knows(events', EndedOnes', q, req'[q])
  <2>1. Fine(q, req[q]) /\ Knows(events, EndedOnes, q, req[q])
    BY LocalFine DEF SafetyInv
  <2>2. Knows(events', EndedOnes', q, req[q])
    BY <1>1, <1>4, <2>1, KnowsLater
  <2>. QED  BY <1>2, <1>4, <2>2
<1>5. ClaimsTrue(events, EndedOnes)'
  BY <1>0, <1>1, ClaimsStayTrueThrough DEF ClaimsMove
<1>6. Covered(r)'
  BY <1>2 DEF Covered
<1>7. \A q \in Request : q # r => Covered(q)'
  BY <1>2, OthersCovered
<1>. QED  BY <1>3, <1>4, <1>5, <1>6, <1>7 DEF SafetyInv

(* Where a step may lead without new claims being needed. *)
Asks(r, s, t) ==
  /\ t.pc \in {"create", "lookup"} => s.pc \in {"create", "lookup"}
  /\ Claiming(t) => t.at = First(r) \/ (Claiming(s) /\ t.at = s.at)

(* A way on that asks for nothing new needs no new cells. *)
LEMMA AsksNoMore ==
  ASSUME NEW ev, NEW r \in Request, NEW s, NEW t, Asks(r, s, t), t.at \in Cell
  PROVE  Needed(ev, r, t) \subseteq Needed(ev, r, s)
<1>1. Below(r, First(r)) = {}
  BY CellFacts, CalendarAssumption DEF Below, CellsOf, First
<1>2. \A a : Below(r, a) \subseteq CellsOf(r)
  BY DEF Below
<1>. QED  BY <1>1, <1>2 DEF Needed, Asks

(* A step that leaves claims and calendar alone. *)
LEMMA QuietSafe ==
  ASSUME NEW r \in Request, NEW t, BookingInv, BookingInv', SafetyInv, Goto(r, t),
         req[r].pc # "done", Knows(events, EndedOnes, r, t), Asks(r, req[r], t),
         StoreAndCalendarUnchanged
  PROVE  SafetyInv'
<1>1. events' = events /\ claims' = claims /\ stale' = stale
  BY DEF StoreAndCalendarUnchanged, claimVars
<1>2. Aging(events, events', {r}) /\ ClaimsMove(r) /\ Knows(events', EndedOnes, r, t)
  BY <1>1, NoAging DEF ClaimsMove
<1>4. Needed(events', r, t) \subseteq Needed(events, r, req[r])
  BY <1>1, FineAfter, AsksNoMore DEF Fine, Local
<1>5. ~SpoiltFp(events', FpOf[r]) => \A c \in Needed(events', r, t) : Holds(r, c)'
  BY <1>1, <1>4 DEF SafetyInv, Covered, Holds
<1>. QED  BY <1>2, <1>5, MoveSafe

-----------------------------------------------------------------------------
(* Where control goes: what a request relies on after each way on. *)

(* Where a request needs no cells for what it is about to do. *)
Idle(t) == t.pc \notin {"claim", "create", "lookup"} \cup Recovering

(* A request that needs no cells asks for none. *)
LEMMA IdleAsks == \A r, s, t : Idle(t) => Asks(r, s, t)
  BY DEF Idle, Asks, Claiming

(* A request that has read nothing yet but its verified events. *)
LEMMA FreshKnows ==
  ASSUME NEW ev, NEW ended, NEW r \in Request, NEW t, CacheTrue(ev, t), Nothing(ev, r),
         t.seen = None, t.found = None, t.extras = {}, t.pc = "busy" => t.at = First(r),
         t.pc \in {"start", "read", "find", "busy", "busyRead", "claim"}
  PROVE  Knows(ev, ended, r, t)
  BY DEF Knows, FoundTrue, RecordTrue, RecoveryTrue, AnswerTrue, CreateTrue, Recovering

(* A request that answers. *)
LEMMA DoneKnows ==
  ASSUME NEW ev, NEW ended, NEW r \in Request, NEW a \in Continuations,
         a \in Refusals => Nothing(ev, r),
         a = "booked" => \E e \in Carrying(FpOf[r]) : Happened(ev, e)
  PROVE  Knows(ev, ended, r, Done(r, a)) /\ Idle(Done(r, a))
<1>. DEFINE t == Done(r, a)
<1>1. /\ t.pc = "done" /\ t.next = a /\ t.seen = None /\ t.found = None
      /\ t.extras = {} /\ \A e \in Event : t.cache[e] = "none"
      /\ t = Done(r, a)
  BY DEF Done, Blank, NoCache
<1>. HIDE DEF t
<1>2. CacheTrue(ev, t) /\ FoundTrue(ev, t) /\ RecordTrue(ev, t.seen)
  BY <1>1 DEF CacheTrue, FoundTrue, RecordTrue
<1>3. RecoveryTrue(ev, ended, t) /\ Idle(t)
  BY <1>1 DEF RecoveryTrue, Recovering, Idle
<1>4. AnswerTrue(ev, r, t) /\ CreateTrue(ev, r, t)
  BY <1>1 DEF AnswerTrue, CreateTrue
<1>. QED  BY <1>1, <1>2, <1>3, <1>4 DEF Knows

(* _AGAIN, continue in step 2, and on to step 3 or 5. *)
LEMMA OnwardsKnows ==
  ASSUME NEW ev, NEW ended, NEW r \in Request, NEW s, CacheTrue(ev, s), Nothing(ev, r)
  PROVE  /\ Knows(ev, ended, r, Again(r, s)) /\ Idle(Again(r, s))
         /\ Knows(ev, ended, r, Reread(r, s)) /\ Idle(Reread(r, s))
         /\ \A loc \in {"find", "busy"} :
              Knows(ev, ended, r, Onward(r, s, loc)) /\ Idle(Onward(r, s, loc))
<1>. DEFINE again == [Blank(r, "read", "none") EXCEPT
              !.round = s.round + 1, !.seenOwn = TRUE, !.cache = s.cache]
            reread == [Blank(r, "read", "none") EXCEPT
              !.round = s.round, !.pass = s.pass + 1, !.recOnce = s.recOnce,
              !.seenOwn = s.seenOwn, !.cache = s.cache]
<1>1. Knows(ev, ended, r, Done(r, "unconfirmed")) /\ Idle(Done(r, "unconfirmed"))
  BY DoneKnows DEF Continuations, Answers, Refusals
<1>2. Knows(ev, ended, r, again) /\ Idle(again)
  <2>1. /\ again.cache = s.cache /\ again.seen = None /\ again.found = None
        /\ again.extras = {} /\ again.pc = "read"
    BY DEF Blank
  <2>. HIDE DEF again
  <2>. QED  BY <2>1, FreshKnows DEF Idle, Recovering, CacheTrue
<1>3. Knows(ev, ended, r, reread) /\ Idle(reread)
  <2>1. /\ reread.cache = s.cache /\ reread.seen = None /\ reread.found = None
        /\ reread.extras = {} /\ reread.pc = "read"
    BY DEF Blank
  <2>. HIDE DEF reread
  <2>. QED  BY <2>1, FreshKnows DEF Idle, Recovering, CacheTrue
<1>4. ASSUME NEW loc \in {"find", "busy"}
      PROVE  Knows(ev, ended, r, Onward(r, s, loc)) /\ Idle(Onward(r, s, loc))
  <2>. DEFINE t == Onward(r, s, loc)
  <2>1. /\ t.cache = s.cache /\ t.seen = None /\ t.found = None
        /\ t.extras = {} /\ t.pc = loc /\ t.at = First(r) /\ t = Onward(r, s, loc)
    BY DEF Onward, Blank
  <2>. HIDE DEF t
  <2>2. Idle(t)
    BY <2>1 DEF Idle, Recovering
  <2>3. t.pc \in {"start", "read", "find", "busy", "busyRead", "claim"}
    BY <2>1
  <2>. QED  BY <2>1, <2>2, <2>3, FreshKnows DEF CacheTrue
<1>5. Again(r, s) = IF s.round = MaxRounds THEN Done(r, "unconfirmed") ELSE again
  BY DEF Again
<1>6. Reread(r, s) = IF s.pass = MaxRounds THEN Done(r, "unconfirmed") ELSE reread
  BY DEF Reread
<1>. HIDE DEF again, reread
<1>. QED  BY <1>1, <1>2, <1>3, <1>4, <1>5, <1>6

(* What follows a release_all. *)
LEMMA FollowKnows ==
  ASSUME NEW ev, NEW ended, NEW r \in Request, NEW s \in Local, NEW k \in Continuations,
         CacheTrue(ev, s), Nothing(ev, r),
         k = "poll" => FoundTrue(ev, s) /\ RecordTrue(ev, s.seen),
         k = "booked" => \E e \in Carrying(FpOf[r]) : Happened(ev, e)
  PROVE  Knows(ev, ended, r, Follow(r, s, k)) /\ Idle(Follow(r, s, k))
<1>1. CASE k = "again"
  BY <1>1, OnwardsKnows DEF Follow
<1>2. CASE k = "poll"
  <2>. DEFINE t == [s EXCEPT !.pc = "poll", !.next = "none", !.todo = {}, !.retried = FALSE]
  <2>1. /\ t.pc = "poll" /\ t.cache = s.cache /\ t.seen = s.seen /\ t.found = s.found
        /\ t.extras = s.extras
    BY DEF Local
  <2>2. Follow(r, s, k) = t
    BY <1>2 DEF Follow
  <2>. HIDE DEF t
  <2>3. Knows(ev, ended, r, t)
    BY <1>2, <2>1 DEF Knows, CacheTrue, FoundTrue, RecordTrue, RecoveryTrue, AnswerTrue,
                      CreateTrue, Recovering
  <2>. QED  BY <2>1, <2>2, <2>3 DEF Idle, Recovering
<1>3. CASE k \notin {"again", "poll"}
  BY <1>3, DoneKnows DEF Follow
<1>. QED  BY <1>1, <1>2, <1>3

(* release_all and what follows it. *)
LEMMA ReleaseThenKnows ==
  ASSUME NEW ev, NEW ended, NEW r \in Request, NEW s \in Local, NEW cells,
         NEW k \in Answers \cup {"again", "poll"},
         CacheTrue(ev, s), Nothing(ev, r), FoundTrue(ev, s), RecordTrue(ev, s.seen),
         k = "cancelled" =>
           s.seen # None /\ s.seen.state = "booked" /\ Spoiled(ev, s.seen.event),
         k = "booked" => \E e \in Carrying(FpOf[r]) : Happened(ev, e)
  PROVE  Knows(ev, ended, r, ReleaseThen(r, s, cells, k)) /\ Idle(ReleaseThen(r, s, cells, k))
<1>1. CASE cells = {}
  BY <1>1, FollowKnows DEF ReleaseThen, Continuations
<1>2. CASE cells # {}
  <2>. DEFINE t == [Onward(r, s, "release") EXCEPT
          !.next = k, !.todo = cells, !.at = s.at, !.caller = s.caller,
          !.seen = IF k \in {"poll", "cancelled"} THEN s.seen ELSE None]
  <2>1. /\ t.pc = "release" /\ t.next = k /\ t.cache = s.cache /\ t.found = None
        /\ t.extras = {} /\ t.seen \in {s.seen, None}
        /\ k = "cancelled" => t.seen = s.seen
    BY DEF Onward, Blank
  <2>2. ReleaseThen(r, s, cells, k) = t
    BY <1>2 DEF ReleaseThen
  <2>. HIDE DEF t
  <2>3. Knows(ev, ended, r, t)
    BY <2>1 DEF Knows, CacheTrue, FoundTrue, RecordTrue, RecoveryTrue, AnswerTrue,
                CreateTrue, Recovering
  <2>. QED  BY <2>1, <2>2, <2>3 DEF Idle, Recovering
<1>. QED  BY <1>1, <1>2

-----------------------------------------------------------------------------
(* Where recovery returns to. *)

(* Recovery returns to the caller: to the same cell of step 6, or to where *)
(* no cell is needed.                                                      *)
Returns(s, t) ==
  /\ t.pc \notin {"create", "lookup"}
  /\ Claiming(t) => s.caller = "step6" /\ t.at = s.at

(* A request that needs no cells returns to no claiming. *)
LEMMA IdleReturns == \A s, t : Idle(t) => Returns(s, t)
  BY DEF Idle, Returns, Claiming

(* What recovery may return with: a record it finalized or kept for this   *)
(* very booking names an event that was created.                           *)
MayReturn(r, s, action) ==
  /\ Judging(r, s) /\ action \in Outcomes
  /\ CacheTrue(events, s) /\ FoundTrue(events, s) /\ RecordTrue(events, s.seen)
  /\ Nothing(events, r)
  /\ action = "finalized" => s.found # None
  /\ Ours(r, s.seen) /\ action \in {"finalized", "kept"} =>
       \E e \in Carrying(FpOf[r]) : Happened(events, e)
  /\ action = "held" => s.cas > 1

(* The outcome of recover_cell at step 6. *)
LEMMA ResumeClaimKnows ==
  ASSUME NEW r \in Request, NEW s, NEW action, MayReturn(r, s, action), s.caller = "step6"
  PROVE  /\ Knows(events, EndedOnes, r, ResumeClaim(r, s, action))
         /\ Returns(s, ResumeClaim(r, s, action))
<1>. DEFINE retry == [s EXCEPT !.pc = "claim", !.retried = TRUE, !.seen = None,
                               !.cas = 1, !.found = None, !.todo = {}]
            answer == IF Ours(r, s.seen)
                      THEN IF action = "failed" THEN "unconfirmed" ELSE "booked"
                      ELSE IF action = "failed" THEN "unavailable" ELSE "taken"
            again == action = "released" \/ (s.cas > 1 /\ (Ours(r, s.seen) \/ action # "failed"))
<1>1. ResumeClaim(r, s, action) =
        IF again THEN retry ELSE ReleaseThen(r, s, Acquired(r), answer)
  BY DEF ResumeClaim
<1>2. s \in Local
  BY DEF MayReturn, Judging
<1>3. Knows(events, EndedOnes, r, retry) /\ Returns(s, retry)
  <2>1. /\ retry.pc = "claim" /\ retry.cache = s.cache /\ retry.seen = None
        /\ retry.found = None /\ retry.extras = s.extras /\ retry.at = s.at
    BY <1>2 DEF Local
  <2>. HIDE DEF retry
  <2>2. Knows(events, EndedOnes, r, retry)
    BY <2>1 DEF MayReturn, Knows, CacheTrue, FoundTrue, RecordTrue, RecoveryTrue,
                AnswerTrue, CreateTrue, Recovering
  <2>. QED  BY <2>1, <2>2 DEF Returns, Claiming
<1>4. CASE ~again
  <2>1. answer = "booked" => \E e \in Carrying(FpOf[r]) : Happened(events, e)
    <3>. SUFFICES ASSUME answer = "booked"
                  PROVE  Ours(r, s.seen) /\ action \in {"finalized", "kept"}
      BY DEF MayReturn
    <3>1. Ours(r, s.seen) /\ action # "failed"
      OBVIOUS
    <3>2. action # "released" /\ ~(s.cas > 1)
      BY <1>4, <3>1
    <3>. QED  BY <3>1, <3>2 DEF MayReturn, Outcomes
  <2>2. answer \in Answers /\ answer # "cancelled"
    BY DEF Answers
  <2>. HIDE DEF answer
  <2>3. /\ Knows(events, EndedOnes, r, ReleaseThen(r, s, Acquired(r), answer))
        /\ Idle(ReleaseThen(r, s, Acquired(r), answer))
    BY <1>2, <2>1, <2>2, ReleaseThenKnows DEF MayReturn
  <2>. QED  BY <1>1, <1>4, <2>3, IdleReturns
<1>. QED  BY <1>1, <1>3, <1>4

(* The outcome of recover_cell at step 2. *)
LEMMA ResumeReplayKnows ==
  ASSUME NEW r \in Request, NEW s, NEW action, MayReturn(r, s, action)
  PROVE  /\ Knows(events, EndedOnes, r, ResumeReplay(r, s, action))
         /\ Idle(ResumeReplay(r, s, action))
<1>. DEFINE status == IF events[s.found] = "moved" THEN "moved" ELSE "live"
            told == [s EXCEPT !.cache[s.found] = status]
<1>1. s \in Local
  BY DEF MayReturn, Judging
<1>2. CASE action = "failed"
  BY <1>2, DoneKnows DEF ResumeReplay, Continuations, Answers, Refusals
<1>3. CASE action \notin {"failed", "finalized"}
  BY <1>3, OnwardsKnows DEF ResumeReplay, MayReturn
<1>4. CASE action = "finalized"
  <2>1. s.found \in Event /\ Happened(events, s.found)
    BY <1>1, <1>4 DEF MayReturn, Local, FoundTrue
  <2>2. \A e \in Event : told.cache[e] = IF e = s.found THEN status ELSE s.cache[e]
    BY <1>1, <2>1 DEF Local
  <2>3. status = "moved" => Spoiled(events, s.found)
    BY DEF Spoiled
  <2>4. status \in {"moved", "live"}
    OBVIOUS
  <2>5. ResumeReplay(r, s, action) = Reread(r, told)
    BY <1>4 DEF ResumeReplay
  <2>. HIDE DEF told, status
  <2>6. CacheTrue(events, told)
    BY <2>1, <2>2, <2>3, <2>4 DEF MayReturn, CacheTrue
  <2>. QED  BY <2>5, <2>6, OnwardsKnows DEF MayReturn
<1>. QED  BY <1>2, <1>3, <1>4

(* The outcome of recover_cell, whoever called it. *)
LEMMA ResumeKnows ==
  ASSUME NEW r \in Request, NEW s, NEW action, MayReturn(r, s, action)
  PROVE  /\ Knows(events, EndedOnes, r, Resume(r, s, action))
         /\ Returns(s, Resume(r, s, action))
<1>1. s.caller \in {"step2", "step6"}
  BY DEF MayReturn, Judging, Local
<1>. QED  BY <1>1, ResumeClaimKnows, ResumeReplayKnows, IdleReturns DEF Resume

(* A return of recovery needs no cell it did not need before. *)
LEMMA ReturnsAsks ==
  ASSUME NEW r, NEW s, NEW u, NEW t, s.pc \in Recovering,
         u.caller = s.caller, u.at = s.at, Returns(u, t)
  PROVE  Asks(r, s, t)
  BY DEF Returns, Asks, Claiming

-----------------------------------------------------------------------------
(* Steps 1 to 5. *)

(* What the invariant says of one request. *)
LEMMA Known ==
  ASSUME BookingInv, SafetyInv, NEW r \in Request
  PROVE  /\ Fine(r, req[r]) /\ req[r] \in Local
         /\ Knows(events, EndedOnes, r, req[r])
         /\ CacheTrue(events, req[r]) /\ FoundTrue(events, req[r])
         /\ RecordTrue(events, req[r].seen)
         /\ req[r].pc \notin {"create", "lookup", "dedupe", "finalize", "done"} =>
              Nothing(events, r)
  BY LocalFine DEF SafetyInv, Knows, CreateTrue

(* A step that answers. *)
LEMMA AnswerSafe ==
  ASSUME NEW r \in Request, NEW a \in Answers, BookingInv, BookingInv', SafetyInv,
         Answer(r, a), StoreAndCalendarUnchanged, req[r].pc # "done",
         a \in Refusals => Nothing(events, r),
         a = "booked" => \E e \in Carrying(FpOf[r]) : Happened(events, e)
  PROVE  SafetyInv'
<1>1. Knows(events, EndedOnes, r, Done(r, a)) /\ Idle(Done(r, a))
  BY DoneKnows DEF Continuations
<1>. QED  BY <1>1, IdleAsks, QuietSafe DEF Answer

(* A step to where no cell is needed. *)
LEMMA IdleSafe ==
  ASSUME NEW r \in Request, NEW t, BookingInv, BookingInv', SafetyInv, Goto(r, t),
         req[r].pc # "done", Knows(events, EndedOnes, r, t), Idle(t),
         StoreAndCalendarUnchanged
  PROVE  SafetyInv'
  BY IdleAsks, QuietSafe

(* What a claim that was read says. *)
LEMMA HeldTrue ==
  ASSUME BookingInv, SafetyInv, NEW c \in Cell
  PROVE  /\ RecordTrue(events, claims[c])
         /\ StalePending(c) => Settled(events, EndedOnes, claims[c].owner)
  BY DEF SafetyInv, ClaimsTrue, StalePending

(* Arrive (step 1) keeps the invariant. *)
LEMMA ArriveSafe ==
  ASSUME NEW r \in Request, BookingInv, BookingInv', SafetyInv, Arrive(r)
  PROVE  SafetyInv'
<1>1. req[r].pc = "start" /\ StoreAndCalendarUnchanged /\ Nothing(events, r)
  BY Known DEF Arrive
<1>2. CASE Goto(r, Blank(r, "read", "none"))
  <2>. DEFINE t == Blank(r, "read", "none")
  <2>1. /\ t.pc = "read" /\ t.seen = None /\ t.found = None /\ t.extras = {}
        /\ \A e \in Event : t.cache[e] = "none"
    BY DEF Blank, NoCache
  <2>2. Goto(r, t)
    BY <1>2
  <2>. HIDE DEF t
  <2>3. CacheTrue(events, t) /\ Idle(t)
    BY <2>1 DEF CacheTrue, Idle, Recovering
  <2>4. Knows(events, EndedOnes, r, t)
    BY <1>1, <2>1, <2>3, FreshKnows
  <2>. QED  BY <1>1, <2>2, <2>3, <2>4, IdleSafe
<1>3. CASE Answer(r, "refused") \/ Answer(r, "unavailable")
  BY <1>1, <1>3, AnswerSafe DEF Answers
<1>. QED  BY <1>2, <1>3 DEF Arrive

(* ReadFirst (the read of step 2) keeps the invariant. *)
LEMMA ReadFirstSafe ==
  ASSUME NEW r \in Request, BookingInv, BookingInv', SafetyInv, ReadFirst(r)
  PROVE  SafetyInv'
<1>. DEFINE s == req[r]
            held == claims[First(r)]
            met == [s EXCEPT !.seen = held, !.caller = "step2"]
<1>1. /\ s \in Local /\ s.pc = "read" /\ StoreAndCalendarUnchanged
      /\ CacheTrue(events, s) /\ FoundTrue(events, s) /\ Nothing(events, r)
  BY Known DEF ReadFirst
<1>2. /\ RecordTrue(events, held)
      /\ StalePending(First(r)) => Settled(events, EndedOnes, held.owner)
  BY CellFacts, HeldTrue
<1>3. CASE Answer(r, IF s.seenOwn THEN "unconfirmed" ELSE "unavailable")
  BY <1>1, <1>3, AnswerSafe DEF Answers, Refusals
<1>4. CASE Goto(r, Onward(r, s, "find"))
  BY <1>1, <1>4, OnwardsKnows, IdleSafe
<1>5. ASSUME NEW t \in Local, Goto(r, t), t.cache = s.cache, t.found = s.found,
             t.extras = s.extras, t.seen = held, t.caller = "step2", Ours(r, held),
             \/ t.pc = "replay" /\ held.state = "booked"
             \/ t.pc = "poll"
             \/ t.pc = "recover" /\ StalePending(First(r))
      PROVE  SafetyInv'
  <2>1. Knows(events, EndedOnes, r, t)
    BY <1>1, <1>2, <1>5 DEF Knows, CacheTrue, FoundTrue, RecoveryTrue, AnswerTrue,
                            CreateTrue, Recovering
  <2>2. Asks(r, s, t)
    BY <1>5 DEF Asks, Claiming, Recovering
  <2>. QED  BY <1>1, <1>5, <2>1, <2>2, QuietSafe
<1>6. Ours(r, held) => held \in Record
  BY CellFacts, HeldFacts, GoodRecordFacts DEF BookingInv, Ours
<1>7. ASSUME Ours(r, held), NEW loc \in {"replay", "poll"}, Goto(r, [met EXCEPT !.pc = loc]),
             loc = "replay" => held.state = "booked"
      PROVE  SafetyInv'
  <2>. DEFINE t == [met EXCEPT !.pc = loc]
  <2>1. /\ Goto(r, t) /\ t \in Local /\ t.pc = loc /\ t.cache = s.cache /\ t.found = s.found
        /\ t.extras = s.extras /\ t.seen = held /\ t.caller = "step2"
    BY <1>1, <1>6, <1>7 DEF Local, Waits
  <2>. HIDE DEF t
  <2>. QED  BY <1>5, <1>7, <2>1
<1>8. CASE /\ Ours(r, held) /\ StalePending(First(r))
           /\ Goto(r, [met EXCEPT !.pc = "recover", !.recOnce = TRUE])
  <2>. DEFINE t == [met EXCEPT !.pc = "recover", !.recOnce = TRUE]
  <2>1. /\ Goto(r, t) /\ t \in Local /\ t.pc = "recover" /\ t.cache = s.cache /\ t.found = s.found
        /\ t.extras = s.extras /\ t.seen = held /\ t.caller = "step2"
    BY <1>1, <1>6, <1>8 DEF Local, Waits
  <2>. HIDE DEF t
  <2>. QED  BY <1>5, <1>8, <2>1
<1>9. CASE Goto(r, Done(r, "unconfirmed"))
  BY <1>1, <1>9, AnswerSafe DEF Answer, Answers, Refusals
<1>. QED  BY <1>3, <1>4, <1>7, <1>8, <1>9 DEF ReadFirst

(* What a finalized record that was read says about its booking. *)
LEMMA BookedSeen ==
  ASSUME NEW r \in Request, NEW rec \in GoodRecord, rec.state = "booked",
         RecordTrue(events, rec), Ours(r, rec)
  PROVE  \E e \in Carrying(FpOf[r]) : Happened(events, e)
<1>1. rec.event \in Carrying(FpOf[r]) /\ rec # None
  BY GoodRecordFacts DEF GoodRecord, Ours
<1>. QED  BY <1>1 DEF RecordTrue

(* Replay (_replay_booked) keeps the invariant. *)
LEMMA ReplaySafe ==
  ASSUME NEW r \in Request, BookingInv, BookingInv', SafetyInv, Replay(r)
  PROVE  SafetyInv'
<1>. DEFINE s == req[r]
            e == s.seen.event
            status == IF s.cache[e] # "none" THEN s.cache[e] ELSE events[e]
<1>1. /\ s \in Local /\ s.pc = "replay" /\ StoreAndCalendarUnchanged
      /\ CacheTrue(events, s) /\ FoundTrue(events, s) /\ RecordTrue(events, s.seen)
      /\ Nothing(events, r) /\ AnswerTrue(events, r, s)
  BY Known DEF Replay, Knows
<1>2. s.seen \in GoodRecord /\ s.seen.state = "booked" /\ Ours(r, s.seen) /\ s.seen # None
  BY <1>1, SeenCells, GoodRecordFacts DEF UsesSeen, AnswerTrue
<1>3. CASE Answer(r, "unconfirmed")
  BY <1>1, <1>3, AnswerSafe DEF Answers, Refusals
<1>4. CASE Answer(r, "booked")
  BY <1>1, <1>2, <1>4, BookedSeen, AnswerSafe DEF Answers, Refusals
<1>5. CASE status \in Absent /\ Goto(r, ReleaseThen(r, s, CellsOfSeen(s), "cancelled"))
  <2>1. e \in Event
    BY <1>2 DEF GoodRecord, Carrying
  <2>2. Spoiled(events, e)
    BY <1>1, <1>5, <2>1 DEF CacheTrue, Spoiled, Absent
  <2>3. /\ Knows(events, EndedOnes, r, ReleaseThen(r, s, CellsOfSeen(s), "cancelled"))
        /\ Idle(ReleaseThen(r, s, CellsOfSeen(s), "cancelled"))
    BY <1>1, <1>2, <2>2, ReleaseThenKnows DEF Answers
  <2>. QED  BY <1>1, <1>5, <2>3, IdleSafe
<1>. QED  BY <1>3, <1>4, <1>5 DEF Replay

(* Poll (a read of _poll_own_pending) keeps the invariant. *)
LEMMA PollSafe ==
  ASSUME NEW r \in Request, BookingInv, BookingInv', SafetyInv, Poll(r)
  PROVE  SafetyInv'
<1>. DEFINE s == req[r]
            held == claims[s.at]
            back == IF s.caller = "step2" THEN Reread(r, s) ELSE Again(r, s)
<1>1. /\ s \in Local /\ s.pc = "poll" /\ StoreAndCalendarUnchanged /\ s.at \in Cell
      /\ CacheTrue(events, s) /\ FoundTrue(events, s) /\ RecordTrue(events, s.seen)
      /\ Nothing(events, r)
  BY Known DEF Poll, Local
<1>2. RecordTrue(events, held) /\ (Ours(r, held) => held \in Record)
  BY <1>1, HeldTrue, HeldFacts, GoodRecordFacts DEF BookingInv, Ours
<1>3. ASSUME NEW t, Goto(r, t), t.cache = s.cache, t.found = s.found, t.extras = s.extras,
             t.seen = s.seen \/ (Ours(r, held) /\ t.seen = held),
             \/ t.pc \in {"poll", "pollLookup"}
             \/ t.pc = "replay" /\ t.seen = held /\ Ours(r, held) /\ held.state = "booked"
      PROVE  SafetyInv'
  <2>1. Knows(events, EndedOnes, r, t)
    BY <1>1, <1>2, <1>3 DEF Knows, CacheTrue, FoundTrue, RecoveryTrue, AnswerTrue,
                            CreateTrue, Recovering
  <2>2. Idle(t)
    BY <1>3 DEF Idle, Recovering
  <2>. QED  BY <1>1, <1>3, <2>1, <2>2, IdleSafe
<1>4. CASE Goto(r, [s EXCEPT !.pc = "pollLookup"])
  <2>. DEFINE t == [s EXCEPT !.pc = "pollLookup"]
  <2>1. /\ Goto(r, t) /\ t.pc = "pollLookup" /\ t.cache = s.cache /\ t.found = s.found
        /\ t.extras = s.extras /\ t.seen = s.seen
    BY <1>1, <1>4 DEF Local
  <2>. HIDE DEF t
  <2>. QED  BY <1>3, <2>1
<1>5. CASE Answer(r, "unconfirmed")
  BY <1>1, <1>5, AnswerSafe DEF Answers, Refusals
<1>6. CASE Goto(r, IF s.caller = "step2" THEN Onward(r, s, "find") ELSE Again(r, s))
  BY <1>1, <1>6, OnwardsKnows, IdleSafe
<1>7. CASE /\ Ours(r, held) /\ held.state = "booked"
           /\ Goto(r, [s EXCEPT !.pc = "replay", !.seen = held])
  <2>. DEFINE t == [s EXCEPT !.pc = "replay", !.seen = held]
  <2>1. /\ Goto(r, t) /\ t.pc = "replay" /\ t.cache = s.cache /\ t.found = s.found
        /\ t.extras = s.extras /\ t.seen = held
    BY <1>1, <1>7 DEF Local
  <2>. HIDE DEF t
  <2>. QED  BY <1>3, <1>7, <2>1
<1>8. CASE Goto(r, back)
  BY <1>1, <1>8, OnwardsKnows, IdleSafe
<1>9. CASE Ours(r, held) /\ Goto(r, [s EXCEPT !.seen = held])
  <2>. DEFINE t == [s EXCEPT !.seen = held]
  <2>1. /\ Goto(r, t) /\ t.pc = "poll" /\ t.cache = s.cache /\ t.found = s.found
        /\ t.extras = s.extras /\ t.seen = held
    BY <1>1, <1>9 DEF Local
  <2>. HIDE DEF t
  <2>. QED  BY <1>3, <1>9, <2>1
<1>. QED  BY <1>4, <1>5, <1>6, <1>7, <1>8, <1>9 DEF Poll

(* An event that a lookup finds was created. *)
LEMMA LookupsHappened ==
  ASSUME NEW f, NEW b, NEW hits \in Lookups(f, b), NEW e \in hits
  PROVE  e \in Carrying(f) /\ e \in Event /\ Happened(events, e)
  BY DEF Lookups, Carrying, Happened

(* PollLookup (the SF-7 lookup) keeps the invariant. *)
LEMMA PollLookupSafe ==
  ASSUME NEW r \in Request, BookingInv, BookingInv', SafetyInv, PollLookup(r)
  PROVE  SafetyInv'
<1>. DEFINE s == req[r]
<1>1. /\ s \in Local /\ s.pc = "pollLookup" /\ StoreAndCalendarUnchanged
      /\ CacheTrue(events, s) /\ FoundTrue(events, s) /\ RecordTrue(events, s.seen)
      /\ Nothing(events, r) /\ Ours(r, s.seen)
  BY Known DEF PollLookup, Fine, Coherent, Polling
<1>2. ASSUME NEW hits \in Lookups(FpOf[r], BindingOf[s.seen.owner]), NEW e \in hits,
             Goto(r, [s EXCEPT !.pc = "finalize", !.found = e, !.todo = CellsOfSeen(s)])
      PROVE  SafetyInv'
  <2>. DEFINE t == [s EXCEPT !.pc = "finalize", !.found = e, !.todo = CellsOfSeen(s)]
  <2>1. /\ Goto(r, t) /\ t.pc = "finalize" /\ t.cache = s.cache /\ t.found = e
        /\ t.extras = s.extras /\ t.seen = s.seen
    BY <1>1, <1>2 DEF Local
  <2>2. Happened(events, e)
    BY LookupsHappened
  <2>. HIDE DEF t
  <2>3. Knows(events, EndedOnes, r, t)
    BY <1>1, <2>1, <2>2 DEF Knows, CacheTrue, FoundTrue, RecordTrue, RecoveryTrue,
                            AnswerTrue, CreateTrue, Recovering
  <2>4. Idle(t)
    BY <2>1 DEF Idle, Recovering
  <2>. QED  BY <1>1, <2>1, <2>3, <2>4, IdleSafe
<1>3. CASE Answer(r, "unconfirmed")
  BY <1>1, <1>3, AnswerSafe DEF Answers, Refusals
<1>. QED  BY <1>2, <1>3 DEF PollLookup

(* FindBookings (steps 3 and 4) keeps the invariant. *)
LEMMA FindBookingsSafe ==
  ASSUME NEW r \in Request, BookingInv, BookingInv', SafetyInv, FindBookings(r)
  PROVE  SafetyInv'
<1>. DEFINE s == req[r]
            mine(records) == records \cap Carrying(FpOf[r])
<1>1. /\ s \in Local /\ s.pc = "find" /\ StoreAndCalendarUnchanged
      /\ CacheTrue(events, s) /\ Nothing(events, r)
  BY Known DEF FindBookings
<1>2. CASE \E a \in Answers \ {"booked"} : Answer(r, a)
  BY <1>1, <1>2, AnswerSafe
<1>3. CASE \E records \in HorizonLookups(BindingOf[r]) : mine(records) # {} /\ Answer(r, "booked")
  <2>1. \E e \in Carrying(FpOf[r]) : Happened(events, e)
    BY <1>3 DEF HorizonLookups, Happened
  <2>. QED  BY <1>1, <1>3, <2>1, AnswerSafe DEF Answers, Refusals
<1>4. CASE Goto(r, Onward(r, s, "busy"))
  BY <1>1, <1>4, OnwardsKnows, IdleSafe
<1>. QED  BY <1>2, <1>3, <1>4 DEF FindBookings, Answers

(* Busy (step 5) keeps the invariant: step 6 starts at the first cell. *)
LEMMA BusySafe ==
  ASSUME NEW r \in Request, BookingInv, BookingInv', SafetyInv, Busy(r)
  PROVE  SafetyInv'
<1>. DEFINE s == req[r]
<1>1. /\ s \in Local /\ s.pc = "busy" /\ StoreAndCalendarUnchanged
      /\ CacheTrue(events, s) /\ FoundTrue(events, s) /\ RecordTrue(events, s.seen)
      /\ Nothing(events, r)
  BY Known DEF Busy
<1>2. CASE Answer(r, "unavailable")
  BY <1>1, <1>2, AnswerSafe DEF Answers
<1>3. ASSUME NEW loc \in {"busyRead", "claim"}, Goto(r, [s EXCEPT !.pc = loc])
      PROVE  SafetyInv'
  <2>. DEFINE t == [s EXCEPT !.pc = loc]
  <2>1. /\ Goto(r, t) /\ t.pc = loc /\ t.cache = s.cache /\ t.found = s.found
        /\ t.extras = s.extras /\ t.seen = s.seen /\ t.at = s.at
    BY <1>1, <1>3 DEF Local
  <2>. HIDE DEF t
  <2>2. Knows(events, EndedOnes, r, t)
    BY <1>1, <1>3, <2>1 DEF Knows, CacheTrue, FoundTrue, RecordTrue, RecoveryTrue,
                            AnswerTrue, CreateTrue, Recovering
  <2>3. Asks(r, s, t)
    BY <1>1, <1>3, <2>1, Known DEF Asks, Claiming, Recovering, Knows, CreateTrue
  <2>. QED  BY <1>1, <2>1, <2>2, <2>3, QuietSafe
<1>. QED  BY <1>2, <1>3 DEF Busy

(* BusyRead (the re-check of step 5) keeps the invariant. *)
LEMMA BusyReadSafe ==
  ASSUME NEW r \in Request, BookingInv, BookingInv', SafetyInv, BusyRead(r)
  PROVE  SafetyInv'
<1>1. /\ req[r] \in Local /\ req[r].pc = "busyRead" /\ StoreAndCalendarUnchanged
      /\ CacheTrue(events, req[r]) /\ Nothing(events, r)
  BY Known DEF BusyRead
<1>2. CASE Answer(r, "unconfirmed") \/ Answer(r, "taken")
  BY <1>1, <1>2, AnswerSafe DEF Answers, Refusals
<1>3. CASE Goto(r, Again(r, req[r]))
  BY <1>1, <1>3, OnwardsKnows, IdleSafe
<1>. QED  BY <1>2, <1>3 DEF BusyRead

-----------------------------------------------------------------------------
(* Step 6. *)

(* A step that writes one claim, if at all. *)
LEMMA WriteMoves ==
  ASSUME NEW r, BookingInv, NEW c \in Cell, NEW v,
         Write(c, v) \/ UNCHANGED claimVars, RecordTrue(events', v),
         Write(c, v) => \A q \in Request \ {r} : Holds(q, c) =>
           \/ v # None /\ v.owner = q
           \/ Barren(events, EndedOnes, q) \/ SpoiltFp(events, FpOf[q])
  PROVE  ClaimsMove(r)
<1>1. CASE UNCHANGED claimVars
  BY <1>1 DEF ClaimsMove, claimVars
<1>2. CASE Write(c, v)
  <2>1. /\ claims'[c] = v /\ c \notin stale'
        /\ \A d \in Cell : d # c => claims'[d] = claims[d]
        /\ stale' \subseteq stale
    BY <1>2 DEF Write, BookingInv, ClaimInv
  <2>. QED  BY <1>2, <2>1 DEF ClaimsMove, Holds
<1>. QED  BY <1>1, <1>2

(* A request without events needs no cells where it claims none. *)
LEMMA NothingNeeded ==
  ASSUME NEW ev, NEW r \in Request, NEW t, Nothing(ev, r)
  PROVE  /\ ~ \E e \in By(r) : Standing(ev, e)
         /\ Idle(t) => Needed(ev, r, t) = {}
  BY DEF Nothing, Standing, Idle, Needed, Claiming

(* The cells claimed so far, and the next one. *)
LEMMA BelowNext ==
  ASSUME NEW r \in Request, NEW c \in CellsOf(r)
  PROVE  /\ Below(r, c + 1) \subseteq Below(r, c) \cup {c}
         /\ c + 1 \notin CellsOf(r) => CellsOf(r) = Below(r, c) \cup {c}
<1>1. /\ StartOf[FpOf[r]] \in Nat /\ EndOf[FpOf[r]] \in Nat /\ BufferOf[r] \in Nat
  BY CellFacts, CalendarAssumption
<1>. DEFINE a == StartOf[FpOf[r]]
            b == EndOf[FpOf[r]] + BufferOf[r] - 1
<1>2. a \in Int /\ b \in Int /\ CellsOf(r) = a..b
  BY <1>1 DEF CellsOf
<1>. HIDE DEF a, b
<1>3. ASSUME NEW d \in a..b PROVE d < c + 1 => d < c \/ d = c
  BY <1>2
<1>4. ASSUME c + 1 \notin a..b, NEW d \in a..b PROVE d < c \/ d = c
  BY <1>2, <1>4
<1>. QED  BY <1>2, <1>3, <1>4 DEF Below

(* ClaimCell (try_claim at step 6) keeps the invariant. *)
LEMMA ClaimCellSafe ==
  ASSUME NEW r \in Request, BookingInv, BookingInv', SafetyInv, ClaimCell(r)
  PROVE  SafetyInv'
<1>. DEFINE s == req[r]
            c == s.at
            onward == [s EXCEPT !.at = c + 1, !.retried = FALSE]
            create == [s EXCEPT !.pc = "create", !.retried = FALSE]
            released == ReleaseThen(r, s, Acquired(r), "unavailable")
<1>1. /\ s \in Local /\ s.pc = "claim" /\ events' = events /\ c \in CellsOf(r)
      /\ CacheTrue(events, s) /\ FoundTrue(events, s) /\ RecordTrue(events, s.seen)
      /\ Nothing(events, r)
  BY Known DEF ClaimCell, Fine, Coherent
<1>2. c \in Cell /\ <<r, 2>> \in By(r)
  BY <1>1, CellFacts, ByFacts
<1>3. MyRecord(r).owner = r /\ MyRecord(r) # None /\ MyRecord(r).state = "pending"
  BY MyRecordGood, GoodRecordFacts DEF MyRecord, Pending
<1>4. ClaimsMove(r)
  <2>1. RecordTrue(events', MyRecord(r))
    BY <1>3 DEF RecordTrue
  <2>2. TryClaim(c, MyRecord(r)) => Write(c, MyRecord(r)) /\ \A q \in Request : ~Holds(q, c)
    BY DEF TryClaim, Holds
  <2>3. CASE TryClaim(c, MyRecord(r))
    BY <1>2, <2>1, <2>2, <2>3, WriteMoves
  <2>4. CASE UNCHANGED claimVars
    BY <2>4 DEF ClaimsMove, claimVars
  <2>. QED  BY <2>3, <2>4 DEF ClaimCell
<1>5. Aging(events, events', {r})
  BY <1>1, NoAging
<1>6. ASSUME NEW t, TryClaim(c, MyRecord(r)), Goto(r, t), t.cache = s.cache,
             t.found = s.found, t.extras = s.extras, t.seen = s.seen,
             \/ t.pc = "claim" /\ t.at = c + 1
             \/ t.pc = "create" /\ c + 1 \notin CellsOf(r)
      PROVE  SafetyInv'
  <2>1. Knows(events', EndedOnes, r, t)
    BY <1>1, <1>2, <1>6 DEF Knows, CacheTrue, FoundTrue, RecordTrue, RecoveryTrue,
                            AnswerTrue, CreateTrue, Recovering, Nothing
  <2>2. Needed(events', r, t) \subseteq Below(r, c) \cup {c}
    BY <1>1, <1>6, BelowNext, NothingNeeded DEF Needed, Claiming, Recovering
  <2>3. Below(r, c) \subseteq Needed(events, r, s)
    BY <1>1 DEF Needed, Claiming, Below
  <2>4. ASSUME ~SpoiltFp(events', FpOf[r]), NEW d \in Needed(events', r, t)
        PROVE  Holds(r, d)'
    <3>1. claims'[c] = MyRecord(r) /\ \A b \in Cell : b # c => claims'[b] = claims[b]
      BY <1>2, <1>6 DEF TryClaim, Write, BookingInv, ClaimInv
    <3>2. CASE d = c
      BY <1>3, <3>1, <3>2 DEF Holds
    <3>3. CASE d # c
      <4>1. d \in Below(r, c)
        BY <2>2, <3>3
      <4>2. d \in Cell
        BY <4>1, CellFacts DEF Below
      <4>3. Holds(r, d)
        BY <1>1, <2>3, <2>4, <4>1 DEF SafetyInv, Covered
      <4>. QED  BY <3>1, <3>3, <4>2, <4>3 DEF Holds
    <3>. QED  BY <3>2, <3>3
  <2>. QED  BY <1>1, <1>4, <1>5, <1>6, <2>1, <2>4, MoveSafe
<1>7. CASE TryClaim(c, MyRecord(r)) /\ c + 1 \in CellsOf(r) /\ Goto(r, onward)
  <2>1. /\ Goto(r, onward) /\ onward.pc = "claim" /\ onward.at = c + 1
        /\ onward.cache = s.cache /\ onward.found = s.found
        /\ onward.extras = s.extras /\ onward.seen = s.seen
    BY <1>1, <1>7 DEF Local
  <2>. HIDE DEF onward
  <2>. QED  BY <1>6, <1>7, <2>1
<1>8. CASE TryClaim(c, MyRecord(r)) /\ c + 1 \notin CellsOf(r) /\ Goto(r, create)
  <2>1. /\ Goto(r, create) /\ create.pc = "create"
        /\ create.cache = s.cache /\ create.found = s.found
        /\ create.extras = s.extras /\ create.seen = s.seen
    BY <1>1, <1>8 DEF Local
  <2>. HIDE DEF create
  <2>. QED  BY <1>6, <1>8, <2>1
<1>9. CASE Goto(r, released)
  <2>1. Knows(events', EndedOnes, r, released) /\ Idle(released)
    BY <1>1, ReleaseThenKnows DEF Answers
  <2>2. Needed(events', r, released) = {}
    BY <1>1, <2>1, NothingNeeded
  <2>. QED  BY <1>1, <1>4, <1>5, <1>9, <2>1, <2>2, MoveSafe
<1>. QED  BY <1>7, <1>8, <1>9 DEF ClaimCell

(* MeetHeld (_on_held) keeps the invariant. *)
LEMMA MeetHeldSafe ==
  ASSUME NEW r \in Request, BookingInv, BookingInv', SafetyInv, MeetHeld(r)
  PROVE  SafetyInv'
<1>. DEFINE s == req[r]
            held == claims[s.at]
            met == [s EXCEPT !.seen = held, !.caller = "step6"]
            polling == [met EXCEPT !.seenOwn = TRUE]
            recover == [met EXCEPT !.pc = "recover"]
<1>1. /\ s \in Local /\ s.pc = "claim" /\ StoreAndCalendarUnchanged /\ s.at \in Cell
      /\ CacheTrue(events, s) /\ FoundTrue(events, s) /\ RecordTrue(events, s.seen)
      /\ Nothing(events, r) /\ held # None
  BY Known DEF MeetHeld, Local
<1>2. /\ RecordTrue(events, held) /\ held \in Record
      /\ StalePending(s.at) => Settled(events, EndedOnes, held.owner)
  BY <1>1, HeldTrue, HeldFacts, GoodRecordFacts DEF BookingInv
<1>3. CASE Goto(r, Again(r, s))
  BY <1>1, <1>3, OnwardsKnows, IdleSafe
<1>4. CASE \E k \in {"taken", "again"} : Goto(r, ReleaseThen(r, s, Acquired(r), k))
  <2>1. PICK k \in {"taken", "again"} : Goto(r, ReleaseThen(r, s, Acquired(r), k))
    BY <1>4
  <2>2. k \in Answers \cup {"again", "poll"} /\ k # "cancelled" /\ k # "booked"
    BY DEF Answers
  <2>3. /\ Knows(events, EndedOnes, r, ReleaseThen(r, s, Acquired(r), k))
        /\ Idle(ReleaseThen(r, s, Acquired(r), k))
    BY <1>1, <2>2, ReleaseThenKnows
  <2>. QED  BY <1>1, <2>1, <2>3, IdleSafe
<1>5. CASE Goto(r, ReleaseThen(r, polling, Acquired(r), "poll"))
  <2>1. /\ polling \in Local /\ polling.cache = s.cache /\ polling.found = s.found
        /\ polling.extras = s.extras /\ polling.seen = held
    BY <1>1, <1>2 DEF Local
  <2>2. Goto(r, ReleaseThen(r, polling, Acquired(r), "poll"))
    BY <1>5
  <2>. HIDE DEF polling
  <2>3. /\ CacheTrue(events, polling) /\ FoundTrue(events, polling)
        /\ RecordTrue(events, polling.seen)
    BY <1>1, <1>2, <2>1 DEF CacheTrue, FoundTrue
  <2>4. /\ Knows(events, EndedOnes, r, ReleaseThen(r, polling, Acquired(r), "poll"))
        /\ Idle(ReleaseThen(r, polling, Acquired(r), "poll"))
    BY <1>1, <2>1, <2>3, ReleaseThenKnows
  <2>. QED  BY <1>1, <2>2, <2>4, IdleSafe
<1>6. CASE ~(s.retried \/ LivePending(s.at)) /\ Goto(r, recover)
  <2>1. /\ Goto(r, recover) /\ recover.pc = "recover" /\ recover.at = s.at
        /\ recover.cache = s.cache /\ recover.found = s.found
        /\ recover.extras = s.extras /\ recover.seen = held
    BY <1>1, <1>2, <1>6 DEF Local
  <2>2. held.state = "pending" => StalePending(s.at)
    BY <1>1, <1>6 DEF LivePending, StalePending
  <2>. HIDE DEF recover
  <2>3. Knows(events, EndedOnes, r, recover)
    BY <1>1, <1>2, <2>1, <2>2 DEF Knows, CacheTrue, FoundTrue, RecoveryTrue, AnswerTrue,
                                  CreateTrue, Recovering
  <2>4. Asks(r, s, recover)
    BY <1>1, <2>1 DEF Asks, Claiming
  <2>. QED  BY <1>1, <2>1, <2>3, <2>4, QuietSafe
<1>. QED  BY <1>3, <1>4, <1>5, <1>6 DEF MeetHeld

-----------------------------------------------------------------------------
(* Recovery. *)

(* A step that writes claims, and after which no other cells are needed. *)
LEMMA WriteSafe ==
  ASSUME NEW r \in Request, NEW t, BookingInv, BookingInv', SafetyInv, Goto(r, t),
         req[r].pc # "done", UNCHANGED events, Knows(events, EndedOnes, r, t),
         Asks(r, req[r], t), ClaimsMove(r),
         ~SpoiltFp(events, FpOf[r]) =>
           \A c \in Needed(events, r, t) : Holds(r, c) => Holds(r, c)'
  PROVE  SafetyInv'
<1>1. Aging(events, events', {r}) /\ Knows(events', EndedOnes, r, t)
  BY NoAging
<1>2. Needed(events, r, t) \subseteq Needed(events, r, req[r])
  BY FineAfter, AsksNoMore DEF Fine, Local
<1>3. ~SpoiltFp(events', FpOf[r]) => \A c \in Needed(events', r, t) : Holds(r, c)'
  BY <1>2 DEF SafetyInv, Covered
<1>. QED  BY <1>1, <1>3, MoveSafe

(* A recovery step that goes on judging: only what it knows may change. *)
LEMMA JudgingKnows ==
  ASSUME NEW r \in Request, NEW s, NEW t, BookingInv, SafetyInv, s = req[r],
         s.pc \in Recovering, t.pc \in Recovering,
         CacheTrue(events, t), FoundTrue(events, t), RecordTrue(events, t.seen),
         RecoveryTrue(events, EndedOnes, t)
  PROVE  Knows(events, EndedOnes, r, t)
<1>1. Nothing(events, r)
  BY Known DEF Recovering
<1>. QED  BY <1>1 DEF Knows, AnswerTrue, CreateTrue, Recovering

(* What the invariant says of a request in recovery. *)
LEMMA RecoveringKnown ==
  ASSUME NEW r \in Request, BookingInv, SafetyInv, req[r].pc \in Recovering
  PROVE  /\ req[r] \in Local /\ Judging(r, req[r]) /\ req[r].at \in Cell
         /\ req[r].seen \in GoodRecord /\ req[r].seen # None
         /\ req[r].seen.owner \in Request
         /\ req[r].seen.state \in {"pending", "booked"}
         /\ CacheTrue(events, req[r]) /\ FoundTrue(events, req[r])
         /\ RecordTrue(events, req[r].seen) /\ RecoveryTrue(events, EndedOnes, req[r])
         /\ Nothing(events, r)
<1>1. req[r].seen \in GoodRecord /\ req[r].seen.owner \in Request
  BY SeenCells DEF Recovering, UsesSeen
<1>2. req[r].seen.state \in {"pending", "booked"} /\ req[r].seen # None
  BY <1>1, GoodRecordFacts DEF Record
<1>. QED  BY <1>1, <1>2, Known DEF Judging, Fine, Coherent, Local, Knows, Recovering

(* Recovery fails and returns. *)
LEMMA FailsSafe ==
  ASSUME NEW r \in Request, NEW s, BookingInv, BookingInv', SafetyInv,
         req[r].pc \in Recovering, Judging(r, s),
         s.at = req[r].at, s.caller = req[r].caller,
         NEW action, MayReturn(r, s, action), Goto(r, Resume(r, s, action)),
         UNCHANGED events, ClaimsMove(r),
         ~SpoiltFp(events, FpOf[r]) => \A c \in Cell : Holds(r, c) => Holds(r, c)'
  PROVE  SafetyInv'
<1>1. Knows(events, EndedOnes, r, Resume(r, s, action)) /\ Returns(s, Resume(r, s, action))
  BY ResumeKnows
<1>2. Asks(r, req[r], Resume(r, s, action))
  BY <1>1, ReturnsAsks
<1>3. Needed(events, r, Resume(r, s, action)) \subseteq Cell
  BY CellFacts DEF Needed, Below
<1>4. req[r].pc # "done"
  BY DEF Recovering
<1>. QED  BY <1>1, <1>2, <1>3, <1>4, WriteSafe

(* Claims that do not change move nobody's. *)
LEMMA StillClaims ==
  ASSUME NEW r, UNCHANGED claimVars
  PROVE  ClaimsMove(r) /\ \A c : Holds(r, c) => Holds(r, c)'
  BY DEF ClaimsMove, claimVars, Holds

(* RecoverPending (the lookup for a stale record) keeps the invariant. *)
LEMMA RecoverPendingSafe ==
  ASSUME NEW r \in Request, BookingInv, BookingInv', SafetyInv, RecoverPending(r)
  PROVE  SafetyInv'
<1>. DEFINE s == req[r]
            q == s.seen.owner
            writing(k) == [s EXCEPT !.pc = "recWrite", !.found = k]
<1>1. s.pc = "recover" /\ s.seen.state = "pending" /\ UNCHANGED <<claimVars, events>>
  BY DEF RecoverPending
<1>2. s.pc \in Recovering
  BY <1>1 DEF Recovering
<1>3. /\ s \in Local /\ Judging(r, s) /\ q \in Request /\ Settled(events, EndedOnes, q)
      /\ CacheTrue(events, s) /\ FoundTrue(events, s) /\ RecordTrue(events, s.seen)
      /\ Nothing(events, r)
  BY <1>1, <1>2, RecoveringKnown DEF RecoveryTrue
<1>4. ASSUME NEW hits \in Lookups(FpOf[q], BindingOf[q]), NEW k, Goto(r, writing(k)),
             k \in hits \/ (k = None /\ hits = {})
      PROVE  SafetyInv'
  <2>. DEFINE t == writing(k)
  <2>1. /\ Goto(r, t) /\ t.pc = "recWrite" /\ t.found = k /\ t.seen = s.seen
        /\ t.cache = s.cache /\ t.extras = s.extras /\ t.at = s.at /\ t.caller = s.caller
    BY <1>3, <1>4 DEF Local
  <2>. HIDE DEF t
  <2>2. k # None => Happened(events, k)
    BY <1>4, LookupsHappened
  <2>3. k = None => Barren(events, EndedOnes, q)
    <3>1. SUFFICES ASSUME k = None, NEW e \in By(q), events[e] = "live" PROVE FALSE
      BY <1>3 DEF Settled, Barren, Standing
    <3>2. hits = {}
      <4>1. k \in hits => k \in Event
        BY LookupsHappened
      <4>. QED  BY <1>4, <3>1, <4>1, NoneAssumption
    <3>3. e \in Carrying(FpOf[q]) /\ Creator(e) = q
      BY <1>3, ByFacts
    <3>4. e \in hits
      BY <3>1, <3>3 DEF Lookups
    <3>. QED  BY <3>2, <3>4
  <2>4. Knows(events, EndedOnes, r, t)
    <3>1. CacheTrue(events, t) /\ FoundTrue(events, t) /\ RecordTrue(events, t.seen)
      BY <1>3, <2>1, <2>2 DEF CacheTrue, FoundTrue
    <3>2. RecoveryTrue(events, EndedOnes, t)
      BY <1>1, <1>3, <2>1, <2>3 DEF RecoveryTrue
    <3>. QED  BY <1>2, <2>1, <3>1, <3>2, JudgingKnows DEF Recovering
  <2>5. Asks(r, s, t)
    BY <1>2, <2>1 DEF Asks, Claiming, Recovering
  <2>. QED  BY <1>1, <2>1, <2>4, <2>5, QuietSafe DEF StoreAndCalendarUnchanged
<1>5. CASE Goto(r, Resume(r, s, "failed"))
  <2>1. MayReturn(r, s, "failed")
    BY <1>3 DEF MayReturn, Outcomes
  <2>. QED  BY <1>1, <1>2, <1>3, <1>5, <2>1, StillClaims, FailsSafe
<1>. QED  BY <1>4, <1>5 DEF RecoverPending

(* RecoverBooked (the check of a finalized record's event) keeps the       *)
(* invariant.                                                              *)
LEMMA RecoverBookedSafe ==
  ASSUME NEW r \in Request, BookingInv, BookingInv', SafetyInv, RecoverBooked(r)
  PROVE  SafetyInv'
<1>. DEFINE s == req[r]
            e == s.seen.event
            status == IF s.cache[e] = "none" THEN events[e] ELSE s.cache[e]
            known == [s EXCEPT !.cache[e] = status]
            writing == [known EXCEPT !.pc = "recWrite", !.found = None]
<1>1. s.pc = "recover" /\ s.seen.state = "booked" /\ UNCHANGED <<claimVars, events>>
  BY DEF RecoverBooked
<1>2. s.pc \in Recovering
  BY <1>1 DEF Recovering
<1>3. /\ s \in Local /\ Judging(r, s) /\ s.seen \in GoodRecord /\ s.seen # None
      /\ CacheTrue(events, s) /\ FoundTrue(events, s) /\ RecordTrue(events, s.seen)
      /\ Nothing(events, r)
  BY <1>1, <1>2, RecoveringKnown
<1>4. e \in Event /\ Happened(events, e)
  BY <1>1, <1>3 DEF GoodRecord, Carrying, RecordTrue
<1>5. status \in EventStatus /\ (status \in {"moved", "gone", "deleted"} => Spoiled(events, e))
  BY <1>3, <1>4 DEF BookingInv, CalendarTypeOK, Local, CacheTrue, Spoiled
<1>6. /\ known = [s EXCEPT !.cache[e] = status]
      /\ known.cache = [s.cache EXCEPT ![e] = status]
      /\ known.pc = s.pc /\ known.at = s.at /\ known.caller = s.caller /\ known.seen = s.seen
      /\ known.found = s.found /\ known.extras = s.extras /\ known.cas = s.cas
      /\ known \in Local
  BY <1>3, <1>5 DEF Local
<1>7. CacheTrue(events, known)
  <2>1. \A d \in Event : known.cache[d] = IF d = e THEN status ELSE s.cache[d]
    BY <1>3, <1>4, <1>6 DEF Local
  <2>. QED  BY <1>3, <1>4, <1>5, <2>1 DEF CacheTrue
<1>8. CASE status \notin Absent /\ Goto(r, Resume(r, known, "kept"))
  <2>1. Ours(r, known.seen) => \E d \in Carrying(FpOf[r]) : Happened(events, d)
    BY <1>1, <1>3, <1>6, BookedSeen
  <2>2. MayReturn(r, known, "kept")
    BY <1>3, <1>6, <1>7, <2>1 DEF MayReturn, Outcomes, Judging, FoundTrue
  <2>3. Judging(r, known)
    BY <1>3, <1>6 DEF Judging
  <2>4. Goto(r, Resume(r, known, "kept"))
    BY <1>8
  <2>. HIDE DEF known
  <2>. QED  BY <1>1, <1>2, <1>6, <2>2, <2>3, <2>4, StillClaims, FailsSafe
<1>9. CASE status \in {"moved"} \cup Absent /\ Goto(r, writing)
  <2>1. /\ Goto(r, writing) /\ writing.pc = "recWrite" /\ writing.found = None
        /\ writing.seen = s.seen /\ writing.cache = known.cache
        /\ writing.extras = s.extras /\ writing.at = s.at /\ writing.caller = s.caller
    BY <1>6, <1>9 DEF Local
  <2>2. Spoiled(events, e)
    BY <1>5, <1>9 DEF Absent
  <2>. HIDE DEF known, writing
  <2>3. RecoveryTrue(events, EndedOnes, writing)
    BY <1>1, <2>1, <2>2 DEF RecoveryTrue
  <2>4. Knows(events, EndedOnes, r, writing)
    BY <1>2, <1>3, <1>7, <2>1, <2>3, JudgingKnows DEF Recovering, CacheTrue, FoundTrue
  <2>5. Asks(r, s, writing)
    BY <1>2, <2>1 DEF Asks, Claiming, Recovering
  <2>. QED  BY <1>1, <2>1, <2>4, <2>5, QuietSafe DEF StoreAndCalendarUnchanged
<1>10. CASE Goto(r, Resume(r, s, "failed"))
  <2>1. MayReturn(r, s, "failed")
    BY <1>3 DEF MayReturn, Outcomes
  <2>. QED  BY <1>1, <1>2, <1>3, <1>10, <2>1, StillClaims, FailsSafe
<1>. QED  BY <1>8, <1>9, <1>10 DEF RecoverBooked

(* What recovery may write into a cell, it takes from nobody who needs it. *)
LEMMA RecoveryWrites ==
  ASSUME NEW r \in Request, BookingInv, SafetyInv, req[r].pc \in {"recWrite", "siblings"},
         UNCHANGED events, NEW c \in Cell,
         claims[c] = req[r].seen \/ (claims[c] = None /\ req[r].found = None),
         Write(c, Verdict(req[r])) \/ UNCHANGED claimVars
  PROVE  /\ ClaimsMove(r)
         /\ ~SpoiltFp(events, FpOf[r]) => \A d \in Cell : Holds(r, d) => Holds(r, d)'
<1>. DEFINE s == req[r]
            v == Verdict(s)
            q == s.seen.owner
<1>1. /\ s.pc \in Recovering /\ s.seen \in GoodRecord /\ s.seen # None /\ q \in Request
      /\ s.seen.state \in {"pending", "booked"}
      /\ FoundTrue(events, s) /\ RecoveryTrue(events, EndedOnes, s)
  BY RecoveringKnown DEF Recovering
<1>2. s.found # None => v = BookedAs(s.seen, s.found) /\ v.owner = q /\ v # None
                        /\ v.event = s.found
  <2>1. s.found # None => s.found \in Carrying(FpOf[q])
    BY Known DEF Fine, Coherent
  <2>2. s.found # None => BookedAs(s.seen, s.found) \in GoodRecord
                          /\ BookedAs(s.seen, s.found).owner = q
    BY <1>1, <2>1, BookedGood
  <2>3. BookedAs(s.seen, s.found).event = s.found
    BY <1>1 DEF BookedAs, GoodRecord, Record
  <2>. QED  BY <2>2, <2>3, GoodRecordFacts DEF Verdict
<1>3. s.found = None => v = None
  BY DEF Verdict
<1>4. RecordTrue(events', v)
  BY <1>1, <1>2, <1>3 DEF RecordTrue, FoundTrue
<1>5. s.found = None => Barren(events, EndedOnes, q) \/ SpoiltFp(events, FpOf[q])
  <2>1. s.seen.state = "booked" => s.seen.event \in Carrying(FpOf[q])
    BY <1>1 DEF GoodRecord
  <2>. QED  BY <1>1, <2>1 DEF RecoveryTrue, SpoiltFp
<1>6. \A p \in Request : Holds(p, c) =>
        p = q /\ (\/ v # None /\ v.owner = p
                  \/ Barren(events, EndedOnes, p) \/ SpoiltFp(events, FpOf[p]))
  BY <1>2, <1>5 DEF Holds
<1>7. Write(c, v) \/ UNCHANGED claimVars
  OBVIOUS
<1>. HIDE DEF v
<1>8. ClaimsMove(r)
  BY <1>4, <1>6, <1>7, WriteMoves
<1>9. ASSUME ~SpoiltFp(events, FpOf[r]), NEW d \in Cell, Holds(r, d) PROVE Holds(r, d)'
  <2>1. CASE UNCHANGED claimVars
    BY <1>9, <2>1 DEF claimVars, Holds
  <2>2. CASE Write(c, v)
    <3>1. claims'[c] = v /\ \A b \in Cell : b # c => claims'[b] = claims[b]
      BY <2>2 DEF Write, BookingInv, ClaimInv
    <3>2. CASE d # c
      BY <1>9, <3>1, <3>2 DEF Holds
    <3>3. CASE d = c
      <4>1. r \notin EndedOnes
        BY <1>1 DEF EndedOnes, Recovering
      <4>2. v # None /\ v.owner = r
        BY <1>6, <1>9, <3>3, <4>1 DEF Barren
      <4>. QED  BY <3>1, <3>3, <4>2 DEF Holds
    <3>. QED  BY <3>2, <3>3
  <2>. QED  BY <1>7, <2>1, <2>2
<1>. QED  BY <1>8, <1>9

(* What recovery returns with once it has written: the event it finalized  *)
(* with was created.                                                       *)
LEMMA WroteReturns ==
  ASSUME NEW r \in Request, BookingInv, SafetyInv, req[r].pc \in {"recWrite", "siblings"},
         NEW s, Judging(r, s), s.cache = req[r].cache, s.found = req[r].found,
         s.extras = req[r].extras, s.seen = req[r].seen
  PROVE  /\ MayReturn(r, s, IF s.found = None THEN "released" ELSE "finalized")
         /\ MayReturn(r, s, "failed")
<1>1. /\ req[r].seen \in GoodRecord /\ req[r].seen # None
      /\ CacheTrue(events, s) /\ FoundTrue(events, s) /\ RecordTrue(events, s.seen)
      /\ Nothing(events, r)
  BY RecoveringKnown DEF Recovering, CacheTrue, FoundTrue
<1>2. s.found # None => s.found \in Carrying(FpOf[s.seen.owner])
  BY Known DEF Fine, Coherent
<1>3. Ours(r, s.seen) /\ s.found # None =>
        \E e \in Carrying(FpOf[r]) : Happened(events, e)
  BY <1>1, <1>2 DEF Ours, FoundTrue
<1>. QED  BY <1>1, <1>3 DEF MayReturn, Outcomes

(* RecoverWrite (the compare-and-swap of a recovery) keeps the invariant.  *)
LEMMA RecoverWriteSafe ==
  ASSUME NEW r \in Request, BookingInv, BookingInv', SafetyInv, RecoverWrite(r)
  PROVE  SafetyInv'
<1>. DEFINE s == req[r]
            others == IF s.seen.state = "pending" THEN CellsOfSeen(s) \ {s.at} ELSE {}
            swap == IF s.found = None THEN Release(s.at, s.seen)
                    ELSE Replace(s.at, s.seen, Verdict(s))
            done == IF s.found = None THEN "released" ELSE "finalized"
            onward == [s EXCEPT !.pc = "siblings", !.todo = others]
            reread == [s EXCEPT !.pc = "recRead"]
<1>1. s.pc = "recWrite" /\ UNCHANGED events /\ s.pc \in Recovering
  BY DEF RecoverWrite, Recovering
<1>2. /\ s \in Local /\ Judging(r, s) /\ s.at \in Cell
      /\ CacheTrue(events, s) /\ FoundTrue(events, s) /\ RecordTrue(events, s.seen)
      /\ RecoveryTrue(events, EndedOnes, s)
  BY <1>1, RecoveringKnown
<1>3. ASSUME swap \/ UNCHANGED claimVars
      PROVE  /\ ClaimsMove(r)
             /\ ~SpoiltFp(events, FpOf[r]) => \A d \in Cell : Holds(r, d) => Holds(r, d)'
  <2>1. swap => /\ claims[s.at] = s.seen \/ (claims[s.at] = None /\ s.found = None)
                /\ Write(s.at, Verdict(s))
    BY DEF Release, Replace, Verdict
  <2>2. CASE swap
    BY <1>1, <1>2, <2>1, <2>2, RecoveryWrites
  <2>3. CASE UNCHANGED claimVars
    BY <2>3, StillClaims
  <2>. QED  BY <1>3, <2>2, <2>3
<1>4. MayReturn(r, s, done) /\ MayReturn(r, s, "failed")
  BY <1>1, <1>2, WroteReturns
<1>5. CASE (swap \/ UNCHANGED claimVars) /\ \E a \in {done, "failed"} : Goto(r, Resume(r, s, a))
  <2>1. PICK a \in {done, "failed"} : Goto(r, Resume(r, s, a))
    BY <1>5
  <2>. QED  BY <1>1, <1>2, <1>3, <1>4, <1>5, <2>1, FailsSafe
<1>6. ASSUME NEW t, Goto(r, t), t.pc \in {"siblings", "recRead"}, t.seen = s.seen,
             t.found = s.found, t.cache = s.cache, t.extras = s.extras, t.at = s.at,
             t.caller = s.caller, swap \/ UNCHANGED claimVars
      PROVE  SafetyInv'
  <2>1. CacheTrue(events, t) /\ FoundTrue(events, t) /\ RecordTrue(events, t.seen)
    BY <1>2, <1>6 DEF CacheTrue, FoundTrue
  <2>2. RecoveryTrue(events, EndedOnes, t)
    BY <1>1, <1>2, <1>6 DEF RecoveryTrue, Recovering
  <2>3. Knows(events, EndedOnes, r, t)
    BY <1>1, <1>6, <2>1, <2>2, JudgingKnows DEF Recovering
  <2>4. Asks(r, s, t)
    BY <1>1, <1>6 DEF Asks, Claiming, Recovering
  <2>5. Needed(events, r, t) \subseteq Cell
    BY CellFacts DEF Needed, Below
  <2>. QED  BY <1>1, <1>3, <1>6, <2>3, <2>4, <2>5, WriteSafe
<1>7. CASE swap /\ Goto(r, onward)
  <2>1. /\ Goto(r, onward) /\ onward.pc = "siblings" /\ onward.seen = s.seen
        /\ onward.found = s.found /\ onward.cache = s.cache /\ onward.extras = s.extras
        /\ onward.at = s.at /\ onward.caller = s.caller
    BY <1>2, <1>7 DEF Local
  <2>. HIDE DEF onward
  <2>. QED  BY <1>6, <1>7, <2>1
<1>8. CASE UNCHANGED claimVars /\ Goto(r, reread)
  <2>1. /\ Goto(r, reread) /\ reread.pc = "recRead" /\ reread.seen = s.seen
        /\ reread.found = s.found /\ reread.cache = s.cache /\ reread.extras = s.extras
        /\ reread.at = s.at /\ reread.caller = s.caller
    BY <1>2, <1>8 DEF Local
  <2>. HIDE DEF reread
  <2>. QED  BY <1>6, <1>8, <2>1
<1>. QED  BY <1>5, <1>7, <1>8 DEF RecoverWrite

(* RecoverRead (the re-read after a lost swap) keeps the invariant.        *)
LEMMA RecoverReadSafe ==
  ASSUME NEW r \in Request, BookingInv, BookingInv', SafetyInv, RecoverRead(r)
  PROVE  SafetyInv'
<1>. DEFINE s == req[r]
            held == claims[s.at]
            lost == [s EXCEPT !.cas = @ + 1, !.found = None]
            again == [lost EXCEPT !.seen = held]
            judging == [again EXCEPT !.pc = "recover"]
<1>1. /\ s.pc = "recRead" /\ UNCHANGED <<claimVars, events>>
      /\ s.pc \in Recovering /\ s.pc # "done"
  BY DEF RecoverRead, Recovering
<1>2. /\ s \in Local /\ Judging(r, s) /\ s.at \in Cell /\ s.at \in CellsOf(r)
      /\ s.seen \in GoodRecord
      /\ CacheTrue(events, s) /\ FoundTrue(events, s) /\ RecordTrue(events, s.seen)
      /\ Nothing(events, r)
  BY <1>1, RecoveringKnown DEF Judging
<1>3. /\ lost \in Local /\ lost.cas > 1 /\ lost.found = None /\ lost.seen = s.seen
      /\ lost.cache = s.cache /\ lost.extras = s.extras /\ lost.at = s.at
      /\ lost.caller = s.caller /\ lost.pc = s.pc
  <2>1. s.cas \in 1..MaxCas
    BY <1>2, CasAssumption, Known DEF Fine, Coherent, Local
  <2>2. s.cas + 1 \in 1..(MaxCas + 1) /\ s.cas + 1 > 1
    BY <2>1, CasAssumption
  <2>. QED  BY <1>2, <2>2 DEF Local
<1>4. /\ RecordTrue(events, held) /\ held \in GoodRecord \cup {None}
      /\ StalePending(s.at) => Settled(events, EndedOnes, held.owner)
  BY <1>2, HeldTrue, HeldFacts DEF BookingInv
<1>5. CASE \E a \in {"released", "failed"} : Goto(r, Resume(r, lost, a))
  <2>1. PICK a \in {"released", "failed"} : Goto(r, Resume(r, lost, a))
    BY <1>5
  <2>. HIDE DEF lost
  <2>2. Judging(r, lost) /\ CacheTrue(events, lost) /\ FoundTrue(events, lost)
        /\ RecordTrue(events, lost.seen)
    BY <1>2, <1>3 DEF Judging, CacheTrue, FoundTrue
  <2>3. MayReturn(r, lost, a)
    BY <1>2, <2>2 DEF MayReturn, Outcomes
  <2>. QED  BY <1>1, <1>3, <2>1, <2>2, <2>3, StillClaims, FailsSafe
<1>6. held # None =>
        /\ again \in Local /\ again.cas > 1 /\ again.found = None /\ again.seen = held
        /\ again.cache = s.cache /\ again.extras = s.extras /\ again.at = s.at
        /\ again.caller = s.caller
        /\ judging.pc = "recover" /\ judging.found = None /\ judging.seen = held
        /\ judging.cache = s.cache /\ judging.extras = s.extras /\ judging.at = s.at
        /\ judging.caller = s.caller
  <2>1. held # None => held \in Record
    BY <1>4, GoodRecordFacts
  <2>. HIDE DEF lost
  <2>. QED  BY <1>3, <2>1 DEF Local
<1>7. CASE held # None /\ Goto(r, Resume(r, again, "held"))
  <2>1. again \in Local /\ again = [lost EXCEPT !.seen = held]
    BY <1>6, <1>7
  <2>2. Goto(r, Resume(r, again, "held"))
    BY <1>7
  <2>. HIDE DEF again
  <2>3. Judging(r, again) /\ CacheTrue(events, again) /\ FoundTrue(events, again)
        /\ RecordTrue(events, again.seen)
    BY <1>2, <1>4, <1>6, <1>7, <2>1 DEF Judging, CacheTrue, FoundTrue
  <2>4. MayReturn(r, again, "held")
    BY <1>2, <1>6, <1>7, <2>3 DEF MayReturn, Outcomes
  <2>. QED  BY <1>1, <1>6, <1>7, <2>2, <2>3, <2>4, StillClaims, FailsSafe
<1>8. CASE held # None /\ ~LivePending(s.at) /\ Goto(r, judging)
  <2>1. Goto(r, judging)
    BY <1>8
  <2>. HIDE DEF judging, again, lost
  <2>2. held.state = "pending" => StalePending(s.at)
    BY <1>8 DEF LivePending, StalePending
  <2>3. RecoveryTrue(events, EndedOnes, judging)
    BY <1>4, <1>6, <1>8, <2>2 DEF RecoveryTrue
  <2>4. Knows(events, EndedOnes, r, judging)
    BY <1>1, <1>2, <1>4, <1>6, <1>8, <2>3, JudgingKnows DEF Recovering, CacheTrue, FoundTrue
  <2>5. Asks(r, s, judging)
    BY <1>1, <1>6, <1>8 DEF Asks, Claiming, Recovering
  <2>. QED  BY <1>1, <2>1, <2>4, <2>5, QuietSafe DEF StoreAndCalendarUnchanged
<1>. QED  BY <1>5, <1>7, <1>8 DEF RecoverRead, Judge

(* RecoverSiblings (the other cells of the attempt) keeps the invariant.   *)
LEMMA RecoverSiblingsSafe ==
  ASSUME NEW r \in Request, BookingInv, BookingInv', SafetyInv, RecoverSiblings(r)
  PROVE  SafetyInv'
<1>. DEFINE s == req[r]
            rest(c) == [s EXCEPT !.todo = @ \ {c}]
            done == IF s.found = None THEN "released" ELSE "finalized"
<1>1. s.pc = "siblings" /\ UNCHANGED events /\ s.pc \in Recovering /\ s.pc # "done"
  BY DEF RecoverSiblings, Recovering
<1>2. /\ s \in Local /\ Judging(r, s) /\ s.at \in Cell
      /\ CacheTrue(events, s) /\ FoundTrue(events, s) /\ RecordTrue(events, s.seen)
      /\ RecoveryTrue(events, EndedOnes, s)
  BY <1>1, RecoveringKnown
<1>3. PICK c \in s.todo :
        /\ \/ claims[c] = s.seen /\ c \in stale /\ Write(c, Verdict(s))
           \/ UNCHANGED claimVars
        /\ Goto(r, IF s.todo = {c} THEN Resume(r, rest(c), done) ELSE rest(c))
  BY DEF RecoverSiblings
<1>4. c \in Cell
  BY <1>2, <1>3 DEF Local
<1>5. /\ ClaimsMove(r)
      /\ ~SpoiltFp(events, FpOf[r]) => \A d \in Cell : Holds(r, d) => Holds(r, d)'
  <2>1. CASE claims[c] = s.seen /\ Write(c, Verdict(s))
    BY <1>1, <1>4, <2>1, RecoveryWrites
  <2>2. CASE UNCHANGED claimVars
    BY <2>2, StillClaims
  <2>. QED  BY <1>3, <2>1, <2>2
<1>6. /\ rest(c) \in Local /\ rest(c).pc = s.pc /\ rest(c).seen = s.seen
      /\ rest(c).found = s.found /\ rest(c).cache = s.cache /\ rest(c).extras = s.extras
      /\ rest(c).at = s.at /\ rest(c).caller = s.caller
  BY <1>2 DEF Local
<1>. DEFINE t == rest(c)
<1>7. t = rest(c)
  OBVIOUS
<1>. HIDE DEF t
<1>8. CASE Goto(r, Resume(r, t, done))
  <2>1. Judging(r, t)
    BY <1>2, <1>6, <1>7 DEF Judging
  <2>2. MayReturn(r, t, done)
    BY <1>1, <1>6, <1>7, <2>1, WroteReturns
  <2>. QED  BY <1>1, <1>5, <1>6, <1>7, <1>8, <2>1, <2>2, FailsSafe
<1>9. CASE Goto(r, t)
  <2>1. CacheTrue(events, t) /\ FoundTrue(events, t) /\ RecordTrue(events, t.seen)
    BY <1>2, <1>6, <1>7 DEF CacheTrue, FoundTrue
  <2>2. RecoveryTrue(events, EndedOnes, t)
    BY <1>1, <1>2, <1>6, <1>7 DEF RecoveryTrue, Recovering
  <2>3. Knows(events, EndedOnes, r, t)
    BY <1>1, <1>6, <1>7, <2>1, <2>2, JudgingKnows
  <2>4. Asks(r, s, t)
    BY <1>1, <1>6, <1>7 DEF Asks, Claiming
  <2>5. Needed(events, r, t) \subseteq Cell
    BY CellFacts DEF Needed, Below
  <2>. QED  BY <1>1, <1>5, <1>9, <2>3, <2>4, <2>5, WriteSafe
<1>. QED  BY <1>3, <1>7, <1>8, <1>9

-----------------------------------------------------------------------------
(* Steps 7 and 8. *)

(* A step of request r on the calendar, the claims left alone. *)
LEMMA CalendarSafe ==
  ASSUME NEW r \in Request, NEW t, BookingInv, BookingInv', SafetyInv, Goto(r, t),
         req[r].pc # "done", UNCHANGED claimVars, Aging(events, events', {r}),
         Knows(events', EndedOnes, r, t),
         Needed(events', r, t) \subseteq Needed(events, r, req[r])
  PROVE  SafetyInv'
<1>1. ClaimsMove(r) /\ \A c : Holds(r, c) => Holds(r, c)'
  BY StillClaims
<1>2. ~SpoiltFp(events', FpOf[r]) => ~SpoiltFp(events, FpOf[r])
  BY SpoiltStays
<1>3. ~SpoiltFp(events', FpOf[r]) => \A c \in Needed(events', r, t) : Holds(r, c)'
  BY <1>1, <1>2 DEF SafetyInv, Covered
<1>. QED  BY <1>1, <1>3, MoveSafe

(* What has been read of the calendar stays true. *)
LEMMA ReadStaysTrue ==
  ASSUME NEW ev, NEW after, NEW movers, Aging(ev, after, movers),
         NEW r \in Request, NEW s, Fine(r, s), CacheTrue(ev, s), FoundTrue(ev, s),
         RecordTrue(ev, s.seen)
  PROVE  CacheTrue(after, s) /\ FoundTrue(after, s) /\ RecordTrue(after, s.seen)
<1>1. s \in Local /\ s.extras \subseteq Event /\ s.found \in Event \cup {None}
  BY DEF Fine, Local
<1>2. s.seen # None /\ s.seen.state = "booked" => s.seen.event \in Event
  BY GoodRecordFacts DEF Fine, Coherent, GoodRecord, Carrying
<1>. QED  BY <1>1, <1>2 DEF CacheTrue, FoundTrue, RecordTrue, Aging

(* The record an attempt writes is one of its own booking. *)
LEMMA MyRecordOurs ==
  ASSUME NEW r \in Request, BookingInv
  PROVE  /\ MyRecord(r) \in GoodRecord /\ Ours(r, MyRecord(r))
         /\ \A ev : RecordTrue(ev, MyRecord(r))
<1>1. MyRecord(r) \in GoodRecord /\ MyRecord(r).owner = r /\ MyRecord(r).state = "pending"
  BY MyRecordGood DEF MyRecord, Pending
<1>. QED  BY <1>1, GoodRecordFacts DEF Ours, RecordTrue

(* The event a create is sent for has not been created before. *)
LEMMA CreateIdFresh ==
  ASSUME NEW r \in Request, BookingInv, SafetyInv, req[r].pc = "create"
  PROVE  /\ CreateId(r) \in By(r) /\ CreateId(r) \in Event /\ Creator(CreateId(r)) = r
         /\ CreateId(r) \in Carrying(FpOf[r])
         /\ events[CreateId(r)] = "none"
         /\ ~req[r].second => Nothing(events, r) /\ CreateId(r) # <<r, 2>>
<1>1. CreateTrue(events, r, req[r])
  BY DEF SafetyInv, Knows
<1>2. CreateId(r) \in {<<r, 1>>, <<r, 2>>}
  BY DEF CreateId
<1>3. ~req[r].second => CreateId(r) = <<r, 1>> /\ Nothing(events, r)
  BY <1>1 DEF CreateId, CreateTrue
<1>4. req[r].second => CreateId(r) = <<r, 2>> /\ events[<<r, 2>>] = "none"
  BY <1>1 DEF CreateId, CreateTrue
<1>. QED  BY <1>2, <1>3, <1>4, ByFacts DEF Nothing

(* A create of request r, committed or on its way. *)
LEMMA CreatesAge ==
  ASSUME NEW r \in Request, BookingInv, SafetyInv, req[r].pc = "create",
         NEW st, events' = [events EXCEPT ![CreateId(r)] = st]
  PROVE  /\ Aging(events, events', {r})
         /\ events'[CreateId(r)] = st
         /\ \A e \in Event : e # CreateId(r) => events'[e] = events[e]
<1>1. /\ events'[CreateId(r)] = st
      /\ \A e \in Event : e # CreateId(r) => events'[e] = events[e]
  BY CreateIdFresh DEF BookingInv, CalendarTypeOK
<1>2. events[CreateId(r)] = "none" /\ Creator(CreateId(r)) = r
  BY CreateIdFresh
<1>. HIDE DEF CreateId
<1>3. ASSUME NEW e \in Event
      PROVE  /\ Happened(events, e) => Happened(events', e)
             /\ Spoiled(events, e) => Spoiled(events', e)
             /\ Creator(e) \notin {r} => events'[e] = events[e]
  BY <1>1, <1>2 DEF Happened, Spoiled
<1>4. Aging(events, events', {r})
  BY <1>3 DEF Aging, Standing
<1>. QED  BY <1>1, <1>4

(* An attempt that creates, or has, needs its cells and no others. *)
LEMMA NeedsOwn ==
  ASSUME NEW ev, NEW after, NEW r \in Request, NEW s, NEW t, s.pc \in {"create", "lookup"}
  PROVE  Needed(after, r, t) \subseteq Needed(ev, r, s)
  BY DEF Needed, Below

(* Create (step 7) keeps the invariant. *)
LEMMA CreateSafe ==
  ASSUME NEW r \in Request, BookingInv, BookingInv', SafetyInv, Create(r)
  PROVE  SafetyInv'
<1>. DEFINE s == req[r]
            e == CreateId(r)
            looking(k) == [s EXCEPT !.pc = "lookup", !.found = k]
            created(k) == [s EXCEPT !.pc = "finalize", !.found = k,
                                    !.seen = MyRecord(r), !.todo = CellsOf(r)]
            unsure == [s EXCEPT !.pc = "lookup"]
<1>1. /\ s \in Local /\ s.pc = "create" /\ UNCHANGED claimVars /\ Fine(r, s)
      /\ CacheTrue(events, s) /\ FoundTrue(events, s) /\ RecordTrue(events, s.seen)
  BY Known DEF Create
<1>2. /\ e \in Event /\ e \in By(r) /\ e \in Carrying(FpOf[r]) /\ events[e] = "none"
      /\ ~s.second => Nothing(events, r) /\ e # <<r, 2>>
  BY <1>1, CreateIdFresh
<1>. HIDE DEF e
<1>3. ASSUME NEW t, Goto(r, t), Aging(events, events', {r}),
             t.cache = s.cache, t.extras = s.extras,
             t.found = s.found \/ (t.found \in Event /\ Happened(events', t.found)),
             \/ t.pc = "lookup" /\ t.seen = s.seen /\ t.second = s.second
                /\ (~s.second => events'[<<r, 2>>] = "none")
             \/ t.pc = "finalize" /\ t.seen = MyRecord(r)
      PROVE  SafetyInv'
  <2>1. CacheTrue(events', s) /\ FoundTrue(events', s) /\ RecordTrue(events', s.seen)
    BY <1>1, <1>3, ReadStaysTrue
  <2>2. CacheTrue(events', t) /\ FoundTrue(events', t) /\ RecordTrue(events', t.seen)
    BY <1>3, <2>1, MyRecordOurs DEF CacheTrue, FoundTrue
  <2>3. RecoveryTrue(events', EndedOnes, t) /\ CreateTrue(events', r, t)
    BY <1>3 DEF RecoveryTrue, CreateTrue, Recovering
  <2>4. AnswerTrue(events', r, t)
    BY <1>3, MyRecordOurs DEF AnswerTrue
  <2>5. Needed(events', r, t) \subseteq Needed(events, r, s)
    BY <1>1, NeedsOwn
  <2>. QED  BY <1>1, <1>3, <2>2, <2>3, <2>4, <2>5, CalendarSafe DEF Knows
<1>4. ASSUME NEW k \in Event, CommitCreate(e, k)
      PROVE  /\ Aging(events, events', {r}) /\ Happened(events', k)
             /\ ~s.second => events'[<<r, 2>>] = "none"
  <2>1. CASE UNCHANGED events /\ k \in ActiveFor(FpOf[Creator(e)])
    <3>1. Happened(events', k)
      BY <2>1 DEF ActiveFor, Exists, Happened
    <3>2. Aging(events, events', {r})
      BY <2>1, NoAging
    <3>. QED  BY <1>2, <2>1, <3>1, <3>2, ByFacts DEF Nothing
  <2>2. CASE k = e /\ events' = [events EXCEPT ![e] = Committed]
    <3>1. /\ Aging(events, events', {r}) /\ events'[e] = Committed
          /\ \A d \in Event : d # e => events'[d] = events[d]
      BY <1>1, <2>2, CreatesAge DEF e
    <3>2. Happened(events', k)
      BY <2>2, <3>1 DEF Committed, Happened
    <3>. QED  BY <1>2, <3>1, <3>2, ByFacts DEF Nothing
  <2>. QED  BY <1>4, <2>1, <2>2 DEF CommitCreate
<1>5. ASSUME NEW k \in Event, CommitCreate(e, k),
             Goto(r, IF s.second THEN looking(k) ELSE created(k))
      PROVE  SafetyInv'
  <2>1. CASE s.second
    <3>. DEFINE t == looking(k)
    <3>1. /\ Goto(r, t) /\ t.pc = "lookup" /\ t.found = k /\ t.cache = s.cache
          /\ t.extras = s.extras /\ t.seen = s.seen /\ t.second = s.second
      BY <1>1, <1>5, <2>1 DEF Local
    <3>. HIDE DEF t
    <3>. QED  BY <1>3, <1>4, <1>5, <2>1, <3>1
  <2>2. CASE ~s.second
    <3>. DEFINE t == created(k)
    <3>1. /\ Goto(r, t) /\ t.pc = "finalize" /\ t.found = k /\ t.cache = s.cache
          /\ t.extras = s.extras /\ t.seen = MyRecord(r)
      BY <1>1, <1>5, <2>2 DEF Local
    <3>. HIDE DEF t
    <3>. QED  BY <1>3, <1>4, <1>5, <2>2, <3>1
  <2>. QED  BY <2>1, <2>2
<1>6. CASE UNCHANGED events
           /\ Goto(r, IF s.second THEN unsure
                      ELSE ReleaseThen(r, s, CellsOf(r), "unavailable"))
  <2>1. CASE s.second
    <3>1. /\ Goto(r, unsure) /\ unsure.pc = "lookup" /\ unsure.found = s.found
          /\ unsure.cache = s.cache /\ unsure.extras = s.extras
          /\ unsure.seen = s.seen /\ unsure.second = s.second
      BY <1>1, <1>6, <2>1 DEF Local
    <3>2. Aging(events, events', {r})
      BY <1>6, NoAging
    <3>. HIDE DEF unsure
    <3>. QED  BY <1>3, <2>1, <3>1, <3>2
  <2>2. CASE ~s.second
    <3>. DEFINE t == ReleaseThen(r, s, CellsOf(r), "unavailable")
    <3>1. Goto(r, t)
      BY <1>6, <2>2
    <3>2. Knows(events, EndedOnes, r, t) /\ Idle(t)
      BY <1>1, <1>2, <2>2, ReleaseThenKnows DEF Answers
    <3>. HIDE DEF t
    <3>. QED  BY <1>1, <1>6, <3>1, <3>2, IdleSafe DEF StoreAndCalendarUnchanged
  <2>. QED  BY <2>1, <2>2
<1>7. CASE SendCreate(e) /\ Goto(r, unsure)
  <2>1. /\ Goto(r, unsure) /\ unsure.pc = "lookup" /\ unsure.found = s.found
        /\ unsure.cache = s.cache /\ unsure.extras = s.extras
        /\ unsure.seen = s.seen /\ unsure.second = s.second
    BY <1>1, <1>7 DEF Local
  <2>2. /\ Aging(events, events', {r})
        /\ \A d \in Event : d # e => events'[d] = events[d]
    BY <1>1, <1>7, CreatesAge DEF SendCreate, e
  <2>3. ~s.second => events'[<<r, 2>>] = "none"
    BY <1>2, <2>2, ByFacts DEF Nothing
  <2>. HIDE DEF unsure
  <2>. QED  BY <1>3, <2>1, <2>2, <2>3
<1>8. \/ \E k \in Event : CommitCreate(e, k)
                          /\ Goto(r, IF s.second THEN looking(k) ELSE created(k))
      \/ UNCHANGED events /\ Goto(r, IF s.second THEN unsure
                                     ELSE ReleaseThen(r, s, CellsOf(r), "unavailable"))
      \/ SendCreate(e) /\ Goto(r, unsure)
  BY DEF Create, e
<1>. QED  BY <1>5, <1>6, <1>7, <1>8

(* Lookup (after a create of unknown fate) keeps the invariant. *)
LEMMA LookupSafe ==
  ASSUME NEW r \in Request, BookingInv, BookingInv', SafetyInv, Lookup(r)
  PROVE  SafetyInv'
<1>. DEFINE s == req[r]
            retry == [s EXCEPT !.pc = "create", !.second = TRUE]
<1>1. /\ s \in Local /\ s.pc = "lookup" /\ StoreAndCalendarUnchanged /\ Fine(r, s)
      /\ CacheTrue(events, s) /\ FoundTrue(events, s) /\ RecordTrue(events, s.seen)
      /\ CreateTrue(events, r, s)
  BY Known DEF Lookup, Knows
<1>2. CASE Goto(r, Done(r, "unconfirmed"))
  BY <1>1, <1>2, AnswerSafe DEF Answer, Answers, Refusals
<1>3. ASSUME NEW keep \in Event, NEW hits \in SUBSET Event, Happened(events, keep),
             \A e \in hits : Happened(events, e), Goto(r, KeepOne(r, s, keep, hits))
      PROVE  SafetyInv'
  <2>. DEFINE t == KeepOne(r, s, keep, hits)
  <2>1. /\ Goto(r, t) /\ t.pc \in {"finalize", "dedupe"} /\ t.found = keep
        /\ t.extras = hits \ {keep} /\ t.seen = MyRecord(r) /\ t.cache = s.cache
    BY <1>1, <1>3 DEF KeepOne, Local
  <2>. HIDE DEF t
  <2>2. CacheTrue(events, t) /\ FoundTrue(events, t) /\ RecordTrue(events, t.seen)
    BY <1>1, <1>3, <2>1, MyRecordOurs DEF CacheTrue, FoundTrue
  <2>3. AnswerTrue(events, r, t)
    BY <2>1, MyRecordOurs DEF AnswerTrue
  <2>4. RecoveryTrue(events, EndedOnes, t) /\ CreateTrue(events, r, t) /\ Idle(t)
    BY <2>1 DEF RecoveryTrue, CreateTrue, Idle, Recovering
  <2>. QED  BY <1>1, <2>1, <2>2, <2>3, <2>4, IdleSafe DEF Knows
<1>4. s.found # None => s.found \in Event /\ Happened(events, s.found)
  BY <1>1 DEF Local, FoundTrue
<1>5. CASE s.found # None /\ Goto(r, KeepOne(r, s, s.found, {}))
  BY <1>3, <1>4, <1>5
<1>6. ASSUME NEW hits \in Lookups(FpOf[r], BindingOf[r]), NEW keep \in hits \cup {s.found},
             keep # None, Goto(r, KeepOne(r, s, keep, hits))
      PROVE  SafetyInv'
  <2>1. hits \in SUBSET Event /\ \A e \in hits : Happened(events, e)
    BY LookupsHappened
  <2>. QED  BY <1>3, <1>4, <1>6, <2>1
<1>7. CASE s.second = FALSE /\ Goto(r, retry)
  <2>1. /\ Goto(r, retry) /\ retry.pc = "create" /\ retry.second = TRUE
        /\ retry.found = s.found /\ retry.extras = s.extras /\ retry.seen = s.seen
        /\ retry.cache = s.cache
    BY <1>1, <1>7 DEF Local
  <2>. HIDE DEF retry
  <2>2. CacheTrue(events, retry) /\ FoundTrue(events, retry) /\ RecordTrue(events, retry.seen)
    BY <1>1, <2>1 DEF CacheTrue, FoundTrue
  <2>3. Knows(events, EndedOnes, r, retry)
    BY <1>1, <1>7, <2>1, <2>2 DEF Knows, RecoveryTrue, AnswerTrue, CreateTrue, Recovering
  <2>4. Asks(r, s, retry)
    BY <1>1, <2>1 DEF Asks, Claiming, Recovering
  <2>. QED  BY <1>1, <2>1, <2>3, <2>4, QuietSafe
<1>8. s.second \in BOOLEAN
  BY <1>1 DEF Local
<1>9. CASE \E hits \in Lookups(FpOf[r], BindingOf[r]) :
             s.found # None /\ Goto(r, KeepOne(r, s, s.found, hits))
  BY <1>6, <1>9
<1>10. CASE \E hits \in Lookups(FpOf[r], BindingOf[r]) :
              \E keep \in hits : Goto(r, KeepOne(r, s, keep, hits))
  <2>1. PICK hits \in Lookups(FpOf[r], BindingOf[r]) :
          \E keep \in hits : Goto(r, KeepOne(r, s, keep, hits))
    BY <1>10
  <2>2. \A keep \in hits : keep # None
    BY LookupsHappened, NoneAssumption
  <2>. QED  BY <1>6, <2>1, <2>2
<1>. QED  BY <1>2, <1>5, <1>7, <1>8, <1>9, <1>10 DEF Lookup

(* An event that is deleted or edited stands no more. *)
LEMMA RemovalAges ==
  ASSUME BookingInv, NEW e \in Event, Happened(events, e),
         NEW st \in {"moved", "gone", "deleted"}, events' = [events EXCEPT ![e] = st]
  PROVE  Aging(events, events', {})
<1>1. events'[e] = st /\ \A d \in Event : d # e => events'[d] = events[d]
  BY DEF BookingInv, CalendarTypeOK
<1>. QED  BY <1>1 DEF Aging, Happened, Spoiled, Standing

(* What ages without anybody's doing ages whoever acts. *)
LEMMA AgesAnyway ==
  ASSUME NEW ev, NEW after, Aging(ev, after, {}), NEW movers
  PROVE  Aging(ev, after, movers)
  BY DEF Aging

(* DeleteExtra (the duplicates found) keeps the invariant. *)
LEMMA DeleteExtraSafe ==
  ASSUME NEW r \in Request, BookingInv, BookingInv', SafetyInv, DeleteExtra(r)
  PROVE  SafetyInv'
<1>. DEFINE s == req[r]
<1>1. /\ s \in Local /\ s.pc = "dedupe" /\ UNCHANGED claimVars /\ Fine(r, s)
      /\ CacheTrue(events, s) /\ FoundTrue(events, s) /\ RecordTrue(events, s.seen)
      /\ AnswerTrue(events, r, s)
  BY Known DEF DeleteExtra, Knows
<1>2. PICK e \in s.extras :
        /\ Goto(r, [s EXCEPT !.extras = @ \ {e},
                             !.pc = IF s.extras = {e} THEN "finalize" ELSE "dedupe"])
        /\ DeleteEvent(e) \/ UNCHANGED events
  BY DEF DeleteExtra
<1>3. e \in Event /\ Happened(events, e)
  BY <1>1, <1>2 DEF Local, FoundTrue
<1>4. Aging(events, events', {}) /\ Aging(events, events', {r})
  BY <1>2, <1>3, NoAging, RemovalAges, AgesAnyway DEF DeleteEvent
<1>. DEFINE t == [s EXCEPT !.extras = @ \ {e},
                           !.pc = IF s.extras = {e} THEN "finalize" ELSE "dedupe"]
<1>5. /\ Goto(r, t) /\ t.pc \in {"finalize", "dedupe"} /\ t.found = s.found
      /\ t.extras \subseteq s.extras /\ t.seen = s.seen /\ t.cache = s.cache /\ t.at = s.at
  BY <1>1, <1>2 DEF Local
<1>. HIDE DEF t
<1>6. CacheTrue(events', t) /\ FoundTrue(events', t) /\ RecordTrue(events', t.seen)
  <2>1. CacheTrue(events', s) /\ FoundTrue(events', s) /\ RecordTrue(events', s.seen)
    BY <1>1, <1>4, ReadStaysTrue
  <2>. QED  BY <1>5, <2>1 DEF CacheTrue, FoundTrue
<1>7. Knows(events', EndedOnes, r, t)
  BY <1>1, <1>5, <1>6 DEF Knows, RecoveryTrue, AnswerTrue, CreateTrue, Recovering
<1>8. Needed(events', r, t) \subseteq Needed(events, r, s)
  <2>1. Needed(events', r, t) \subseteq Needed(events, r, t)
    BY <1>4, NeedsNoMore
  <2>2. Asks(r, s, t) /\ t.at \in Cell
    BY <1>1, <1>5 DEF Asks, Claiming, Recovering, Local
  <2>. QED  BY <2>1, <2>2, AsksNoMore
<1>. QED  BY <1>1, <1>4, <1>5, <1>7, <1>8, CalendarSafe

(* Finalize (step 8, and the end of SF-7) keeps the invariant. *)
LEMMA FinalizeSafe ==
  ASSUME NEW r \in Request, BookingInv, BookingInv', SafetyInv, Finalize(r)
  PROVE  SafetyInv'
<1>. DEFINE s == req[r]
            v == BookedAs(s.seen, s.found)
<1>1. /\ s \in Local /\ s.pc = "finalize" /\ UNCHANGED events
      /\ CacheTrue(events, s) /\ FoundTrue(events, s) /\ RecordTrue(events, s.seen)
      /\ Ours(r, s.seen) /\ s.found # None
      /\ s.found \in Carrying(FpOf[s.seen.owner])
  BY Known DEF Finalize, Knows, AnswerTrue, Fine, Coherent
<1>2. PICK c \in s.todo :
        /\ Replace(c, s.seen, v) \/ UNCHANGED claimVars
        /\ Goto(r, IF s.todo = {c} THEN Done(r, "booked") ELSE [s EXCEPT !.todo = @ \ {c}])
  BY DEF Finalize
<1>3. s.seen \in GoodRecord /\ s.seen # None /\ s.seen.owner \in Request
  BY <1>1, SeenCells, GoodRecordFacts DEF UsesSeen
<1>4. v.owner = s.seen.owner /\ v.event = s.found /\ v # None
  <2>1. v \in GoodRecord /\ v.owner = s.seen.owner
    BY <1>1, <1>3, BookedGood
  <2>2. v.event = s.found
    BY <1>3 DEF BookedAs, GoodRecord, Record
  <2>. QED  BY <2>1, <2>2, GoodRecordFacts
<1>5. Replace(c, s.seen, v) => Write(c, v) /\ \A q \in Request : Holds(q, c) => q = v.owner
  BY <1>4 DEF Replace, Holds
<1>6. RecordTrue(events', v) /\ c \in Cell
  BY <1>1, <1>2, <1>4 DEF RecordTrue, FoundTrue, Local
<1>7. Replace(c, s.seen, v) \/ UNCHANGED claimVars
  BY <1>2
<1>. HIDE DEF v
<1>8. ClaimsMove(r)
  <2>1. CASE Replace(c, s.seen, v)
    BY <1>4, <1>5, <1>6, <2>1, WriteMoves
  <2>2. CASE UNCHANGED claimVars
    BY <2>2, StillClaims
  <2>. QED  BY <1>7, <2>1, <2>2
<1>9. \A d \in Cell : Holds(r, d) => Holds(r, d)'
  <2>1. CASE Replace(c, s.seen, v)
    <3>1. claims'[c] = v /\ \A b \in Cell : b # c => claims'[b] = claims[b]
      BY <1>6, <2>1 DEF Replace, Write, BookingInv, ClaimInv
    <3>. QED  BY <1>4, <1>5, <2>1, <3>1 DEF Holds
  <2>2. CASE UNCHANGED claimVars
    BY <2>2, StillClaims
  <2>. QED  BY <1>7, <2>1, <2>2
<1>10. \A t : Needed(events, r, t) \subseteq Cell
  BY CellFacts DEF Needed, Below
<1>11. CASE Goto(r, Done(r, "booked"))
  <2>1. \E e \in Carrying(FpOf[r]) : Happened(events, e)
    BY <1>1 DEF Ours, FoundTrue
  <2>2. Knows(events, EndedOnes, r, Done(r, "booked")) /\ Idle(Done(r, "booked"))
    BY <2>1, DoneKnows DEF Continuations, Answers, Refusals
  <2>. QED  BY <1>1, <1>8, <1>9, <1>10, <1>11, <2>2, IdleAsks, WriteSafe
<1>12. CASE Goto(r, [s EXCEPT !.todo = @ \ {c}])
  <2>. DEFINE t == [s EXCEPT !.todo = @ \ {c}]
  <2>1. /\ Goto(r, t) /\ t.pc = "finalize" /\ t.found = s.found /\ t.extras = s.extras
        /\ t.seen = s.seen /\ t.cache = s.cache
    BY <1>1, <1>12 DEF Local
  <2>. HIDE DEF t
  <2>2. Knows(events, EndedOnes, r, t)
    BY <1>1, <2>1 DEF Knows, CacheTrue, FoundTrue, RecoveryTrue, AnswerTrue, CreateTrue,
                      Recovering
  <2>3. Idle(t)
    BY <2>1 DEF Idle, Recovering
  <2>. QED  BY <1>1, <1>8, <1>9, <1>10, <2>1, <2>2, <2>3, IdleAsks, WriteSafe
<1>. QED  BY <1>2, <1>11, <1>12

(* ReleaseCells (release_all) keeps the invariant. *)
LEMMA ReleaseCellsSafe ==
  ASSUME NEW r \in Request, BookingInv, BookingInv', SafetyInv, ReleaseCells(r)
  PROVE  SafetyInv'
<1>. DEFINE s == req[r]
            mine == IF s.next = "cancelled" THEN s.seen ELSE MyRecord(r)
<1>1. /\ s \in Local /\ s.pc = "release" /\ UNCHANGED events
      /\ CacheTrue(events, s) /\ FoundTrue(events, s) /\ RecordTrue(events, s.seen)
      /\ Nothing(events, r) /\ AnswerTrue(events, r, s)
      /\ s.seen \in GoodRecord \cup {None}
  BY Known DEF ReleaseCells, Knows, Fine, Coherent
<1>2. PICK c \in s.todo :
        /\ (claims[c] = mine /\ Release(c, mine)) \/ UNCHANGED claimVars
        /\ Goto(r, IF s.todo = {c} THEN Follow(r, s, s.next) ELSE [s EXCEPT !.todo = @ \ {c}])
  BY DEF ReleaseCells
<1>3. c \in Cell /\ s.next \in Continuations
  BY <1>1, <1>2 DEF Local
<1>4. claims[c] = mine => \A q \in Request \ {r} : Holds(q, c) => SpoiltFp(events, FpOf[q])
  <2>1. CASE s.next # "cancelled"
    BY <2>1, MyRecordGood DEF Holds
  <2>2. CASE s.next = "cancelled"
    <3>1. /\ s.seen \in GoodRecord /\ s.seen.state = "booked"
          /\ Spoiled(events, s.seen.event)
      BY <1>1, <2>2 DEF AnswerTrue
    <3>2. s.seen.event \in Carrying(FpOf[s.seen.owner])
      BY <3>1 DEF GoodRecord
    <3>. QED  BY <2>2, <3>1, <3>2 DEF Holds, SpoiltFp
  <2>. QED  BY <2>1, <2>2
<1>5. (claims[c] = mine /\ Release(c, mine)) \/ UNCHANGED claimVars
  BY <1>2
<1>. HIDE DEF mine
<1>6. ClaimsMove(r)
  <2>1. CASE claims[c] = mine /\ Release(c, mine)
    <3>1. RecordTrue(events', None) /\ Write(c, None)
      BY <2>1 DEF RecordTrue, Release
    <3>. QED  BY <1>3, <1>4, <2>1, <3>1, WriteMoves
  <2>2. CASE UNCHANGED claimVars
    BY <2>2, StillClaims
  <2>. QED  BY <1>5, <2>1, <2>2
<1>7. ASSUME NEW t, Goto(r, t), Knows(events, EndedOnes, r, t), Idle(t)
      PROVE  SafetyInv'
  <2>1. Needed(events, r, t) = {}
    BY <1>1, <1>7, NothingNeeded
  <2>. QED  BY <1>1, <1>6, <1>7, <2>1, IdleAsks, WriteSafe
<1>8. CASE Goto(r, Follow(r, s, s.next))
  <2>1. s.next = "booked" => \E e \in Carrying(FpOf[r]) : Happened(events, e)
    BY <1>1 DEF AnswerTrue
  <2>2. Knows(events, EndedOnes, r, Follow(r, s, s.next)) /\ Idle(Follow(r, s, s.next))
    BY <1>1, <1>3, <2>1, FollowKnows
  <2>. QED  BY <1>7, <1>8, <2>2
<1>9. CASE Goto(r, [s EXCEPT !.todo = @ \ {c}])
  <2>. DEFINE t == [s EXCEPT !.todo = @ \ {c}]
  <2>1. /\ Goto(r, t) /\ t.pc = "release" /\ t.found = s.found /\ t.extras = s.extras
        /\ t.seen = s.seen /\ t.cache = s.cache /\ t.next = s.next
    BY <1>1, <1>9 DEF Local
  <2>. HIDE DEF t
  <2>2. Knows(events, EndedOnes, r, t)
    BY <1>1, <2>1 DEF Knows, CacheTrue, FoundTrue, RecoveryTrue, AnswerTrue, CreateTrue,
                      Recovering
  <2>3. Idle(t)
    BY <2>1 DEF Idle, Recovering
  <2>. QED  BY <1>7, <2>1, <2>2, <2>3
<1>. QED  BY <1>2, <1>8, <1>9

-----------------------------------------------------------------------------
(* Crashes, and what happens without any request's doing. *)

(* Crash keeps the invariant: the create under way had all its cells. *)
LEMMA CrashSafe ==
  ASSUME NEW r \in Request, BookingInv, BookingInv', SafetyInv, Crash(r)
  PROVE  SafetyInv'
<1>1. /\ req[r].pc # "done" /\ Goto(r, Done(r, "crashed")) /\ UNCHANGED claimVars
      /\ "crashed" \in Answers
  BY DEF Crash, Answer, Answers
<1>2. CASE UNCHANGED events
  BY <1>1, <1>2, AnswerSafe DEF Answer, Refusals, StoreAndCalendarUnchanged
<1>3. CASE req[r].pc = "create" /\ SendCreate(CreateId(r))
  <2>1. Aging(events, events', {r})
    BY <1>3, CreatesAge DEF SendCreate
  <2>2. Knows(events', EndedOnes, r, Done(r, "crashed"))
    BY <1>1, DoneKnows DEF Continuations, Refusals
  <2>3. Needed(events', r, Done(r, "crashed")) \subseteq Needed(events, r, req[r])
    BY <1>3, NeedsOwn
  <2>. QED  BY <1>1, <2>1, <2>2, <2>3, CalendarSafe
<1>. QED  BY <1>2, <1>3 DEF Crash

(* Time passes, the vendor works and the host edits, without a request. *)
LEMMA OutsideSafe ==
  ASSUME BookingInv, BookingInv', SafetyInv, UNCHANGED <<claims, req>>,
         Aging(events, events', {}),
         \A c \in stale' \ stale :
           /\ claims[c] # None /\ claims[c].state = "pending"
           /\ Settled(events, EndedOnes, claims[c].owner)
  PROVE  SafetyInv'
<1>1. EndedOnes' = EndedOnes /\ stale' \subseteq Cell
  BY DEF EndedOnes, BookingInv, ClaimInv
<1>2. ASSUME NEW r \in Request PROVE Knows(events', EndedOnes', r, req'[r])
  <2>1. Fine(r, req[r]) /\ Knows(events, EndedOnes, r, req[r])
    BY LocalFine DEF SafetyInv
  <2>. QED  BY <1>1, <2>1, KnowsLater
<1>3. ASSUME NEW r \in Request PROVE Covered(r)'
  <2>1. Needed(events', r, req[r]) \subseteq Needed(events, r, req[r])
    BY NeedsNoMore
  <2>2. ~SpoiltFp(events', FpOf[r]) => ~SpoiltFp(events, FpOf[r])
    BY SpoiltStays
  <2>. QED  BY <2>1, <2>2 DEF SafetyInv, Covered, Holds
<1>4. \A c \in Cell : RecordTrue(events', claims'[c])
  <2>. SUFFICES ASSUME NEW c \in Cell, claims[c] # None, claims[c].state = "booked"
                PROVE  Happened(events', claims[c].event)
    BY DEF RecordTrue
  <2>1. claims[c].event \in Event
    BY HeldFacts DEF BookingInv, GoodRecord, Carrying
  <2>. QED  BY <2>1 DEF SafetyInv, ClaimsTrue, RecordTrue, Aging
<1>5. ASSUME NEW c \in stale'
      PROVE  /\ claims'[c] # None /\ claims'[c].state = "pending"
             /\ Settled(events', EndedOnes', claims'[c].owner)
  <2>1. /\ claims[c] # None /\ claims[c].state = "pending"
        /\ Settled(events, EndedOnes, claims[c].owner)
    BY <1>5 DEF SafetyInv, ClaimsTrue
  <2>2. claims[c].owner \in Request
    BY <1>1, <1>5, <2>1, HeldFacts, GoodRecordFacts DEF BookingInv
  <2>. QED  BY <1>1, <2>1, <2>2, FateKept
<1>. QED  BY <1>2, <1>3, <1>4, <1>5 DEF SafetyInv, ClaimsTrue

(* Age (a claim reaches CLAIM_TTL) keeps the invariant: by then the fate   *)
(* of its attempt is decided.                                              *)
LEMMA AgeSafe ==
  ASSUME NEW c \in Cell, BookingInv, BookingInv', SafetyInv, Age(c)
  PROVE  SafetyInv'
<1>1. claims[c].owner \in Request
  BY HeldFacts, GoodRecordFacts DEF Age, LivePending, BookingInv
<1>2. Settled(events, EndedOnes, claims[c].owner)
  BY <1>1 DEF Age, Ended, EndedOnes, Settled, By
<1>3. \A d \in stale' \ stale : /\ claims[d] # None /\ claims[d].state = "pending"
                                /\ Settled(events, EndedOnes, claims[d].owner)
  BY <1>2 DEF Age, LivePending
<1>4. UNCHANGED <<claims, req>> /\ Aging(events, events', {})
  BY NoAging DEF Age
<1>. QED  BY <1>3, <1>4, OutsideSafe

(* Vendor (late creates land, are lost, become visible) keeps the          *)
(* invariant.                                                              *)
LEMMA VendorSafe ==
  ASSUME NEW e \in Event, BookingInv, BookingInv', SafetyInv, Vendor(e)
  PROVE  SafetyInv'
<1>1. PICK st \in {"none", "hidden", "live"} :
        /\ events' = [events EXCEPT ![e] = st]
        /\ events[e] = "sent" \/ (events[e] = "hidden" /\ st = "live")
  BY DEF Vendor, Land, MayLand, Lose, Publish, Committed
<1>2. events'[e] = st /\ \A d \in Event : d # e => events'[d] = events[d]
  BY <1>1 DEF BookingInv, CalendarTypeOK
<1>3. Aging(events, events', {})
  BY <1>1, <1>2 DEF Aging, Happened, Spoiled, Standing
<1>4. UNCHANGED <<claims, req>> /\ stale' = stale
  BY DEF Vendor, claimVars
<1>. QED  BY <1>3, <1>4, OutsideSafe

(* Host (cancels and moves) keeps the invariant. *)
LEMMA HostSafe ==
  ASSUME NEW e \in Event, BookingInv, BookingInv', SafetyInv, Host(e)
  PROVE  SafetyInv'
<1>1. Happened(events, e) /\ \E st \in {"gone", "moved"} : events' = [events EXCEPT ![e] = st]
  BY DEF Host, HostCancel, HostMove, Exists, InSlot, Happened
<1>2. Aging(events, events', {})
  BY <1>1, RemovalAges
<1>3. UNCHANGED <<claims, req>> /\ stale' = stale
  BY DEF Host, claimVars
<1>. QED  BY <1>2, <1>3, OutsideSafe

-----------------------------------------------------------------------------
(* The invariant. *)

(* At first nothing is claimed and nothing created. *)
LEMMA InitSafe == Init => SafetyInv
<1>. SUFFICES ASSUME Init PROVE SafetyInv
  OBVIOUS
<1>1. ASSUME NEW r \in Request
      PROVE  Nothing(events, r) /\ req[r].pc = "start" /\ req[r].seen = None
             /\ req[r].found = None /\ req[r].extras = {}
             /\ \A e \in Event : req[r].cache[e] = "none"
  BY ByFacts DEF Init, RequestInit, CalendarInit, Blank, NoCache, Nothing
<1>2. ASSUME NEW r \in Request PROVE Knows(events, EndedOnes, r, req[r])
  BY <1>1, FreshKnows DEF CacheTrue
<1>3. ClaimsTrue(events, EndedOnes)
  BY DEF Init, ClaimInit, ClaimsTrue, RecordTrue
<1>4. ASSUME NEW r \in Request PROVE Covered(r)
  <2>1. Idle(req[r])
    BY <1>1 DEF Idle, Recovering
  <2>. QED  BY <1>1, <2>1, NothingNeeded DEF Covered
<1>. QED  BY <1>2, <1>3, <1>4 DEF SafetyInv

(* Every step keeps it. *)
LEMMA NextSafe ==
  ASSUME BookingInv, BookingInv', SafetyInv, [Next]_vars
  PROVE  SafetyInv'
<1>1. ASSUME NEW r \in Request, Arrive(r) \/ Step(r) \/ Crash(r) PROVE SafetyInv'
  <2>1. CASE Step(r)
    BY <2>1, ReadFirstSafe, ReplaySafe, PollSafe, PollLookupSafe, FindBookingsSafe, BusySafe,
       BusyReadSafe, ClaimCellSafe, MeetHeldSafe, RecoverPendingSafe, RecoverBookedSafe,
       RecoverWriteSafe, RecoverReadSafe, RecoverSiblingsSafe, CreateSafe, LookupSafe,
       DeleteExtraSafe, FinalizeSafe, ReleaseCellsSafe DEF Step
  <2>. QED  BY <1>1, <2>1, ArriveSafe, CrashSafe
<1>2. CASE UNCHANGED vars
  BY <1>2, NoAging, OutsideSafe DEF vars, claimVars
<1>. QED  BY <1>1, <1>2, AgeSafe, VendorSafe, HostSafe DEF Next

(* What the requests know, the claims say and the cells cover, always.     *)
THEOREM SafetyHolds == Spec => []SafetyInv
<1>1. Spec => []BookingInv
  BY InvariantHolds
<1>2. Init => SafetyInv
  BY InitSafe
<1>3. SafetyInv /\ BookingInv /\ BookingInv' /\ [Next]_vars => SafetyInv'
  BY NextSafe
<1>. QED  BY <1>1, <1>2, <1>3, PTL DEF Spec

-----------------------------------------------------------------------------
(* What follows for every vendor and whatever the host does. *)

(* calendar_unavailable, slot_taken, the limit and a refusal of the input  *)
(* are never said by a request that created an event, or whose create may  *)
(* still reach the vendor.                                                 *)
THEOREM RefusalsCreatedNothing == Spec => []UnavailableCreatedNothing
<1>1. SafetyInv => UnavailableCreatedNothing
  <2>. SUFFICES ASSUME SafetyInv, NEW r \in Request, Answered(r) \in Refusals
                PROVE  \A e \in Event : Creator(e) = r => events[e] = "none"
    BY DEF UnavailableCreatedNothing, Refusals
  <2>1. req[r].pc = "done" /\ req[r].next \in Refusals
    BY DEF Answered, Ended, Refusals
  <2>2. Nothing(events, r)
    BY <2>1 DEF SafetyInv, Knows, CreateTrue
  <2>. QED  BY <2>2 DEF Nothing, By
<1>. QED  BY <1>1, SafetyHolds, PTL

(* No request answers booked unless an event of that booking was created.  *)
THEOREM BookedIsTrue == Spec => []BookedWasCreated
<1>1. SafetyInv => BookedWasCreated
  BY DEF SafetyInv, Knows, AnswerTrue, BookedWasCreated, Answered, Ended, Happened
<1>. QED  BY <1>1, SafetyHolds, PTL

(* Two events of different requests whose bookings were neither edited by  *)
(* the host nor cleaned of duplicates share no cell, buffers included:     *)
(* neither a retry of the same booking nor another contact's request gets  *)
(* an event into a slot while one stands there or is on its way.           *)
UntouchedExclude ==
  \A d, e \in Event :
    /\ Standing(events, d) /\ Standing(events, e) /\ Creator(d) # Creator(e)
    /\ ~SpoiltFp(events, FpOf[Creator(d)]) /\ ~SpoiltFp(events, FpOf[Creator(e)])
    => CellsOf(Creator(d)) \cap CellsOf(Creator(e)) = {}

(* Each event that stands is covered by claims of its creator, and a cell  *)
(* has one owner.                                                          *)
THEOREM StandingCellsAreOwned == Spec => []UntouchedExclude
<1>1. SafetyInv => UntouchedExclude
  <2>. SUFFICES ASSUME SafetyInv, NEW d \in Event, NEW e \in Event,
                       Standing(events, d), Standing(events, e), Creator(d) # Creator(e),
                       ~SpoiltFp(events, FpOf[Creator(d)]), ~SpoiltFp(events, FpOf[Creator(e)]),
                       NEW c \in CellsOf(Creator(d)), c \in CellsOf(Creator(e))
                PROVE  FALSE
    BY DEF UntouchedExclude
  <2>1. /\ Creator(d) \in Request /\ d \in By(Creator(d))
        /\ Creator(e) \in Request /\ e \in By(Creator(e))
    BY DEF Event, Creator, By
  <2>2. /\ Needed(events, Creator(d), req[Creator(d)]) = CellsOf(Creator(d))
        /\ Needed(events, Creator(e), req[Creator(e)]) = CellsOf(Creator(e))
    BY <2>1 DEF Needed
  <2>3. Holds(Creator(d), c) /\ Holds(Creator(e), c)
    BY <2>1, <2>2 DEF SafetyInv, Covered
  <2>. QED  BY <2>3 DEF Holds
<1>. QED  BY <1>1, SafetyHolds, PTL

-----------------------------------------------------------------------------
(* How claims change hands. *)

(* What a step of request r may do to the claim of a cell: take an empty   *)
(* one, finalize it with an event of the same booking, or give it up.      *)
Taken(r, c) == claims[c] = None /\ claims'[c] = MyRecord(r)

Finalized(r, c) ==
  /\ claims[c] # None /\ req[r].found # None
  /\ req[r].pc \in {"recWrite", "siblings", "finalize"}
  /\ req[r].found \in Carrying(FpOf[claims[c].owner])
  /\ claims'[c] = BookedAs(claims[c], req[r].found)

(* Only the owner gives up a pending claim, before it created anything, or *)
(* a recovery does once the owner has ended without an event in its slot;  *)
(* a finalized one is given up only if the host edited its event, or it    *)
(* was deleted as a duplicate.                                             *)
GivenUp(r, c) ==
  /\ claims[c] # None /\ claims'[c] = None
  /\ \/ /\ claims[c].state = "pending" /\ claims[c].owner = r
        /\ req[r].pc = "release" /\ req'[r] # req[r]
     \/ claims[c].state = "pending" /\ Barren(events, EndedOnes, claims[c].owner)
     \/ claims[c].state = "booked" /\ Spoiled(events, claims[c].event)

ClaimChange(r, c) ==
  claims'[c] = claims[c] \/ Taken(r, c) \/ Finalized(r, c) \/ GivenUp(r, c)

(* A cell that is not written keeps its claim. *)
LEMMA OtherCells ==
  ASSUME BookingInv, NEW c \in Cell, NEW v, Write(c, v)
  PROVE  claims'[c] = v /\ \A d \in Cell : d # c => claims'[d] = claims[d]
  BY DEF Write, BookingInv, ClaimInv

(* A recovery changes claims so. *)
LEMMA RecoveryChange ==
  ASSUME NEW r \in Request, BookingInv, SafetyInv, req[r].pc \in {"recWrite", "siblings"},
         NEW c \in Cell, claims[c] = req[r].seen \/ (claims[c] = None /\ req[r].found = None),
         Write(c, Verdict(req[r])), NEW d \in Cell
  PROVE  claims'[d] = claims[d] \/ Finalized(r, d) \/ GivenUp(r, d)
<1>. DEFINE s == req[r]
<1>1. claims'[c] = Verdict(s) /\ (d # c => claims'[d] = claims[d])
  BY OtherCells
<1>2. /\ s.seen \in GoodRecord /\ s.seen # None /\ s.seen.owner \in Request
      /\ s.seen.state \in {"pending", "booked"}
      /\ FoundTrue(events, s) /\ RecoveryTrue(events, EndedOnes, s)
  BY RecoveringKnown DEF Recovering
<1>3. s.found # None => s.found \in Carrying(FpOf[s.seen.owner])
  BY Known DEF Fine, Coherent
<1>4. CASE claims[c] = None
  BY <1>1, <1>2, <1>4 DEF Verdict
<1>5. CASE claims[c] = s.seen /\ s.found # None
  BY <1>1, <1>2, <1>3, <1>5 DEF Verdict, Finalized, FoundTrue
<1>6. CASE claims[c] = s.seen /\ s.found = None
  BY <1>1, <1>2, <1>6 DEF Verdict, GivenUp, RecoveryTrue
<1>. QED  BY <1>4, <1>5, <1>6

(* Every step of a request changes claims so. *)
LEMMA StepChanges ==
  ASSUME NEW r \in Request, BookingInv, SafetyInv, Arrive(r) \/ Step(r) \/ Crash(r),
         NEW d \in Cell
  PROVE  ClaimChange(r, d)
<1>. USE DEF ClaimChange
<1>1. CASE UNCHANGED claimVars
  BY <1>1 DEF claimVars
<1>2. CASE ClaimCell(r)
  <2>1. req[r].at \in Cell
    BY Known DEF Local
  <2>2. CASE TryClaim(req[r].at, MyRecord(r))
    BY <2>1, <2>2, OtherCells DEF TryClaim, Taken
  <2>. QED  BY <1>1, <1>2, <2>2 DEF ClaimCell
<1>3. CASE RecoverWrite(r)
  <2>1. req[r].at \in Cell /\ req[r].pc = "recWrite"
    BY <1>3, Known DEF Local, RecoverWrite
  <2>2. CASE /\ claims[req[r].at] = req[r].seen \/ (claims[req[r].at] = None /\ req[r].found = None)
             /\ Write(req[r].at, Verdict(req[r]))
    BY <2>1, <2>2, RecoveryChange
  <2>. QED  BY <1>1, <1>3, <2>2 DEF RecoverWrite, Release, Replace, Verdict
<1>4. CASE RecoverSiblings(r)
  <2>1. req[r].todo \subseteq Cell /\ req[r].pc = "siblings"
    BY <1>4, Known DEF Local, RecoverSiblings
  <2>2. ASSUME NEW c \in req[r].todo, claims[c] = req[r].seen, Write(c, Verdict(req[r]))
        PROVE  ClaimChange(r, d)
    BY <2>1, <2>2, RecoveryChange
  <2>. QED  BY <1>1, <1>4, <2>2 DEF RecoverSiblings
<1>5. CASE Finalize(r)
  <2>1. /\ req[r].todo \subseteq Cell /\ req[r].seen # None
        /\ req[r].found \in Carrying(FpOf[req[r].seen.owner])
        /\ req[r].found # None /\ req[r].pc = "finalize"
    BY <1>5, Known DEF Local, Finalize, Fine, Coherent, UsesSeen
  <2>2. ASSUME NEW c \in req[r].todo,
               Replace(c, req[r].seen, BookedAs(req[r].seen, req[r].found))
        PROVE  ClaimChange(r, d)
    BY <2>1, <2>2, OtherCells DEF Replace, Finalized
  <2>. QED  BY <1>1, <1>5, <2>2 DEF Finalize
<1>6. CASE ReleaseCells(r)
  <2>. DEFINE s == req[r]
              mine == IF s.next = "cancelled" THEN s.seen ELSE MyRecord(r)
  <2>1. /\ s.todo \subseteq Cell /\ s.pc = "release" /\ AnswerTrue(events, r, s) /\ s \in Local
    BY <1>6, Known DEF Local, ReleaseCells, Knows
  <2>2. ASSUME NEW c \in s.todo, claims[c] = mine, Release(c, mine),
               Goto(r, IF s.todo = {c} THEN Follow(r, s, s.next) ELSE [s EXCEPT !.todo = @ \ {c}])
        PROVE  ClaimChange(r, d)
    <3>1. claims'[c] = None /\ \A b \in Cell : b # c => claims'[b] = claims[b]
      BY <2>1, <2>2, OtherCells DEF Release
    <3>2. req'[r] # s
      <4>1. Follow(r, s, s.next).pc # "release"
        BY <2>1 DEF Follow, Again, Done, Blank, Local
      <4>2. [s EXCEPT !.todo = @ \ {c}].todo # s.todo
        BY <2>1, <2>2 DEF Local
      <4>3. req'[r] = IF s.todo = {c} THEN Follow(r, s, s.next) ELSE [s EXCEPT !.todo = @ \ {c}]
        BY <2>2 DEF Goto, BookingInv, ReqInv
      <4>. QED  BY <2>1, <4>1, <4>2, <4>3
    <3>3. mine # None /\ (s.next # "cancelled" => mine.owner = r /\ mine.state = "pending")
      BY <2>1, MyRecordGood, GoodRecordFacts DEF AnswerTrue, MyRecord, Pending
    <3>. QED  BY <2>1, <2>2, <3>1, <3>2, <3>3 DEF GivenUp, AnswerTrue
  <2>. QED  BY <1>1, <1>6, <2>2 DEF ReleaseCells
<1>. QED
  BY <1>1, <1>2, <1>3, <1>4, <1>5, <1>6
     DEF Step, Arrive, Crash, ReadFirst, Replay, Poll, PollLookup, FindBookings, Busy, BusyRead,
         MeetHeld, RecoverPending, RecoverBooked, RecoverRead, Create, Lookup, DeleteExtra,
         StoreAndCalendarUnchanged, claimVars

(* Recovery and release never touch the claims of a running attempt: they  *)
(* are given up by itself alone, and otherwise finalized with an event of  *)
(* its booking.                                                            *)
THEOREM RunningClaimsAreSafe == Spec => LiveClaimsUntouched
<1>. DEFINE Untouched ==
       \A c \in Cell :
         (claims[c] # None /\ claims[c].state = "pending" /\ Running(claims[c].owner)
            /\ claims'[c] # claims[c])
         => \/ req'[claims[c].owner] # req[claims[c].owner]
            \/ \E e \in Carrying(FpOf[claims[c].owner]) : claims'[c] = BookedAs(claims[c], e)
<1>1. ASSUME BookingInv, SafetyInv, [Next]_vars PROVE Untouched
  <2>. SUFFICES ASSUME NEW c \in Cell, claims[c] # None, claims[c].state = "pending",
                       Running(claims[c].owner), claims'[c] # claims[c]
                PROVE  \/ req'[claims[c].owner] # req[claims[c].owner]
                       \/ \E e \in Carrying(FpOf[claims[c].owner]) :
                            claims'[c] = BookedAs(claims[c], e)
    OBVIOUS
  <2>1. PICK r \in Request : Arrive(r) \/ Step(r) \/ Crash(r)
    BY <1>1 DEF Next, Age, Vendor, Host, vars, claimVars
  <2>2. Finalized(r, c) \/ GivenUp(r, c)
    BY <1>1, <2>1, StepChanges DEF ClaimChange, Taken
  <2>3. ~Barren(events, EndedOnes, claims[c].owner)
    BY DEF Running, Ended, Barren, EndedOnes
  <2>. QED  BY <2>2, <2>3 DEF Finalized, GivenUp
<1>2. Spec => [][Untouched]_vars
  <2>1. Spec => []BookingInv
    BY InvariantHolds
  <2>2. BookingInv /\ SafetyInv /\ [Next]_vars => [Untouched]_vars
    BY <1>1
  <2>. HIDE DEF Untouched
  <2>. QED  BY <2>1, <2>2, SafetyHolds, PTL DEF Spec
<1>. QED  BY <1>2 DEF LiveClaimsUntouched

-----------------------------------------------------------------------------
(* Where the locals of a request come from. *)

(* Where an event found is still going to be used. *)
Naming == {"lookup", "dedupe", "finalize", "recWrite", "siblings"}

(* No create will be sent any more. *)
Closed(s) == s.pc \in {"dedupe", "finalize", "done"} \/ (s.pc = "lookup" /\ s.found # None)

(* A cell of the request's slot is another booking's, and either it is the *)
(* first one or the request has claimed all cells below it.                *)
Beaten(r, s) ==
  \/ ~Ours(r, claims[First(r)])
  \/ Claiming(s) /\ ~Ours(r, claims[s.at])
  \/ /\ Claiming(s) /\ s.pc \in Recovering /\ ~Ours(r, s.seen)
     /\ s.seen.state = "booked" \/ (s.pc = "siblings" /\ s.found # None)

(* What a step of request r from local state s to t keeps, reads or finds. *)
Descends(r, s, t) ==
  /\ t.pc = "dedupe" => s.pc \in {"dedupe", "lookup"}
  /\ s.pc # "lookup" => t.extras \subseteq s.extras
  /\ t.seen # None /\ t.seen.state = "booked" =>
       t.seen = s.seen \/ \E c \in Cell : t.seen = claims[c]
  /\ t.pc \in {"busy", "claim", "create"} => t.found = None
  /\ t.pc \in Naming /\ t.found # None =>
       \/ events'[t.found] \in {"hidden", "live", "moved"}
       \/ s.pc \in Naming /\ t.found = s.found
  /\ t.pc \in {"create", "lookup"} => s.pc \in {"claim", "create", "lookup"}
  /\ Closed(s) => Closed(t)
  /\ t.pc \in Recovering /\ t.seen.state = "booked" =>
       t.seen = claims[t.at] \/ (s.pc \in Recovering /\ t.seen = s.seen /\ t.at = s.at)
  /\ t.pc = "siblings" /\ t.found # None =>
       \/ claims'[t.at] = BookedAs(t.seen, t.found)
       \/ s.pc = "siblings" /\ t.seen = s.seen /\ t.found = s.found /\ t.at = s.at
  /\ t.next = "taken" => s.next = "taken" \/ Beaten(r, s)

(* Nothing has been found before a create was sent. *)
FoundLate == \A r \in Request : req[r].pc \in {"busy", "claim", "create"} => req[r].found = None

(* The ways on that lead out of an await, recovery or polling. *)
Wayside(s, t) ==
  /\ t.pc \in {"done", "read", "find", "busy", "release", "poll", "claim"}
  /\ t.extras \subseteq s.extras
  /\ t.seen \in {s.seen, None}
  /\ t.pc \in {"busy", "claim"} => t.found = None

(* An answer, another round, another reading, the next step. *)
LEMMA DoneAside ==
  ASSUME NEW r, NEW s, NEW a
  PROVE  /\ Wayside(s, Done(r, a)) /\ Done(r, a).pc = "done" /\ Done(r, a).next = a
         /\ Wayside(s, Again(r, s)) /\ Again(r, s).next # "taken"
         /\ Wayside(s, Reread(r, s)) /\ Reread(r, s).next # "taken"
         /\ \A loc \in {"find", "busy"} :
              Wayside(s, Onward(r, s, loc)) /\ Onward(r, s, loc).next = "none"
<1>. DEFINE again == [Blank(r, "read", "none") EXCEPT
              !.round = s.round + 1, !.seenOwn = TRUE, !.cache = s.cache]
            reread == [Blank(r, "read", "none") EXCEPT
              !.round = s.round, !.pass = s.pass + 1, !.recOnce = s.recOnce,
              !.seenOwn = s.seenOwn, !.cache = s.cache]
<1>1. \A b : /\ Done(r, b).pc = "done" /\ Done(r, b).extras = {} /\ Done(r, b).seen = None
             /\ Done(r, b).next = b
  BY DEF Done, Blank
<1>2. /\ again.pc = "read" /\ again.extras = {} /\ again.seen = None /\ again.next = "none"
      /\ reread.pc = "read" /\ reread.extras = {} /\ reread.seen = None /\ reread.next = "none"
  BY DEF Blank
<1>3. Again(r, s) = IF s.round = MaxRounds THEN Done(r, "unconfirmed") ELSE again
  BY DEF Again
<1>4. Reread(r, s) = IF s.pass = MaxRounds THEN Done(r, "unconfirmed") ELSE reread
  BY DEF Reread
<1>. HIDE DEF again, reread
<1>5. \A loc \in {"find", "busy"} :
        Wayside(s, Onward(r, s, loc)) /\ Onward(r, s, loc).next = "none"
  BY DEF Onward, Blank, Wayside
<1>. QED  BY <1>1, <1>2, <1>3, <1>4, <1>5 DEF Wayside

(* release_all and what follows it. *)
LEMMA FollowAside ==
  ASSUME NEW r, NEW s \in Local, NEW k
  PROVE  Wayside(s, Follow(r, s, k)) /\ (Follow(r, s, k).next = "taken" => k = "taken")
<1>1. CASE k = "poll"
  <2>. DEFINE t == [s EXCEPT !.pc = "poll", !.next = "none", !.todo = {}, !.retried = FALSE]
  <2>1. Follow(r, s, k) = t
    BY <1>1 DEF Follow
  <2>2. t.pc = "poll" /\ t.extras = s.extras /\ t.seen = s.seen /\ t.next = "none"
    BY DEF Local
  <2>. HIDE DEF t
  <2>. QED  BY <2>1, <2>2 DEF Wayside
<1>2. CASE k # "poll"
  BY <1>2, DoneAside DEF Follow
<1>. QED  BY <1>1, <1>2

(* Releasing cells, and what follows it. *)
LEMMA ReleaseAside ==
  ASSUME NEW r, NEW s \in Local, NEW cells, NEW k
  PROVE  /\ Wayside(s, ReleaseThen(r, s, cells, k))
         /\ ReleaseThen(r, s, cells, k).next = "taken" => k = "taken"
<1>1. CASE cells = {}
  BY <1>1, FollowAside DEF ReleaseThen
<1>2. CASE cells # {}
  <2>. DEFINE t == [Onward(r, s, "release") EXCEPT
          !.next = k, !.todo = cells, !.at = s.at, !.caller = s.caller,
          !.seen = IF k \in {"poll", "cancelled"} THEN s.seen ELSE None]
  <2>1. /\ t.pc = "release" /\ t.next = k /\ t.extras = {} /\ t.seen \in {s.seen, None}
    BY DEF Onward, Blank
  <2>2. ReleaseThen(r, s, cells, k) = t
    BY <1>2 DEF ReleaseThen
  <2>. HIDE DEF t
  <2>. QED  BY <2>1, <2>2 DEF Wayside
<1>. QED  BY <1>1, <1>2

(* The outcome of a recovery: taken is said only at step 6, of a record of *)
(* another booking that recovery kept or finalized.                        *)
LEMMA ResumeAside ==
  ASSUME NEW r, NEW s \in Local, NEW action \in Outcomes
  PROVE  /\ Wayside(s, Resume(r, s, action))
         /\ Resume(r, s, action).next = "taken" =>
              \/ s.next = "taken"
              \/ /\ s.caller = "step6" /\ ~Ours(r, s.seen) /\ ~(s.cas > 1)
                 /\ action \notin {"failed", "released"}
<1>1. CASE s.caller = "step2"
  <2>. DEFINE told == [s EXCEPT !.cache[s.found] =
                         IF events[s.found] = "moved" THEN "moved" ELSE "live"]
  <2>1. told.extras = s.extras /\ told.seen = s.seen
    BY DEF Local
  <2>. HIDE DEF told
  <2>2. Wayside(told, Reread(r, told)) /\ Reread(r, told).next # "taken"
    BY DoneAside
  <2>3. Wayside(s, Reread(r, told))
    BY <2>1, <2>2 DEF Wayside
  <2>. QED  BY <1>1, <2>2, <2>3, DoneAside DEF Resume, ResumeReplay, told
<1>2. CASE s.caller # "step2"
  <2>. DEFINE retry == [s EXCEPT !.pc = "claim", !.retried = TRUE, !.seen = None,
                                 !.cas = 1, !.found = None, !.todo = {}]
              answer == IF Ours(r, s.seen)
                        THEN IF action = "failed" THEN "unconfirmed" ELSE "booked"
                        ELSE IF action = "failed" THEN "unavailable" ELSE "taken"
              again == action = "released" \/ (s.cas > 1 /\ (Ours(r, s.seen) \/ action # "failed"))
  <2>1. Resume(r, s, action) = IF again THEN retry ELSE ReleaseThen(r, s, Acquired(r), answer)
    BY <1>2 DEF Resume, ResumeClaim
  <2>2. /\ retry.pc = "claim" /\ retry.extras = s.extras /\ retry.seen = None
        /\ retry.found = None /\ retry.next = s.next
    BY DEF Local
  <2>3. s.caller = "step6"
    BY <1>2 DEF Local
  <2>4. answer = "taken" => ~Ours(r, s.seen) /\ action # "failed"
    OBVIOUS
  <2>. HIDE DEF retry, answer
  <2>5. Wayside(s, retry)
    BY <2>2 DEF Wayside
  <2>6. Wayside(s, ReleaseThen(r, s, Acquired(r), answer))
        /\ (ReleaseThen(r, s, Acquired(r), answer).next = "taken" => answer = "taken")
    BY ReleaseAside
  <2>. QED  BY <2>1, <2>2, <2>3, <2>4, <2>5, <2>6
<1>. QED  BY <1>1, <1>2

(* Such a way on keeps what it must. *)
LEMMA WaysideDescends ==
  ASSUME NEW r, NEW s, NEW u, NEW t, Wayside(u, t), u.extras \subseteq s.extras,
         u.seen = s.seen \/ \E c \in Cell : u.seen = claims[c],
         ~Closed(s) \/ t.pc = "done",
         t.next = "taken" => s.next = "taken" \/ Beaten(r, s)
  PROVE  Descends(r, s, t)
  BY DEF Wayside, Descends, Closed, Naming, Recovering

(* A step of request r to such a local state. *)
Moves(r) == \E t : Goto(r, t) /\ Descends(r, req[r], t)

(* An answer other than taken. *)
LEMMA AnswerMoves ==
  ASSUME NEW r, NEW a, Goto(r, Done(r, a)), a # "taken" \/ Beaten(r, req[r])
  PROVE  Moves(r)
  BY DoneAside, WaysideDescends DEF Moves

(* Steps 1 to 5. *)
LEMMA ReadFirstMoves ==
  ASSUME NEW r \in Request, BookingInv, SafetyInv, ReadFirst(r) PROVE Moves(r)
<1>. DEFINE s == req[r]
            held == claims[First(r)]
            met == [s EXCEPT !.seen = held, !.caller = "step2"]
<1>1. s \in Local /\ s.pc = "read" /\ First(r) \in Cell /\ ~Closed(s)
  BY Known, CellFacts DEF ReadFirst, Closed
<1>2. CASE \E a \in {"unconfirmed", "unavailable"} : Goto(r, Done(r, a))
  BY <1>2, AnswerMoves
<1>3. CASE Goto(r, Onward(r, s, "find"))
  BY <1>1, <1>3, DoneAside, WaysideDescends DEF Moves
<1>4. ASSUME NEW t, Goto(r, t), t.extras = s.extras, t.seen = held, t.next = s.next,
             t.pc \in {"replay", "poll"} \/ (t.pc = "recover" /\ StalePending(First(r)))
      PROVE  Moves(r)
  <2>1. Descends(r, s, t)
    BY <1>1, <1>4 DEF Descends, Naming, Recovering, StalePending
  <2>. QED  BY <1>4, <2>1 DEF Moves
<1>5. ASSUME NEW loc \in {"replay", "poll"}, Goto(r, [met EXCEPT !.pc = loc])
      PROVE  Moves(r)
  <2>. DEFINE t == [met EXCEPT !.pc = loc]
  <2>1. Goto(r, t) /\ t.extras = s.extras /\ t.seen = held /\ t.next = s.next /\ t.pc = loc
    BY <1>1, <1>5 DEF Local
  <2>. HIDE DEF t
  <2>. QED  BY <1>4, <2>1
<1>6. CASE /\ StalePending(First(r))
           /\ Goto(r, [met EXCEPT !.pc = "recover", !.recOnce = TRUE])
  <2>. DEFINE t == [met EXCEPT !.pc = "recover", !.recOnce = TRUE]
  <2>1. Goto(r, t) /\ t.extras = s.extras /\ t.seen = held /\ t.next = s.next /\ t.pc = "recover"
    BY <1>1, <1>6 DEF Local
  <2>. HIDE DEF t
  <2>. QED  BY <1>4, <1>6, <2>1
<1>. QED  BY <1>2, <1>3, <1>5, <1>6 DEF ReadFirst, Answer

(* Replay (a booked claim of ours answers) comes from what was read. *)
LEMMA ReplayMoves ==
  ASSUME NEW r \in Request, BookingInv, SafetyInv, Replay(r) PROVE Moves(r)
<1>. DEFINE s == req[r]
<1>1. s \in Local /\ s.pc = "replay" /\ ~Closed(s)
  BY Known DEF Replay, Closed
<1>2. CASE \E a \in {"unconfirmed", "booked"} : Goto(r, Done(r, a))
  BY <1>2, AnswerMoves
<1>3. CASE Goto(r, ReleaseThen(r, s, CellsOfSeen(s), "cancelled"))
  <2>. DEFINE t == ReleaseThen(r, s, CellsOfSeen(s), "cancelled")
  <2>1. Goto(r, t) /\ Wayside(s, t) /\ t.next # "taken"
    BY <1>1, <1>3, ReleaseAside
  <2>. QED  BY <1>1, <2>1, WaysideDescends DEF Moves
<1>. QED  BY <1>2, <1>3 DEF Replay, Answer

(* Poll (another attempt of ours is in flight). *)
LEMMA PollMoves ==
  ASSUME NEW r \in Request, BookingInv, SafetyInv, Poll(r) PROVE Moves(r)
<1>. DEFINE s == req[r]
            held == claims[s.at]
<1>1. s \in Local /\ s.pc = "poll" /\ s.at \in Cell /\ ~Closed(s)
  BY Known DEF Poll, Closed, Local
<1>2. CASE Goto(r, Done(r, "unconfirmed"))
  BY <1>2, AnswerMoves
<1>3. CASE Goto(r, Onward(r, s, "find")) \/ Goto(r, Again(r, s)) \/ Goto(r, Reread(r, s))
  <2>1. ASSUME NEW t, Goto(r, t), Wayside(s, t), t.next # "taken" PROVE Moves(r)
    BY <1>1, <2>1, WaysideDescends DEF Moves
  <2>. QED  BY <1>3, <2>1, DoneAside
<1>4. ASSUME NEW t, Goto(r, t), t.extras = s.extras, t.seen \in {s.seen, held},
             t.next = s.next, t.pc \in {"replay", "poll", "pollLookup"}
      PROVE  Moves(r)
  <2>1. Descends(r, s, t)
    BY <1>1, <1>4 DEF Descends, Naming, Recovering
  <2>. QED  BY <1>4, <2>1 DEF Moves
<1>5. CASE Goto(r, [s EXCEPT !.pc = "pollLookup"])
  <2>. DEFINE t == [s EXCEPT !.pc = "pollLookup"]
  <2>1. /\ Goto(r, t) /\ t.extras = s.extras /\ t.seen = s.seen /\ t.next = s.next
        /\ t.pc = "pollLookup"
    BY <1>1, <1>5 DEF Local
  <2>. HIDE DEF t
  <2>. QED  BY <1>4, <2>1
<1>6. CASE Goto(r, [s EXCEPT !.pc = "replay", !.seen = held])
  <2>. DEFINE t == [s EXCEPT !.pc = "replay", !.seen = held]
  <2>1. /\ Goto(r, t) /\ t.extras = s.extras /\ t.seen = held /\ t.next = s.next
        /\ t.pc = "replay"
    BY <1>1, <1>6 DEF Local
  <2>. HIDE DEF t
  <2>. QED  BY <1>4, <2>1
<1>7. CASE Goto(r, [s EXCEPT !.seen = held])
  <2>. DEFINE t == [s EXCEPT !.seen = held]
  <2>1. /\ Goto(r, t) /\ t.extras = s.extras /\ t.seen = held /\ t.next = s.next
        /\ t.pc = "poll"
    BY <1>1, <1>7 DEF Local
  <2>. HIDE DEF t
  <2>. QED  BY <1>4, <2>1
<1>. QED  BY <1>2, <1>3, <1>5, <1>6, <1>7 DEF Poll, Answer

(* PollLookup (the SF-7 lookup) finds an event of the calendar. *)
LEMMA PollLookupMoves ==
  ASSUME NEW r \in Request, BookingInv, SafetyInv, PollLookup(r) PROVE Moves(r)
<1>. DEFINE s == req[r]
<1>1. s \in Local /\ s.pc = "pollLookup" /\ ~Closed(s) /\ UNCHANGED events
  BY Known DEF PollLookup, Closed, StoreAndCalendarUnchanged
<1>2. CASE Goto(r, Done(r, "unconfirmed"))
  BY <1>2, AnswerMoves
<1>3. ASSUME NEW b, NEW hits \in Lookups(FpOf[r], b), NEW e \in hits,
             Goto(r, [s EXCEPT !.pc = "finalize", !.found = e, !.todo = CellsOfSeen(s)])
      PROVE  Moves(r)
  <2>. DEFINE t == [s EXCEPT !.pc = "finalize", !.found = e, !.todo = CellsOfSeen(s)]
  <2>1. /\ Goto(r, t) /\ t.pc = "finalize" /\ t.found = e /\ t.extras = s.extras
        /\ t.seen = s.seen /\ t.next = s.next
    BY <1>1, <1>3 DEF Local
  <2>. HIDE DEF t
  <2>2. events'[e] \in {"hidden", "live", "moved"}
    BY <1>1 DEF Lookups
  <2>3. Descends(r, s, t)
    BY <1>1, <2>1, <2>2 DEF Descends, Recovering, Closed
  <2>. QED  BY <2>1, <2>3 DEF Moves
<1>. QED  BY <1>2, <1>3 DEF PollLookup, Answer

(* Steps 1, 3, 4 and 5. *)
LEMMA StepsTwoToFiveMove ==
  ASSUME NEW r \in Request, BookingInv, SafetyInv, FoundLate,
         Arrive(r) \/ FindBookings(r) \/ Busy(r) \/ BusyRead(r)
  PROVE  Moves(r)
<1>. DEFINE s == req[r]
<1>1. s \in Local /\ s.pc \in {"start", "find", "busy", "busyRead"} /\ ~Closed(s)
  BY Known DEF Arrive, FindBookings, Busy, BusyRead, Closed
<1>2. CASE \E a \in Answers \ {"taken"} : Goto(r, Done(r, a))
  BY <1>2, AnswerMoves
<1>3. ASSUME NEW t, Goto(r, t), Wayside(s, t), t.next # "taken" PROVE Moves(r)
  BY <1>1, <1>3, WaysideDescends DEF Moves
<1>4. CASE Arrive(r)
  <2>. DEFINE t == Blank(r, "read", "none")
  <2>1. t.pc = "read" /\ t.extras = {} /\ t.seen = None /\ t.next = "none"
    BY DEF Blank
  <2>2. Goto(r, t) \/ \E a \in Answers \ {"taken"} : Goto(r, Done(r, a))
    BY <1>4 DEF Arrive, Answer, Answers
  <2>. HIDE DEF t
  <2>. QED  BY <1>2, <1>3, <2>1, <2>2 DEF Wayside
<1>5. CASE FindBookings(r)
  <2>1. Goto(r, Onward(r, s, "busy")) \/ \E a \in Answers \ {"taken"} : Goto(r, Done(r, a))
    BY <1>5 DEF FindBookings, Answer, Answers
  <2>. QED  BY <1>2, <1>3, <2>1, DoneAside
<1>6. CASE Busy(r)
  <2>1. ASSUME NEW loc \in {"busyRead", "claim"}, Goto(r, [s EXCEPT !.pc = loc])
        PROVE  Moves(r)
    <3>. DEFINE t == [s EXCEPT !.pc = loc]
    <3>1. /\ Goto(r, t) /\ t.pc = loc /\ t.found = s.found /\ t.extras = s.extras
          /\ t.seen = s.seen /\ t.next = s.next
      BY <1>1, <2>1 DEF Local
    <3>. HIDE DEF t
    <3>2. Descends(r, s, t)
      BY <1>1, <1>6, <2>1, <3>1 DEF Descends, Naming, Recovering, Busy, FoundLate
    <3>. QED  BY <3>1, <3>2 DEF Moves
  <2>. QED  BY <1>2, <1>6, <2>1 DEF Busy, Answer, Answers
<1>7. CASE BusyRead(r)
  <2>1. CASE ~Ours(r, claims[First(r)]) /\ Goto(r, Done(r, "taken"))
    BY <2>1, AnswerMoves DEF Beaten
  <2>2. CASE Goto(r, Again(r, s))
    BY <1>3, <2>2, DoneAside
  <2>. QED  BY <1>2, <1>7, <2>1, <2>2 DEF BusyRead, Answer, Answers
<1>. QED  BY <1>4, <1>5, <1>6, <1>7

(* Step 6. *)
LEMMA ClaimCellMoves ==
  ASSUME NEW r \in Request, BookingInv, SafetyInv, FoundLate, ClaimCell(r) PROVE Moves(r)
<1>. DEFINE s == req[r]
            c == s.at
            onward == [s EXCEPT !.at = c + 1, !.retried = FALSE]
            create == [s EXCEPT !.pc = "create", !.retried = FALSE]
            released == ReleaseThen(r, s, Acquired(r), "unavailable")
<1>1. s \in Local /\ s.pc = "claim" /\ ~Closed(s) /\ s.found = None
  BY Known DEF ClaimCell, Closed, FoundLate
<1>2. ASSUME NEW t, Goto(r, t), t.pc \in {"claim", "create"}, t.found = s.found,
             t.extras = s.extras, t.seen = s.seen, t.next = s.next
      PROVE  Moves(r)
  <2>1. Descends(r, s, t)
    BY <1>1, <1>2 DEF Descends, Naming, Recovering
  <2>. QED  BY <1>2, <2>1 DEF Moves
<1>3. CASE Goto(r, onward)
  <2>1. /\ Goto(r, onward) /\ onward.pc = "claim" /\ onward.found = s.found
        /\ onward.extras = s.extras /\ onward.seen = s.seen /\ onward.next = s.next
    BY <1>1, <1>3 DEF Local
  <2>. HIDE DEF onward
  <2>. QED  BY <1>2, <2>1
<1>4. CASE Goto(r, create)
  <2>1. /\ Goto(r, create) /\ create.pc = "create" /\ create.found = s.found
        /\ create.extras = s.extras /\ create.seen = s.seen /\ create.next = s.next
    BY <1>1, <1>4 DEF Local
  <2>. HIDE DEF create
  <2>. QED  BY <1>2, <2>1
<1>5. CASE Goto(r, released)
  <2>1. Wayside(s, released) /\ released.next # "taken"
    BY <1>1, ReleaseAside
  <2>. QED  BY <1>1, <1>5, <2>1, WaysideDescends DEF Moves
<1>. QED  BY <1>3, <1>4, <1>5 DEF ClaimCell

(* MeetHeld: the verdict taken needs a cell of another booking. *)
LEMMA MeetHeldMoves ==
  ASSUME NEW r \in Request, BookingInv, SafetyInv, MeetHeld(r) PROVE Moves(r)
<1>. DEFINE s == req[r]
            held == claims[s.at]
            met == [s EXCEPT !.seen = held, !.caller = "step6"]
            polling == [met EXCEPT !.seenOwn = TRUE]
            recover == [met EXCEPT !.pc = "recover"]
<1>1. s \in Local /\ s.pc = "claim" /\ ~Closed(s) /\ s.at \in Cell /\ held # None
  BY Known DEF MeetHeld, Closed, Local
<1>2. held \in Record
  BY <1>1, HeldFacts, GoodRecordFacts DEF BookingInv
<1>3. CASE Goto(r, Again(r, s))
  BY <1>1, <1>3, DoneAside, WaysideDescends DEF Moves
<1>4. CASE ~Ours(r, held) /\ Goto(r, ReleaseThen(r, s, Acquired(r), "taken"))
  <2>1. Beaten(r, s)
    BY <1>1, <1>4 DEF Beaten, Claiming
  <2>. QED  BY <1>1, <1>4, <2>1, ReleaseAside, WaysideDescends DEF Moves
<1>5. CASE Goto(r, ReleaseThen(r, s, Acquired(r), "again"))
  <2>. DEFINE t == ReleaseThen(r, s, Acquired(r), "again")
  <2>1. Goto(r, t) /\ Wayside(s, t) /\ t.next # "taken"
    BY <1>1, <1>5, ReleaseAside
  <2>. QED  BY <1>1, <2>1, WaysideDescends DEF Moves
<1>6. CASE Goto(r, ReleaseThen(r, polling, Acquired(r), "poll"))
  <2>1. polling \in Local /\ polling.extras = s.extras /\ polling.seen = held
    BY <1>1, <1>2 DEF Local
  <2>2. Goto(r, ReleaseThen(r, polling, Acquired(r), "poll"))
    BY <1>6
  <2>. HIDE DEF polling
  <2>. DEFINE t == ReleaseThen(r, polling, Acquired(r), "poll")
  <2>3. Goto(r, t) /\ Wayside(polling, t) /\ t.next # "taken"
    BY <2>1, <2>2, ReleaseAside
  <2>. HIDE DEF t
  <2>4. Descends(r, s, t)
    BY <1>1, <2>1, <2>3, WaysideDescends
  <2>. QED  BY <2>3, <2>4 DEF Moves
<1>7. CASE Goto(r, recover)
  <2>1. /\ Goto(r, recover) /\ recover.pc = "recover" /\ recover.extras = s.extras
        /\ recover.seen = held /\ recover.next = s.next /\ recover.at = s.at
    BY <1>1, <1>2, <1>7 DEF Local
  <2>. HIDE DEF recover
  <2>2. Descends(r, s, recover)
    BY <1>1, <2>1 DEF Descends, Naming, Recovering
  <2>. QED  BY <2>1, <2>2 DEF Moves
<1>. QED  BY <1>3, <1>4, <1>5, <1>6, <1>7 DEF MeetHeld

(* Recovery. *)
LEMMA RecoverPendingMoves ==
  ASSUME NEW r \in Request, BookingInv, SafetyInv, RecoverPending(r) PROVE Moves(r)
<1>. DEFINE s == req[r]
            q == s.seen.owner
            writing(k) == [s EXCEPT !.pc = "recWrite", !.found = k]
<1>1. /\ s \in Local /\ s.pc = "recover" /\ ~Closed(s) /\ UNCHANGED events
      /\ s.seen.state = "pending"
  BY Known DEF RecoverPending, Closed
<1>2. ASSUME NEW k, Goto(r, writing(k)), k # None => events'[k] \in {"hidden", "live", "moved"}
      PROVE  Moves(r)
  <2>. DEFINE t == writing(k)
  <2>1. /\ Goto(r, t) /\ t.pc = "recWrite" /\ t.found = k /\ t.extras = s.extras
        /\ t.seen = s.seen /\ t.next = s.next
    BY <1>1, <1>2 DEF Local
  <2>. HIDE DEF t
  <2>2. Descends(r, s, t)
    BY <1>1, <1>2, <2>1 DEF Descends, Recovering, Closed
  <2>. QED  BY <2>1, <2>2 DEF Moves
<1>3. CASE Goto(r, Resume(r, s, "failed"))
  <2>1. /\ Wayside(s, Resume(r, s, "failed"))
        /\ Resume(r, s, "failed").next = "taken" => s.next = "taken"
    BY <1>1, ResumeAside DEF Outcomes
  <2>. QED  BY <1>1, <1>3, <2>1, WaysideDescends DEF Moves
<1>4. \A hits \in Lookups(FpOf[q], BindingOf[q]) : \A e \in hits :
        events'[e] \in {"hidden", "live", "moved"}
  BY <1>1 DEF Lookups
<1>. QED  BY <1>2, <1>3, <1>4 DEF RecoverPending

(* RecoverBooked: a kept booking beats the request that met it. *)
LEMMA RecoverBookedMoves ==
  ASSUME NEW r \in Request, BookingInv, SafetyInv, RecoverBooked(r) PROVE Moves(r)
<1>. DEFINE s == req[r]
            e == s.seen.event
            status == IF s.cache[e] = "none" THEN events[e] ELSE s.cache[e]
            known == [s EXCEPT !.cache[e] = status]
            writing == [known EXCEPT !.pc = "recWrite", !.found = None]
<1>1. /\ s \in Local /\ s.pc = "recover" /\ ~Closed(s) /\ s.seen.state = "booked"
  BY Known DEF RecoverBooked, Closed
<1>2. e \in Event
  BY <1>1, RecoveringKnown DEF Recovering, GoodRecord, Carrying
<1>3. status \in EventStatus
  BY <1>1, <1>2 DEF BookingInv, CalendarTypeOK, Local
<1>4. /\ known \in Local /\ known.extras = s.extras /\ known.seen = s.seen
      /\ known.next = s.next /\ known.caller = s.caller /\ known.at = s.at
      /\ known = [s EXCEPT !.cache[e] = status]
  BY <1>1, <1>2, <1>3 DEF Local
<1>5. ASSUME NEW a \in {"kept", "failed"}, NEW u \in {s, known}, Goto(r, Resume(r, u, a))
      PROVE  Moves(r)
  <2>1. /\ u \in Local /\ u.extras = s.extras /\ u.seen = s.seen /\ u.next = s.next
        /\ u.caller = s.caller
    BY <1>1, <1>4
  <2>2. /\ Wayside(u, Resume(r, u, a))
        /\ Resume(r, u, a).next = "taken" =>
             s.next = "taken" \/ (s.caller = "step6" /\ ~Ours(r, s.seen))
    BY <2>1, ResumeAside DEF Outcomes
  <2>3. s.caller = "step6" /\ ~Ours(r, s.seen) => Beaten(r, s)
    BY <1>1 DEF Beaten, Claiming, Recovering
  <2>4. Descends(r, s, Resume(r, u, a))
    BY <1>1, <2>1, <2>2, <2>3, WaysideDescends
  <2>. QED  BY <1>5, <2>4 DEF Moves
<1>6. CASE Goto(r, writing)
  <2>. HIDE DEF known
  <2>1. /\ Goto(r, writing) /\ writing.pc = "recWrite" /\ writing.found = None
        /\ writing.extras = s.extras /\ writing.seen = s.seen /\ writing.next = s.next
        /\ writing.at = s.at
    BY <1>4, <1>6 DEF Local
  <2>. HIDE DEF writing
  <2>2. Descends(r, s, writing)
    BY <1>1, <2>1 DEF Descends, Recovering, Closed
  <2>. QED  BY <2>1, <2>2 DEF Moves
<1>7. Goto(r, Resume(r, known, "kept")) \/ Goto(r, writing) \/ Goto(r, Resume(r, s, "failed"))
  BY DEF RecoverBooked
<1>. HIDE DEF known, writing
<1>. QED  BY <1>5, <1>6, <1>7

(* RecoverWrite: so does a claim just finalized. *)
LEMMA RecoverWriteMoves ==
  ASSUME NEW r \in Request, BookingInv, SafetyInv, RecoverWrite(r) PROVE Moves(r)
<1>. DEFINE s == req[r]
            others == IF s.seen.state = "pending" THEN CellsOfSeen(s) \ {s.at} ELSE {}
            swap == IF s.found = None THEN Release(s.at, s.seen)
                    ELSE Replace(s.at, s.seen, Verdict(s))
            done == IF s.found = None THEN "released" ELSE "finalized"
            onward == [s EXCEPT !.pc = "siblings", !.todo = others]
            reread == [s EXCEPT !.pc = "recRead"]
<1>1. s \in Local /\ s.pc = "recWrite" /\ ~Closed(s) /\ s.at \in Cell
  BY Known DEF RecoverWrite, Closed, Local
<1>2. ASSUME NEW a \in {done, "failed"}, Goto(r, Resume(r, s, a)), a = "failed" \/ swap
      PROVE  Moves(r)
  <2>1. /\ Wayside(s, Resume(r, s, a))
        /\ Resume(r, s, a).next = "taken" =>
             \/ s.next = "taken"
             \/ s.caller = "step6" /\ ~Ours(r, s.seen) /\ a \notin {"failed", "released"}
    BY <1>1, ResumeAside DEF Outcomes
  <2>2. a \notin {"failed", "released"} => claims[s.at] = s.seen
    BY <1>2 DEF Replace
  <2>3. Resume(r, s, a).next = "taken" => s.next = "taken" \/ Beaten(r, s)
    BY <1>1, <2>1, <2>2 DEF Beaten, Claiming, Recovering
  <2>. QED  BY <1>1, <1>2, <2>1, <2>3, WaysideDescends DEF Moves
<1>3. CASE swap /\ others # {} /\ Goto(r, onward)
  <2>1. /\ Goto(r, onward) /\ onward.pc = "siblings" /\ onward.seen = s.seen
        /\ onward.found = s.found /\ onward.extras = s.extras /\ onward.at = s.at
        /\ onward.next = s.next
    BY <1>1, <1>3 DEF Local
  <2>2. s.found # None => claims'[s.at] = BookedAs(s.seen, s.found)
    BY <1>1, <1>3, OtherCells DEF Replace, Verdict
  <2>. HIDE DEF onward
  <2>3. Descends(r, s, onward)
    BY <1>1, <2>1, <2>2 DEF Descends, Recovering, Naming, Closed
  <2>. QED  BY <2>1, <2>3 DEF Moves
<1>4. CASE Goto(r, reread)
  <2>1. /\ Goto(r, reread) /\ reread.pc = "recRead" /\ reread.seen = s.seen
        /\ reread.found = s.found /\ reread.extras = s.extras /\ reread.at = s.at
        /\ reread.next = s.next
    BY <1>1, <1>4 DEF Local
  <2>. HIDE DEF reread
  <2>2. Descends(r, s, reread)
    BY <1>1, <2>1 DEF Descends, Recovering, Naming, Closed
  <2>. QED  BY <2>1, <2>2 DEF Moves
<1>5. \/ swap /\ others = {} /\ Goto(r, Resume(r, s, done))
      \/ swap /\ others # {} /\ Goto(r, onward)
      \/ Goto(r, Resume(r, s, "failed"))
      \/ Goto(r, reread)
  BY DEF RecoverWrite
<1>. HIDE DEF swap, done, onward, reread, others
<1>. QED  BY <1>2, <1>3, <1>4, <1>5

(* RecoverRead: so does a claim that is live again. *)
LEMMA RecoverReadMoves ==
  ASSUME NEW r \in Request, BookingInv, SafetyInv, RecoverRead(r) PROVE Moves(r)
<1>. DEFINE s == req[r]
            held == claims[s.at]
            lost == [s EXCEPT !.cas = @ + 1, !.found = None]
            again == [lost EXCEPT !.seen = held]
            judging == [again EXCEPT !.pc = "recover"]
<1>1. s \in Local /\ s.pc = "recRead" /\ ~Closed(s) /\ s.at \in Cell
  BY Known DEF RecoverRead, Closed, Local
<1>2. s.cas \in 1..MaxCas
  BY <1>1, CasAssumption, Known DEF Fine, Coherent, Local
<1>3. /\ lost \in Local /\ lost.cas > 1 /\ lost.extras = s.extras /\ lost.seen = s.seen
      /\ lost.next = s.next /\ lost.at = s.at
  <2>1. s.cas + 1 \in 1..(MaxCas + 1) /\ s.cas + 1 > 1
    BY <1>2, CasAssumption
  <2>. QED  BY <1>1, <2>1 DEF Local
<1>4. held # None =>
        /\ again \in Local /\ again.cas > 1 /\ again.extras = s.extras /\ again.seen = held
        /\ again.next = s.next
        /\ judging.pc = "recover" /\ judging.extras = s.extras /\ judging.seen = held
        /\ judging.next = s.next /\ judging.at = s.at
  <2>1. held # None => held \in Record
    BY <1>1, HeldFacts, GoodRecordFacts DEF BookingInv
  <2>. HIDE DEF lost
  <2>. QED  BY <1>3, <2>1 DEF Local
<1>5. ASSUME NEW u \in Local, NEW a, u.cas > 1, u.extras = s.extras, u.next = s.next,
             u.seen = s.seen \/ u.seen = held,
             a \in Outcomes, Goto(r, Resume(r, u, a))
      PROVE  Moves(r)
  <2>1. Wayside(u, Resume(r, u, a)) /\ (Resume(r, u, a).next = "taken" => s.next = "taken")
    BY <1>5, ResumeAside
  <2>2. Descends(r, s, Resume(r, u, a))
    BY <1>1, <1>5, <2>1, WaysideDescends
  <2>. QED  BY <1>5, <2>2 DEF Moves
<1>6. CASE \E a \in {"released", "failed"} : Goto(r, Resume(r, lost, a))
  <2>. HIDE DEF lost
  <2>. QED  BY <1>3, <1>5, <1>6 DEF Outcomes
<1>7. CASE held # None /\ Goto(r, Resume(r, again, "held"))
  <2>. HIDE DEF again
  <2>. QED  BY <1>4, <1>5, <1>7 DEF Outcomes
<1>8. CASE held # None /\ Goto(r, judging)
  <2>. HIDE DEF judging
  <2>1. Descends(r, s, judging)
    BY <1>1, <1>4, <1>8 DEF Descends, Naming, Recovering
  <2>. QED  BY <1>8, <2>1 DEF Moves
<1>. QED  BY <1>6, <1>7, <1>8 DEF RecoverRead, Judge

(* RecoverSiblings: the outcome of the recovery is unchanged. *)
LEMMA RecoverSiblingsMoves ==
  ASSUME NEW r \in Request, BookingInv, SafetyInv, RecoverSiblings(r) PROVE Moves(r)
<1>. DEFINE s == req[r]
            rest(c) == [s EXCEPT !.todo = @ \ {c}]
            done == IF s.found = None THEN "released" ELSE "finalized"
<1>1. s \in Local /\ s.pc = "siblings" /\ ~Closed(s)
  BY Known DEF RecoverSiblings, Closed
<1>2. PICK c \in s.todo :
        Goto(r, IF s.todo = {c} THEN Resume(r, rest(c), done) ELSE rest(c))
  BY DEF RecoverSiblings
<1>. DEFINE t == rest(c)
<1>3. /\ t \in Local /\ t.pc = s.pc /\ t.seen = s.seen /\ t.found = s.found
      /\ t.extras = s.extras /\ t.at = s.at /\ t.next = s.next /\ t.caller = s.caller
      /\ t = rest(c)
  BY <1>1 DEF Local
<1>. HIDE DEF t
<1>4. CASE Goto(r, Resume(r, t, done))
  <2>1. /\ Wayside(t, Resume(r, t, done))
        /\ Resume(r, t, done).next = "taken" =>
             s.next = "taken" \/ (s.caller = "step6" /\ ~Ours(r, s.seen) /\ s.found # None)
    BY <1>3, ResumeAside DEF Outcomes
  <2>2. Resume(r, t, done).next = "taken" => s.next = "taken" \/ Beaten(r, s)
    BY <1>1, <2>1 DEF Beaten, Claiming, Recovering
  <2>3. Descends(r, s, Resume(r, t, done))
    BY <1>1, <1>3, <2>1, <2>2, WaysideDescends
  <2>. QED  BY <1>4, <2>3 DEF Moves
<1>5. CASE Goto(r, t)
  <2>1. Descends(r, s, t)
    BY <1>1, <1>3 DEF Descends, Naming, Recovering, Closed
  <2>. QED  BY <1>5, <2>1 DEF Moves
<1>. QED  BY <1>2, <1>3, <1>4, <1>5

(* Steps 7 and 8, releases and crashes. *)
LEMMA CreateMoves ==
  ASSUME NEW r \in Request, BookingInv, SafetyInv, FoundLate, Create(r) PROVE Moves(r)
<1>. DEFINE s == req[r]
            e == CreateId(r)
            looking(k) == [s EXCEPT !.pc = "lookup", !.found = k]
            created(k) == [s EXCEPT !.pc = "finalize", !.found = k,
                                    !.seen = MyRecord(r), !.todo = CellsOf(r)]
            unsure == [s EXCEPT !.pc = "lookup"]
            released == ReleaseThen(r, s, CellsOf(r), "unavailable")
<1>1. s \in Local /\ s.pc = "create" /\ ~Closed(s) /\ s.found = None
  BY Known DEF Create, Closed, FoundLate
<1>2. MyRecord(r).state = "pending"
  BY DEF MyRecord, Pending
<1>3. ASSUME NEW k \in Event, CommitCreate(e, k)
      PROVE  events'[k] \in {"hidden", "live", "moved"}
  <2>1. CASE UNCHANGED events /\ k \in ActiveFor(FpOf[Creator(e)])
    BY <2>1 DEF ActiveFor, Exists
  <2>2. CASE k = e /\ events' = [events EXCEPT ![e] = Committed]
    BY <1>3, <2>2 DEF Committed, BookingInv, CalendarTypeOK
  <2>. QED  BY <1>3, <2>1, <2>2 DEF CommitCreate
<1>4. ASSUME NEW t, Goto(r, t), t.extras = s.extras, t.next = s.next,
             t.found = s.found \/ events'[t.found] \in {"hidden", "live", "moved"},
             t.seen = s.seen \/ t.seen = MyRecord(r),
             t.pc \in {"lookup", "finalize"}
      PROVE  Moves(r)
  <2>1. Descends(r, s, t)
    BY <1>1, <1>2, <1>4 DEF Descends, Recovering
  <2>. QED  BY <1>4, <2>1 DEF Moves
<1>5. ASSUME NEW k \in Event, CommitCreate(e, k), Goto(r, looking(k)) \/ Goto(r, created(k))
      PROVE  Moves(r)
  <2>1. /\ looking(k).extras = s.extras /\ looking(k).next = s.next
        /\ looking(k).found = k /\ looking(k).seen = s.seen /\ looking(k).pc = "lookup"
        /\ created(k).extras = s.extras /\ created(k).next = s.next
        /\ created(k).found = k /\ created(k).seen = MyRecord(r)
        /\ created(k).pc = "finalize"
    BY <1>1 DEF Local
  <2>. HIDE DEF looking, created
  <2>. QED  BY <1>3, <1>4, <1>5, <2>1
<1>6. CASE Goto(r, unsure)
  <2>1. /\ unsure.extras = s.extras /\ unsure.next = s.next /\ unsure.found = s.found
        /\ unsure.seen = s.seen /\ unsure.pc = "lookup"
    BY <1>1 DEF Local
  <2>. HIDE DEF unsure
  <2>. QED  BY <1>4, <1>6, <2>1
<1>7. CASE Goto(r, released)
  <2>1. Wayside(s, released) /\ released.next # "taken"
    BY <1>1, ReleaseAside
  <2>. QED  BY <1>1, <1>7, <2>1, WaysideDescends DEF Moves
<1>8. \/ \E k \in Event : CommitCreate(e, k) /\ (Goto(r, looking(k)) \/ Goto(r, created(k)))
      \/ Goto(r, unsure) \/ Goto(r, released)
  BY DEF Create
<1>. HIDE DEF looking, created, unsure, released
<1>. QED  BY <1>5, <1>6, <1>7, <1>8

(* Lookup: what is kept was found in the calendar. *)
LEMMA LookupMoves ==
  ASSUME NEW r \in Request, BookingInv, SafetyInv, Lookup(r) PROVE Moves(r)
<1>. DEFINE s == req[r]
            retry == [s EXCEPT !.pc = "create", !.second = TRUE]
<1>1. s \in Local /\ s.pc = "lookup" /\ UNCHANGED events /\ MyRecord(r).state = "pending"
  BY Known DEF Lookup, StoreAndCalendarUnchanged, MyRecord, Pending
<1>2. CASE Goto(r, Done(r, "unconfirmed"))
  BY <1>2, AnswerMoves
<1>3. ASSUME NEW keep, NEW hits, keep = s.found \/ events[keep] \in {"live", "moved"},
             Goto(r, KeepOne(r, s, keep, hits))
      PROVE  Moves(r)
  <2>. DEFINE t == KeepOne(r, s, keep, hits)
  <2>1. /\ Goto(r, t) /\ t.pc \in {"finalize", "dedupe"} /\ t.found = keep
        /\ t.seen = MyRecord(r) /\ t.next = s.next
    BY <1>1, <1>3 DEF KeepOne, Local
  <2>. HIDE DEF t
  <2>2. Descends(r, s, t)
    BY <1>1, <1>3, <2>1 DEF Descends, Naming, Recovering, Closed
  <2>. QED  BY <2>1, <2>2 DEF Moves
<1>4. CASE s.found = None /\ Goto(r, retry)
  <2>1. /\ Goto(r, retry) /\ retry.pc = "create" /\ retry.found = s.found
        /\ retry.seen = s.seen /\ retry.next = s.next
    BY <1>1, <1>4 DEF Local
  <2>. HIDE DEF retry
  <2>2. Descends(r, s, retry)
    BY <1>1, <1>4, <2>1 DEF Descends, Naming, Recovering, Closed
  <2>. QED  BY <2>1, <2>2 DEF Moves
<1>5. CASE \E hits : Goto(r, KeepOne(r, s, s.found, hits))
  BY <1>3, <1>5
<1>6. ASSUME NEW hits \in Lookups(FpOf[r], BindingOf[r]), NEW keep \in hits,
             Goto(r, KeepOne(r, s, keep, hits))
      PROVE  Moves(r)
  <2>1. events[keep] \in {"live", "moved"}
    BY DEF Lookups
  <2>. QED  BY <1>3, <1>6, <2>1
<1>. QED  BY <1>2, <1>4, <1>5, <1>6 DEF Lookup

(* DeleteExtra: the duplicates get fewer. *)
LEMMA DeleteExtraMoves ==
  ASSUME NEW r \in Request, BookingInv, SafetyInv, DeleteExtra(r) PROVE Moves(r)
<1>. DEFINE s == req[r]
<1>1. s \in Local /\ s.pc = "dedupe"
  BY Known DEF DeleteExtra
<1>2. PICK e \in s.extras :
        Goto(r, [s EXCEPT !.extras = @ \ {e},
                          !.pc = IF s.extras = {e} THEN "finalize" ELSE "dedupe"])
  BY DEF DeleteExtra
<1>. DEFINE t == [s EXCEPT !.extras = @ \ {e},
                           !.pc = IF s.extras = {e} THEN "finalize" ELSE "dedupe"]
<1>3. /\ Goto(r, t) /\ t.pc \in {"finalize", "dedupe"} /\ t.found = s.found
      /\ t.extras \subseteq s.extras /\ t.seen = s.seen /\ t.next = s.next
  BY <1>1, <1>2 DEF Local
<1>. HIDE DEF t
<1>4. Descends(r, s, t)
  BY <1>1, <1>3 DEF Descends, Naming, Recovering, Closed
<1>. QED  BY <1>3, <1>4 DEF Moves

(* Finalize ends in an answer that stands. *)
LEMMA FinalizeMoves ==
  ASSUME NEW r \in Request, BookingInv, SafetyInv, Finalize(r) PROVE Moves(r)
<1>. DEFINE s == req[r]
<1>1. s \in Local /\ s.pc = "finalize"
  BY Known DEF Finalize
<1>2. CASE Goto(r, Done(r, "booked"))
  BY <1>2, AnswerMoves
<1>3. ASSUME NEW c, Goto(r, [s EXCEPT !.todo = @ \ {c}]) PROVE Moves(r)
  <2>. DEFINE t == [s EXCEPT !.todo = @ \ {c}]
  <2>1. /\ Goto(r, t) /\ t.pc = "finalize" /\ t.found = s.found
        /\ t.extras = s.extras /\ t.seen = s.seen /\ t.next = s.next
    BY <1>1, <1>3 DEF Local
  <2>. HIDE DEF t
  <2>2. Descends(r, s, t)
    BY <1>1, <2>1 DEF Descends, Naming, Recovering, Closed
  <2>. QED  BY <2>1, <2>2 DEF Moves
<1>. QED  BY <1>2, <1>3 DEF Finalize

(* ReleaseCells ends in the answer, round or polling that was due. *)
LEMMA ReleaseCellsMoves ==
  ASSUME NEW r \in Request, BookingInv, SafetyInv, ReleaseCells(r) PROVE Moves(r)
<1>. DEFINE s == req[r]
<1>1. s \in Local /\ s.pc = "release" /\ ~Closed(s)
  BY Known DEF ReleaseCells, Closed
<1>2. CASE Goto(r, Follow(r, s, s.next))
  BY <1>1, <1>2, FollowAside, WaysideDescends DEF Moves
<1>3. ASSUME NEW c, Goto(r, [s EXCEPT !.todo = @ \ {c}]) PROVE Moves(r)
  <2>. DEFINE t == [s EXCEPT !.todo = @ \ {c}]
  <2>1. /\ Goto(r, t) /\ t.pc = "release" /\ t.found = s.found
        /\ t.extras = s.extras /\ t.seen = s.seen /\ t.next = s.next
    BY <1>1, <1>3 DEF Local
  <2>. HIDE DEF t
  <2>2. Descends(r, s, t)
    BY <1>1, <2>1 DEF Descends, Naming, Recovering, Closed
  <2>. QED  BY <2>1, <2>2 DEF Moves
<1>. QED  BY <1>2, <1>3 DEF ReleaseCells

(* Every step of a request. *)
LEMMA StepMoves ==
  ASSUME NEW r \in Request, BookingInv, SafetyInv, FoundLate,
         Arrive(r) \/ Step(r) \/ Crash(r)
  PROVE  /\ Descends(r, req[r], req'[r])
         /\ \A q \in Request : q # r => req'[q] = req[q]
<1>1. ASSUME Step(r) PROVE Moves(r)
  BY <1>1, ReadFirstMoves, ReplayMoves, PollMoves, PollLookupMoves, StepsTwoToFiveMove,
     ClaimCellMoves, MeetHeldMoves, RecoverPendingMoves, RecoverBookedMoves,
     RecoverWriteMoves, RecoverReadMoves, RecoverSiblingsMoves, CreateMoves, LookupMoves,
     DeleteExtraMoves, FinalizeMoves, ReleaseCellsMoves DEF Step
<1>2. Moves(r)
  BY <1>1, StepsTwoToFiveMove, AnswerMoves DEF Crash, Answer
<1>3. PICK t : Goto(r, t) /\ Descends(r, req[r], t)
  BY <1>2 DEF Moves
<1>4. req'[r] = t /\ \A q \in Request : q # r => req'[q] = req[q]
  BY <1>3 DEF Goto, BookingInv, ReqInv
<1>. QED  BY <1>3, <1>4


(* A step is a request's, or leaves claims and requests alone. *)
LEMMA WhoseStep ==
  ASSUME [Next]_vars
  PROVE  \/ \E r \in Request : Arrive(r) \/ Step(r) \/ Crash(r)
         \/ UNCHANGED <<claims, req>>
  BY DEF Next, Age, Vendor, Host, vars, claimVars

(* Nothing has been found early, ever. *)
LEMMA FoundLateKept ==
  ASSUME BookingInv, SafetyInv, FoundLate, [Next]_vars
  PROVE  FoundLate'
<1>1. ASSUME NEW r \in Request, Arrive(r) \/ Step(r) \/ Crash(r) PROVE FoundLate'
  <2>1. Descends(r, req[r], req'[r]) /\ \A q \in Request : q # r => req'[q] = req[q]
    BY <1>1, StepMoves
  <2>. QED  BY <2>1 DEF Descends, FoundLate
<1>2. CASE UNCHANGED <<claims, req>>
  BY <1>2 DEF FoundLate
<1>. QED  BY <1>1, <1>2, WhoseStep

(* At first nothing has been found. *)
LEMMA FoundLateInit == Init => FoundLate
  BY DEF Init, RequestInit, Blank, FoundLate

-----------------------------------------------------------------------------
(* How the calendar changes. *)

(* An event is created by a running create or one that was sent; once it   *)
(* is there it is published, edited by the host or deleted as a duplicate. *)
CalendarMoves ==
  \A e \in Event :
    /\ Happened(events, e) /\ events'[e] # events[e] =>
         \/ events[e] = "hidden" /\ events'[e] = "live"
         \/ HostEdits /\ Exists(e) /\ events'[e] \in {"moved", "gone"}
         \/ events'[e] = "deleted" /\ \E r \in Request : req[r].pc = "dedupe" /\ e \in req[r].extras
    /\ ~Happened(events, e) /\ Happened(events', e) =>
         /\ events'[e] \in {"hidden", "live"}
         /\ Dedupe => ActiveFor(FpOf[Creator(e)]) = {}
         /\ MayLand(e) \/ req[Creator(e)].pc = "create"
         /\ \A d \in Event : d # e => events'[d] = events[d]
    /\ events'[e] = "sent" /\ events[e] # "sent" =>
         events[e] = "none" /\ req[Creator(e)].pc = "create"

(* A duplicate was found next to another event of the same booking. *)
ExtrasMove ==
  \A r \in Request : \A x \in req'[r].extras :
    \/ x \in req[r].extras
    \/ /\ x \in Event /\ events[x] \in {"live", "moved"}
       /\ \E k \in Carrying(FpOf[Creator(x)]) : k # x /\ Happened(events, k)

(* One event changes. *)
LEMMA OneEvent ==
  ASSUME BookingInv, NEW e \in Event, NEW st, events' = [events EXCEPT ![e] = st]
  PROVE  events'[e] = st /\ \A d \in Event : d # e => events'[d] = events[d]
  BY DEF BookingInv, CalendarTypeOK

(* A create sent, by a step or by the death of the instance. *)
LEMMA SentMoves ==
  ASSUME NEW r \in Request, BookingInv, SafetyInv, req[r].pc = "create",
         SendCreate(CreateId(r))
  PROVE  CalendarMoves
<1>1. CreateId(r) \in Event /\ Creator(CreateId(r)) = r /\ events[CreateId(r)] = "none"
  BY CreateIdFresh
<1>2. events'[CreateId(r)] = "sent" /\ \A d \in Event : d # CreateId(r) => events'[d] = events[d]
  BY <1>1, OneEvent DEF SendCreate
<1>. HIDE DEF CreateId
<1>. QED  BY <1>1, <1>2 DEF CalendarMoves, Happened

(* A create committed. *)
LEMMA CommitMoves ==
  ASSUME NEW r \in Request, BookingInv, SafetyInv, req[r].pc = "create",
         NEW k, CommitCreate(CreateId(r), k)
  PROVE  CalendarMoves
<1>. DEFINE e == CreateId(r)
<1>1. e \in Event /\ Creator(e) = r /\ events[e] = "none"
  BY CreateIdFresh
<1>. HIDE DEF e
<1>2. CASE UNCHANGED events
  BY <1>2 DEF CalendarMoves
<1>3. CASE /\ ~(Dedupe /\ ActiveFor(FpOf[Creator(e)]) # {})
           /\ events' = [events EXCEPT ![e] = Committed]
  <2>1. events'[e] = Committed /\ \A d \in Event : d # e => events'[d] = events[d]
    BY <1>1, <1>3, OneEvent
  <2>. QED  BY <1>1, <1>3, <2>1 DEF CalendarMoves, Happened, Committed
<1>. QED  BY <1>2, <1>3 DEF CommitCreate, e

(* Every step of a request. *)
LEMMA StepMovesCalendar ==
  ASSUME NEW r \in Request, BookingInv, SafetyInv, Arrive(r) \/ Step(r) \/ Crash(r)
  PROVE  CalendarMoves
<1>1. CASE UNCHANGED events
  BY <1>1 DEF CalendarMoves
<1>2. CASE Create(r)
  BY <1>1, <1>2, SentMoves, CommitMoves DEF Create
<1>3. CASE Crash(r)
  BY <1>1, <1>3, SentMoves DEF Crash
<1>4. CASE DeleteExtra(r)
  <2>1. ASSUME NEW e \in req[r].extras, DeleteEvent(e) PROVE CalendarMoves
    <3>1. e \in Event /\ req[r].pc = "dedupe"
      BY <1>4, Known DEF Local, DeleteExtra
    <3>2. events'[e] = "deleted" /\ \A d \in Event : d # e => events'[d] = events[d]
      BY <2>1, <3>1, OneEvent DEF DeleteEvent
    <3>3. Happened(events, e)
      BY <1>4, Known DEF DeleteExtra, FoundTrue
    <3>. QED  BY <2>1, <3>1, <3>2, <3>3 DEF CalendarMoves, Happened
  <2>. QED  BY <1>1, <1>4, <2>1 DEF DeleteExtra
<1>. QED
  BY <1>1, <1>2, <1>3, <1>4
     DEF Step, Arrive, ReadFirst, Replay, Poll, PollLookup, FindBookings, Busy, BusyRead,
         ClaimCell, MeetHeld, RecoverPending, RecoverBooked, RecoverWrite, RecoverRead,
         RecoverSiblings, Lookup, Finalize, ReleaseCells, StoreAndCalendarUnchanged

(* The vendor and the host. *)
LEMMA OutsideMovesCalendar ==
  ASSUME BookingInv, NEW e \in Event, Vendor(e) \/ Host(e)
  PROVE  CalendarMoves
<1>1. PICK st : events' = [events EXCEPT ![e] = st]
  BY DEF Vendor, Host, Land, Lose, Publish, HostCancel, HostMove
<1>2. events'[e] = st /\ \A d \in Event : d # e => events'[d] = events[d]
  BY <1>1, OneEvent
<1>3. CASE Land(e)
  <2>1. st = Committed /\ MayLand(e)
    BY <1>2, <1>3, OneEvent DEF Land
  <2>2. Dedupe => ActiveFor(FpOf[Creator(e)]) = {}
    BY <2>1 DEF MayLand, ActiveFor, Exists
  <2>. QED  BY <1>2, <2>1, <2>2 DEF CalendarMoves, Happened, Committed, MayLand
<1>4. CASE Lose(e) \/ Publish(e)
  <2>1. (events[e] = "sent" /\ st = "none") \/ (events[e] = "hidden" /\ st = "live")
    BY <1>2, <1>4, OneEvent DEF Lose, Publish
  <2>. QED  BY <1>2, <2>1 DEF CalendarMoves, Happened
<1>5. CASE Host(e)
  <2>1. HostEdits /\ Exists(e) /\ st \in {"moved", "gone"}
    BY <1>2, <1>5, OneEvent DEF Host, HostCancel, HostMove, Exists, InSlot
  <2>. QED  BY <1>2, <2>1 DEF CalendarMoves, Happened, Exists
<1>. QED  BY <1>3, <1>4, <1>5 DEF Vendor

(* Every step. *)
LEMMA AllMoveCalendar ==
  ASSUME BookingInv, SafetyInv, [Next]_vars
  PROVE  CalendarMoves
<1>1. CASE UNCHANGED events
  BY <1>1 DEF CalendarMoves
<1>. QED  BY <1>1, StepMovesCalendar, OutsideMovesCalendar DEF Next, Age, vars

(* A lookup keeps one event apart from the duplicates. *)
LEMMA LookupExtras ==
  ASSUME NEW r \in Request, BookingInv, SafetyInv, Lookup(r), NEW x \in req'[r].extras
  PROVE  \/ x \in req[r].extras
         \/ /\ x \in Event /\ events[x] \in {"live", "moved"}
            /\ \E k \in Carrying(FpOf[Creator(x)]) : k # x /\ Happened(events, k)
<1>. DEFINE s == req[r]
            good(y) == /\ y \in Event /\ events[y] \in {"live", "moved"}
                       /\ \E k \in Carrying(FpOf[Creator(y)]) : k # y /\ Happened(events, k)
<1>1. /\ s \in Local /\ s.pc = "lookup"
      /\ s.found # None => s.found \in Carrying(FpOf[r]) /\ Happened(events, s.found)
  BY Known DEF Lookup, Fine, Coherent, FoundTrue
<1>2. \A t : Goto(r, t) => req'[r] = t
  BY DEF Goto, BookingInv, ReqInv
<1>3. ASSUME Goto(r, Done(r, "unconfirmed")) PROVE x \in s.extras
  BY <1>2, <1>3 DEF Done, Blank
<1>4. ASSUME Goto(r, [s EXCEPT !.pc = "create", !.second = TRUE]) PROVE x \in s.extras
  <2>1. [s EXCEPT !.pc = "create", !.second = TRUE].extras = s.extras
    BY <1>1 DEF Local
  <2>. QED  BY <1>2, <1>4, <2>1
<1>5. ASSUME NEW keep, NEW hits, Goto(r, KeepOne(r, s, keep, hits))
      PROVE  x \in hits \ {keep}
  <2>1. KeepOne(r, s, keep, hits).extras = hits \ {keep}
    BY <1>1 DEF KeepOne, Local
  <2>. QED  BY <1>2, <1>5, <2>1
<1>6. ASSUME NEW hits \in Lookups(FpOf[r], BindingOf[r]), NEW keep \in hits \cup {s.found},
             keep # None, x \in hits \ {keep}
      PROVE  good(x)
  <2>1. \A e \in hits : e \in Carrying(FpOf[r]) /\ e \in Event /\ events[e] \in {"live", "moved"}
    BY DEF Lookups, Carrying
  <2>2. FpOf[Creator(x)] = FpOf[r]
    BY <1>6, <2>1 DEF Carrying
  <2>3. keep \in Carrying(FpOf[r]) /\ Happened(events, keep)
    BY <1>1, <1>6, <2>1 DEF Happened
  <2>. QED  BY <1>6, <2>1, <2>2, <2>3
<1>7. ~Goto(r, KeepOne(r, s, s.found, {}))
  BY <1>5
<1>8. ASSUME NEW hits \in Lookups(FpOf[r], BindingOf[r]), s.found # None,
             Goto(r, KeepOne(r, s, s.found, hits))
      PROVE  good(x)
  BY <1>5, <1>6, <1>8
<1>9. ASSUME NEW hits \in Lookups(FpOf[r], BindingOf[r]), NEW keep \in hits,
             Goto(r, KeepOne(r, s, keep, hits))
      PROVE  good(x)
  <2>1. keep # None
    BY LookupsCarry, NoneAssumption
  <2>. QED  BY <1>5, <1>6, <1>9, <2>1
<1>. HIDE DEF good
<1>10. x \in s.extras \/ good(x)
  BY <1>3, <1>4, <1>7, <1>8, <1>9 DEF Lookup, Answer
<1>. QED  BY <1>10 DEF good

(* Every step. *)
LEMMA AllMoveExtras ==
  ASSUME BookingInv, SafetyInv, FoundLate, [Next]_vars
  PROVE  ExtrasMove
<1>1. ASSUME NEW r \in Request, Arrive(r) \/ Step(r) \/ Crash(r) PROVE ExtrasMove
  <2>1. Descends(r, req[r], req'[r]) /\ \A q \in Request : q # r => req'[q] = req[q]
    BY <1>1, StepMoves
  <2>2. req[r].pc = "lookup" => req'[r].extras \subseteq req[r].extras \/ Lookup(r)
    <3>1. CASE Crash(r)
      <4>1. req'[r] = Done(r, "crashed")
        BY <3>1 DEF Crash, Answer, Goto, BookingInv, ReqInv
      <4>. QED  BY <4>1 DEF Done, Blank
    <3>. QED
      BY <1>1, <3>1
         DEF Step, Arrive, ReadFirst, Replay, Poll, PollLookup, FindBookings, Busy, BusyRead,
             ClaimCell, MeetHeld, RecoverPending, RecoverBooked, RecoverWrite, RecoverRead,
             RecoverSiblings, Create, DeleteExtra, Finalize, ReleaseCells
  <2>. QED  BY <2>1, <2>2, LookupExtras DEF Descends, ExtrasMove
<1>2. CASE UNCHANGED <<claims, req>>
  BY <1>2 DEF ExtrasMove
<1>. QED  BY <1>1, <1>2, WhoseStep

-----------------------------------------------------------------------------
(* At a vendor that recognises a repeated request_key. *)

(* Of every booking that was ever created one event is never deleted: it   *)
(* is the only one committed, or the host cancelled it.                    *)
Anchored(f) ==
  (\E e \in Carrying(f) : Happened(events, e)) =>
     \E a \in Carrying(f) :
       /\ events[a] \in {"hidden", "live", "moved", "gone"}
       /\ events[a] # "gone" => \A e \in Carrying(f) : e = a \/ ~Happened(events, e)
       /\ \A r \in Request : a \notin req[r].extras

(* A booking has at most one event in the calendar. *)
OneActive(f) == \A d, e \in Carrying(f) : Exists(d) /\ Exists(e) => d = e

AnchorInv == Dedupe => \A f \in Fingerprint : Anchored(f) /\ OneActive(f)

(* At first nothing was created. *)
LEMMA AnchorInit == Init => AnchorInv
  BY DEF Init, CalendarInit, AnchorInv, Anchored, OneActive, Exists, Happened, Carrying

(* An event that is created when there is none becomes the one that stays; *)
(* an event that stays is never found next to another one.                 *)
LEMMA AnchorKept ==
  ASSUME BookingInv, SafetyInv, FoundLate, AnchorInv, [Next]_vars
  PROVE  AnchorInv'
<1>. SUFFICES ASSUME Dedupe, NEW f \in Fingerprint
              PROVE  Anchored(f)' /\ OneActive(f)'
  BY DEF AnchorInv
<1>1. CalendarMoves /\ ExtrasMove
  BY AllMoveCalendar, AllMoveExtras
<1>2. Anchored(f) /\ OneActive(f)
  BY DEF AnchorInv
<1>3. \A e \in Carrying(f) : e \in Event /\ FpOf[Creator(e)] = f
  BY DEF Carrying
<1>4. ASSUME NEW e \in Event, ~Happened(events, e) PROVE \A r \in Request : e \notin req'[r].extras
  BY <1>1, <1>4 DEF ExtrasMove, SafetyInv, Knows, FoundTrue, Happened
<1>5. ASSUME NEW e \in Carrying(f), ~Happened(events, e), Happened(events', e)
      PROVE  Anchored(f)' /\ OneActive(f)'
  <2>1. /\ events'[e] \in {"hidden", "live"} /\ \A d \in Event : d # e => events'[d] = events[d]
        /\ \A d \in Carrying(f) : ~Exists(d)
    BY <1>1, <1>3, <1>5 DEF CalendarMoves, ActiveFor
  <2>2. OneActive(f)'
    BY <1>3, <2>1 DEF OneActive, Exists, Carrying
  <2>3. CASE \A d \in Carrying(f) : ~Happened(events, d)
    <3>1. \A d \in Carrying(f) : d = e \/ ~Happened(events', d)
      BY <1>3, <2>1, <2>3 DEF Happened
    <3>. QED  BY <1>3, <1>4, <1>5, <2>1, <2>2, <3>1 DEF Anchored, Carrying
  <2>4. CASE \E d \in Carrying(f) : Happened(events, d)
    <3>1. PICK a \in Carrying(f) :
            /\ events[a] \in {"hidden", "live", "moved", "gone"}
            /\ \A r \in Request : a \notin req[r].extras
      BY <1>2, <2>4 DEF Anchored
    <3>2. events[a] = "gone" /\ events'[a] = "gone"
      BY <1>3, <1>5, <2>1, <3>1 DEF Exists, Happened
    <3>3. \A r \in Request : a \notin req'[r].extras
      BY <1>1, <3>1, <3>2 DEF ExtrasMove
    <3>. QED  BY <2>2, <3>2, <3>3 DEF Anchored, Carrying
  <2>. QED  BY <2>3, <2>4
<1>6. CASE \A e \in Carrying(f) : Happened(events', e) => Happened(events, e)
  <2>1. \A e \in Carrying(f) : Exists(e)' => Exists(e)
    BY <1>1, <1>3, <1>6 DEF CalendarMoves, Exists, Happened
  <2>2. OneActive(f)'
    BY <1>2, <2>1 DEF OneActive, Carrying
  <2>3. CASE \A d \in Carrying(f) : ~Happened(events, d)
    BY <1>6, <2>2, <2>3 DEF Anchored, Carrying
  <2>4. CASE \E d \in Carrying(f) : Happened(events, d)
    <3>1. PICK a \in Carrying(f) :
            /\ events[a] \in {"hidden", "live", "moved", "gone"}
            /\ events[a] # "gone" => \A e \in Carrying(f) : e = a \/ ~Happened(events, e)
            /\ \A r \in Request : a \notin req[r].extras
      BY <1>2, <2>4 DEF Anchored
    <3>2. /\ events'[a] \in {"hidden", "live", "moved", "gone"}
          /\ events'[a] # "gone" => events[a] # "gone"
      BY <1>1, <1>3, <3>1 DEF CalendarMoves, Happened, Exists
    <3>3. \A r \in Request : a \notin req'[r].extras
      BY <1>1, <1>3, <3>1 DEF ExtrasMove
    <3>4. events'[a] # "gone" => \A e \in Carrying(f) : e = a \/ ~Happened(events', e)
      BY <1>6, <3>1, <3>2
    <3>. QED  BY <2>2, <3>2, <3>3, <3>4 DEF Anchored, Carrying
  <2>. QED  BY <2>3, <2>4
<1>. QED  BY <1>5, <1>6

(* What is true at such a vendor, always. *)
LEMMA AnchorHolds == Spec => [](FoundLate /\ AnchorInv)
<1>1. BookingInv /\ SafetyInv /\ FoundLate /\ AnchorInv /\ [Next]_vars => FoundLate' /\ AnchorInv'
  BY FoundLateKept, AnchorKept
<1>. QED  BY <1>1, FoundLateInit, AnchorInit, InvariantHolds, SafetyHolds, PTL DEF Spec

(* At a vendor that recognises a repeated request_key a booked answer      *)
(* stays true until the host cancels: whatever clean-ups, recoveries and   *)
(* retries do, one event of the booking stays in the calendar.             *)
THEOREM BookedStays == Dedupe => (Spec => []BookedStaysBooked)
<1>. SUFFICES ASSUME Dedupe PROVE Spec => []BookedStaysBooked
  OBVIOUS
<1>1. SafetyInv /\ AnchorInv => BookedStaysBooked
  <2>. SUFFICES ASSUME SafetyInv, AnchorInv, NEW r \in Request, Answered(r) = "booked"
                PROVE  \E e \in Carrying(FpOf[r]) : Exists(e) \/ events[e] = "gone"
    BY DEF BookedStaysBooked
  <2>1. \E e \in Carrying(FpOf[r]) : Happened(events, e)
    BY DEF SafetyInv, Knows, AnswerTrue, Answered, Ended
  <2>. QED  BY <2>1, CellFacts DEF AnchorInv, Anchored, Exists
<1>. QED  BY <1>1, SafetyHolds, AnchorHolds, PTL

(* At such a vendor two invocations of one booking never both have an      *)
(* event in the slot.                                                      *)
THEOREM OneCreator == Dedupe => (Spec => []OneCreatorPerBooking)
<1>. SUFFICES ASSUME Dedupe PROVE Spec => []OneCreatorPerBooking
  OBVIOUS
<1>1. AnchorInv => OneCreatorPerBooking
  <2>. SUFFICES ASSUME AnchorInv, NEW d \in Event, NEW e \in Event, InSlot(d), InSlot(e),
                       FpOf[Creator(d)] = FpOf[Creator(e)]
                PROVE  d = e
    BY DEF OneCreatorPerBooking
  <2>1. Creator(d) \in Request /\ FpOf[Creator(d)] \in Fingerprint
    BY CellFacts DEF Event, Creator
  <2>2. d \in Carrying(FpOf[Creator(d)]) /\ e \in Carrying(FpOf[Creator(d)])
    BY DEF Carrying
  <2>. QED  BY <2>1, <2>2 DEF AnchorInv, OneActive, InSlot, Exists
<1>. QED  BY <1>1, AnchorHolds, PTL

-----------------------------------------------------------------------------
(* Without the host's edits no event is ever spoiled. *)

NoSpoil ==
  Dedupe /\ ~HostEdits =>
    /\ \A e \in Event : ~Spoiled(events, e)
    /\ \A r \in Request : req[r].extras = {}

(* At first nothing was created that could be spoilt. *)
LEMMA NoSpoilInit == Init => NoSpoil
  BY DEF Init, CalendarInit, RequestInit, Blank, NoSpoil, Spoiled

(* There is nothing to delete next to the event that stays. *)
LEMMA NoSpoilKept ==
  ASSUME BookingInv, SafetyInv, FoundLate, AnchorInv, NoSpoil, [Next]_vars
  PROVE  NoSpoil'
<1>. SUFFICES ASSUME Dedupe, ~HostEdits
              PROVE  /\ \A e \in Event : ~Spoiled(events', e)
                     /\ \A r \in Request : req'[r].extras = {}
  BY DEF NoSpoil
<1>1. CalendarMoves /\ ExtrasMove
  BY AllMoveCalendar, AllMoveExtras
<1>2. ASSUME NEW e \in Event PROVE ~Spoiled(events', e)
  BY <1>1 DEF CalendarMoves, NoSpoil, Spoiled, Happened
<1>3. ASSUME NEW r \in Request, NEW x \in req'[r].extras PROVE FALSE
  <2>1. x \in Event /\ \E k \in Carrying(FpOf[Creator(x)]) : k # x /\ Happened(events, k)
        /\ events[x] \in {"live", "moved"}
    BY <1>1, <1>3 DEF ExtrasMove, NoSpoil
  <2>2. PICK k \in Carrying(FpOf[Creator(x)]) : k # x /\ Happened(events, k)
    BY <2>1
  <2>3. FpOf[Creator(x)] \in Fingerprint /\ x \in Carrying(FpOf[Creator(x)])
    BY <2>1, CellFacts DEF Event, Creator, Carrying
  <2>4. PICK a \in Carrying(FpOf[Creator(x)]) :
          events[a] # "gone" => \A e \in Carrying(FpOf[Creator(x)]) : e = a \/ ~Happened(events, e)
    BY <2>2, <2>3 DEF AnchorInv, Anchored
  <2>5. events[a] # "gone"
    BY DEF NoSpoil, Spoiled, Carrying
  <2>. QED  BY <2>1, <2>2, <2>3, <2>4, <2>5 DEF Happened
<1>. QED  BY <1>2, <1>3

-----------------------------------------------------------------------------
(* Or with the host's edits, if every booking is requested only once. *)

Solo == \A p, q \in Request : FpOf[p] = FpOf[q] => p = q

(* The vendor recognises a repeated request_key, and the host edits only   *)
(* calendars on which every booking is requested once.                     *)
Sound == Dedupe /\ (~HostEdits \/ Solo)

(* The event is the only one of its creator that may stand in the slot,    *)
(* now or later.                                                           *)
Proven(ev, rq, x) ==
  /\ Happened(ev, x)
  /\ Closed(rq[Creator(x)])
  /\ \A y \in By(Creator(x)) : y # x => ev[y] \notin {"hidden", "live"}

(* The events found and the events that claims name are such events. *)
SoloInv ==
  Dedupe /\ Solo =>
    /\ \A r \in Request :
         /\ req[r].pc \in Naming /\ req[r].found # None => Proven(events, req, req[r].found)
         /\ req[r].seen # None /\ req[r].seen.state = "booked" => Proven(events, req, req[r].seen.event)
    /\ \A c \in Cell :
         claims[c] # None /\ claims[c].state = "booked" => Proven(events, req, claims[c].event)

(* At first nothing was found. *)
LEMMA SoloInit == Init => SoloInv
  BY DEF Init, ClaimInit, RequestInit, Blank, SoloInv, Naming

(* Requests are closed for good. *)
LEMMA ClosedStays ==
  ASSUME BookingInv, SafetyInv, FoundLate, [Next]_vars, NEW q \in Request, Closed(req[q])
  PROVE  Closed(req'[q])
<1>1. ASSUME NEW r \in Request, Arrive(r) \/ Step(r) \/ Crash(r) PROVE Closed(req'[q])
  <2>1. Descends(r, req[r], req'[r]) /\ \A p \in Request : p # r => req'[p] = req[p]
    BY <1>1, StepMoves
  <2>. QED  BY <2>1 DEF Descends
<1>. QED  BY <1>1, WhoseStep

(* A proven event stays one. *)
LEMMA ProvenStays ==
  ASSUME BookingInv, SafetyInv, FoundLate, Dedupe, [Next]_vars, NEW x \in Event, Proven(events, req, x)
  PROVE  Proven(events', req', x)
<1>1. CalendarMoves /\ Creator(x) \in Request /\ Closed(req'[Creator(x)])
  BY AllMoveCalendar, ClosedStays DEF Proven, Event, Creator
<1>2. Happened(events', x)
  BY <1>1 DEF CalendarMoves, Proven, Happened
<1>3. ASSUME NEW y \in By(Creator(x)), y # x PROVE events'[y] \notin {"hidden", "live"}
  <2>1. y \in Event /\ Creator(y) = Creator(x) /\ events[y] \notin {"hidden", "live"}
    BY <1>3 DEF By, Proven
  <2>2. x \in Carrying(FpOf[Creator(y)])
    BY <2>1 DEF Carrying
  <2>3. ~MayLand(y) /\ req[Creator(y)].pc # "create"
    BY <2>1, <2>2 DEF Proven, Happened, MayLand, Closed
  <2>. QED  BY <1>1, <2>1, <2>3 DEF CalendarMoves, InSlot, Happened
<1>. QED  BY <1>1, <1>2, <1>3 DEF Proven

(* An event that stands once its creator creates no more is proven. *)
LEMMA ProvenNow ==
  ASSUME AnchorInv', Dedupe, NEW x \in Event, events'[x] \in {"hidden", "live", "moved"},
         Closed(req'[Creator(x)])
  PROVE  Proven(events', req', x)
<1>1. Creator(x) \in Request /\ FpOf[Creator(x)] \in Fingerprint /\ x \in Carrying(FpOf[Creator(x)])
  BY CellFacts DEF Event, Creator, Carrying
<1>2. OneActive(FpOf[Creator(x)])'
  BY <1>1 DEF AnchorInv
<1>3. \A y \in Carrying(FpOf[Creator(x)]) : y # x => events'[y] \notin {"hidden", "live"}
  BY <1>1, <1>2 DEF OneActive, Exists, Carrying
<1>. QED  BY <1>1, <1>3, ByFacts DEF Proven, Happened

(* The local state after a step is a good one, too. *)
LEMMA FineNext ==
  ASSUME BookingInv', SafetyInv', NEW r \in Request
  PROVE  Fine(r, req'[r]) /\ Knows(events', EndedOnes', r, req'[r])
<1>1. req'[r] \in Local
  BY DEF BookingInv, ReqInv
<1>2. Coherent(r, req'[r])
  BY DEF BookingInv, ReqInv, Coherent, Polling, Ours, CellsOf, Carrying, Creator, GoodRecord
<1>. QED  BY <1>1, <1>2 DEF Fine, SafetyInv

(* Whoever finds an event does so for a request that creates no more. *)
LEMMA FoundIsClosed ==
  ASSUME BookingInv', SafetyInv', Solo, NEW r \in Request,
         req'[r].pc \in Naming, req'[r].found # None,
         req'[r].seen # None /\ req'[r].seen.state = "booked" =>
           Closed(req'[Creator(req'[r].seen.event)])
  PROVE  Closed(req'[Creator(req'[r].found)])
<1>. DEFINE t == req'[r]
<1>1. Fine(r, t) /\ Knows(events', EndedOnes', r, t)
  BY FineNext
<1>2. t \in Local /\ Coherent(r, t) /\ t.found \in Event /\ t.pc \in Naming /\ t.found # None
  BY <1>1 DEF Fine, Local
<1>3. /\ t.seen # None => t.seen \in GoodRecord /\ t.seen.owner \in Request
                          /\ t.seen.state \in {"pending", "booked"}
  BY <1>2, GoodRecordFacts DEF Coherent, GoodRecord, Record
<1>4. t.seen # None /\ t.seen.state = "booked" => Closed(req'[Creator(t.seen.event)])
  OBVIOUS
<1>5. \A q \in Request : req'[q].pc = "done" => Closed(req'[q])
  BY DEF Closed
<1>6. EndedOnes' = {q \in Request : req'[q].pc = "done"}
  BY DEF EndedOnes
<1>. HIDE DEF t
<1>7. CASE t.pc = "lookup"
  <2>1. t.found \in Carrying(FpOf[r])
    BY <1>2, <1>7 DEF Coherent
  <2>2. Creator(t.found) = r
    BY <1>2, <2>1 DEF Solo, Carrying, Event, Creator
  <2>. QED  BY <1>2, <1>7, <2>2 DEF Closed, t
<1>8. CASE t.pc # "lookup"
  <2>1. t.seen # None /\ t.found \in Carrying(FpOf[t.seen.owner])
    BY <1>2, <1>8 DEF Coherent, Naming, UsesSeen
  <2>2. Creator(t.found) = t.seen.owner
    BY <1>2, <1>3, <2>1 DEF Solo, Carrying, Event, Creator
  <2>3. CASE t.pc \in {"dedupe", "finalize"}
    <3>1. FpOf[t.seen.owner] = FpOf[r]
      BY <1>1, <2>3 DEF Knows, AnswerTrue, Ours
    <3>2. t.seen.owner = r
      BY <1>3, <2>1, <3>1 DEF Solo
    <3>. QED  BY <2>2, <2>3, <3>2 DEF Closed, t
  <2>4. CASE t.pc \in {"recWrite", "siblings"} /\ t.seen.state = "pending"
    <3>1. t.seen.owner \in EndedOnes'
      BY <1>1, <2>4 DEF Knows, RecoveryTrue, Recovering, Settled
    <3>. QED  BY <1>5, <1>6, <2>2, <3>1 DEF t
  <2>5. CASE t.pc \in {"recWrite", "siblings"} /\ t.seen.state = "booked"
    <3>1. t.seen.event \in Carrying(FpOf[t.seen.owner])
      BY <1>3, <2>1, <2>5 DEF GoodRecord
    <3>2. Creator(t.seen.event) = t.seen.owner
      BY <1>3, <2>1, <3>1 DEF Solo, Carrying, Event, Creator
    <3>. QED  BY <1>4, <2>1, <2>2, <2>5, <3>2 DEF t
  <2>. QED  BY <1>2, <1>3, <1>8, <2>1, <2>3, <2>4, <2>5 DEF Naming
<1>. QED  BY <1>7, <1>8

(* Every step keeps it. *)
LEMMA SoloKept ==
  ASSUME BookingInv, BookingInv', SafetyInv, SafetyInv', FoundLate, AnchorInv', SoloInv,
         [Next]_vars
  PROVE  SoloInv'
<1>. DEFINE ProvenFound(p) == req'[p].pc \in Naming /\ req'[p].found # None
                                => Proven(events', req', req'[p].found)
            ProvenSeen(p) == req'[p].seen # None /\ req'[p].seen.state = "booked"
                                => Proven(events', req', req'[p].seen.event)
            ProvenClaim(c) == claims'[c] # None /\ claims'[c].state = "booked"
                                => Proven(events', req', claims'[c].event)
<1>. SUFFICES ASSUME Dedupe, Solo
              PROVE  /\ \A p \in Request : ProvenFound(p) /\ ProvenSeen(p)
                     /\ \A c \in Cell : ProvenClaim(c)
  BY DEF SoloInv
<1>1. \A x \in Event : Proven(events, req, x) => Proven(events', req', x)
  BY ProvenStays
<1>2. ASSUME NEW c \in Cell, claims[c] # None, claims[c].state = "booked"
      PROVE  Proven(events', req', claims[c].event)
  <2>1. claims[c].event \in Event
    BY <1>2, HeldFacts DEF BookingInv, GoodRecord, Carrying
  <2>. QED  BY <1>1, <1>2, <2>1 DEF SoloInv
<1>3. ASSUME NEW p \in Request, req[p].seen # None, req[p].seen.state = "booked"
      PROVE  Proven(events', req', req[p].seen.event)
  <2>1. req[p].seen.event \in Event
    BY <1>3, LocalFine DEF Fine, Coherent, GoodRecord, Carrying
  <2>. QED  BY <1>1, <1>3, <2>1 DEF SoloInv
<1>4. ASSUME NEW p \in Request, req[p].pc \in Naming, req[p].found # None
      PROVE  Proven(events', req', req[p].found)
  <2>1. req[p].found \in Event
    BY <1>4, LocalFine DEF Fine, Local
  <2>. QED  BY <1>1, <1>4, <2>1 DEF SoloInv
<1>5. ASSUME NEW r \in Request, Arrive(r) \/ Step(r) \/ Crash(r)
      PROVE  /\ \A p \in Request : ProvenFound(p) /\ ProvenSeen(p)
             /\ \A c \in Cell : ProvenClaim(c)
  <2>1. Descends(r, req[r], req'[r]) /\ \A q \in Request : q # r => req'[q] = req[q]
    BY <1>5, StepMoves
  <2>2. ProvenSeen(r)
    BY <1>2, <1>3, <2>1 DEF Descends
  <2>3. ASSUME req'[r].pc \in Naming, req'[r].found # None
        PROVE  Proven(events', req', req'[r].found)
    <3>1. req'[r].found \in Event
      BY <2>3, FineNext DEF Fine, Local
    <3>2. CASE req[r].pc \in Naming /\ req'[r].found = req[r].found
      BY <1>4, <2>3, <3>2
    <3>3. CASE events'[req'[r].found] \in {"hidden", "live", "moved"}
      <4>1. Closed(req'[Creator(req'[r].found)])
        BY <2>2, <2>3, FoundIsClosed DEF Proven
      <4>. QED  BY <3>1, <3>3, <4>1, ProvenNow
    <3>. QED  BY <2>1, <2>3, <3>2, <3>3 DEF Descends
  <2>4. ASSUME NEW c \in Cell PROVE ProvenClaim(c)
    <3>1. ClaimChange(r, c)
      BY <1>5, StepChanges
    <3>2. CASE claims'[c] = claims[c]
      BY <1>2, <3>2
    <3>3. CASE Taken(r, c)
      BY <3>3 DEF Taken, MyRecord, Pending
    <3>4. CASE Finalized(r, c)
      <4>1. claims[c] \in GoodRecord
        BY <3>4, HeldFacts DEF BookingInv, Finalized
      <4>2. claims'[c].event = req[r].found
        BY <3>4, <4>1 DEF Finalized, BookedAs, GoodRecord, Record
      <4>. QED  BY <1>4, <3>4, <4>2 DEF Finalized, Naming
    <3>5. CASE GivenUp(r, c)
      BY <3>5 DEF GivenUp
    <3>. QED  BY <3>1, <3>2, <3>3, <3>4, <3>5 DEF ClaimChange
  <2>. QED  BY <1>3, <1>4, <2>1, <2>2, <2>3, <2>4
<1>6. CASE UNCHANGED <<claims, req>>
  BY <1>2, <1>3, <1>4, <1>6
<1>. QED  BY <1>5, <1>6, WhoseStep

(* Everything the steps keep. *)
CoreInv == BookingInv /\ SafetyInv /\ FoundLate /\ AnchorInv /\ NoSpoil /\ SoloInv

(* All of it holds always. *)
LEMMA CoreHolds == Spec => []CoreInv
<1>1. BookingInv /\ BookingInv' /\ SafetyInv /\ SafetyInv' /\ FoundLate /\ AnchorInv /\ AnchorInv'
        /\ NoSpoil /\ SoloInv /\ [Next]_vars => NoSpoil' /\ SoloInv'
  BY NoSpoilKept, SoloKept
<1>. QED
  BY <1>1, NoSpoilInit, SoloInit, InvariantHolds, SafetyHolds, AnchorHolds, PTL
     DEF Spec, CoreInv

-----------------------------------------------------------------------------
(* The cells of an event that stands, or may still come to stand. *)

Stands(r) ==
  \/ req[r].pc = "create" \/ (req[r].pc = "lookup" /\ req[r].found = None)
  \/ \E e \in By(r) : InSlot(e) \/ MayLand(e)

KeptInv == Sound => \A r \in Request : Stands(r) => \A c \in CellsOf(r) : Holds(r, c)

(* A claim is given up only if its owner's events need it no more. *)
LEMMA GivenUpIsFree ==
  ASSUME CoreInv, Sound, NEW r \in Request, NEW c \in Cell, GivenUp(r, c)
  PROVE  ~Stands(claims[c].owner)
<1>. DEFINE q == claims[c].owner
<1>1. /\ claims[c] \in GoodRecord /\ q \in Request /\ claims[c] # None
      /\ claims[c].state \in {"pending", "booked"}
  BY HeldFacts, GoodRecordFacts DEF CoreInv, BookingInv, GivenUp, GoodRecord, Record
<1>2. \A e \in By(q) : e \in Event /\ Creator(e) = q /\ FpOf[Creator(e)] = FpOf[q]
  BY <1>1, ByFacts
<1>3. CASE q = r /\ req[r].pc = "release"
  <2>1. Nothing(events, q)
    BY <1>3 DEF CoreInv, SafetyInv, Knows, CreateTrue
  <2>. QED  BY <1>3, <2>1 DEF Stands, Nothing, InSlot, MayLand
<1>4. CASE Barren(events, EndedOnes, q)
  BY <1>4 DEF Barren, EndedOnes, Stands, InSlot, MayLand, Standing
<1>5. CASE claims[c].state = "booked" /\ Spoiled(events, claims[c].event)
  <2>1. claims[c].event \in Event /\ FpOf[Creator(claims[c].event)] = FpOf[q]
        /\ Creator(claims[c].event) \in Request
    BY <1>1, <1>5 DEF GoodRecord, Carrying, Event, Creator
  <2>2. Dedupe /\ Solo
    BY <1>5, <2>1 DEF CoreInv, Sound, NoSpoil
  <2>3. Creator(claims[c].event) = q /\ Proven(events, req, claims[c].event)
    BY <1>1, <1>5, <2>1, <2>2 DEF CoreInv, SoloInv, Solo
  <2>4. Closed(req[q])
    BY <2>3 DEF Proven
  <2>5. ASSUME NEW e \in By(q) PROVE ~InSlot(e) /\ ~MayLand(e)
    <3>1. ~InSlot(e)
      BY <1>5, <2>3, <2>5 DEF Proven, InSlot, Spoiled
    <3>2. claims[c].event \in Carrying(FpOf[Creator(e)])
      BY <1>2, <2>1, <2>5 DEF Carrying
    <3>. QED  BY <1>5, <2>2, <3>1, <3>2 DEF MayLand, Spoiled
  <2>. QED  BY <2>4, <2>5 DEF Stands, Closed
<1>. QED  BY <1>1, <1>3, <1>4, <1>5 DEF GivenUp

(* No request comes to need cells for a booking that is already spoilt. *)
LEMMA SpoiltStoodBefore ==
  ASSUME CoreInv, CoreInv', Dedupe, Solo, [Next]_vars, NEW r \in Request,
         Stands(r)', SpoiltFp(events', FpOf[r])
  PROVE  Stands(r)
<1>1. CalendarMoves
  BY AllMoveCalendar DEF CoreInv
<1>2. PICK x \in Event : FpOf[Creator(x)] = FpOf[r] /\ Spoiled(events', x)
  BY DEF SpoiltFp, Carrying
<1>3. Happened(events, x) /\ Happened(events', x)
  BY <1>1, <1>2 DEF CalendarMoves, Spoiled, Happened
<1>4. x \in By(r)
  BY <1>2 DEF Solo, By, Event, Creator
<1>5. ASSUME NEW e \in By(r), InSlot(e)' PROVE Stands(r)
  <2>1. e \in Event /\ Creator(e) = r
    BY <1>5 DEF By
  <2>2. InSlot(e) \/ MayLand(e) \/ req[r].pc = "create"
    BY <1>1, <1>5, <2>1 DEF CalendarMoves, InSlot, Happened
  <2>. QED  BY <1>5, <2>2 DEF Stands
<1>6. \A e \in By(r) : ~MayLand(e)'
  BY <1>2, <1>3 DEF MayLand, Carrying, Happened, By
<1>7. ASSUME req'[r].pc = "create" \/ (req'[r].pc = "lookup" /\ req'[r].found = None)
      PROVE  Stands(r)
  <2>1. ~Nothing(events, r)
    BY <1>3, <1>4 DEF Nothing, Happened
  <2>2. req[r].pc # "claim"
    BY <2>1 DEF CoreInv, SafetyInv, Knows, CreateTrue
  <2>3. ASSUME NEW p \in Request, Arrive(p) \/ Step(p) \/ Crash(p) PROVE Stands(r)
    <3>1. Descends(p, req[p], req'[p]) /\ \A q \in Request : q # p => req'[q] = req[q]
      BY <2>3, StepMoves DEF CoreInv
    <3>2. CASE p # r
      BY <1>7, <3>1, <3>2 DEF Stands
    <3>3. CASE p = r
      BY <1>7, <2>2, <3>1, <3>3 DEF Descends, Closed, Stands
    <3>. QED  BY <3>2, <3>3
  <2>4. CASE UNCHANGED <<claims, req>>
    BY <1>7, <2>4 DEF Stands
  <2>. QED  BY <2>3, <2>4, WhoseStep
<1>. QED  BY <1>5, <1>6, <1>7 DEF Stands

(* Every step keeps the cells of what stands. *)
LEMMA KeptStays ==
  ASSUME CoreInv, CoreInv', KeptInv, [Next]_vars
  PROVE  KeptInv'
<1>. SUFFICES ASSUME Sound, NEW r \in Request, Stands(r)', NEW c \in CellsOf(r)
              PROVE  Holds(r, c)'
  BY DEF KeptInv, CellsOf
<1>1. CASE ~SpoiltFp(events', FpOf[r])
  <2>1. (\E e \in By(r) : Standing(events', e)) \/ req'[r].pc \in {"create", "lookup"}
    BY DEF Stands, InSlot, MayLand, Standing
  <2>2. Needed(events', r, req'[r]) = CellsOf(r)
    BY <2>1 DEF Needed
  <2>3. Covered(r)'
    BY DEF CoreInv, SafetyInv
  <2>. QED  BY <1>1, <2>2, <2>3 DEF Covered
<1>2. CASE SpoiltFp(events', FpOf[r])
  <2>1. Dedupe /\ Solo
    BY <1>2 DEF CoreInv, NoSpoil, Sound, SpoiltFp, Carrying
  <2>2. Stands(r)
    BY <1>2, <2>1, SpoiltStoodBefore
  <2>3. Holds(r, c) /\ c \in Cell
    BY <2>2, CellFacts DEF KeptInv
  <2>4. ASSUME NEW p \in Request, Arrive(p) \/ Step(p) \/ Crash(p) PROVE Holds(r, c)'
    <3>1. ClaimChange(p, c)
      BY <2>3, <2>4, StepChanges DEF CoreInv
    <3>2. ~GivenUp(p, c)
      BY <2>2, <2>3, GivenUpIsFree DEF Holds
    <3>3. CASE Finalized(p, c)
      <4>1. claims[c] \in GoodRecord
        BY <2>3, <3>3, HeldFacts DEF CoreInv, BookingInv, Finalized
      <4>2. claims'[c].owner = claims[c].owner /\ claims'[c].state = "booked"
            /\ claims'[c] \in [owner : Request, try : 1..MaxRounds,
                               state : {"pending", "booked"}, event : Event \cup {None}]
        BY <3>3, <4>1 DEF Finalized, BookedAs, GoodRecord, Record, Carrying
      <4>. QED  BY <2>3, <4>2, NoneAssumption DEF Holds, Record
    <3>. QED  BY <2>3, <3>1, <3>2, <3>3 DEF ClaimChange, Taken, Holds
  <2>5. CASE UNCHANGED <<claims, req>>
    BY <2>3, <2>5 DEF Holds
  <2>. QED  BY <2>4, <2>5, WhoseStep
<1>. QED  BY <1>1, <1>2

(* At first no request stands. *)
LEMMA KeptInit == Init => KeptInv
<1>. SUFFICES ASSUME Init, NEW r \in Request PROVE ~Stands(r)
  BY DEF KeptInv
<1>1. req[r].pc = "start" /\ \A e \in By(r) : events[e] = "none"
  BY ByFacts DEF Init, RequestInit, Blank, CalendarInit
<1>. QED  BY <1>1 DEF Stands, InSlot, MayLand

(* The cells of what stands are held, always. *)
LEMMA KeptHolds == Spec => [](CoreInv /\ KeptInv)
<1>1. CoreInv /\ CoreInv' /\ KeptInv /\ [Next]_vars => KeptInv'
  BY KeptStays
<1>. QED  BY <1>1, KeptInit, CoreHolds, PTL DEF Spec

(* The promise of the claims of step 6: no two events of different         *)
(* bookings ever stand in slots that share a cell, buffers included, at a  *)
(* vendor that recognises a repeated request_key, as long as the host does *)
(* not edit the events of bookings that are requested more than once.      *)
THEOREM NeverTwoInASlot == Sound => (Spec => []NoDoubleBooking)
<1>. SUFFICES ASSUME Sound PROVE Spec => []NoDoubleBooking
  OBVIOUS
<1>1. KeptInv => NoDoubleBooking
  <2>. SUFFICES ASSUME KeptInv, NEW d \in Event, NEW e \in Event, InSlot(d), InSlot(e),
                       NEW c \in CellsOf(Creator(d)) \cap CellsOf(Creator(e))
                PROVE  Creator(d) = Creator(e)
    BY DEF NoDoubleBooking
  <2>1. /\ Creator(d) \in Request /\ d \in By(Creator(d))
        /\ Creator(e) \in Request /\ e \in By(Creator(e))
    BY DEF Event, Creator, By
  <2>2. Holds(Creator(d), c) /\ Holds(Creator(e), c)
    BY <2>1 DEF KeptInv, Stands
  <2>. QED  BY <2>2 DEF Holds
<1>. QED  BY <1>1, KeptHolds, PTL

-----------------------------------------------------------------------------
(* Booking implements the ledger of exclusive slots. *)

Holder == [c \in Cell |-> IF claims[c] = None THEN None ELSE claims[c].owner]
RangeOfRequest == [r \in Request |-> CellsOf(r)]

(* Who may stand stands. *)
LEMMA MayStandStands ==
  /\ \A r \in MayStand : r \in Request /\ Stands(r)
  /\ \A r \in Request : r \in MayStand <=> \E e \in By(r) : InSlot(e) \/ MayLand(e)
  BY DEF MayStand, Stands, By

(* Two invocations of one booking do not both hold its first cell. *)
LEMMA OneHolder ==
  ASSUME KeptInv, Sound, NEW p \in Request, NEW q \in Request,
         Stands(p), Stands(q), FpOf[p] = FpOf[q]
  PROVE  p = q
<1>1. First(p) \in CellsOf(p) /\ First(p) \in CellsOf(q)
  BY CellFacts DEF First
<1>2. Holds(p, First(p)) /\ Holds(q, First(p))
  BY <1>1 DEF KeptInv
<1>. QED  BY <1>2 DEF Holds

(* The claims change in one cell at a time, or not at all. *)
LEMMA OneCell ==
  ASSUME NEW r \in Request, BookingInv, Arrive(r) \/ Step(r) \/ Crash(r)
  PROVE  \E c \in Cell : \A d \in Cell : d # c => claims'[d] = claims[d]
<1>1. ASSUME NEW c \in Cell, NEW v, Write(c, v)
      PROVE  \E b \in Cell : \A d \in Cell : d # b => claims'[d] = claims[d]
  BY <1>1, OtherCells
<1>2. CASE UNCHANGED claimVars
  BY <1>2, CellFacts DEF claimVars
<1>3. /\ req[r].at \in Cell /\ req[r].todo \subseteq Cell
  BY LocalFine DEF Fine, Local
<1>. QED
  BY <1>1, <1>2, <1>3
     DEF Step, Arrive, Crash, ReadFirst, Replay, Poll, PollLookup, FindBookings, Busy, BusyRead,
         ClaimCell, MeetHeld, RecoverPending, RecoverBooked, RecoverWrite, RecoverRead,
         RecoverSiblings, Create, Lookup, DeleteExtra, Finalize, ReleaseCells,
         StoreAndCalendarUnchanged, TryClaim, Replace, Release

(* Only one of claims and calendar changes in a step. *)
LEMMA OneAtATime ==
  ASSUME [Next]_vars
  PROVE  UNCHANGED claims \/ UNCHANGED events
<1>1. ASSUME NEW r \in Request, Arrive(r) \/ Create(r) \/ DeleteExtra(r) \/ Crash(r)
      PROVE  UNCHANGED claims
  BY <1>1 DEF Arrive, Create, DeleteExtra, Crash, StoreAndCalendarUnchanged, claimVars
<1>2. ASSUME NEW r \in Request,
             ClaimCell(r) \/ RecoverWrite(r) \/ RecoverSiblings(r) \/ Finalize(r) \/ ReleaseCells(r)
      PROVE  UNCHANGED events
  BY <1>2 DEF ClaimCell, RecoverWrite, RecoverSiblings, Finalize, ReleaseCells
<1>3. ASSUME NEW r \in Request,
             \/ ReadFirst(r) \/ Replay(r) \/ Poll(r) \/ PollLookup(r) \/ FindBookings(r)
             \/ Busy(r) \/ BusyRead(r) \/ MeetHeld(r) \/ Lookup(r)
      PROVE  UNCHANGED events
  BY <1>3 DEF ReadFirst, Replay, Poll, PollLookup, FindBookings, Busy, BusyRead, MeetHeld,
              Lookup, StoreAndCalendarUnchanged
<1>4. ASSUME NEW r \in Request, RecoverPending(r) \/ RecoverBooked(r) \/ RecoverRead(r)
      PROVE  UNCHANGED events
  BY <1>4 DEF RecoverPending, RecoverBooked, RecoverRead
<1>5. ASSUME NEW r \in Request, Step(r) PROVE UNCHANGED claims \/ UNCHANGED events
  BY <1>1, <1>2, <1>3, <1>4, <1>5 DEF Step
<1>. QED
  BY <1>1, <1>5 DEF Next, Age, Vendor, Host, vars, claimVars

(* A step on the claims takes a cell, gives one up, or changes no holder.  *)
LEMMA ClaimsFollowLedger ==
  ASSUME CoreInv, CoreInv', KeptInv, Sound, NEW r \in Request,
         Arrive(r) \/ Step(r) \/ Crash(r), UNCHANGED events
  PROVE  [Ledger!SlotsNext]_(Ledger!slotVars)
<1>1. MayStand' = MayStand
  BY DEF MayStand, InSlot, MayLand
<1>2. PICK c \in Cell : \A d \in Cell : d # c => claims'[d] = claims[d]
  BY OneCell DEF CoreInv
<1>3. \A d \in Cell : d # c => Holder'[d] = Holder[d]
  BY <1>2 DEF Holder
<1>4. ClaimChange(r, c)
  BY StepChanges DEF CoreInv
<1>5. CASE Holder'[c] = Holder[c]
  <2>1. Holder' = Holder
    BY <1>3, <1>5 DEF Holder
  <2>. QED  BY <1>1, <2>1 DEF Ledger!slotVars, Holder
<1>6. CASE Taken(r, c)
  <2>1. MyRecord(r).owner = r /\ claims'[c] = MyRecord(r) /\ claims[c] = None
        /\ claims'[c] # None
    BY <1>6, MyRecordGood, GoodRecordFacts DEF CoreInv, Taken
  <2>2. c \in CellsOf(r)
    BY <2>1 DEF CoreInv, BookingInv, ClaimInv, CellsOf
  <2>3. Holder[c] = None /\ Holder' = [Holder EXCEPT ![c] = r]
    BY <1>3, <2>1 DEF Holder
  <2>4. Ledger!Take(r, c)
    BY <1>1, <2>2, <2>3 DEF Ledger!Take, Holder
  <2>. QED  BY <2>4 DEF Ledger!SlotsNext
<1>7. CASE Finalized(r, c)
  <2>1. claims[c] \in GoodRecord /\ claims[c] # None
    BY <1>7, HeldFacts DEF CoreInv, BookingInv, Finalized
  <2>2. claims'[c].owner = claims[c].owner /\ claims'[c] # None
    <3>1. claims'[c] \in Record /\ claims'[c].owner = claims[c].owner
      BY <1>7, <2>1 DEF Finalized, BookedAs, GoodRecord, Record, Carrying
    <3>. QED  BY <3>1, NoneAssumption
  <2>. QED  BY <1>5, <2>1, <2>2 DEF Holder
<1>8. CASE GivenUp(r, c)
  <2>. DEFINE q == claims[c].owner
  <2>1. q \in Request /\ claims[c] # None /\ claims'[c] = None
    BY <1>8, HeldFacts, GoodRecordFacts DEF CoreInv, BookingInv, GivenUp
  <2>2. q \notin MayStand
    BY <1>8, GivenUpIsFree, MayStandStands
  <2>3. Holder[c] = q /\ Holder' = [Holder EXCEPT ![c] = None]
    BY <1>3, <2>1 DEF Holder
  <2>4. Ledger!GiveUp(q, c)
    BY <1>1, <2>2, <2>3 DEF Ledger!GiveUp, Holder
  <2>. QED  BY <2>1, <2>4 DEF Ledger!SlotsNext
<1>9. CASE claims'[c] = claims[c]
  BY <1>5, <1>9 DEF Holder
<1>. QED  BY <1>4, <1>6, <1>7, <1>8, <1>9 DEF ClaimChange

(* A create that lands makes no other invocation's create impossible that  *)
(* was still possible: there is none.                                      *)
LEMMA OthersStand ==
  ASSUME CoreInv, KeptInv, Sound, [Next]_vars, NEW e \in Event,
         \A d \in Event : d # e => events'[d] = events[d],
         NEW p \in Request, p # Creator(e)
  PROVE  p \in MayStand' <=> p \in MayStand
<1>1. CalendarMoves /\ Dedupe /\ Creator(e) \in Request
  BY AllMoveCalendar DEF CoreInv, Sound, Event, Creator
<1>2. \A d \in By(p) : d \in Event /\ events'[d] = events[d] /\ FpOf[Creator(d)] = FpOf[p]
  BY DEF By
<1>3. ASSUME NEW d \in By(p) PROVE InSlot(d)' <=> InSlot(d)
  BY <1>2, <1>3 DEF InSlot
<1>4. ASSUME NEW d \in By(p), MayLand(d)' PROVE MayLand(d)
  <2>1. \A x \in Event : Happened(events, x) => Happened(events', x)
    BY <1>1 DEF CalendarMoves, Happened
  <2>. QED  BY <1>1, <1>2, <1>4, <2>1 DEF MayLand, Happened, Carrying
<1>5. ASSUME NEW d \in By(p), MayLand(d), ~MayLand(d)' PROVE FALSE
  <2>1. PICK x \in Event : /\ FpOf[Creator(x)] = FpOf[p] /\ Happened(events', x)
                           /\ ~Happened(events, x)
    BY <1>1, <1>2, <1>5 DEF MayLand, Happened, Carrying
  <2>2. x = e
    BY <2>1 DEF Happened
  <2>3. MayLand(e) \/ req[Creator(e)].pc = "create"
    BY <1>1, <2>1, <2>2 DEF CalendarMoves
  <2>4. Stands(Creator(e)) /\ Stands(p)
    BY <1>5, <2>3 DEF Stands, By
  <2>. QED  BY <1>1, <2>1, <2>2, <2>4, OneHolder
<1>6. \A d \in By(p) : d \in By(p)
  OBVIOUS
<1>. QED  BY <1>2, <1>3, <1>4, <1>5, MayStandStands DEF MayStand, By

(* One event changes at a time, or none. *)
LEMMA OneEventMoves ==
  ASSUME BookingInv, SafetyInv, [Next]_vars
  PROVE  UNCHANGED events \/ \E e \in Event : \A d \in Event : d # e => events'[d] = events[d]
<1>1. ASSUME NEW e \in Event, NEW st, events' = [events EXCEPT ![e] = st]
      PROVE  \E x \in Event : \A d \in Event : d # x => events'[d] = events[d]
  BY <1>1, OneEvent
<1>2. ASSUME NEW r \in Request, req[r].pc = "create" PROVE CreateId(r) \in Event
  BY <1>2, CreateIdFresh
<1>3. ASSUME NEW r \in Request PROVE req[r].extras \subseteq Event
  BY LocalFine DEF Fine, Local
<1>4. ASSUME NEW r \in Request, Arrive(r) \/ Step(r) \/ Crash(r)
      PROVE  UNCHANGED events \/ \E e \in Event : \A d \in Event : d # e => events'[d] = events[d]
  <2>1. CASE Create(r)
    BY <1>1, <1>2, <2>1 DEF Create, CommitCreate, SendCreate
  <2>2. CASE Crash(r)
    BY <1>1, <1>2, <2>2 DEF Crash, SendCreate
  <2>3. CASE DeleteExtra(r)
    BY <1>1, <1>3, <2>3 DEF DeleteExtra, DeleteEvent
  <2>. QED
    BY <1>4, <2>1, <2>2, <2>3
       DEF Step, Arrive, ReadFirst, Replay, Poll, PollLookup, FindBookings, Busy, BusyRead,
           ClaimCell, MeetHeld, RecoverPending, RecoverBooked, RecoverWrite, RecoverRead,
           RecoverSiblings, Lookup, Finalize, ReleaseCells, StoreAndCalendarUnchanged
<1>5. ASSUME NEW e \in Event, Vendor(e) \/ Host(e)
      PROVE  \E x \in Event : \A d \in Event : d # x => events'[d] = events[d]
  BY <1>1, <1>5 DEF Vendor, Host, Land, Lose, Publish, HostCancel, HostMove
<1>. QED  BY <1>4, <1>5 DEF Next, Age, vars

(* A step on the calendar places an event on cells its creator holds,      *)
(* takes one away, or changes nothing.                                     *)
LEMMA CalendarFollowsLedger ==
  ASSUME CoreInv, KeptInv, KeptInv', Sound, [Next]_vars, UNCHANGED claims
  PROVE  [Ledger!SlotsNext]_(Ledger!slotVars)
<1>1. Holder' = Holder
  BY DEF Holder
<1>2. CASE UNCHANGED events
  <2>1. MayStand' = MayStand
    BY <1>2 DEF MayStand, InSlot, MayLand
  <2>. QED  BY <1>1, <2>1 DEF Ledger!slotVars, Holder
<1>3. CASE \E e \in Event : \A d \in Event : d # e => events'[d] = events[d]
  <2>1. PICK e \in Event : \A d \in Event : d # e => events'[d] = events[d]
    BY <1>3
  <2>. DEFINE q == Creator(e)
  <2>2. q \in Request /\ \A p \in Request : p # q => (p \in MayStand' <=> p \in MayStand)
    BY <2>1, OthersStand DEF Event, Creator
  <2>3. MayStand \subseteq Request /\ MayStand' \subseteq Request
    BY DEF MayStand
  <2>. HIDE DEF q
  <2>4. CASE q \in MayStand'
    <3>1. MayStand' = MayStand \cup {q}
      BY <2>2, <2>3, <2>4
    <3>2. Stands(q)'
      BY <2>4 DEF MayStand, Stands, By
    <3>3. \A c \in CellsOf(q) : Holds(q, c)'
      BY <2>2, <3>2 DEF KeptInv, CellsOf
    <3>4. \A c \in RangeOfRequest[q] : Holder[c] = q
      BY <1>1, <2>2, <3>3, CellFacts DEF RangeOfRequest, Holder, Holds
    <3>5. Ledger!Place(q)
      BY <1>1, <3>1, <3>4 DEF Ledger!Place, Holder, RangeOfRequest
    <3>. QED  BY <2>2, <3>5 DEF Ledger!SlotsNext
  <2>5. CASE q \notin MayStand'
    <3>1. MayStand' = MayStand \ {q}
      BY <2>2, <2>3, <2>5
    <3>2. Ledger!Delete(q)
      BY <1>1, <3>1 DEF Ledger!Delete, Holder
    <3>. QED  BY <2>2, <3>2 DEF Ledger!SlotsNext
  <2>. QED  BY <2>4, <2>5
<1>. QED  BY <1>2, <1>3, OneEventMoves DEF CoreInv

(* The same as a refinement, under the same hypothesis: whatever the       *)
(* interleaving, the failures and the crashes, every step of Booking is a  *)
(* step of ExclusiveSlots, or none.  With SlotsHeld and SlotsDisjoint of   *)
(* OffersProofs: a placed event's cells are held by its booker and two     *)
(* placed events share none.                                               *)
THEOREM BookingImplementsLedger == Sound => (Spec => ImplementsLedger)
<1>. SUFFICES ASSUME Sound PROVE Spec => ImplementsLedger
  OBVIOUS
<1>1. Init => Ledger!SlotsInit
  <2>. SUFFICES ASSUME Init PROVE Ledger!SlotsInit
    OBVIOUS
  <2>1. MayStand = {}
    BY DEF Init, CalendarInit, MayStand, InSlot, MayLand
  <2>2. \A c \in Cell : claims[c] = None
    BY DEF Init, ClaimInit
  <2>. QED  BY <2>1, <2>2 DEF Ledger!SlotsInit
<1>2. CoreInv /\ CoreInv' /\ KeptInv /\ KeptInv' /\ [Next]_vars
        => [Ledger!SlotsNext]_(Ledger!slotVars)
  <2>. SUFFICES ASSUME CoreInv, CoreInv', KeptInv, KeptInv', [Next]_vars
                PROVE  [Ledger!SlotsNext]_(Ledger!slotVars)
    OBVIOUS
  <2>1. CASE UNCHANGED claims
    BY <2>1, CalendarFollowsLedger
  <2>2. CASE UNCHANGED events /\ \E r \in Request : Arrive(r) \/ Step(r) \/ Crash(r)
    BY <2>2, ClaimsFollowLedger
  <2>. QED  BY <2>1, <2>2, OneAtATime, WhoseStep
<1>. QED  BY <1>1, <1>2, KeptHolds, PTL DEF Spec, ImplementsLedger, Ledger!SlotsSpec

-----------------------------------------------------------------------------
(* A request never loses its slot to itself. *)

(* Without the host's edits a booked claim is never changed again. *)
LEMMA BookedClaimsStay ==
  ASSUME CoreInv, Dedupe, ~HostEdits, NEW r \in Request, Arrive(r) \/ Step(r) \/ Crash(r),
         NEW c \in Cell, claims[c] # None, claims[c].state = "booked"
  PROVE  claims'[c] = claims[c]
<1>1. ClaimChange(r, c)
  BY StepChanges DEF CoreInv
<1>2. /\ claims[c] \in GoodRecord /\ claims[c].owner \in Request
      /\ claims[c].event \in Carrying(FpOf[claims[c].owner]) /\ claims[c].event \in Event
      /\ Happened(events, claims[c].event)
  BY HeldFacts, GoodRecordFacts
     DEF CoreInv, BookingInv, SafetyInv, ClaimsTrue, RecordTrue, GoodRecord, Carrying
<1>3. ~GivenUp(r, c)
  BY <1>2 DEF GivenUp, CoreInv, NoSpoil
<1>4. CASE Finalized(r, c)
  <2>1. req[r].found \in Carrying(FpOf[claims[c].owner]) /\ Happened(events, req[r].found)
    BY <1>4 DEF Finalized, CoreInv, SafetyInv, Knows, FoundTrue
  <2>2. PICK a \in Carrying(FpOf[claims[c].owner]) :
          events[a] # "gone" => \A e \in Carrying(FpOf[claims[c].owner]) :
                                  e = a \/ ~Happened(events, e)
    BY <1>2, <2>1, CellFacts DEF CoreInv, AnchorInv, Anchored
  <2>3. events[a] # "gone"
    BY DEF CoreInv, NoSpoil, Spoiled, Carrying
  <2>4. req[r].found = claims[c].event
    BY <1>2, <2>1, <2>2, <2>3
  <2>5. BookedAs(claims[c], claims[c].event) = claims[c]
    BY <1>2 DEF BookedAs, GoodRecord, Record
  <2>. QED  BY <1>4, <2>4, <2>5 DEF Finalized
<1>. QED  BY <1>1, <1>3, <1>4 DEF ClaimChange, Taken

(* Then the record a recovery judged, or finalized, is still in its cell. *)
StillThere ==
  Dedupe /\ ~HostEdits => \A r \in Request :
    LET s == req[r] IN
      /\ s.pc \in Recovering /\ s.seen.state = "booked" => claims[s.at] = s.seen
      /\ s.pc = "siblings" /\ s.found # None => claims[s.at] = BookedAs(s.seen, s.found)

(* At first nobody recovers. *)
LEMMA StillThereInit == Init => StillThere
<1>1. ASSUME Init, NEW r \in Request PROVE req[r].pc = "start"
  BY <1>1 DEF Init, RequestInit, Blank
<1>. QED  BY <1>1 DEF StillThere, Recovering

(* No step of anybody changes the record under a recovery. *)
LEMMA StillThereKept ==
  ASSUME CoreInv, CoreInv', StillThere, [Next]_vars
  PROVE  StillThere'
<1>. SUFFICES ASSUME Dedupe, ~HostEdits, NEW p \in Request
              PROVE  LET t == req'[p] IN
                     /\ t.pc \in Recovering /\ t.seen.state = "booked" => claims'[t.at] = t.seen
                     /\ t.pc = "siblings" /\ t.found # None
                          => claims'[t.at] = BookedAs(t.seen, t.found)
  BY DEF StillThere
<1>1. CASE UNCHANGED <<claims, req>>
  BY <1>1 DEF StillThere
<1>2. ASSUME NEW r \in Request, Arrive(r) \/ Step(r) \/ Crash(r)
      PROVE  LET t == req'[p] IN
             /\ t.pc \in Recovering /\ t.seen.state = "booked" => claims'[t.at] = t.seen
             /\ t.pc = "siblings" /\ t.found # None => claims'[t.at] = BookedAs(t.seen, t.found)
  <2>. DEFINE s == req[p]
              t == req'[p]
  <2>1. Descends(r, req[r], req'[r]) /\ \A q \in Request : q # r => req'[q] = req[q]
    BY <1>2, StepMoves DEF CoreInv
  <2>2. Fine(p, s) /\ Fine(p, t)
    BY FineNext, LocalFine DEF CoreInv
  <2>3. /\ s.at \in Cell /\ t.at \in Cell
        /\ s.pc \in Recovering => s.seen # None /\ s.seen \in GoodRecord
        /\ t.pc \in Recovering => t.seen # None /\ t.seen \in GoodRecord
    BY <2>2 DEF Fine, Local, Coherent, Recovering, UsesSeen
  <2>4. \A c \in Cell : claims[c] # None /\ claims[c].state = "booked" => claims'[c] = claims[c]
    BY <1>2, BookedClaimsStay
  <2>5. t = s \/ Descends(p, s, t)
    BY <2>1
  <2>. HIDE DEF s, t
  <2>6. ASSUME t.pc \in Recovering, t.seen.state = "booked" PROVE claims'[t.at] = t.seen
    <3>1. t.seen = claims[t.at] \/ (s.pc \in Recovering /\ t.seen = s.seen /\ t.at = s.at)
      BY <2>5, <2>6 DEF Descends
    <3>2. t.seen = claims[t.at]
      BY <2>6, <3>1 DEF StillThere, s
    <3>. QED  BY <2>3, <2>4, <2>6, <3>2
  <2>7. ASSUME t.pc = "siblings", t.found # None
        PROVE  claims'[t.at] = BookedAs(t.seen, t.found)
    <3>1. \/ claims'[t.at] = BookedAs(t.seen, t.found)
          \/ s.pc = "siblings" /\ t.seen = s.seen /\ t.found = s.found /\ t.at = s.at
      BY <2>5, <2>7 DEF Descends
    <3>2. CASE s.pc = "siblings" /\ t.seen = s.seen /\ t.found = s.found /\ t.at = s.at
      <4>1. claims[t.at] = BookedAs(t.seen, t.found)
        BY <2>7, <3>2 DEF StillThere, s
      <4>2. /\ BookedAs(t.seen, t.found).state = "booked"
            /\ BookedAs(t.seen, t.found) \in Record
        BY <2>2, <2>3, <2>7, NoneAssumption
           DEF BookedAs, GoodRecord, Record, Recovering, Fine, Local
      <4>. QED  BY <2>3, <2>4, <4>1, <4>2, NoneAssumption
    <3>. QED  BY <3>1, <3>2
  <2>. QED  BY <2>6, <2>7 DEF t
<1>. QED  BY <1>1, <1>2, WhoseStep

(* The record a recovery judged stays in its cell, always. *)
LEMMA StillThereHolds == Spec => []StillThere
<1>1. CoreInv /\ CoreInv' /\ StillThere /\ [Next]_vars => StillThere'
  BY StillThereKept
<1>. QED  BY <1>1, StillThereInit, CoreHolds, PTL DEF Spec

(* A claim in the way belongs to somebody else's booking. *)
LEMMA BeatenByOthers ==
  ASSUME CoreInv, KeptInv, StillThere, Sound, NEW r \in Request, Beaten(r, req[r]),
         NEW e \in Carrying(FpOf[r]), InSlot(e)
  PROVE  FALSE
<1>. DEFINE s == req[r]
            q == Creator(e)
<1>1. /\ e \in Event /\ q \in Request /\ e \in By(q) /\ FpOf[q] = FpOf[r]
  BY DEF Carrying, Event, Creator, By
<1>2. First(r) \in CellsOf(q) /\ First(r) \in Cell
  BY <1>1, CellFacts DEF First
<1>3. Holds(q, First(r))
  BY <1>1, <1>2 DEF KeptInv, Stands
<1>4. Ours(r, claims[First(r)])
  BY <1>1, <1>3 DEF Ours, Holds
<1>5. Claiming(s) /\ \/ ~Ours(r, claims[s.at])
                     \/ /\ s.pc \in Recovering /\ ~Ours(r, s.seen)
                        /\ s.seen.state = "booked" \/ (s.pc = "siblings" /\ s.found # None)
  BY <1>4 DEF Beaten
<1>6. Nothing(events, r)
  BY <1>5 DEF CoreInv, SafetyInv, Knows, CreateTrue, Claiming, Recovering
<1>7. q # r
  BY <1>1, <1>6 DEF Nothing, InSlot
<1>8. Dedupe /\ ~HostEdits
  BY <1>1, <1>7 DEF Sound, Solo
<1>9. ~SpoiltFp(events, FpOf[r])
  BY <1>8 DEF CoreInv, NoSpoil, SpoiltFp, Carrying
<1>10. \A c \in Below(r, s.at) : Holds(r, c)
  <2>1. Below(r, s.at) \subseteq Needed(events, r, s)
    BY <1>5 DEF Needed, Below
  <2>. QED  BY <1>9, <2>1 DEF CoreInv, SafetyInv, Covered
<1>11. Fine(r, s) /\ s.at \in CellsOf(r)
  BY LocalFine DEF CoreInv, Fine, Coherent
<1>12. s.at = First(r)
  <2>1. First(r) \notin Below(r, s.at)
    BY <1>3, <1>7, <1>10 DEF Holds
  <2>2. First(r) \in Nat /\ s.at \in Nat /\ s.at >= First(r)
    BY <1>2, <1>11, CellFacts, StoreAssumption DEF CellsOf, First
  <2>. QED  BY <2>1, <2>2, CellFacts DEF Below
<1>13. /\ s.pc \in Recovering /\ ~Ours(r, s.seen)
       /\ s.seen.state = "booked" \/ (s.pc = "siblings" /\ s.found # None)
  BY <1>4, <1>5, <1>12
<1>14. s.seen # None /\ s.seen \in GoodRecord /\ s.seen.owner \in Request
  BY <1>11, <1>13, GoodRecordFacts DEF Fine, Coherent, Recovering, UsesSeen
<1>15. claims[s.at].owner = s.seen.owner
  <2>1. CASE s.seen.state = "booked"
    BY <1>8, <1>13, <2>1 DEF StillThere
  <2>2. CASE s.pc = "siblings" /\ s.found # None
    BY <1>8, <1>14, <2>2 DEF StillThere, BookedAs, GoodRecord, Record
  <2>. QED  BY <1>13, <2>1, <2>2
<1>. QED  BY <1>4, <1>12, <1>13, <1>14, <1>15 DEF Ours

(* A request that is about to answer slot_taken was beaten by another      *)
(* booking: at that moment no event of its own booking stands in the slot, *)
(* whether an earlier attempt's or a parallel one's.                       *)
THEOREM NeverLostToItself == Sound => (Spec => NeverTakenByItself)
<1>. SUFFICES ASSUME Sound PROVE Spec => NeverTakenByItself
  OBVIOUS
<1>. DEFINE TakenByOthers(r) == (req'[r].next = "taken" /\ req[r].next # "taken") =>
                           ~ \E e \in Carrying(FpOf[r]) : InSlot(e)
<1>1. CoreInv /\ KeptInv /\ StillThere /\ [Next]_vars => \A r \in Request : TakenByOthers(r)
  <2>. SUFFICES ASSUME CoreInv, KeptInv, StillThere, [Next]_vars, NEW r \in Request,
                       req'[r].next = "taken", req[r].next # "taken",
                       NEW e \in Carrying(FpOf[r]), InSlot(e)
                PROVE  FALSE
    OBVIOUS
  <2>1. PICK p \in Request : Arrive(p) \/ Step(p) \/ Crash(p)
    BY WhoseStep
  <2>2. Descends(p, req[p], req'[p]) /\ \A q \in Request : q # p => req'[q] = req[q]
    BY <2>1, StepMoves DEF CoreInv
  <2>3. Beaten(r, req[r])
    BY <2>2 DEF Descends
  <2>. QED  BY <2>3, BeatenByOthers
<1>2. CoreInv /\ KeptInv /\ StillThere /\ [Next]_vars => [\A r \in Request : TakenByOthers(r)]_vars
  BY <1>1
<1>3. Spec => [][\A r \in Request : TakenByOthers(r)]_vars
  <2>. HIDE DEF TakenByOthers
  <2>. QED  BY <1>2, KeptHolds, StillThereHolds, PTL DEF Spec
<1>. QED  BY <1>3 DEF NeverTakenByItself

==============================================================================
