--------------------------- MODULE BookingRequest ---------------------------
(***************************************************************************)
(* The local state of one book_appointment request (core/booking.py,       *)
(* _Request and the locals of the step methods), and the ways control      *)
(* moves on once an await has answered.  Everything here is a function of  *)
(* that local state; the actions of Recovery and Booking apply it.         *)
(***************************************************************************)
EXTENDS Calendar

CONSTANT MaxCas   \* MAX_CAS_ROUNDS of core/recovery.py

ASSUME CasAssumption == MaxCas \in Nat \ {0}

Answers == {"booked", "unconfirmed", "unavailable", "taken", "cancelled",
            "limit", "refused", "crashed"}

(* Where a request waits: each location is one await of the code. *)
Waits == {"start", "read", "replay", "poll", "pollLookup", "find", "busy",
          "busyRead", "claim", "create", "lookup", "dedupe", "finalize", "release",
          "recover", "recWrite", "recRead", "siblings", "done"}

(* What follows a release_all: an answer, another round, or polling. *)
Continuations == Answers \cup {"again", "poll", "none"}

Local == [pc       : Waits,
          next     : Continuations,
          round    : 1..MaxRounds,              \* of _run
          pass     : 1..MaxRounds,              \* of the loop of step 2
          recOnce  : BOOLEAN,                   \* recovered_once of step 2
          seenOwn  : BOOLEAN,                   \* _Request.seen_own
          caller   : {"step2", "step6"},        \* who polls or recovers
          at       : Cell,                      \* the cell read, polled, claimed
          retried  : BOOLEAN,                   \* of step 6
          seen     : Record \cup {None},        \* the record last read
          cas      : 1..(MaxCas + 1),           \* round of recover_cell
          found    : Event \cup {None},         \* the event looked up or created
          extras   : SUBSET Event,              \* duplicates to delete
          todo     : SUBSET Cell,               \* cells of a gather not done yet
          second   : BOOLEAN,                   \* the create has been retried
          cache    : [Event -> EventStatus]]    \* verify_cache

VARIABLE req  \* the local state of every request

NoCache == [e \in Event |-> "none"]

(* Where a request begins, or (with its answer) ends: no local survives. *)
Blank(r, loc, answer) ==
  [pc |-> loc, next |-> answer, round |-> 1, pass |-> 1, recOnce |-> FALSE,
   seenOwn |-> FALSE, caller |-> "step2", at |-> First(r), retried |-> FALSE,
   seen |-> None, cas |-> 1, found |-> None, extras |-> {}, todo |-> {},
   second |-> FALSE, cache |-> NoCache]

Done(r, answer) == Blank(r, "done", answer)
Ended(r) == req[r].pc = "done"

RequestInit == req = [r \in Request |-> Blank(r, "start", "none")]
RequestTypeOK == req \in [Request -> Local]

Goto(r, s) == req' = [req EXCEPT ![r] = s]

Ours(r, rec)    == rec # None /\ FpOf[rec.owner] = FpOf[r]
MyRecord(r)     == Pending(r, req[r].round)
Acquired(r)     == {c \in CellsOf(r) : c < req[r].at}
CellsOfSeen(s)  == CellsOf(s.seen.owner)

(* Mutated form: the rounds are counted but not limited. *)
AgainUnbounded(r, s) ==
  [Blank(r, "read", "none") EXCEPT
     !.round = s.round + 1, !.seenOwn = TRUE, !.cache = s.cache]

(* _AGAIN: back to step 2 for another round, at most MAX_ROUNDS in all. *)
Again(r, s) ==
  IF s.round = MaxRounds
  THEN Done(r, "unconfirmed")
  ELSE [Blank(r, "read", "none") EXCEPT
          !.round = s.round + 1, !.seenOwn = TRUE, !.cache = s.cache]

(* "continue" in the loop of step 2: its first cell is read once more. *)
Reread(r, s) ==
  IF s.pass = MaxRounds
  THEN Done(r, "unconfirmed")
  ELSE [Blank(r, "read", "none") EXCEPT
          !.round = s.round, !.pass = s.pass + 1, !.recOnce = s.recOnce,
          !.seenOwn = s.seenOwn, !.cache = s.cache]

(* Step 3 follows step 2 with the same round. *)
Onward(r, s, loc) ==
  [Blank(r, loc, "none") EXCEPT
     !.round = s.round, !.seenOwn = s.seenOwn, !.cache = s.cache]

Follow(r, s, k) ==
  CASE k = "again" -> Again(r, s)
    [] k = "poll"  -> [s EXCEPT !.pc = "poll", !.next = "none", !.todo = {},
                                !.retried = FALSE]
    [] OTHER       -> Done(r, k)

(* release_all(cells), then what follows it. *)
ReleaseThen(r, s, cells, k) ==
  IF cells = {}
  THEN Follow(r, s, k)
  ELSE [Onward(r, s, "release") EXCEPT
          !.next = k, !.todo = cells, !.at = s.at, !.caller = s.caller,
          !.seen = IF k \in {"poll", "cancelled"} THEN s.seen ELSE None]
=============================================================================
