----------------------------- MODULE ClaimStore -----------------------------
(***************************************************************************)
(* The claim store of the calendar tool (core/claims.py): one record per   *)
(* 5-minute cell, changed only by operations that are atomic on one cell.  *)
(*                                                                         *)
(* A record is written to a cell at most twice with the same content owner *)
(* and try: once pending, by the create-if-absent of the attempt itself,   *)
(* and once booked, by a compare-and-swap on that pending record.  An etag *)
(* therefore names the same thing as the record read with it, and a        *)
(* compare-and-swap is modelled as a comparison with the record read.      *)
(***************************************************************************)
EXTENDS Integers

CONSTANTS
  Request,    \* one value per book_appointment request
  Cell,       \* 5-minute cells of one physical calendar (calendar_key), numbered
  MaxRounds,  \* MAX_ROUNDS: how often a request may go back to step 2
  None        \* an empty cell, no record, no event

ASSUME StoreAssumption ==
  /\ Cell \subseteq Nat
  /\ MaxRounds \in Nat \ {0}

(* Event ids: a request sends at most two creates (the create and its one  *)
(* retry), whatever the number of rounds it went through before.           *)
Event == Request \X {1, 2}

(* A claim record. <<owner, try>> stands for attempt_id, a fresh nonce for *)
(* each time a request reaches step 6; the fingerprint, the range, the     *)
(* contact and the binding of the record are those of its owner.           *)
Record == [owner : Request,
           try   : 1..MaxRounds,
           state : {"pending", "booked"},
           event : Event \cup {None}]

ASSUME NoneAssumption == None \notin Record /\ None \notin Event

VARIABLES
  claims,     \* what each cell holds: a record or None
  stale       \* the cells whose last write is CLAIM_TTL old by the store's clock

claimVars == <<claims, stale>>

ClaimTypeOK ==
  /\ claims \in [Cell -> Record \cup {None}]
  /\ stale \subseteq Cell

ClaimInit ==
  /\ claims = [c \in Cell |-> None]
  /\ stale = {}

Pending(r, n) == [owner |-> r, try |-> n, state |-> "pending", event |-> None]

(* ClaimRecord.booked: the same record, finalized with an event. *)
BookedAs(rec, e) == [rec EXCEPT !.state = "booked", !.event = e]

LivePending(c) == claims[c] # None /\ claims[c].state = "pending" /\ c \notin stale
StalePending(c) == claims[c] # None /\ claims[c].state = "pending" /\ c \in stale

(* Every write gives the cell a fresh Last-Modified. *)
Write(c, value) ==
  /\ claims' = [claims EXCEPT ![c] = value]
  /\ stale' = stale \ {c}

(* Mutated form: a create that overwrites a stale claim. *)
TryClaimOverStale(c, rec) == (claims[c] = None \/ StalePending(c)) /\ Write(c, rec)

(* try_claim: create-if-absent. *)
TryClaim(c, rec) == claims[c] = None /\ Write(c, rec)

(* replace: compare-and-swap; an empty cell or another record loses. *)
Replace(c, old, new) == claims[c] = old /\ Write(c, new)

(* release: conditional delete; an already empty cell is a success. *)
Release(c, old) == claims[c] \in {old, None} /\ Write(c, None)
=============================================================================
