---------------------------- MODULE Availability ----------------------------
(***************************************************************************)
(* check_availability (core/availability.py): callers ask for slots while  *)
(* time passes, the keys rotate, the host edits the calendar and bookings  *)
(* are placed. Its two awaits, the key load and the busy read, are actions *)
(* of their own. The bookings are those of ExclusiveSlots, whose bookers   *)
(* are here the callers' possible bookings.                                *)
(***************************************************************************)
EXTENDS Bindings, Tokens, ExclusiveSlots

CONSTANTS
  Caller,
  BindingOf,     \* the binding each caller's agent is bound to
  Document,      \* the bindings as deployed
  BodyOf,        \* the request bodies a caller may send, parsed
  Zone,          \* the zones the bindings may be in
  Times,         \* the instants at which anything happens
  HostEdits,     \* sets of events: what the host may add by hand, once
  Faulty,        \* callers whose calls may fail and whose tokens may come altered
  MaxChanges     \* bound on how often the clock moves, a key is rotated or the host edits

Absent == -1

(* The bindings the tool started with. *)
Config == load_bindings(Document)

BufferOf(b) == Config[BindingOf[b.caller]].buffer

ASSUME AvailabilityAssumption ==
  /\ \A id \in DOMAIN Document : Typed(Document[id])
  /\ \A c \in Caller : \A body \in BodyOf[c] : {body.from, body.to} \subseteq Int
  /\ \A z \in Zone : {z.at, z.by} \subseteq Int
  /\ \A edit \in HostEdits :
       IsFiniteSet(edit) /\ \A e \in edit : {e.start, e.end} \subseteq Int /\ e.start < e.end
  /\ \A c \in Caller : BindingOf[c] \in DOMAIN Config
  /\ \A b \in Booker : b.caller \in Caller /\ {b.start, b.end} \subseteq Int /\ b.start < b.end
  /\ \A b \in Booker : RangeOf[b] = cell_range(b.start, b.end, BufferOf(b))
  /\ Times \subseteq Int /\ \E first \in Times : \A t \in Times : first <= t
  /\ MaxChanges \in Nat

VARIABLES
  zone,     \* the time zone of the bindings
  now,      \* the clock
  keys,     \* the slot keys in the vault
  host,     \* the host's own events
  ask       \* each caller's check_availability request

Statuses == {"none", "invalid_request", "no_availability", "calendar_unavailable", "available"}

(* A request's locals; seen, the calendar at the busy read, is history.    *)
NoAsk == [pc |-> "idle", body |-> <<>>, at |-> 0, keys |-> <<>>, seen |-> {},
          status |-> "none", result |-> <<>>, tokens |-> <<>>]

Ended(status) == [NoAsk EXCEPT !.pc = "answered", !.status = status]

AvailabilityInit ==
  /\ zone \in Zone
  /\ now = Min(Times)
  /\ keys = [current |-> 1, previous |-> NoKey]
  /\ host = {}
  /\ ask = [c \in Caller |-> NoAsk]

Changes ==
  Cardinality({t \in Times : t < now}) + (keys.current - 1) + (IF host = {} THEN 0 ELSE 1)

Tick ==
  /\ \E t \in Times : t > now /\ now' = t
  /\ UNCHANGED <<zone, keys, host, ask>>

(* The operator's rotation: the current key becomes the previous one. *)
Rotate ==
  /\ keys' = [current |-> keys.current + 1, previous |-> keys.current]
  /\ UNCHANGED <<zone, now, host, ask>>

HostAdds ==
  /\ host = {}
  /\ host' \in HostEdits
  /\ UNCHANGED <<zone, now, keys, ask>>

-----------------------------------------------------------------------------
(* Everything on the calendar, and get_busy: what overlaps [start, end).   *)
Events == host \cup {[start |-> b.start, end |-> b.end] : b \in placed}
get_busy(start, end) == {e \in Events : e.start < end /\ e.end > start}

Default(value, default) == IF value = Absent THEN default ELSE value

(* The engine's arguments: the date range, the filters, the binding.       *)
Query(cfg, body, at) ==
  LET today == DateOf(zone, at)
      first == Max({Default(body.from, today), today})
  IN  [first     |-> first,
       last      |-> Min({Default(body.to, first + cfg.searchDays - 1), today + cfg.ahead}),
       horizon   |-> today + cfg.ahead,
       hours     |-> cfg.hours,
       duration  |-> Default(body.duration, cfg.defaultDuration),
       step      |-> cfg.step,
       buffer    |-> cfg.buffer,
       notice    |-> cfg.notice,
       earliest  |-> Default(body.earliest, 0),
       latest    |-> Default(body.latest, DayMinutes - 1),
       selection |-> cfg.selection,
       max       |-> cfg.maxSlots]

QueryOf(a, c) == Query(Config[BindingOf[c]], a.body, a.at)

(* _parse: a duration the binding does not allow; to_date before from_date. *)
Invalid(cfg, body, today) ==
  \/ body.duration \notin cfg.durations \cup {Absent}
  \/ body.to # Absent /\ body.to < Max({Default(body.from, today), today})

(* What get_busy is asked for: the bookable span widened by the buffer.    *)
Span(q, result) ==
  <<result.searched[1] - q.buffer, result.searched[2] + q.buffer>>

(* A first pass without busy time: nothing bookable answers with no call.  *)
Ask(c) ==
  /\ ask[c].pc = "idle"
  /\ \E body \in BodyOf[c] :
       LET cfg    == Config[BindingOf[c]]
           q      == Query(cfg, body, now)
           result == compute_slots(zone, q, {}, now)
       IN  ask' = [ask EXCEPT ![c] =
             IF Invalid(cfg, body, DateOf(zone, now)) THEN Ended("invalid_request")
             ELSE IF result.reason # "ok"
             THEN [Ended("no_availability") EXCEPT !.body = body, !.at = now, !.result = result]
             ELSE [NoAsk EXCEPT !.pc = "keys", !.body = body, !.at = now, !.result = result]]
  /\ UNCHANGED <<zone, now, keys, host>>

_load_keys(c) ==
  /\ ask[c].pc = "keys"
  /\ \/ ask' = [ask EXCEPT ![c].pc = "busy", ![c].keys = keys]
     \/ c \in Faulty /\ ask' = [ask EXCEPT ![c] = Ended("calendar_unavailable")]
  /\ UNCHANGED <<zone, now, keys, host>>

(* The engine once more, and one token per slot, valid from the request's  *)
(* start on.                                                               *)
Offered(a, c, busy) ==
  LET cfg    == Config[BindingOf[c]]
      result == compute_slots(zone, QueryOf(a, c), busy, a.at)
      good   == InTimeOrder({slot \in Range(result.slots) : Issuable(slot)})
      Token(slot) == issue(a.keys, BindingOf[c], slot, a.at + cfg.ttl)
  IN  IF result.reason = "ok" /\ good = <<>>
      THEN Ended("calendar_unavailable")
      ELSE [a EXCEPT !.pc = "answered", !.keys = <<>>, !.seen = Events, !.result = result,
              !.status = IF result.reason = "ok" THEN "available" ELSE "no_availability",
              !.tokens = [k \in DOMAIN good |-> Token(good[k])]]

_get_busy(c) ==
  /\ ask[c].pc = "busy"
  /\ LET span == Span(QueryOf(ask[c], c), ask[c].result)
     IN  \/ ask' = [ask EXCEPT ![c] = Offered(ask[c], c, get_busy(span[1], span[2]))]
         \/ c \in Faulty /\ ask' = [ask EXCEPT ![c] = Ended("calendar_unavailable")]
  /\ UNCHANGED <<zone, now, keys, host>>

check_availability(c) == Ask(c) \/ _load_keys(c) \/ _get_busy(c)

Environment == Changes < MaxChanges /\ (Tick \/ Rotate \/ HostAdds)
=============================================================================
