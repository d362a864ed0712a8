-------------------------- MODULE ResponseWatchdog --------------------------
(***************************************************************************)
(* The responses of one call and the recovery from those that fail or      *)
(* never end: the receiver loop, the response watchdog and the retries of  *)
(* VoiceLiveMediaHandler (handler/voicelive_media_handler.py), against a   *)
(* Voice Live that runs one response at a time, may start one by itself,   *)
(* and may leave a response, a retry or a cancel without any answer.       *)
(*                                                                         *)
(* Time is left out: the watchdog may fire at any moment while it is armed *)
(* (progress events only move its deadline), and the wait for a cancel to  *)
(* be confirmed may end at any moment.                                     *)
(***************************************************************************)
EXTENDS Integers, Sequences

CONSTANTS
  MaxResponses,  \* bound: responses Voice Live starts in the call
  MaxFailed,     \* MAX_CONSECUTIVE_FAILED_RESPONSES
  Remembered     \* maxlen of _timed_out_response_ids

ASSUME ResponsesAssumption ==
  MaxResponses \in Nat /\ MaxFailed \in Nat \ {0} /\ Remembered \in Nat \ {0}

None == 0            \* no response
PendingRetry == -1   \* _PENDING_RETRY: the response a retry should start
Responses == 1..MaxResponses

VARIABLES
  active,      \* Voice Live: the response it is running
  started,     \* Voice Live: the last response it started
  inbox,       \* events on their way to the bridge, in order
  outbox,      \* requests on their way to Voice Live, in order
  receiver,    \* _receiver_loop: reading, inside the FAILED path's retry, or over
  watch,       \* _watched_response_id; None when no watchdog is armed
  tag,         \* _retry_event_id: 0, or the number of the retry it names
  retries,     \* retries tagged so far
  failures,    \* _consecutive_failed_responses
  timedOut,    \* _timed_out_response_ids
  recoveries,  \* _recovery_tasks
  ended,       \* request_end was called
  latest,      \* history: the last response whose response.created was read
  handled,     \* history: responses whose response.done was acted on
  gaveUp,      \* history: responses the watchdog gave up on
  heard        \* history: the last response the caller heard

serverVars == <<active, started>>
watchVars == <<watch, tag>>
historyVars == <<latest, handled, gaveUp, heard>>
vars == <<serverVars, inbox, outbox, receiver, watchVars, retries, failures, timedOut,
          recoveries, ended, historyVars>>

Event(kind, id) == [kind |-> kind, id |-> id]
Post(e) == inbox' = Append(inbox, e)

Init ==
  /\ active = None /\ started = 0 /\ inbox = <<>>
  /\ outbox = <<[kind |-> "create", id |-> 0]>>  \* connect_voicelive asks for the greeting
  /\ receiver = "loop"
  /\ watch = None /\ tag = 0 /\ retries = 0
  /\ failures = 0 /\ timedOut = <<>> /\ recoveries = {} /\ ended = FALSE
  /\ latest = 0 /\ handled = {} /\ gaveUp = {} /\ heard = 0

-----------------------------------------------------------------------------
(* Voice Live.  Every event names the response it is about; an error names *)
(* the retry it rejects, or 0 for any other request.                       *)

HandlerUnchanged == UNCHANGED <<receiver, watchVars, retries, failures, timedOut,
                                recoveries, ended, historyVars>>

Start ==
  /\ active = None /\ started < MaxResponses
  /\ started' = started + 1 /\ active' = started + 1
  /\ Post(Event("created", started + 1))

(* The caller's turn starts a response without being asked. *)
StartsByItself == Start /\ UNCHANGED outbox /\ HandlerUnchanged

Speaks ==
  /\ active # None
  /\ \A i \in 1..Len(inbox) : inbox[i] # Event("audio", active)
  /\ Post(Event("audio", active))
  /\ UNCHANGED <<serverVars, outbox>> /\ HandlerUnchanged

Resolves(status) ==
  /\ active # None
  /\ Post(Event(status, active)) /\ active' = None
  /\ UNCHANGED <<started, outbox>> /\ HandlerUnchanged

(* response.create is refused while a response is running, and otherwise   *)
(* starts one, is refused, or is ignored.                                  *)
Create(retry) ==
  \/ Start
  \/ Post(Event("error", retry)) /\ UNCHANGED serverVars
  \/ active = None /\ UNCHANGED <<serverVars, inbox>>

(* response.cancel is confirmed, done silently, or ignored. *)
Cancel(id) ==
  /\ UNCHANGED started
  /\ \/ active = id /\ active' = None /\ Post(Event("cancelled", id))
     \/ active = id /\ active' = None /\ UNCHANGED inbox
     \/ UNCHANGED <<active, inbox>>

Serve ==
  /\ outbox # <<>>
  /\ outbox' = Tail(outbox)
  /\ \/ Head(outbox).kind = "create" /\ Create(Head(outbox).id)
     \/ Head(outbox).kind = "cancel" /\ Cancel(Head(outbox).id)
  /\ HandlerUnchanged

-----------------------------------------------------------------------------
(* The watchdog. *)

Running == receiver # "stopped"
Send(kind, id) == outbox' = Append(outbox, [kind |-> kind, id |-> id])

(* _arm_response_watchdog replaces whatever was watched. *)
Arm(id) == watch' = id /\ tag' = 0
CancelWatch == watch' = None /\ tag' = 0

(* Only an exact match disarms. *)
Disarm(id) == IF watch = id THEN CancelWatch ELSE UNCHANGED watchVars

(* Mutated form: nothing is forgotten. *)
RememberAll(id) == timedOut' = Append(timedOut, id)

(* deque(maxlen=Remembered).append *)
Remember(id) ==
  LET all == Append(timedOut, id) IN
  timedOut' = IF Len(all) > Remembered THEN Tail(all) ELSE all

(* Recoveries: cause is the response given up on or PendingRetry, pc is    *)
(* start (its task has not run), ack (cancel sent), marker (adding the     *)
(* marker item) or failing (the retry cannot be sent); moved is a history  *)
(* of the failure count changing under it.                                 *)
Recovery(cause, pc, attempt) ==
  [cause |-> cause, pc |-> pc, attempt |-> attempt, moved |-> FALSE]

Moved(tasks) ==
  {IF r.pc \in {"ack", "marker"} THEN [r EXCEPT !.moved = TRUE] ELSE r : r \in tasks}

Count(n, tasks) ==
  /\ failures' = n
  /\ recoveries' = IF n = failures THEN tasks ELSE Moved(tasks)

(* _retry_superseded *)
Superseded(r) == watch # None \/ failures # r.attempt

(* _on_response_stuck up to its first await, in place of the task that ran *)
(* it: a repeat failure ends the call, a stuck response is cancelled.      *)
StuckEnds(tasks) ==
  /\ failures + 1 >= MaxFailed
  /\ Count(failures + 1, tasks) /\ ended' = TRUE /\ UNCHANGED outbox

StuckRetries(cause, tasks) ==
  LET r == Recovery(cause, IF cause = PendingRetry THEN "marker" ELSE "ack", failures + 1)
  IN
  /\ failures + 1 < MaxFailed
  /\ failures' = failures + 1
  /\ recoveries' = Moved(tasks) \cup {r}
  /\ \/ cause # PendingRetry /\ Send("cancel", cause)
     \/ UNCHANGED outbox  \* no response to cancel, or the cancel fails
  /\ UNCHANGED ended

(* _response_watchdog claims what it watches and starts the recovery. *)
WatchdogFires ==
  /\ Running /\ watch # None
  /\ CancelWatch
  /\ IF watch = PendingRetry THEN UNCHANGED <<timedOut, gaveUp>>
     ELSE Remember(watch) /\ gaveUp' = gaveUp \cup {watch}
  /\ StuckEnds(recoveries) \/ StuckRetries(watch, recoveries)
  /\ UNCHANGED <<serverVars, inbox, receiver, retries, latest, handled, heard>>

(* The task _on_retry_rejected spawned: it counts, and retries unless a    *)
(* response has started meanwhile.                                         *)
RejectedStarts(r) ==
  LET others == recoveries \ {r} IN
  /\ r.pc = "start"
  /\ \/ StuckEnds(others)
     \/ watch = None /\ StuckRetries(PendingRetry, others)
     \/ /\ watch # None /\ failures + 1 < MaxFailed
        /\ Count(failures + 1, others) /\ UNCHANGED <<outbox, ended>>
  /\ UNCHANGED <<watchVars, retries>>

(* _cancel_stuck_response is over, confirmed or not. *)
AckEnds(r) ==
  /\ r.pc = "ack"
  /\ recoveries' = (recoveries \ {r}) \cup
                   (IF Superseded(r) THEN {} ELSE {[r EXCEPT !.pc = "marker"]})
  /\ UNCHANGED <<outbox, watchVars, retries, failures, ended>>

(* Mutated form: the retry is sent without being watched. *)
RetryUnwatched(r) ==
  /\ r.pc = "marker" /\ ~Superseded(r)
  /\ Send("create", 0) /\ recoveries' = recoveries \ {r}
  /\ UNCHANGED <<watchVars, retries, failures, ended>>

(* The marker item is added: the retry is watched, tagged and sent, or its *)
(* send fails.                                                             *)
RetrySent(r) ==
  /\ r.pc = "marker" /\ ~Superseded(r)
  /\ watch' = PendingRetry /\ tag' = retries + 1 /\ retries' = retries + 1
  /\ \/ Send("create", retries + 1) /\ recoveries' = recoveries \ {r}
     \/ UNCHANGED outbox /\ recoveries' = (recoveries \ {r}) \cup {[r EXCEPT !.pc = "failing"]}
  /\ UNCHANGED <<failures, ended>>

RetrySkipped(r) ==
  /\ r.pc = "marker" /\ Superseded(r)
  /\ recoveries' = recoveries \ {r}
  /\ UNCHANGED <<outbox, watchVars, retries, failures, ended>>

(* The marker or the retry cannot be sent: the call ends. *)
RetryFails(r) ==
  /\ r.pc \in {"marker", "failing"}
  /\ recoveries' = recoveries \ {r} /\ ended' = TRUE
  /\ IF watch = PendingRetry THEN CancelWatch ELSE UNCHANGED watchVars
  /\ UNCHANGED <<outbox, retries, failures>>

Recovers ==
  /\ Running
  /\ \E r \in recoveries : RejectedStarts(r) \/ AckEnds(r) \/ RetrySent(r)
                           \/ RetrySkipped(r) \/ RetryFails(r)
  /\ UNCHANGED <<serverVars, inbox, receiver, timedOut, historyVars>>

-----------------------------------------------------------------------------
(* _receiver_loop *)

ReadCreated(e) ==
  /\ e.kind = "created"
  /\ Arm(e.id) /\ latest' = e.id
  /\ UNCHANGED <<receiver, failures, recoveries, ended, handled, heard>>

(* Mutated form: all audio is forwarded. *)
ReadAllAudio(e) ==
  /\ e.kind = "audio"
  /\ heard' = e.id
  /\ UNCHANGED <<receiver, watchVars, failures, recoveries, ended, latest, handled>>

(* A response the watchdog gave up on must not talk over its retry. *)
ReadAudio(e) ==
  /\ e.kind = "audio"
  /\ heard' = IF \E i \in 1..Len(timedOut) : timedOut[i] = e.id THEN heard ELSE e.id
  /\ UNCHANGED <<receiver, watchVars, failures, recoveries, ended, latest, handled>>

(* _on_response_status *)
Completed == Count(0, recoveries) /\ UNCHANGED <<receiver, ended>>
Failed ==
  /\ Count(failures + 1, recoveries)
  /\ IF failures + 1 < MaxFailed THEN receiver' = "retry" /\ UNCHANGED ended
                                 ELSE ended' = TRUE /\ UNCHANGED receiver

(* Mutated form: a late response.done is acted on as well. *)
ReadLateDone(e) ==
  /\ e.kind \in {"completed", "failed", "cancelled"}
  /\ Disarm(e.id) /\ handled' = handled \cup {e.id}
  /\ \/ e.kind = "completed" /\ Completed
     \/ e.kind = "failed" /\ Failed
     \/ e.kind = "cancelled" /\ UNCHANGED <<receiver, failures, recoveries, ended>>
  /\ UNCHANGED <<latest, heard>>

(* response.done: what the watchdog already claimed is ignored. *)
ReadDone(e) ==
  /\ e.kind \in {"completed", "failed", "cancelled"}
  /\ IF \E i \in 1..Len(timedOut) : timedOut[i] = e.id
     THEN UNCHANGED <<receiver, watchVars, failures, recoveries, ended, handled>>
     ELSE /\ Disarm(e.id) /\ handled' = handled \cup {e.id}
          /\ \/ e.kind = "completed" /\ Completed
             \/ e.kind = "failed" /\ Failed
             \/ e.kind = "cancelled" /\ UNCHANGED <<receiver, failures, recoveries, ended>>
  /\ UNCHANGED <<latest, heard>>

(* Mutated form: any error counts as the rejection of a pending retry. *)
ReadAnyError(e) ==
  /\ e.kind = "error"
  /\ IF watch = PendingRetry
     THEN CancelWatch /\ recoveries' = recoveries \cup {Recovery(PendingRetry, "start", 0)}
     ELSE UNCHANGED <<watchVars, recoveries>>
  /\ UNCHANGED <<receiver, failures, ended, latest, handled, heard>>

(* An error that names the pending retry claims its watch. *)
ReadError(e) ==
  /\ e.kind = "error"
  /\ IF watch = PendingRetry /\ tag # 0 /\ e.id = tag
     THEN CancelWatch /\ recoveries' = recoveries \cup {Recovery(PendingRetry, "start", 0)}
     ELSE UNCHANGED <<watchVars, recoveries>>
  /\ UNCHANGED <<receiver, failures, ended, latest, handled, heard>>

Receive ==
  /\ receiver = "loop" /\ inbox # <<>>
  /\ inbox' = Tail(inbox)
  /\ LET e == Head(inbox) IN ReadCreated(e) \/ ReadAudio(e) \/ ReadDone(e) \/ ReadError(e)
  /\ UNCHANGED <<serverVars, outbox, retries, timedOut, gaveUp>>

(* The FAILED path's own retry, awaited inside the receiver: it is neither *)
(* tagged nor watched.                                                     *)
ReceiverRetries ==
  /\ receiver = "retry" /\ receiver' = "loop"
  /\ \/ Send("create", 0) /\ UNCHANGED ended
     \/ ended' = TRUE /\ UNCHANGED outbox
  /\ UNCHANGED <<serverVars, inbox, watchVars, retries, failures, timedOut, recoveries, historyVars>>

(* The connection drops under the reading receiver, or the call is over    *)
(* and cleanup cancels it: the watchdog and every recovery go with it.     *)
Stops ==
  /\ Running
  /\ receiver' = "stopped" /\ CancelWatch /\ recoveries' = {}
  /\ inbox' = <<>> /\ outbox' = <<>>  \* the connection is closed
  /\ \/ receiver = "loop" /\ ended' = TRUE
     \/ UNCHANGED ended
  /\ UNCHANGED <<serverVars, retries, failures, timedOut, historyVars>>

-----------------------------------------------------------------------------
VoiceLive == StartsByItself \/ Speaks \/ Serve
             \/ \E status \in {"completed", "failed", "cancelled"} : Resolves(status)

Next == (Running /\ VoiceLive) \/ WatchdogFires \/ Recovers \/ Receive \/ ReceiverRetries \/ Stops

Spec == Init /\ [][Next]_vars

(* The handler's tasks run and an armed watchdog fires in the end; nothing *)
(* is assumed of Voice Live.                                               *)
FairSpec == Spec /\ WF_vars(Receive) /\ WF_vars(ReceiverRetries)
                 /\ WF_vars(WatchdogFires) /\ WF_vars(Recovers)

-----------------------------------------------------------------------------
Ids == Responses \cup {None}

TypeOK ==
  /\ active \in Ids /\ started \in 0..MaxResponses
  /\ inbox \in Seq([kind : {"created", "audio", "completed", "failed", "cancelled", "error"},
                    id : Nat])
  /\ outbox \in Seq([kind : {"create"}, id : Nat] \cup [kind : {"cancel"}, id : Responses])
  /\ receiver \in {"loop", "retry", "stopped"}
  /\ watch \in Ids \cup {PendingRetry} /\ tag \in Nat /\ retries \in Nat
  /\ failures \in Nat
  /\ timedOut \in Seq(Responses) /\ Len(timedOut) <= Remembered
  /\ recoveries \subseteq [cause : Responses \cup {PendingRetry},
                           pc : {"start", "ack", "marker", "failing"},
                           attempt : Nat, moved : BOOLEAN]
  /\ ended \in BOOLEAN
  /\ latest \in Ids /\ heard \in Ids
  /\ handled \subseteq Responses /\ gaveUp \subseteq Responses

(* The race rule: the watchdog and response.done never both act on one     *)
(* response, however late the event is and however few the bridge          *)
(* remembers.                                                              *)
ActedOnOnce == gaveUp \cap handled = {}

(* What is watched has not been resolved and is the newest response the    *)
(* bridge knows of: no watchdog is left behind to end a healthy call.      *)
WatchedIsOpen ==
  watch \in Responses => watch = latest /\ watch \notin handled \cup gaveUp

(* Only the rejection of the retry that is pending counts as a failure:    *)
(* not another request's error, nor an older retry's that comes late.      *)
RejectionIsOurs ==
  [][(\E r \in recoveries' \ recoveries : r.pc = "start")
       => watch = PendingRetry /\ Head(inbox).id = retries]_vars

(* The caller never hears a response that was given up on. *)
NoTalkingOver == [][heard' # heard => heard' \notin gaveUp]_heard

(* A response that was given up on is followed by another one, or the call *)
(* ends: there is no lasting silence, even if Voice Live never answers.    *)
NoSilence ==
  \A id \in Responses : (id \in gaveUp) ~> (started > id \/ ended \/ ~Running)

(* The docstring of _retry_or_end_call: the timeout path's retry is        *)
(* skipped if the failure count moved while it was awaiting (stated for    *)
(* the only response given up on, so that no second timeout is involved).  *)
StaleRetriesAreSkipped ==
  [][\A r \in recoveries : (r.moved /\ gaveUp = {r.cause} /\ retries' # retries)
        => r \in recoveries']_vars
=============================================================================
