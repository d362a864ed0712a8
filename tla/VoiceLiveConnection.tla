------------------------- MODULE VoiceLiveConnection -------------------------
(***************************************************************************)
(* The Voice Live connection of one ACS call: ACSMediaHandler.connect_     *)
(* voicelive and cleanup (providers/acs/media_handler.py) over the shared  *)
(* handler (handler/voicelive_media_handler.py), close_voicelive           *)
(* (handler/voicelive_close.py) and the one way a call ends, request_end   *)
(* (providers/acs/call_session.py).                                        *)
(*                                                                         *)
(* Everything runs on one event loop: an action is what happens between    *)
(* two awaits.                                                             *)
(***************************************************************************)
EXTENDS Naturals, FiniteSets

CONSTANT OrphanHangs  \* closing an orphaned connection may outlast its timeout
ASSUME OrphanAssumption == OrphanHangs \in BOOLEAN

VARIABLES
  reason,     \* terminated_reason
  terminate,  \* the _terminate task
  connect,    \* the connect_voicelive task of run_call_loop
  voice,      \* the handler: _conn_ctx, conn and the receiver task
  socket,     \* the connection Voice Live bills
  closer      \* the session's close task and the handler's late close

connVars == <<connect, voice, socket, closer>>

Reasons == {"none", "answer_failed", "caller_hangup", "stale", "route_miss",
            "media_timeout", "media_lost", "at_capacity", "expired",
            "connect_failed", "dropped"}
Ended == reason # "none"

Closers == {"close", "late"}
Closer == [task   : {"none", "start", "wait", "run", "closed", "forced"},
           clean  : {"none", "start", "stop", "exit", "orphan", "done"},
           orphan : BOOLEAN]
Voice == [ctx : BOOLEAN, conn : BOOLEAN, receiver : {"none", "running", "done"}]

ConnInit ==
  /\ reason = "none" /\ terminate = "none"
  /\ connect = "none" /\ socket = "none"
  /\ voice = [ctx |-> FALSE, conn |-> FALSE, receiver |-> "none"]
  /\ closer = [c \in Closers |-> [task |-> "none", clean |-> "none", orphan |-> FALSE]]

(* request_end: the first reason wins and starts the one _terminate task.  *)
RequestEnd(why) ==
  IF Ended THEN UNCHANGED <<reason, terminate>>
           ELSE reason' = why /\ terminate' = "start"

Handler == connect # "none"
Finished(c) == closer[c].task \in {"closed", "forced"}
Running == [task |-> "run", clean |-> "start", orphan |-> FALSE]

(* ensure_voicelive_closed: one close task per session. *)
EnsureClosed(cl) ==
  IF Handler /\ cl["close"].task = "none" THEN [cl EXCEPT !["close"] = Running] ELSE cl

(* Mutated form: no second close for a connection that arrives late. *)
NoLateClose(cl) == cl

(* _start_late_close: one late close per handler. *)
StartLateClose(cl) ==
  IF cl["late"].task = "none" THEN [cl EXCEPT !["late"].task = "start"] ELSE cl

-----------------------------------------------------------------------------
(* connect_voicelive. *)

(* A call that has ended opens no connection. *)
ConnectStart ==
  /\ connect = "created"
  /\ IF Ended THEN connect' = "done" /\ UNCHANGED voice
              ELSE connect' = "handshake" /\ voice' = [voice EXCEPT !.ctx = TRUE]
  /\ UNCHANGED <<reason, terminate, socket, closer>>

HandshakeDone ==
  /\ connect = "handshake"
  /\ connect' = "setup" /\ socket' = "open"
  /\ voice' = [voice EXCEPT !.conn = TRUE]
  /\ UNCHANGED <<reason, terminate, closer>>

(* The handshake or the set-up fails or takes too long.  If that is what   *)
(* ends the call, its _terminate closes; otherwise this task does.         *)
ConnectFails ==
  /\ connect \in {"handshake", "setup"}
  /\ connect' = "failed"
  /\ RequestEnd("connect_failed")
  /\ closer' = IF Ended THEN StartLateClose(closer) ELSE closer
  /\ UNCHANGED <<voice, socket>>

(* The last message may have been sent although a cleanup came meanwhile. *)
SetupDone ==
  /\ connect = "setup"
  /\ voice' = [voice EXCEPT !.receiver = "running"]
  /\ connect' = IF Ended THEN "late" ELSE "done"
  /\ closer' = IF Ended THEN StartLateClose(closer) ELSE closer
  /\ UNCHANGED <<reason, terminate, socket>>

LateAwaited ==
  /\ connect = "late" /\ Finished("late")
  /\ connect' = "done"
  /\ UNCHANGED <<reason, terminate, voice, socket, closer>>

(* The call loop cancels and awaits the task. *)
ConnectCancelled ==
  /\ connect' = IF connect \in {"created", "handshake", "setup", "late"}
                THEN "cancelled" ELSE connect
  /\ closer' = IF connect \in {"handshake", "setup"} /\ Ended
               THEN StartLateClose(closer) ELSE closer
  /\ UNCHANGED <<reason, terminate, voice, socket>>

(* The receiver loop ends by itself: the connection dropped or a hook failed. *)
VoiceLiveDrops ==
  /\ voice.receiver = "running"
  /\ voice' = [voice EXCEPT !.receiver = "done"]
  /\ socket' \in {socket, "closed"}
  /\ RequestEnd("dropped")
  /\ UNCHANGED <<connect, closer>>

-----------------------------------------------------------------------------
(* close_voicelive and cleanup, for the close task and the late close. *)

Clean(c, loc) == [closer EXCEPT ![c].clean = loc,
                                ![c].task = IF loc = "done" /\ @ = "run" THEN "closed" ELSE @]

(* After the handler's own cleanup: an orphan is closed directly. *)
CloseOrphan(c, orphan, stillThere) ==
  IF orphan /\ stillThere
  THEN voice' = [voice EXCEPT !.conn = FALSE] /\ closer' = Clean(c, "orphan")
  ELSE closer' = Clean(c, "done") /\ UNCHANGED voice

(* The context manager closes only a connection it has returned. *)
ExitContext(c, orphan) ==
  \/ /\ voice.ctx /\ socket # "none"
     /\ closer' = Clean(c, "exit") /\ UNCHANGED voice
  \/ /\ voice.ctx /\ socket = "none"
     /\ voice' = [voice EXCEPT !.ctx = FALSE, !.conn = FALSE]
     /\ closer' = Clean(c, "done")
  \/ ~voice.ctx /\ CloseOrphan(c, orphan, voice.conn)

(* Cleanup up to its first await: the receiver, then the context. *)
CleanupStart(c) ==
  LET orphan == voice.conn /\ ~voice.ctx IN
  /\ closer[c].clean = "start"
  /\ IF voice.receiver = "running"
     THEN /\ voice' = [voice EXCEPT !.receiver = "done"]
          /\ closer' = [closer EXCEPT ![c].clean = "stop", ![c].orphan = orphan]
     ELSE ExitContext(c, orphan)
  /\ UNCHANGED <<reason, terminate, connect, socket>>

ReceiverStopped(c) ==
  /\ closer[c].clean = "stop"
  /\ ExitContext(c, closer[c].orphan)
  /\ UNCHANGED <<reason, terminate, connect, socket>>

ContextExited(c) ==
  /\ closer[c].clean = "exit"
  /\ socket' = "closed"
  /\ voice' = [voice EXCEPT !.ctx = FALSE, !.conn = FALSE]
  /\ closer' = Clean(c, "done")
  /\ UNCHANGED <<reason, terminate, connect>>

OrphanClosed(c) ==
  /\ closer[c].clean = "orphan"
  /\ socket' = "closed" /\ closer' = Clean(c, "done")
  /\ UNCHANGED <<reason, terminate, connect, voice>>

(* The close takes too long: force_close aborts the handler's connection   *)
(* while the cleanup goes on in the background.                            *)
CloseTimesOut(c) ==
  /\ closer[c].task = "run"
  /\ closer[c].clean = "exit" \/ (closer[c].clean = "orphan" /\ OrphanHangs)
  /\ closer' = [closer EXCEPT ![c].task = "forced"]
  /\ socket' = IF voice.conn THEN "closed" ELSE socket
  /\ UNCHANGED <<reason, terminate, connect, voice>>

(* _close_late_connection waits for the session's close, then closes again. *)
LateStarts ==
  /\ closer["late"].task = "start"
  /\ closer' = EnsureClosed([closer EXCEPT !["late"].task = "wait"])
  /\ UNCHANGED <<reason, terminate, connect, voice, socket>>

LateCloses ==
  /\ closer["late"].task = "wait" /\ Finished("close")
  /\ closer' = [closer EXCEPT !["late"] = Running]
  /\ UNCHANGED <<reason, terminate, connect, voice, socket>>

Closing(c) == CleanupStart(c) \/ ReceiverStopped(c) \/ ContextExited(c)
              \/ OrphanClosed(c) \/ CloseTimesOut(c)

Connecting == ConnectStart \/ HandshakeDone \/ ConnectFails \/ SetupDone \/ LateAwaited
              \/ LateStarts \/ LateCloses

-----------------------------------------------------------------------------
ConnTypeOK ==
  /\ reason \in Reasons
  /\ terminate \in {"none", "start", "answered", "connected", "play", "done"}
  /\ connect \in {"none", "created", "handshake", "setup", "late", "done", "failed", "cancelled"}
  /\ voice \in Voice
  /\ socket \in {"none", "open", "closed"}
  /\ closer \in [Closers -> Closer]
=============================================================================
