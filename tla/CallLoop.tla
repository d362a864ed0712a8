------------------------------- MODULE CallLoop -------------------------------
(***************************************************************************)
(* The tasks of a media socket, for every carrier but ACS: the places of   *)
(* the CallManager (call_manager.py), run_call_loop (call_loop.py) with    *)
(* the connect task it owns, and the Voice Live connection of the handler  *)
(* (handler/voicelive_media_handler.py). An action is what happens between *)
(* two awaits; a cancellation strikes at any of them, once per socket.     *)
(***************************************************************************)
EXTENDS Naturals, FiniteSets

CONSTANTS Socket,
          CallId,        \* the id of a socket's call: its stream's, or a correlation id
          MaxConcurrent  \* MAX_CONCURRENT_CALLS

ASSUME CallLoopAssumption ==
  /\ MaxConcurrent \in Nat \ {0}
  /\ DOMAIN CallId = Socket
  /\ \A s, t \in Socket : CallId[s] = CallId[t] => s = t

VARIABLES kind,   \* the one carrier this process serves
          calls,  \* CallManager._calls
          task,   \* where the task of each socket stands
          link,   \* its connect task
          voice,  \* its Voice Live connection: open, up with its receiver, down without
          left    \* the carrier has closed the socket: its task was cancelled

(* Mutated form: one call more than there are places. *)
AcquireBeyond(s) ==
  /\ Cardinality(calls) <= MaxConcurrent
  /\ calls' = calls \cup {CallId[s]}

Acquire(s) ==
  /\ Cardinality(calls) < MaxConcurrent
  /\ calls' = calls \cup {CallId[s]}

AtCapacity == Cardinality(calls) >= MaxConcurrent

Release(s) == calls' = calls \ {CallId[s]}

InLoop(s) == task[s] \in {"loop", "receive"}
HoldsPlace(s) == InLoop(s) \/ task[s] = "stopping"

GoTo(s, pc) == task' = [task EXCEPT ![s] = pc]

(* A place for the call, and the loop with its connect task begin. *)
EnterLoop(s) ==
  /\ Acquire(s)
  /\ GoTo(s, "loop")
  /\ link' = [link EXCEPT ![s] = "created"]
-----------------------------------------------------------------------------
(* connect_voicelive of the shared handler. *)

Linking(s) == link[s] \in {"created", "handshake", "setup"}

(* The handshake is done, and conn is set. *)
HandshakeDone(s) ==
  /\ link[s] = "handshake"
  /\ link' = [link EXCEPT ![s] = "setup"]
  /\ voice' = [voice EXCEPT ![s] = "open"]

(* The session is configured, and the receiver starts. *)
SetupDone(s) ==
  /\ link[s] = "setup"
  /\ link' = [link EXCEPT ![s] = "done"]
  /\ voice' = [voice EXCEPT ![s] = "up"]

LinkFails(s) ==
  /\ link[s] \in {"handshake", "setup"}
  /\ link' = [link EXCEPT ![s] = "failed"]
-----------------------------------------------------------------------------
(* The loop's finally: the connect task is cancelled and awaited, then the *)
(* route releases the place. A cancellation of the socket's own task while *)
(* it awaits is swallowed.                                                 *)

(* Mutated form: the connect task is not awaited. *)
StoppedAtOnce(s, next) ==
  /\ task[s] = "stopping"
  /\ UNCHANGED link
  /\ Release(s)
  /\ GoTo(s, next)

Stopped(s, next) ==
  /\ task[s] = "stopping"
  /\ link' = [link EXCEPT ![s] = IF Linking(s) THEN "cancelled" ELSE @]
  /\ Release(s)
  /\ GoTo(s, next)

Closed(v) == IF v = "none" THEN "none" ELSE "closed"

(* cleanup: the receiver stopped, the connection closed. *)
CleanedUp(s, pc) ==
  /\ task[s] = pc
  /\ voice' = [voice EXCEPT ![s] = Closed(@)]
  /\ GoTo(s, "done")
=============================================================================
