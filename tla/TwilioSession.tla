---------------------------- MODULE TwilioSession ----------------------------
(***************************************************************************)
(* TwilioCallSession (providers/twilio/call_session.py): the one way a     *)
(* Twilio call ends, and the receive the call loop reads through, which    *)
(* wakes up when the call ends and keeps a message that landed in the      *)
(* instant of a timeout.                                                   *)
(***************************************************************************)
EXTENDS CallLoop

VARIABLES ended,  \* _ended is set
          recv,   \* the receive in flight: none, waiting or landed
          kept,   \* _pending_recv holds a message
          owed    \* messages taken off the socket and not handled yet

twilio == <<ended, recv, kept, owed>>

TwilioInit ==
  /\ ended = [s \in Socket |-> FALSE]
  /\ recv = [s \in Socket |-> "none"]
  /\ kept = [s \in Socket |-> FALSE]
  /\ owed = [s \in Socket |-> 0]

RequestEnd(s) == ended' = [ended EXCEPT ![s] = TRUE]

(* receive up to its wait. An ended call drops what it kept, and the loop  *)
(* exits with CallEnded.                                                   *)
Receive(s) ==
  IF ended[s]
  THEN /\ GoTo(s, "stopping")
       /\ kept' = [kept EXCEPT ![s] = FALSE]
       /\ UNCHANGED recv
  ELSE /\ GoTo(s, "receive")
       /\ recv' = [recv EXCEPT ![s] = IF kept[s] THEN "landed" ELSE "waiting"]
       /\ kept' = [kept EXCEPT ![s] = FALSE]

(* A message reaches the receive before its task runs. *)
Lands(s) ==
  /\ task[s] = "receive" /\ recv[s] = "waiting"
  /\ recv' = [recv EXCEPT ![s] = "landed"]
  /\ owed' = [owed EXCEPT ![s] = @ + 1]

(* Mutated form: a message that landed with the timeout is dropped. *)
TimesOutDropping(s) ==
  /\ task[s] = "receive"
  /\ recv' = [recv EXCEPT ![s] = "none"]
  /\ UNCHANGED kept
  /\ GoTo(s, "loop")

(* The loop's timeout cancels the receive: what has landed is kept. *)
TimesOut(s) ==
  /\ task[s] = "receive"
  /\ kept' = [kept EXCEPT ![s] = recv[s] = "landed"]
  /\ recv' = [recv EXCEPT ![s] = "none"]
  /\ GoTo(s, "loop")

(* It wakes up with the end of the call, whatever else has landed. *)
WakesEnded(s) ==
  /\ task[s] = "receive" /\ ended[s]
  /\ recv' = [recv EXCEPT ![s] = "none"]
  /\ GoTo(s, "stopping")

(* It hands its message to the loop. *)
Returns(s) ==
  /\ task[s] = "receive" /\ recv[s] = "landed" /\ ~ended[s]
  /\ recv' = [recv EXCEPT ![s] = "none"]
  /\ owed' = [owed EXCEPT ![s] = @ - 1]
=============================================================================
