------------------------------- MODULE Carriers -------------------------------
(***************************************************************************)
(* The media sockets of the carriers but ACS, and of the web client: the   *)
(* routes (providers/*/__init__.py, server.py) and media handlers          *)
(* (providers/*/media_handler.py) over the shared call loop, the Twilio    *)
(* session and the outgoing audio. One carrier is configured per process.  *)
(***************************************************************************)
EXTENDS TwilioSession, CarrierAudio

CONSTANT Kinds  \* the carriers a process may be configured for
ASSUME KindsAssumption ==
  Kinds \subseteq {"twilio", "bandwidth", "sinch", "infobip", "genesys", "web"}

VARIABLES ambient,  \* AMBIENT_PRESET names a sound
          open,     \* answered, authenticated or session_open: audio may flow
          paused,   \* Genesys: paused
          beats,    \* Sinch: the heartbeat task runs
          audio     \* the agent's audio of each call

process == <<kind, ambient>>
protocol == <<open, paused, beats>>
vars == <<process, calls, task, link, voice, left, twilio, protocol, audio>>

Init ==
  /\ kind \in Kinds /\ ambient \in BOOLEAN
  /\ calls = {}
  /\ task = [s \in Socket |-> "new"]
  /\ link = [s \in Socket |-> "none"]
  /\ voice = [s \in Socket |-> "none"]
  /\ left = [s \in Socket |-> FALSE]
  /\ TwilioInit
  /\ open = [s \in Socket |-> FALSE]
  /\ paused = [s \in Socket |-> FALSE]
  /\ beats = [s \in Socket |-> FALSE]
  /\ audio = [s \in Socket |-> Quiet]

Play(s, a) == audio' = [audio EXCEPT ![s] = a]

(* The handler of a socket is gone, and its state with it.                 *)
Forget(s) ==
  /\ link' = [link EXCEPT ![s] = IF Linking(s) THEN @ ELSE "none"]
  /\ ended' = [ended EXCEPT ![s] = FALSE]
  /\ kept' = [kept EXCEPT ![s] = FALSE]
  /\ owed' = [owed EXCEPT ![s] = 0]
  /\ open' = [open EXCEPT ![s] = FALSE]
  /\ paused' = [paused EXCEPT ![s] = FALSE]

(* Twilio's route closes Voice Live on every exit, the others' only after  *)
(* the loop.                                                               *)
Refused == IF kind = "twilio" THEN "cleanup" ELSE "done"
-----------------------------------------------------------------------------
(* The routes. *)

Starts == {"twilio", "bandwidth"}

(* A socket opens. Twilio and Bandwidth wait for its start message.        *)
Connects(s) ==
  /\ task[s] = "new"
  /\ CASE kind \in Starts -> GoTo(s, "start") /\ UNCHANGED <<calls, link>>
       [] kind = "genesys" -> EnterLoop(s) \/ (GoTo(s, "done") /\ UNCHANGED <<calls, link>>)
       [] OTHER -> EnterLoop(s) \/ (AtCapacity /\ GoTo(s, "done") /\ UNCHANGED <<calls, link>>)
  /\ UNCHANGED <<process, voice, left, twilio, protocol, audio>>

(* authenticate_and_start: a token that holds (and a route) gets a place;  *)
(* a bad message, too many frames or too long a wait closes the socket.    *)
Authenticated(s) ==
  /\ task[s] = "start"
  /\ EnterLoop(s)
  /\ UNCHANGED <<process, voice, left, twilio, protocol, audio>>

Rejected(s) ==
  /\ task[s] = "start"
  /\ GoTo(s, Refused)
  /\ UNCHANGED <<process, calls, link, voice, left, twilio, protocol, audio>>
-----------------------------------------------------------------------------
(* The connect task. *)

(* Sinch waits for the answer; an ended Twilio call opens no connection.   *)
ConnectStarts(s) ==
  /\ link[s] = "created"
  /\ kind = "sinch" => open[s]
  /\ link' = [link EXCEPT ![s] = IF ended[s] THEN "done" ELSE "handshake"]
  /\ UNCHANGED <<process, calls, task, voice, left, twilio, protocol, audio>>

Connected(s) ==
  /\ HandshakeDone(s) \/ SetupDone(s)
  /\ UNCHANGED <<process, calls, task, left, twilio, protocol, audio>>

(* Twilio ends the call with it, and bounds it by a timeout.               *)
ConnectFails(s) ==
  /\ LinkFails(s)
  /\ IF kind = "twilio" THEN RequestEnd(s) /\ Play(s, Stop(audio[s]))
                        ELSE UNCHANGED <<ended, audio>>
  /\ UNCHANGED <<process, calls, task, voice, left, recv, kept, owed, protocol>>
-----------------------------------------------------------------------------
(* run_call_loop. *)

StopAudio(s) == Play(s, Stop(audio[s]))

(* The loop is over, and with it what becomes of the audio of the call.    *)
LeavesLoop(s) == GoTo(s, "stopping") /\ Play(s, Quiet)

(* A handler of the loop's awaits no send. *)
BetweenMessages(s) == task[s] = "loop" /\ audio[s].hand = {}

(* The failed connect task is noticed between two messages only.           *)
NoticesFailure(s) ==
  /\ BetweenMessages(s) /\ link[s] = "failed"
  /\ LeavesLoop(s)
  /\ UNCHANGED <<process, calls, link, voice, left, twilio, protocol>>

(* is_expired: too long a call, or nothing from the carrier for too long.  *)
(* on_call_cap and on_idle end a Twilio call, and do nothing elsewhere.    *)
Expires(s) ==
  /\ BetweenMessages(s) /\ link[s] # "failed"
  /\ CallId[s] \in calls
  /\ LeavesLoop(s)
  /\ IF kind = "twilio" THEN RequestEnd(s) ELSE UNCHANGED ended
  /\ UNCHANGED <<process, calls, link, voice, left, recv, kept, owed, protocol>>

Receives(s) ==
  /\ BetweenMessages(s) /\ link[s] # "failed"
  /\ IF kind = "twilio" THEN Receive(s) ELSE GoTo(s, "receive") /\ UNCHANGED <<recv, kept>>
  /\ IF ended[s] THEN Play(s, Quiet) ELSE UNCHANGED audio
  /\ UNCHANGED <<process, calls, link, voice, left, ended, owed, protocol>>

MessageLands(s) ==
  /\ kind = "twilio"
  /\ Lands(s)
  /\ UNCHANGED <<process, calls, task, link, voice, left, ended, kept, protocol, audio>>

(* Mutated form: the receive has no timeout. *)
ReceiveWithoutTimeout(s) == FALSE

ReceiveTimesOut(s) ==
  /\ IF kind = "twilio" THEN TimesOut(s)
                        ELSE task[s] = "receive" /\ GoTo(s, "loop") /\ UNCHANGED <<recv, kept>>
  /\ UNCHANGED <<process, calls, link, voice, left, ended, owed, protocol, audio>>

CallEnded(s) ==
  /\ kind = "twilio"
  /\ WakesEnded(s) /\ LeavesLoop(s)
  /\ UNCHANGED <<process, calls, link, voice, left, ended, kept, owed, protocol>>
-----------------------------------------------------------------------------
(* on_message of the media handlers. *)

(* Whether a frame of the caller's audio is looked at. *)
Hears(s) ==
  CASE kind \in {"twilio", "web"} -> TRUE
    [] kind = "bandwidth" -> voice[s] = "up"
    [] kind = "sinch" -> open[s] /\ voice[s] = "up"
    [] kind = "infobip" -> open[s]
    [] kind = "genesys" -> open[s] /\ ~paused[s]

HearsFrame(s) ==
  /\ Hears(s)
  /\ \E a \in Frame(audio[s], kind, ambient, voice[s] = "up") : Play(s, a)
  /\ UNCHANGED protocol

(* The handshakes that are messages of the loop. A token that is refused   *)
(* changes nothing.                                                        *)
Opened(s) == open' = [open EXCEPT ![s] = TRUE] /\ UNCHANGED <<paused, audio>>

(* Sinch sends one connect, and the answer starts the heartbeat. *)
_handle_connect(s) ==
  /\ kind = "sinch" /\ ~open[s]
  /\ Opened(s)
  /\ beats' = [beats EXCEPT ![s] = TRUE]

(* Infobip: authenticated even when the sample rate is then refused. *)
_handle_connected(s) == kind = "infobip" /\ Opened(s) /\ UNCHANGED beats

_handle_open(s) == kind = "genesys" /\ Opened(s) /\ UNCHANGED beats

_handle_close(s) ==
  /\ kind = "genesys"
  /\ open' = [open EXCEPT ![s] = FALSE]
  /\ UNCHANGED <<paused, beats, audio>>

_handle_pause(s) ==
  /\ kind = "genesys"
  /\ paused' = [paused EXCEPT ![s] = TRUE]
  /\ UNCHANGED <<open, beats, audio>>

_handle_resume(s) ==
  /\ kind = "genesys"
  /\ paused' = [paused EXCEPT ![s] = FALSE]
  /\ UNCHANGED <<open, beats, audio>>

on_message(s) ==
  \/ HearsFrame(s)
  \/ _handle_connect(s) \/ _handle_connected(s)
  \/ _handle_open(s) \/ _handle_close(s) \/ _handle_pause(s) \/ _handle_resume(s)
  \/ UNCHANGED <<protocol, audio>>

(* The loop takes a message and handles it; an exception ends the call.    *)
Message(s) ==
  /\ IF kind = "twilio" THEN Returns(s) /\ UNCHANGED <<ended, kept>>
                        ELSE task[s] = "receive" /\ UNCHANGED twilio
  /\ \/ GoTo(s, "loop") /\ on_message(s)
     \/ LeavesLoop(s) /\ UNCHANGED protocol
  /\ UNCHANGED <<process, calls, link, voice, left>>

(* The send of a frame that was heard returns. The paced carriers' handler *)
(* swallows what fails after it; elsewhere that may end the call.          *)
SendReturns(s) ==
  /\ task[s] = "loop" /\ audio[s].hand # {}
  /\ \/ UNCHANGED task /\ \E a \in FrameSent(audio[s], kind, ambient, voice[s] = "up") : Play(s, a)
     \/ ~Paced(kind) /\ LeavesLoop(s)
  /\ UNCHANGED <<process, calls, link, voice, left, twilio, protocol>>
-----------------------------------------------------------------------------
(* Voice Live, and the receiver. What it still forwards when the loop has  *)
(* ended is left out: nobody plays it.                                     *)

Receiving(s, what) == InLoop(s) /\ voice[s] = "up" /\ audio[s].receiver = what

AgentSpeaks(s) ==
  /\ Receiving(s, "idle") /\ ~ended[s]
  /\ Play(s, Delta(audio[s], kind, ambient))
  /\ UNCHANGED <<process, calls, task, link, voice, left, twilio, protocol>>

AudioLeaves(s) ==
  /\ Receiving(s, "audio")
  /\ \E a \in DeltaSent(audio[s]) : Play(s, a)
  /\ UNCHANGED <<process, calls, task, link, voice, left, twilio, protocol>>

CallerSpeaks(s) ==
  /\ Receiving(s, "idle")
  /\ Play(s, SpeechStarts(audio[s], kind))
  /\ UNCHANGED <<process, calls, task, link, voice, left, twilio, protocol>>

ClearLeaves(s) ==
  /\ Receiving(s, "clear")
  /\ \E a \in Cleared(audio[s], kind, ambient) : Play(s, a)
  /\ UNCHANGED <<process, calls, task, link, voice, left, twilio, protocol>>

(* on_response_unrecoverable. *)
ResponsesFail(s) ==
  /\ kind = "twilio" /\ voice[s] = "up"
  /\ RequestEnd(s) /\ StopAudio(s)
  /\ UNCHANGED <<process, calls, task, link, voice, left, recv, kept, owed, protocol>>

(* The receiver ends: the connection is gone, or Twilio's clear failed. It *)
(* ends a Twilio call; the others close the carrier's socket and wait for  *)
(* the carrier.                                                            *)
VoiceLiveDrops(s) ==
  /\ voice[s] = "up"
  /\ audio[s].receiver = "idle" \/ (kind = "twilio" /\ audio[s].receiver = "clear")
  /\ voice' = [voice EXCEPT ![s] = "down"]
  /\ IF kind = "twilio"
     THEN RequestEnd(s) /\ Play(s, Dropped(audio[s]))
     ELSE UNCHANGED <<ended, audio>>
  /\ UNCHANGED <<process, calls, task, link, left, recv, kept, owed, protocol>>

(* The carrier plays what it has. *)
CarrierPlays(s) ==
  /\ \E p \in Parts(audio[s].peer) : Play(s, [audio[s] EXCEPT !.peer = p.rest])
  /\ UNCHANGED <<process, calls, task, link, voice, left, twilio, protocol>>
-----------------------------------------------------------------------------
(* The end of a socket. *)

(* The carrier closes it: the task is cancelled where it waits. Twilio's   *)
(* cleanup is shielded and goes on without the task; that of the others    *)
(* swallows it, or is cut short, the connection closed or not.             *)
Disconnects(s) ==
  /\ ~left[s] /\ task[s] \notin {"new", "background", "cut", "done"}
  /\ left' = [left EXCEPT ![s] = TRUE]
  /\ recv' = [recv EXCEPT ![s] = "none"]
  /\ CASE task[s] = "start" -> GoTo(s, Refused) /\ UNCHANGED audio
       [] InLoop(s) -> LeavesLoop(s)
       [] task[s] = "stopping" -> UNCHANGED <<task, audio>>
       [] task[s] = "closeWait" -> GoTo(s, "cleanup") /\ UNCHANGED audio
       [] task[s] = "cleanup" /\ kind = "twilio" -> GoTo(s, "background") /\ UNCHANGED audio
       [] task[s] = "cleanup" /\ kind # "twilio" -> UNCHANGED <<task, audio>>
  /\ UNCHANGED <<process, calls, link, voice, ended, kept, owed, protocol>>

CleanupIsCut(s) ==
  /\ ~left[s] /\ task[s] = "cleanup" /\ kind # "twilio"
  /\ left' = [left EXCEPT ![s] = TRUE]
  /\ GoTo(s, "cut")
  /\ voice' \in {voice, [voice EXCEPT ![s] = Closed(@)]}
  /\ beats' = [beats EXCEPT ![s] = FALSE]
  /\ Forget(s)
  /\ UNCHANGED <<process, calls, recv, audio>>

(* The connect task has stopped, and the place is free. *)
ConnectTaskStops(s) ==
  /\ Stopped(s, IF kind = "twilio" THEN "closeWait" ELSE "cleanup")
  /\ UNCHANGED <<process, voice, left, twilio, protocol, audio>>

(* wait_closed, bounded. *)
SocketClosed(s) ==
  /\ task[s] = "closeWait"
  /\ GoTo(s, "cleanup")
  /\ UNCHANGED <<process, calls, link, voice, left, twilio, protocol, audio>>

(* cleanup, to its end or to Twilio's force_close; Sinch's heartbeat too.  *)
CleanupEnds(s) ==
  /\ CleanedUp(s, "cleanup") \/ CleanedUp(s, "background")
  /\ beats' = [beats EXCEPT ![s] = FALSE]
  /\ Forget(s)
  /\ UNCHANGED <<process, calls, left, recv, audio>>
-----------------------------------------------------------------------------
Loop(s) == NoticesFailure(s) \/ Expires(s) \/ Receives(s) \/ ReceiveTimesOut(s)
           \/ SendReturns(s) \/ CallEnded(s) \/ ConnectTaskStops(s) \/ SocketClosed(s)

Next == \E s \in Socket :
  \/ Connects(s) \/ Authenticated(s) \/ Rejected(s)
  \/ ConnectStarts(s) \/ Connected(s) \/ ConnectFails(s)
  \/ Loop(s) \/ MessageLands(s) \/ Message(s)
  \/ AgentSpeaks(s) \/ AudioLeaves(s) \/ CallerSpeaks(s) \/ ClearLeaves(s)
  \/ ResponsesFail(s)
  \/ VoiceLiveDrops(s) \/ CarrierPlays(s)
  \/ Disconnects(s) \/ CleanupIsCut(s) \/ CleanupEnds(s)

(* The event loop runs what is ready, a receive times out and a send to    *)
(* the carrier returns, and the length of a call only grows: a loop that   *)
(* looks again and again finds it over.                                    *)
Fairness == \A s \in Socket :
  WF_<<task[s], audio[s]>>(Loop(s)) /\ SF_(task[s])(Expires(s))

Spec == Init /\ [][Next]_vars /\ Fairness
-----------------------------------------------------------------------------
(* Every part has its type; a socket holds a place in the CallManager from *)
(* its acquire to the release after its connect task has stopped, no call  *)
(* counts twice, and there are never more than the configured number.      *)
CarriersTypeOK ==
  /\ kind \in Kinds /\ ambient \in BOOLEAN
  /\ calls = {CallId[s] : s \in {t \in Socket : HoldsPlace(t)}}
  /\ Cardinality(calls) <= MaxConcurrent
  /\ task \in [Socket -> {"new", "start", "loop", "receive", "stopping", "closeWait",
                          "cleanup", "background", "cut", "done"}]
  /\ link \in [Socket -> {"none", "created", "handshake", "setup", "done", "failed",
                          "cancelled"}]
  /\ voice \in [Socket -> {"none", "open", "up", "down", "closed"}]
  /\ {left, ended, kept, open, paused, beats} \subseteq [Socket -> BOOLEAN]
  /\ recv \in [Socket -> {"none", "waiting", "landed"}]
  /\ owed \in [Socket -> 0..1]
  /\ audio \in [Socket -> Audio]

(* Nothing is left behind by a call: once its place is free its connect    *)
(* task never completes, so that the one cleanup closes whatever Voice     *)
(* Live connection there is, however the connect, a drop, a hang-up and    *)
(* the end of the call fall together ("a Voice Live connection can never   *)
(* complete after cleanup has run", providers/twilio/call_session.py). A   *)
(* caller who hangs up during the cleanup cuts it short, but not Twilio's. *)
NothingLeftOpen ==
  \A s \in Socket :
    /\ task[s] \in {"closeWait", "cleanup", "background", "cut", "done"} => ~Linking(s)
    /\ task[s] = "done" => voice[s] \in {"none", "closed"} /\ ~beats[s]
    /\ task[s] = "cut" => kind # "twilio"

(* While a Twilio call runs, every message that was taken off the socket   *)
(* is handled, and before the next: a message that lands in the instant of *)
(* a timeout is neither lost nor overtaken (TwilioCallSession.receive).    *)
NoMessageLost ==
  \A s \in Socket : kind = "twilio" /\ InLoop(s) /\ ~ended[s] =>
    owed[s] = IF kept[s] \/ recv[s] = "landed" THEN 1 ELSE 0

(* When the caller interrupts and on_speech_started is done, what the     *)
(* agent said before is not sent any more, and not kept at a carrier that  *)
(* was told to clear; what a paced carrier has been handed plays on. With  *)
(* ambient sound Sinch, Infobip and Genesys do not empty the shared        *)
(* buffer, and elsewhere a chunk on its way may land after the clear. And  *)
(* a clear drops nothing that was said after the interruption.             *)
BargeInSilences ==
  \A s \in Socket : LET a == audio[s] IN
    IF a.receiver = "clear"
    THEN "new" \notin a.tts \cup a.out \cup a.hand \cup a.peer
    ELSE /\ ~ambient => "old" \notin a.tts \cup a.out
         /\ kind \notin {"sinch", "infobip", "genesys"} => "old" \notin a.tts
         /\ ~ambient /\ ~Paced(kind) /\ ~a.lost => "old" \notin a.hand \cup a.peer

(* Every call ends, whether its carrier hangs up or falls silent, Voice    *)
(* Live connects, hangs or drops; and its place is then free again.        *)
EveryCallEnds ==
  \A s \in Socket : CallId[s] \in calls ~> CallId[s] \notin calls
=============================================================================
