--------------------------- MODULE AcsCallSession ---------------------------
(***************************************************************************)
(* One ACS call from the incoming event to the end: CallSession and its    *)
(* registry (providers/acs/call_session.py), answer_call and the callbacks *)
(* (providers/acs/bridge_calls.py), the media socket and the sweeper       *)
(* (providers/acs/__init__.py), against a platform whose callbacks arrive  *)
(* late, out of order, twice or never, and whose hang-ups may fail.        *)
(*                                                                         *)
(* Timers fire at any moment after they are armed.                         *)
(***************************************************************************)
EXTENDS VoiceLiveConnection

CONSTANT MaxFailures  \* transient failures of hang_up
ASSUME FailuresAssumption == MaxFailures \in Nat

VARIABLES
  call,       \* the platform's side: offered, up or gone
  callbacks,  \* callbacks sent; each arrives any number of times, or never
  answer,     \* the answer_call task
  route,      \* resolve_route found an agent
  session,    \* the flags of CallSession and its registry entries
  timers,     \* armed timers
  media,      \* the media socket's handler
  hangups,    \* hang-up tasks that have not run yet
  hangingUp,  \* a hang_up request is in flight
  failures,   \* failed hang-ups, of a known and of a forgotten session
  finalize    \* the _finalize task

sessionVars == <<session, timers, hangups, hangingUp>>
platformVars == <<call, callbacks, route, failures>>
vars == <<reason, terminate, connVars, sessionVars, platformVars, answer, media, finalize>>

Flags == {"answered", "connected", "disconnected", "hungUp", "hangUpOnAnswer",
          "hangUpAfterPlay", "wsUsed", "registered", "indexed"}
Sources == {"answer", "play", "sweep"}

(* A call that ends with a message plays it before hanging up. *)
HasMessage == reason \notin {"caller_hangup", "stale"}

Init ==
  /\ ConnInit
  /\ call = "offered" /\ callbacks = {} /\ failures = [known \in BOOLEAN |-> 0]
  /\ route \in BOOLEAN
  /\ answer = "calling"
  /\ session = [f \in Flags |-> f = "registered"]
  /\ timers = {} /\ hangups = {} /\ hangingUp = FALSE
  /\ media = "none" /\ finalize = "none"

Set(s, flags) == [f \in Flags |-> IF f \in flags THEN TRUE ELSE s[f]]
Clear(s, flags) == [f \in Flags |-> IF f \in flags THEN FALSE ELSE s[f]]

(* registry.remove: both indexes. *)
Removed(s) == Clear(s, {"registered", "indexed"})

(* _safe_hang_up up to its await. *)
SafeHangUp(s) ==
  LET skip == s["disconnected"] \/ s["hungUp"] IN
  /\ session' = IF skip THEN s
                ELSE Set(s, IF s["answered"] THEN {"hungUp"} ELSE {"hangUpOnAnswer"})
  /\ hangingUp' = (hangingUp \/ (~skip /\ s["answered"]))

ConnectionUnchanged == UNCHANGED connVars
EndUnchanged == UNCHANGED <<reason, terminate>>

-----------------------------------------------------------------------------
(* The platform. *)

Post(e) == callbacks' = callbacks \cup {e}

PlatformConnects ==
  /\ call = "offered" /\ answer # "failed"
  /\ call' = "up" /\ Post("connected")
  /\ EndUnchanged /\ ConnectionUnchanged
  /\ UNCHANGED <<sessionVars, route, failures, answer, media, finalize>>

CallerHangsUp ==
  /\ call \in {"offered", "up"}
  /\ call' = "gone" /\ Post("disconnected")
  /\ EndUnchanged /\ ConnectionUnchanged
  /\ UNCHANGED <<sessionVars, route, failures, answer, media, finalize>>

-----------------------------------------------------------------------------
(* _answer: answer_call returns. *)

(* Mutated form: an ended call is left to others when the answer arrives. *)
SetAnsweredEnded(s) ==
  /\ session' = IF s["registered"] THEN Set(s, {"answered", "indexed"}) ELSE Set(s, {"answered"})
  /\ UNCHANGED hangups
  /\ timers' = IF ~Ended /\ route THEN timers \cup {"watchdog"} ELSE timers

(* set_answered, and the index dropped again if the session was removed.   *)
SetAnswered(s) ==
  /\ session' = Clear(Set(s, {"answered", "indexed"}),
                      {"hangUpOnAnswer"} \cup (IF s["registered"] THEN {} ELSE {"indexed"}))
  /\ hangups' = IF s["hangUpOnAnswer"] /\ ~s["disconnected"] /\ ~s["hungUp"]
                THEN hangups \cup {"answer"} ELSE hangups
  /\ timers' = IF ~s["hangUpOnAnswer"] /\ ~Ended /\ route
               THEN timers \cup {"watchdog"} ELSE timers

AnswerReturns ==
  /\ answer = "calling"
  /\ answer' = "returned"
  /\ SetAnswered(session)
  /\ EndUnchanged /\ ConnectionUnchanged
  /\ UNCHANGED <<platformVars, hangingUp, media, finalize>>

(* mark_answer_failed, whether or not the platform answered the call. *)
AnswerFails ==
  /\ answer = "calling"
  /\ answer' = "failed" /\ call' \in {call, IF call = "offered" THEN "gone" ELSE call}
  /\ reason' = IF Ended THEN reason ELSE "answer_failed"
  /\ timers' = timers \cap {"safety"}
  /\ session' = Removed(session)
  /\ ConnectionUnchanged
  /\ UNCHANGED <<terminate, hangups, hangingUp, callbacks, route, failures, media, finalize>>

-----------------------------------------------------------------------------
(* handle_callbacks. *)

(* #A: a safety timer whose hang-up is in flight is left alone. *)
SafetyCancelled(t) == IF session["hungUp"] THEN t ELSE t \ {"safety"}

MarkConnected ==
  /\ session' = Set(session, {"connected"})
  /\ IF route THEN EndUnchanged ELSE RequestEnd("route_miss")
  /\ UNCHANGED <<timers, hangups, finalize>>

(* A second _finalize, after a callback delivered twice, changes nothing. *)
OnCallDisconnected ==
  /\ session' = Set(session, {"disconnected"})
  /\ RequestEnd("caller_hangup")
  /\ timers' = SafetyCancelled(timers \cap {"safety"})
  /\ finalize' = IF finalize = "none" THEN "start" ELSE finalize
  /\ UNCHANGED hangups

OnPlayDone ==
  /\ IF session["hangUpAfterPlay"]
     THEN timers' = SafetyCancelled(timers) /\ hangups' = hangups \cup {"play"}
     ELSE UNCHANGED <<timers, hangups>>
  /\ EndUnchanged
  /\ UNCHANGED <<session, finalize>>

Callback(e) ==
  /\ e \in callbacks
  /\ session["registered"]
  /\ \/ e = "connected" /\ MarkConnected
     \/ e = "disconnected" /\ OnCallDisconnected
     \/ e = "played" /\ OnPlayDone
  /\ ConnectionUnchanged
  /\ UNCHANGED <<platformVars, hangingUp, answer, media>>

-----------------------------------------------------------------------------
(* acs_ws and run_call_loop. *)

(* The checks before accept: known, not used, not ended. *)
MediaArrives ==
  LET ok == session["registered"] /\ ~session["wsUsed"] /\ ~Ended IN
  /\ media = "none" /\ call = "up" /\ route
  /\ media' = IF ok THEN "acquire" ELSE "closed"
  /\ session' = IF ok THEN Set(session, {"wsUsed"}) ELSE session
  /\ EndUnchanged /\ ConnectionUnchanged
  /\ UNCHANGED <<platformVars, timers, hangups, hangingUp, answer, finalize>>

(* call_manager.acquire, then the handler and its call loop. *)
Acquire ==
  /\ media = "acquire"
  /\ \/ media' = "closed" /\ RequestEnd("at_capacity") /\ UNCHANGED connect
     \/ media' = "loop" /\ connect' = "created" /\ EndUnchanged
  /\ UNCHANGED <<voice, socket, closer, sessionVars, platformVars, answer, finalize>>

(* The loop ends: the socket closes, the connect failed, or the cap or the *)
(* idle limit is reached.                                                  *)
LoopEnds ==
  /\ media = "loop"
  /\ media' = "ending"
  /\ \/ EndUnchanged
     \/ RequestEnd("expired")
  /\ ConnectionUnchanged
  /\ UNCHANGED <<sessionVars, platformVars, answer, finalize>>

LoopCancelsConnect ==
  /\ media = "ending"
  /\ media' = "ended" /\ ConnectCancelled
  /\ UNCHANGED <<sessionVars, platformVars, answer, finalize>>

(* The media socket is reported closed and Voice Live is closed. *)
LoopCleansUp ==
  /\ media = "ended"
  /\ media' = "closed"
  /\ closer' = EnsureClosed(closer)
  /\ timers' = IF ~Ended /\ ~session["disconnected"] THEN timers \cup {"grace"} ELSE timers
  /\ EndUnchanged
  /\ UNCHANGED <<connect, voice, socket, session, hangups, hangingUp, platformVars, answer, finalize>>

-----------------------------------------------------------------------------
(* Timers and the sweeper. *)

WatchdogFires ==
  /\ "watchdog" \in timers
  /\ timers' = timers \ {"watchdog"}
  /\ IF session["wsUsed"] THEN EndUnchanged ELSE RequestEnd("media_timeout")
  /\ ConnectionUnchanged
  /\ UNCHANGED <<session, hangups, hangingUp, platformVars, answer, media, finalize>>

GraceExpires ==
  /\ "grace" \in timers
  /\ timers' = timers \ {"grace"}
  /\ IF session["disconnected"] THEN EndUnchanged ELSE RequestEnd("media_lost")
  /\ ConnectionUnchanged
  /\ UNCHANGED <<session, hangups, hangingUp, platformVars, answer, media, finalize>>

(* _play_safety_timeout *)
SafetyFires ==
  /\ "safety" \in timers
  /\ timers' = timers \ {"safety"}
  /\ IF session["disconnected"] \/ ~session["registered"]
     THEN UNCHANGED <<session, hangingUp>>
     ELSE SafeHangUp(session)
  /\ EndUnchanged /\ ConnectionUnchanged
  /\ UNCHANGED <<hangups, platformVars, answer, media, finalize>>

(* sweep: a session that is too old is ended, hung up and forgotten.  Its  *)
(* age, max_call_seconds + 120, outlasts answer_call.                      *)
Sweep ==
  /\ session["registered"] /\ answer # "calling"
  /\ RequestEnd("stale")
  /\ hangups' = IF ~session["disconnected"] /\ ~session["hungUp"] /\ session["answered"]
                THEN hangups \cup {"sweep"} ELSE hangups
  /\ session' = Removed(session)
  /\ ConnectionUnchanged
  /\ UNCHANGED <<timers, hangingUp, platformVars, answer, media, finalize>>

-----------------------------------------------------------------------------
(* _terminate, _safe_hang_up and _finalize. *)

HangUpOr(loc) == SafeHangUp(session) /\ terminate' = loc

TerminateStarts ==
  /\ terminate = "start"
  /\ timers' = timers \cap {"safety"}
  /\ closer' = EnsureClosed(closer)
  /\ \/ session["disconnected"] /\ terminate' = "done" /\ UNCHANGED <<session, hangingUp>>
     \/ ~session["disconnected"] /\ ~HasMessage /\ HangUpOr("done")
     \/ /\ ~session["disconnected"] /\ HasMessage
        /\ terminate' = "answered" /\ UNCHANGED <<session, hangingUp>>
  /\ UNCHANGED <<reason, connect, voice, socket, hangups, platformVars, answer, media, finalize>>

(* Both waits of _terminate, each given up after wait_timeout. *)
TerminateWaits ==
  /\ terminate \in {"answered", "connected"}
  /\ \/ /\ session[terminate] /\ terminate = "answered"
        /\ terminate' = "connected" /\ UNCHANGED <<session, hangingUp, timers>>
     \/ /\ session["disconnected"]
        /\ terminate' = "done" /\ UNCHANGED <<session, hangingUp, timers>>
     \/ /\ session[terminate] /\ terminate = "connected" /\ ~session["disconnected"]
        /\ session' = Set(session, {"hangUpAfterPlay"})
        /\ timers' = timers \cup {"safety"}
        /\ terminate' = "play" /\ UNCHANGED hangingUp
     \/ /\ ~session[terminate] /\ ~session["disconnected"]
        /\ HangUpOr("done") /\ UNCHANGED timers
  /\ ConnectionUnchanged
  /\ UNCHANGED <<reason, hangups, platformVars, answer, media, finalize>>

(* play_media is accepted and reports later, or fails. *)
Plays ==
  /\ terminate = "play"
  /\ \/ /\ call = "up" /\ terminate' = "done" /\ Post("played")
        /\ UNCHANGED <<session, hangingUp, timers>>
     \/ /\ timers' = SafetyCancelled(timers)
        /\ HangUpOr("done") /\ UNCHANGED callbacks
  /\ ConnectionUnchanged
  /\ UNCHANGED <<reason, hangups, call, route, failures, answer, media, finalize>>

RunHangUp(src) ==
  /\ src \in hangups
  /\ hangups' = hangups \ {src}
  /\ SafeHangUp(session)
  /\ EndUnchanged /\ ConnectionUnchanged
  /\ UNCHANGED <<timers, platformVars, answer, media, finalize>>

HangUpFails ==
  /\ failures[TRUE] + failures[FALSE] < MaxFailures
  /\ failures' = [failures EXCEPT ![session["registered"]] = @ + 1]
  /\ UNCHANGED <<call, callbacks>>

(* Mutated form: a failed hang-up counts as done. *)
HangUpNeverFails ==
  /\ hangingUp /\ hangingUp' = FALSE
  /\ \/ call' = "gone" /\ UNCHANGED failures
        /\ IF call = "gone" THEN UNCHANGED callbacks ELSE Post("disconnected")
     \/ HangUpFails
  /\ EndUnchanged /\ ConnectionUnchanged
  /\ UNCHANGED <<session, timers, hangups, route, answer, media, finalize>>

(* hang_up returns: the call is gone, or a transient failure clears the    *)
(* flag (#B) so that a later attempt is made.                              *)
HangUpReturns ==
  /\ hangingUp /\ hangingUp' = FALSE
  /\ \/ /\ call' = "gone" /\ UNCHANGED <<session, failures>>
        /\ IF call = "gone" THEN UNCHANGED callbacks ELSE Post("disconnected")
     \/ HangUpFails /\ session' = Clear(session, {"hungUp"})
  /\ EndUnchanged /\ ConnectionUnchanged
  /\ UNCHANGED <<timers, hangups, route, answer, media, finalize>>

(* _finalize: Voice Live is closed first, then the session is removed. *)
FinalizeStarts ==
  /\ finalize = "start"
  /\ closer' = EnsureClosed(closer)
  /\ IF Handler THEN finalize' = "await" /\ UNCHANGED session
                ELSE finalize' = "done" /\ session' = Removed(session)
  /\ EndUnchanged
  /\ UNCHANGED <<connect, voice, socket, timers, hangups, hangingUp, platformVars, answer, media>>

FinalizeEnds ==
  /\ finalize = "await" /\ Finished("close")
  /\ finalize' = "done" /\ session' = Removed(session)
  /\ EndUnchanged /\ ConnectionUnchanged
  /\ UNCHANGED <<timers, hangups, hangingUp, platformVars, answer, media>>

-----------------------------------------------------------------------------
SessionUnchanged == UNCHANGED <<sessionVars, platformVars, answer, media, finalize>>

Platform == PlatformConnects \/ CallerHangsUp
            \/ \E e \in callbacks : Callback(e)
Voicelive == (Connecting \/ VoiceLiveDrops \/ \E c \in Closers : Closing(c)) /\ SessionUnchanged
Media == MediaArrives \/ Acquire \/ LoopEnds \/ LoopCancelsConnect \/ LoopCleansUp
Timer == WatchdogFires \/ GraceExpires \/ SafetyFires
HangUpTask == \E src \in Sources : RunHangUp(src)
Ending == TerminateStarts \/ TerminateWaits \/ Plays \/ HangUpReturns
          \/ FinalizeStarts \/ FinalizeEnds

Next == Platform \/ Voicelive \/ Media \/ Timer \/ Ending \/ HangUpTask \/ Sweep
        \/ AnswerReturns \/ AnswerFails

(* Tasks of the event loop run, timers fire, bounded requests return, the  *)
(* a call has a cap; the sweeper is relied on only once a hang-up failed.  *)
(* Nothing is assumed of the platform, nor of a close that hangs until its *)
(* timeout, except an orphan's (OrphanHangs).                              *)
Tasks == AnswerReturns \/ AnswerFails \/ Acquire \/ LoopEnds \/ LoopCancelsConnect
         \/ LoopCleansUp \/ Timer \/ Ending
         \/ /\ SessionUnchanged
            /\ \/ Connecting
               \/ \E c \in Closers : \/ CleanupStart(c) \/ ReceiverStopped(c) \/ CloseTimesOut(c)
                                     \/ ~OrphanHangs /\ OrphanClosed(c)

Fairness == WF_vars(Tasks) /\ WF_vars(HangUpTask) /\ WF_vars((failures[TRUE] > 0 /\ Sweep))

Spec == Init /\ [][Next]_vars
FairSpec == Spec /\ Fairness

-----------------------------------------------------------------------------
TypeOK ==
  /\ ConnTypeOK
  /\ call \in {"offered", "up", "gone"}
  /\ callbacks \subseteq {"connected", "disconnected", "played"}
  /\ answer \in {"calling", "returned", "failed"}
  /\ route \in BOOLEAN
  /\ session \in [Flags -> BOOLEAN]
  /\ timers \subseteq {"watchdog", "grace", "safety"}
  /\ media \in {"none", "acquire", "loop", "ending", "ended", "closed"}
  /\ hangups \subseteq Sources
  /\ hangingUp \in BOOLEAN
  /\ failures \in [BOOLEAN -> 0..MaxFailures]
  /\ finalize \in {"none", "start", "await", "done"}

(* The connection index never outlives the session's own entry, even when  *)
(* the disconnect overtakes the answer that brings the connection id.      *)
IndexFollowsRegistry == session["indexed"] => session["registered"]

(* A caller whose media arrived is never told that media timed out, and    *)
(* media is never accepted after that.                                     *)
TimeoutMeansNoMedia == reason = "media_timeout" => ~session["wsUsed"]

(* A session is hung up only after it ended, and the hang-up kept for the  *)
(* answer is not forgotten once the connection id is known.                *)
PendingHangUpIsTaken ==
  /\ session["hangUpOnAnswer"] => Ended /\ ~session["answered"]
  /\ hangingUp \/ session["hungUp"] => Ended

(* The reason a call ended for is set once. *)
EndsOnce == [][Ended => reason' = reason]_reason

(* No caller is left connected to a session that has ended: the call comes *)
(* down although callbacks are lost, the answer is late or a hang-up fails *)
(* (then the sweep tries again) -- unless the answer itself failed or a    *)
(* hang-up failed of a session already forgotten.                          *)
NobodyStranded ==
  (Ended /\ call = "up") ~> (call = "gone" \/ answer = "failed" \/ failures[FALSE] > 0)

(* A Voice Live connection does not outlive its call, even one whose       *)
(* handshake completes after the session's close has run.                  *)
VoiceLiveCloses == (Ended /\ socket = "open") ~> (socket = "closed")

(* The design's section 3.4: a close that times out is a forced abort, "so *)
(* the session is not billed".                                             *)
ForcedCloseAborts == \A c \in Closers : closer[c].task = "forced" => socket = "closed"
=============================================================================
