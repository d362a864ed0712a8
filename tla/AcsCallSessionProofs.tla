------------------------ MODULE AcsCallSessionProofs ------------------------
(***************************************************************************)
(* The safety properties of one ACS call, for any number of failed         *)
(* hang-ups and whether or not the close of an orphan hangs.               *)
(***************************************************************************)
EXTENDS AcsCallSession, TLAPS

-----------------------------------------------------------------------------
(* The inductive invariant. *)

(* Whatever leads to a hang-up exists only in a session that has ended.    *)
EndInv ==
  /\ terminate # "none" => Ended
  /\ "safety" \in timers => Ended
  /\ hangups # {} => Ended
  /\ session["hangUpAfterPlay"] => Ended

SafetyInv == IndexFollowsRegistry /\ TimeoutMeansNoMedia /\ PendingHangUpIsTaken /\ EndInv

SessionTypeOK ==
  /\ session \in [Flags -> BOOLEAN]
  /\ timers \subseteq {"watchdog", "grace", "safety"}
  /\ hangups \subseteq Sources
  /\ hangingUp \in BOOLEAN

PlatformTypeOK ==
  /\ call \in {"offered", "up", "gone"}
  /\ callbacks \subseteq {"connected", "disconnected", "played"}
  /\ route \in BOOLEAN
  /\ failures \in [BOOLEAN -> 0..MaxFailures]

TaskTypeOK ==
  /\ answer \in {"calling", "returned", "failed"}
  /\ media \in {"none", "acquire", "loop", "ending", "ended", "closed"}
  /\ finalize \in {"none", "start", "await", "done"}

CallInv == ConnTypeOK /\ SessionTypeOK /\ PlatformTypeOK /\ TaskTypeOK /\ SafetyInv

(* What request_end, or leaving the reason alone, makes sure of.           *)
ReasonKept ==
  /\ reason' \in Reasons
  /\ terminate' \in {"none", "start", "answered", "connected", "play", "done"}
  /\ Ended => reason' = reason
  /\ terminate' # "none" => reason' # "none"
  /\ reason' # "media_timeout" \/ reason = "media_timeout"

-----------------------------------------------------------------------------
(* The operators. *)

(* Setting and clearing flags: the type, and each flag's value.            *)
LEMMA FlagsSet ==
  ASSUME NEW s \in [Flags -> BOOLEAN], NEW F
  PROVE  /\ Set(s, F) \in [Flags -> BOOLEAN]
         /\ \A f \in Flags : Set(s, F)[f] <=> (f \in F \/ s[f])
BY DEF Set

(* As FlagsSet, for Clear.                                                 *)
LEMMA FlagsCleared ==
  ASSUME NEW s \in [Flags -> BOOLEAN], NEW F
  PROVE  /\ Clear(s, F) \in [Flags -> BOOLEAN]
         /\ \A f \in Flags : Clear(s, F)[f] <=> (f \notin F /\ s[f])
BY DEF Clear

(* registry.remove takes a session out of both indexes.                    *)
LEMMA FlagsRemoved ==
  ASSUME NEW s \in [Flags -> BOOLEAN]
  PROVE  /\ Removed(s) \in [Flags -> BOOLEAN]
         /\ \A f \in Flags : Removed(s)[f] <=> (f \notin {"registered", "indexed"} /\ s[f])
BY FlagsCleared DEF Removed

(* request_end keeps the first reason.                                     *)
LEMMA RequestEndKeeps ==
  ASSUME ConnTypeOK, terminate # "none" => Ended,
         NEW why \in Reasons \ {"none", "media_timeout"}, RequestEnd(why)
  PROVE  ReasonKept /\ reason' # "none"
BY DEF ConnTypeOK, RequestEnd, ReasonKept, Ended, Reasons

(* So does an action that leaves the reason and _terminate alone.          *)
LEMMA UnchangedKeeps ==
  ASSUME ConnTypeOK, terminate # "none" => Ended, EndUnchanged
  PROVE  ReasonKept
BY DEF ConnTypeOK, EndUnchanged, ReasonKept, Ended

(* The types of the connection when only the reason may change.            *)
LEMMA ConnKept ==
  ASSUME ConnTypeOK, ReasonKept, ConnectionUnchanged
  PROVE  ConnTypeOK'
BY DEF ConnTypeOK, ReasonKept, ConnectionUnchanged, connVars

(* The session's safety survives any step that touches only the connection *)
(* and the reason.                                                         *)
LEMMA SessionKept ==
  ASSUME CallInv, ReasonKept, ConnTypeOK', SessionUnchanged
  PROVE  CallInv'
<1>1. SessionTypeOK' /\ PlatformTypeOK' /\ TaskTypeOK'
  BY DEF CallInv, SessionTypeOK, PlatformTypeOK, TaskTypeOK, SessionUnchanged, sessionVars,
         platformVars
<1>2. IndexFollowsRegistry'
  BY DEF CallInv, SafetyInv, IndexFollowsRegistry, SessionUnchanged, sessionVars
<1>3. TimeoutMeansNoMedia'
  BY DEF CallInv, SafetyInv, TimeoutMeansNoMedia, ReasonKept, SessionUnchanged, sessionVars
<1>4. Ended => Ended'
  BY DEF ReasonKept, Ended
<1>5. PendingHangUpIsTaken'
  BY <1>4 DEF CallInv, SafetyInv, PendingHangUpIsTaken, SessionUnchanged, sessionVars, Ended
<1>6. EndInv'
  BY <1>4 DEF CallInv, SafetyInv, EndInv, ReasonKept, SessionUnchanged, sessionVars, Ended
<1> QED
  BY <1>1, <1>2, <1>3, <1>5, <1>6 DEF CallInv, SafetyInv

-----------------------------------------------------------------------------
(* The Voice Live connection. *)

(* Starting the session's close, or the late close, keeps the closers' type. *)
LEMMA ClosersTyped ==
  ASSUME NEW cl \in [Closers -> Closer]
  PROVE  /\ EnsureClosed(cl) \in [Closers -> Closer]
         /\ StartLateClose(cl) \in [Closers -> Closer]
BY DEF EnsureClosed, StartLateClose, Running, Closers, Closer

(* So does a step of a cleanup.                                            *)
LEMMA CleanTyped ==
  ASSUME ConnTypeOK, NEW c \in Closers,
         NEW loc \in {"none", "start", "stop", "exit", "orphan", "done"}
  PROVE  Clean(c, loc) \in [Closers -> Closer]
BY DEF ConnTypeOK, Clean, Closers, Closer

(* Every step of connect_voicelive keeps the types and the reason.         *)
LEMMA ConnectingKeeps ==
  ASSUME ConnTypeOK, terminate # "none" => Ended, Connecting
  PROVE  ReasonKept /\ ConnTypeOK'
<1>1. CASE ConnectFails
  <2>1. ReasonKept
    BY <1>1, RequestEndKeeps DEF ConnectFails, Reasons
  <2>2. closer' \in [Closers -> Closer]
    BY <1>1, ClosersTyped DEF ConnectFails, ConnTypeOK
  <2> QED
    BY <1>1, <2>1, <2>2 DEF ConnectFails, ReasonKept, ConnTypeOK
<1>2. CASE ConnectStart \/ HandshakeDone \/ SetupDone \/ LateAwaited \/ LateStarts \/ LateCloses
  <2>1. EndUnchanged
    BY <1>2 DEF EndUnchanged, ConnectStart, HandshakeDone, SetupDone, LateAwaited, LateStarts,
                LateCloses
  <2>2. ReasonKept
    BY <2>1, UnchangedKeeps
  <2>3. CASE ConnectStart
    BY <2>2, <2>3 DEF ConnectStart, ConnTypeOK, Voice, ReasonKept
  <2>4. CASE HandshakeDone
    BY <2>2, <2>4 DEF HandshakeDone, ConnTypeOK, Voice, ReasonKept
  <2>5. CASE SetupDone
    <3>1. closer' \in [Closers -> Closer]
      BY <2>5, ClosersTyped DEF SetupDone, ConnTypeOK
    <3>2. voice' \in Voice
      BY <2>5 DEF SetupDone, ConnTypeOK, Voice
    <3> QED
      BY <2>2, <2>5, <3>1, <3>2 DEF SetupDone, ConnTypeOK, ReasonKept
  <2>6. CASE LateAwaited
    BY <2>2, <2>6 DEF LateAwaited, ConnTypeOK, ReasonKept
  <2>7. CASE LateStarts
    <3>1. [closer EXCEPT !["late"].task = "wait"] \in [Closers -> Closer]
      BY DEF ConnTypeOK, Closers, Closer
    <3>2. closer' \in [Closers -> Closer]
      BY <2>7, <3>1, ClosersTyped DEF LateStarts
    <3> QED
      BY <2>2, <2>7, <3>2 DEF LateStarts, ConnTypeOK, ReasonKept
  <2>8. CASE LateCloses
    <3>1. closer' \in [Closers -> Closer]
      BY <2>8 DEF LateCloses, ConnTypeOK, Running, Closers, Closer
    <3> QED
      BY <2>2, <2>8, <3>1 DEF LateCloses, ConnTypeOK, ReasonKept
  <2> QED
    BY <1>2, <2>3, <2>4, <2>5, <2>6, <2>7, <2>8
<1> QED
  BY <1>1, <1>2 DEF Connecting

(* Leaving the context, or closing the orphan instead, keeps the types.    *)
LEMMA ExitTyped ==
  ASSUME ConnTypeOK, NEW c \in Closers, NEW orphan \in BOOLEAN, ExitContext(c, orphan)
  PROVE  voice' \in Voice /\ closer' \in [Closers -> Closer]
<1>1. closer' \in [Closers -> Closer]
  BY CleanTyped DEF ExitContext, CloseOrphan
<1>2. voice' \in Voice
  BY DEF ExitContext, CloseOrphan, ConnTypeOK, Voice
<1> QED
  BY <1>1, <1>2

(* Every step of a close keeps the types and the reason.                   *)
LEMMA ClosingKeeps ==
  ASSUME ConnTypeOK, terminate # "none" => Ended, NEW c \in Closers, Closing(c)
  PROVE  ReasonKept /\ ConnTypeOK'
<1>1. EndUnchanged
  BY DEF EndUnchanged, Closing, CleanupStart, ReceiverStopped, ContextExited, OrphanClosed,
         CloseTimesOut
<1>2. ReasonKept
  BY <1>1, UnchangedKeeps
<1>3. CASE CleanupStart(c)
  <2> DEFINE orphan == voice.conn /\ ~voice.ctx
  <2>1. CASE voice.receiver = "running"
    <3>1. closer' \in [Closers -> Closer]
      BY <1>3, <2>1 DEF CleanupStart, ConnTypeOK, Closers, Closer, Voice
    <3>2. voice' \in Voice
      BY <1>3, <2>1 DEF CleanupStart, ConnTypeOK, Voice
    <3> QED
      BY <1>2, <1>3, <3>1, <3>2 DEF CleanupStart, ConnTypeOK, ReasonKept
  <2>2. CASE voice.receiver # "running"
    <3>1. ExitContext(c, orphan) /\ orphan \in BOOLEAN
      BY <1>3, <2>2 DEF CleanupStart
    <3>2. voice' \in Voice /\ closer' \in [Closers -> Closer]
      BY <3>1, ExitTyped
    <3> QED
      BY <1>2, <1>3, <3>2 DEF CleanupStart, ConnTypeOK, ReasonKept
  <2> QED
    BY <2>1, <2>2
<1>4. CASE ReceiverStopped(c)
  <2>1. closer[c].orphan \in BOOLEAN
    BY DEF ConnTypeOK, Closer
  <2>2. voice' \in Voice /\ closer' \in [Closers -> Closer]
    BY <1>4, <2>1, ExitTyped DEF ReceiverStopped
  <2> QED
    BY <1>2, <1>4, <2>2 DEF ReceiverStopped, ConnTypeOK, ReasonKept
<1>5. CASE ContextExited(c)
  <2>1. closer' \in [Closers -> Closer]
    BY <1>5, CleanTyped DEF ContextExited
  <2>2. voice' \in Voice
    BY <1>5 DEF ContextExited, ConnTypeOK, Voice
  <2> QED
    BY <1>2, <1>5, <2>1, <2>2 DEF ContextExited, ConnTypeOK, ReasonKept
<1>6. CASE OrphanClosed(c)
  <2>1. closer' \in [Closers -> Closer]
    BY <1>6, CleanTyped DEF OrphanClosed
  <2> QED
    BY <1>2, <1>6, <2>1 DEF OrphanClosed, ConnTypeOK, ReasonKept
<1>7. CASE CloseTimesOut(c)
  <2>1. closer' \in [Closers -> Closer]
    BY <1>7 DEF CloseTimesOut, ConnTypeOK, Closers, Closer
  <2> QED
    BY <1>2, <1>7, <2>1 DEF CloseTimesOut, ConnTypeOK, ReasonKept
<1> QED
  BY <1>3, <1>4, <1>5, <1>6, <1>7 DEF Closing

(* A step of the connection keeps the invariant.                           *)
LEMMA VoiceliveStep == CallInv /\ Voicelive => CallInv'
<1> SUFFICES ASSUME CallInv, Voicelive PROVE CallInv'
  OBVIOUS
<1>1. ConnTypeOK /\ (terminate # "none" => Ended) /\ SessionUnchanged
  BY DEF CallInv, SafetyInv, EndInv, Voicelive
<1>2. CASE Connecting
  BY <1>1, <1>2, ConnectingKeeps, SessionKept
<1>3. CASE VoiceLiveDrops
  <2>1. ReasonKept
    BY <1>1, <1>3, RequestEndKeeps DEF VoiceLiveDrops, Reasons
  <2>2. ConnTypeOK'
    BY <1>1, <1>3, <2>1 DEF VoiceLiveDrops, ConnTypeOK, Voice, ReasonKept
  <2> QED
    BY <1>1, <2>1, <2>2, SessionKept
<1>4. ASSUME NEW c \in Closers, Closing(c) PROVE CallInv'
  BY <1>1, <1>4, ClosingKeeps, SessionKept
<1> QED
  BY <1>2, <1>3, <1>4 DEF Voicelive

-----------------------------------------------------------------------------
(* Safety of the session's parts, for the kinds of step there are. *)

(* A step that leaves the flags alone and prepares a hang-up only at the end. *)
LEMMA FlagsKept ==
  ASSUME CallInv, ReasonKept, UNCHANGED <<session, hangingUp>>,
         "safety" \in timers' => "safety" \in timers \/ Ended',
         hangups' # {} => hangups # {} \/ Ended'
  PROVE  SafetyInv'
<1>1. Ended => Ended'
  BY DEF ReasonKept, Ended
<1>2. IndexFollowsRegistry'
  BY DEF CallInv, SafetyInv, IndexFollowsRegistry
<1>3. TimeoutMeansNoMedia'
  BY DEF CallInv, SafetyInv, TimeoutMeansNoMedia, ReasonKept
<1>4. PendingHangUpIsTaken'
  BY <1>1 DEF CallInv, SafetyInv, PendingHangUpIsTaken
<1>5. EndInv'
  BY <1>1 DEF CallInv, SafetyInv, EndInv, ReasonKept, Ended
<1> QED
  BY <1>2, <1>3, <1>4, <1>5 DEF SafetyInv

(* A hang-up of a session that has ended.                                  *)
LEMMA HangUpSafe ==
  ASSUME CallInv, ReasonKept, Ended, SafeHangUp(session)
  PROVE  /\ session' \in [Flags -> BOOLEAN] /\ hangingUp' \in BOOLEAN
         /\ SafetyInv'
<1>1. session \in [Flags -> BOOLEAN] /\ hangingUp \in BOOLEAN
  BY DEF CallInv, SessionTypeOK
<1>2. Ended' /\ reason' = reason
  BY DEF ReasonKept, Ended
<1>3. hangingUp' \in BOOLEAN
  BY <1>1 DEF SafeHangUp
<1>4. /\ session' \in [Flags -> BOOLEAN]
      /\ \A f \in Flags \ {"hungUp", "hangUpOnAnswer"} : session'[f] <=> session[f]
      /\ session'["hangUpOnAnswer"] => session["hangUpOnAnswer"] \/ ~session["answered"]
  <2>1. CASE session["disconnected"] \/ session["hungUp"]
    BY <1>1, <2>1 DEF SafeHangUp
  <2>2. CASE ~(session["disconnected"] \/ session["hungUp"]) /\ session["answered"]
    BY <1>1, <2>2, FlagsSet DEF SafeHangUp, Flags
  <2>3. CASE ~(session["disconnected"] \/ session["hungUp"]) /\ ~session["answered"]
    BY <1>1, <2>3, FlagsSet DEF SafeHangUp, Flags
  <2> QED
    BY <2>1, <2>2, <2>3
<1>5. IndexFollowsRegistry'
  BY <1>4 DEF CallInv, SafetyInv, IndexFollowsRegistry, Flags
<1>6. TimeoutMeansNoMedia'
  BY <1>2, <1>4 DEF CallInv, SafetyInv, TimeoutMeansNoMedia, Flags
<1>7. PendingHangUpIsTaken'
  BY <1>2, <1>4 DEF CallInv, SafetyInv, PendingHangUpIsTaken, Flags
<1>8. EndInv'
  BY <1>2 DEF EndInv
<1> QED
  BY <1>3, <1>4, <1>5, <1>6, <1>7, <1>8 DEF SafetyInv

(* Forgetting a session, with at most more reasons to hang it up.          *)
LEMMA RemovalSafe ==
  ASSUME CallInv, ReasonKept, session' = Removed(session), UNCHANGED hangingUp,
         "safety" \in timers' => "safety" \in timers,
         hangups' # {} => hangups # {} \/ Ended'
  PROVE  session' \in [Flags -> BOOLEAN] /\ SafetyInv'
<1>1. /\ session' \in [Flags -> BOOLEAN]
      /\ \A f \in Flags : session'[f] <=> (f \notin {"registered", "indexed"} /\ session[f])
  BY FlagsRemoved DEF CallInv, SessionTypeOK
<1>2. Ended => Ended'
  BY DEF ReasonKept, Ended
<1>3. IndexFollowsRegistry'
  BY <1>1 DEF IndexFollowsRegistry, Flags
<1>4. TimeoutMeansNoMedia'
  BY <1>1 DEF CallInv, SafetyInv, TimeoutMeansNoMedia, ReasonKept, Flags
<1>5. PendingHangUpIsTaken'
  BY <1>1, <1>2 DEF CallInv, SafetyInv, PendingHangUpIsTaken, Flags
<1>6. EndInv'
  BY <1>1, <1>2 DEF CallInv, SafetyInv, EndInv, ReasonKept, Ended, Flags
<1> QED
  BY <1>1, <1>3, <1>4, <1>5, <1>6 DEF SafetyInv

-----------------------------------------------------------------------------
(* The platform and its callbacks. *)

(* What the invariant says first, for the steps below.                     *)
LEMMA CallInvParts ==
  CallInv => /\ ConnTypeOK /\ SessionTypeOK /\ PlatformTypeOK /\ TaskTypeOK
             /\ (terminate # "none" => Ended)
             /\ session \in [Flags -> BOOLEAN]
BY DEF CallInv, SafetyInv, EndInv, SessionTypeOK

(* Calls that connect or are hung up by the caller.                        *)
LEMMA CallStep == CallInv /\ (PlatformConnects \/ CallerHangsUp) => CallInv'
<1> SUFFICES ASSUME CallInv, PlatformConnects \/ CallerHangsUp PROVE CallInv'
  OBVIOUS
<1>1. /\ EndUnchanged /\ ConnectionUnchanged
      /\ UNCHANGED <<sessionVars, route, failures, answer, media, finalize>>
  BY DEF PlatformConnects, CallerHangsUp
<1>2. ReasonKept
  BY <1>1, CallInvParts, UnchangedKeeps
<1>3. ConnTypeOK'
  BY <1>1, <1>2, CallInvParts, ConnKept
<1>4. SessionTypeOK' /\ TaskTypeOK'
  BY <1>1 DEF CallInv, SessionTypeOK, TaskTypeOK, sessionVars
<1>5. PlatformTypeOK'
  BY <1>1 DEF CallInv, PlatformTypeOK, PlatformConnects, CallerHangsUp, Post
<1>6. SafetyInv'
  BY <1>1, <1>2, FlagsKept DEF sessionVars
<1> QED
  BY <1>3, <1>4, <1>5, <1>6 DEF CallInv

(* CallConnected.                                                          *)
LEMMA ConnectedStep ==
  ASSUME CallInv, MarkConnected, ConnectionUnchanged,
         UNCHANGED <<platformVars, hangingUp, answer, media>>
  PROVE  CallInv'
<1>1. ReasonKept
  BY CallInvParts, RequestEndKeeps, UnchangedKeeps DEF MarkConnected, Reasons
<1>2. ConnTypeOK'
  BY <1>1, CallInvParts, ConnKept
<1>3. /\ session' \in [Flags -> BOOLEAN]
      /\ \A f \in Flags : session'[f] <=> (f \in {"connected"} \/ session[f])
  BY CallInvParts, FlagsSet DEF MarkConnected
<1>4. SessionTypeOK' /\ PlatformTypeOK' /\ TaskTypeOK'
  BY <1>3 DEF CallInv, SessionTypeOK, PlatformTypeOK, TaskTypeOK, MarkConnected, platformVars
<1>5. Ended => Ended'
  BY <1>1 DEF ReasonKept, Ended
<1>6. IndexFollowsRegistry'
  BY <1>3 DEF CallInv, SafetyInv, IndexFollowsRegistry, Flags
<1>7. TimeoutMeansNoMedia'
  BY <1>1, <1>3 DEF CallInv, SafetyInv, TimeoutMeansNoMedia, ReasonKept, Flags
<1>8. PendingHangUpIsTaken'
  BY <1>3, <1>5 DEF CallInv, SafetyInv, PendingHangUpIsTaken, Flags
<1>9. EndInv'
  BY <1>1, <1>3, <1>5 DEF CallInv, SafetyInv, EndInv, ReasonKept, Ended, Flags, MarkConnected
<1> QED
  BY <1>2, <1>4, <1>6, <1>7, <1>8, <1>9 DEF CallInv, SafetyInv

(* CallDisconnected.                                                       *)
LEMMA DisconnectedStep ==
  ASSUME CallInv, OnCallDisconnected, ConnectionUnchanged,
         UNCHANGED <<platformVars, hangingUp, answer, media>>
  PROVE  CallInv'
<1>1. ReasonKept /\ reason' # "none"
  BY CallInvParts, RequestEndKeeps DEF OnCallDisconnected, Reasons
<1>2. ConnTypeOK'
  BY <1>1, CallInvParts, ConnKept
<1>3. /\ session' \in [Flags -> BOOLEAN]
      /\ \A f \in Flags : session'[f] <=> (f \in {"disconnected"} \/ session[f])
  BY CallInvParts, FlagsSet DEF OnCallDisconnected
<1>4. SessionTypeOK' /\ PlatformTypeOK' /\ TaskTypeOK'
  BY <1>3 DEF CallInv, SessionTypeOK, PlatformTypeOK, TaskTypeOK, OnCallDisconnected,
              SafetyCancelled, platformVars
<1>5. IndexFollowsRegistry'
  BY <1>3 DEF CallInv, SafetyInv, IndexFollowsRegistry, Flags
<1>6. TimeoutMeansNoMedia'
  BY <1>1, <1>3 DEF CallInv, SafetyInv, TimeoutMeansNoMedia, ReasonKept, Flags
<1>7. PendingHangUpIsTaken'
  BY <1>1, <1>3 DEF CallInv, SafetyInv, PendingHangUpIsTaken, Ended, Flags
<1>8. EndInv'
  BY <1>1 DEF EndInv, Ended
<1> QED
  BY <1>2, <1>4, <1>5, <1>6, <1>7, <1>8 DEF CallInv, SafetyInv

(* PlayCompleted and PlayFailed.                                           *)
LEMMA PlayedStep ==
  ASSUME CallInv, OnPlayDone, ConnectionUnchanged,
         UNCHANGED <<platformVars, hangingUp, answer, media>>
  PROVE  CallInv'
<1>1. EndUnchanged /\ UNCHANGED <<session, finalize>>
  BY DEF OnPlayDone
<1>2. ReasonKept
  BY <1>1, CallInvParts, UnchangedKeeps
<1>3. ConnTypeOK'
  BY <1>2, CallInvParts, ConnKept
<1>4. SessionTypeOK' /\ PlatformTypeOK' /\ TaskTypeOK'
  BY <1>1 DEF CallInv, SessionTypeOK, PlatformTypeOK, TaskTypeOK, OnPlayDone, SafetyCancelled,
              Sources, platformVars
<1>5. hangups' # {} => hangups # {} \/ Ended'
  BY <1>1 DEF OnPlayDone, CallInv, SafetyInv, EndInv, Ended, EndUnchanged
<1>6. "safety" \in timers' => "safety" \in timers
  BY DEF OnPlayDone, SafetyCancelled
<1>7. SafetyInv'
  BY <1>1, <1>2, <1>5, <1>6, FlagsKept
<1> QED
  BY <1>3, <1>4, <1>7 DEF CallInv

(* Every callback keeps the invariant.                                     *)
LEMMA CallbackStep == ASSUME CallInv, NEW e, Callback(e) PROVE CallInv'
BY ConnectedStep, DisconnectedStep, PlayedStep DEF Callback

-----------------------------------------------------------------------------
(* The answer. *)

(* answer_call returns: a hang-up kept for the answer is taken, and the    *)
(* index of a removed session is dropped again.                            *)
LEMMA AnswerReturnsStep == CallInv /\ AnswerReturns => CallInv'
<1> SUFFICES ASSUME CallInv, AnswerReturns PROVE CallInv'
  OBVIOUS
<1> DEFINE dropped == {"hangUpOnAnswer"} \cup (IF session["registered"] THEN {} ELSE {"indexed"})
           known == Set(session, {"answered", "indexed"})
<1>1. /\ EndUnchanged /\ ConnectionUnchanged /\ answer' = "returned"
      /\ UNCHANGED <<platformVars, hangingUp, media, finalize>>
      /\ session' = Clear(known, dropped)
      /\ hangups' = IF session["hangUpOnAnswer"] /\ ~session["disconnected"] /\ ~session["hungUp"]
                    THEN hangups \cup {"answer"} ELSE hangups
      /\ timers' \in {timers, timers \cup {"watchdog"}}
  BY DEF AnswerReturns, SetAnswered
<1>2. ReasonKept
  BY <1>1, CallInvParts, UnchangedKeeps
<1>3. ConnTypeOK'
  BY <1>1, <1>2, CallInvParts, ConnKept
<1>4. /\ known \in [Flags -> BOOLEAN]
      /\ \A f \in Flags : known[f] <=> (f \in {"answered", "indexed"} \/ session[f])
  BY CallInvParts, FlagsSet
<1> HIDE DEF known
<1>5. /\ session' \in [Flags -> BOOLEAN]
      /\ \A f \in Flags : session'[f] <=> (f \notin dropped /\ known[f])
  BY <1>1, <1>4, FlagsCleared
<1>6. SessionTypeOK' /\ PlatformTypeOK' /\ TaskTypeOK'
  BY <1>1, <1>5 DEF CallInv, SessionTypeOK, PlatformTypeOK, TaskTypeOK, Sources, platformVars
<1>7. IndexFollowsRegistry'
  BY <1>4, <1>5 DEF IndexFollowsRegistry, Flags
<1>8. TimeoutMeansNoMedia'
  BY <1>1, <1>4, <1>5 DEF CallInv, SafetyInv, TimeoutMeansNoMedia, Flags, EndUnchanged
<1>9. PendingHangUpIsTaken'
  BY <1>1, <1>4, <1>5 DEF CallInv, SafetyInv, PendingHangUpIsTaken, Flags, EndUnchanged, Ended
<1>10. EndInv'
  BY <1>1, <1>4, <1>5 DEF CallInv, SafetyInv, EndInv, PendingHangUpIsTaken, Flags, EndUnchanged,
                          Ended
<1> QED
  BY <1>3, <1>6, <1>7, <1>8, <1>9, <1>10 DEF CallInv, SafetyInv

(* answer_call raises.                                                     *)
LEMMA AnswerFailsStep == CallInv /\ AnswerFails => CallInv'
<1> SUFFICES ASSUME CallInv, AnswerFails PROVE CallInv'
  OBVIOUS
<1>1. ReasonKept
  BY DEF AnswerFails, ReasonKept, CallInv, ConnTypeOK, SafetyInv, EndInv, Ended, Reasons
<1>2. ConnTypeOK'
  BY <1>1, CallInvParts, ConnKept DEF AnswerFails
<1>3. session' \in [Flags -> BOOLEAN] /\ SafetyInv'
  BY <1>1, RemovalSafe DEF AnswerFails
<1>4. SessionTypeOK' /\ PlatformTypeOK' /\ TaskTypeOK'
  BY <1>3 DEF AnswerFails, CallInv, SessionTypeOK, PlatformTypeOK, TaskTypeOK
<1> QED
  BY <1>2, <1>3, <1>4 DEF CallInv

-----------------------------------------------------------------------------
(* The media socket. *)

(* Media is accepted of a session that has not ended.                      *)
LEMMA MediaArrivesStep == CallInv /\ MediaArrives => CallInv'
<1> SUFFICES ASSUME CallInv, MediaArrives PROVE CallInv'
  OBVIOUS
<1>1. /\ EndUnchanged /\ ConnectionUnchanged
      /\ UNCHANGED <<platformVars, timers, hangups, hangingUp, answer, finalize>>
      /\ media' \in {"acquire", "closed"}
  BY DEF MediaArrives
<1>2. ReasonKept
  BY <1>1, CallInvParts, UnchangedKeeps
<1>3. ConnTypeOK'
  BY <1>1, <1>2, CallInvParts, ConnKept
<1>4. PlatformTypeOK' /\ TaskTypeOK'
  BY <1>1 DEF CallInv, PlatformTypeOK, TaskTypeOK, platformVars
<1>5. CASE session' = session
  <2>1. SafetyInv'
    BY <1>1, <1>2, <1>5, FlagsKept
  <2>2. SessionTypeOK'
    BY <1>1, <1>5 DEF CallInv, SessionTypeOK
  <2> QED
    BY <1>3, <1>4, <2>1, <2>2 DEF CallInv
<1>6. CASE session' = Set(session, {"wsUsed"}) /\ ~Ended
  <2>1. /\ session' \in [Flags -> BOOLEAN]
        /\ \A f \in Flags : session'[f] <=> (f \in {"wsUsed"} \/ session[f])
    BY <1>6, CallInvParts, FlagsSet
  <2>2. SessionTypeOK'
    BY <1>1, <2>1 DEF CallInv, SessionTypeOK
  <2>3. reason' = "none" /\ ~Ended'
    BY <1>1, <1>6 DEF EndUnchanged, Ended
  <2>4. SafetyInv'
    BY <1>1, <1>6, <2>1, <2>3 DEF CallInv, SafetyInv, IndexFollowsRegistry, TimeoutMeansNoMedia,
       PendingHangUpIsTaken, EndInv, EndUnchanged, Flags
  <2> QED
    BY <1>3, <1>4, <2>2, <2>4 DEF CallInv
<1> QED
  BY <1>5, <1>6 DEF MediaArrives

(* The call loop from acquire to its clean-up.                             *)
LEMMA LoopStep == CallInv /\ (Acquire \/ LoopEnds \/ LoopCancelsConnect \/ LoopCleansUp) => CallInv'
<1> SUFFICES ASSUME CallInv, Acquire \/ LoopEnds \/ LoopCancelsConnect \/ LoopCleansUp
             PROVE  CallInv'
  OBVIOUS
<1>1. /\ UNCHANGED <<session, hangups, hangingUp, platformVars, answer, finalize>>
      /\ timers' \in {timers, timers \cup {"grace"}}
      /\ media' \in {"loop", "ending", "ended", "closed"}
  BY DEF Acquire, LoopEnds, LoopCancelsConnect, LoopCleansUp, sessionVars
<1>2. ReasonKept
  BY CallInvParts, RequestEndKeeps, UnchangedKeeps
     DEF Acquire, LoopEnds, LoopCancelsConnect, ConnectCancelled, LoopCleansUp, Reasons,
         EndUnchanged
<1>3. ConnTypeOK'
  <2>1. closer' \in [Closers -> Closer]
    BY CallInvParts, ClosersTyped DEF Acquire, LoopEnds, LoopCancelsConnect, ConnectCancelled,
       LoopCleansUp, ConnectionUnchanged, connVars, ConnTypeOK
  <2> QED
    BY <1>2, <2>1, CallInvParts DEF Acquire, LoopEnds, LoopCancelsConnect, ConnectCancelled,
       LoopCleansUp, ConnectionUnchanged, connVars, ConnTypeOK, ReasonKept
<1>4. SessionTypeOK' /\ PlatformTypeOK' /\ TaskTypeOK'
  BY <1>1 DEF CallInv, SessionTypeOK, PlatformTypeOK, TaskTypeOK, platformVars
<1>5. SafetyInv'
  BY <1>1, <1>2, FlagsKept
<1> QED
  BY <1>3, <1>4, <1>5 DEF CallInv

-----------------------------------------------------------------------------
(* Timers and the sweeper. *)

(* The media watchdog ends only a call without media.                      *)
LEMMA WatchdogStep == CallInv /\ WatchdogFires => CallInv'
<1> SUFFICES ASSUME CallInv, WatchdogFires PROVE CallInv'
  OBVIOUS
<1>1. /\ ConnectionUnchanged /\ timers' = timers \ {"watchdog"}
      /\ UNCHANGED <<session, hangups, hangingUp, platformVars, answer, media, finalize>>
  BY DEF WatchdogFires
<1>2. SessionTypeOK' /\ PlatformTypeOK' /\ TaskTypeOK'
  BY <1>1 DEF CallInv, SessionTypeOK, PlatformTypeOK, TaskTypeOK, platformVars
<1>3. CASE ReasonKept
  <2>1. ConnTypeOK'
    BY <1>1, <1>3, CallInvParts, ConnKept
  <2>2. SafetyInv'
    BY <1>1, <1>3, FlagsKept
  <2> QED
    BY <1>2, <2>1, <2>2 DEF CallInv
<1>4. CASE ~Ended /\ ~session["wsUsed"] /\ RequestEnd("media_timeout")
  <2>1. reason' = "media_timeout" /\ terminate' = "start"
    BY <1>4 DEF RequestEnd
  <2>2. ConnTypeOK'
    BY <1>1, <2>1, CallInvParts DEF ConnTypeOK, ConnectionUnchanged, connVars, Reasons
  <2>3. SafetyInv'
    BY <1>1, <1>4, <2>1 DEF CallInv, SafetyInv, IndexFollowsRegistry, TimeoutMeansNoMedia,
       PendingHangUpIsTaken, EndInv, Ended
  <2> QED
    BY <1>2, <2>2, <2>3 DEF CallInv
<1>5. ReasonKept \/ (~Ended /\ ~session["wsUsed"] /\ RequestEnd("media_timeout"))
  <2>1. CASE EndUnchanged
    BY <2>1, CallInvParts, UnchangedKeeps
  <2>2. CASE ~session["wsUsed"] /\ RequestEnd("media_timeout") /\ Ended
    BY <2>2, CallInvParts, UnchangedKeeps DEF RequestEnd, EndUnchanged
  <2> QED
    BY <2>1, <2>2 DEF WatchdogFires
<1> QED
  BY <1>3, <1>4, <1>5

(* The grace period after the media socket closed.                         *)
LEMMA GraceStep == CallInv /\ GraceExpires => CallInv'
<1> SUFFICES ASSUME CallInv, GraceExpires PROVE CallInv'
  OBVIOUS
<1>1. ReasonKept
  BY CallInvParts, RequestEndKeeps, UnchangedKeeps DEF GraceExpires, Reasons
<1>2. ConnTypeOK'
  BY <1>1, CallInvParts, ConnKept DEF GraceExpires
<1>3. SessionTypeOK' /\ PlatformTypeOK' /\ TaskTypeOK'
  BY DEF GraceExpires, CallInv, SessionTypeOK, PlatformTypeOK, TaskTypeOK, platformVars
<1>4. SafetyInv'
  BY <1>1, FlagsKept DEF GraceExpires
<1> QED
  BY <1>2, <1>3, <1>4 DEF CallInv

(* The safety timer hangs up only a session that has ended.                *)
LEMMA SafetyStep == CallInv /\ SafetyFires => CallInv'
<1> SUFFICES ASSUME CallInv, SafetyFires PROVE CallInv'
  OBVIOUS
<1>1. EndUnchanged /\ Ended
  BY DEF SafetyFires, CallInv, SafetyInv, EndInv
<1>2. ReasonKept
  BY <1>1, CallInvParts, UnchangedKeeps
<1>3. ConnTypeOK'
  BY <1>2, CallInvParts, ConnKept DEF SafetyFires
<1>4. session' \in [Flags -> BOOLEAN] /\ hangingUp' \in BOOLEAN /\ SafetyInv'
  <2>1. CASE SafeHangUp(session)
    BY <1>1, <1>2, <2>1, HangUpSafe
  <2>2. CASE UNCHANGED <<session, hangingUp>>
    BY <1>2, <2>2, CallInvParts, FlagsKept DEF SafetyFires, SessionTypeOK
  <2> QED
    BY <2>1, <2>2 DEF SafetyFires
<1>5. SessionTypeOK' /\ PlatformTypeOK' /\ TaskTypeOK'
  BY <1>4 DEF SafetyFires, CallInv, SessionTypeOK, PlatformTypeOK, TaskTypeOK, platformVars
<1> QED
  BY <1>3, <1>4, <1>5 DEF CallInv

(* The sweep ends a session before it forgets it.                          *)
LEMMA SweepStep == CallInv /\ Sweep => CallInv'
<1> SUFFICES ASSUME CallInv, Sweep PROVE CallInv'
  OBVIOUS
<1>1. ReasonKept /\ reason' # "none"
  BY CallInvParts, RequestEndKeeps DEF Sweep, Reasons
<1>2. ConnTypeOK'
  BY <1>1, CallInvParts, ConnKept DEF Sweep
<1>3. session' \in [Flags -> BOOLEAN] /\ SafetyInv'
  BY <1>1, RemovalSafe DEF Sweep, Ended
<1>4. SessionTypeOK' /\ PlatformTypeOK' /\ TaskTypeOK'
  BY <1>3 DEF Sweep, CallInv, SessionTypeOK, PlatformTypeOK, TaskTypeOK, Sources, platformVars
<1> QED
  BY <1>2, <1>3, <1>4 DEF CallInv

-----------------------------------------------------------------------------
(* _terminate, the hang-ups and _finalize. *)

(* _terminate moves on in a session that has ended.                        *)
LEMMA TerminateKeeps ==
  ASSUME CallInv, terminate # "none", UNCHANGED reason,
         terminate' \in {"start", "answered", "connected", "play", "done"}
  PROVE  ReasonKept /\ Ended
BY DEF CallInv, ConnTypeOK, SafetyInv, EndInv, ReasonKept, Ended

(* _terminate closes Voice Live and hangs up or waits.                     *)
LEMMA TerminateStartsStep == CallInv /\ TerminateStarts => CallInv'
<1> SUFFICES ASSUME CallInv, TerminateStarts PROVE CallInv'
  OBVIOUS
<1>1. ReasonKept /\ Ended
  BY TerminateKeeps DEF TerminateStarts, HangUpOr
<1>2. ConnTypeOK'
  <2>1. closer' \in [Closers -> Closer]
    BY CallInvParts, ClosersTyped DEF TerminateStarts, ConnTypeOK
  <2> QED
    BY <1>1, <2>1, CallInvParts DEF TerminateStarts, ConnTypeOK, ReasonKept
<1>3. session' \in [Flags -> BOOLEAN] /\ hangingUp' \in BOOLEAN /\ SafetyInv'
  <2>1. CASE SafeHangUp(session)
    BY <1>1, <2>1, HangUpSafe
  <2>2. CASE UNCHANGED <<session, hangingUp>>
    BY <1>1, <2>2, CallInvParts, FlagsKept DEF TerminateStarts, SessionTypeOK
  <2> QED
    BY <2>1, <2>2 DEF TerminateStarts, HangUpOr
<1>4. SessionTypeOK' /\ PlatformTypeOK' /\ TaskTypeOK'
  BY <1>3 DEF TerminateStarts, CallInv, SessionTypeOK, PlatformTypeOK, TaskTypeOK, platformVars
<1> QED
  BY <1>2, <1>3, <1>4 DEF CallInv

(* The waits of _terminate end with the message, a hang-up or nothing.     *)
LEMMA TerminateWaitsStep == CallInv /\ TerminateWaits => CallInv'
<1> SUFFICES ASSUME CallInv, TerminateWaits PROVE CallInv'
  OBVIOUS
<1>1. ReasonKept /\ Ended
  BY TerminateKeeps DEF TerminateWaits, HangUpOr
<1>2. Ended' /\ reason' = reason
  BY <1>1 DEF ReasonKept, Ended
<1>3. ConnTypeOK'
  BY <1>1, CallInvParts, ConnKept DEF TerminateWaits
<1>4. session' \in [Flags -> BOOLEAN] /\ hangingUp' \in BOOLEAN /\ SafetyInv'
  <2>1. CASE SafeHangUp(session)
    BY <1>1, <2>1, HangUpSafe
  <2>2. CASE UNCHANGED <<session, hangingUp>>
    BY <1>1, <1>2, <2>2, CallInvParts, FlagsKept DEF TerminateWaits, SessionTypeOK
  <2>3. CASE session' = Set(session, {"hangUpAfterPlay"}) /\ UNCHANGED hangingUp
    <3>1. /\ session' \in [Flags -> BOOLEAN]
          /\ \A f \in Flags : session'[f] <=> (f \in {"hangUpAfterPlay"} \/ session[f])
      BY <2>3, CallInvParts, FlagsSet
    <3>2. IndexFollowsRegistry' /\ TimeoutMeansNoMedia' /\ PendingHangUpIsTaken'
      BY <1>2, <2>3, <3>1 DEF CallInv, SafetyInv, IndexFollowsRegistry, TimeoutMeansNoMedia,
         PendingHangUpIsTaken, Flags
    <3>3. EndInv'
      BY <1>2 DEF EndInv
    <3> QED
      BY <2>3, <3>1, <3>2, <3>3, CallInvParts DEF SafetyInv, SessionTypeOK
  <2> QED
    BY <2>1, <2>2, <2>3 DEF TerminateWaits, HangUpOr
<1>5. SessionTypeOK' /\ PlatformTypeOK' /\ TaskTypeOK'
  BY <1>4 DEF TerminateWaits, CallInv, SessionTypeOK, PlatformTypeOK, TaskTypeOK, platformVars
<1> QED
  BY <1>3, <1>4, <1>5 DEF CallInv

(* The message is accepted, or the session is hung up at once.             *)
LEMMA PlaysStep == CallInv /\ Plays => CallInv'
<1> SUFFICES ASSUME CallInv, Plays PROVE CallInv'
  OBVIOUS
<1>1. ReasonKept /\ Ended
  BY TerminateKeeps DEF Plays, HangUpOr
<1>2. ConnTypeOK'
  BY <1>1, CallInvParts, ConnKept DEF Plays
<1>3. session' \in [Flags -> BOOLEAN] /\ hangingUp' \in BOOLEAN /\ SafetyInv'
  <2>1. CASE SafeHangUp(session)
    BY <1>1, <2>1, HangUpSafe
  <2>2. CASE UNCHANGED <<session, hangingUp, timers>>
    BY <1>1, <2>2, CallInvParts, FlagsKept DEF Plays, SessionTypeOK
  <2> QED
    BY <2>1, <2>2 DEF Plays, HangUpOr
<1>4. timers' \subseteq timers /\ callbacks' \subseteq callbacks \cup {"played"}
  BY DEF Plays, SafetyCancelled, Post
<1>5. SessionTypeOK' /\ PlatformTypeOK' /\ TaskTypeOK'
  BY <1>3, <1>4 DEF Plays, CallInv, SessionTypeOK, PlatformTypeOK, TaskTypeOK
<1> QED
  BY <1>2, <1>3, <1>5 DEF CallInv

(* A hang-up task runs only in a session that has ended.                   *)
LEMMA HangUpTaskStep == CallInv /\ HangUpTask => CallInv'
<1> SUFFICES ASSUME CallInv, NEW src \in Sources, RunHangUp(src) PROVE CallInv'
  BY DEF HangUpTask
<1>1. EndUnchanged /\ Ended
  BY DEF RunHangUp, CallInv, SafetyInv, EndInv
<1>2. ReasonKept
  BY <1>1, CallInvParts, UnchangedKeeps
<1>3. ConnTypeOK'
  BY <1>2, CallInvParts, ConnKept DEF RunHangUp
<1>4. session' \in [Flags -> BOOLEAN] /\ hangingUp' \in BOOLEAN /\ SafetyInv'
  BY <1>1, <1>2, HangUpSafe DEF RunHangUp
<1>5. SessionTypeOK' /\ PlatformTypeOK' /\ TaskTypeOK'
  BY <1>4 DEF RunHangUp, CallInv, SessionTypeOK, PlatformTypeOK, TaskTypeOK, platformVars
<1> QED
  BY <1>3, <1>4, <1>5 DEF CallInv

(* Two counts whose sum is below a bound are below it.                     *)
LEMMA SummandsBelow ==
  \A a, b, n \in Nat : a + b < n => a < n /\ b < n
OBVIOUS

(* hang_up returns or fails; a failure counts once.                        *)
LEMMA HangUpReturnsStep == CallInv /\ HangUpReturns => CallInv'
<1> SUFFICES ASSUME CallInv, HangUpReturns PROVE CallInv'
  OBVIOUS
<1>1. /\ EndUnchanged /\ ConnectionUnchanged /\ hangingUp /\ hangingUp' = FALSE
      /\ UNCHANGED <<timers, hangups, route, answer, media, finalize>>
  BY DEF HangUpReturns
<1>2. ReasonKept /\ reason' = reason
  BY <1>1, CallInvParts, UnchangedKeeps DEF EndUnchanged
<1>3. ConnTypeOK'
  BY <1>1, <1>2, CallInvParts, ConnKept
<1>4. /\ session' \in [Flags -> BOOLEAN]
      /\ \A f \in Flags : session'[f] => session[f]
      /\ \A f \in Flags \ {"hungUp"} : session'[f] <=> session[f]
  <2>1. CASE session' = session
    BY <2>1, CallInvParts
  <2>2. CASE session' = Clear(session, {"hungUp"})
    BY <2>2, CallInvParts, FlagsCleared
  <2> QED
    BY <2>1, <2>2 DEF HangUpReturns
<1>5. PlatformTypeOK'
  <2>1. CASE call' = "gone" /\ UNCHANGED failures
    BY <1>1, <2>1 DEF HangUpReturns, HangUpFails, Post, CallInv, PlatformTypeOK
  <2>2. CASE HangUpFails
    <3>1. session["registered"] \in BOOLEAN
      BY CallInvParts DEF Flags
    <3>2. \A k \in BOOLEAN : failures[k] \in Nat /\ failures[k] <= MaxFailures
      BY FailuresAssumption DEF CallInv, PlatformTypeOK
    <3>3. failures[session["registered"]] + 1 \in 0..MaxFailures
      <4>1. failures[TRUE] + failures[FALSE] < MaxFailures
        BY <2>2 DEF HangUpFails
      <4>2. \A k \in BOOLEAN : failures[k] < MaxFailures
        <5>1. failures[TRUE] \in Nat /\ failures[FALSE] \in Nat
          BY <3>2
        <5>2. failures[TRUE] < MaxFailures /\ failures[FALSE] < MaxFailures
          BY <4>1, <5>1, FailuresAssumption, SummandsBelow, Zenon
        <5>3. TAKE k \in BOOLEAN
        <5>4. k = TRUE \/ k = FALSE
          OBVIOUS
        <5> QED
          BY <5>2, <5>4
      <4> QED
        BY <3>1, <3>2, <4>2, FailuresAssumption
    <3>4. failures' \in [BOOLEAN -> 0..MaxFailures]
      BY <2>2, <3>1, <3>3 DEF HangUpFails, CallInv, PlatformTypeOK
    <3> QED
      BY <1>1, <2>2, <3>4 DEF HangUpFails, CallInv, PlatformTypeOK
  <2> QED
    BY <2>1, <2>2 DEF HangUpReturns
<1>6. SessionTypeOK' /\ TaskTypeOK'
  BY <1>1, <1>4 DEF CallInv, SessionTypeOK, TaskTypeOK
<1>7. SafetyInv'
  BY <1>1, <1>2, <1>4 DEF CallInv, SafetyInv, IndexFollowsRegistry, TimeoutMeansNoMedia,
     PendingHangUpIsTaken, EndInv, EndUnchanged, Ended, Flags
<1> QED
  BY <1>3, <1>5, <1>6, <1>7 DEF CallInv

(* _finalize closes Voice Live and forgets the session.                    *)
LEMMA FinalizeStep == CallInv /\ (FinalizeStarts \/ FinalizeEnds) => CallInv'
<1> SUFFICES ASSUME CallInv, FinalizeStarts \/ FinalizeEnds PROVE CallInv'
  OBVIOUS
<1>1. /\ EndUnchanged /\ UNCHANGED <<connect, voice, socket>>
      /\ UNCHANGED <<timers, hangups, hangingUp, platformVars, answer, media>>
      /\ finalize' \in {"await", "done"}
      /\ session' \in {session, Removed(session)}
      /\ closer' \in {closer, EnsureClosed(closer)}
  BY DEF FinalizeStarts, FinalizeEnds, ConnectionUnchanged, connVars
<1>2. ReasonKept
  BY <1>1, CallInvParts, UnchangedKeeps
<1>3. ConnTypeOK'
  <2>1. closer' \in [Closers -> Closer]
    BY <1>1, CallInvParts, ClosersTyped DEF ConnTypeOK
  <2> QED
    BY <1>1, <1>2, <2>1, CallInvParts DEF ConnTypeOK, ReasonKept
<1>4. session' \in [Flags -> BOOLEAN] /\ SafetyInv'
  BY <1>1, <1>2, CallInvParts, FlagsKept, RemovalSafe
<1>5. SessionTypeOK' /\ PlatformTypeOK' /\ TaskTypeOK'
  BY <1>1, <1>4 DEF CallInv, SessionTypeOK, PlatformTypeOK, TaskTypeOK, platformVars
<1> QED
  BY <1>3, <1>4, <1>5 DEF CallInv

-----------------------------------------------------------------------------
(* The theorems. *)

(* The invariant holds initially.                                          *)
LEMMA InitHolds == Init => CallInv
<1> SUFFICES ASSUME Init PROVE CallInv
  OBVIOUS
<1>1. ConnTypeOK
  BY DEF Init, ConnInit, ConnTypeOK, Reasons, Voice, Closers, Closer
<1>2. session \in [Flags -> BOOLEAN] /\ \A f \in Flags : session[f] <=> f = "registered"
  BY DEF Init
<1>3. SessionTypeOK /\ TaskTypeOK
  BY <1>2 DEF Init, SessionTypeOK, TaskTypeOK
<1>4. PlatformTypeOK
  BY FailuresAssumption DEF Init, PlatformTypeOK
<1>5. SafetyInv
  BY <1>2 DEF Init, ConnInit, SafetyInv, IndexFollowsRegistry, TimeoutMeansNoMedia,
     PendingHangUpIsTaken, EndInv, Flags
<1> QED
  BY <1>1, <1>3, <1>4, <1>5 DEF CallInv

(* Every step keeps the invariant.                                         *)
LEMMA NextKeeps == CallInv /\ [Next]_vars => CallInv'
<1> SUFFICES ASSUME CallInv, [Next]_vars PROVE CallInv'
  OBVIOUS
<1>1. CASE Platform
  BY <1>1, CallStep, CallbackStep DEF Platform
<1>2. CASE Voicelive
  BY <1>2, VoiceliveStep
<1>3. CASE Media
  BY <1>3, MediaArrivesStep, LoopStep DEF Media
<1>4. CASE Timer
  BY <1>4, WatchdogStep, GraceStep, SafetyStep DEF Timer
<1>5. CASE Ending
  BY <1>5, TerminateStartsStep, TerminateWaitsStep, PlaysStep, HangUpReturnsStep, FinalizeStep
     DEF Ending
<1>6. CASE HangUpTask
  BY <1>6, HangUpTaskStep
<1>7. CASE Sweep
  BY <1>7, SweepStep
<1>8. CASE AnswerReturns \/ AnswerFails
  BY <1>8, AnswerReturnsStep, AnswerFailsStep
<1>9. CASE UNCHANGED vars
  <2>1. EndUnchanged /\ ConnectionUnchanged /\ SessionUnchanged
    BY <1>9 DEF vars, EndUnchanged, ConnectionUnchanged, SessionUnchanged
  <2>2. ReasonKept
    BY <2>1, CallInvParts, UnchangedKeeps
  <2> QED
    BY <2>1, <2>2, CallInvParts, ConnKept, SessionKept
<1> QED
  BY <1>1, <1>2, <1>3, <1>4, <1>5, <1>6, <1>7, <1>8, <1>9 DEF Next

(* The inductive invariant of one ACS call.                                *)
THEOREM CallInvHolds == Spec => []CallInv
<1>1. Init => CallInv
  BY InitHolds
<1>2. CallInv /\ [Next]_vars => CallInv'
  BY NextKeeps
<1> QED
  BY <1>1, <1>2, PTL DEF Spec

(* Every flag, timer, task and reference of a call keeps its type.         *)
THEOREM TypeCorrect == Spec => []TypeOK
<1>1. CallInv => TypeOK
  BY DEF CallInv, SessionTypeOK, PlatformTypeOK, TaskTypeOK, TypeOK
<1> QED
  BY <1>1, CallInvHolds, PTL

(* The connection index never outlives the session's own entry.            *)
THEOREM NothingStaysIndexed == Spec => []IndexFollowsRegistry
<1>1. CallInv => IndexFollowsRegistry
  BY DEF CallInv, SafetyInv
<1> QED
  BY <1>1, CallInvHolds, PTL

(* A caller whose media arrived is never told that media timed out.        *)
THEOREM NoFalseTimeout == Spec => []TimeoutMeansNoMedia
<1>1. CallInv => TimeoutMeansNoMedia
  BY DEF CallInv, SafetyInv
<1> QED
  BY <1>1, CallInvHolds, PTL

(* Only an ended session is hung up, and the answer takes a hang-up kept   *)
(* for it.                                                                 *)
THEOREM HangUpsAreKept == Spec => []PendingHangUpIsTaken
<1>1. CallInv => PendingHangUpIsTaken
  BY DEF CallInv, SafetyInv
<1> QED
  BY <1>1, CallInvHolds, PTL

(* No step changes the reason of a session that has ended.                 *)
LEMMA ReasonStays == ASSUME CallInv, [Next]_vars, Ended PROVE reason' = reason
BY DEF Next, vars, Platform, PlatformConnects, CallerHangsUp, Callback, MarkConnected,
       OnCallDisconnected, OnPlayDone, Voicelive, Connecting, ConnectStart, HandshakeDone,
       ConnectFails, SetupDone, LateAwaited, LateStarts, LateCloses, VoiceLiveDrops, Closing,
       CleanupStart, ReceiverStopped, ContextExited, OrphanClosed, CloseTimesOut, Media,
       MediaArrives, Acquire, LoopEnds, LoopCancelsConnect, ConnectCancelled, LoopCleansUp, Timer,
       WatchdogFires, GraceExpires, SafetyFires, Ending, TerminateStarts, TerminateWaits, Plays,
       HangUpTask, RunHangUp, HangUpReturns, FinalizeStarts, FinalizeEnds, Sweep, AnswerReturns,
       AnswerFails, RequestEnd, EndUnchanged

(* The reason a call ended for is set once.                                *)
THEOREM OneReason == Spec => EndsOnce
<1>1. CallInv /\ [Next]_vars => [Ended => reason' = reason]_reason
  BY ReasonStays
<1> QED
  BY <1>1, CallInvHolds, PTL DEF Spec, EndsOnce
=============================================================================
