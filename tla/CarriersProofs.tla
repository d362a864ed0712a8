--------------------------- MODULE CarriersProofs ---------------------------
(***************************************************************************)
(* The places of the CallManager and the Voice Live connections of a call  *)
(* are never leaked, a Twilio call loses no message, and an interruption   *)
(* silences, for every number of sockets and places and every carrier.     *)
(***************************************************************************)
EXTENDS Carriers, FiniteSetTheorems, TLAPS

-----------------------------------------------------------------------------
(* The buffers. *)

(* What is taken off a buffer, and what stays, was in it. *)
LEMMA PartsShrink ==
  ASSUME NEW buffer, NEW p \in Parts(buffer)
  PROVE  p.chunk \subseteq buffer /\ p.rest \subseteq buffer
  BY DEF Parts

(* All there is of the agent's audio. *)
Speech(a) == a.tts \cup a.out \cup a.hand \cup a.peer

(* Mixing speech into the ambient sound only empties the shared buffer. *)
LEMMA MixedTyped ==
  ASSUME NEW a \in Audio, NEW k, NEW b \in Mixed(a, k)
  PROVE  /\ b \in Audio /\ b.tts \subseteq a.tts /\ b.peer = a.peer
         /\ b.receiver = a.receiver /\ b.lost = a.lost /\ Speech(b) \subseteq Speech(a)
<1>1. CASE b = a
  BY <1>1
<1>2. ASSUME NEW p \in Parts(a.tts),
             b = IF Paced(k) THEN [a EXCEPT !.tts = p.rest, !.out = @ \cup p.chunk]
                             ELSE [a EXCEPT !.tts = p.rest, !.hand = p.chunk]
      PROVE  /\ b \in Audio /\ b.tts \subseteq a.tts /\ b.peer = a.peer
             /\ b.receiver = a.receiver /\ b.lost = a.lost /\ Speech(b) \subseteq Speech(a)
  <2>1. p.chunk \subseteq a.tts /\ p.rest \subseteq a.tts
    BY PartsShrink
  <2>2. CASE Paced(k)
    BY <1>2, <2>1, <2>2 DEF Audio, Speech
  <2>3. CASE ~Paced(k)
    BY <1>2, <2>1, <2>3 DEF Audio, Speech
  <2>. QED  BY <2>2, <2>3
<1>. QED  BY <1>1, <1>2 DEF Mixed

(* What an answered frame leaves as it was. *)
Answers(a, b, on) ==
  /\ b \in Audio /\ b.tts \subseteq a.tts /\ b.peer = a.peer
  /\ b.receiver = a.receiver /\ b.lost = a.lost /\ Speech(b) \subseteq Speech(a)
  /\ ~on => b = a

LEMMA AnsweredTyped ==
  ASSUME NEW a \in Audio, NEW k, NEW on \in BOOLEAN, NEW connected,
         NEW b \in Answered(a, k, on, connected)
  PROVE  Answers(a, b, on)
<1>1. CASE b \in Mixed(a, k) /\ on
  BY <1>1, MixedTyped DEF Answers
<1>2. CASE b = a
  BY <1>2 DEF Answers
<1>. QED  BY <1>1, <1>2 DEF Answered

(* A frame of the caller's audio adds nothing to what is to be said. With  *)
(* no ambient sound only a paced carrier is sent anything for it.          *)
LEMMA FrameTyped ==
  ASSUME NEW a \in Audio, NEW k, NEW on \in BOOLEAN, NEW connected,
         NEW b \in Frame(a, k, on, connected)
  PROVE  /\ b \in Audio /\ b.tts \subseteq a.tts /\ b.peer = a.peer
         /\ b.receiver = a.receiver /\ b.lost = a.lost /\ Speech(b) \subseteq Speech(a)
         /\ ~on => b.out \subseteq a.out /\ (b.hand = a.hand \/ Paced(k))
<1>1. CASE b \in Answered(a, k, on, connected)
  BY <1>1, AnsweredTyped DEF Answers
<1>2. ASSUME Paced(k), NEW p \in Parts(a.out), b = [a EXCEPT !.out = p.rest, !.hand = p.chunk]
      PROVE  /\ b \in Audio /\ b.tts = a.tts /\ b.peer = a.peer /\ b.out \subseteq a.out
             /\ b.receiver = a.receiver /\ b.lost = a.lost /\ Speech(b) \subseteq Speech(a)
  <2>1. p.chunk \subseteq a.out /\ p.rest \subseteq a.out
    BY PartsShrink
  <2>. QED  BY <1>2, <2>1 DEF Audio, Speech
<1>. QED  BY <1>1, <1>2 DEF Frame

(* Nor does a send of the call loop's that returns: what was in hand is at *)
(* the carrier or lost.                                                    *)
LEMMA FrameSentTyped ==
  ASSUME NEW a \in Audio, NEW k, NEW on \in BOOLEAN, NEW connected,
         NEW b \in FrameSent(a, k, on, connected)
  PROVE  /\ b \in Audio /\ b.tts \subseteq a.tts /\ b.peer \subseteq a.peer \cup a.hand
         /\ b.receiver = a.receiver /\ b.lost = a.lost /\ Speech(b) \subseteq Speech(a)
         /\ ~on => b.out = a.out /\ b.hand = {}
<1>. DEFINE Landed(played) == [a EXCEPT !.hand = {}, !.peer = played]
<1>1. PICK played \in {a.peer, a.peer \cup a.hand} :
        b = Landed(played) \/ b \in Answered(Landed(played), k, on, connected)
  BY DEF FrameSent
<1>2. /\ Landed(played) \in Audio /\ Landed(played).tts = a.tts /\ Landed(played).out = a.out
      /\ Landed(played).peer \subseteq a.peer \cup a.hand /\ Landed(played).hand = {}
      /\ Landed(played).receiver = a.receiver /\ Landed(played).lost = a.lost
      /\ Speech(Landed(played)) \subseteq Speech(a)
  BY <1>1 DEF Audio, Speech
<1>. HIDE DEF Landed
<1>3. b = Landed(played) \/ Answers(Landed(played), b, on)
  BY <1>1, <1>2, AnsweredTyped
<1>. QED  BY <1>2, <1>3 DEF Answers

(* The receiver's send is done: only the carrier has more. *)
LEMMA DeltaSentTyped ==
  ASSUME NEW a \in Audio, NEW b \in DeltaSent(a)
  PROVE  /\ b \in Audio /\ b.tts = a.tts /\ b.out = a.out /\ b.hand = a.hand
         /\ b.peer \subseteq a.peer \cup {"new"} /\ b.receiver = "idle" /\ b.lost = a.lost
<1>1. PICK played \in {a.peer, a.peer \cup {"new"}} :
        b = [a EXCEPT !.receiver = "idle", !.peer = played]
  BY DEF DeltaSent
<1>. QED  BY <1>1 DEF Audio

(* A clear adds nothing, and empties the carrier unless it is lost. *)
LEMMA ClearedTyped ==
  ASSUME NEW a \in Audio, NEW k, NEW on \in BOOLEAN, NEW b \in Cleared(a, k, on)
  PROVE  /\ b \in Audio /\ b.tts \subseteq a.tts /\ b.out = a.out /\ b.hand = a.hand
         /\ b.peer \subseteq a.peer /\ b.receiver = "idle" /\ (b.lost \/ b.peer = {})
         /\ on /\ k # "sinch" => b.tts = {}
<1>. DEFINE sent   == [a EXCEPT !.peer = {}, !.receiver = "idle"]
            failed == [a EXCEPT !.lost = TRUE, !.receiver = "idle"]
<1>1. PICK c \in {sent, failed} : b = IF on /\ k # "sinch" THEN [c EXCEPT !.tts = {}] ELSE c
  BY Zenon DEF Cleared
<1>2. /\ c \in Audio /\ c.tts = a.tts /\ c.out = a.out /\ c.hand = a.hand
      /\ c.peer \subseteq a.peer /\ c.receiver = "idle" /\ (c.lost \/ c.peer = {})
  BY <1>1 DEF Audio
<1>. HIDE DEF sent, failed
<1>. QED  BY <1>1, <1>2 DEF Audio

(* The other operations on the audio of a call. *)
LEMMA OtherAudioTyped ==
  ASSUME NEW a \in Audio, NEW k, NEW on \in BOOLEAN
  PROVE  /\ Quiet \in Audio /\ Stop(a) \in Audio /\ SpeechStarts(a, k) \in Audio
         /\ Dropped(a) \in Audio /\ Delta(a, k, on) \in Audio
         /\ Cleared(a, k, on) \subseteq Audio /\ DeltaSent(a) \subseteq Audio
<1>1. Quiet \in Audio /\ Stop(a) \in Audio /\ Dropped(a) \in Audio
  BY DEF Quiet, Stop, Dropped, Audio
<1>2. SpeechStarts(a, k) \in Audio /\ Delta(a, k, on) \in Audio
  BY DEF SpeechStarts, Delta, Interrupted, Audio
<1>3. DeltaSent(a) \subseteq Audio
  BY DeltaSentTyped
<1>4. Cleared(a, k, on) \subseteq Audio
  BY ClearedTyped
<1>. QED  BY <1>1, <1>2, <1>3, <1>4

-----------------------------------------------------------------------------
(* The inductive invariant. *)

Pcs == {"new", "start", "loop", "receive", "stopping", "closeWait",
        "cleanup", "background", "cut", "done"}
Links == {"none", "created", "handshake", "setup", "done", "failed", "cancelled"}
Voices == {"none", "open", "up", "down", "closed"}

(* The types of the parts, without the bounds. *)
Typed ==
  /\ kind \in Kinds /\ ambient \in BOOLEAN
  /\ task \in [Socket -> Pcs]
  /\ link \in [Socket -> Links]
  /\ voice \in [Socket -> Voices]
  /\ left \in [Socket -> BOOLEAN]
  /\ ended \in [Socket -> BOOLEAN] /\ kept \in [Socket -> BOOLEAN]
  /\ open \in [Socket -> BOOLEAN] /\ paused \in [Socket -> BOOLEAN]
  /\ beats \in [Socket -> BOOLEAN]
  /\ recv \in [Socket -> {"none", "waiting", "landed"}]
  /\ owed \in [Socket -> Nat]
  /\ audio \in [Socket -> Audio]

(* A place is taken by the sockets between their acquire and their release. *)
Places ==
  /\ calls = {CallId[s] : s \in {t \in Socket : HoldsPlace(t)}}
  /\ IsFiniteSet(calls) /\ Cardinality(calls) <= MaxConcurrent

(* What a socket that has not begun, or is over, has of a connection.      *)
Connection(s) ==
  /\ Linking(s) => HoldsPlace(s)
  /\ task[s] \in {"new", "start", "done"} => voice[s] \in {"none", "closed"} /\ ~beats[s]
  /\ task[s] = "cut" => kind # "twilio"

(* A message is owed exactly while the receive, or the session, has it.    *)
Has(s) == kept[s] \/ recv[s] = "landed"

Messages(s) ==
  /\ kind = "twilio" /\ InLoop(s) => owed[s] = IF Has(s) THEN 1 ELSE 0
  /\ kind # "twilio" \/ task[s] \in {"new", "start"} =>
       owed[s] = 0 /\ ~kept[s] /\ recv[s] = "none"
  /\ task[s] # "receive" => recv[s] = "none"
  /\ task[s] = "receive" => ~kept[s]
  /\ owed[s] <= 1

(* Old audio, in the buffers that an interruption does empty, and new      *)
(* audio, which a clear must not drop. Without ambient sound the receiver  *)
(* alone sends to a carrier that is not paced, and it is waiting.          *)
Hushed(a) ==
  /\ a.receiver = "clear" => "new" \notin Speech(a)
  /\ a.receiver # "clear" /\ kind \notin {"sinch", "infobip", "genesys"} => "old" \notin a.tts
  /\ ~ambient => a.tts = {} /\ "old" \notin a.out
  /\ ~ambient /\ ~Paced(kind) =>
       a.hand = {} /\ (a.receiver # "clear" /\ ~a.lost => "old" \notin a.peer)

Silence(s) == Hushed(audio[s])

CarriersInv ==
  /\ Typed /\ Places
  /\ \A s \in Socket : Connection(s) /\ Messages(s) /\ Silence(s)

(* Every step of a call keeps the types of the parts. A message is handled *)
(* only when it is owed, so that the count never goes below zero.          *)
LEMMA TypedStep == CarriersInv /\ [Next]_vars => Typed'
<1> SUFFICES ASSUME CarriersInv, [Next]_vars PROVE Typed'
  OBVIOUS
<1>. USE DEF CarriersInv, Typed, process, protocol, twilio, Pcs, Links, Voices
<1>1. ASSUME NEW s \in Socket, Connects(s) PROVE Typed'
  BY <1>1, OtherAudioTyped DEF Connects, EnterLoop, Acquire, GoTo
<1>2. ASSUME NEW s \in Socket, Authenticated(s) PROVE Typed'
  BY <1>2, OtherAudioTyped DEF Authenticated, EnterLoop, Acquire, GoTo
<1>3. ASSUME NEW s \in Socket, Rejected(s) PROVE Typed'
  BY <1>3, OtherAudioTyped DEF Rejected, Refused, GoTo
<1>4. ASSUME NEW s \in Socket, ConnectStarts(s) PROVE Typed'
  BY <1>4, OtherAudioTyped DEF ConnectStarts
<1>5. ASSUME NEW s \in Socket, Connected(s) PROVE Typed'
  BY <1>5, OtherAudioTyped DEF Connected, HandshakeDone, SetupDone
<1>6. ASSUME NEW s \in Socket, ConnectFails(s) PROVE Typed'
  <2>1. audio[s] \in Audio /\ Stop(audio[s]) \in Audio
    BY OtherAudioTyped
  <2>. QED
    BY <1>6, <2>1 DEF ConnectFails, LinkFails, RequestEnd, Play
<1>7. ASSUME NEW s \in Socket, NoticesFailure(s) PROVE Typed'
  BY <1>7, OtherAudioTyped DEF NoticesFailure, LeavesLoop, Play, GoTo
<1>8. ASSUME NEW s \in Socket, Expires(s) PROVE Typed'
  BY <1>8, OtherAudioTyped DEF Expires, RequestEnd, LeavesLoop, Play, GoTo
<1>9. ASSUME NEW s \in Socket, Receives(s) PROVE Typed'
  <2>1. audio' = audio \/ Play(s, Quiet)
    BY <1>9 DEF Receives
  <2>2. audio' \in [Socket -> Audio]
    BY <2>1, OtherAudioTyped DEF Play
  <2>. QED  BY <1>9, <2>2 DEF Receives, Receive, GoTo
<1>10. ASSUME NEW s \in Socket, ReceiveTimesOut(s) PROVE Typed'
  BY <1>10, OtherAudioTyped DEF ReceiveTimesOut, TimesOut, GoTo
<1>11. ASSUME NEW s \in Socket, CallEnded(s) PROVE Typed'
  <2>1. audio' \in [Socket -> Audio]
    BY <1>11, OtherAudioTyped DEF CallEnded, LeavesLoop, Play
  <2>. QED  BY <1>11, <2>1 DEF CallEnded, WakesEnded, GoTo
<1>12. ASSUME NEW s \in Socket, ConnectTaskStops(s) PROVE Typed'
  BY <1>12, OtherAudioTyped DEF ConnectTaskStops, Stopped, Release, GoTo
<1>13. ASSUME NEW s \in Socket, SocketClosed(s) PROVE Typed'
  BY <1>13, OtherAudioTyped DEF SocketClosed, GoTo
<1>14. ASSUME NEW s \in Socket, MessageLands(s) PROVE Typed'
  BY <1>14, OtherAudioTyped DEF MessageLands, Lands
<1>15. ASSUME NEW s \in Socket, Message(s) PROVE Typed'
  <2>1. owed' \in [Socket -> Nat] /\ recv' \in [Socket -> {"none", "waiting", "landed"}]
    <3>1. CASE kind # "twilio"
      BY <1>15, <3>1 DEF Message
    <3>2. CASE kind = "twilio"
      <4>1. Returns(s) /\ owed[s] = 1
        BY <1>15, <3>2 DEF Message, Returns, Messages, InLoop, Has
      <4>. QED  BY <4>1 DEF Returns
    <3>. QED  BY <3>1, <3>2
  <2>2. ended' \in [Socket -> BOOLEAN] /\ kept' \in [Socket -> BOOLEAN]
    BY <1>15 DEF Message
  <2>3. task' \in [Socket -> Pcs]
    BY <1>15 DEF Message, LeavesLoop, GoTo
  <2>4. /\ open' \in [Socket -> BOOLEAN] /\ paused' \in [Socket -> BOOLEAN]
        /\ beats' \in [Socket -> BOOLEAN] /\ audio' \in [Socket -> Audio]
    <3>1. CASE HearsFrame(s)
      <4>1. PICK a \in Frame(audio[s], kind, ambient, voice[s] = "up") : Play(s, a)
        BY <3>1 DEF HearsFrame
      <4>2. a \in Audio
        BY FrameTyped
      <4>. QED  BY <3>1, <4>1, <4>2 DEF HearsFrame, Play
    <3>2. CASE _handle_connect(s) \/ _handle_connected(s) \/ _handle_open(s)
      BY <3>2 DEF _handle_connect, _handle_connected, _handle_open, Opened
    <3>3. CASE _handle_close(s) \/ _handle_pause(s) \/ _handle_resume(s)
      BY <3>3 DEF _handle_close, _handle_pause, _handle_resume
    <3>4. CASE UNCHANGED <<protocol, audio>>
      BY <3>4
    <3>5. CASE LeavesLoop(s) /\ UNCHANGED protocol
      BY <3>5, OtherAudioTyped DEF LeavesLoop, Play
    <3>. QED  BY <1>15, <3>1, <3>2, <3>3, <3>4, <3>5 DEF Message, on_message
  <2>. QED
    BY <1>15, <2>1, <2>2, <2>3, <2>4 DEF Message
<1>16. ASSUME NEW s \in Socket, AgentSpeaks(s) PROVE Typed'
  BY <1>16, OtherAudioTyped DEF AgentSpeaks, Play
<1>17. ASSUME NEW s \in Socket, CallerSpeaks(s) PROVE Typed'
  BY <1>17, OtherAudioTyped DEF CallerSpeaks, Play
<1>18. ASSUME NEW s \in Socket, ClearLeaves(s) PROVE Typed'
  <2>1. PICK a \in Cleared(audio[s], kind, ambient) : Play(s, a)
    BY <1>18 DEF ClearLeaves
  <2>2. a \in Audio
    BY OtherAudioTyped
  <2>. QED  BY <1>18, <2>1, <2>2 DEF ClearLeaves, Play
<1>19. ASSUME NEW s \in Socket, ResponsesFail(s) PROVE Typed'
  <2>1. audio[s] \in Audio /\ Stop(audio[s]) \in Audio
    BY OtherAudioTyped
  <2>. QED
    BY <1>19, <2>1 DEF ResponsesFail, RequestEnd, StopAudio, Play
<1>20. ASSUME NEW s \in Socket, VoiceLiveDrops(s) PROVE Typed'
  <2>1. Dropped(audio[s]) \in Audio
    BY OtherAudioTyped
  <2>. QED
    BY <1>20, <2>1 DEF VoiceLiveDrops, RequestEnd, Play
<1>21. ASSUME NEW s \in Socket, CarrierPlays(s) PROVE Typed'
  <2>1. PICK p \in Parts(audio[s].peer) : Play(s, [audio[s] EXCEPT !.peer = p.rest])
    BY <1>21 DEF CarrierPlays
  <2>2. audio[s] \in Audio /\ p.rest \subseteq audio[s].peer
    BY PartsShrink
  <2>3. [audio[s] EXCEPT !.peer = p.rest] \in Audio
    BY <2>2 DEF Audio
  <2>. QED
    BY <1>21, <2>1, <2>3 DEF CarrierPlays, Play
<1>22. ASSUME NEW s \in Socket, Disconnects(s) PROVE Typed'
  <2>1. /\ left' = [left EXCEPT ![s] = TRUE] /\ recv' = [recv EXCEPT ![s] = "none"]
        /\ UNCHANGED <<process, calls, link, voice, ended, kept, owed, protocol>>
    BY <1>22 DEF Disconnects
  <2>2. task[s] \in {"start", "loop", "receive", "stopping", "closeWait", "cleanup"}
    BY <1>22 DEF Disconnects
  <2>3. /\ audio' = audio \/ Play(s, Quiet)
        /\ task' = task \/ \E pc \in Pcs : GoTo(s, pc)
    BY <1>22, <2>2, Zenon DEF Disconnects, LeavesLoop, InLoop, Refused
  <2>4. audio' \in [Socket -> Audio]
    BY <2>3, OtherAudioTyped DEF Play
  <2>5. task' \in [Socket -> Pcs]
    BY <2>3 DEF GoTo
  <2>. QED
    BY <2>1, <2>4, <2>5
<1>23. ASSUME NEW s \in Socket, CleanupIsCut(s) PROVE Typed'
  <2>1. link' \in [Socket -> Links] /\ voice' \in [Socket -> Voices]
    BY <1>23 DEF CleanupIsCut, Forget, Closed
  <2>2. /\ ended' \in [Socket -> BOOLEAN] /\ kept' \in [Socket -> BOOLEAN]
        /\ open' \in [Socket -> BOOLEAN] /\ paused' \in [Socket -> BOOLEAN]
        /\ owed' \in [Socket -> Nat]
    BY <1>23 DEF CleanupIsCut, Forget
  <2>3. task' \in [Socket -> Pcs] /\ left' \in [Socket -> BOOLEAN] /\ beats' \in [Socket
      -> BOOLEAN]
    BY <1>23 DEF CleanupIsCut, GoTo
  <2>. QED
    BY <1>23, <2>1, <2>2, <2>3 DEF CleanupIsCut
<1>24. ASSUME NEW s \in Socket, CleanupEnds(s) PROVE Typed'
  <2>1. link' \in [Socket -> Links] /\ voice' \in [Socket -> Voices]
    BY <1>24 DEF CleanupEnds, CleanedUp, Forget, Closed
  <2>2. /\ ended' \in [Socket -> BOOLEAN] /\ kept' \in [Socket -> BOOLEAN]
        /\ open' \in [Socket -> BOOLEAN] /\ paused' \in [Socket -> BOOLEAN]
        /\ owed' \in [Socket -> Nat]
    BY <1>24 DEF CleanupEnds, Forget
  <2>3. task' \in [Socket -> Pcs] /\ beats' \in [Socket -> BOOLEAN]
    BY <1>24 DEF CleanupEnds, CleanedUp, GoTo
  <2>. QED
    BY <1>24, <2>1, <2>2, <2>3 DEF CleanupEnds
<1>25. CASE UNCHANGED vars
  BY <1>25 DEF vars
<1>26. ASSUME NEW s \in Socket, SendReturns(s) PROVE Typed'
  <2>1. CASE LeavesLoop(s)
    BY <1>26, <2>1, OtherAudioTyped DEF SendReturns, LeavesLoop, Play, GoTo
  <2>2. CASE UNCHANGED task
    <3>1. \E a \in FrameSent(audio[s], kind, ambient, voice[s] = "up") : Play(s, a)
      BY <1>26, <2>2 DEF SendReturns, LeavesLoop, GoTo
    <3>2. PICK a \in FrameSent(audio[s], kind, ambient, voice[s] = "up") : Play(s, a)
      BY <3>1
    <3>3. a \in Audio
      BY FrameSentTyped
    <3>. QED  BY <1>26, <2>2, <3>2, <3>3 DEF SendReturns, Play
  <2>. QED  BY <1>26, <2>1, <2>2 DEF SendReturns
<1>27. ASSUME NEW s \in Socket, AudioLeaves(s) PROVE Typed'
  <2>1. PICK a \in DeltaSent(audio[s]) : Play(s, a)
    BY <1>27 DEF AudioLeaves
  <2>2. a \in Audio
    BY OtherAudioTyped
  <2>. QED  BY <1>27, <2>1, <2>2 DEF AudioLeaves, Play
<1>. QED
  BY <1>1, <1>2, <1>3, <1>4, <1>5, <1>6, <1>7, <1>8, <1>9, <1>10, <1>11, <1>12, <1>13,
      <1>14, <1>15, <1>16, <1>17, <1>18, <1>19, <1>20, <1>21, <1>22, <1>23, <1>24, <1>25,
      <1>26, <1>27 DEF Next, Loop

Holding == {t \in Socket : HoldsPlace(t)}

(* A step that leaves the call manager alone, and every call where it is.  *)
LEMMA SamePlaces == ASSUME Places, calls' = calls, Holding' = Holding PROVE Places'
  BY DEF Places, Holding

(* A socket that enters the loop finds a place free and takes it.          *)
LEMMA EntersPlaces ==
  ASSUME Typed, Places, NEW s \in Socket, EnterLoop(s) PROVE Places'
<1>1. calls' = calls \cup {CallId[s]} /\ Cardinality(calls) < MaxConcurrent
  BY DEF EnterLoop, Acquire
<1>2. Holding' = Holding \cup {s}
  BY DEF EnterLoop, GoTo, Holding, HoldsPlace, InLoop, Typed
<1>3. calls' = {CallId[t] : t \in Holding'}
  BY <1>1, <1>2 DEF Places, Holding
<1>4. IsFiniteSet(calls') /\ Cardinality(calls') <= Cardinality(calls) + 1
  BY <1>1, FS_AddElement, FS_CardinalityType DEF Places
<1>5. Cardinality(calls') <= MaxConcurrent
  BY <1>1, <1>4, FS_CardinalityType, CallLoopAssumption DEF Places
<1>. QED  BY <1>3, <1>4, <1>5 DEF Places, Holding

(* A socket that leaves the loop gives its own place back, and no other.   *)
LEMMA LeavesPlaces ==
  ASSUME Typed, Places, NEW s \in Socket, NEW pc \in {"closeWait", "cleanup"}, Stopped(s, pc)
  PROVE  Places'
<1>1. calls' = calls \ {CallId[s]}
  BY DEF Stopped, Release
<1>2. Holding' = Holding \ {s} /\ s \in Holding
  BY DEF Stopped, GoTo, Holding, HoldsPlace, InLoop, Typed
<1>3. \A t \in Socket : CallId[s] = CallId[t] => s = t
  BY CallLoopAssumption
<1>4. calls' = {CallId[t] : t \in Holding'}
  BY <1>1, <1>2, <1>3 DEF Places, Holding
<1>5. IsFiniteSet(calls') /\ Cardinality(calls') <= Cardinality(calls)
  BY <1>1, FS_Subset DEF Places
<1>6. Cardinality(calls') <= MaxConcurrent
  BY <1>5, FS_CardinalityType, CallLoopAssumption DEF Places
<1>. QED  BY <1>4, <1>5, <1>6 DEF Places, Holding

(* A call takes a place once, and is counted until its own release.        *)
LEMMA PlacesStep == CarriersInv /\ [Next]_vars => Places'
<1> SUFFICES ASSUME CarriersInv, [Next]_vars PROVE Places'
  OBVIOUS
<1>. USE DEF CarriersInv, Typed, process, protocol, twilio
<1>1. ASSUME NEW s \in Socket, Connects(s) PROVE Places'
  <2>1. CASE EnterLoop(s)
    BY <2>1, EntersPlaces
  <2>2. CASE ~EnterLoop(s)
    <3>1. calls' = calls /\ task[s] = "new" /\ (GoTo(s, "start") \/ GoTo(s, "done"))
      BY <1>1, <2>2 DEF Connects
    <3>2. Holding' = Holding
      BY <3>1 DEF GoTo, Holding, HoldsPlace, InLoop
    <3>. QED  BY <3>1, <3>2, SamePlaces
  <2>. QED  BY <2>1, <2>2
<1>2. ASSUME NEW s \in Socket, Authenticated(s) PROVE Places'
  BY <1>2, EntersPlaces DEF Authenticated
<1>3. ASSUME NEW s \in Socket, Rejected(s) PROVE Places'
  <2>1. calls' = calls /\ Holding' = Holding
    BY <1>3 DEF Rejected, Refused, GoTo, Holding, HoldsPlace, InLoop
  <2>. QED  BY <2>1, SamePlaces
<1>4. ASSUME NEW s \in Socket, ConnectStarts(s) PROVE Places'
  <2>1. calls' = calls /\ Holding' = Holding
    BY <1>4 DEF ConnectStarts, Holding, HoldsPlace, InLoop
  <2>. QED  BY <2>1, SamePlaces
<1>5. ASSUME NEW s \in Socket, Connected(s) PROVE Places'
  <2>1. calls' = calls /\ Holding' = Holding
    BY <1>5 DEF Connected, Holding, HoldsPlace, InLoop
  <2>. QED  BY <2>1, SamePlaces
<1>6. ASSUME NEW s \in Socket, ConnectFails(s) PROVE Places'
  <2>1. calls' = calls /\ Holding' = Holding
    BY <1>6 DEF ConnectFails, Holding, HoldsPlace, InLoop
  <2>. QED  BY <2>1, SamePlaces
<1>7. ASSUME NEW s \in Socket, NoticesFailure(s) PROVE Places'
  <2>1. calls' = calls /\ Holding' = Holding
    BY <1>7 DEF NoticesFailure, BetweenMessages, LeavesLoop, GoTo, Holding, HoldsPlace, InLoop
  <2>. QED  BY <2>1, SamePlaces
<1>8. ASSUME NEW s \in Socket, Expires(s) PROVE Places'
  <2>1. calls' = calls /\ Holding' = Holding
    BY <1>8 DEF Expires, BetweenMessages, LeavesLoop, GoTo, Holding, HoldsPlace, InLoop
  <2>. QED  BY <2>1, SamePlaces
<1>9. ASSUME NEW s \in Socket, Receives(s) PROVE Places'
  <2>1. calls' = calls /\ Holding' = Holding
    BY <1>9 DEF Receives, BetweenMessages, Receive, GoTo, Holding, HoldsPlace, InLoop
  <2>. QED  BY <2>1, SamePlaces
<1>10. ASSUME NEW s \in Socket, ReceiveTimesOut(s) PROVE Places'
  <2>1. calls' = calls /\ Holding' = Holding
    BY <1>10 DEF ReceiveTimesOut, TimesOut, GoTo, Holding, HoldsPlace, InLoop
  <2>. QED  BY <2>1, SamePlaces
<1>11. ASSUME NEW s \in Socket, CallEnded(s) PROVE Places'
  <2>1. calls' = calls /\ Holding' = Holding
    BY <1>11 DEF CallEnded, WakesEnded, LeavesLoop, GoTo, Holding, HoldsPlace, InLoop
  <2>. QED  BY <2>1, SamePlaces
<1>12. ASSUME NEW s \in Socket, ConnectTaskStops(s) PROVE Places'
  BY <1>12, LeavesPlaces DEF ConnectTaskStops
<1>13. ASSUME NEW s \in Socket, SocketClosed(s) PROVE Places'
  <2>1. calls' = calls /\ Holding' = Holding
    BY <1>13 DEF SocketClosed, GoTo, Holding, HoldsPlace, InLoop
  <2>. QED  BY <2>1, SamePlaces
<1>14. ASSUME NEW s \in Socket, MessageLands(s) PROVE Places'
  <2>1. calls' = calls /\ Holding' = Holding
    BY <1>14 DEF MessageLands, Lands, Holding, HoldsPlace, InLoop
  <2>. QED  BY <2>1, SamePlaces
<1>15. ASSUME NEW s \in Socket, Message(s) PROVE Places'
  <2>1. calls' = calls /\ Holding' = Holding
    BY <1>15 DEF Message, Returns, LeavesLoop, GoTo, Holding, HoldsPlace, InLoop
  <2>. QED  BY <2>1, SamePlaces
<1>16. ASSUME NEW s \in Socket, AgentSpeaks(s) PROVE Places'
  <2>1. calls' = calls /\ Holding' = Holding
    BY <1>16 DEF AgentSpeaks, Holding, HoldsPlace, InLoop
  <2>. QED  BY <2>1, SamePlaces
<1>17. ASSUME NEW s \in Socket, CallerSpeaks(s) PROVE Places'
  <2>1. calls' = calls /\ Holding' = Holding
    BY <1>17 DEF CallerSpeaks, Holding, HoldsPlace, InLoop
  <2>. QED  BY <2>1, SamePlaces
<1>18. ASSUME NEW s \in Socket, ClearLeaves(s) PROVE Places'
  <2>1. calls' = calls /\ Holding' = Holding
    BY <1>18 DEF ClearLeaves, Holding, HoldsPlace, InLoop
  <2>. QED  BY <2>1, SamePlaces
<1>19. ASSUME NEW s \in Socket, ResponsesFail(s) PROVE Places'
  <2>1. calls' = calls /\ Holding' = Holding
    BY <1>19 DEF ResponsesFail, Holding, HoldsPlace, InLoop
  <2>. QED  BY <2>1, SamePlaces
<1>20. ASSUME NEW s \in Socket, VoiceLiveDrops(s) PROVE Places'
  <2>1. calls' = calls /\ Holding' = Holding
    BY <1>20 DEF VoiceLiveDrops, Holding, HoldsPlace, InLoop
  <2>. QED  BY <2>1, SamePlaces
<1>21. ASSUME NEW s \in Socket, CarrierPlays(s) PROVE Places'
  <2>1. calls' = calls /\ Holding' = Holding
    BY <1>21 DEF CarrierPlays, Holding, HoldsPlace, InLoop
  <2>. QED  BY <2>1, SamePlaces
<1>22. ASSUME NEW s \in Socket, Disconnects(s) PROVE Places'
  <2>1. calls' = calls
    BY <1>22 DEF Disconnects
  <2>2. CASE InLoop(s)
    <3>1. GoTo(s, "stopping")
      BY <1>22, <2>2 DEF Disconnects, LeavesLoop, InLoop
    <3>. QED  BY <2>1, <2>2, <3>1, SamePlaces DEF GoTo, Holding, HoldsPlace, InLoop
  <2>3. CASE task[s] = "stopping"
    <3>1. task' = task
      BY <1>22, <2>3 DEF Disconnects, InLoop
    <3>. QED  BY <2>1, <3>1, SamePlaces DEF Holding, HoldsPlace, InLoop
  <2>4. CASE ~HoldsPlace(s)
    <3>1. task[s] \in {"start", "closeWait", "cleanup"}
      BY <1>22, <2>4 DEF Disconnects, HoldsPlace, InLoop, Pcs
    <3>2. task' = task \/ \E pc \in {"cleanup", "background", "done"} : GoTo(s, pc)
      BY <1>22, <3>1, Zenon DEF Disconnects, Refused, InLoop
    <3>. QED  BY <2>1, <2>4, <3>2, SamePlaces DEF GoTo, Holding, HoldsPlace, InLoop
  <2>. QED  BY <2>2, <2>3, <2>4 DEF HoldsPlace
<1>23. ASSUME NEW s \in Socket, CleanupIsCut(s) PROVE Places'
  <2>1. calls' = calls /\ Holding' = Holding
    BY <1>23 DEF CleanupIsCut, GoTo, Holding, HoldsPlace, InLoop
  <2>. QED  BY <2>1, SamePlaces
<1>24. ASSUME NEW s \in Socket, CleanupEnds(s) PROVE Places'
  <2>1. calls' = calls /\ Holding' = Holding
    BY <1>24 DEF CleanupEnds, CleanedUp, GoTo, Holding, HoldsPlace, InLoop
  <2>. QED  BY <2>1, SamePlaces
<1>25. CASE UNCHANGED vars
  BY <1>25, SamePlaces DEF vars, Holding, HoldsPlace, InLoop
<1>26. ASSUME NEW s \in Socket, SendReturns(s) PROVE Places'
  <2>1. calls' = calls /\ Holding' = Holding
    BY <1>26 DEF SendReturns, LeavesLoop, GoTo, Holding, HoldsPlace, InLoop
  <2>. QED  BY <2>1, SamePlaces
<1>27. ASSUME NEW s \in Socket, AudioLeaves(s) PROVE Places'
  <2>1. calls' = calls /\ Holding' = Holding
    BY <1>27 DEF AudioLeaves, Holding, HoldsPlace, InLoop
  <2>. QED  BY <2>1, SamePlaces
<1>. QED
  BY <1>1, <1>2, <1>3, <1>4, <1>5, <1>6, <1>7, <1>8, <1>9, <1>10, <1>11, <1>12, <1>13,
      <1>14, <1>15, <1>16, <1>17, <1>18, <1>19, <1>20, <1>21, <1>22, <1>23, <1>24, <1>25,
      <1>26, <1>27 DEF Next, Loop

(* A connection belongs to a call that holds its place, until it is closed. *)
LEMMA ConnectionStep == CarriersInv /\ [Next]_vars => \A t \in Socket : Connection(t)'
<1> SUFFICES ASSUME CarriersInv, [Next]_vars, NEW t \in Socket PROVE Connection(t)'
  OBVIOUS
<1>. USE DEF CarriersInv, Typed, process, protocol, twilio, Pcs, Links, Voices,
    Connection, Linking, HoldsPlace, InLoop
<1>1. ASSUME NEW s \in Socket, Connects(s) PROVE Connection(t)'
  BY <1>1 DEF Connects, EnterLoop, Acquire, GoTo
<1>2. ASSUME NEW s \in Socket, Authenticated(s) PROVE Connection(t)'
  BY <1>2 DEF Authenticated, EnterLoop, Acquire, GoTo
<1>3. ASSUME NEW s \in Socket, Rejected(s) PROVE Connection(t)'
  BY <1>3 DEF Rejected, Refused, GoTo
<1>4. ASSUME NEW s \in Socket, ConnectStarts(s) PROVE Connection(t)'
  BY <1>4 DEF ConnectStarts
<1>5. ASSUME NEW s \in Socket, Connected(s) PROVE Connection(t)'
  BY <1>5 DEF Connected, HandshakeDone, SetupDone
<1>6. ASSUME NEW s \in Socket, ConnectFails(s) PROVE Connection(t)'
  BY <1>6 DEF ConnectFails, LinkFails
<1>7. ASSUME NEW s \in Socket, NoticesFailure(s) PROVE Connection(t)'
  BY <1>7 DEF NoticesFailure, LeavesLoop, GoTo
<1>8. ASSUME NEW s \in Socket, Expires(s) PROVE Connection(t)'
  BY <1>8 DEF Expires, LeavesLoop, GoTo
<1>9. ASSUME NEW s \in Socket, Receives(s) PROVE Connection(t)'
  BY <1>9 DEF Receives, Receive, GoTo
<1>10. ASSUME NEW s \in Socket, ReceiveTimesOut(s) PROVE Connection(t)'
  BY <1>10 DEF ReceiveTimesOut, TimesOut, GoTo
<1>11. ASSUME NEW s \in Socket, CallEnded(s) PROVE Connection(t)'
  BY <1>11 DEF CallEnded, WakesEnded, LeavesLoop, GoTo
<1>12. ASSUME NEW s \in Socket, ConnectTaskStops(s) PROVE Connection(t)'
  BY <1>12 DEF ConnectTaskStops, Stopped, Release, GoTo
<1>13. ASSUME NEW s \in Socket, SocketClosed(s) PROVE Connection(t)'
  BY <1>13 DEF SocketClosed, GoTo
<1>14. ASSUME NEW s \in Socket, MessageLands(s) PROVE Connection(t)'
  BY <1>14 DEF MessageLands, Lands
<1>15. ASSUME NEW s \in Socket, Message(s) PROVE Connection(t)'
  <2>1. UNCHANGED <<kind, link, voice>> /\ (GoTo(s, "loop") \/ GoTo(s, "stopping"))
    BY <1>15 DEF Message, LeavesLoop
  <2>2. task[s] = "receive"
    BY <1>15 DEF Message, Returns
  <2>3. beats' \in [Socket -> BOOLEAN] /\ \A u \in Socket \ {s} : beats'[u] = beats[u]
    BY <1>15 DEF Message, on_message, HearsFrame, _handle_connect, _handle_connected,
               _handle_open, _handle_close, _handle_pause, _handle_resume
  <2>. QED  BY <2>1, <2>2, <2>3 DEF GoTo
<1>16. ASSUME NEW s \in Socket, AgentSpeaks(s) PROVE Connection(t)'
  BY <1>16 DEF AgentSpeaks
<1>17. ASSUME NEW s \in Socket, CallerSpeaks(s) PROVE Connection(t)'
  BY <1>17 DEF CallerSpeaks
<1>18. ASSUME NEW s \in Socket, ClearLeaves(s) PROVE Connection(t)'
  BY <1>18 DEF ClearLeaves
<1>19. ASSUME NEW s \in Socket, ResponsesFail(s) PROVE Connection(t)'
  BY <1>19 DEF ResponsesFail
<1>20. ASSUME NEW s \in Socket, VoiceLiveDrops(s) PROVE Connection(t)'
  BY <1>20 DEF VoiceLiveDrops
<1>21. ASSUME NEW s \in Socket, CarrierPlays(s) PROVE Connection(t)'
  BY <1>21 DEF CarrierPlays
<1>22. ASSUME NEW s \in Socket, Disconnects(s) PROVE Connection(t)'
  <2>1. UNCHANGED <<kind, link, voice, beats>>
    BY <1>22, Zenon DEF Disconnects
  <2>2. task[s] \in {"start", "loop", "receive", "stopping", "closeWait", "cleanup"}
    BY <1>22 DEF Disconnects
  <2>3. \/ InLoop(s) /\ GoTo(s, "stopping")
        \/ task' = task
        \/ task[s] \in {"start", "closeWait", "cleanup"} /\ GoTo(s, "cleanup")
        \/ task[s] = "start" /\ GoTo(s, "done")
        \/ task[s] = "cleanup" /\ GoTo(s, "background")
    BY <1>22, <2>2, Zenon DEF Disconnects, LeavesLoop, Refused, InLoop
  <2>. QED  BY <2>1, <2>3 DEF GoTo
<1>23. ASSUME NEW s \in Socket, CleanupIsCut(s) PROVE Connection(t)'
  BY <1>23 DEF CleanupIsCut, Forget, GoTo
<1>24. ASSUME NEW s \in Socket, CleanupEnds(s) PROVE Connection(t)'
  <2>1. kind' = kind /\ GoTo(s, "done") /\ ~HoldsPlace(s)
    BY <1>24 DEF CleanupEnds, CleanedUp
  <2>2. voice'[s] \in {"none", "closed"} /\ ~beats'[s] /\ ~Linking(s)'
    BY <1>24, <2>1 DEF CleanupEnds, CleanedUp, Closed, Forget
  <2>3. \A u \in Socket \ {s} : voice'[u] = voice[u] /\ beats'[u] = beats[u] /\ link'[u]
      = link[u]
    BY <1>24 DEF CleanupEnds, CleanedUp, Forget
  <2>. QED  BY <2>1, <2>2, <2>3 DEF GoTo
<1>25. CASE UNCHANGED vars
  BY <1>25 DEF vars
<1>26. ASSUME NEW s \in Socket, SendReturns(s) PROVE Connection(t)'
  BY <1>26 DEF SendReturns, LeavesLoop, GoTo
<1>27. ASSUME NEW s \in Socket, AudioLeaves(s) PROVE Connection(t)'
  BY <1>27 DEF AudioLeaves
<1>. QED
  BY <1>1, <1>2, <1>3, <1>4, <1>5, <1>6, <1>7, <1>8, <1>9, <1>10, <1>11, <1>12, <1>13,
      <1>14, <1>15, <1>16, <1>17, <1>18, <1>19, <1>20, <1>21, <1>22, <1>23, <1>24, <1>25,
      <1>26, <1>27 DEF Next, Loop

(* A message is with the receive, or kept for the next one, until handled. *)
LEMMA MessagesStep == CarriersInv /\ [Next]_vars => \A t \in Socket : Messages(t)'
<1> SUFFICES ASSUME CarriersInv, [Next]_vars, NEW t \in Socket PROVE Messages(t)'
  OBVIOUS
<1>. USE DEF CarriersInv, Typed, process, protocol, twilio, Pcs, Links, Voices
<1>1. ASSUME NEW s \in Socket, Connects(s) PROVE Messages(t)'
  BY <1>1 DEF Connects, EnterLoop, Acquire, GoTo, Messages, Has, InLoop
<1>2. ASSUME NEW s \in Socket, Authenticated(s) PROVE Messages(t)'
  BY <1>2 DEF Authenticated, EnterLoop, Acquire, GoTo, Messages, Has, InLoop
<1>3. ASSUME NEW s \in Socket, Rejected(s) PROVE Messages(t)'
  BY <1>3 DEF Rejected, Refused, GoTo, Messages, Has, InLoop
<1>4. ASSUME NEW s \in Socket, ConnectStarts(s) PROVE Messages(t)'
  BY <1>4 DEF ConnectStarts, Messages, Has, InLoop
<1>5. ASSUME NEW s \in Socket, Connected(s) PROVE Messages(t)'
  BY <1>5 DEF Connected, HandshakeDone, SetupDone, Messages, Has, InLoop
<1>6. ASSUME NEW s \in Socket, ConnectFails(s) PROVE Messages(t)'
  BY <1>6 DEF ConnectFails, LinkFails, Messages, Has, InLoop
<1>7. ASSUME NEW s \in Socket, NoticesFailure(s) PROVE Messages(t)'
  BY <1>7 DEF NoticesFailure, BetweenMessages, LeavesLoop, GoTo, Messages, Has, InLoop
<1>8. ASSUME NEW s \in Socket, Expires(s) PROVE Messages(t)'
  BY <1>8 DEF Expires, BetweenMessages, LeavesLoop, GoTo, Messages, Has, InLoop
<1>9. ASSUME NEW s \in Socket, Receives(s) PROVE Messages(t)'
  BY <1>9 DEF Receives, BetweenMessages, Receive, GoTo, Messages, Has, InLoop
<1>10. ASSUME NEW s \in Socket, ReceiveTimesOut(s) PROVE Messages(t)'
  <2>1. CASE kind = "twilio"
    <3>1. /\ task[s] = "receive" /\ GoTo(s, "loop") /\ recv' = [recv EXCEPT ![s] = "none"]
          /\ kept' = [kept EXCEPT ![s] = recv[s] = "landed"]
          /\ UNCHANGED <<kind, owed, ended>>
      BY <1>10, <2>1 DEF ReceiveTimesOut, TimesOut
    <3>2. kept'[s] <=> recv[s] = "landed"
      BY <3>1, Zenon
    <3>3. CASE t = s
      BY <2>1, <3>1, <3>2, <3>3 DEF GoTo, Messages, Has, InLoop
    <3>4. CASE t # s
      BY <3>1, <3>4 DEF GoTo, Messages, Has, InLoop
    <3>. QED  BY <3>3, <3>4
  <2>2. CASE kind # "twilio"
    BY <1>10, <2>2 DEF ReceiveTimesOut, GoTo, Messages, Has, InLoop
  <2>. QED  BY <2>1, <2>2
<1>11. ASSUME NEW s \in Socket, CallEnded(s) PROVE Messages(t)'
  BY <1>11 DEF CallEnded, WakesEnded, LeavesLoop, GoTo, Messages, Has, InLoop
<1>12. ASSUME NEW s \in Socket, ConnectTaskStops(s) PROVE Messages(t)'
  BY <1>12 DEF ConnectTaskStops, Stopped, Release, GoTo, Messages, Has, InLoop
<1>13. ASSUME NEW s \in Socket, SocketClosed(s) PROVE Messages(t)'
  BY <1>13 DEF SocketClosed, GoTo, Messages, Has, InLoop
<1>14. ASSUME NEW s \in Socket, MessageLands(s) PROVE Messages(t)'
  BY <1>14 DEF MessageLands, Lands, Messages, Has, InLoop
<1>15. ASSUME NEW s \in Socket, Message(s) PROVE Messages(t)'
  BY <1>15 DEF Message, Returns, LeavesLoop, GoTo, on_message, Opened, _handle_connect,
      _handle_connected, _handle_open, _handle_close, _handle_pause, _handle_resume,
      Messages, Has, InLoop
<1>16. ASSUME NEW s \in Socket, AgentSpeaks(s) PROVE Messages(t)'
  BY <1>16 DEF AgentSpeaks, Messages, Has, InLoop
<1>17. ASSUME NEW s \in Socket, CallerSpeaks(s) PROVE Messages(t)'
  BY <1>17 DEF CallerSpeaks, Messages, Has, InLoop
<1>18. ASSUME NEW s \in Socket, ClearLeaves(s) PROVE Messages(t)'
  BY <1>18 DEF ClearLeaves, Messages, Has, InLoop
<1>19. ASSUME NEW s \in Socket, ResponsesFail(s) PROVE Messages(t)'
  BY <1>19 DEF ResponsesFail, Messages, Has, InLoop
<1>20. ASSUME NEW s \in Socket, VoiceLiveDrops(s) PROVE Messages(t)'
  BY <1>20 DEF VoiceLiveDrops, Messages, Has, InLoop
<1>21. ASSUME NEW s \in Socket, CarrierPlays(s) PROVE Messages(t)'
  BY <1>21 DEF CarrierPlays, Messages, Has, InLoop
<1>22. ASSUME NEW s \in Socket, Disconnects(s) PROVE Messages(t)'
  <2>1. UNCHANGED <<process, calls, link, ended, kept, owed, protocol>>
    BY <1>22 DEF Disconnects
  <2>2. recv' = [recv EXCEPT ![s] = "none"] /\ task[s] # "new"
    BY <1>22 DEF Disconnects
  <2>3. \/ InLoop(s) /\ GoTo(s, "stopping")
        \/ task' = task /\ ~InLoop(s) /\ task[s] # "start"
        \/ ~InLoop(s) /\ \E pc \in {"cleanup", "background", "done"} : GoTo(s, pc)
    BY <1>22, Zenon DEF Disconnects, LeavesLoop, Refused, InLoop
  <2>. QED  BY <2>1, <2>2, <2>3 DEF GoTo, Messages, Has, InLoop
<1>23. ASSUME NEW s \in Socket, CleanupIsCut(s) PROVE Messages(t)'
  BY <1>23 DEF CleanupIsCut, Forget, GoTo, Messages, Has, InLoop
<1>24. ASSUME NEW s \in Socket, CleanupEnds(s) PROVE Messages(t)'
  BY <1>24 DEF CleanupEnds, CleanedUp, Forget, GoTo, Messages, Has, InLoop
<1>25. CASE UNCHANGED vars
  BY <1>25 DEF vars, Messages, Has, InLoop
<1>26. ASSUME NEW s \in Socket, SendReturns(s) PROVE Messages(t)'
  BY <1>26 DEF SendReturns, LeavesLoop, GoTo, Messages, Has, InLoop
<1>27. ASSUME NEW s \in Socket, AudioLeaves(s) PROVE Messages(t)'
  BY <1>27 DEF AudioLeaves, Messages, Has, InLoop
<1>. QED
  BY <1>1, <1>2, <1>3, <1>4, <1>5, <1>6, <1>7, <1>8, <1>9, <1>10, <1>11, <1>12, <1>13,
      <1>14, <1>15, <1>16, <1>17, <1>18, <1>19, <1>20, <1>21, <1>22, <1>23, <1>24, <1>25,
      <1>26, <1>27 DEF Next, Loop

(* What is done to the audio of a call keeps it hushed. *)
LEMMA Hushes ==
  ASSUME NEW a \in Audio, ambient \in BOOLEAN, Hushed(a)
  PROVE  /\ Hushed(Quiet) /\ Hushed(Stop(a)) /\ Hushed(Dropped(a))
         /\ a.receiver = "idle" => Hushed(Delta(a, kind, ambient)) /\ Hushed(SpeechStarts(a, kind))
         /\ a.receiver = "audio" => \A b \in DeltaSent(a) : Hushed(b)
         /\ a.receiver = "clear" => \A b \in Cleared(a, kind, ambient) : Hushed(b)
<1>1. Hushed(Quiet) /\ Hushed(Stop(a)) /\ Hushed(Dropped(a))
  BY DEF Hushed, Speech, Quiet, Stop, Dropped, Audio
<1>2. a.receiver = "idle" => Hushed(Delta(a, kind, ambient))
  BY DEF Hushed, Speech, Delta, Audio
<1>3. a.receiver = "idle" => Hushed(SpeechStarts(a, kind))
  BY DEF Hushed, Speech, SpeechStarts, Interrupted, Paced, Audio
<1>4. a.receiver = "audio" => \A b \in DeltaSent(a) : Hushed(b)
  BY DeltaSentTyped DEF Hushed
<1>5. a.receiver = "clear" => \A b \in Cleared(a, kind, ambient) : Hushed(b)
  BY ClearedTyped DEF Hushed
<1>. QED  BY <1>1, <1>2, <1>3, <1>4, <1>5

(* So does a frame of the caller's, and a send of the call loop's. *)
LEMMA FrameHushes ==
  ASSUME NEW a \in Audio, ambient \in BOOLEAN, Hushed(a), NEW connected,
         NEW b \in Frame(a, kind, ambient, connected)
  PROVE  Hushed(b)
  BY FrameTyped DEF Hushed, Audio

LEMMA FrameSentHushes ==
  ASSUME NEW a \in Audio, ambient \in BOOLEAN, Hushed(a), NEW connected,
         NEW b \in FrameSent(a, kind, ambient, connected)
  PROVE  Hushed(b)
  BY FrameSentTyped DEF Hushed, Audio

(* The other calls hear nothing of it. *)
LEMMA PlayHushes ==
  ASSUME Typed, NEW s \in Socket, NEW t \in Socket, Silence(t), NEW a, Hushed(a),
         Play(s, a), UNCHANGED process
  PROVE  Silence(t)'
  BY DEF Typed, Silence, Hushed, Play, process

(* No step lets audio from before an interruption out again.              *)
LEMMA SilenceStep == CarriersInv /\ [Next]_vars => \A t \in Socket : Silence(t)'
<1> SUFFICES ASSUME CarriersInv, [Next]_vars, NEW t \in Socket PROVE Silence(t)'
  OBVIOUS
<1>. USE DEF CarriersInv, Typed, process, protocol, twilio, Pcs, Links, Voices
<1>0. Hushed(Quiet) /\ Silence(t)
  BY Hushes DEF Silence
<1>1. ASSUME NEW s \in Socket, Connects(s) PROVE Silence(t)'
  BY <1>1 DEF Connects, Silence, Hushed
<1>2. ASSUME NEW s \in Socket, Authenticated(s) PROVE Silence(t)'
  BY <1>2 DEF Authenticated, Silence, Hushed
<1>3. ASSUME NEW s \in Socket, Rejected(s) PROVE Silence(t)'
  BY <1>3 DEF Rejected, Silence, Hushed
<1>4. ASSUME NEW s \in Socket, ConnectStarts(s) PROVE Silence(t)'
  BY <1>4 DEF ConnectStarts, Silence, Hushed
<1>5. ASSUME NEW s \in Socket, Connected(s) PROVE Silence(t)'
  BY <1>5 DEF Connected, Silence, Hushed
<1>6. ASSUME NEW s \in Socket, ConnectFails(s) PROVE Silence(t)'
  <2>1. Hushed(Stop(audio[s]))
    BY Hushes DEF Silence
  <2>2. Play(s, Stop(audio[s])) \/ UNCHANGED audio
    BY <1>6 DEF ConnectFails, StopAudio
  <2>3. UNCHANGED process
    BY <1>6 DEF ConnectFails
  <2>. QED  BY <2>1, <2>2, <2>3, PlayHushes DEF Silence, Hushed
<1>7. ASSUME NEW s \in Socket, NoticesFailure(s) PROVE Silence(t)'
  BY <1>7, <1>0, PlayHushes DEF NoticesFailure, LeavesLoop
<1>8. ASSUME NEW s \in Socket, Expires(s) PROVE Silence(t)'
  BY <1>8, <1>0, PlayHushes DEF Expires, LeavesLoop
<1>9. ASSUME NEW s \in Socket, Receives(s) PROVE Silence(t)'
  <2>1. (Play(s, Quiet) \/ UNCHANGED audio) /\ UNCHANGED process
    BY <1>9 DEF Receives
  <2>. QED  BY <1>0, <2>1, PlayHushes DEF Silence, Hushed
<1>10. ASSUME NEW s \in Socket, ReceiveTimesOut(s) PROVE Silence(t)'
  BY <1>10 DEF ReceiveTimesOut, Silence, Hushed
<1>11. ASSUME NEW s \in Socket, CallEnded(s) PROVE Silence(t)'
  BY <1>11, <1>0, PlayHushes DEF CallEnded, LeavesLoop
<1>12. ASSUME NEW s \in Socket, ConnectTaskStops(s) PROVE Silence(t)'
  BY <1>12 DEF ConnectTaskStops, Silence, Hushed
<1>13. ASSUME NEW s \in Socket, SocketClosed(s) PROVE Silence(t)'
  BY <1>13 DEF SocketClosed, Silence, Hushed
<1>14. ASSUME NEW s \in Socket, MessageLands(s) PROVE Silence(t)'
  BY <1>14 DEF MessageLands, Silence, Hushed
<1>15. ASSUME NEW s \in Socket, Message(s) PROVE Silence(t)'
  <2>1. CASE HearsFrame(s)
    <3>1. PICK a \in Frame(audio[s], kind, ambient, voice[s] = "up") : Play(s, a)
      BY <2>1 DEF HearsFrame
    <3>2. Hushed(a)
      BY FrameHushes DEF Silence
    <3>. QED  BY <1>15, <3>1, <3>2, PlayHushes DEF Message
  <2>2. CASE LeavesLoop(s)
    BY <1>15, <1>0, <2>2, PlayHushes DEF Message, LeavesLoop
  <2>3. CASE ~HearsFrame(s) /\ ~LeavesLoop(s)
    <3>1. UNCHANGED <<process, audio>>
      BY <1>15, <2>3 DEF Message, on_message, _handle_connect, _handle_connected, _handle_open,
                       _handle_close, _handle_pause, _handle_resume, Opened
    <3>. QED  BY <3>1 DEF Silence, Hushed
  <2>. QED  BY <2>1, <2>2, <2>3
<1>16. ASSUME NEW s \in Socket, AgentSpeaks(s) PROVE Silence(t)'
  <2>1. audio[s].receiver = "idle"
    BY <1>16 DEF AgentSpeaks, Receiving
  <2>2. Hushed(Delta(audio[s], kind, ambient))
    BY <2>1, Hushes DEF Silence
  <2>. QED  BY <1>16, <2>2, PlayHushes DEF AgentSpeaks
<1>17. ASSUME NEW s \in Socket, CallerSpeaks(s) PROVE Silence(t)'
  <2>1. audio[s].receiver = "idle"
    BY <1>17 DEF CallerSpeaks, Receiving
  <2>2. Hushed(SpeechStarts(audio[s], kind))
    BY <2>1, Hushes DEF Silence
  <2>. QED  BY <1>17, <2>2, PlayHushes DEF CallerSpeaks
<1>18. ASSUME NEW s \in Socket, ClearLeaves(s) PROVE Silence(t)'
  <2>1. PICK a \in Cleared(audio[s], kind, ambient) : Play(s, a)
    BY <1>18 DEF ClearLeaves
  <2>2. audio[s].receiver = "clear" /\ UNCHANGED process
    BY <1>18 DEF ClearLeaves, Receiving
  <2>3. Hushed(a)
    BY <2>2, Hushes DEF Silence
  <2>. QED  BY <2>1, <2>2, <2>3, PlayHushes
<1>19. ASSUME NEW s \in Socket, ResponsesFail(s) PROVE Silence(t)'
  <2>1. Hushed(Stop(audio[s]))
    BY Hushes DEF Silence
  <2>2. Play(s, Stop(audio[s])) \/ UNCHANGED audio
    BY <1>19 DEF ResponsesFail, StopAudio
  <2>3. UNCHANGED process
    BY <1>19 DEF ResponsesFail
  <2>. QED  BY <2>1, <2>2, <2>3, PlayHushes DEF Silence, Hushed
<1>20. ASSUME NEW s \in Socket, VoiceLiveDrops(s) PROVE Silence(t)'
  <2>1. Hushed(Dropped(audio[s]))
    BY Hushes DEF Silence
  <2>2. Play(s, Dropped(audio[s])) \/ UNCHANGED audio
    BY <1>20 DEF VoiceLiveDrops
  <2>3. UNCHANGED process
    BY <1>20 DEF VoiceLiveDrops
  <2>. QED  BY <2>1, <2>2, <2>3, PlayHushes DEF Silence, Hushed
<1>21. ASSUME NEW s \in Socket, CarrierPlays(s) PROVE Silence(t)'
  <2>1. PICK p \in Parts(audio[s].peer) : Play(s, [audio[s] EXCEPT !.peer = p.rest])
    BY <1>21 DEF CarrierPlays
  <2>2. p.rest \subseteq audio[s].peer
    BY PartsShrink
  <2>3. Hushed([audio[s] EXCEPT !.peer = p.rest])
    BY <2>2 DEF Silence, Hushed, Speech, Audio
  <2>. QED  BY <1>21, <2>1, <2>3, PlayHushes DEF CarrierPlays
<1>22. ASSUME NEW s \in Socket, Disconnects(s) PROVE Silence(t)'
  <2>1. (Play(s, Quiet) \/ UNCHANGED audio) /\ UNCHANGED process
    <3>1. task[s] \in {"start", "loop", "receive", "stopping", "closeWait", "cleanup"}
      BY <1>22 DEF Disconnects
    <3>2. UNCHANGED process
      BY <1>22 DEF Disconnects
    <3>. QED  BY <1>22, <3>1, <3>2, Zenon DEF Disconnects, LeavesLoop, InLoop
  <2>. QED  BY <1>0, <2>1, PlayHushes DEF Silence, Hushed
<1>23. ASSUME NEW s \in Socket, CleanupIsCut(s) PROVE Silence(t)'
  BY <1>23 DEF CleanupIsCut, Silence, Hushed
<1>24. ASSUME NEW s \in Socket, CleanupEnds(s) PROVE Silence(t)'
  BY <1>24 DEF CleanupEnds, Silence, Hushed
<1>25. CASE UNCHANGED vars
  BY <1>25 DEF vars, Silence, Hushed
<1>26. ASSUME NEW s \in Socket, SendReturns(s) PROVE Silence(t)'
  <2>1. UNCHANGED process
    BY <1>26 DEF SendReturns
  <2>2. CASE LeavesLoop(s)
    BY <1>0, <2>1, <2>2, PlayHushes DEF LeavesLoop
  <2>3. ASSUME NEW a \in FrameSent(audio[s], kind, ambient, voice[s] = "up"), Play(s, a)
        PROVE  Silence(t)'
    <3>1. Hushed(a)
      BY FrameSentHushes DEF Silence
    <3>. QED  BY <2>1, <2>3, <3>1, PlayHushes
  <2>. QED  BY <1>26, <2>2, <2>3 DEF SendReturns
<1>27. ASSUME NEW s \in Socket, AudioLeaves(s) PROVE Silence(t)'
  <2>1. PICK a \in DeltaSent(audio[s]) : Play(s, a)
    BY <1>27 DEF AudioLeaves
  <2>2. audio[s].receiver = "audio" /\ UNCHANGED process
    BY <1>27 DEF AudioLeaves, Receiving
  <2>3. Hushed(a)
    BY <2>2, Hushes DEF Silence
  <2>. QED  BY <2>1, <2>2, <2>3, PlayHushes
<1>. QED
  BY <1>1, <1>2, <1>3, <1>4, <1>5, <1>6, <1>7, <1>8, <1>9, <1>10, <1>11, <1>12, <1>13,
      <1>14, <1>15, <1>16, <1>17, <1>18, <1>19, <1>20, <1>21, <1>22, <1>23, <1>24, <1>25,
      <1>26, <1>27 DEF Next, Loop

-----------------------------------------------------------------------------
(* The theorems. *)

(* The initial states. *)
LEMMA CarriersInvInit == Init => CarriersInv
<1> SUFFICES ASSUME Init PROVE CarriersInv
  OBVIOUS
<1>1. Typed
  BY DEF Init, TwilioInit, Typed, Pcs, Links, Voices, Quiet, Audio
<1>2. Places
  BY FS_EmptySet, CallLoopAssumption DEF Init, Places, HoldsPlace, InLoop
<1>3. \A s \in Socket : Connection(s) /\ Messages(s)
  BY DEF Init, TwilioInit, Connection, Messages, Linking, HoldsPlace, InLoop, Has
<1>4. \A s \in Socket : Silence(s)
  BY DEF Init, Silence, Hushed, Speech, Quiet
<1>. QED  BY <1>1, <1>2, <1>3, <1>4 DEF CarriersInv

(* Places, connections, messages and audio stay together in every state    *)
(* the sockets of a process reach.                                         *)
THEOREM CarriersInvHolds == Spec => []CarriersInv
<1>1. CarriersInv /\ [Next]_vars => CarriersInv'
  BY TypedStep, PlacesStep, ConnectionStep, MessagesStep, SilenceStep DEF CarriersInv
<1>. QED  BY CarriersInvInit, <1>1, PTL DEF Spec

(* Each socket holds its place from the acquire to the release, and there  *)
(* are never more than MAX_CONCURRENT_CALLS (CallManager).                 *)
THEOREM CarriersTypesHold == Spec => []CarriersTypeOK
<1>1. CarriersInv => CarriersTypeOK
  <2> SUFFICES ASSUME CarriersInv PROVE CarriersTypeOK
    OBVIOUS
  <2>1. Typed /\ Places /\ \A s \in Socket : owed[s] \in 0..1
    BY DEF CarriersInv, Messages, Typed
  <2>2. owed \in [Socket -> 0..1]
    BY <2>1 DEF Typed
  <2>. QED  BY <2>1, <2>2 DEF CarriersTypeOK, Typed, Places, Pcs, Links, Voices
<1>. QED  BY CarriersInvHolds, <1>1, PTL

(* A call whose place is free never completes a connection again, and      *)
(* leaves none open.                                                       *)
THEOREM NothingStaysOpen == Spec => []NothingLeftOpen
<1>1. CarriersInv => NothingLeftOpen
  BY DEF CarriersInv, NothingLeftOpen, Connection, HoldsPlace, InLoop
<1>. QED  BY CarriersInvHolds, <1>1, PTL

(* A message of a Twilio call is handled once, whenever the timeout falls. *)
THEOREM NoMessageIsLost == Spec => []NoMessageLost
<1>1. CarriersInv => NoMessageLost
  BY DEF CarriersInv, NoMessageLost, Messages, Has
<1>. QED  BY CarriersInvHolds, <1>1, PTL

(* When on_speech_started is done, what the agent said before stands in no *)
(* buffer that is still sent from, and, once a clear has reached it, not   *)
(* with the carrier; and nothing said after it is dropped by the clear.    *)
(* What a paced carrier was handed, or has in flight, is not covered.      *)
THEOREM InterruptionSilences == Spec => []BargeInSilences
<1>1. CarriersInv => BargeInSilences
  BY DEF CarriersInv, BargeInSilences, Silence, Hushed, Speech, Typed
<1>. QED  BY CarriersInvHolds, <1>1, PTL
=============================================================================
