----------------------------- MODULE CarrierAudio -----------------------------
(***************************************************************************)
(* The agent's audio on its way to the caller: _tts_output_buffer of the   *)
(* shared handler when ambient sound is mixed in, _out_buffer of the two   *)
(* carriers that pace their output, the speech the call loop awaits a send *)
(* of, and what the carrier was sent and has not played. Each holds audio  *)
(* the caller has interrupted ("old"), audio after that ("new"), or both,  *)
(* the old in front. Amounts are left out, and with them whether enough is *)
(* buffered to begin to play. A send that fails is swallowed.              *)
(***************************************************************************)
EXTENDS Naturals

Quiet == [tts |-> {}, out |-> {}, hand |-> {}, peer |-> {},
          receiver |-> "idle", lost |-> FALSE]

(* The receiver of Voice Live events awaits no send, that of agent audio,  *)
(* or that of a clear; lost: the last clear never reached the carrier.     *)
Audio == [tts : SUBSET {"old", "new"}, out : SUBSET {"old", "new"},
          hand : SUBSET {"old", "new"}, peer : SUBSET {"old", "new"},
          receiver : {"idle", "audio", "clear"}, lost : BOOLEAN]

(* A chunk off the front of a buffer, and what stays. *)
Parts(buffer) ==
  {p \in [chunk : SUBSET buffer \ {{}}, rest : SUBSET buffer] :
     /\ p.chunk \cup p.rest = buffer
     /\ "old" \in p.rest => p.chunk = {"old"}}

Paced(k) == k \in {"infobip", "genesys"}

(* Mutated form: the send is left to the call loop, the receiver goes on.  *)
DeltaUnawaited(a, k, ambient) ==
  IF ambient THEN [a EXCEPT !.tts = @ \cup {"new"}]
  ELSE IF Paced(k) THEN [a EXCEPT !.out = @ \cup {"new"}] ELSE [a EXCEPT !.hand = {"new"}]

(* on_audio_delta: into the shared buffer, or _send_audio_to_client, which *)
(* is the paced buffer or a send the receiver awaits.                      *)
Delta(a, k, ambient) ==
  IF ambient THEN [a EXCEPT !.tts = @ \cup {"new"}]
  ELSE IF Paced(k) THEN [a EXCEPT !.out = @ \cup {"new"}] ELSE [a EXCEPT !.receiver = "audio"]

(* The receiver's send is done, the audio at the carrier or lost.          *)
DeltaSent(a) ==
  {[a EXCEPT !.receiver = "idle", !.peer = played] : played \in {a.peer, a.peer \cup {"new"}}}

(* _send_continuous_audio mixes a chunk of speech into the ambient sound,  *)
(* or only sends the sound. A mixed chunk goes into the paced buffer, or   *)
(* the call loop awaits its send.                                          *)
Mixed(a, k) ==
  {a} \cup {IF Paced(k) THEN [a EXCEPT !.tts = p.rest, !.out = @ \cup p.chunk]
                        ELSE [a EXCEPT !.tts = p.rest, !.hand = p.chunk] : p \in Parts(a.tts)}

(* handle_audio: for most carriers only while Voice Live is connected.     *)
Answered(a, k, ambient, connected) ==
  IF ambient /\ (connected \/ k \in {"twilio", "web"}) THEN Mixed(a, k) ELSE {a}

(* A frame from the caller. A paced carrier gets one back, taken off the   *)
(* buffer and sent before the frame is handled any further.                *)
Frame(a, k, ambient, connected) ==
  IF Paced(k) /\ a.out # {}
  THEN {[a EXCEPT !.out = p.rest, !.hand = p.chunk] : p \in Parts(a.out)}
  ELSE Answered(a, k, ambient, connected)

(* The call loop's send is done, the speech at the carrier or lost; only   *)
(* then is the frame a paced carrier was paced by handled.                 *)
FrameSent(a, k, ambient, connected) ==
  LET landed == {[a EXCEPT !.hand = {}, !.peer = played] : played \in {a.peer, a.peer \cup a.hand}}
  IN  IF Paced(k) THEN UNION {Answered(b, k, ambient, connected) : b \in landed} ELSE landed

Interrupted(buffer) == IF buffer = {} THEN {} ELSE {"old"}

(* on_speech_started: a paced carrier's buffer is dropped and the carrier  *)
(* told nothing. The others, and the web client, are sent a clear, and the *)
(* receiver awaits that.                                                   *)
SpeechStarts(a, k) ==
  [a EXCEPT !.tts = Interrupted(@), !.out = {}, !.hand = Interrupted(@),
            !.peer = Interrupted(@), !.receiver = IF Paced(k) THEN "idle" ELSE "clear",
            !.lost = FALSE]

(* The clear has left, or failed; all but Sinch then empty the shared      *)
(* buffer. A clear that fails on Twilio raises instead, and ends the       *)
(* receiver (VoiceLiveDrops).                                              *)
Cleared(a, k, ambient) ==
  LET sent    == [a EXCEPT !.peer = {}, !.receiver = "idle"]
      failed  == [a EXCEPT !.lost = TRUE, !.receiver = "idle"]
      empties == ambient /\ k # "sinch"
  IN  {IF empties THEN [b EXCEPT !.tts = {}] ELSE b :
         b \in {sent} \cup (IF k = "twilio" THEN {} ELSE {failed})}

(* stop_forwarding_agent_audio. *)
Stop(a) == [a EXCEPT !.tts = {}]

(* The receiver ends, on Twilio perhaps by a clear that fails. *)
Dropped(a) ==
  [Stop(a) EXCEPT !.receiver = "idle", !.lost = @ \/ a.receiver = "clear"]
=============================================================================
