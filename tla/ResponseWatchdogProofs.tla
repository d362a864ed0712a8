----------------------- MODULE ResponseWatchdogProofs -----------------------
(***************************************************************************)
(* Safety of the response watchdog, for any number of responses and        *)
(* failures and any memory of timed-out responses of at least one: types,  *)
(* the race rule, the watched response, rejections and the audio.          *)
(*                                                                         *)
(* The argument: events arrive in order and one response runs at a time,   *)
(* so an event other than response.created is always about the newest      *)
(* response the bridge knows of, and the last entry of                     *)
(* _timed_out_response_ids tells whether that one was given up on.         *)
(***************************************************************************)
EXTENDS ResponseWatchdog, TLAPS

Kinds == {"created", "audio", "completed", "failed", "cancelled", "error"}
Events == [kind : Kinds, id : Nat]
Requests == [kind : {"create"}, id : Nat] \cup [kind : {"cancel"}, id : Responses]

(* Events about a response: an error names a request instead. *)
About(e) == e.kind # "error"

(* The events on their way are about the newest response the bridge knows  *)
(* of or newer ones, in the order of the responses.                        *)
NotOld ==
  \A i \in 1..Len(inbox) : About(inbox[i]) =>
    /\ inbox[i].id \in Responses
    /\ inbox[i].id <= started /\ inbox[i].id >= latest
    /\ inbox[i].kind = "created" => inbox[i].id > latest

InOrder ==
  \A i, j \in 1..Len(inbox) : i < j /\ About(inbox[i]) /\ About(inbox[j]) =>
    /\ inbox[i].id <= inbox[j].id
    /\ inbox[j].kind = "created" => inbox[i].id < inbox[j].id

(* A response the bridge does not know of has its response.created queued. *)
Announced ==
  \A k \in 1..started : k > latest =>
    \E i \in 1..Len(inbox) : inbox[i].kind = "created" /\ inbox[i].id = k

QueueInv ==
  /\ latest <= started
  /\ active = None \/ active = started
  /\ NotOld /\ InOrder
  /\ Running => Announced

(* What was decided about responses concerns known ones, never both ways,  *)
(* and the newest one is remembered if it was given up on.                 *)
ClaimInv ==
  /\ \A id \in handled \cup gaveUp : id <= latest
  /\ ActedOnOnce /\ WatchedIsOpen
  /\ latest \in gaveUp => Len(timedOut) > 0 /\ timedOut[Len(timedOut)] = latest

(* A tag is the newest retry's. *)
TagInv == tag = 0 \/ tag = retries

WatchdogInv == TypeOK /\ QueueInv /\ ClaimInv /\ TagInv

-----------------------------------------------------------------------------
(* Appending to a sequence. *)
LEMMA AppendFacts ==
  ASSUME NEW S, NEW s \in Seq(S), NEW e \in S
  PROVE  /\ Append(s, e) \in Seq(S)
         /\ Len(Append(s, e)) = Len(s) + 1
         /\ \A i \in 1..Len(s) : Append(s, e)[i] = s[i]
         /\ Append(s, e)[Len(s) + 1] = e
BY SMT

(* The tail of a nonempty sequence. *)
LEMMA TailFacts ==
  ASSUME NEW S, NEW s \in Seq(S), s # <<>>
  PROVE  /\ Tail(s) \in Seq(S) /\ Head(s) \in S /\ Head(s) = s[1]
         /\ Len(s) >= 1 /\ Len(Tail(s)) = Len(s) - 1
         /\ \A i \in 1..Len(s) - 1 : Tail(s)[i] = s[i + 1]
BY SMT

(* Marking the recoveries under which the failure count moved keeps them   *)
(* recoveries.                                                             *)
RecoveryType == [cause : Responses \cup {PendingRetry},
                 pc : {"start", "ack", "marker", "failing"},
                 attempt : Nat, moved : BOOLEAN]

LEMMA MovedType ==
  ASSUME NEW tasks, tasks \subseteq RecoveryType
  PROVE  Moved(tasks) \subseteq RecoveryType
BY DEF Moved, RecoveryType

(* Remembering a response keeps the last entries, and always the newest.   *)
LEMMA RememberFacts ==
  ASSUME timedOut \in Seq(Responses), Len(timedOut) <= Remembered,
         NEW id \in Responses, Remember(id)
  PROVE  /\ timedOut' \in Seq(Responses) /\ Len(timedOut') <= Remembered
         /\ Len(timedOut') > 0 /\ timedOut'[Len(timedOut')] = id
<1> DEFINE all == Append(timedOut, id)
<1>1. /\ all \in Seq(Responses) /\ Len(all) = Len(timedOut) + 1 /\ all[Len(all)] = id
  BY AppendFacts
<1>2. Len(timedOut) \in Nat /\ all # <<>>
  BY <1>1
<1>3. CASE Len(all) > Remembered
  <2>1. timedOut' = Tail(all)
    BY <1>3 DEF Remember
  <2>2. Tail(all) \in Seq(Responses) /\ Len(Tail(all)) = Len(all) - 1
    BY <1>1, <1>2, TailFacts
  <2>3. Remembered \in Nat \ {0} /\ Len(all) - 1 >= 1
    BY <1>1, <1>2, <1>3, ResponsesAssumption
  <2>4. Tail(all)[Len(all) - 1] = all[Len(all)]
    BY <1>1, <1>2, <2>3, TailFacts
  <2> QED BY <1>1, <1>2, <2>1, <2>2, <2>3, <2>4
<1>4. CASE ~(Len(all) > Remembered)
  BY <1>1, <1>2, <1>4, ResponsesAssumption DEF Remember
<1> QED BY <1>3, <1>4

-----------------------------------------------------------------------------
(* The queue. *)

(* Voice Live posts an event of the response it starts, of the response it *)
(* is running, or an error: the queue stays in order.                      *)
LEMMA PostKeepsQueue ==
  ASSUME TypeOK, QueueInv, NEW e \in Events, Post(e),
         UNCHANGED <<latest, receiver>>,
         started' \in 0..MaxResponses, active' = None \/ active' = started',
         e.kind = "created" => started' = started + 1 /\ e.id = started + 1,
         e.kind # "created" => started' = started,
         e.kind \notin {"created", "error"} => e.id = started,
         e.kind # "error" => e.id \in Responses
  PROVE  QueueInv'
<1>1. /\ inbox \in Seq(Events) /\ started \in Nat /\ latest \in Nat /\ latest <= started
      /\ inbox' = Append(inbox, e) /\ started' \in Nat /\ started <= started'
      /\ e.kind \in Kinds /\ e.id \in Nat
  BY DEF TypeOK, QueueInv, Events, Kinds, Ids, None, Responses, Post
<1>2. /\ inbox' \in Seq(Events) /\ Len(inbox') = Len(inbox) + 1 /\ Len(inbox) \in Nat
      /\ \A i \in 1..Len(inbox) : inbox'[i] = inbox[i]
      /\ inbox'[Len(inbox) + 1] = e
  BY <1>1, AppendFacts
<1>3. /\ \A i \in 1..Len(inbox) : inbox[i] \in Events
      /\ \A i \in 1..Len(inbox') : i \in 1..Len(inbox) \/ i = Len(inbox) + 1
  BY <1>1, <1>2
<1>4. NotOld'
  <2> SUFFICES ASSUME NEW i \in 1..Len(inbox'), About(inbox'[i])
               PROVE  /\ inbox'[i].id \in Responses
                      /\ inbox'[i].id <= started' /\ inbox'[i].id >= latest
                      /\ inbox'[i].kind = "created" => inbox'[i].id > latest
    BY DEF NotOld, About
  <2>1. CASE i \in 1..Len(inbox)
    <3>1. inbox'[i] = inbox[i] /\ inbox[i] \in Events
      BY <1>2, <1>3, <2>1
    <3> QED BY <1>1, <2>1, <3>1 DEF QueueInv, NotOld, About, Events
  <2>2. CASE i = Len(inbox) + 1
    BY <1>1, <1>2, <2>2 DEF About
  <2> QED BY <1>3, <2>1, <2>2
<1>5. InOrder'
  <2> SUFFICES ASSUME NEW i \in 1..Len(inbox'), NEW j \in 1..Len(inbox'), i < j,
                      About(inbox'[i]), About(inbox'[j])
               PROVE  /\ inbox'[i].id <= inbox'[j].id
                      /\ inbox'[j].kind = "created" => inbox'[i].id < inbox'[j].id
    BY DEF InOrder, About
  <2>1. i \in 1..Len(inbox) /\ inbox'[i] = inbox[i] /\ inbox[i] \in Events
    BY <1>2, <1>3
  <2>2. CASE j \in 1..Len(inbox)
    <3>1. inbox'[j] = inbox[j]
      BY <1>2, <2>2
    <3> QED BY <2>1, <2>2, <3>1 DEF QueueInv, InOrder
  <2>3. CASE j = Len(inbox) + 1
    <3>1. inbox[i].id \in Nat /\ inbox[i].id <= started
      BY <2>1 DEF QueueInv, NotOld, Events
    <3> QED BY <1>1, <1>2, <2>3, <3>1 DEF About
  <2> QED BY <1>3, <2>2, <2>3
<1>6. Running' => Announced'
  <2> SUFFICES ASSUME Running, NEW k \in 1..started', k > latest
               PROVE  \E i \in 1..Len(inbox') : inbox'[i].kind = "created" /\ inbox'[i].id = k
    BY DEF Announced, Running
  <2>1. CASE k \in 1..started
    <3>1. PICK i \in 1..Len(inbox) : inbox[i].kind = "created" /\ inbox[i].id = k
      BY <2>1 DEF QueueInv, Announced
    <3>2. i \in 1..Len(inbox') /\ inbox'[i] = inbox[i]
      BY <1>2
    <3> QED BY <3>1, <3>2
  <2>2. CASE k \notin 1..started
    <3>1. e.kind = "created" /\ e.id = k /\ Len(inbox) + 1 \in 1..Len(inbox')
      BY <1>1, <1>2, <2>2
    <3> QED BY <1>2, <3>1
  <2> QED BY <2>1, <2>2
<1> QED BY <1>1, <1>4, <1>5, <1>6 DEF QueueInv

(* What the bridge reads next is an event of the newest response it knows, *)
(* the start of the next one, or an error; reading keeps the queue.        *)
LEMMA HeadIsNewest ==
  ASSUME TypeOK, QueueInv, Running, inbox # <<>>
  PROVE  LET e == Head(inbox) IN
         /\ e \in Events
         /\ e.kind # "error" => e.id \in Responses
         /\ e.kind = "created" => e.id = latest + 1
         /\ e.kind \in Kinds \ {"created", "error"} => e.id = latest
<1> DEFINE e == Head(inbox)
<1>1. /\ inbox \in Seq(Events) /\ started \in 0..MaxResponses /\ latest \in Nat
      /\ latest <= started /\ MaxResponses \in Nat
  BY ResponsesAssumption DEF TypeOK, QueueInv, Events, Kinds, Ids, None, Responses
<1>2. /\ e \in Events /\ e = inbox[1] /\ Len(inbox) >= 1 /\ Len(inbox) \in Nat
      /\ \A i \in 1..Len(inbox) : inbox[i] \in Events
  BY <1>1, TailFacts
<1>3. ASSUME e.kind # "error", e.id > latest
      PROVE  e.kind = "created" /\ e.id = latest + 1
  <2>1. e.id \in Nat /\ e.id <= started
    BY <1>2, <1>3 DEF QueueInv, NotOld, About, Events
  <2>2. latest + 1 \in 1..started /\ latest + 1 > latest
    BY <1>1, <1>3, <2>1
  <2>3. PICK i \in 1..Len(inbox) : inbox[i].kind = "created" /\ inbox[i].id = latest + 1
    BY <2>2 DEF QueueInv, Announced
  <2>4. CASE i = 1
    BY <1>2, <2>3, <2>4
  <2>5. CASE i # 1
    <3>1. 1 \in 1..Len(inbox) /\ 1 < i /\ About(inbox[1]) /\ About(inbox[i])
      BY <1>2, <1>3, <2>3, <2>5 DEF About
    <3>2. inbox[1].id < latest + 1
      BY <2>3, <3>1 DEF QueueInv, InOrder
    <3> QED BY <1>1, <1>2, <1>3, <2>1, <3>2
  <2> QED BY <2>4, <2>5
<1>4. e.kind # "error" => /\ e.id \in Responses
                          /\ e.id \in Nat /\ e.id >= latest /\ e.id <= started
                          /\ e.kind = "created" => e.id > latest
  BY <1>2 DEF QueueInv, NotOld, About, Events
<1> HIDE DEF e
<1>5. e.kind = "created" => e.id = latest + 1
  BY <1>1, <1>3, <1>4
<1>6. e.kind \in Kinds \ {"created", "error"} => e.id = latest
  BY <1>1, <1>3, <1>4
<1> QED BY <1>2, <1>4, <1>5, <1>6 DEF e

LEMMA ReadKeepsQueue ==
  ASSUME TypeOK, QueueInv, Running, inbox # <<>>, inbox' = Tail(inbox),
         UNCHANGED serverVars,
         latest' = IF Head(inbox).kind = "created" THEN Head(inbox).id ELSE latest
  PROVE  QueueInv'
<1>1. /\ inbox \in Seq(Events) /\ started \in Nat /\ latest \in Nat /\ latest <= started
      /\ started' = started /\ active' = active
  BY DEF TypeOK, QueueInv, Events, Kinds, Ids, None, Responses, serverVars
<1>2. /\ Head(inbox) \in Events /\ Head(inbox) = inbox[1]
      /\ Len(inbox) >= 1 /\ Len(inbox) \in Nat
      /\ inbox' \in Seq(Events) /\ Len(inbox') = Len(inbox) - 1
      /\ \A i \in 1..Len(inbox) - 1 : inbox'[i] = inbox[i + 1]
      /\ \A i \in 1..Len(inbox) : inbox[i] \in Events
  BY <1>1, TailFacts
<1>3. Head(inbox).kind = "created" =>
        Head(inbox).id = latest + 1 /\ About(inbox[1]) /\ inbox[1].id <= started
  BY <1>2, HeadIsNewest DEF QueueInv, NotOld, About
<1>4. latest' \in Nat /\ latest <= latest' /\ latest' <= started
  BY <1>1, <1>2, <1>3
<1>5. \A i \in 1..Len(inbox') : i \in 1..Len(inbox) - 1 /\ i + 1 \in 1..Len(inbox)
                                /\ inbox'[i] = inbox[i + 1] /\ inbox'[i] \in Events
  BY <1>2
<1>6. NotOld'
  <2> SUFFICES ASSUME NEW i \in 1..Len(inbox'), About(inbox'[i])
               PROVE  /\ inbox'[i].id \in Responses
                      /\ inbox'[i].id <= started /\ inbox'[i].id >= latest'
                      /\ inbox'[i].kind = "created" => inbox'[i].id > latest'
    BY <1>1 DEF NotOld, About
  <2>1. /\ inbox'[i] = inbox[i + 1] /\ i + 1 \in 1..Len(inbox) /\ 1 < i + 1
        /\ About(inbox[i + 1]) /\ inbox[i + 1].id \in Nat /\ 1 \in 1..Len(inbox)
    BY <1>2, <1>5 DEF About, Events
  <2>2. /\ inbox[i + 1].id \in Responses
        /\ inbox[i + 1].id <= started /\ inbox[i + 1].id >= latest
        /\ inbox[i + 1].kind = "created" => inbox[i + 1].id > latest
    BY <2>1 DEF QueueInv, NotOld
  <2>3. CASE Head(inbox).kind = "created"
    <3>1. /\ inbox[1].id <= inbox[i + 1].id
          /\ inbox[i + 1].kind = "created" => inbox[1].id < inbox[i + 1].id
      BY <1>3, <2>1, <2>3 DEF QueueInv, InOrder
    <3> QED BY <1>2, <2>1, <2>2, <2>3, <3>1
  <2>4. CASE Head(inbox).kind # "created"
    BY <2>1, <2>2, <2>4
  <2> QED BY <2>3, <2>4
<1>7. InOrder'
  <2> SUFFICES ASSUME NEW i \in 1..Len(inbox'), NEW j \in 1..Len(inbox'), i < j,
                      About(inbox'[i]), About(inbox'[j])
               PROVE  /\ inbox'[i].id <= inbox'[j].id
                      /\ inbox'[j].kind = "created" => inbox'[i].id < inbox'[j].id
    BY DEF InOrder, About
  <2>1. /\ inbox'[i] = inbox[i + 1] /\ inbox'[j] = inbox[j + 1] /\ i + 1 < j + 1
        /\ i + 1 \in 1..Len(inbox) /\ j + 1 \in 1..Len(inbox)
    BY <1>5
  <2> QED BY <2>1 DEF QueueInv, InOrder
<1>8. Announced'
  <2> SUFFICES ASSUME NEW k \in 1..started, k > latest'
               PROVE  \E i \in 1..Len(inbox') : inbox'[i].kind = "created" /\ inbox'[i].id = k
    BY <1>1 DEF Announced
  <2>1. k > latest
    BY <1>1, <1>4
  <2>2. PICK i \in 1..Len(inbox) : inbox[i].kind = "created" /\ inbox[i].id = k
    BY <2>1 DEF QueueInv, Announced
  <2>3. i # 1
    BY <1>2, <2>2, <1>4
  <2>4. i - 1 \in 1..Len(inbox) - 1 /\ i - 1 \in 1..Len(inbox') /\ (i - 1) + 1 = i
    BY <1>2, <2>3
  <2> QED BY <1>2, <2>2, <2>4
<1> QED BY <1>1, <1>4, <1>6, <1>7, <1>8 DEF QueueInv

(* A step that touches neither the queue nor what is known keeps both.     *)
LEMMA QueueUntouched ==
  ASSUME QueueInv, UNCHANGED <<serverVars, inbox, latest>>, Running' => Running
  PROVE  QueueInv'
BY DEF QueueInv, NotOld, InOrder, Announced, About, serverVars

-----------------------------------------------------------------------------
(* The initial states satisfy the invariant. *)
LEMMA InitInv == Init => WatchdogInv
<1> SUFFICES ASSUME Init PROVE WatchdogInv
  OBVIOUS
<1>1. TypeOK
  <2>1. /\ <<>> \in Seq(Events) /\ <<>> \in Seq(Responses) /\ Len(<<>>) = 0
        /\ [kind |-> "create", id |-> 0] \in Requests
    BY DEF Requests
  <2>2. <<[kind |-> "create", id |-> 0]>> \in Seq(Requests)
    BY <2>1
  <2>3. /\ inbox \in Seq(Events) /\ outbox \in Seq(Requests) /\ timedOut \in Seq(Responses)
        /\ Len(timedOut) <= Remembered
    BY <2>1, <2>2, ResponsesAssumption DEF Init
  <2>4. /\ active \in Ids /\ started \in 0..MaxResponses /\ latest \in Ids /\ heard \in Ids
        /\ watch \in Ids /\ tag \in Nat /\ retries \in Nat /\ failures \in Nat
    BY ResponsesAssumption DEF Init, Ids, None
  <2>5. /\ receiver = "loop" /\ ended = FALSE /\ recoveries = {} /\ handled = {} /\ gaveUp = {}
    BY DEF Init
  <2> QED BY <2>3, <2>4, <2>5 DEF TypeOK, Events, Kinds, Requests
<1>2. QueueInv
  BY DEF Init, QueueInv, NotOld, InOrder, Announced, None
<1>3. ClaimInv
  BY DEF Init, ClaimInv, ActedOnOnce, WatchedIsOpen, None, Responses
<1>4. TagInv
  BY DEF Init, TagInv
<1> QED BY <1>1, <1>2, <1>3, <1>4 DEF WatchdogInv

(* What a step that neither reads an event nor gives up on a response      *)
(* leaves alone.                                                           *)
LEMMA ClaimsUntouched ==
  ASSUME ClaimInv, UNCHANGED <<handled, gaveUp, timedOut, latest>>,
         watch' \in {watch, None, PendingRetry}
  PROVE  ClaimInv'
BY DEF ClaimInv, ActedOnOnce, WatchedIsOpen, None, PendingRetry, Responses

(* Voice Live's steps. *)
LEMMA VoiceLiveKeepsInv ==
  ASSUME WatchdogInv, VoiceLive PROVE WatchdogInv'
<1> USE DEF WatchdogInv
<1>0. /\ active \in Ids /\ started \in 0..MaxResponses /\ MaxResponses \in Nat
      /\ inbox \in Seq(Events) /\ outbox \in Seq(Requests)
      /\ active = None \/ active = started
  BY ResponsesAssumption DEF TypeOK, Events, Kinds, Requests, QueueInv
<1>1. HandlerUnchanged
  BY DEF VoiceLive, StartsByItself, Speaks, Serve, Resolves
<1>2. /\ UNCHANGED <<receiver, watch, tag, retries, failures, timedOut, recoveries, ended>>
      /\ UNCHANGED <<latest, handled, gaveUp, heard>>
  BY <1>1 DEF HandlerUnchanged, watchVars, historyVars
<1> DEFINE Posted(e) ==
      /\ e \in Events /\ Post(e)
      /\ started' \in 0..MaxResponses
      /\ active' = None \/ active' = started'
      /\ e.kind = "created" => started' = started + 1 /\ e.id = started + 1
      /\ e.kind # "created" => started' = started
      /\ e.kind \notin {"created", "error"} => e.id = started
      /\ e.kind # "error" => e.id \in Responses
<1> DEFINE Quiet == inbox' = inbox /\ started' = started /\ active' \in {active, None}
<1>3. ASSUME Start PROVE Posted(Event("created", started + 1))
  BY <1>0, <1>3 DEF Start, Event, Events, Kinds, Responses
<1>4. (\E e : Posted(e)) \/ Quiet
  <2>1. CASE StartsByItself
    BY <1>3, <2>1 DEF StartsByItself
  <2>2. CASE Speaks
    <3>1. Posted(Event("audio", active))
      BY <1>0, <2>2 DEF Speaks, Event, Events, Kinds, Ids, None, Responses, serverVars
    <3> QED BY <3>1
  <2>3. ASSUME NEW status \in {"completed", "failed", "cancelled"}, Resolves(status)
        PROVE  \E e : Posted(e)
    <3>1. Posted(Event(status, active))
      BY <1>0, <2>3 DEF Resolves, Event, Events, Kinds, Ids, None, Responses
    <3> QED BY <3>1
  <2>4. CASE Serve
    <3>1. Head(outbox) \in Requests
      BY <1>0, <2>4, TailFacts DEF Serve
    <3>2. CASE Create(Head(outbox).id)
      <4>1. CASE Start
        BY <1>3, <4>1
      <4>2. CASE Post(Event("error", Head(outbox).id)) /\ UNCHANGED serverVars
        <5>1. Posted(Event("error", Head(outbox).id))
          BY <1>0, <3>1, <4>2 DEF Event, Events, Kinds, Requests, Responses, serverVars
        <5> QED BY <5>1
      <4>3. CASE UNCHANGED <<serverVars, inbox>>
        BY <4>3 DEF serverVars
      <4> QED BY <3>2, <4>1, <4>2, <4>3 DEF Create
    <3>3. CASE Head(outbox).kind = "cancel" /\ Cancel(Head(outbox).id)
      <4>1. CASE /\ active = Head(outbox).id /\ active' = None
                 /\ Post(Event("cancelled", Head(outbox).id))
        <5>1. Head(outbox).id \in Responses /\ active = started
          BY <1>0, <2>4, <3>1, <3>3, <4>1 DEF Requests, None, Responses
        <5>2. Posted(Event("cancelled", Head(outbox).id))
          BY <1>0, <3>3, <4>1, <5>1 DEF Cancel, Event, Events, Kinds, Responses
        <5> QED BY <5>2
      <4> QED BY <3>3, <4>1 DEF Cancel
    <3> QED BY <2>4, <3>2, <3>3 DEF Serve
  <2> QED BY <2>1, <2>2, <2>3, <2>4 DEF VoiceLive
<1>5. outbox' \in Seq(Requests)
  <2>1. outbox' = outbox \/ (outbox # <<>> /\ outbox' = Tail(outbox))
    BY DEF VoiceLive, StartsByItself, Speaks, Serve, Resolves
  <2> QED BY <1>0, <2>1, TailFacts
<1>6. /\ inbox' \in Seq(Events) /\ started' \in 0..MaxResponses /\ active' \in Ids /\ QueueInv'
  <2>1. ASSUME NEW e, Posted(e)
        PROVE  inbox' \in Seq(Events) /\ started' \in 0..MaxResponses /\ active' \in Ids /\ QueueInv'
    <3>1. inbox' \in Seq(Events)
      BY <1>0, <2>1, AppendFacts DEF Post
    <3>2. active' \in Ids
      BY <1>0, <2>1 DEF Ids, None, Responses
    <3>3. QueueInv'
      BY <1>2, <2>1, PostKeepsQueue
    <3> QED BY <2>1, <3>1, <3>2, <3>3
  <2>2. CASE Quiet
    <3>1. active' \in Ids /\ (active' = None \/ active' = started')
      BY <1>0, <2>2 DEF Ids
    <3>2. QueueInv'
      BY <1>2, <2>2, <3>1 DEF QueueInv, NotOld, InOrder, Announced, About, Running
    <3> QED BY <1>0, <2>2, <3>1, <3>2
  <2> QED BY <1>4, <2>1, <2>2
<1> HIDE DEF Posted, Quiet
<1>7. TypeOK'
  BY <1>2, <1>5, <1>6 DEF TypeOK, Events, Kinds, Requests
<1>8. ClaimInv'
  BY <1>2, ClaimsUntouched
<1>9. TagInv'
  BY <1>2 DEF TagInv
<1> QED BY <1>6, <1>7, <1>8, <1>9

-----------------------------------------------------------------------------
(* The types in the names of this module. *)
LEMMA TypeFacts ==
  ASSUME TypeOK
  PROVE  /\ inbox \in Seq(Events) /\ outbox \in Seq(Requests)
         /\ recoveries \subseteq RecoveryType
         /\ latest \in Nat /\ failures \in Nat /\ retries \in Nat /\ tag \in Nat
         /\ watch \in Responses \cup {None, PendingRetry}
         /\ timedOut \in Seq(Responses) /\ Len(timedOut) <= Remembered
BY ResponsesAssumption
DEF TypeOK, Events, Kinds, Requests, RecoveryType, Ids, None, Responses

(* Counting a stuck response and starting its recovery keeps the types. *)
LEMMA StuckTypes ==
  ASSUME TypeOK, NEW cause \in Responses \cup {PendingRetry},
         NEW tasks, tasks \subseteq RecoveryType,
         StuckEnds(tasks) \/ StuckRetries(cause, tasks)
  PROVE  /\ failures' \in Nat /\ ended' \in BOOLEAN
         /\ recoveries' \subseteq RecoveryType /\ outbox' \in Seq(Requests)
<1>1. failures \in Nat /\ outbox \in Seq(Requests) /\ ended \in BOOLEAN
  BY TypeFacts DEF TypeOK
<1>2. Moved(tasks) \subseteq RecoveryType
  BY MovedType
<1>3. CASE StuckEnds(tasks)
  BY <1>1, <1>2, <1>3 DEF StuckEnds, Count
<1>4. CASE StuckRetries(cause, tasks)
  <2> DEFINE r == Recovery(cause, IF cause = PendingRetry THEN "marker" ELSE "ack", failures + 1)
  <2>1. r \in RecoveryType
    BY <1>1 DEF Recovery, RecoveryType
  <2>2. /\ failures' = failures + 1 /\ ended' = ended
        /\ recoveries' = Moved(tasks) \cup {r}
        /\ (cause # PendingRetry /\ Send("cancel", cause)) \/ outbox' = outbox
    BY <1>4 DEF StuckRetries
  <2>3. outbox' \in Seq(Requests)
    <3>1. CASE cause # PendingRetry /\ Send("cancel", cause)
      <4>1. [kind |-> "cancel", id |-> cause] \in Requests
        BY <3>1 DEF Requests
      <4> QED BY <1>1, <3>1, <4>1, AppendFacts DEF Send
    <3> QED BY <1>1, <2>2, <3>1
  <2> HIDE DEF r
  <2> QED BY <1>1, <1>2, <2>1, <2>2, <2>3
<1> QED BY <1>3, <1>4

(* The watchdog claims the newest response, which is then remembered. *)
LEMMA WatchdogKeepsInv ==
  ASSUME WatchdogInv, WatchdogFires PROVE WatchdogInv'
<1> USE DEF WatchdogInv
<1>1. /\ watch # None /\ watch' = None /\ tag' = 0
      /\ StuckEnds(recoveries) \/ StuckRetries(watch, recoveries)
      /\ UNCHANGED <<active, started, inbox, receiver, retries, latest, handled, heard>>
  BY DEF WatchdogFires, CancelWatch, serverVars
<1>2. watch \in Responses \cup {PendingRetry}
  BY <1>1, TypeFacts
<1>3. /\ failures' \in Nat /\ ended' \in BOOLEAN
      /\ recoveries' \subseteq RecoveryType /\ outbox' \in Seq(Requests)
  BY <1>1, <1>2, TypeFacts, StuckTypes
<1>4. CASE watch = PendingRetry
  <2>1. UNCHANGED <<timedOut, gaveUp>>
    BY <1>4 DEF WatchdogFires
  <2>2. TypeOK'
    BY <1>1, <1>3, <2>1 DEF TypeOK, Requests, RecoveryType, Ids, None
  <2>3. ClaimInv'
    BY <1>1, <2>1, ClaimsUntouched
  <2>4. QueueInv'
    BY <1>1, QueueUntouched DEF serverVars, Running
  <2> QED BY <1>1, <2>2, <2>3, <2>4 DEF TagInv
<1>5. CASE watch # PendingRetry
  <2>1. watch \in Responses /\ Remember(watch) /\ gaveUp' = gaveUp \cup {watch}
    BY <1>2, <1>5 DEF WatchdogFires
  <2>2. /\ timedOut' \in Seq(Responses) /\ Len(timedOut') <= Remembered
        /\ Len(timedOut') > 0 /\ timedOut'[Len(timedOut')] = watch
    BY <2>1, TypeFacts, RememberFacts
  <2>3. TypeOK'
    BY <1>1, <1>3, <2>1, <2>2 DEF TypeOK, Requests, RecoveryType, Ids, None
  <2>4. watch = latest /\ watch \notin handled
    BY <2>1 DEF ClaimInv, WatchedIsOpen
  <2>5. latest \in Nat
    BY TypeFacts
  <2>6. ClaimInv'
    BY <1>1, <2>1, <2>2, <2>4, <2>5
    DEF ClaimInv, ActedOnOnce, WatchedIsOpen, None, Responses
  <2>7. QueueInv'
    BY <1>1, QueueUntouched DEF serverVars, Running
  <2> QED BY <1>1, <2>3, <2>6, <2>7 DEF TagInv
<1> QED BY <1>4, <1>5

(* The recoveries' own steps touch no event and claim nothing. *)
LEMMA RecoversKeepsInv ==
  ASSUME WatchdogInv, Recovers PROVE WatchdogInv'
<1> USE DEF WatchdogInv
<1>1. /\ UNCHANGED <<active, started, inbox, receiver, timedOut>>
      /\ UNCHANGED <<latest, handled, gaveUp, heard>>
  BY DEF Recovers, serverVars, historyVars
<1>2. PICK r \in recoveries : RejectedStarts(r) \/ AckEnds(r) \/ RetrySent(r)
                              \/ RetrySkipped(r) \/ RetryFails(r)
  BY DEF Recovers
<1>3. /\ recoveries \subseteq RecoveryType /\ r \in RecoveryType
      /\ failures \in Nat /\ retries \in Nat /\ tag \in Nat /\ ended \in BOOLEAN
      /\ outbox \in Seq(Requests) /\ watch \in Responses \cup {None, PendingRetry}
  BY TypeFacts DEF TypeOK
<1> DEFINE Kept == /\ failures' \in Nat /\ ended' \in BOOLEAN
                   /\ recoveries' \subseteq RecoveryType /\ outbox' \in Seq(Requests)
                   /\ tag' \in Nat /\ retries' \in Nat
                   /\ watch' \in {watch, None, PendingRetry}
                   /\ tag' = 0 \/ tag' = retries'
<1>4. ASSUME RejectedStarts(r) PROVE Kept
  <2>1. recoveries \ {r} \subseteq RecoveryType /\ UNCHANGED <<watch, tag, retries>>
    BY <1>3, <1>4 DEF RejectedStarts, watchVars
  <2>2. CASE StuckEnds(recoveries \ {r}) \/ StuckRetries(PendingRetry, recoveries \ {r})
    <3>1. /\ failures' \in Nat /\ ended' \in BOOLEAN
          /\ recoveries' \subseteq RecoveryType /\ outbox' \in Seq(Requests)
      BY <2>1, <2>2, StuckTypes
    <3> QED BY <1>3, <2>1, <3>1 DEF TagInv
  <2>3. CASE Count(failures + 1, recoveries \ {r}) /\ UNCHANGED <<outbox, ended>>
    <3>1. Moved(recoveries \ {r}) \subseteq RecoveryType
      BY <2>1, MovedType
    <3>2. /\ failures' = failures + 1 /\ outbox' = outbox /\ ended' = ended
          /\ recoveries' = recoveries \ {r} \/ recoveries' = Moved(recoveries \ {r})
      BY <2>3 DEF Count
    <3>3. recoveries' \subseteq RecoveryType
      BY <2>1, <3>1, <3>2
    <3> QED BY <1>3, <2>1, <3>2, <3>3 DEF TagInv
  <2> QED BY <1>4, <2>2, <2>3 DEF RejectedStarts
<1>5. ASSUME AckEnds(r) PROVE Kept
  <2>1. [r EXCEPT !.pc = "marker"] \in RecoveryType
    BY <1>3 DEF RecoveryType
  <2> QED BY <1>3, <1>5, <2>1 DEF AckEnds, watchVars, TagInv
<1>6. ASSUME RetrySent(r) PROVE Kept
  <2>1. [r EXCEPT !.pc = "failing"] \in RecoveryType
    BY <1>3 DEF RecoveryType
  <2>2. Append(outbox, [kind |-> "create", id |-> retries + 1]) \in Seq(Requests)
    <3>1. [kind |-> "create", id |-> retries + 1] \in Requests
      BY <1>3 DEF Requests
    <3> QED BY <1>3, <3>1, AppendFacts
  <2>3. recoveries' \subseteq RecoveryType /\ outbox' \in Seq(Requests)
    <3>1. CASE Send("create", retries + 1) /\ recoveries' = recoveries \ {r}
      BY <1>3, <2>2, <3>1 DEF Send
    <3>2. CASE /\ UNCHANGED outbox
               /\ recoveries' = (recoveries \ {r}) \cup {[r EXCEPT !.pc = "failing"]}
      BY <1>3, <2>1, <3>2
    <3> QED BY <1>6, <3>1, <3>2 DEF RetrySent
  <2>4. /\ watch' = PendingRetry /\ tag' = retries + 1 /\ retries' = retries + 1
        /\ failures' = failures /\ ended' = ended
    BY <1>6 DEF RetrySent
  <2> QED BY <1>3, <2>3, <2>4
<1>7. ASSUME RetrySkipped(r) PROVE Kept
  BY <1>3, <1>7 DEF RetrySkipped, watchVars, TagInv
<1>8. ASSUME RetryFails(r) PROVE Kept
  BY <1>3, <1>8 DEF RetryFails, watchVars, CancelWatch, TagInv
<1>9. Kept
  BY <1>2, <1>4, <1>5, <1>6, <1>7, <1>8
<1>10. TypeOK'
  BY <1>1, <1>3, <1>9 DEF TypeOK, Requests, RecoveryType, Ids, None
<1>11. ClaimInv'
  BY <1>1, <1>9, ClaimsUntouched
<1>12. QueueInv'
  BY <1>1, QueueUntouched DEF serverVars, Running
<1> QED BY <1>9, <1>10, <1>11, <1>12 DEF TagInv

-----------------------------------------------------------------------------
(* An event of a response the bridge has not forgotten about: unless it is *)
(* in _timed_out_response_ids, the watchdog did not give up on it.         *)
LEMMA NotGivenUp ==
  ASSUME TypeOK, ClaimInv,
         ~ \E i \in 1..Len(timedOut) : timedOut[i] = latest
  PROVE  latest \notin gaveUp
<1>1. Len(timedOut) \in Nat
  BY TypeFacts
<1> QED BY <1>1 DEF ClaimInv

(* The receiver reads one event: response.created is watched,              *)
(* response.done is acted on once, audio is forwarded or dropped, an error *)
(* may claim the pending retry.                                            *)
LEMMA ReceiveKeepsInv ==
  ASSUME WatchdogInv, Receive PROVE WatchdogInv'
<1> USE DEF WatchdogInv
<1> DEFINE e == Head(inbox)
<1>1. /\ receiver = "loop" /\ inbox # <<>> /\ inbox' = Tail(inbox) /\ Running
      /\ ReadCreated(e) \/ ReadAudio(e) \/ ReadDone(e) \/ ReadError(e)
      /\ UNCHANGED <<active, started, outbox, retries, timedOut, gaveUp>>
  BY DEF Receive, Running, serverVars
<1>2. /\ e \in Events
      /\ e.kind # "error" => e.id \in Responses
      /\ e.kind = "created" => e.id = latest + 1
      /\ e.kind \in Kinds \ {"created", "error"} => e.id = latest
  BY <1>1, HeadIsNewest
<1>3. /\ latest \in Nat /\ failures \in Nat /\ tag \in Nat /\ retries \in Nat
      /\ recoveries \subseteq RecoveryType /\ Moved(recoveries) \subseteq RecoveryType
      /\ watch \in Responses \cup {None, PendingRetry} /\ inbox' \in Seq(Events)
      /\ ended \in BOOLEAN /\ heard \in Ids /\ latest \in Ids /\ handled \subseteq Responses
      /\ receiver \in {"loop", "retry", "stopped"}
  BY <1>1, TypeFacts, TailFacts, MovedType DEF TypeOK
<1>4. e.kind # "created" => UNCHANGED latest
  BY <1>1 DEF ReadCreated, ReadAudio, ReadDone, ReadError
<1>5. e.kind = "created" => latest' = e.id
  BY <1>1 DEF ReadCreated, ReadAudio, ReadDone, ReadError
<1>6. QueueInv'
  BY <1>1, <1>4, <1>5, ReadKeepsQueue DEF serverVars
<1> HIDE DEF e
<1> DEFINE Kept == /\ receiver' \in {"loop", "retry", "stopped"} /\ ended' \in BOOLEAN
                   /\ failures' \in Nat /\ recoveries' \subseteq RecoveryType
                   /\ watch' \in Responses \cup {None, PendingRetry}
                   /\ tag' \in {0, tag}
                   /\ latest' \in Ids /\ heard' \in Ids /\ handled' \subseteq Responses
<1>7. ASSUME ReadCreated(e) PROVE Kept /\ ClaimInv'
  <2>1. /\ e.id = latest + 1 /\ e.id \in Responses
        /\ watch' = e.id /\ tag' = 0 /\ latest' = e.id
        /\ UNCHANGED <<receiver, failures, recoveries, ended, handled, heard>>
    BY <1>2, <1>7 DEF ReadCreated, Arm
  <2>2. Kept
    BY <1>3, <2>1 DEF Ids
  <2>3. ClaimInv'
    BY <1>1, <1>3, <2>1 DEF ClaimInv, ActedOnOnce, WatchedIsOpen, Responses
  <2> QED BY <2>2, <2>3
<1>8. ASSUME ReadAudio(e) PROVE Kept /\ ClaimInv'
  <2>1. /\ e.kind = "audio" /\ heard' \in {heard, e.id}
        /\ UNCHANGED <<receiver, watch, tag, failures, recoveries, ended, latest, handled>>
    BY <1>8 DEF ReadAudio, watchVars
  <2>2. e.id = latest
    BY <1>2, <2>1 DEF Kinds
  <2>3. Kept
    BY <1>3, <2>1, <2>2
  <2>4. ClaimInv'
    BY <1>1, <2>1, ClaimsUntouched
  <2> QED BY <2>3, <2>4
<1>9. ASSUME ReadDone(e) PROVE Kept /\ ClaimInv'
  <2>1. /\ e.kind \in {"completed", "failed", "cancelled"} /\ UNCHANGED <<latest, heard>>
    BY <1>9 DEF ReadDone
  <2>2. e.id = latest
    BY <1>2, <2>1 DEF Kinds
  <2>3. CASE \E j \in 1..Len(timedOut) : timedOut[j] = e.id
    <3>1. UNCHANGED <<receiver, watch, tag, failures, recoveries, ended, handled>>
      BY <1>9, <2>3 DEF ReadDone, watchVars
    <3>2. Kept
      BY <1>3, <2>1, <3>1
    <3>3. ClaimInv'
      BY <1>1, <2>1, <3>1, ClaimsUntouched
    <3> QED BY <3>2, <3>3
  <2>4. CASE ~ \E j \in 1..Len(timedOut) : timedOut[j] = e.id
    <3>1. /\ Disarm(e.id) /\ handled' = handled \cup {e.id}
          /\ \/ e.kind = "completed" /\ Completed
             \/ e.kind = "failed" /\ Failed
             \/ e.kind = "cancelled" /\ UNCHANGED <<receiver, failures, recoveries, ended>>
      BY <1>9, <2>4 DEF ReadDone
    <3>2. e.id \notin gaveUp
      BY <2>2, <2>4, NotGivenUp
    <3>3. /\ receiver' \in {"loop", "retry", "stopped"} /\ ended' \in BOOLEAN
          /\ failures' \in Nat /\ recoveries' \subseteq RecoveryType
      <4>1. CASE Completed
        BY <1>3, <4>1 DEF Completed, Count
      <4>2. CASE Failed
        <5>1. failures' = failures + 1 /\ recoveries' \in {recoveries, Moved(recoveries)}
          BY <4>2 DEF Failed, Count
        <5>2. \/ receiver' = "retry" /\ ended' = ended
              \/ receiver' = receiver /\ ended' = TRUE
          BY <4>2 DEF Failed
        <5>3. failures' \in Nat /\ recoveries' \subseteq RecoveryType
          BY <1>3, <5>1
        <5>4. receiver' \in {"loop", "retry", "stopped"} /\ ended' \in BOOLEAN
          BY ONLY <1>3, <5>2, Zenon
        <5> QED BY <5>3, <5>4
      <4>3. CASE UNCHANGED <<receiver, failures, recoveries, ended>>
        BY <1>3, <4>3
      <4> QED BY <3>1, <4>1, <4>2, <4>3
    <3>4. /\ watch' \in {watch, None} /\ tag' \in {0, tag}
          /\ watch = e.id => watch' = None
      BY <3>1 DEF Disarm, CancelWatch, watchVars
    <3>5. e.id \in Responses
      BY <1>2, <2>1
    <3>6. Kept
      BY <1>3, <2>1, <3>1, <3>3, <3>4, <3>5
    <3>7. ClaimInv'
      BY <1>1, <1>3, <2>1, <2>2, <3>1, <3>2, <3>4
      DEF ClaimInv, ActedOnOnce, WatchedIsOpen, None, Responses
    <3> QED BY <3>6, <3>7
  <2> QED BY <2>3, <2>4
<1>10. ASSUME ReadError(e) PROVE Kept /\ ClaimInv'
  <2>1. Recovery(PendingRetry, "start", 0) \in RecoveryType
    BY DEF Recovery, RecoveryType
  <2>2. /\ UNCHANGED <<receiver, failures, ended, latest, handled, heard>>
        /\ watch' \in {watch, None} /\ tag' \in {0, tag}
        /\ recoveries' \in {recoveries, recoveries \cup {Recovery(PendingRetry, "start", 0)}}
    BY <1>10 DEF ReadError, CancelWatch, watchVars
  <2>3. Kept
    BY <1>3, <2>1, <2>2
  <2>4. ClaimInv'
    BY <1>1, <2>2, ClaimsUntouched
  <2> QED BY <2>3, <2>4
<1>11. Kept /\ ClaimInv'
  BY <1>1, <1>7, <1>8, <1>9, <1>10
<1>12. TypeOK'
  <2>1. Kept /\ inbox' \in Seq(Events)
    BY <1>3, <1>11
  <2>2. UNCHANGED <<active, started, outbox, retries, timedOut, gaveUp>> /\ tag \in Nat
    BY <1>1, <1>3
  <2> QED BY <2>1, <2>2 DEF TypeOK, Events, Kinds, RecoveryType, Ids
<1>13. TagInv'
  BY <1>1, <1>11 DEF TagInv
<1> QED BY <1>6, <1>11, <1>12, <1>13

(* The FAILED path's own retry. *)
LEMMA ReceiverRetriesKeepsInv ==
  ASSUME WatchdogInv, ReceiverRetries PROVE WatchdogInv'
<1> USE DEF WatchdogInv
<1>1. /\ receiver = "retry" /\ receiver' = "loop"
      /\ UNCHANGED <<active, started, inbox, watch, tag, retries, failures, timedOut, recoveries>>
      /\ UNCHANGED <<latest, handled, gaveUp, heard>>
      /\ ended' \in {ended, TRUE}
      /\ Send("create", 0) \/ outbox' = outbox
  BY DEF ReceiverRetries, serverVars, watchVars, historyVars
<1>2. outbox' \in Seq(Requests)
  <2>1. [kind |-> "create", id |-> 0] \in Requests
    BY DEF Requests
  <2> QED BY <1>1, <2>1, TypeFacts, AppendFacts DEF Send
<1>3. ended' \in BOOLEAN
  BY <1>1 DEF TypeOK
<1>4. TypeOK'
  BY <1>1, <1>2, <1>3 DEF TypeOK, Requests
<1>5. ClaimInv'
  BY <1>1, ClaimsUntouched
<1>6. QueueInv'
  BY <1>1, QueueUntouched DEF serverVars, Running
<1> QED BY <1>1, <1>4, <1>5, <1>6 DEF TagInv

(* The end of the connection: nothing is queued or watched any more. *)
LEMMA StopsKeepsInv ==
  ASSUME WatchdogInv, Stops PROVE WatchdogInv'
<1> USE DEF WatchdogInv
<1>1. /\ receiver' = "stopped" /\ watch' = None /\ tag' = 0 /\ recoveries' = {}
      /\ inbox' = <<>> /\ outbox' = <<>> /\ ended' \in {ended, TRUE}
      /\ UNCHANGED <<active, started, retries, failures, timedOut>>
      /\ UNCHANGED <<latest, handled, gaveUp, heard>>
  BY DEF Stops, CancelWatch, serverVars, historyVars
<1>2. ended' \in BOOLEAN /\ inbox' \in Seq(Events) /\ outbox' \in Seq(Requests)
  <2>1. ended \in BOOLEAN
    BY DEF TypeOK
  <2>2. ended' \in BOOLEAN
    BY <1>1, <2>1, Zenon
  <2>3. <<>> \in Seq(Events) /\ <<>> \in Seq(Requests)
    OBVIOUS
  <2> QED BY <1>1, <2>2, <2>3
<1>3. TypeOK'
  BY <1>1, <1>2 DEF TypeOK, Events, Kinds, Requests, Ids
<1>4. ClaimInv'
  BY <1>1, ClaimsUntouched
<1>5. QueueInv'
  BY <1>1 DEF QueueInv, NotOld, InOrder, Running
<1> QED BY <1>1, <1>3, <1>4, <1>5 DEF TagInv

(* Every step keeps the invariant. *)
LEMMA StepKeepsInv == WatchdogInv /\ [Next]_vars => WatchdogInv'
<1> SUFFICES ASSUME WatchdogInv, [Next]_vars PROVE WatchdogInv'
  OBVIOUS
<1>1. CASE Running /\ VoiceLive
  BY <1>1, VoiceLiveKeepsInv
<1>2. CASE WatchdogFires
  BY <1>2, WatchdogKeepsInv
<1>3. CASE Recovers
  BY <1>3, RecoversKeepsInv
<1>4. CASE Receive
  BY <1>4, ReceiveKeepsInv
<1>5. CASE ReceiverRetries
  BY <1>5, ReceiverRetriesKeepsInv
<1>6. CASE Stops
  BY <1>6, StopsKeepsInv
<1>7. CASE UNCHANGED vars
  BY <1>7 DEF vars, serverVars, watchVars, historyVars, WatchdogInv, TypeOK, QueueInv, NotOld,
     InOrder, Announced, About, Running, ClaimInv, ActedOnOnce, WatchedIsOpen, TagInv
<1> QED BY <1>1, <1>2, <1>3, <1>4, <1>5, <1>6, <1>7 DEF Next

-----------------------------------------------------------------------------
(* The inductive invariant holds: events arrive in the order of the        *)
(* responses, and what was decided about a response is decided once.       *)
THEOREM WatchdogInvHolds == Spec => []WatchdogInv
BY InitInv, StepKeepsInv, PTL DEF Spec

(* Every variable of the handler keeps its type, and no more timed-out     *)
(* responses are remembered than _timed_out_response_ids has room for.     *)
THEOREM TypeCorrect == Spec => []TypeOK
BY WatchdogInvHolds, PTL DEF WatchdogInv

(* The race rule of the receiver loop: the watchdog and response.done      *)
(* never both act on one response, even if the bridge remembers only one.  *)
THEOREM OneClaim == Spec => []ActedOnOnce
<1>1. WatchdogInv => ActedOnOnce
  BY DEF WatchdogInv, ClaimInv
<1> QED BY <1>1, WatchdogInvHolds, PTL

(* The response being watched is the newest one and is unresolved: no      *)
(* watchdog outlives its response.                                         *)
THEOREM NoLeftoverWatchdog == Spec => []WatchedIsOpen
<1>1. WatchdogInv => WatchedIsOpen
  BY DEF WatchdogInv, ClaimInv
<1> QED BY <1>1, WatchdogInvHolds, PTL

(* The audio of a response the watchdog gave up on is never forwarded.     *)
THEOREM GivenUpIsSilent == Spec => NoTalkingOver
<1>1. WatchdogInv /\ [Next]_vars => [heard' # heard => heard' \notin gaveUp]_heard
  <2> SUFFICES ASSUME WatchdogInv, [Next]_vars, heard' # heard PROVE heard' \notin gaveUp
    OBVIOUS
  <2>1. Receive
    BY DEF Next, VoiceLive, StartsByItself, Speaks, Serve, Resolves, HandlerUnchanged,
       WatchdogFires, Recovers, ReceiverRetries, Stops, vars, historyVars
  <2>2. ReadAudio(Head(inbox))
    BY <2>1 DEF Receive, ReadCreated, ReadDone, ReadError
  <2>3. /\ heard' = Head(inbox).id /\ Head(inbox).kind = "audio"
        /\ ~ \E i \in 1..Len(timedOut) : timedOut[i] = Head(inbox).id
    BY <2>2 DEF ReadAudio
  <2>4. Head(inbox).id = latest
    BY <2>1, <2>3, HeadIsNewest DEF Receive, Running, WatchdogInv, Kinds
  <2> QED BY <2>3, <2>4, NotGivenUp DEF WatchdogInv
<1> QED BY <1>1, WatchdogInvHolds, PTL DEF Spec, NoTalkingOver

(* A recovery that has not run yet is not marked. *)
LEMMA MovedStarts ==
  ASSUME NEW tasks, tasks \subseteq RecoveryType, NEW m \in Moved(tasks), m.pc = "start"
  PROVE  m \in tasks
<1>1. PICK t \in tasks :
        m = IF t.pc \in {"ack", "marker"} THEN [t EXCEPT !.moved = TRUE] ELSE t
  BY DEF Moved
<1>2. t \in RecoveryType
  OBVIOUS
<1>3. t.pc \in {"ack", "marker"} => [t EXCEPT !.moved = TRUE].pc = t.pc
  BY <1>2 DEF RecoveryType
<1> QED BY <1>1, <1>3

(* Only the rejection of the retry that is pending, the newest one, is     *)
(* taken as a failed response.                                             *)
THEOREM OwnRejection == Spec => RejectionIsOurs
<1> DEFINE Ours == (\E r \in recoveries' \ recoveries : r.pc = "start")
                     => watch = PendingRetry /\ Head(inbox).id = retries
<1>1. WatchdogInv /\ [Next]_vars => [Ours]_vars
  <2> SUFFICES ASSUME WatchdogInv, Next, NEW r \in recoveries' \ recoveries, r.pc = "start"
               PROVE  watch = PendingRetry /\ Head(inbox).id = retries
    OBVIOUS
  <2>1. CASE Receive
    <3>1. ReadError(Head(inbox)) \/ UNCHANGED recoveries \/ recoveries' = Moved(recoveries)
      BY <2>1 DEF Receive, ReadCreated, ReadAudio, ReadDone, ReadError, Completed, Failed, Count
    <3>2. CASE ReadError(Head(inbox))
      BY <3>2 DEF ReadError, WatchdogInv, TagInv
    <3>3. CASE recoveries' = Moved(recoveries)
      BY <3>3, TypeFacts, MovedStarts DEF WatchdogInv
    <3> QED BY <3>1, <3>2, <3>3
  <2>2. CASE WatchdogFires
    <3>1. /\ recoveries' \subseteq recoveries \cup Moved(recoveries)
                                  \cup {Recovery(watch, "ack", failures + 1),
                                        Recovery(watch, "marker", failures + 1)}
      BY <2>2 DEF WatchdogFires, StuckEnds, StuckRetries, Count
    <3>2. r \in Moved(recoveries)
      BY <3>1 DEF Recovery
    <3> QED BY <3>2, TypeFacts, MovedStarts DEF WatchdogInv
  <2>3. CASE Recovers
    <3>1. PICK q \in recoveries : RejectedStarts(q) \/ AckEnds(q) \/ RetrySent(q)
                                  \/ RetrySkipped(q) \/ RetryFails(q)
      BY <2>3 DEF Recovers
    <3> DEFINE Others == recoveries \ {q}
               New == {Recovery(PendingRetry, "marker", failures + 1),
                       [q EXCEPT !.pc = "marker"], [q EXCEPT !.pc = "failing"]}
    <3>2. q \in RecoveryType /\ Others \subseteq RecoveryType
      BY TypeFacts DEF WatchdogInv
    <3>3. recoveries' \subseteq Others \cup Moved(Others) \cup New
      <4>1. ASSUME RejectedStarts(q)
            PROVE  recoveries' \subseteq Others \cup Moved(Others) \cup New
        BY <4>1 DEF RejectedStarts, StuckEnds, StuckRetries, Count
      <4>2. ASSUME AckEnds(q) \/ RetrySent(q) \/ RetrySkipped(q) \/ RetryFails(q)
            PROVE  recoveries' \subseteq Others \cup New
        BY <4>2 DEF AckEnds, RetrySent, RetrySkipped, RetryFails
      <4> QED BY <3>1, <4>1, <4>2
    <3>4. \A n \in New : n.pc \in {"marker", "failing"}
      BY <3>2 DEF Recovery, RecoveryType
    <3>5. r \in Moved(Others)
      BY <3>3, <3>4
    <3> QED BY <3>2, <3>5, MovedStarts
  <2>4. CASE (Running /\ VoiceLive) \/ ReceiverRetries \/ Stops
    BY <2>4 DEF VoiceLive, StartsByItself, Speaks, Serve, Resolves, HandlerUnchanged,
       ReceiverRetries, Stops
  <2> QED BY <2>1, <2>2, <2>3, <2>4 DEF Next
<1> QED BY <1>1, WatchdogInvHolds, PTL DEF Spec, RejectionIsOurs
=============================================================================
