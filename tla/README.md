# Verification of the voice agent bridge and its tools

This directory holds TLA+ specifications of the programs in this repository, TLC configurations that
check them on small instances, and TLAPS proofs of the properties that matter most for every value of
the parameters. It is meant to be read next to the code; `PROJECT.json` names, for every definition,
the source lines it models (`map`), what each run checks (`runs`), which bug each property would catch
(`mutants`), and which lines are hard to test (`hazards`).

How to run, in this directory:

    tlc -workers 2 -config Race.cfg MCBooking.tla      # a run: <name>.cfg with the module of the table below
    tlapm BookingProofs.tla                            # the proofs of a module

## 1. The system

Three programs cooperate during a phone call.

| Program | State it keeps | Operations | Talks to |
|---|---|---|---|
| **Telephony bridge** (`src/server/app`) | one session per call, its registry and timers, one Voice Live connection and its audio buffers, the places of active calls | incoming call, callbacks, media socket, Voice Live events, expiry, sweep | the telephony carriers, Azure Voice Live |
| **Calendar tool** (`src/agent-tools/calendar`) | claims on five-minute cells in a key-value store; events in a vendor calendar; a key ring for slot tokens; a cache of signing keys | `check_availability`, `book_appointment`, `find_bookings`, cancel | vendor calendar, claim store, token issuer |
| **SMS tool** (`src/agent-tools/sms-notify`) | three kinds of blobs: dedupe claims, a cooldown stamp, hourly slots; a cache of signing keys | `notify` | Blob Storage, Twilio, Key Vault |

The agent behind Voice Live calls the two tools over HTTP; nothing else is shared. The tools run on any
number of serverless instances that may die or be retried at any moment. The bridge is one asyncio event
loop per instance, with one caller on every call.

### 1.1 Calendar tool: booking

*State.* `claims`: per physical calendar and cell, nothing or a record (owner and attempt, pending or
booked, event). Events live at the vendor; every event of this service carries its fingerprint.
*Operations.* `book_appointment` claims all cells of the slot one by one by compare-and-swap, checks busy
times and the contact's bookings, creates the event, looks for duplicates, finalizes the claims. Whatever
it meets that is in the way (a stale pending claim, a booked claim whose event is gone) it recovers.
*Interactions.* Requests meet only in the claim store and the vendor calendar.
*Hard.* Every await may interleave with other requests; every call may fail, or succeed and lose its
answer; events become visible late; an instance may die between any two steps; the host edits events by
hand; the same booking is retried concurrently.
A request has eight seconds, shared by all its calls.
*Correct means.* No two active bookings overlap (unless the host moves one); `unavailable` and
`slot_taken` are never said about a booking that exists; a booked event is not deleted by cleaning up; a
claim never names somebody else's event; only stale or own claims are touched; every request
answers, and is over before its claims count as abandoned; a create is never begun without the time for it and for
what follows.

### 1.2 Calendar tool: offers

*State.* None of its own beyond the bindings loaded at the start: the clock, the slot keys in the vault, the bindings' configuration and the
calendar. *Operations.* `check_availability` computes free slots in the binding's zone and signs one token
per slot; `book_appointment` verifies the token (step 1), checks the times again (step 4), reads busy time
(step 5) and claims the slot's cells (step 6).
*Hard.* Local hours that a clock change skips or repeats; buffers; busy times inside one another; the clock,
the keys and the calendar move between the offer and the booking; two bindings of one calendar.
*Correct means.* What is offered can be booked, within the hours, clear of busy time; nothing free is left
out without saying so; a token is refused only for its age; what gets booked is apart by the buffer; a binding that
loads can be booked.

### 1.3 The front of both tools

*State.* Per process a `JwksCache` with its lock. *Operations.* A request passes the checks in their order
(path, size, token, key, claims, binding, body), waits for the lock, may fetch the tenant's keys, runs its
operation and answers. *Hard.* Maximum age, stale cap, refresh of unknown keys and the pause after a failure
interact; requests queue behind one fetch and run out of time; the tenant rotates keys and its endpoint fails.
*Correct means.* A withdrawn key is not accepted past the cap; the endpoint is not asked more often than the
pauses allow; a new key is known soon; the lock is never lost.

### 1.4 SMS tool

*State.* `dedupe` per text, `cooldown`, `rate` per hour and slot; each blob is created or replaced
conditionally on its etag. *Operations.* `notify`: claim the text or take an expired claim over, take the
cooldown, take an hourly slot, send once per recipient, write the outcome back.
*Hard.* Races for each of the three limits, a claim that expires while its owner is still sending, sends
whose fate is unknown, partial delivery, blobs deleted by the storage lifecycle rule.
*Correct means.* One text is not sent twice in the dedupe window; senders are a cooldown apart; no more
senders in an hour than slots; the code answered tells the worst that happened to any recipient;
`already_sent` means everybody got it.

### 1.5 Telephony bridge

*ACS call session* (`providers/acs`): session flags, timers, registry and connection index, tasks
`_terminate`, `_safe_hang_up`, `_finalize`, the close task. Every end goes through `request_end`.
*Voice Live connection* (`handler/voicelive_media_handler.py`, `providers/acs/media_handler.py`): the
handshake, the receiver, `cleanup`, the late close, the forced close.
*Response watchdog* (same handler): a timer per response, a retry, and late events for a response that has
been given up. *Call manager* (`call_manager.py`): places and expiry. *Call loop* (`call_loop.py`): the
connect task, the receive and its timeout, the clean-up, for every carrier but ACS. *Twilio provider*: one socket
for signalling and media, one way to end. *Infobip, Genesys, Sinch, Bandwidth, web client*: handshakes, pause,
paced or direct audio. *Audio buffers*: agent audio waits in a shared buffer when ambient sound is mixed in, in a
paced buffer, in a send the loop or the receiver awaits, and at the carrier.
*Hard.* A connect, a drop, a hang-up and an expiry of one call fall together; a message lands in the instant of a
timeout; the caller interrupts. Callbacks arrive before the answer, out of order, twice or never; a hang-up fails; a handshake ends
after its call; timers race with what they wait for; a close hangs; a response, its cancel and its retry may
each stay without an answer, or be answered after the bridge gave them up.
*Correct means.* A response is acted on by the watchdog or by its event, never both; the caller never hears an
answer that was given up on and is not left in silence after one; only the pending retry's own rejection
counts. A session ends for one reason; a caller is not left connected to a session that ended;
Voice Live is closed and not billed on; the registry and the places leak nothing; no message is lost; an
interruption silences what was said before; every call ends.

### 1.6 Left out

Data handling without state: phone numbers, templates, names and display, settings, routing, wire formats, sample arithmetic of the mixer, deployment templates, logging. `PROJECT.json` lists every part with the
reason.

## 2. The modules

| Module | Models | Extends |
|---|---|---|
| `ClaimStore` | `core/claims.py`: one record per cell, compare-and-swap writes | |
| `Calendar` | the vendor as `providers/base.py` describes it: events, visibility, retry dedupe | `ClaimStore` |
| `BookingRequest` | the local state of one `book()` invocation and the loops it goes round | `Calendar` |
| `Recovery` | `core/recovery.py` | `BookingRequest` |
| `Booking` | `core/booking.py` steps 1-8, crashes, ageing, host edits; all composed | `Recovery` |
| `Deadline` | `core/deadline.py`: the timeouts a budget leaves | |
| `RequestBudget` | the calls of `core/booking.py` and `core/recovery.py` against the clock | `Deadline` |
| `Bindings` | `core/bindings.py`: what of a document is loaded, and what a loaded binding has to be (`Sound`) | `Deadline`, `Slots`, `Cells` |
| `ExclusiveSlots` | abstract: what booking promises, a ledger of cells; implemented by `Booking`, used by `Offers` | |
| `Cells` | `core/identity.py`: five-minute cells and buffers | |
| `Slots` | `core/slots.py`: the slot engine, over zones whose clock changes | |
| `Tokens` | `core/tokens.py`, `core/keys.py`: issue, verify, expiry under a rotating ring | `Cells` |
| `Availability` | `core/availability.py`: `check_availability` with its two awaits; clock, keys, host | `Bindings`, `Tokens`, `ExclusiveSlots` |
| `Offers` | from the offer to the booking: steps 1 and 4 to 7 of `core/booking.py` over the abstract ledger | `Availability` |
| `Ages` | times kept as ages, up to the last limit they are compared with | |
| `SigningKeys`, `SmsSigningKeys` | the two `JwksCache`s, as functions of a cache | `Ages` |
| `Gateway` | the checks of a request in both tools, the lock, the tenant | both, by `INSTANCE` |
| `SmsNotify` | `core/service.py`, `core/limits.py`, the blob adapter, the lifecycle rule | |
| `VoiceLiveConnection` | connect, cleanup, late close, forced close of one call, and `request_end` | |
| `AcsCallSession` | session, registry, callbacks, media socket, timers, sweep, composed with the connection | `VoiceLiveConnection` |
| `ResponseWatchdog` | receiver loop, response watchdog, recoveries and retries of one connection | |
| `CallLoop` | `call_manager.py`, `call_loop.py`, the connect task and the connection of a call | |
| `TwilioSession` | `providers/twilio/call_session.py` | `CallLoop` |
| `CarrierAudio` | the buffers agent audio waits in, as functions | |
| `Carriers` | routes and media handlers of five carriers and the web client, all composed | `TwilioSession`, `CarrierAudio` |
| `MC...` | values of the constants for TLC | |
| `...Proofs` | TLAPS proofs | |

In every module an action is what one task does between two awaits: the answer of the await it stood at,
every change made until the next, and the place it stops. The `pc` of a request (booking, SMS) is the
await it stands at. Actions carry the names of the methods, or of the numbered steps of the method.

### 2.1 Booking

- A claim record stands for its etag: an attempt writes each content at most once, and attempts are numbered.
- The writes that the code gathers in parallel happen cell by cell in any order.
- Deadlines and timeouts are a failure that any await may have. A store write that fails may have been
  applied; a create that fails may land, land later, or never.
- `Age` makes a pending claim stale (`claim_ttl`, 120 s). It waits until the owner has ended and its
  creates have landed, been lost and become visible. The code's constants justify this (requests
  run at most 8 s, visibility takes seconds); the mutant `AgeEarly` shows that the protocol needs it.
- Busy times are a free choice, except that the vendor must show what it shows. The limit of bookings per
  contact is soft in the code (counted long before the create) and no property is stated of it.
- `Dedupe`: the vendor honours the idempotency key of a create. `ReadLag`: new events are not visible at
  once. `HostEdits`: the host deletes and moves events by hand; a moved event may overlap another,
  and leave the horizon that `find_bookings` looks through (`HorizonLookups`).
- Left out: diagnostics, the text of the event, a claim write that lands after its request gave it up
  *and* after the claim has been judged by others.

`RequestBudget` asks what `Age` takes for granted: that a request is over when its claims go stale. There, one
request makes the calls of the code in their order, and each takes nothing, its whole timeout or something between;
what a call finds is left open, so every path through `book_appointment` is one of its behaviours. A timeout is what
`Deadline.timeout_for` gives it: at most the call's own limit, at most what is left after the reserve of the calls
that must still follow. Only two kinds of calls may run past the budget, the releases and the read of an attempt's
cells, each by a grace (`_release_timeout`). Code between two calls takes no time.

The refinement: a request *holds* the cells of the claims it owns and *places* its booking when its event
stands or may still land; `Booking` implements `ExclusiveSlots` under that mapping (`ImplementsLedger`).

### 2.2 SMS

- One wall clock in whole units for all instances; a request reads it once, when it starts, and everything
  it writes carries that time. It runs at most `MaxRun` after that.
- The lifecycle rule may delete a blob `Retain` after it was written. The assumption
  `Window + MaxRun <= Retain` is what the proofs need. `SMS_DEDUPE_MINUTES` may be set up to one day, and the
  rule deletes after one day: at that setting nothing is left for `MaxRun`.
- Claims, stamp and slots are never given back; failing is closed. A write may be applied although its
  answer is lost. A 4xx/5xx answer of Twilio is assumed to mean "not accepted"; a timeout means unknown.

### 2.3 ACS call

- Timers fire at any moment after they are armed. A callback that was sent arrives any number of times, in
  any order, or never (delivery is not fair).
- `session` holds the flags of `CallSession` and both registry entries; `closer` the two tasks that run
  `close_voicelive`, each with its shielded cleanup that goes on after a timeout; `voice` and `socket` the
  handler's references and the connection that is billed, which need not agree.
- `__aexit__` closes only a connection that `__aenter__` returned (as the test double `_SdkLikeCtx` states);
  otherwise it does not suspend.
- `expired` stands for `call_cap` and `idle`, `dropped` for `voicelive_dropped` and `response_failed`, which
  act alike. `call_manager.acquire` is a free choice.
- A session is swept `max_call_seconds + 120` s after the incoming call. The model assumes that `answer_call`
  has returned by then.

### 2.4 Responses

- Voice Live is external: it runs one response at a time, starts one when asked or by itself, and may refuse
  or ignore a create or a cancel. `inbox` and `outbox` are the two directions of the socket, in order.
- `watch` is `_watched_response_id`: none, a response, or `PendingRetry` (`_PENDING_RETRY`) for a retry that has
  no response yet; `tag` is `_retry_event_id`. An error event names the retry it rejects, or 0.
- Time is left out: an armed watchdog may fire at any moment, which covers every deadline and every progress
  event that moves it, and the wait for the confirmation of a cancel may end at any moment.
- A recovery is one of `_recovery_tasks`. Its `pc` is the await it stands at; its `attempt` is the failure count
  it compares after each await. The FAILED path makes its retry inside the receiver (`ReceiverRetries`), untagged
  and unwatched.
- `latest`, `handled`, `gaveUp`, `heard` and a recovery's `moved` are history, which no guard reads.
- Left out: events without a response id, marker texts, barge-in, the audio itself.

The call session sees this module only as `voicelive_dropped` and `response_failed` (`ended`), which
`AcsCallSession` takes at any moment. So the two are checked apart.

### 2.5 Offers

- Times are whole minutes; a zone is one change of the clock: the instant and the shift. `Instant` and `fold` are
  Python's rules for a local time that is missing or happens twice.
- The engine (`compute_slots`) is a function, as in the code. `NothingIsHidden` and `OffersAreGood` compare it with
  definitions of their own (`OpenTimes`, `Bookable`): sets of instants by the local clock, with no grid walk, no
  merging and no search.
- A MAC is the key it was made with; a token altered on its way carries none.
- `book_appointment` here has the steps that depend on the offer. Claims are those of the abstract ledger, taken cell
  by cell as step 6 does; failures of claims, recovery and retries are in `Booking`. So an overlap could come only
  from the cells themselves, which is the question of this module.
- The caller names a slot by its local time without an offset, with the slot's token, or (a `Faulty` caller) with an
  altered token or one of the other binding.

The configuration of each binding is not written down: it is what `load_bindings` makes of a deployed document, whose
windows are out of order. A raw binding has the fields that others compute with; all other checks of the loader are
one set of faults. `MCOffers` also loads 416 documents, good and misconfigured, as an assumption TLC evaluates
(`LoadedBindingsAreSound`): whatever loads has windows that are apart and in order as instants, across three changes of
the clock, and only slots that can be signed and whose claims pass the deadline guard of step 5. `LoadedIsSound` proves it.

### 2.6 The front

- Time is ticks; a stored time is its age (`Ages`), which stops at the last limit that is compared with it.
- A request is what is wrong with it (`flaws`), its key id and whether it writes. The two tools' checks are two
  sequences, before and after the key, in the order of the code.
- A lookup under the lock is one step up to its GET, and another from the answer on. `late` stands for a deadline
  that has no time left, which needs a wait behind another GET.
- `gets` and `since` are history, for the properties only.
- The SMS tool waits for the lock without a limit and serves a held key through an outage without a cap: the
  properties say for each tool what it promises.

### 2.7 Carriers

- One carrier per process (`kind`), as configured; sockets are never reused, and call ids are distinct.
- `task` is where the socket's task waits: for the start message, in the loop, in a receive, for its connect task,
  for the socket to close, in its cleanup. A hang-up cancels it wherever it is, once.
- Amounts of audio are left out, and with them whether enough is buffered to begin to play: a buffer holds audio from
  before the last interruption ("old"), after it ("new") or both, old first. What became of it after the loop is over
  is left out too (`LeavesLoop`).
- Two tasks send to a carrier. `hand` is the speech the call loop has taken off a buffer (a frame of Infobip's or
  Genesys's `_out_buffer`, or a chunk mixed into ambient sound) and awaits the send of; only when it returns
  (`SendReturns`) does the loop go on. `receiver` says what the Voice Live receiver awaits: the send of an audio delta,
  or that of a clear; it takes no further event before. A send of audio that fails is swallowed, and the audio lost.
- An interruption turns all audio there is "old". Infobip and Genesys drop their paced buffer and are sent no clear:
  what they were sent, and the frame in flight, stays and is played. The others are sent a clear; it may fail, which
  Bandwidth, Sinch and the web client swallow (`lost`, and the old audio stays at the carrier) and which ends Twilio's
  receiver. `BargeInSilences` claims only what follows: nothing old is left in a buffer that is still sent from, nor
  at a carrier whose clear arrived, and no clear drops newer audio.
- An exception of a message handler ends the call, like a failed connect. Sends to the carrier return.
- Only Twilio shields its cleanup. For the others a hang-up during the cleanup may cut it short with Voice Live
  closed or open (`CleanupIsCut`), and `NothingLeftOpen` says so rather than hiding it.
- With ambient sound, Infobip, Genesys and Sinch do not empty `_tts_output_buffer` when the caller interrupts, so old
  speech is still mixed in; for the others a chunk in flight may reach the carrier after the clear. `BargeInSilences`
  excepts both.

## 3. What the runs check

| Run | Instance | Shows |
|---|---|---|
| `Race` | two contacts, back-to-back slots that share a buffer cell, host edits, delayed reads | `NoDoubleBooking`, `UnavailableCreatedNothing`, `ClaimsNameTheirBooking`, `LiveClaimsUntouched`, refinement `ImplementsLedger` |
| `Retry` | one booking invoked twice and another contact's request, two bindings, vendor without retry dedupe | `TypeOK`, `BookedWasCreated`, `BookedStaysBooked`, `OneCreatorPerBooking`, `NeverTakenByItself`, liveness `EveryRequestAnswers` |
| `RequestBudget` | one request for 1, 2 or 10 cells, the code's own constants in units of 50 ms | `OverBeforeStale`, `CreateHasItsTime`, `PollLeavesItsTime` |
| `SmsSpacing` | two requests with one text, one with another, two hours | `CooldownSpacing`, `HourlyCap` |
| `SmsOutcome` | three requests with one text, two recipients, past window and retention | `NeverTwiceInWindow`, `AlreadySentIsTrue`, `CodeIsHonest` |
| `AcsCall` | one call, two failed hang-ups | `PendingHangUpIsTaken`, liveness `NobodyStranded`, `VoiceLiveCloses` |
| `Watchdog` | three responses, the shortest memory of timed-out ones | `TypeOK`, `ActedOnOnce`, `RejectionIsOurs`, `NoTalkingOver`, liveness `NoSilence` |
| `Offers` | two callers, two loaded bindings with different buffers, three clock changes, two rotations, moves of the clock or host edits | `OffersAreGood`, `NothingIsHidden`, `OffersAreHonoured`, `BookedTimesApart` |
| `Gateway` | two requests at a time at either tool, a rotated, a lasting and a forged key | `GatewayTypeOK`, `KeysAreFresh`, `FetchesAreSpaced`, `RotatedKeyIsKnown` |
| `Carriers` | two sockets and one place, five carriers and the web client, with and without ambient sound | `CarriersTypeOK`, `NothingLeftOpen`, `NoMessageLost`, `BargeInSilences`, liveness `EveryCallEnds` |
| `DedupeMatters`, `ForcedClose` | see section 5 | a disagreement between a document and the code |

**Bounds.** Two contenders are enough for a race on a cell and a third for a recovery by a bystander (`Retry`); a slot
of two cells is the smallest in which an attempt may hold one and miss the other, and one shared cell is the
smallest overlap. `MaxCas = 3` and, in `Race`, `MaxRounds = 3` are the code's own values. In `Retry` the three requests
give no reason for a fourth round: with `MaxRounds = 3` neither the rounds of a request nor those of its step 2 are ever
cut off. So it has `MaxRounds = 2`, where both loops iterate and both meet their limit, and `EveryRequestAnswers` says
something of either end. `Retry` has no delayed reads, which would take most of its time: `Race` has them, and the
proofs of `Retry`'s safety properties cover them (two of these with dedupe, one with what `Sound` asks). `Retry.cfg`
with `MaxRounds = 3`, and with `MaxRounds = 2` and `ReadLag = TRUE`, was found to pass as well. Two SMS requests race for a limit, the third fills it; the clock runs
past the window and past the retention (`MaxTime`). Budget: 50 ms divides every constant of the code, and 10 cells are the most that fit; a call takes 0, 250, 750 or 1500 ms or all of its
timeout (`Lapses`), and at most two duplicates are deleted (`MaxExtras`). For a call, `MaxFailures = 2` lets a hang-up fail while
the session is known and again after it is forgotten. A second ACS call would share nothing with the first but
the capacity, which `Carriers` has. Three responses are the least that lets one be given up on, one complete and one fail while the
first one's recovery waits; `Remembered = 1` (the code keeps 8) is the hardest case for late events, and
`MaxFailed = 2` is the code's own limit. Offers: windows that run into a
change, up to midnight and from midnight on, one change forward, one back, one at midnight; a second instant in the
repeated hour; the buffer of one cell and none; three offers and one, `spread` and `earliest`; busy times nested and
adjacent. Gateway: the intervals keep the order of the code's (pause < refresh of unknown keys < maximum age < cap),
which `GatewayAssumption` states, scaled to the least that keeps them apart. Carriers: two sockets are enough to
compete for a place and to be confused with one another.

The type invariants that a proof covers (`SmsNotify`, `AcsCallSession`, `RequestBudget`) are in no run, nor is `EndsOnce`.

**Stopping.** Requests and calls end, so the runs set `CHECK_DEADLOCK FALSE`; the front never stops, and its run checks
for deadlock.

**Fairness.** Booking: weak fairness of each request's next step, which its deadline forces; none of
arrivals, crashes, ageing, the vendor or the host. ACS: weak fairness of the event loop's tasks, of the
timers and of requests with a client timeout; of the sweep only once a hang-up has failed, so that
`NobodyStranded` does not lean on the sweeper otherwise; none of the platform, of callbacks, of a handshake
or a close finishing before its timeout, except the close of an orphaned connection (see `ForcedClose`).
Watchdog: weak fairness of the receiver, the
recoveries and an armed watchdog; none of Voice Live, which may stay silent. SMS, offers, front, request budget: no liveness is stated, each request runs straight to
its answer. Carriers: weak fairness of the loop (a receive has a timeout, a send to the
carrier returns, a connect task stops when cancelled, and the event loop runs what is ready), strong fairness of the expiry (the length of a call only grows, so a loop that looks
again and again finds it over); none of the carrier, of Voice Live or of the connect.

`EveryRequestAnswers` reads "again and again no request is on its way": there are finitely many and each runs once, so
it says of each what a leads-to would.

`NobodyStranded` has two exceptions, both real: the answer failed although the platform had taken the call,
and a hang-up failed of a session that was already forgotten. In both, nothing tries again.

## 4. What is proved

All proofs hold for every value of the constants that satisfies the `ASSUME`s of the modules.

| Module | Theorems | Argument |
|---|---|---|
| `OffersProofs`, the ledger | types, `PlacedIsHeld`, `NoOverlap` | a booker places only while it holds all its cells, and a cell has one holder; so whatever implements the ledger books nothing twice |
| the same, in `Offers` | `OffersTypeOK`, `BookedTimesApart`, and the ledger's invariants again | `OffersInv`: a request that claims holds its cells below the one it is at, one that creates holds them all, and what is placed belongs to a request that is done; two bookings closer than their buffers share a cell (`TooCloseSharesACell`) |
| the same, local time | `ResolvesToFirst`, `LocalTimeReadsBack`, `OfferedHoursAreBookable` | by cases of the one clock change: `resolve_local` is the first instant that has reached the wall time, the wall time of an offered start is read back as that start, and hours an offer lies in are found again by `_within_bookable_hours` |
| the same, the engine | `BusyIsExact`, `EveryOfferIsGood` (`OffersAreGood`), and lemmas on what `_windows`, `_select`, `compute_slots` and the loader return | merged spans stay sorted and apart and cover what the spans cover, so the last one that starts before a candidate's end decides; `AsksInv`: between its awaits a request knows what the engine found without busy time, so the calendar is read as wide as its windows and the buffer reach |
| the same, what an answer leaves out | `EveryAnswerTells` (`NothingIsHidden`) | the engine's candidates are the reference's bookable slots (`OpenTimes`, `Bookable`), both ways; `earliest` takes the first of a finite set that is listed in order, and `spread` takes of each day the slots of the lowest ranks, so no two days differ by more than one while both have slots left; what was read of the calendar covers every busy span a bookable slot could meet (`ReadsEnough`) |
| the same, tokens | `TokensAreHonoured` (`OffersAreHonoured`), `LoadedIsSound` (what `LoadedBindingsAreSound` evaluates, for every binding), if zones change their offset at a multiple of five minutes and by one | `HonestInv`: a token in anybody's hands, altered or not, is for a slot on the grid, of a length and within hours of its binding, at the first of two equal local times, with a key there has been; so only a lost key refuses it, its claims fit the budget, and something can always be offered |
| `BookingProofs`, first part | `TypeOK`, `ClaimsNameTheirBooking` | what a request remembers between awaits (the record it last read, the event a lookup found) stays good for the write it leads to, because lookups return only events of the fingerprint asked for and writes compare the whole record |
| second part, no hypothesis | `LiveClaimsUntouched`, `UnavailableCreatedNothing`, `BookedWasCreated`, and that untouched events exclude each other (`StandingCellsAreOwned`) | `SafetyInv`: what a request has read can only become truer while it waits, claims say the truth, and the cells of an attempt are covered by its claims as long as nobody edited or deleted an event of its booking |
| second part, `Dedupe` | `BookedStaysBooked`, `OneCreatorPerBooking` | `AnchorInv`: once a booking has an event, one of its events is never in anybody's list of duplicates, and no other exists beside it |
| second part, `Sound` | `NoDoubleBooking`, `ImplementsLedger`, `NeverTakenByItself` | `KeptInv`: a request whose event stands or may land holds all its cells; every change of a claim is a take, a finalize or a give-up, and a give-up implies that no event of its owner stands |
| `SmsNotifyProofs` | `TypeOK`, `NeverTwiceInWindow`, `CooldownSpacing`, `HourlyCap`, `ClaimKept`, `AlreadySentIsTrue`, `CodeIsHonest` | a request that passed a limit still owns the blob that says so, or a younger one replaced it, or it is too old to matter; `HourlyCap` by an injection of the hour's senders into its slots |
| `AcsCallSessionProofs` | `TypeOK`, `IndexFollowsRegistry`, `TimeoutMeansNoMedia`, `PendingHangUpIsTaken`, `EndsOnce` | whatever leads to a hang-up (`_terminate`, the safety timer, a hang-up task, hang up after play) exists only once the session has ended, and `request_end` keeps the first reason |
| `ResponseWatchdogProofs` | `TypeOK`, `ActedOnOnce`, `WatchedIsOpen`, `NoTalkingOver`, `RejectionIsOurs` | events arrive in order and one response runs at a time, so the next event is about the newest response the bridge knows, or about one it has not seen; a late event can only concern the last one given up on, which is still remembered |
| `RequestBudgetProofs` | `BudgetTypeOK`, `OverBeforeStale`, `CreateHasItsTime`, `PollLeavesItsTime` | each call of a request has a latest time (`InTime`) that its timeout and its reserve keep; a release and a read of an attempt's cells may each add a grace, and there are at most two of them in a row before a call that needs time of its own |
| `CarriersProofs` | `CarriersTypeOK`, `NothingLeftOpen`, `NoMessageLost`, `BargeInSilences` | a place is held exactly where the socket's task stands between acquire and release, and while its connect runs; a Twilio message is owed exactly while the receive or `_pending_recv` has it; without ambient sound only the receiver sends to a carrier that takes a clear, and it awaits the audio before it takes the interruption, and the clear before it takes more audio |
| `GatewayProofs` | `GatewayTypeOK`, `KeysAreFresh`, `FetchesAreSpaced`, `RotatedKeyIsKnown` | a kid in the cache was withdrawn no longer ago than the key set is old, and a kid missing from it has been to be had no longer than the set, the last failure or the last refresh is old; each of those times is the start of a GET that `gets` remembers |

Why the strengthenings are needed. *Booking*: `ClaimsNameTheirBooking` speaks of claims only, but a finalize
writes what a request found several awaits earlier, so the invariant also bounds every local variable at every
`pc` where it is still used. For `NoDoubleBooking` the natural invariant, "an event that stands is covered by claims of its
booking", is not inductive: a recovery gives up the claims of a stale attempt from what it read two awaits before.
So `SafetyInv` also says what each request's cache, list of duplicates and last lookup still mean, `FoundLate` when
a lookup may miss an event, and `AnchorInv` which event no clean-up takes away. *SMS*: "nobody else sends in the window" is not inductive without "the claim on
a sender's text is at least as young as the sender, or was deleted after the retention", nor without the
same for the stamp and the slots, and for a claim about to be taken over. *ACS*: that a pending hang-up
belongs to an ended session needs `EndInv`, about everything that can start a hang-up. *Responses*: `ActedOnOnce`
needs the order of the whole inbox, and that the last response given up on is the last one remembered. *Carriers*: that no
connection is left open needs "who is linking holds a place", about calls that have no connection yet.
*Gateway*: `RotatedKeyIsKnown` speaks of an answer, and needs what a refused refresh proves: that a GET failed, or succeeded,
less than the pause ago, also when the request had no time left for one of its own.
*Offers*: that a request which creates holds every cell needs the cells of one that still claims. `Offers` gives back all
cells of a refusal in one step, where the ledger deletes them one by one, so its theorems repeat the ledger's argument on
its own steps instead of citing a refinement. `LocalTimeReadsBack` is false for the second of two instants that read alike,
which is why the engine's `~fold` guard is one of its hypotheses.
`OffersAreGood` speaks of an answer; that the busy read was wide enough for it needs what the first pass saw, two awaits
earlier. `AsksInv` keeps that as an equation (the stored result is the engine's, for the stored query without busy time), since
the zone and the bindings do not change under a request. The lists of the engine are `Sorted` sets, whose order is proved
from an induction on ranks by a least counterexample; the merging loop is a recursive function over the spans, and the invariant of that loop
(`Merging`) is proved in the same way. `OffersAreGood` follows for zones with one change of any size, at any time.
`OffersAreHonoured` is about a refusal, several awaits after the offer and perhaps by another caller's token: `HonestInv` keeps
what the engine, the issuing and the key ring together made of the token, and what still holds when keys rotate. It needs the
hypothesis `OnGrid`, that clocks change on the five-minute grid: else every slot of a day may be dropped by `issue`, and the code
answers `calendar_unavailable` by design. The booking design (docs/superpowers/specs/2026-09-29-calendar-booking-design.md:557) knows no current zone that is off this grid.
*Budget*: that the create has its time says nothing of the claims and recoveries before it, each of which must keep
the same reserve.

Assumptions used: `MaxPerHour`, `Recipients`, `Window` and the like are naturals, `Window + MaxRun <= Retain`,
cells are a range of integers, `None` is no record. Nothing bounds the number of requests, texts, cells,
recipients or failures; `MaxTime` bounds the clock, and its value is arbitrary. `RequestBudget` assumes that two graces after
the budget a claim is not yet stale, and that a grace is not longer than a call to the store, as the code's constants are.
`AvailabilityAssumption` says of calendar documents and settings what the loader checks or replaces: a number of a wrong type is
out of bounds (written -1), and times are whole minutes. `Typed` names the fields of a document; a host edit is
finitely many events that end after they start, as a calendar has them; the clock change of a zone may be of any size at any time. `GatewayAssumption` orders the intervals of the key caches as the code's constants are ordered.

The hypotheses of the booking theorems. `Dedupe`: the vendor recognises a repeated request_key. `Sound`: `Dedupe`, and
either the host edits nothing by hand or every booking is requested once. Neither can be dropped, as TLC shows:

- Without `Dedupe` a booked event loses its claims (run `DedupeMatters`, section 5), and `OneCreatorPerBooking` fails with
  four invocations of one booking: a poller finalizes the claims with one of two duplicates, the creator deletes that one
  and keeps its own, still hidden; a third invocation sees the booking as deleted and releases its cells, and a fourth
  finds neither claims nor a visible event and creates again. With three invocations it still holds (all states
  explored); the run `Retry` has two.
- With `Dedupe`, host edits and a retry of one booking, `NoDoubleBooking` fails with three requests. The retry's
  busy-time check finalizes the first attempt's claims with an event that the host then cancels; the first
  attempt's repeated create makes a new event, while a recovery sees claims of a cancelled booking and frees the
  cells. No run has it: in `Race`, the run with host edits, every booking is requested once, as `Sound` asks.

`BookedStaysBooked` and `NeverTakenByItself` were found to hold without `Dedupe` too in the run `Retry` and with four
invocations; there they are model-checked, not proved.

**Model-checked only.** Liveness (`EveryRequestAnswers`, `NobodyStranded`, `VoiceLiveCloses`, `NoSilence`, `EveryCallEnds`): the prover has no
rules for fairness or ENABLED.
Every other property of a passing run is stated by a theorem, with the hypotheses named above.

## 5. Where documents and code disagree

- **`DedupeMatters`**: the booking design says correctness never depends on the vendor's retry dedupe. Without
  it, a poller may finalize a claim with one of two duplicate events just before the creator deletes that one;
  the claim is later released as that of a cancelled booking, and the event that is left is booked over.
- **`ForcedClose`**: the bridge design says a close that times out aborts the connection. `cleanup` clears
  `self.conn` before it awaits the close of an orphaned connection, so `force_close` has nothing to abort.

Two smaller ones have no run. A docstring (`voicelive_media_handler.py:447`) says a timed-out response's retry is skipped
if the failure count moved meanwhile; the code compares values (line 485), and a completed and a failed response
bring the count back, so both retries are sent: `PROPERTY StaleRetriesAreSkipped` in `Watchdog.cfg`, with `Remembered = 8`,
shows it. And `core/deadline.py:3` says no call can run past the request deadline: best-effort reads and releases may, by
half a second each, which the design accepts and `OverBeforeStale` bounds.

## 6. Plan

Done: booking (claims, recovery, calendar, requests, deadline), its abstract ledger and refinement; offers, from the loaded binding
and the slot engine to the booked time; the front of both tools; the SMS limits; the ACS call session and its connection;
responses and their watchdog; the other carriers with the call loop, the Twilio session and the outgoing audio.

Next, in order of weight:

1. Proofs: `BookedStaysBooked` and `NeverTakenByItself` without `Dedupe`, as the runs suggest.
2. Hazards that no property covers yet: the count of a contact's bookings (step 3), `answer_call` that fails although
   the platform answered, and the unwatched retry of a FAILED response.

**Not modelled.** Message templates, phone numbers, contact and display normalisation, the texts of bindings, settings, routing
and the server's configuration: functions of their input without state, whose result the models take as a choice.
The mixer's arithmetic and resampling: no control. The webhooks of the other carriers: signed
tokens without state, except Infobip's record of answered calls, which is upstream code the bridge does not use. Deployment templates: only the lifecycle rule acts on state, and
is in `SmsNotify`. The secret and token caches of the SMS adapters: one value with an expiry each.

**Known limits of the code that no run shows as a violation**, since no document promises otherwise or a document
records them: ambient sound keeps old speech on three carriers, and the cleanup of four carriers can be cut short
(section 2.7); a message handler that hangs in a send to the carrier escapes the expiry; the FAILED path's retry is
not watched (`docs/STATUS.md:263`); the limit of bookings per contact is soft; a host edit during a retry of the
same booking can free its cells (section 4).
