# CSPromator: a TLA+ model

CSPromator receives Counter-Strike 2 Game State Integration (GSI) payloads over
HTTP, records them, derives factual events from them, and combines them with
observations of supplementary providers into events with a meaning (clutches,
aces). This directory models the program in `src/`: TLA+ modules translated from
its C++, runs that check them with TLC, and theorems that TLAPS proves.

`PROJECT.json` is the index: `components`, `runs`, `mutants`, `map` (which lines
each definition stands for), `findings`, `hazards` and `theorems`.

## 1. The system

```
 CS2 --POST--> HTTP loop (main thread) --.
                                          >-- TelemetryIngress (mutex_)
 providers (their own threads) ----------'        |            |
                                        1. enqueue |            | 2. enqueue
                                                   v            v
                                       SessionRecorder     LiveEventPipeline
                                       queue + worker      queue + worker
                                             |                   |
                        raw.gsi, timeline.tsv,          EventDetector, SemanticResolver
                        supplementary.tsv                        |
                                             |                   v
                                             '--> replay, analyze   batch handler
```

| Component | State | Operations | What makes it correct |
|---|---|---|---|
| Session recorder, `session.cpp` | queue, ingress order, two sequences, stop flags, worker error, raw offset, three output streams | `enqueue`, `enqueue_supplementary`, the persistence worker, `stop_and_flush` | what is accepted reaches the files in order or an error is reported; a body is on disk before the row that names it |
| Session replay, `session.cpp` | none (reads files) | the loaders, `load_replay_stream`, `load_replay_body` | replay is what was recorded, in ingress order, after a kill too |
| Telemetry ingress, `telemetry_ingress.cpp` | one mutex | `enqueue_gsi`, `enqueue_supplementary` | both destinations see one order, whoever submits |
| Live event pipeline, `live_event_pipeline.cpp` | queue, stop flags, worker error, detector, resolver | both enqueues, the worker, `stop_and_flush` | nothing is lost, duplicated or reordered; the queue is drained at the stop |
| Event detector, `event_detector.cpp` | the previous snapshot and what is known of the local player | `process` | each fact is reported once, whoever is observed in between |
| Semantic resolver, `semantic_resolver.cpp` | latest supplement, local knowledge, round, roster, clutch | `process_gsi`, `process_supplementary` | only proven clutches and aces; nothing crosses a round or a match |
| Supplementary state, `supplementary_state.cpp` | none | validation, perspective of a team | counts make sense for the local team |
| GSI normalizer, `game_state.cpp` | none | the JSON parser, `normalize_gsi` | it reads exactly the JSON language; the snapshot holds what the payload says |
| HTTP server, `http_server.cpp` | stop flag, sockets, the buffer of a request | `run`, `request_stop` | the answer depends on the request and not on its parts; what is acknowledged is submitted; a stop is honoured |
| Command line, `main.cpp` | the active server | `record`, `replay`, `analyze` | the order of shutdown; replay keeps the recorded time |
| Clock, edition, tests and build | - | - | see section 8 |

The hard behaviours are these.

- Three or more threads meet in two queues behind one mutex. Each queue notifies
  after it has released its lock, and each worker waits on one condition for
  items and for the stop.
- The two parts stop one after the other while providers may go on submitting.
- Three files are written one after another by a worker that may fail or be
  killed anywhere.
- Observations carry a time and get through the gate later, so that time order
  and ingress order differ.
- The detector compares with the previous snapshot and also with the last
  knowledge of the local player, while players, rounds and matches change.
- The resolver keeps knowledge from items of different age.
- TCP delivers a request in any parts; clients are slow, stop half-way, or vanish;
  an answer may be lost after the payload was taken.

`hazards` in `PROJECT.json` lists them at their lines with the properties that
would catch them going wrong, or why none does yet.

## 2. The modules

| Module | Models |
|---|---|
| `SessionRecorder` | the recorder: `recQueue`, `recIngressOrder`, the worker's position `recPc`, the files and the condition of their streams; a history `recAccepted` of the accepted records |
| `LiveEventPipeline` | the queue, worker, error and shutdown of the pipeline; a history `liveAccepted` and `liveProcessed` |
| `TelemetryIngress` | composes both with the gate, the HTTP loop, the providers, the signal and the end of `command_record` |
| `SessionReplay` | the loaders and the pacing of replay, over the files of a `TelemetryIngress` process in any state |
| `TelemetryLog` | abstract specification: one log of observations and its readers; the recording process implements it |
| `HttpServer` | `run` and `request_stop` with clients, sockets and a TCP that delivers in parts |
| `MCHttp` | requests for it |
| `GsiListener` | abstract specification: what the threads around it rely on in the HTTP loop; `HttpServer` and the main thread of `TelemetryIngress` implement it |
| `GsiJson` | the JSON parser and the reading of values at a path |
| `JsonGrammar` | JSON as a grammar that generates texts with their values |
| `JsonTexts` | texts of the grammar and texts near them, before the parser |
| `MCIngress` | instances of the process |
| `TelemetryIngress_proofs` | theorems about the gate and the order of both queues, about the end of the process, and about main as a listener |
| `SessionReplay_proofs` | theorems about the files and what replay loads from them, and that the process implements `TelemetryLog` |
| `HttpServer_proofs` | theorems about the HTTP server |
| `EventDetector_proofs` | lemmas about the reports of one snapshot |
| `FactualEvents_proofs` | theorems about the reports of a stream of snapshots |
| `GameState` | snapshots and the normalizer from values to snapshot |
| `EventDetector` | `EventDetector::process` and all its reports |
| `LocalPresence` | abstract specification: what `LOCAL_PLAYER_*` reports promise |
| `FactualEvents` | the detector under any stream of snapshots, with a history of its reports; implements `LocalPresence` |
| `MCFactualEvents` | payloads for it |
| `SupplementaryState` | team counts, their validation and perspective |
| `SemanticResolver` | the resolver, as operators on its state |
| `SemanticPipeline` | the live worker's use of detector and resolver, with the delays between observation and gate |
| `MCSemantic` | payloads and supplements for it |
| `SemanticPipeline_proofs` | theorems about clutches, aces and the counts that are shown |
| `GsiJson_proofs` | the parser is well defined, and every call ends after the position it began at |
| `JsonTexts_proofs` | the parser follows the grammar, and integers are read as meant |

**The recording process.** A step is a critical section, a notify, a file write
or a blocking call that returns. `pc[t]` says where a calling thread is. The
mutex of the gate is taken in `IngressRecord`, which also assigns the ingress
order, and released in `IngressFanOut`, which feeds the pipeline; the notify of
the recorder lies between them as a step of its own, because the code notifies
after it has released the queue's lock. Exceptions are actions
(`IngressRecordThrows`, `IngressFanOutThrows`): in a provider they return to its
own business, in main they leave the HTTP loop and unwind `command_record`, whose
destructors stop the pipeline and then the recorder as the code after `run()`
does. Notifies, spurious wake-ups and the predicate of each wait are explicit,
so a lost wake-up is a behaviour of the model if the code allows one.

**The HTTP server.** Bytes have no content but a position: a request says how many
of its bytes are headers, what its `Content-Length` lines hold and how many bytes
are sent. A `recv` returns what has arrived, up to `Chunk`; each is a step, so the
tests of the two limits and of completeness happen after every possible part.
The client may close or reset its connection at any moment. `TelemetryIngress`
has the same loop in fewer steps, because the queues only need to know when main
is in the loop, blocked or submitting; that both implement `GsiListener` is what
ties the two models.

**The parser.** `GsiJson` follows the recursive descent function by function. A
symbol is a character (those with a meaning in JSON by their names: `comma`,
`begin_object`), except that a literal, four hexadecimal digits and a string literal
as an object key are one symbol each. The calls of the descent and its loops are
functions of the position in the text, with values or `Fail` where the code throws;
they are recursive functions, which the provers can reason about. `JsonGrammar` is not
a parser: it builds the set of texts with their values from the rules of the grammar,
numbers as products of their parts and structures by their depth, where the parser goes
by position, so that agreement is no accident of form.

**The files.** `raw` is a sequence with the ingress order of its record at each
byte, `timeline` and `suppTimeline` are sequences of rows. A stream is good,
bad (a write failed and every later one is dropped, as an `ofstream` does), or
torn (its last row is incomplete). `PersistRaw`, `PersistTimelineRow` and
`PersistSupplementary` are the writes, and each has a `...Fails` form with every
part of the write that may have reached the disk. A write and its flush are one
step. There is no crash action, since a kill adds nothing to the files: every
state is one in which the process may be killed, and the properties of
`SessionReplay` are stated of the files in every state. `std::stable_sort` is
modelled by what it promises: the place of a row is one more than the number of
rows that go before it, and of two rows that compare equal the earlier one does.

**The detector and the resolver.** `EventDetector` keeps `previous`, `memory`
(what `process` remembers of the local player and of the round) and `events`, the
last batch. `SemanticResolver` has no variables: each of the functions of the C++ class is an
operator from the state of the resolver to its next one, in the order of the
code, so that a call inside a call is a composition. Optional values are values
or `None`.

**Which parts compose.** `TelemetryIngress` has the real queues and threads and
opaque items; `SemanticPipeline` has real items and takes them one at a time.
The property that joins them is `LiveIsPrefixOfRecording`: the pipeline's worker
processes items in recorded order, one at a time, and this is what
`SemanticPipeline` assumes. The same order is the one `analyze` reads
(`ReplayIsInOrder`), so live and replayed events are computed from the same
sequence.

## 3. The runs

`tlc -workers 2 -config <cfg> <module>`; each ends within three minutes on two cores.

| Run (`.cfg`) | Module | What it asks | Bounds |
|---|---|---|---|
| `ingress_gate` | `MCIngress` | A provider and the HTTP thread race through the gate while main stops and the handler may throw: `LiveIsPrefixOfRecording`, `LiveAccounted`, `DrainedAtExit`; `MainIsListener`; `ReplayKeepsTime` | 3 records, one provider, times 0 and 1, disk works |
| `one_log` | `MCIngress` | Files and live processing read one log: `IsOneLog` | as above, with 2 records |
| `session_crash` | `MCIngress` | Every write may fail and the process may be killed: `TypeOK`, `CrashReplayIsPrefix`, `ReplayIsInOrder`, `EveryRowHasItsBody` | 2 records, bodies of 0 and 10 bytes, times 0 and 1 |
| `ingress_liveness` | `MCIngress` | Nothing accepted is forgotten and a shutdown ends: `AcceptedIsPersisted`, `AcceptedIsProcessed`, `ShutdownTerminates` | 2 records, all faults, throwing handler |
| `factual_events` | `MCFactualEvents` | Any stream of snapshots and a restart: `TypeOK`, `NoDoubleReport`, `RoundsAreReportedOnce`, `AssistsAddUp`, `RepeatIsSilent`, `PresenceReports` | two players or nobody, rounds 0 and 1, assists 0 and 1, three phases, winners, one menu, one restart |
| `semantic_delay` | `MCSemantic` | Items that pass the gate late and out of time order: `TypeOK`, `ClutchIsCurrent`, `ClutchEventsAlternate`, `AceIsProven`, `NothingIsInherited`, `CountsAreOfThisRound` | times 0 and 1, a payload may wait 1, two maps, no age limit or an age of 0 |
| `http_requests` | `MCHttp` | Clients that send in parts, too much, too little or nothing: `AnswerIsDeserved`, `AcknowledgedIsSubmitted`, `BufferIsBounded`, `ConnectedIsServed`, `StopEndsTheLoop`, `IsListener` | 2 connections, ten requests, headers of up to 3 bytes, bodies of up to 2, parts of up to 2 |
| `gsi_json` | `JsonTexts` | The parser accepts the language and no more: `GrammarIsFollowed`; integers are read as meant: `IntegersAreRead` | numbers of up to 7 symbols, strings of up to 8, structures of up to 9, one edit |
| `timeline_loss`, `stop_request`, `post_round_ace`, `clutch_proof` | | the four disagreements of section 4 | |

Why the bounds are enough for the questions:

- The hazards of the gate need one thread between the recorder and the pipeline,
  another that would overtake it, and a stop. Three records let a third call meet
  both queues after one has stopped. One provider and main can overtake each other
  in either order, and two times let a provider submit an observation that is
  older than a snapshot before it. That more providers change nothing is proved
  (section 5).
- A torn row matters when its last digits are missing: a row for a body of 10
  bytes can lose its last digit and then names 1 byte. An empty body makes a row
  that covers nothing. Two times allow a supplement observed before the session
  began (`StartTick` 0 and 1), before the last payload, and at the same time.
- A round ends by phase, number, winner or end of the match; the payloads have
  each alone and every combination for the local player; another player is seen in
  five of these moments, since what is compared is only whether and when he is.
- A comparison of two times has three outcomes; times 0 and 1 give all of them
  and equal times of different items too. Any number of items may carry the same
  time, so a clutch can start, change and end.
- With `MaxAges` the resolver has no age limit, as the program configures it, or
  one of 0, so that a supplement is too old one tick later. A roster revision is
  required, as configured. `IntBits` is 8; the payloads stay far below it, and
  `gsi_json` has the narrowing: `IntBits` 5 and `LongBits` 8 let a number of two
  digits fit an `int`, one of three fit 64 bits or not, one of four not.
- With rounds 0 and 1 and one restart, the number of a round comes back once
  after it was reported; assists of 0 and 1 grow, fall once and grow again.
- The limits of the server and `Chunk` are a few bytes: a part can end before,
  at and after each limit, and headers, body and more can come in one part. The
  second connection waits behind the first in the backlog.
- A pair of surrogates between quotes has 8 symbols, an object with the same key
  twice has 9. Every text one edit away from the language is parsed, so each
  missing, doubled or misplaced symbol is.

**Environment.** These conditions restrict the inputs, each by name.

- `MaxRestarts` (`FactualEvents`): how often the round number or the assists of
  the local player go back within one attachment. Snapshots may be dropped or
  repeated, and players, phases and winners change in any way.
- `StreamAssumption` (`FactualEvents`): a payload in a match shows its round, and
  the menu shows neither a round nor assists, as CS2 does.
- `LeavesFirst` (`SemanticPipeline`): the game shows its menu between two maps.
- `GameAssumption` (`SemanticPipeline`): the menu shows no live round and none of the
  modes that have aces, and players are in one of the two teams or in none.
- `GateDelay`: how long a payload may wait between its completion and the gate.
  Payloads are completed in order, for the HTTP loop serves one connection at a
  time. Supplements carry any time in the past.
- Providers are outside the repository: it has the interface they call and no
  provider. They are modelled by what the interface accepts and refuses, with
  any number of calls, times and bad counts.

**Fairness.** `FairSpec` has weak fairness on the HTTP loop's own polling, on each
thread's steps in the gate, on main's steps of stopping and on both workers: all
are threads of one process that the scheduler runs. It has none on clients (a
client need not send), providers, signals, the clock, or spurious wake-ups. A
thread waits for the gate only while another records or fans out, which ends and
happens at most `MaxRecords` times, so weak fairness serves. `ShutdownTerminates`
starts at the first step of stopping because getting there depends on a client
(`stop_request`).

`FairSpec` of `HttpServer` has weak fairness on the loop's steps (a thread that
runs, and a `select` with a timeout) and on each client giving up: CS2, the client
the port is for, does so after the `"timeout" "5.0"` that the configuration in
`src/config` gives it. `ConnectedIsServed` and `StopEndsTheLoop` hold with that, and
`stop_request` shows that the stop is not honoured without it. No signal is
assumed to interrupt `select`.

**Mutants.** Each property of each passing run has a mutant: a mapped
definition with a plausible mistake, written in the module before it under a
comment "Mutant". With it TLC finds the property violated in that run.

## 4. Where code and documents disagree

| Run | Property | The code | The document |
|---|---|---|---|
| `timeline_loss` | `FlushedSessionIsComplete` | `persist_snapshot` never tests `timeline_` after its flush (`src/src/session.cpp:246`), unlike the two other streams: rows are dropped and the session is reported as flushed | `src/README.md:179`: the queued work is drained before exit |
| `stop_request` | `StopRequestIsHonoured` | `recv()` has no timeout (`src/src/http_server.cpp:255`); a client that sends nothing keeps the loop from reading the stop flag | `src/src/http_server.cpp:216`: the socket is polled so that Ctrl+C can stop gracefully |
| `post_round_ace` | `AceKillIsInLiveRound` | `evaluate_ace` (`src/src/semantic_resolver.cpp:291`) tests neither the phase nor `round_ended_` | `src/docs/SESSION_005_FINDINGS.md:127`: kills after the round stay factual, without ace semantics |
| `clutch_proof` | `ClutchStartIsProvenByGsi` | `evaluate_clutch` uses the last known `local_player_alive_` while another player is observed (`src/src/semantic_resolver.cpp:255`) | `src/docs/SUPPLEMENTARY_STATE_ARCHITECTURE.md:111`: GSI proves that the local player is alive |

Two properties are stated with an exception that the code makes necessary.
`ClutchIsCurrent` excepts a payload for which the supplement is not fresh: one
completed before the supplement was observed, or after it became too old. The
resolver does not compare the two until the next item.
`ClutchEventsAlternate` excepts the start of a round that drops such a clutch without
`CLUTCH_ENDED`: the payload that showed the end of its round was completed before the
supplement was observed, or found it too old.

## 5. What is proved

Each theorem holds for every value of the constants that satisfies the
assumptions named below, where a run has one small instance.

| Theorem | Module | Property |
|---|---|---|
| `TypeCorrect` | `TelemetryIngress_proofs` | `TypeOK` |
| `LiveFollowsRecording` | `TelemetryIngress_proofs` | `LiveIsPrefixOfRecording` |
| `LiveAccountsForAll` | `TelemetryIngress_proofs` | `LiveAccounted` |
| `NothingLeftAtExit` | `TelemetryIngress_proofs` | `DrainedAtExit` |
| `MainListens` | `TelemetryIngress_proofs` | `MainIsListener` (refinement) |
| `RowsHaveTheirBodies` | `SessionReplay_proofs` | `EveryRowHasItsBody` |
| `ReplayKeepsOrder` | `SessionReplay_proofs` | `ReplayIsInOrder` |
| `CrashLosesOnlyTheEnd` | `SessionReplay_proofs` | `CrashReplayIsPrefix` |
| `ReplayTakesItsTime` | `SessionReplay_proofs` | `ReplayKeepsTime` |
| `ProcessIsOneLog` | `SessionReplay_proofs` | `IsOneLog` (refinement), if `Faults = {}` |
| `AnswersAreDeserved` | `HttpServer_proofs` | `AnswerIsDeserved` |
| `AcknowledgedSubmitted` | `HttpServer_proofs` | `AcknowledgedIsSubmitted` |
| `BufferBounded` | `HttpServer_proofs` | `BufferIsBounded` |
| `ServerIsListener` | `HttpServer_proofs` | `IsListener` (refinement) |
| `TypeCorrect` | `FactualEvents_proofs` | `TypeOK` |
| `NothingIsReportedTwice` | `FactualEvents_proofs` | `NoDoubleReport` |
| `RepeatsAreSilent` | `FactualEvents_proofs` | `RepeatIsSilent` |
| `RoundsAreReported` | `FactualEvents_proofs` | `RoundsAreReportedOnce` |
| `AssistsAreReported` | `FactualEvents_proofs` | `AssistsAddUp` |
| `PresenceIsReported` | `FactualEvents_proofs` | `PresenceReports` (refinement) |
| `ContextIsTrue` | `SemanticPipeline_proofs` | `TypeOK` |
| `ClutchesAreCurrent` | `SemanticPipeline_proofs` | `ClutchIsCurrent` |
| `ClutchEventsAreConsistent` | `SemanticPipeline_proofs` | `ClutchEventsAlternate` |
| `MatchesAreSeparate` | `SemanticPipeline_proofs` | `NothingIsInherited` |
| `CountsAreCurrent` | `SemanticPipeline_proofs` | `CountsAreOfThisRound` |
| `AcesAreProven` | `SemanticPipeline_proofs` | `AceIsProven`, if `RequireRevision` |
| `ParserIs` | `GsiJson_proofs` | the parser satisfies its own equations at every call, and each call fails or ends later than it began and within the text |
| `TextIsTyped` | `JsonTexts_proofs` | a text, edited or not, is over its alphabet |
| `GrammarIsAlwaysFollowed` | `JsonTexts_proofs` | `GrammarIsFollowed` |
| `IntegersAreAlwaysRead` | `JsonTexts_proofs` | `IntegersAreRead` |

The assumptions about the process are `RecorderAssumption`, `LiveAssumption` and
`IngressAssumption`: the constants have their types, main is no provider,
nobody's name is no thread, and the session starts before the last time. Those
about the server are in `HttpAssumption`: limits are numbers, a part and the
backlog hold at least one, the headers of a request are not empty, and what
`parse_content_length` returns of them is a number or nothing. Those about the
reports are `GameStateAssumption` (an `int` has some bits; that `2 ^ IntBits` and
`2 ^ (IntBits - 1)` are positive numbers, and the first is twice the second, is
arithmetic the provers do not know), `PayloadAssumption` (what is read
as an integer is one, or missing), `NoneAssumption` (what is missing is no integer
and no snapshot) and `StreamAssumption` (section 3). `MaxRestarts` is not assumed
to be anything: however often the counters go back, the theorems hold. Those about
the resolver are `GameAssumption` (section 3), `AgeAssumption` (an age is a number or
missing) and `AbsentAssumption` (what is missing is neither a supplement nor the counts
of one); `MaxNow` and `GateDelay` are not assumed to be anything, so payloads and
supplements may be late by any time. Those about the parser are `JsonAssumption` (the
widths are numbers, and what is absent has no type) and `GrammarAssumption` (the bounds on
the lengths of texts are numbers, and leave room for the two quotes or brackets); the
bounds can be any, so the theorems are about texts of every length, and an edit can
make any of them.

**The gate.** `LiveIsPrefixOfRecording` is not inductive: a call of the gate extends
the recording first and the pipeline later, and nothing in the property says that
what it then adds is the next record. `IngressInv` states what is owed. A thread
in the middle of a call is the holder of the gate, hence there is at most one.
Its `call.order` is the last record. While the pipeline is open, the recording is
one record longer than what the pipeline accepted if there is a holder, and
equally long if there is none. Once the pipeline is closed the recording may
grow on, and the pipeline never opens again. With this a fan-out
appends exactly the next record. `LiveAccounted` is inductive with one
condition about the worker's position, that the item it popped is there as long
as it is processed (`LivePendingInv`).

**The end.** A worker that is done has seen the stop and found its queue empty, or
has failed; a part whose worker is done accepts nothing (`LiveDrain`,
`RecorderDrain`). Main passes a join only when the worker is done. For the
recorder the invariant also counts: rows, the record in hand and the queue are as
many as the accepted records, while no row was lost. The lemmas `RecorderSteps`,
`LiveSteps` and `MainSteps` say once what a step of the whole process is to each
of its parts; the proofs about files and log use them too.

**The files.** `FilesInv` has five parts. The orders of the accepted records are
their positions. The queue is the end of them, and the record in hand comes before
it. Rows of each file stand for records before that one, with growing orders. While
the worker lives, `raw_offset_` is the length of `raw.gsi`, and each row, and the
record whose body was written, names bytes of its own: `PersistRawFails`
leaves bytes that `raw_offset_` does not count, which is harmless only because the
worker never writes again. As long as the timeline stream is good, the rows of both
files are as many as the records done with. From here the order of
replay is a statement about sorting. No two rows have the same order, since a record
has one kind, so the place of a row is the number of smaller orders plus one; this
is a bijection, by the pigeonhole principle, and follows the orders
(`RankIsMonotone`, `RankIsOnto`). When no row is missing the orders are the numbers
from 1 on, and a row's place is its order (`RankIsKey`).

**The time of replay.** The clock of replay and what it has slept are functions defined by
recursion along the stream, of any length. `SleptIsLatest` gives both in closed form: the
clock is the latest observation so far, and the sleeps come to its distance from the
first. That these closed forms satisfy the recursions shows that the functions exist;
that nothing else does is shown at the least place where it would
differ (`AllPlaces`, from the well-foundedness of the natural numbers).

**The log.** With that, the replay stream is the first `Rows` accepted records and the
processed items are the first so many, so a step of the process either accepts,
adds to one of the two numbers, closes the recorder or changes nothing that the log
shows. `Faults = {}` is needed: with a disk that fails, rows are missing.

**The server.** `IInv` orders the clients (answered, served, waiting, to come, by the
number of their connection), says what is known of the request in hand at each
`pc` (how much of it is in the buffer, that the header test was passed), and what
is owed: in `submit` and `thrown` the last acknowledged payload is not yet
submitted. An answer, once given, stays deserved although the client may go on
sending; this is what `AnsweredInv` adds to `AnswerIsDeserved`.

**The reports.** A batch is a sequence put together from parts that are each there or not,
and the lemmas of `EventDetector_proofs` say of every part, by the type of its events,
when it is there and what it carries. With them the types of a batch and the few values
that matter (the round that ended or was decided, the assists) are functions of
the snapshot, the one before it and the memory. `Inv` of `FactualEvents_proofs` then has a
part for each thing that is remembered.

- `MemoryIsCurrent`: the flags `acquired` and `lost` agree with the previous snapshot.
  One that shows the local player in a match leaves him acquired and not lost, one
  that shows another player leaves him lost if he was acquired, and the menu forgets him.
  This is what makes a repeated snapshot silent (it can neither lose nor restore him
  again) and the reports follow `LocalPresence`.
- `RoundsAreInOrder`: rounds end in the order of their numbers, so that the detector, which
  remembers only the last one it reported, knows all of them: an older round is less
  than the round the previous snapshot is about. The last one is decided only if the
  detector remembers its outcome. After the number went back `ended` starts anew, and the
  one round remembered from before is `carried`.
- `AssistsAreRemembered`: the memory holds the counter of the previous snapshot. When that
  shows none, the memory still holds the last one if the player is lost, which is when it
  is compared on his return. A player who is not lost and whose counter a snapshot hid
  is the `gap` that `AssistsAddUp` excepts.

**The resolver.** A lemma for each of its operators says which fields it changes and that
it keeps `Sound`, what holds of a resolver between any two of its operations: context and
state agree, before the first payload nothing is known, a clutch has its grounds (a
known round that has not ended, a team, a supplement from after the start of the round),
and a baseline has a team and, where one is required, a revision. Two further parts
hold only between two calls, `ClutchIsJudged` and `CountsAreShown`: with
a fresh supplement, the clutch is the one that state and supplement show together, and
the counts shown are those of the latest supplement. A call breaks both when it learns the
new state and restores both when it judges it, or it finds the supplement not fresh, and
then neither says anything. `Inv` relates the resolver to the detector, whose
previous snapshot is the resolver's state as soon as there is one, and to the
history. That is what excludes a clutch dropped in silence: at `ROUND_STARTED`
the previous snapshot shows `freezetime`, but a clutch that was judged by it would need
it to show `live`. For the ace, a baseline that is still trusted has the one revision
that was published (`RosterIsOne`): a supplement with another one is taken only by a
call that also sets `roster_changed_`. A call emits at most three
events, so that what they tell is computed without induction (`ToldInTurn`,
`OneMoreTells`).

**The parser.** A recursive function exists only if its calls descend. Here each call makes
calls at later positions only, but an array makes one for its first value where it
is; a rank that orders the calls by position, and the loop over elements before the value,
makes it so (`ParserIs`). What the loops compute is then shown by induction on positions or on
lengths. Such an induction is made from a least counterexample, which the
well-foundedness of the natural numbers provides (`Upwards`, `Downwards`).

- *Numbers.* The grammar's digits are the segments of a text that hold only digits, with the
  value the parser computes, by the length of the segment. Each rule of the grammar is
  then a statement about the positions of the sign, the point and the `e`, and so is
  `ParseNumber`.
- *Strings.* A round of the loop of `parse_string` reads one unit of the grammar
  and nothing else, and the content of a string is unique for a position.
- *White space.* `Bare(t, p)` is a text from `p` on without its white space. A symbol
  that `SkipWs` finds is the first one of it, so what a call reads is described by `Bare`
  where it begins and `Bare` where it ends.
- *Structures, what is parsed is in the grammar.* By the depth, but a text has no depth: the
  number of symbols a call reads bounds it. A value of at most `2k + 1` symbols has
  depth at most `k`, and a round of a loop takes at least two symbols, which also bounds
  the number of items. Objects need that inserting the members from the last to the first,
  where a later one stays, is the grammar's choice of the last member of each key.
- *Structures, what is in the grammar is parsed.* By the depth, and for each depth by the number of
  items, for a text that goes on in any way after the value.

`IntegersAreRead` follows from the part about numbers, for a number inside an object, and
from arithmetic modulo `2 ^ IntBits`.

Only model-checked: liveness (fairness and `ENABLED` are outside the prover's reach).

## 6. What the model leaves out

- A write and its flush are one step that reaches the file or fails, in whole or
  in part. The retry of a flush in a stream's destructor is not modelled.
- After an exception in main, `g_active_server` points at a destroyed server. A
  signal that arrives then is undefined behaviour and is not modelled.
- The parsing of rows; of an HTTP request, the search for the blank line and the
  names of headers; the text of events and of the console; the batch handler except that it may throw.
- Session schemas v1 and v2, which the program reads and no longer writes.
- The value of a floating-point number, which nothing reads: the model has only
  whether it is finite, told by its exponent alone. A number with some three hundred
  digits before the point, or an exponent that its digits make up for, is judged
  otherwise by `strtod`. The depth of recursion of the
  parser is not bounded in the code and not modelled.
- In the HTTP server: the opening of the listening socket and its errors, and a
  connection that disappears between `select` and `accept` in such a way that
  `accept` blocks. Sending to a reset connection may end the process (`SendKills`).
- `EventDetector::reset`, which nothing calls.
- The parts of the semantic context that copy GSI fields, and `alive_delta`.
- Widths: `ReadInt` models the cast of an integer to `int`; sequence numbers and
  times are natural numbers within the bounds.

## 7. Plan

Done, in this order: `SessionRecorder`, `LiveEventPipeline`, `TelemetryIngress`
with its proofs, `SessionReplay`, `EventDetector` with `FactualEvents` and
`LocalPresence`, `SemanticResolver` with `SemanticPipeline`, `HttpServer` with
`GsiListener`, `TelemetryLog`, `GsiJson` with `JsonGrammar`; then the proofs about
the server, the end of the process, the files, the log, the factual reports, the
resolver and the parser.

What would add most next:

1. A direct change of map, which `LeavesFirst` excludes, once it is decided what
   the program should do then.

## 8. Not modelled

- Clock: only the clamp of `seconds_between`, in `SessionRecorder`; the clock
  itself is a number that grows.
- Edition: constant tables, and folds over them that are only printed. Nothing in
  it keeps state or decides what the program does.
- Tests, build and configuration: no behaviour of the program. The tests were
  read for what is intended.
