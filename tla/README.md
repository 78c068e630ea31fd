# A TLA+ model of the flowerbed programs

The repository is a UDP transport written from scratch (`src/src`,
`src/include`) and an application on top of it (`src/8-9-10`): a server, two
gardeners, a flowerbed and any number of monitors. A flowerbed names flowers that
want water, gardeners fetch them from the server and report what they watered,
the flowerbed learns of it and stops when a flower was watered twice.

The modules here model the whole of both layers. TLC checks them on small
instances; TLAPS proves the safety properties of both servers, of the transport as a
whole and of the application as a whole for every value of the constants. Paths below are
relative to the repository's files (`src/...`); the repository's own README is cited as
`src/README.md`.

## 1. The system

| part | code | state it keeps | operations |
|---|---|---|---|
| transport server | `udp_server.cpp`, `handshake_manager.cpp`, `connection_manager.cpp` | id counter; handshakes (flag, last activity); clients (segments, total, last activity); heap of (time, id) | one turn of `start` per datagram: INIT_REQUEST, HS, DATA, ACK/NACK; both managers purge at its end |
| transport client | `udp_client.cpp` | client id, socket | constructor (handshake), `sendMessage` (segments, ACKs, answer) |
| application server | `8-9-10/server.cpp`, `flowerbed_state_manager.hpp`, `route_manager.hpp` | seats of gardeners with time stamps, flowerbed flag and stamp, updates, flowers to water, monitors | seven routes, run by the main thread; `checkConnections` in a worker thread every 10 s |
| gardener | `8-9-10/gardener.cpp` | `stop_flag`, attempts | a ping thread and a watering thread |
| flowerbed | `8-9-10/flowerbed.cpp` | `stop_flag`, counts per flower, two mutexes | first ping, main loop (`/getUpdates/`), ping thread, thread that names flowers |
| monitor | `8-9-10/monitor.cpp` | none | asks for the server's data for ever |
| messages | `message_parser.cpp`, `messages.hpp` | none | text to datagram |
| sockets, log, build, `run.py` | `socket_manager.cpp`, `debug_logs.hpp`, ... | none | system calls, output, starting processes |
| stages 4-5 and 6-7 | `4-5/`, `6-7/` | as 8-9-10 | earlier copies with fewer routes |

How they interact. Client threads of one process share one `UDPClient` behind
`socket_mtx`, held over the whole of `sendMessage`. `UDPClient` and `UDPServer`
exchange datagrams. A complete message reaches the application through
`handleMessage`, called by the transport server's main loop, so the application's
routes run one after another; they share `FlowerBedStateManager` (one mutex,
taken per method) with the worker thread.

What is hard here, and what makes each part correct:

* **Sessions expire on two clocks** (60 s for a handshake, 300 s for a client)
  and the loop throws out of `main` when an authenticated client is not
  registered. The two managers must never disagree: `ServerStaysUp`.
* **Eviction is lazy**: a heap with entries that are out of date. It must evict
  exactly what a scan would: `EvictsExactlyTheIdle`.
* **Datagrams are lost, damaged, late, repeated**, the server restarts. A segment
  once acknowledged must not be lost (`AckedIsKept`), messages are not mixed up
  (`OnlyWholeRequests`, `AnswersMatch`), a text has all its segments in their
  places (`TextsAreAnswers`) and is what the server sent (`AnswersAreIntact`, which the
  client does not see to), each request is handled a bounded number of times
  (`IsRequestResponse`), no call hangs (`CallsEnd`), and without faults every call
  succeeds (`CallsAnswered`).
* **Two programs cut, sum up and join texts, each with its own code**: it must fit
  at every length (`TextsSurvive`), and the two checksums must agree on what is
  sent (`OnlyAsciiIsAccepted`, `DamageIsNoticed`). Both sides read a datagram up to its
  first NUL only.
* **Two threads in the server.** `isReady` and the work after it are two critical
  sections, and so are `getUpdates` and `clearUpdates`; the worker runs between
  them: `IsWateringBoard`, `ReadyMeansPresent`, `PresenceIsKept`.
* **Three threads in a flowerbed, two in a gardener**, with two mutexes, a stop
  flag and retry loops: they must all end when one stops (`StopEndsThreads`) or the
  server is gone (`ClientsEnd`, which the code does not keep, and
  `OnlyFetchingOutlives`, what it does keep).
* **A flower wanders** from the flowerbed over the server to one of two gardeners,
  its watering back over the server to the flowerbed, each way through calls that
  may fail, be repeated or end with the answer to an earlier one: neither may be doubled on the way
  (`FlowersAreNotDoubled`, `ReportsAreNotDoubled`).
* **The two layers together**: a request that the transport delivers twice is a
  flower watered twice in the flowerbed's books (`DiesOnlyOfWater`), and a call that
  waits for a lost datagram is a ping that comes late (`OneFlowerbed`).

`PROJECT.json` lists each hazard at its line with the properties about it.

## 2. The modules

Transport:

* `Datagrams` - the datagrams as `MessageParser` hands them to the visitors. A
  message is a sequence of chunks (at most 512 bytes in the code), a payload is
  one chunk, `client_<n>` is the number n. A checksum is abstracted to whether
  the bytes are the ones that were sent.
* `Segmentation` - what `Datagrams` abstracts from: bytes, segments and the two
  checksums as functions, the client's over signed `char`s and the server's over
  `uint8_t`s; the segments of one text arrive in any order, and the receiver, server or
  client, has of each what comes before its first NUL (`AsRead`). The module has nothing in
  common with `UDPServer` but the run: `PartsSpec` of `MCUDPServer` is either a text on
  its way or, if there is none, the server under its datagrams.
* `UDPServer` - one action per datagram type, each a **whole turn** of the loop:
  receive, handle, send, purge both managers. The code reads the clock up to four
  times per turn; `lap` says how much later than the first each of the others is.
  `alive` becomes FALSE if the exception of `trackSegment` leaves `start`. The
  heap is a set of entries: equal entries are popped together.
* `IdleEviction` - abstract: after each turn exactly the clients heard within the
  timeout are kept. `UDPServer` implements it with `lastSeen <- last_active`.
* `UDPClient` - one object per client; a step is what happens between two blocking
  waits. Every ACK ends the wait, whatever its id or number; HS is answered and
  the segment sent again; NACK throws; a wait of 1 s without a datagram sends
  the segment again; the 10 s of `sendMessage` are counted in such waits
  (`MaxResends`).
* `UDPTransport` - clients, server and a network that keeps the order of the
  datagrams between two processes unless it loses, damages, delays or repeats one;
  pauses of the server and restarts. The requests are numbered so that a request
  and its answer can be told apart. A **scenario** says how many segments a request
  and an answer have and how many faults of each kind there may be; each behaviour
  has one, chosen at its beginning from `Scenarios`, so that one run covers several.
* `RequestResponse` - abstract: what a caller of `sendMessage` may rely on; `most`
  says how often a request may be handled.

Application:

* `Population` - who takes part, requests and the answers there are to each.
* `FlowerBedServer` - the route handlers cut at the critical sections of
  `FlowerBedStateManager`; `handler` says where the main thread is between two
  of them. `CheckConnections` is the worker. `heard` is a history variable.
* `WateringBoard` - abstract: flowers and updates if each handler were one step.
* `Calls` - `sendMessage` as the client threads see it: one call at a time per
  process, ending in a text, nullopt or an exception. An empty answer (no
  updates) is nullopt: the server sends one segment without data, and the
  client returns nullopt for an empty text.
* `Gardener`, `FlowerBed`, `Monitor` - a step is what a thread does between two
  points where it blocks or can be overtaken.
* `FlowerBedSystem` - gardeners and flowerbeds around the server (a monitor only
  reads the server's state and is left out here). Instead of the datagrams of
  `UDPTransport` it has what they come to for a caller. A request is handled and the
  client's next answer ends the call. A call may be lost, the request or its answer (a
  request only if every copy that `awaitAck` sends is). A request may be handled once more,
  and then its second answer may stay in the socket (`late`): since
  `receiveResponse` compares nothing, every later call of that client ends with the
  answer to the one before, as `transport_expiry` shows of the datagrams, until a loss makes up
  for it. So `/getFlower/` may be answered with `OK`, on which `stoi` throws, and a ping with a
  flower, which is lost; `Gardener` and `FlowerBed` say what the code makes of each.
* `ClientLifecycle` - one client alone against **any** server: every call is
  answered with anything the server has for it or for an earlier call of the
  program, or fails, and from some moment on the server may be down. Used for liveness. `MCClients` has
  it in one run with the patient clients of `UDPTransport`, which show the one thing it assumes of
  them, that every call ends; the two share no state, and a behaviour is about one of them.

Each of `Segmentation`, `UDPServer`, `UDPTransport`, `FlowerBedServer` and `FlowerBedSystem`
has a module with its theorems beside it, `..._proofs`; the refinement of `IdleEviction` has one of
its own, and so has what holds of patient clients only, `UDPTransportPatient_proofs`.

The mapping from definitions to lines is in `PROJECT.json` under "map". Names are
the code's. Definitions whose comment begins with "Faulty variant" are not part
of the model: each is a plausible bug of the action it stands beside, and is there
to show that the properties tell it from the code.

## 3. What is checked

| run | instance | shows |
|---|---|---|
| `server` | 2 ids, clock to 3, lag 0..1, handshake timeout 0, inactivity timeout 1, message of two segments; answers none, empty, one segment. For `Segmentation`: texts up to 5 bytes of 2 bits, words of 4 bits, 2 bytes per segment, from either side | `ServerStaysUp`, `AckedIsKept`, `EvictsExactlyTheIdle` against any datagrams the client's code could send, in any order, damaged ones included, and restarts; `TextsSurvive`, `OnlyAsciiIsAccepted`, `DamageIsNoticed` |
| `clients` | 2 clients, 2 calls each; two segments each way without faults, or one segment and any 2 datagrams lost; a wait expires only when nothing is on its way. And, by itself, 1 gardener, 1 flowerbed or 1 monitor, 3 attempts, any answer to any earlier call, locks without fairness | right answers, whole requests, distinct ids, calls end (with a text if nothing is lost), each request handled once, or at most resends+1 times; and as calls end, all threads end once `stop_flag` is set, and when the server is down, only the main thread of a flowerbed that fetches for ever keeps a process alive |
| `transport_adverse` | 1 client, one call, two segments each way; the 21 budgets of two faults out of loss, damage, delay, repetition, pause and restart; timeouts 0, waits expire at any moment | the server stays up, texts are the answer but for damaged bytes, calls end |
| `flowerbed_server` | 3 gardeners for 2 seats, a flowerbed, a monitor, 1 flower, 2 updates, flowers beyond both ends of the range, timeout and period 1, clock to 4 | presence, readiness, and the board as a service |
| `system_watering` | 1 gardener (1 seat), 1 flowerbed, timeout 0; either 1 repetition and, after it or without it, 1 loss, hence late answers too; or a clock that goes on once, at any moment, so that the worker may drop both clients between any two steps | types, and no retry beyond the last; neither flowers nor reports are doubled |
| `two_gardeners` | 2 gardeners for 2 seats, 1 flowerbed that may name the flower twice, no drops | two gardeners never hold a flower that was named once, nor is it held and on the board, unless it was named again |

Runs that **find a counterexample**, each to a sentence of `src/README.md` or a
comment (quoted under "findings" in `PROJECT.json`):

| run | what happens |
|---|---|
| `transport_chimera` | The ACK of the last of two segments is lost. The repeated segment is stored after the message was handed on and the buffer cleared; it completes the next request after that one's first segment. The application gets half of each. |
| `transport_expiry` | No fault at all: the handshake of an active client expires after 60 s, the segment that met it is sent twice, the request is handled twice, and the next call returns the second answer to the previous one. |
| `watered_twice` | One lost ACK: `/water/` is handled twice, the flowerbed counts two waterings of a flower watered once and stops. |
| `two_flowerbeds` | One lost answer: the main thread holds `socket_mtx` for the 10 s of `sendMessage`, the ping thread waits for it, the server forgets the flowerbed and accepts another one. |
| `clients_starved` | The server is down. The main loop of the flowerbed retries without counting and without a pause, and the threads that would set `stop_flag` need not ever get the unfair mutex. |
| `transport_damage` | One damaged byte in the answer: the client does not compare the checksum and returns a text the server did not send. |

### Bounds, and why they are enough

Two ids and two clients are where ids, answers and sessions can be confused; two
segments are where a message can be incomplete or mixed; two calls are where a
late datagram meets a later call. Two seats with three gardeners have a refusal,
and a seat that becomes free. Timeouts are scaled: only the order of stamps,
timeouts and purges matters, and with the handshake timeout below the
inactivity timeout, lag 1 and a clock up to 3 every order of the two expiries
and of the four readings of a turn occurs. In `transport_adverse` two faults are
what it takes for one to meet the consequences of another (a repeated INIT_REQUEST
and a restart, a late segment and a damaged one); a pause is a second, and with
timeouts of 0 it makes everything expire; three ids are as many as two repeated
INIT_REQUESTs can use up; a wait may
expire at any time; in the other runs (`Patient`) only when nothing is on its
way, which is what 1 s is to a local network; `MaxResends` bounds the waits
within the 10 s. In `flowerbed_server` the clock goes on for twice as long as a silent
client may keep its seat (`Grace`, here 2), so that one is heard, falls silent, is
dropped, and comes back; `MaxDelay`, how late the worker is scheduled, is 0 there and a
parameter of the theorems; with two updates their order shows. In the runs of the system
the seats are one (`MaxGardeners`, two in the
code) so that one gardener makes the server ready; what the second seat does to
the server is the subject of `flowerbed_server`, two gardeners at work that of
`two_gardeners` (the gardeners are alike there: `SYMMETRY`). One flower is enough
for the books of one flower, which the two properties keep. In `system_watering` it is
named once, so that any doubling shows, and in `two_gardeners` twice, so that one
gardener may have it still when it is named anew. Losses and repetitions are one each, since
one repetition leaves an answer over and one loss after it takes it out again. The worker
and the faults do not meet in one behaviour (`IsCase` of `MCFlowerBedSystem`) for the
size of their product. At most one answer is left over per client
at a time, a bound of `HandledAgain`.
`ListBound` is the longest list of updates
an answer of the model can carry: two, since with one flower the second update ends
the flowerbed that reads it. The bytes of `Segmentation` are of two bits:
what matters of a byte is on which side of ASCII it is, and whether it is NUL; its text
goes over a full segment, a multiple of one, and a rest. `Prompt`, for `two_flowerbeds`, leaves
time to pass only while a flowerbed waits for something lost: the sleeps between pings
are short compared to the server's 10 s, a lost datagram is not.

`CHECK_DEADLOCK FALSE` is set for the runs of the system and of the clients:
there all clients may have ended, or all that is left is cut off by a bound.

### Fairness

* Transport (`TransportFairness`): the server's loop is weakly fair, and so is the
  wake-up of a blocked client, for a datagram **or** for the end of its wait: no
  more is assumed of which of the two comes first than `Patient` says. Faults, new
  calls and the clock are not fair.
* Clients (`ThreadFairness`): every thread goes on, every call ends, and a thread that
  waits for `socket_mtx` or `mtx` gets it if it stays free. That is all `std::mutex`
  promises: no fairness among the threads that wait, so that a lock that is
  free again and again may be missed for ever. It is weak fairness of each step. With it
  a flowerbed need not end when its server does (`clients_starved`);
  `OnlyFetchingOutlives` says that this is the only way: either the main thread
  goes through `/getUpdates/` for ever, or all threads end. `StopEndsThreads`
  needs no more, as each thread takes a lock only finitely often once `stop_flag` is set.

## 4. What is proved

Seven modules hold proofs: `Segmentation_proofs`, `UDPServer_proofs`,
`UDPServerRefinement_proofs`, `UDPTransport_proofs` and `UDPTransportPatient_proofs` for
the transport, `FlowerBedServer_proofs` and `FlowerBedSystem_proofs` for the application.
They hold for every value of the constants that satisfies the named assumptions: any number
of clients, seats, flowers, segments and calls, any length of a text, any budget of faults.

**Segmentation.** `SegmentationAssumption`: a word has more values than the bytes of a
segment can add up to (256 * 512 < 2^32). Checksums and joining are folds over sequences;
what they compute is proved by induction over the length, with the set of the lengths of
which a claim is true (`AllNumbers`, from the well-foundedness of `<` on the numbers).
`FoldSums` turns the fold into the sequence of its partial sums; from there

* `ExactSum`: the server's sum does not wrap around, hence `OneByteChanged`: another byte in
  one place gives another sum;
* `SumsDiffer`: the client's partial sum is less than the server's by 256 for each byte so
  far that is not ASCII (`Deficit`), modulo 2^32; as that is less than 2^32 in total, the
  sums are equal exactly if there is none;
* `Cut`, `CutAll`, `PartsJoin`: the first k segments joined are the first `Upto(k)` bytes of the
  text, and the last one ends where the text does.

`EndsAt` has exactly one n for each payload (`EndExists`, `EndIsUnique`), so `AsRead` is the part before the first
NUL, and all of a payload without one (`NoNulIsRead`). What lies behind adds 0 to the sum exactly if it is NULs only (`PrefixSum`, `SamePrefixSum`);
a byte changed before the first NUL or in its place changes the sum of what is read.
`SegmentationInv` says that the segments are those of the text and that each stored payload is
what was read of the one of its number; a set of as many numbers as there are segments has all of them
(`FullSet`). Hence

* `SegmentsSurvive` - `SegmentationSpec => []TextsSurvive`
* `ClientMustWriteAscii` - `SegmentationSpec => []OnlyAsciiIsAccepted`
* `ChangedBytesAreNoticed` - `SegmentationSpec => []DamageIsNoticed`

**Transport server.** The assumption that matters is `TimeoutAssumption`:
`HANDSHAKE_TIMEOUT + MaxLag <= INACTIVITY_TIMEOUT` (60 and 300 in the code, so a
turn may take up to four minutes between two of its readings). `ServerStaysUp`
is not inductive: whether a client is still registered depends on stamps in both
managers. `ServerInv` adds `SessionsLinked` (a complete handshake has a
registered client whose stamp is not older), `ClientsQueued` (the newest stamp of
every client is in the heap) and `HandshakesPast` (no handshake is younger than
the clock). `EndTurnKeeps` is the heart: a client evicted at the end of a turn has
been silent so long that its handshake, which is not younger, was purged just
before. From it follow

* `ServerTypeCorrect` - `ServerSpec => []ServerTypeOK`
* `ServerNeverThrows` - `ServerSpec => []ServerStaysUp`
* `ServerEvictsExactlyTheIdle` - `ServerSpec => EvictsExactlyTheIdle`: every turn
  maps to `Touch` or `Purge` of `IdleEviction`; `EvictionIsExact` shows that
  popping old entries and asking the owner is a scan, from `ClientsQueued`.
* `ServerKeepsTheAcked` - `ServerSpec => []AckedIsKept`: the purge reads the clock
  at most `MaxLag` after the client was stamped.

**Application server.** No assumption on the timeout: only that there is at least
one seat and that the worker sleeps at least one unit. `AppInv` consists of

* `BoardOK`: what the main thread copied in `getUpdates` is still all there is when
  it comes to `clearUpdates`, because the worker does not touch the updates and no
  other handler runs meanwhile;
* `SeatsOK`: `gardener_count` is the number of `gardener_ids`, at most the seats,
  and each has a time stamp that is the time it was last heard;
* `WorkerOK`: whoever is connected was heard at most `TIMEOUT` before the worker's
  last check, so at most `TIMEOUT + PERIOD` before its next one, and the clock is
  at most `MaxDelay` past that. `ReadyMeansPresent` is not inductive without it:
  it speaks of the present moment, the worker looked at an earlier one.

From it follow `AppTypeCorrect` (`AppTypeOK`), `ServerReadyMeansPresent`
(`ReadyMeansPresent`), `SeatsAreKept` (`PresenceIsKept`) and
`ServerIsWateringBoard` (`IsWateringBoard`: each half of a handler maps to one
step of `WateringBoard` or to `Pause`).

**Transport as a whole.** `WiringAssumption` says that the server is the one of
`UDPServer` for at least the messages and answers of the scenarios; `TransportInit` and
every step of clients, network and faults preserve

* `TransportInv` = `ServerInv` with `NetworkOK` (whatever is on its way to the server is
  an INIT_REQUEST, a handshake, or a segment of a message its sender has begun to send),
  `ProcessesOK` (what a client holds fits the place it waits at: `outgoing` is a message of
  its own, an ACK is still missing, nothing is collected before the last ACK) and
  `ScenarioOK`. Hence `TransportTypeCorrect` and `TransportServerUp` (`TransportTypeOK`,
  `ServerStaysUp`).
* `IdsOwned`: an id a client can still come to send with, because it bears it, or because
  it is in a segment it keeps, in a datagram of its own on the way to the server or in one
  to it, is below `nextId` and no other client's. `IdsAreDistinct` says this of the ids
  clients bear, which is not inductive: two answers to a repeated INIT_REQUEST are both on
  their way to the same client. A restart gives the ids anew, hence `NotRestarted`:
  `TransportIdsDistinct` - `TransportSpec => [](NotRestarted => IdsAreDistinct)`.
* `BuffersOwned`: what the server stores under an id is of segments that one client sent,
  each at its number. `TransportRequestsWhole` - `[](Unmixed => OnlyWholeRequests)`.
  `Unmixed` is the condition under which segments of two messages cannot meet in one
  buffer: a message has one segment, or each client has made one call, under an id no other
  client has (no restart, or a single client). `transport_chimera` shows a second call
  without it. The longest request of the application, a `/toWater/` with 10 flowers
  (`flowerbed.cpp:178`), fits into one segment of 512 bytes, so for this application the
  first half of `Unmixed` always holds; the second is about the transport as a library.
* `AnswersOwned`: what is on its way to a client, what it has collected and what it
  returned is of answers to its own messages, each segment in its place, damaged or not;
  and `DamageCounted`: the segments of the answer to a first call that are not what was
  sent are at most as many as the network has damaged. Counting must follow a segment
  from the datagram over `incoming` to `result`, where a repeated datagram may be damaged
  and its twin not. `TransportTextsAreAnswers` - `[](Unmixed /\ FirstCalls =>
  TextsAreAnswers)`, and `TransportAnswersMatch`, the same with an undamaged budget for
  `AnswersMatch`. `FirstCalls` is needed: an answer does not say what it answers, and after
  a fault the second call may return the answer to the first (`transport_expiry` shows how).
  For patient clients neither condition is needed, as the next paragraph shows.

**Patient clients, any number of calls.** `PatientNetwork` names the circumstances the
timeouts of the code are made for: a wait expires only when nothing for the client is on
its way (`Patient`), no more time passes than a handshake lasts (`MaxTime <=
HANDSHAKE_TIMEOUT`), and the network is `Forgiving`: nothing comes late or twice, the
server is not started anew, and datagrams are lost or damaged only where a message is one
segment, as all messages of this application are. Each condition is one a run shows to be
needed: without the second `transport_expiry` finds a request that is handled twice, without
the last `transport_chimera` one made of two halves. Pauses of the server, and any number
of clients, calls and segments, are allowed. `PatientInv` says of each client
(`PatientClient`), for each place it can be at,

* what is on its way from it and to it (`AtRest`, `AwaitsInit`, `AwaitsAck`,
  `AwaitsResponse`): at rest nothing at all; in `awaitAck` either a handshake and the
  present segment on the way out, or short answers and the text on the way back, in the
  order of their `Rank`. This is what makes it inductive that a client meets no datagram of
  an earlier call;
* what the server has of its message (`IsLinked`, `IsBuffered`): the segments before the
  one that is on its way, and none when the last was taken, so that the buffer is empty
  when the next call begins;
* that something is still to come for it where nothing is lost (`IsHeard`), so that it never
  sends a segment twice there;
* how often its message was executed (`IsCounted`): never before the call, at most once for
  each time the last segment was sent (`Tries` says how many of them have been answered),
  and at least once when a segment of the text is on its way;
* what it returned (`HasResult`).

A step of another client, or a turn of the server for another client, leaves all this alone,
because no id is used by two clients (`IdsOwned`): `PatientStays` is the lemma about what is
left alone, and each step has one lemma for the client it is a step of. TLC checked
`PatientInv` as an invariant on the instances of `clients`, one with three
segments, and one with loss, damage and a pause, before it was proved. Hence

* `PatientRequestsWhole` - `TransportSpec /\ PatientNetwork => []OnlyWholeRequests`
* `PatientAnswersMatch` - `TransportSpec /\ PatientNetwork =>
  [](faults["damage"] = scenario.budget["damage"] => AnswersMatch)`; after damage a text may
  have other bytes, since the client does not compare checksums
* `PatientIsRequestResponse` - `TransportSpec /\ PatientNetwork => IsRequestResponse`: the
  turn that hands a message to the application is `Execute`, the datagram that completes
  a text is `Return`, every other end of a call is `Fail`, and whatever else clients, server
  and network do the caller does not see (`ClientStepSeen`, `ExecutesRefines`).

**Application as a whole.** `ProgramAssumption`: the clients are finitely many and each runs
one program. `SystemAssumption`: a gardener can say what it was given (`Flowers \subseteq
Indices`) and the lists of updates fit the answers of the model (`MaxUpdates <= ListBound`,
both of them bounds). `SystemInv` adds to `AppInv`

* `SocketsOK`: a call that holds a socket is the call of the thread that waits in it, and
  its outcome is one that some request of its program has; `LateOK`: so is an answer
  that is left over;
* `HandlerFits`: the server works on the request of the one call whose stage is "taken";
* `GardenersOK`, `FlowerbedsOK`, `ListsFit`, `CountsOK`: between two calls a thread has what
  its next one needs (a flower before it tells, a list while it handles one, an attempt
  left before it asks).

From it follow `SystemTypeCorrect` (`SystemTypeOK`)
and, because every step of the system is a step of the server or leaves it in peace
(`SystemStepOfServer`), what was proved of the server alone: `SystemReadyMeansPresent`,
`SystemKeepsSeats` and `SystemIsWateringBoard`.

`FlowersAreNotDoubled` and `ReportsAreNotDoubled` are ledgers: sums over all the places
where a flower or a report of it can be. Given `SystemInv` they are inductive for each flower
(`FlowerOnce`, `ReportOnce`): each step moves the flower from one place to the next, or
drops it, or is one of the two that may add to it, a flowerbed that names it (`asked`) or a
request that is handled again (`Repeated`). The answer that is left over for a client is a place of
its own (`Left`, the tokens tagged "late"): when a call ends with the answer to the one before,
the flower or report in that answer moves to the thread and the one in the call's own
answer takes its place (`Answered`). The proofs have one lemma for each half
of a handler and each step of a thread, and one that says that all other
places keep what they have; the reports are counted as a set of tokens, one for each that a
flowerbed was sent, has to read or has counted, so that a step can be followed as a
change of that set. Hence

* `FlowersWateredOnce` - `SystemSpec => []FlowersAreNotDoubled`
* `WateringsReportedOnce` - `SystemSpec => []ReportsAreNotDoubled`
* `DeathByWater` - `SystemSpec => [](repetitionsLeft = Repetitions => DiesOnlyOfWater)`: the
  sentence `watered_twice` refutes does hold until the transport delivers a request twice.

**Only model-checked.** Liveness (`CallsEnd`, `CallsAnswered`, `StopEndsThreads`,
`OnlyFetchingOutlives`): fairness is out of the provers' reach.

## 5. What is not modelled

* The matching of the regular expressions of `MessageParser`, the formatting of
  messages, the creation of sockets, output. A datagram no parser accepts is
  dropped by both sides; `HS_COMPLETE: <id>` is one, since the parser knows the bare
  word only. Damage to the header of a datagram (another id, another number) is left
  out: the checksum is over the payload only, and no side could notice. So are the datagrams no
  client of the repository sends: a TOT of 0, and numbers that overflow `stoul` or `uint32_t`.
* Texts that are not ASCII, or have a NUL: no program sends one. The client sums signed `char`s
  (`udp_client.cpp:147`), the server `uint8_t`s (`message_parser.cpp:8`), so that the
  server would refuse them, and both sides cut a datagram at its first NUL
  (`udp_server.cpp:62`, `udp_client.cpp:307`); `OnlyAsciiIsAccepted` and `TextsSurvive` say
  exactly what comes of it, and the other modules take the sums to agree. Two changed bytes may make up for each other in a
  sum: the damage of `UDPTransport` is of the kind `DamageIsNoticed` speaks of.
* The **client** does not compare the checksum of an answer (`udp_client.cpp:263`),
  although `src/README.md:172` says it does: the finding of `transport_damage`. The model does what
  the code does, and `TextsAreAnswers` says what is left: other bytes only where the network
  changed them.
* A NACK is not followed by the segment, as `src/README.md` has it: `handleNack`
  throws.
* The monitor never ends, although `src/README.md:635` says all clients end with the server:
  its loop is a `while (true)` around a `try` that catches everything (`monitor.cpp:13`). No
  property is stated of that; `ClientsEnd` is about the programs that can stop.
* After a restart ids are given again from 0 and two clients may share one:
  `IdsAreDistinct` is checked without restarts, `transport_adverse`, which has them,
  with one client.
* The last stage takes its stamps from `system_clock`, which may be set. The clock of
  `FlowerBedServer` only goes on; with a clock that is set forward or back neither
  `ReadyMeansPresent` nor `PresenceIsKept` could hold.
* Code nobody calls: `removeGardener`, `updateGardenerTimestamp`,
  `updateFlowerbedTimestamp`; the condition variable `cv`, on which nobody
  waits; updates with a state of 0.
* Stages 4-5 and 6-7 have no modules of their own. Their `gardener.cpp`,
  `flowerbed.cpp` and `route_manager.hpp` are those of 8-9-10 but for a blank line,
  so `Gardener` and `FlowerBed` model them as well. Their servers have the same
  handlers with fewer routes (4-5 has no `/monitor/`, 6-7 keeps no list of monitors)
  and take stamps from `steady_clock`, as the model's clock behaves.

## 6. Plan

All components are modelled as far as section 5 says; the runs and proofs above
stand. What is left to prove is `IsRequestResponse` for messages of several segments
over a network that loses datagrams, once the code tells a repeated segment from a new
one (`transport_chimera`).
