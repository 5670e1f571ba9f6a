# obd2-core: a TLA+ verification project

`obd2-core` is a Rust library that talks OBD-II to a vehicle through a serial
or BLE adapter. This directory holds TLA+ models of its stateful parts and of the codecs between them, the TLC
configurations that check them, and theorems checked by TLAPS.

## The system

A caller owns a `Session`, which owns an `Adapter` (in practice
`Elm327Adapter`), which owns a `Link` (serial, BLE or mock, optionally wrapped in
`LoggingTransport`). Everything is used through `&mut self`, so there is one
call at a time; what makes the system hard is that each call is a chain of
`await`s over an unreliable byte link to a chip that keeps state of its own, to
ECUs that keep theirs, and that a caller may drop a call's future at any await.

| Component | State it keeps | Operations | What makes it correct |
|---|---|---|---|
| ELM327 adapter (`adapter/elm327.rs`) | `current_header`, `info.protocol`, `initialized`, `events` | `initialize`, `routed_request`, `supported_pids`, `battery_voltage`, fault recovery, `drain_events` | a request leaves under the header of its target; an answer is attributed to the module it came from; the selected protocol is the vehicle's; recovery ends |
| Session (`session/mod.rs`) | `connection_state`, `initialized`, `request_in_flight`, `diagnostic_state`, `profile`, `discovery`, `supported_pids_cache`, `visible_ecus` | lifecycle, reads, identification, diagnostic sessions, seed-key, actuators, raw requests | only unlocked modules are actuated; routing follows the current profile; the guard is released; a working link is reported as Connected |
| Discovery (`session/discovery.rs`) | none (pure) | active bus, modules on it | routes only to modules on the active bus |
| ELM decoding (`adapter/elm_codec.rs`, `protocol/hex.rs`, `protocol/codec.rs`) | none (pure) | echo removal, prefix match, per-ECU payloads | a payload belongs to the request |
| Byte links (`transport/serial.rs`, `transport/ble.rs`) | unread bytes | write, read to the prompt, reset | one answer per command, or an error |
| Raw capture (`transport/logging.rs`) | writer, path, chunk buffer | start, stop, rename, log | what is reported as captured is captured |
| ISO-TP (`transport/isotp.rs`) | locals of an exchange | segmentation, flow control, reassembly, pending responses | the PDU delivered is the PDU sent, or an error |
| UDS client (`protocol/uds.rs`, `protocol/client.rs`) | none | typed services | the response matches the request |
| DoIP (`protocol/doip.rs`) | receive buffer, entity address | routing activation, diagnostic exchange | acknowledgement and response belong to the request |
| J1939 (`protocol/j1939.rs`) | per-source reassembly | identifiers, NAMEs, BAM and RTS data, DM messages, client requests | a message delivered is one that was sent, once |
| Backends (`adapter/backend.rs`, `detect.rs`, `stn.rs`, `native_can.rs`) | settings in the STN chip | negotiation, route plans, `apply_route`, receive filter | the chip is on the route reported; a stopped plan leaves no half route open |
| Reads (`session/mod.rs`, `modes.rs`, `enhanced.rs`) | locals of a read of several requests | DTC scans, vehicle information, tests, readiness | one failed request loses nothing else; what is decoded is what was meant |
| Poller (`session/poller.rs`) | bounded event channel | one cycle, stop | one failing PID does not stop the cycle; alerts are exact; the cycle ends |
| Diagnostics, thresholds, specs, VIN, tables | none | pure functions | agree with a reference definition |

The hard behaviours are: a cache of a register that lives in another device
(header), a cache that outlives what it describes (PIDs, discovery, unlocked
modules), answers that are lost, late or cut, chip resets in the middle of a
call, failures between two steps of a call, sequence numbers that wrap, frames
without a session number, and dropped futures. `PROJECT.json`
lists them as hazards, each at its line with the properties aimed at it.

## Modules

| Module | Contents |
|---|---|
| `Elm327`, `MCElm327`, `Elm327Proofs` | the adapter, the chip and the link; constants for TLC; theorems |
| `Session`, `MCSession`, `SessionProofs` | the session over an abstract adapter; constants; theorems, also about `RawCapture` |
| `Wire`, `WireProofs` | bytes, bit fields, Results: helpers of the codecs; lemmas about them and about recursion |
| `PduExchange` | abstract: what a framed transport promises its clients |
| `IsoTp`, `MCIsoTp`, `IsoTpProofs` | the ISO-TP transport, the CAN bus and an ECU; refines `PduExchange`; constants; theorems |
| `J1939Codec`, `J1939`, `MCJ1939`, `J1939Proofs` | identifiers, NAMEs, TP and DM messages as operators; reassembly and client as a state machine; constants; theorems |
| `ElmDecode` | the decoder of ELM text, hex lines and header formats |
| `Uds`, `MCUds`, `UdsProofs` | UDS client and plain clients over three kinds of transport; uses `ElmDecode`; constants; theorems |
| `DoIpCodec`, `DoIp`, `MCDoIp`, `DoIpProofs` | messages and payloads as operators; client and entity over a byte stream; constants; theorems |
| `RawCapture`, `MCRawCapture` | capture files, the session's capture settings (specification `CaptureSpec`), replay; constants |
| `Vehicle` | VIN matching, active bus, trouble codes, PID values, thresholds as operators |
| `Reads`, `MCReads` | reads of several requests and the poll cycle; uses `Vehicle` |
| `CanRoute`, `Stn`, `MCStn`, `StnProofs` | negotiation, routes, filters, native channel as operators; route changes of an STN chip; constants; theorems |

### Elm327

One step is one command exchange (`send_command_raw`): the code between two
awaits runs in the step that ends the first of them. `pc` says which command
the running call awaits, `idx` the position in a scripted list (`InitScript`,
`ProbeOrder`, `PidBases`, the runtime policy), `rec` the position inside
`recover_from_adapter_fault`, which runs nested in any command sent through
`send_command` but not in the raw ones. `current_header`, `protocol` and
`initialized` are the fields of the struct. `event` summarises the event queue
by its last element that makes the session change its connection state; the
other events change nothing.

The chip (external) is `devHeader` (its AT SH register), `devProto` and the
unread answers `rx`. `ChipReplies` is what it may answer to the command on the
wire, in the classes the code distinguishes: OK, text, `?`, no data, negative
response, bus errors, CAN ERROR, LP ALERT, LV RESET/ERR94, and data that carries the
request it echoes and the header it was obtained under. A member of `Services`
stands for all requests with one `expected_response_prefix`: for services 01, 02,
09, 21 and 22 that includes parameter bytes, for the others it is the service alone.
Two answers that arrive in one read are taken as two; the model keeps at most one
unread answer, because a second time-out while one is unread cannot happen (the
read finds it).

A behaviour chooses a set of faults (`env`) and a vehicle (`bus`) at the start,
so one run covers several environments, and properties that need a well-behaved
link say which faults they exclude.

### Session

A call is: entry (`Call`, with `ensure_initialized`), `initialize` if needed,
then for each request `send_request` (gate, guard, route resolution, recording
of the target) and `Answer` (events drained and applied, guard released, state
recovered, and the caller's continuation up to its next request or its return).
`raw_physical_request` and `battery_voltage` repeat the body of `send_request`
in the code and share its actions. `ecu` (external) is the set of modules whose ECU
is really unlocked; an ECU locks when its diagnostic session changes.
`profilePids` and `pids` record which vehicle's PIDs a set holds, not the PIDs.
`visible` records, for each address in `visible_ecus`, whether it ever answered.
A vehicle stands for its VIN and its matched spec; `BusModules` gives the modules
that spec offers on the active bus. An adapter that is initialized answers
`initialize` at once, so only a first initialization can fail or be dropped;
the transient `AdapterInitialized` state cannot be observed between awaits
and is left out.

### PduExchange and IsoTp

`IsoTp` steps from one await on the bus to the next. `pc` names the await
(`wait_for_continue_to_send`, a consecutive frame to send, `recv_pdu`, a consecutive
frame to receive); `tx`, `rx` and `count` are the locals of the three loops, with
each of the four bounds counted as the code counts it (some restart with
every read). The ECU and the bus are external: frames are lost, repeated
or foreign, the ECU answers late, asks to wait, overflows, sends response-pending. A byte is
`<<pdu, index>>`, so a reassembled PDU shows where each byte came from. Padding and
separation times change nothing that is decided and are left out.

`PduExchange` is the contract of `transport/framed.rs` without frames: while the ends are in step,
the ECU hears whole requests that were asked, and an exchange returns the response
given to its request. A failed exchange may leave the ends out of step; from then on only the
service of a response is checked, because that is all `strip_response_for_request` looks at.
`IsoTp` is shown to implement it by the mapping at its end (`Exchange`), checked by TLC and proved
(`ExchangeImplemented`).

### J1939Codec and J1939

`J1939Codec` translates identifiers (PDU1/PDU2), NAMEs and their arbitration, TP.CM and TP.DT,
DM1, DM2, DM5, DM11, DM12, DM20, DM24, DM25 and the five decoded parameter groups on bytes; a
scaled value keeps its raw unit. `J1939` sends every frame through these encoders and decoders.
The repository has the reassembler but not the loop that feeds it, so that loop is the smallest
one its API allows and is marked external: a control message starts a reassembler, an
error drops it, a completed one is kept.

### ElmDecode and Uds

`ElmDecode` works on lines as the chip prints them: hex with or without spaces, CAN lines with
headers, status words, echo. `Uds` makes one call at a time of any typed service, over a
transport that hands back whole responses (`raw`), responses without their service byte
(`stripped`, as ISO-TP does) or the ELM decoder's result (`elm`). Late responses stay on the bus; neighbours
answer before or after, positively or with a refusal.

### DoIpCodec and DoIp

`DoIpCodec` translates headers, messages and payloads. `DoIp` is the client over
`DoIpStreamTransport`: `RecvHeader` and `RecvPayload` are the two `read_exact` of `recv`, and a
dropped future loses what a `read_exact` had taken. The entity is external: it answers from
either of its addresses, acknowledges, refuses, says "pending", and sends messages nobody asked for.

### RawCapture

`writer`, `capture_path`, `observer` and `chunk_buf` are `LoggingTransport`; `enabled` and
`current_path` are the session's `RawCaptureConfig`. Directory creation, creation, flush, rename
and reopening may each fail, and so may the write of a line, whose error the code ignores. A file is its lines; a failed last
flush leaves any beginning of its bytes (`Beginnings`), also of a writer that `start_capture` drops. After an
ignored write error the file is `garbled` and its contents are not followed. Escaping is modelled by what it does.
`parse_raw_capture` turns a file back into exchanges.

### Vehicle and Reads

`Vehicle` holds the pure functions: `match_vin` with model years, active bus and module
lists, DTC decoding and de-duplication, PID lengths and formulas (as fractions), readiness, test
results, thresholds. In `Reads` an operation is a script of requests, each with what becomes of the
operation when the vehicle has no data and when the request fails. The vehicle *means*
something, encodes it, and what the code decodes is compared with the meaning. Codes appear and disappear
during a scan. The poll cycle sends into a channel of `Capacity` events that its consumer reads,
stops reading, or drops.

### CanRoute and Stn

`CanRoute` is `backend.rs` (capabilities, negotiation in its order, identifiers, filters,
routes), chip detection and the native channel. `Stn` sends a plan command by command: one step is
one `send_stn_command`, with the chip executing, refusing, running out of filter memory or resetting, and the
link answering, timing out with the answer lost, late or cut, failing to write before or after the chip has the command, or
the future dropped. The chip is
external; it is assumed that `STP n` restores the bit rate of protocol n, on which `plan_route`
relies when it leaves out `STPBR`.

## Runs

| Run | Result | Shows |
|---|---|---|
| `elm327` | pass (245,000 states) | the properties of `Elm327` under seven fault sets |
| `elm327_timeout` | violation | a lost answer to AT SH separates cache and chip |
| `session` | pass (640,000 states) | the properties of `Session` under three fault sets |
| `isotp` | pass (440,000 states) | segmented exchanges over a faulty bus, and their refinement of `PduExchange` |
| `j1939` | pass (1,260,000 states) | reassembly of two interleaved sources, and what the client returns |
| `uds` | pass (4,600,000 states) | responses matched with requests on three transports |
| `elm_clear` | violation | `clear_dtcs` over an ELM327 fails although the vehicle confirmed it |
| `doip` | pass (710,000 states) | activation and diagnostics over one stream |
| `capture` | pass (1,850,000 states) | files, replay and reported path under failing file operations |
| `reads` | pass (270,000 states) | scans, vehicle information and poll cycles |
| `can_dtcs` | violation | on CAN the count byte is decoded as half a trouble code |
| `stn` | pass (540,000 states) | route changes of an STN chip |

The codecs are also checked against reference definitions by the `ASSUME`s of `MCJ1939`,
`MCDoIp` and `MCStn`, which TLC evaluates at the edges of every field: identifiers, control
messages, NAMEs and DoIP payloads survive encoding; of two NAMEs exactly one wins; a parameter is
missing exactly when its bits are all set; lengths above 16 MiB are refused; only a chip that answered STI
as an STN gets a secondary bus; filters pass by width and bits; the native channel returns the first
frame its route accepts, within its bound.

**Properties of `elm327`.** `RequestReachesTarget` and `AnswerFromTarget`: the
header cache never misroutes, on links that keep commands and answers in step
and where AT FE itself does not fail; a recovery may break off at any of its
later commands (`SafeLink`; both exclusions are necessary: `elm327_timeout` shows
the first, the second is among the known divergences).
`SelectedProtocolIsVehicles`: auto-detection or the probes end on the vehicle's
protocol as long as the chip accepts its commands (the answer to ATTP is
ignored by the code, so a refused ATTP may lead to a wrong protocol).
`InitializeOnce`: an action property. `CallReturns`: liveness.

**Properties of `session`.** `ActuateUnlocked`: the actuator gate, with one
list of unlocked modules for all diagnostic sessions. `OkMeansConnected`:
connection state after a successful exchange. `RoutedByProfile`: no stale
route. `NoSpuriousBusy`: the guard is released on every path that returns; a
dropped call never releases it (known divergences). `CallCompletes`: liveness.
The list of unlocked modules is not told when an ECU locks by itself (S3 time-out), when
the answer to 0x10 is lost or when a raw request changes the session: `ActuateUnlocked`
excludes these faults (`SafeEcu`), under which the ECU itself refuses the command.

**Properties of `isotp`.** `WholeResponse`: the response returned is the one given, byte for byte, however many
frames are lost, or when one fault repeats a frame, up to the first exchange that failed (after that a late
response may be taken, see `PduExchange`). Lost frames alone need no sequence numbers: a receiver that missed
one never reaches the announced length. The numbers are what protects against a repeated frame.
`WithinBlock` and `NotBrokenWithoutFault`: both sides agree where blocks end, so neither waits for
the other. `ImplementsExchange`: the refinement. `ExchangeReturns`: liveness under endless waits and noise.

**Properties of `j1939`.** `NoSplice`: a message completed for the first time is one its source sent,
unless more frames in a row were missed than the session has packets (TP.DT carries no
session, and the reassembler has no timer). `OncePerSession`: with one exception, a session of the
greatest size, whose saturated `next_sequence` accepts its last packet again. `IntactDelivered`: faults of one
message never cost the next of its source. The sources are kept apart by the model's loop, one reassembler each, so
nothing is shown about an application that mixes them: `accept_dt` does not look at the source.
`ResultAsSent`: a client call returns a message of the group it asked for.

**Properties of `uds`.** `EchoProtects`: calls that require their echo take no late response to another
request. `RecordExact` and `OutcomeFaithful`: in step, the record is returned to the byte, and a refusal is the error
`NegativeResponse` with its own service and code, also behind a neighbour's refusal with another code. On the ELM link
the code is looked for in the digits of the whole text, among the codes the crate knows: behind an echo or
SEARCHING..., or with another code, only an error is promised (`CodeLost`). Exceptions are cases
where the payload alone cannot tell (a stripped payload that begins like a
whole one, an identifier that repeats itself, a record that begins with 7F), where an ELM answer is its prefix and nothing more
(`elm_clear`), where a neighbour's refusal follows the answer, or where a later line of an ELM answer begins like the answer
itself (`SecondAnswer`; see the known divergences).

**Properties of `doip`.** `StreamAligned`: reading stays at message boundaries unless a future is
dropped inside a message (then it is lost for good). `AnswersTheRequest`: the sender is the address asked,
and the answer is to this request when nothing of earlier calls is left in the stream. `ActivationReal`:
a success means that the entity has activated routing. `OnlySilenceBlocks`: liveness; a call that hangs is one whose entity fell silent.

**Properties of `capture`.** `ReplayFaithful`: replay gives exactly the completed exchanges, across failed
reads and renames. A file whose last flush failed ends at any byte; it gives a beginning of the exchanges, of which the last
response may be cut short, under its own command. A file that lost part of a line, or that two
writers had open at once, promises nothing. `ChunkLinesTrue`: chunk lines account for R lines, and stray chunks come only from
failed reads and renames; the line that a failed flush may have cut is left out. `PathIsWriters`: the reported path is the file written, except after a
rename that failed half-way.

**Properties of `reads`.** `OnlyRealCodes` and `ScanComplete`: a scan reports codes that were there, and
all codes that were there throughout in modules that answered, without repetition, whichever request fails.
`ReadAsMeant`: values, VIN, matched spec, tests and readiness are what the vehicle meant. `AlertsExact`: every reading
beyond a limit is followed by the alert of its level. `PollCycleEnds`: liveness; only a consumer that
keeps the receiver and stops reading holds the cycle up.

**Properties of `stn`.** `RouteAsReported`: a reported route is the chip's state, whatever earlier calls
left in the chip. `OpenIsWhole`: a plan that stops early never leaves the chip open on half a route. Both are for
plans that began with no unread answer on the link: `send_stn_command` discards none, so after
a time-out the OK of one command is taken for the next one's until the link is reset.

**Bounds.** `elm327`, `session`: two headers, so that a cached header can be the wrong one; two
services, one of them the probe's own; three protocols of the three families
that differ in runtime policy and header (CAN, J1850, K-line), the vehicle on the
second or third so that probes fail before one succeeds, or absent. Two modules, so that a
session on one can disturb the other; two vehicles, one of them without the second
module. Fault sets are chosen on both sides of each property's assumption. There
is no cap on the number of calls: the state space is finite as it stands.

`isotp`: frames of two bytes numbered modulo 2 instead of 7 and 16, so that PDUs of 7 bytes take
a first frame and three consecutive ones, wrap the number and span two blocks; one fault in two exchanges, which
is what it takes for the second to meet what the first left behind. `j1939`: messages of one frame, two packets
and three, with `SeqMax` = 3 in place of 255 so that saturation happens; two messages, four lost frames (a whole
message) and three repeated. `uds`: two calls, the second of which meets the first one's late answer; identifiers
that look like a positive service byte and like a refusal, and
records that reach a second line. `doip`: three calls, one dropped, one message nobody
asked for; three events in place of 16, so that the limit is reached. `capture`: one name of each kind, so
that names collide; five operations reach start, rename, failure, restart and stop, around two commands whose lines a failed flush
cuts at every character. `reads`: two modules, two codes, one
failed request and one change of the vehicle per run; a channel of two events, fewer than a cycle sends. `stn`: two buses that
share a protocol number, a route with more filters than the chip has memory for, two unread answers.

**Fairness.** `elm327`, `session`: `WF_vars(Progress)` only: a started exchange ends, because every
link read has a time-out (12 s per chunk on serial, 5 s on BLE) and the executor
polls a woken task. Nothing obliges a caller to call, or a fault to happen.
`Session` relies on the adapter's `CallReturns`, which the `elm327` run checks.
`isotp`: the tester's task and the ECU keep taking steps; a read with nothing on the bus ends in the channel's time-out.
`doip`: only the client's reads, when bytes are there: the code has no time-out, so nothing is assumed of the entity.
`reads`: the task is scheduled, each request ends (`CallReturns`), and a consumer that is reading reads.

## Proofs

All theorems are for arbitrary constants satisfying the named assumptions, which TLC evaluates in the runs:
`HeadersAssumption`, `ServicesAssumption`, `ProbeAssumption`, `FaultAssumption` (`Elm327`);
`ModulesAssumption`, `SpecAssumption`, `FaultAssumption` (`Session`); `IsoTpAssumption` (first and consecutive frames carry
at least a byte, and a first frame less than a single one); `DoIpAssumption` (addresses are 16 bits wide, the gateway is
an entity, at least one event is awaited); `CallsAssumption` (calls carry bytes, and each way of taking an answer
belongs to the services whose client function takes it so) and `RecognisedAssumption` (a service's positive byte is a byte
and not 7F, a call carries all that its answer repeats); `StnAssumption` (a route names at most one bus that the chip has, a plan sets
at most one timeout); `RawCaptureAssumption` (no file is called "none"); `J1939Assumption` (source addresses
below the null address, `SeqMax` from 1 to 255) and `ContentsAssumption` (a source sends messages that encode to
bytes, no more of them than its packets can be numbered). The other bounds (`Max...`) are any naturals.

`Elm327Proofs` proves `Spec => []IInv`, with IInv the conjunction of
- `TypeOK`;
- `Shape`: which locals are meaningful at which `pc` (for example, a target only
  while a request runs), without which `Wire` has no definite value;
- `LinkInv` under `SafeLink`: no answer is unread, and the chip's header equals
  the cached one, or is the default while the cache is empty, except while a reset
  awaits its AT FE; this is the strengthening that makes `RequestReachesTarget`
  inductive;
- `ProbeInv` when the chip accepts its commands: the chip's protocol setting follows the
  probe list, so that an answer to 0100 identifies the protocol;
- `AnswerFromTarget` itself.

From it follow `TypeCorrect`, `HeaderCacheSound`, `AnswerOrigin`,
`ProtocolSelection` and `InitializedForGood`.

`SessionProofs` proves `Spec => []IInv`, with IInv the conjunction of `TypeOK`,
`FlightInv` (the guard is held while a request waits, and only then unless futures are
dropped), `LifeInv` (an initialized session has a discovery profile resolved from
its vehicle profile, no unsupported event queued and, outside initialization, one of
the four live states; a successful exchange leaves it Connected), `RouteInv` (a module
request in progress is for a module of the discovery profile) and `LockInv` (under `SafeEcu`,
and as long as requests can still be sent, the modules listed as unlocked are
unlocked; a dropped future may break this, but the guard it leaves set then
stops every further request). From it follow `TypeCorrect`,
`ActuatorGate`, `Reconnects`, `Routing` and `FlightReleased`.

`WireProofs` has the facts about sequences that these proofs share: what a prefix, a suffix and a
concatenation of parts hold, `Concat` of a sequence of any length, and that a recursion over an initial segment of the naturals has
a solution (`Recursion`) which stays in any set its steps stay in (`StaysIn`). `Concat` is a recursive
function; what it is at each length is shown by taking the least length at which the claim would fail
(`LeastNatural`, from the well-foundedness of the naturals), since the library's induction theorems cannot be used.

`IsoTpProofs` proves `Spec => []IInv` with IInv the conjunction of `Always` (the locals are of use
at their `pc`; every frame on the bus is a part of a PDU that was sent, whatever was lost or
repeated), `InStep` and `Returned`. `InStep` says, for an exchange that began in step and a bus that repeats nothing, in
which of five phases it is: at rest, asking in one frame or in several, answered in one or in
several. In the long phases the frames on the bus are in order the pieces that one end has sent, and the other end either
holds exactly the bytes before them or is behind for good, with fewer bytes than it was announced: without this last
alternative nothing could be said after a loss. `Returned` is what the caller got. From it follow
`WholeUnlessRepeated` and, step by step, `ExchangeImplemented`: each step of the transport, the ECU and the
bus is a step of `PduExchange` under the mapping, or a stutter. The mapping counts a repeated frame as leaving the ends out of
step, so the refinement also covers buses that repeat.

Two more invariants say where the ends are inside a block. `Blocks`, on a bus that repeats nothing and while no exchange has
failed: no flow control of an earlier block is ever left for the tester, and the ECU's count of the block plus the consecutive frames
it has not read is at most what it last allowed. It is stated with the cardinality of the unread frames, as `WithinBlock` is,
and both ends of the inequality move when a frame is sent or read (`StaysWithinBlock`).
`LockStep`, as long as nothing is lost or repeated: the two ends are in one of ten phases, and the frames on
the bus are a `Chain`, the pieces of one PDU from the offset and sequence number of the one end to those of the other. The
chain gives the offsets and numbers of all frames on their way as functions of their position, so it is extended at
one end by a sender and shortened at the other by a reader. This is needed because "not broken" is a fact about the last frame of
an exchange: it follows only from the agreement of both offsets, numbers and block counts at every earlier one
(`NeverBrokenWithoutFault`: in no phase is a step possible that breaks the exchange off).

`DoIpProofs` shows that every message decodes to what was encoded, and proves IInv: a call asks the address the client
holds (`Waiting`); a header that a call holds is that of the first message on its way, unless a
future was dropped inside one (`HeadTaken`); a successful activation is on its way only if it took place (`Activated`);
and in a call that began on a quiet connection everything on its way is its request or answers to it (`Owned`). From it
follow `Framing`, `AnswerIsTheRequests` and `ActivationIsReal`.

`StnProofs` proves IInv: while a plan runs in step nothing but a stray prompt is on the link (`InSync`), and the chip is what
the commands answered so far make of it: mode closed, then transceiver, rate, timeout and filters in the order of the
plan (`Underway`); a plan that lost step claims no route (`Disowned`). From it follow `RouteReported`
and `WholeRoutes`, for any routes and any filter memory.

`UdsProofs` first shows what the decoder of ELM text makes of a text of any number of lines, as a
fold over them: lines before the answer are skipped, the first line with the prefix opens a payload, later lines are
appended (`LoopRuns`, `LoopOpens`, `DecodedBegins`, `DecodedWhole`); an answer cut into lines of six bytes is put together again
(`LinesJoin`). Then:
- `EchoProtected` rests on an invariant about late answers: whatever waits on the bus is an answer to some call, and what was returned was
  taken from one that waited. Every transport hands on an answer with at least the echo its control unit repeated
  (`HandedBackCarries`), and a call that checks its echo takes none but its own (`NoOtherTaken`).
- `RecordsExact` and `OutcomesFaithful` rest on `InStepInv`: until a call times out, the bus holds nothing but the answer to the
  call in progress. What such a call returns is followed through the transport (`HandedBackExact`, `ElmExact`, `ElmRefused`), the
  normalisation, which must not take a payload for a whole response (`Normalized`, `RemainsIsNot`), and the service
  (`TakenExact`). This is where `SecondAnswer` was found: the statement without it is false for records of two lines.

`SessionProofs` also proves `CaptureSpec => []PathIsWriters` (`ReportedPath`): the property is inductive with
the types of its variables.

`J1939Proofs` first follows a message through the codec: an identifier of the groups sent decodes to its
source and group (`Identified`), an announcement is read as it was meant (`ControlMade`, `ControlRead`),
and the pieces of the packets make up the message (`DataRead`, `Grown`), for every width of
the sequence number. IInv then relates what a source has still to send with what the tool holds. `InStep`: a
session that has not missed more frames in a row than it has packets holds the first packets of a message of its
source, and either that message is still being sent and the packets between were missed in a row (`Own`), or the
rest of it was missed in the same row (`Behind`), and then the next packet it would take is out of reach.
`Kempt`: a message with no fault is held exactly as far as it has been sent. From it follow `FirstMessageWhole`,
`CompletesOnce` and `IntactIsDelivered`.

Only model-checked:
- all liveness properties (`CallReturns`, `CallCompletes`, `ExchangeReturns`, `OnlySilenceBlocks`,
  `PollCycleEnds`), which are out of the prover's reach;
- `WholeResponse` when a frame is repeated: this rests on sequence numbers, and on one fault alone;
- `ResultAsSent` of `J1939`: the parsers would have to be shown inverse to the encoders of seven groups, which are
  loops over codes; TLC evaluates them on the messages of the run;
- `ReplayFaithful` and `ChunkLinesTrue` of `RawCapture`: they speak of what `parse_raw_capture`, a fold over the lines of
  a file, makes of every file;
- `ClearSucceeds`, which a violation run refutes (`elm_clear`);
- the properties of `Reads`: they compare the decoders of a dozen kinds of answers with what the vehicle meant, over folds and sets turned
  into sequences.

## Known divergences

Besides the findings of the violation runs, the models and the reading behind them showed the following.
No run states them.

- `request_in_flight` is set before the await and cleared after it (`session/mod.rs:1177`): a dropped future leaves it
  set, and every later call is refused with "adapter is busy (stop polling first)" (`error.rs:97`).
- `recover_from_adapter_fault` forgets the header only after AT FE was answered (`adapter/elm327.rs:161`): when AT FE fails
  after LV RESET, the next request to the same module skips AT SH and leaves under the chip's default header.
- A capture whose last flush failed may end inside an R line, and `parse_raw_capture` returns what is left of it as a complete
  response (`transport/logging.rs:341`); the failure of a write is ignored (`transport/logging.rs:170`), so a file may also lack lines.
- `check_response_error` looks for the code of a refusal in all hexadecimal digits of the text (`adapter/elm327.rs:430`): the
  digits of an echo or of SEARCHING... come first, and the refusal is then reported as a parse error; so is one with a
  code that `NegativeResponse::from_byte` does not know, which `parse_uds_response` reports as `Unknown`.
- Responses to an ISO-TP request are matched by service: after a failed exchange the late response to the one before may be
  returned (`transport/isotp.rs:507`). In the same way `send_diagnostic` of DoIP checks addresses only (`protocol/doip.rs:673`).
- `activate_routing` takes `entity_address` from the response before it looks at the code (`protocol/doip.rs:637`).
- The unlocked modules of `diagnostic_state` outlive the ECU's own session (`session/mod.rs:850`).
- `send_stn_command` discards no unread answer, so after a time-out the OK of one command is taken for the next one's
  (`adapter/stn.rs:257`).
- `ConnectionState::UnsupportedProtocol` cannot be reached from a failed `initialize`: `?` returns before the events are
  applied (`session/mod.rs:140`; `docs/FUNCTIONAL_REQUIREMENTS.md:497`).
- A zero seed ends `security_access` with Ok and the module is not recorded as unlocked (`session/mod.rs:840`).
- `visible_ecus` records a target before it answers (`session/mod.rs:1185`; `docs/FUNCTIONAL_REQUIREMENTS.md:610`).
- `supported_pids_cache` is filled once and survives a change of vehicle (`session/mod.rs:279`).
- `raw_capture_path`, "if capture is active" (`session/mod.rs:196`), stays set after a rename that failed half-way.
- `read_freeze_frame` parses the frame number that a Mode 02 answer repeats as the first data byte (`session/mod.rs:518`), and
  `read_o2_monitoring` takes the first two bytes of the payload as the value, where a Mode 05 answer repeats test and sensor.
- `start_poll_loop` says "Keep the sender alive" and drops it at the end of the function (`session/poller.rs:115`).
- A line of ELM text that begins with the prefix of the expected answer starts a new payload (`adapter/elm_codec.rs:68`). A
  continuation line whose data happen to begin like the answer (`62 F1 90`, or the one service byte that is the whole prefix of
  services other than 01, 02, 09, 21 and 22) ends the record there; what follows is taken for another ECU's answer.
- `read_data_by_identifier` accepts a response to another identifier and returns it whole (`protocol/uds.rs:218`); the
  other identifier services require the echo.

## What is not modelled

Wording, time stamps, YAML and SQL, BLE scanning, HTTP, the capability flags of `detect` (no code reads them) and
the tables of names, units and descriptions. In `Session`: the J1939 reads, freeze-frame values, labels and observation
counts of visible ECUs. Diagnostic rules and known issues are lookups in spec data. The stores, the NHTSA lookup, the mocks and
the hardware test program are I/O or test code. `PROJECT.json` lists every component with its status.

## Plan

1. `ScanComplete` and `OnlyRealCodes` of `Reads` for any modules and codes (the second without the count byte of CAN, with which
   `can_dtcs` refutes it), and replay of a capture without rename.
2. A composition of `Session` with `Elm327`, showing that the adapter meets the contract `Session` assumes.
3. `WholeResponse` under one repeated frame: that sequence numbers catch it.
