# bp35a1-influx-client in TLA+

The program reads a Japanese smart meter over the "B route" (ECHONET Lite over
Wi-SUN, through a BP35A1 serial module) and writes what it reads to InfluxDB or
to standard output. These modules model its concurrent core, the way a value takes
from the meter to the storage and the program as a whole, check them with TLC
on small instances and prove its safety with TLAPS for every size: that answers,
results of commands and factors belong to what they are used for, that no loss of the
session is forgotten, that a signal ends the process cleanly. File names below are relative to `src/internal/` unless they start
with `src/`.

## 1. The system

| part | code | state | operations | correct when |
|---|---|---|---|---|
| ECHONET client | `client/client.go` | pending TIDs, next TID, request semaphore, send lock, notification channel, watchdog window | `Get`, `SetC` (`request`), `Run` (receive loop), `recordTimeout` | every answer reaches its own request; every request ends; the loop never stops; a reconnect is forced on a silent link only |
| Device | `transport/bp35a1/bp35a1.go` | session and transmit flags, channels of the parts below, IP | `Open`, `Send`, `Recv`, `Reconnect`, `Close` | closing ends all goroutines |
| PANA session | `transport/bp35a1/session.go`, `epan.go` | network to join, ladder counter, cache file, reconnect token | `setup`, `establish`, `scan`, `connect`, `reestablish`, `manage` | no loss of the session is forgotten; the session comes back |
| serial commands | `transport/bp35a1/command.go` | command mutex, echo flag | `exec` and its helpers | a command returns its own result and lets the next one in |
| line reader | `transport/bp35a1/reader.go` | parser state, line end, buffer, `results`, `responses`, `events`, `epans`, `rxudp` | `readLoop`, `feed`, `processLine` | no answer, event or Epan is taken for another |
| collector | `collector/*.go`, `model/model.go` | property map, conversion factors | `Run`, the polling jobs, `handleINF` | no energy is converted with factors that are not the meter's; shutdown completes |
| codec | `echonet/*.go` | none | encode and decode frames and values | inverse of each other, missing data recognised |
| storage | `storage/**` | connection | writes | output only |
| main, config | `src/main.go`, `config/config.go` | none | wiring, signals, environment | ends when a part ends |

How they interact: the collector's jobs call `Client.Get`; the client calls
`Device.Send` (an SKSENDTO through `exec`) and its loop takes datagrams with
`Device.Recv`; the reader goroutine feeds all channels of the device; the
manager goroutine issues the session's commands through the same `exec`; the
client's watchdog calls `Device.Reconnect`; notifications go from the client's
loop through `infCh` to `handleINF`.

What is hard in it:

- six kinds of goroutines (callers, client loop, collector jobs, INF handler,
  reader, manager) share flags, bounded channels and three locks;
- a serial line without message numbers: answers are recognised by the state
  the parser is in, and an answer may be late, missing or interleaved;
- UDP answers may be lost, late or doubled, and TIDs are 16 bits wide;
- EVENTs report session changes asynchronously and may be dropped;
- time-outs race with the answers they wait for, and nothing cancels the
  module's side of a command that timed out;
- the module outlives the process, and the cache file outlives both.

`PROJECT.json` lists each hazard at its line with the properties that watch it.

## 2. Modules

| module | models | proved about |
|---|---|---|
| `RequestReply` | abstract: what the client promises the callers of `Get` and `SetC` | |
| `Client` | `client/client.go` | `ClientProofs` |
| `Session` | `session.go`, `epan.go`, the EVENT/EPANDESC part of `reader.go`, `Reconnect`, `Close` | `SessionProofs` |
| `Command` | `command.go`, the parser of `reader.go`, the scripts of `session.go` that use it | `CommandProofs` |
| `Collector` | `collector.go`, `jobs.go`, the factors in `decode.go` and `model.go` | `CollectorProofs` |
| `Echonet` | `echonet/`: frames, property maps, values, as pure operators on bytes | `EchonetProofs` |
| `Reading` (extends `Echonet`) | one job from its timer to the storage: `tickAt`, `handleERXUDP`, `Decode`, `getPartial`, the conversions of `decode.go`, the writes of `influx.go` | `ValueProofs`, `ReadingProofs` |
| `System` | `src/main.go`, `Device.Send`, `Recv`, `Reconnect`, and the parts above composed: what each does alone reduced to one or two steps, what they share kept | `SystemProofs` |
| `MCClient`, `MCCommand`, `MCReading` | the modules above for TLC: symmetry; the scripts; values at the boundaries | |

Definitions named `Bug...` are plausible faults of the definition after them.
No action uses them; each shows that the property it stands for notices it.

### Client

One action per step of `request()` that another goroutine can come between:
`Start`, `Acquire`/`Abandon` (the semaphore's select), `Register`, `LockSend`,
`SendOk`/`SendError`, `TakeAnswer`/`GiveUp` (the final select, with
`recordSuccess` and `recordTimeout`), `Clear` and `Release` (the two defers, in
their order). The loop is `Recv` (with `Decode`, `dispatch` and the lookup in
`pending`), `Deliver`, `LoopLock`/`LoopSent` (INFC_Res and SNA replies, under the
same send lock), `Notify`, `RunStops`. Requests are numbered; a response frame
carries the number of the request it answers, and the code sees only `tids[number]`.
A deadline, the group context, the clock, the meter (which may answer any request
it has got, at any time and any number of times) and the reader of `INF()` are
the environment. `infCh` and the request semaphore are counters.

### Session

`rd`, `item` are the reader's control and the EVENT or Epan in its hands, so that
the flag, the signal and the event of one `handleEvent` are three steps. `pana` is the
module's session: none, one the meter knows, or one only the meter has forgotten (`dead`).
`pc`, `mode` are the manager's: first `Open` (from the cache, `cached`, or by a
scan, `fresh`), then `manage` with `reestablish` (`running`). A group of commands that
changes nothing modelled is one step with all outcomes: all OK, failed
before the module acted, failed after. `wd` splits `Reconnect` into its two
statements; `RequestsMissed` says when the client is sure to miss answers. `failures` counts modulo `ResetAfter`, which is all `recoveryFor`
looks at. `Restart` kills the process at any moment and keeps the
cache file and the module.

### Command

A caller takes `cmdMu`, drains, sets the parser's mode and writes in one step
(`Write`: between these nothing can be observed but by the reader, whose
steps are separate); then `SkipEcho`, and `TakeResult` or `GiveUp`. The reader looks at the line end and takes a
line (`ReadLine`), looks at the parser's state (`ReadState`), hands the line out
(`ProcessLine`) and, in the two states that end with the answer, sets the state
back (`Settle`): four steps, since the code gives `rxMu` back after each. The manager
stores the echo flag between two commands, without `cmdMu` (`StoresEcho`). Line ends are modelled
where they matter: ROPT and WOPT answers end in CR, and such a line sticks to the
next while the reader looks for CRLF. The module answers, fails or stays silent,
echoes while it has not been told otherwise, and reports scans and unasked lines.

### Collector

One process per job. A timer starts a job, a Get ends with a value, with nothing to write (error,
missing, malformed, no data) or, for `refreshMeta`, with any part of the factors;
a write succeeds, fails, or fails after it reached the storage. The minute job
loads the factors before its two Gets, the half-hour job and notifications after
theirs, as in the code. `coef = 0` is a meter without a coefficient.

### Echonet and Reading

A byte is a number, a frame a sequence of bytes. A `uint32` stays four bytes, since
the program only compares and multiplies it and TLC's integers are too short; a
value with a no-data flag is a set of at most one element; kWh, which is
`raw * coefficient * unit` as a float, is kept as these three.

The meter of `Reading` *means* something (`meant`) and may be able to give only a part of it
(`given`); it writes that as ECHONET Lite has it (`Wires`, the only definition of
the coding that is not translated from the program: it is the reference the decoders
are checked against). What arrives is that frame in an ERXUDP line, possibly cut,
malformed, not for us or with bytes after it (`damage`). A hex digit that turned into another is
left out: neither the line nor the frame has a checksum, and its value is stored. The four steps are the
program's: `HandleERXUDP`, `Dispatch` (`Decode`, `dispatch`, `getPartial`),
`Store` (a `To...` operator per conversion function, `HasData`, the write).
`Expected` says what should be stored by `meant` and `given` alone, without a byte.
The half-hour job also has the clock: `Tick` is a minute,
`NextMinuteMark` the function of that name, a job takes up to `JobTime` minutes.

### System

Three callers of `exec` (a collector's job, the client's loop with its INFC replies, the session's
manager) and the reader, with `sendMu`, `cmdMu`, `rxudp`, the flags and the token
between them, from `OpenOk`/`OpenFails` to `Exit`. `pc` says where each
stands: a sender in `cmd` or `exec` holds `sendMu`, whoever is in `exec`
holds `cmdMu`. A sender's checks of `sessionEst` and `txAllowed` (`LockSend`) and
its write (`Write`) are two steps, with everything of everybody else in between. A
join is the manager's one command and the wait for its EVENT; `firstFailAt` has three
values (no miss, a miss, a miss that is `deadLinkAfter` old). An answer to an
earlier request becomes `late` when the next one starts (`Aged`), since its TID is gone
from `pending`. Faults: the session ends with or without an EVENT, datagrams and lines
are lost, joins refused, the transmit-time limit engaged, the port dies.

## 3. Runs

| run | cfg | shows |
|---|---|---|
| `client_correlation` | `MCClientTid` | answers match requests across a TID wrap, one pending entry at most, the inductive invariant of the proof, refinement of `RequestReply`, no forced reconnect on a link that answered within `DeadLinkAfter`, one per `DeadLinkAfter` at most |
| `client_live` | `MCClientLive` | every request returns and the loop comes back |
| `client_refire` | `MCClientRefire` | **violation**, see 5 |
| `session` | `MCSession` | no loss forgotten, no idle manager without a session and without a signal, completed scans leave nothing in `epans`; the session comes back, but for wedged Epans and the two holes of section 5; `Close` ends everything |
| `session_late` | `MCSessionLate` | **violation**, see 5 |
| `command` | `MCCommand` | a command started on a quiet line gets its own result, its answer is never lost by the parser, and every command ends |
| `command_address` | `MCCommandAddress` | **violation**, see 5 |
| `collector` | `MCCollector` | no wrong unit, a minute's energies converted alike, notifications drained, shutdown completes |
| `collector_partial` | `MCCollectorPartial` | **violation**, see 5 |
| `reading` | `MCReading` | what is stored is what the meter measured; a full answer is stored, nothing of a cut or malformed one is; each half hour is polled once |
| `reading_partial` | `MCReadingPartial` | **violation**, see 5 |
| `system` | `MCSystem` | after a signal or the port's death the process ends, with success where it should; the reader is never stuck behind `rxudp`; requests are answered again after any two faults, but for the two holes of section 5 |

### Bounds and why they are enough

- *Client.* Two callers: at most one is past the semaphore, so the other stands
  for all that wait. `TIDSpace = 3` gives two TIDs; the third request has the first's
  TID, so a late answer to the first meets it. The clock has two ticks and
  `DeadLinkAfter = 1`: a window that opens, is closed by an answer and opens again. The
  proof covers all values.
- *Session.* Two networks (where the meter is, where it was). The ladder is
  shortened to 2/4 (5/20 in the code), its order kept. `EventBuffer = 2` and
  `EpanBuffer = 1` (16 and 4) make the buffers fill; `MaxFaults = 2` is what
  it takes to abandon scans often enough to wedge the reader (TLC finds a `Wedged` state
  with these bounds). `MaxReports = 2`: a scan may report the meter twice, which fills `epans` and
  the reader's hands (`session_late` needs one). Each exception of `Recovers` is needed: without it
  TLC finds a counterexample within these bounds. `LateJoins` is off where the recovery is checked,
  because of the finding below, and on in the run that shows it.
- *Command.* Two commands: one that leaves something behind and one, of the same or the
  other caller, that suffers from it; all scripts of `session.go`, `initModule` cut in
  two. One unasked line, two faults. Buffers of 2 (8 and 32 in the code) fill.
- *Collector.* Two timer firings or notifications: the minute job and a
  `refreshMeta` between its Gets, or a job and a notification. The meter may have
  any of four properties; one coefficient or none; one unit, or none known.
- *Reading.* Values next to the no-data codes, of both signs and at the ends of their
  range; property maps of 0 to 3 and 15 to 18 codes, around the change from list to bitmap, with
  the last bit of the bitmap; all prefixes of a frame. The timer starts at each minute
  of an hour and runs for two hours (`reading_partial`, which is about the power job, stops
  after one). `JobTime = 24` is the most for which the property
  holds (a mark is 25 minutes before the next half hour); the deadlines of the request and
  the write (20 s, 10 s) keep a job far below.
- *System.* One line on its way, one place in `rxudp` (8 in the code) and one in the reader's hand: the
  smallest instance in which the reader waits; the loop's reply needs one INFC. Two
  faults: what breaks the service and what hides it. Each exception of `ServiceGoesOn` is
  needed: without it TLC finds a counterexample within these bounds.

`CHECK_DEADLOCK FALSE` is set everywhere, since the program may really stop: closed,
shut down, or, in the models, out of requests, timers and faults.

### Fairness and why the code justifies it

- Goroutines that can run, run; timers and deadlines fire. This needs the
  positive `REQUEST_TIMEOUT` and `WRITE_TIMEOUT` that are the defaults.
- `LockSend`, `LoopLock` and `Write` are strongly fair: Go's mutex hands over to a
  waiter that has starved for 1 ms.
- `Client`: `Send` returns because `exec` has a timer for each command.
- `Session`: the module answers a join or a scan eventually (its answer may be a
  refusal) and lifts its transmit limit. The watchdog is fair only while `RequestsMissed`: both flags
  up, so that `Send` does not refuse; the module in a session, so that it accepts SKSENDTO, which only
  the meter has forgotten; no limit, and a reader that can deliver the OK. A send that is refused or
  fails is no miss (client.go:94), and nothing is assumed of the watchdog then. Faults, `Close`
  and `Restart` are never fair; there are finitely many faults, so `Recovers`
  says what follows once they stop.
- `Collector`: weak fairness is enough since timers and notifications are bounded by
  `MaxRuns`; that stands for a `select` which does not pick the same ready branch for ever.
- `System`: the watchdog's clock is fair only while no reconnect is under way or while attempts fail,
  since `deadLinkAfter` (3 min) outlasts a request and a join that succeeds. Locks are strongly
  fair as above (`cmdMu` for the senders and the manager, `sendMu` for the loop);
  so is the end of the transmit limit, which needs room on the line. A one-second
  timer fires only when no result will come or the reader cannot deliver it: a goroutine
  that can run is faster than a second.
- Nothing is assumed of the meter in `Client`, the reader of `INF()`, new calls, signals.

## 4. Proofs

`ClientProofs` proves, for every set of callers, `TIDSpace >= 2` (2^16 in the
code), buffer size and bound, under the named assumptions of `Client`:

- `ClientTypeCorrect`, `ClientServesOne`, `ClientCorrelates`: the three
  invariants of `client_correlation` about requests and answers;
- `ClientReconnectsWhenSilent`: the action property of `client_correlation`;
- `ClientSpacesReconnects`: `ReconnectsSpaced`, at most one reconnect for each `DeadLinkAfter`;
- `ClientFirstReconnectNeedsTwoMisses` and `ClientOnlyReconnectLeavesWindowOpen`: what finding 1
  refutes holds of the first reconnect, and later it fails only in a window that was left open, which
  a reconnect alone does;
- `ClientKeepsPromise`: `Client` implements `RequestReply`.

The argument. `AnswerMatchesRequest` is not inductive: it does not say why a
frame on its way to a channel is the right one. `CorrelationInv` adds
that (1) one caller at most is past the semaphore (`Exclusive`) and its request
is the newest (`NewestServed`), so that `pending` holds the newest request only
(`OneOutstanding`); (2) the last `TIDSpace - 1` requests carry distinct TIDs that descend from
`nextTID`, across the wrap that skips 0 (`TIDWindow`); (3) the frame in the loop's
hand and the frames in channels match the request of the channel
(`HandMatches`, `ChannelsMatch`), from which an answer is taken. The step the rest
turns on is `LookupMatches`: a frame found in `pending` has the newest
request's TID, so by `TIDWindow` it answers that request or one at least
`TIDSpace - 1` older. Each part has its own preservation lemma. The watchdog needs
only `WatchdogInv`: the window never opens before the last answer. The reconnects are spaced because
those that were forced fit into the time before the window opened (`SpacedInv`), and firing
opens it anew. `CorrelationInv`
is also checked by TLC (`client_correlation`).

`SessionProofs` proves, for every set of networks, capacity of the channels, period of
the ladder, number of reports and of faults, across restarts:

- `SessionForgetsNoLoss`: `LossNeverForgotten`, join results in time or late. Inductive
  beside `TypeInv`;
- `SessionNoSilentOutage`: `NoSilentOutage`, for join results that come before the manager
  stops waiting (`~LateJoins`). The hypothesis is needed: with `LateJoins`, `session_late`
  is the counterexample. `ResultInv` adds what keeps a success honest: at most one join
  result is in flight, and only while the manager waits for it or is gone for good
  (`OneResult`); a good one has the session up or the signal of its loss coming
  (`GoodResultTrue`); what the reader is about to signal is a loss (`LossSignalled`);
- `SessionSuccessIsReal`: under the same hypothesis, `SuccessMeansSession`, the sentence that
  `session_late` refutes without it. Late results are the only way to break it;
- `SessionLeavesNoEpans`: `OnlyAbandonedScansLeaveEpans`, by counting (`ScanInv`): while no scan is
  waited for, the Epans in the channel, in the reader's hand and still to be reported are
  together no more than `MaxReports` for each abandoned scan;
- `SessionTypeCorrect`. `TypeInv` adds what the reader holds when it pushes,
  that a join has a network to join, and that an abandoned scan was paid for by a fault.

`CommandProofs` proves, for any callers, scripts, sizes of the channels and bounds:

- `CommandOwnResult`: a command written on a quiet line returns its own result. `cmdMu`
  excludes (`Exclusive`), so the lines of the module, the wire, the parser and
  `results` belong to one command, and from a quiet start they hold only lines of that command or
  lines that nobody asked for, in a mode the command's answer is read in (`QuietStart`). The two
  modes in which any line is the answer are excepted by the property (finding 3);
- `CommandAnswerReachesCaller`: what such a command's caller waits for stays due (`Due`): in the
  module, on the wire, in the reader's hands or in `results`, through every
  change of the parser's state, by `exec` or by the reader, and every change of line ends;
- `CommandAddressUnlessDisturbed`: where the sentence of finding 3 does hold. Once echoing is off
  (`EchoOff`, which `initModule` sees to before `connect`), SKLL64 on a quiet line returns
  its address and nothing else, unless a line that nobody asked for was taken for it. `AddressInv` follows
  the answer: first no line has been taken and at most one of the command's own is under way
  (`Awaited`); then the address has, and whatever comes behind it is read in a mode in which it changes
  neither channel (`Taken`); or another line was taken first, and stays first (`OtherTaken`);
- `CommandTypeCorrect`.

`CollectorProofs` proves, for any property map, coefficients, units and number of runs:

- `CollectorUnitRight` and `CollectorConvertsAlike`. Both need to know where factors come from:
  those in `c.params`, and those a job took from there, are a part of the meter's
  (`FactorsFromMeter`), a job that writes took valid ones (`WritersValid`), and what the minute job has
  written in this run was converted with the factors in its hand (`MinuteOfThisRun`);
- `CollectorCoefficientRight`: where the sentence of finding 4 does hold. While every answer to
  `refreshMeta` brings the coefficient of a meter that has one (`CoefficientAnswered`, a hypothesis
  about its steps), each energy is converted with the meter's coefficient, or with 1 if it has
  none. Factors in use have that coefficient or are not valid yet (`CoefInv`);
- `CollectorTypeCorrect`: with the types, that no job runs or asks for a property that the map does not
  call for (`OnlySupportedJobs`).

`EchonetProofs` proves of the codec, for frames of up to 255 properties of up to 255 bytes:

- `DecodeInvertsEncode`: whatever bytes follow the frame in the datagram;
- `DecodeRefusesCut`: every proper prefix of a frame is an error.

`Decode` passes over the properties one by one, and induction over data is out of reach
here as an operator of the library. The proofs use sets instead: the numbers of the passes that
agree with the encoded frame form a set that holds 0 and, with each number, the next; so it
holds them all (`SetInduction`, from the order of the naturals being well-founded).

`ValueProofs` proves that each decoder inverts the meter's coding (`Wires`): the power with
its sign and three no-data codes (`PowerInverts`), the currents of both phases, the energies
with their time, the fault status, the factors, and the property map
as list and as bitmap (`MapInverts`; the rows and columns of the bits and the rank of a code in the list
are its lemmas).

`ReadingProofs` proves, for all sets of values, coefficients, units and property codes:

- `OnlyMeasuredIsStored`, `FullAnswersReachStorage`, `NothingOfADamagedAnswer`: the three
  safety invariants of `reading`. `PathInv` says what an answer is at each stage of its way: a line
  holds the coding of an answer to what is meant, damaged as `damage` says; a payload has come whole or is
  an error to `Decode`; a frame is one the meter sent. A step then follows from one lemma of the codec
  (`LineRead`, `ArrivedDecoded`) or one lemma per job that its conversion yields `Expected`
  (`EnergyStored`, `MinuteStored`, `HalfHourStored`, `StatusStored`, `MapKept`, `PowerStored`,
  `MetaKept`);
- `OnlyPowerLosesPartialAnswers`: `PartialAnswerUsed`, which finding 5 refutes, holds for
  every job but the power job;
- `HalfHoursPolledOnce` (the action property of `reading`), for
  every `JobTime` the assumption allows and a clock of any length. `TimerInv`: while the
  timer runs, the mark it waits for lies five minutes into a half hour whose value is the
  one after the last polled. `NextMinuteMarkValue` first turns the code's search for the
  next mark into a closed form; `NextMark` then says that from a mark, and for as long
  after it as a job may take (`JobTime`, 24 minutes at most), the search finds the mark
  of the half hour that follows;
- `TypeCorrect`, from `PathInv`, `TimerInv` and the bounds of the clock (`ClockInv`).

`ReadingAssumption` says what a value can be: a property's width and sign, less the codes
that mean "no data" (`decode.go`, `meter.go`), four bytes for a counter and a
coefficient, property codes from 0x80; and that the clock may run for the hour in which a timer starts (`MaxTime >= 59`).

`SystemProofs` proves, for every capacity of `rxudp`, every number of lines under
way, of notifications and of faults:

- `SystemEndsClean`: `CleanShutdown` of `system`. Not inductive alone: an error could be
  on its way. `SystemInv` adds that an error other than the context's, while the port
  lives, is the collector's, which has returned without the property map and will not
  read it any more (`ErrorInv`);
- `SystemTypeCorrect`: the type invariant, with one caller at most in `exec`. It rests
  on the mutual exclusion of `sendMu` and `cmdMu` (`SendMu`, `CmdMu` in `SystemInv`).

The strengthenings were checked by TLC on the runs' instances as well.

Only model-checked: the liveness properties (fairness and ENABLED are beyond the prover).
Every safety invariant and every action property of the passing runs is a theorem.
Of each of the five sentences that section 5 refutes, a theorem says where it does hold:
`ClientOnlyReconnectLeavesWindowOpen`, `SessionSuccessIsReal`, `CommandAddressUnlessDisturbed`,
`CollectorCoefficientRight` and `OnlyPowerLosesPartialAnswers`. So the circumstances of a finding
are the only ones in which the sentence fails (for the address: once the module echoes no longer).

## 5. What the checks found

1. *A single miss can fire the watchdog again* (`client_refire`).
   `client_test.go:217` says that the window restarts after it fired and the next
   single miss does not fire it again. `recordTimeout` restarts the window as already
   open (`firstFailAt = now`, client.go:136), so a single miss that comes
   `deadLinkAfter` or more later does. Requests refused for want of a session
   do not count as misses, so a reconnect of that length followed by one lost datagram
   tears the new session down.
2. *A stale join result ends a join* (`session_late`). `connect` neither
   empties `events` before SKJOIN nor tells joins apart (session.go:302-318). If
   SKJOIN's OK or the 30 s wait is missed, the first join's EVENT 25 is taken for
   the second's, and the second's for a later one's: `reestablish` succeeds with
   `sessionEst` false and no signal coming. `Send` is then refused, nothing times
   out, and the watchdog stays silent. `session_test.go:229-237` expects the flag up.
3. *Any line is an address* (`command_address`). In `stateSKLL64` the first
   line that is not FAIL is the address (reader.go:94-102), an EVENT or ERXUDP that
   comes in between too; the EVENT itself is lost.
4. *A partial answer resets the coefficient* (`collector_partial`). `toMeta`
   starts from coefficient 1 (decode.go:90) and `refreshMeta` stores what a partial
   answer gave (jobs.go:122-123): a meter with another coefficient is converted
   with 1, which model.go:54 reserves to meters without one.

5. *A partial power answer is lost* (`reading_partial`). `getPartial` goes on with a Get_SNA answer
   ("partial response; using available properties", jobs.go:18), in which the meter
   leaves the value of what it cannot give empty. `toPower` decodes the empty 0xE8 all the same
   (decode.go:25), `DecodeCurrent` refuses it, and the power in the same answer is
   dropped. `toEnergy1Min` and `toMeta` look at the length first.

Two holes in the service, which `ServiceGoesOn` and `Recovers` name as their exceptions, so that no
property says the code comes out of them:

- *Muted*. Only EVENT 33 sets `txAllowed` again. If that line is lost (spoilt, or taken for
  an address by finding 3), `Send` refuses everything (bp35a1.go:250); a refusal
  is no miss, so the watchdog stays silent, and the next EVENT 32/33 pair ends it.
- *Unnoticed*. When the module has ended the session and the EVENT that says so was lost, its SKSENDTO
  may answer FAIL. A failed send is no miss either (client.go:94), `sessionEst` stays
  up and nobody reconnects.

Also seen while modelling, with no line of the repository that says otherwise: a signal
during `Open` or the first request ends the process with an error (src/main.go:61 compares with `!=`, the
error of `fetchPropertyMap` is wrapped); `DecodeCurrent` knows one of ECHONET's no-data
codes where `DecodeInstantPower` knows three; `toStatus` takes any byte but 0x41 for
"no fault", where `DecodeFaultStatus`, which nothing calls, refuses it; if every join
takes longer than `deadLinkAfter`, finding 1 lets one miss after each cancel its session again.

Known and stated by a property rather than refuted: `epans` is emptied only by a
scan, so Epans of scans that nobody waited for (an OK that was lost, a scan
of a process that died) accumulate until the reader blocks for good, with every
command behind it (`Wedged`). `OnlyAbandonedScansLeaveEpans` shows that nothing else
fills it, and `Recovers` excludes that state.

What `OwnResult` and `AnswerReachesCaller` do not say: they speak of commands written on a quiet line
(`Quiet`: nothing to answer or report, only EVENTs under way, no line in the reader's hands or kept
back in `buf`). Any other command may fare worse, and the model lets it: a result that
arrives after `drainResponses` is taken for its answer; the reader, with an earlier line in hand,
may set back the mode just set for it, or take the state `exec` set for that line's; a line that ended
in CR may swallow its answer. `EveryCommandEnds` holds of these as well: the timer ends them. An
EPANDESC block that stayed open is no such exception: a command written behind one is still quiet.

## 6. Not modelled, and why

- The IP address and `Send`'s size check, the 8 KiB limit of the line buffer, baud rates:
  no property tells them apart.
- kWh as a float, and the texts of `refreshMeta`: nothing is computed from them.
- The decoders and encoders of `echonet` that nothing in the program calls (histories,
  collection days, operation status, clock, `DecodeS32`).
- Wall-clock steps: `Truncate` strips the monotonic reading, so a clock that is set back while
  `tickAt` sleeps moves the next mark; `Reading` has a clock that only goes on. Time zones
  with half-hour offsets: `Truncate(time.Hour)` works on absolute time.
- In `System`: scans and the ladder (`Session`), late results (`Command`), late joins (finding 2),
  a port that dies before `OpenOk`.
- Names, logging, debug traces, configuration, `stdout`: I/O without control.

## 7. Plan

1. Done: `RequestReply`, `Client`, `ClientProofs`; `Session`; `Command`; `Collector`;
   `Echonet`, `Reading`; `System`.
2. Done: the safety of all parts (`ClientProofs`, `SessionProofs`, `CommandProofs`,
   `CollectorProofs`, `SystemProofs`), the codec (`EchonetProofs`, `ValueProofs`) and the way of
   a value (`ReadingProofs`).
3. Done: for each refuted sentence, a theorem that says where it holds.
4. Left: the liveness properties, which stay with TLC.
