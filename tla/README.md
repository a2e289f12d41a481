# Milkwarden: specification and verification of a milking post

This directory holds TLA+ specifications of the Milkwarden firmware (`src/esp32`),
the TLC configurations that check them on small instances, and theorems that TLAPS
proves for every value of their constants. Definitions keep the names of the C++
source where TLA+ allows it; `PROJECT.json` maps each to the lines it models.

## The system

A *post* is an ESP32 that weighs the milk of one cow at a time, identifies the cow
by RFID, sprays her, and reports each milking. A *sensor node* on the canister
measures its level, a *master* ESP32 collects the packets of four posts.

| Component (source) | State | Operations | Interacts with |
|---|---|---|---|
| Session task (`modules/session/session.cpp`) | state machine IDLE, COW_PRESENT, MILKING; tag, weights, weight log; valve flags and times; beam confirmations; `s_forceReset`, `s_info` | one loop, every 500 ms or more | calls the RFID API, load cell, beam, valve, ESP-NOW and cloud; reset by the console |
| RFID reader (`devices/cfmu910/cfmu910.cpp`) | `s_paused`, `s_scanning`, `s_confirmed`, `s_batchDone`, slot table, scan counter, under `s_mutex`; the power, also in flash | background task: batch of 10 scans of 3 s; reset, pause, resume, result; driver: scan, diagnosis, power, start-up | session task and console; one UART to the CF-MU910 |
| Telnet console (`devices/telnet/telnet.cpp`) | calibration point, corner readings | about sixty commands, run in `loop()`, one client at a time | nearly everything |
| Beam (`devices/beam`) and valve (`devices/valve`) | debouncing statics; one GPIO | `readBeam`; `openValve`, `closeValve` | session task, console |
| ESP-NOW link (`devices/espnow`) | last distances, `s_finalReady` | sends; receive callback | master, sensor node |
| Sensor node (`esp32_sensor/src/main.cpp`) | pending command slot, pulse counter | measure, reply | post, over an unacknowledged broadcast |
| Load cell (`devices/loadcell`), auto-zero (`modules/heartbeat`) | ring buffer, offset, factor | sampling task, trimmed mean, tare | session task, console, storage |
| Settings (`modules/storage`) | NVS keys, `config.ini` | load, save | load cell, valve, beam, auto-zero |
| Cloud (`modules/cloud`) | static body and last response | one POST per record, one per `cloud test` | session task, console |
| Master gateway (`esp32_master`) | last snapshot, flag and counters per post; the Nextion display | receive callback in the WiFi task; `last`, `update`, `reboot` in `loop()` on the other core | posts |
| `mwctl` (`apps/cli/mwctl`) | socket, `connected`, event queue, label | connect, disconnect, some sixty buttons and rows; a thread per click and per connection | the Telnet console |
| Readers, data router, API (`apps/monitoring`) | serial buffer, the packet in work, rows of a table | read a line, check it, post it up to three times; insert | each other; not the firmware |

What is hard here: two FreeRTOS tasks and the Arduino loop share the reader's state;
`rfidTaskPause`, the wait for the final distance (12 s) and the POST (5 s) block the
session task in the middle of an iteration whose sample and time it goes on using;
radio messages are lost without notice; thresholds decide between five ways to end a
visit, each of which must leave the same twenty variables in order. Auto-zero, a console
that blocks `loop()` in averages, and power failures share one zero of the scale; the
desktop console's threads share a socket and a flag without a lock, the master's callback and
its Telnet handler the last snapshots, a record and `cloud test` the buffers of the upload; the
router's retries are not idempotent. The hazards are
listed in `PROJECT.json`, at their lines, with the properties that watch them.

What makes each part correct:

- **Session task**: one record per milking, with the tag, start weight and log of that
  milking; one spray per visit, bounded in time, with a cooldown; every bucket measured
  once; every visit and every reset comes to an end.
- **RFID reader**: a pause means no scan; a batch counts its own scans only, confirms the
  most frequent tag, is final, and ends with or without a tag.
- **Sensor link**: the value in a record was measured for that milking and is all that was counted,
  or says it was not measured.
- **Scale**: the zero in use is the zero that is saved; auto-zero waits its hold time and
  removes a drift in the end; the filter uses the newest samples and outliers cannot move it.
- **Settings**: a power failure leaves each setting as it was kept or as it was being saved.
- **Reader's driver**: a scan reports a tag that was sent, and none weaker than one it could read
  before its stream slipped.
- **Consoles**: the window offers what the post understands; the label tells whether
  commands are sent.
- **Monitoring**: a packet the router read is stored or reported, and stored at most once
  per attempt; a hanging API does not hold the router for ever.
- **Gateway**: a snapshot read was received and is not older than the last one; the display
  shows the same one, all of it, and every one in the end.
- **Cloud**: the text fits and ends; a call that is alone sends its own and prints its own answer.

## The modules

| Module | What it is |
|---|---|
| `RfidReader` | state of the background task; one operator per critical section under `s_mutex` |
| `RfidBatch` | the reader with one caller that resets, pauses and resumes in any order |
| `SessionTask` | the session task, composed with the reader and the Telnet commands |
| `MilkingPost` | abstract specification: what a farm sees of a post |
| `SessionProps` | the properties, and the refinement mapping to `MilkingPost` |
| `SensorLink` | the post's sensor requests, a link that loses frames, the sensor node |
| `RfidDriver` | the driver of the CF-MU910, the UART, and the module at its other end |
| `WeightFilter` | the ring buffer, the trimmed mean and the corner report, as operators |
| `Scale` | `loop()` with the scale: console, auto-zero, averages, settings, power failures |
| `Mwctl` | the desktop console: window, dialling threads, reader threads, event queue |
| `Console` | `Mwctl` composed with the Telnet console of the post |
| `Monitoring` | readers, serial buffer, data router and API |
| `Gateway` | the master: driver's queue, receive callback, display, Telnet handler |
| `Cloud` | `sendToCloud` with its static buffers, called by the session task and the console |
| `PostLinks` | `SensorLink`, `Gateway` and `Cloud`, interleaved |
| `RfidReaderProofs`, `RfidBatchProofs`, `RfidDriverProofs`, `SessionProofs`, `ScaleProofs`, `PostLinksProofs` (`SensorLink`, `Gateway`, `Cloud`), `AppsProofs` (`Console`, `Monitoring`) | theorems and proofs |
| `Recursion` | lemmas: induction and recursive functions over `0 .. N` |

**RfidReader.** `paused`, `scanning`, `confirmed`, `batchDone`, `confirmedEpc`, `freq`,
`scansDone` are the `s_` statics of `cfmu910.cpp`. The code touches them only with
`s_mutex` held, so each critical section is one atomic operator: `ScanBegin` (the claim),
`ScanEnd` (count, evaluate, release), `ResetConfirmation`, `SetPaused`, `PauseReturns`
(the exit of the polling loop), `Resume`, `ResultReady`. A scan returns one tag or none:
framing, CRC and signal strength are in `RfidDriver`. Counters keep the width
of `uint8_t` (`UINT8`). `stale` and `tainted` are history variables: the running scan
began before the last reset, and such a scan was counted.

**SessionTask.** `pc` names where the loop is. The loop is cut wherever the task blocks or
enters a critical section of the reader, so the reader and the console interleave at every
point where they can affect it. Steps between two cuts touch only variables local to
`sessionTask`. `ForceReset` is lines 133-145, `Sample` 147-173, and then one action per
branch: `CowDetected`, `StayIdle`; `CowGoneEarly` and `BackToIdle` (before and after the
pause), `AwaitRfidStart`, `StartRfid`, `PollRfid`, `StartMilking`; `KeepMilking`,
`BucketChange` and `NextBucket`, `CowLeft`, `FinalWaited`, `PublishLeft`, `EndSession`;
`Valve` and `Snapshot` close every iteration. The four calls of `rfidTaskPause` share
`PauseRfid` and `PauseDone`.

*Time.* The code takes `ms` once per iteration and compares it with stored values of
earlier `ms`. `age[t]` is `ms` minus the stored time, kept up to the threshold it is
compared with, which is all a comparison can tell apart. `elapsed` is the time since this
iteration's sample; each blocking call adds to it. `openFor` and `closedFor` are history
variables that measure real time, against which the stored times are judged. One tick is
one snapshot interval; the wrap of `millis()` is not modelled.

*Data.* A weight is one of `Weights`, chosen freely per sample; so is the beam. `Grams` is the
conversion to `uint16_t` of the start weight and the log (lines 244 and 261), negative weights as
zero and the others modulo `UINT16`. A record has the tag, both weights, the reason, and whether either link delivered it.

*Console.* `Commands` is the set the operator may use. `session reset` sets a flag at any
moment; `valve open` and `valve close` drive the pin behind the task's back; `rfid stop`,
`rfid start` and `rfid scan` (which stands also for `diag`, `monitor` and `power`: pause,
use the UART, resume) call the reader. The handler runs one command at a time.

**MilkingPost.** Phases `empty`, `present`, `milking`; a milking is reported exactly once,
with the tag and start weight it began with, or given up because the operator asked for a reset:
each request (`AskReset`) allows one `GiveUp`, and nothing else ends a milking without a record. A
visit is sprayed at most once. `asked` is `s_forceReset`. `SessionProps` maps the session task to it: a milking is over as
soon as its record is published, a few steps before `state` says so (`Phase`).

**SensorLink.** The part of the session task that talks to the sensor node (`CowDetected`
to `PublishLeft`, on the same lines as in `SessionTask`, with the rest of a visit
abstracted to when it may happen), the post's receive callback, and the node with its
reed-switch build. `loop` is where the node is in its loop: it takes the flag (`TakeCmd`),
copies the slot (`CopyCmd`), processes the copy, sleeps, and counts a pulse when it wakes
(`OnWakeReed`). `clearFinalDistanceReady` and the callback are two assignments each, in
opposite orders (`ClearReady`, `ClearValue`; `ProcessFinal`, `ReceiveReady`), and interleave.
A frame is received at once or lost. `counted` (the pulses since this bucket's INIT was processed), `initDone`, `finalDone` and the
`fresh` mark of a command are history. `Settled` is the one timing assumption: steps of the post that wait
for a sampling period or a timer do not fall inside the few milliseconds in which an awake
node carries out a command. Without it a node stuck there for a whole visit would answer
the request of the visit before.

**RfidDriver.** A frame is two units, header with length and status, payload with check sum, so that
a flush or a deadline may fall between them; an EPC may contain the header byte, which then
claims a size of its own. `ScanBegins`, `ScanCloses`, `ScanEnds` are `cfmu910Scan` at its flush,
its deadline and its return; `Walk`, `ParseTagPacket`, `Better` are its loop over the bytes, and
`Shown` cuts an EPC to the twelve bytes the callers have room for. The wire may damage a frame
where the walk goes on behind it all the same (`Disturbed(2)`), or so that it does not
(`ReportSlips`): a wrong length, a header byte that is none any more, a lost unit. An answer to a command
arrives with either status or torn (`Answers`), and `Acknowledged` takes the first bytes read for
its status, as the code does, which compares neither command nor check sum.
`DiagBegins` does not flush and nothing stops the inventory it starts (`cfmu910.cpp:262`).
`Restart` is `initCFMU910` with the stored power. Whether the module has stopped 50 ms after the
stop command is the constant `StopsInTime`, FALSE in the run. `heard`, `aligned` and `sound` are
history: the frames that came whole, whether the stream has slipped, and how many of them came before
it did. The driver is called by one task
at a time, which `PauseQuiesces` provides for the background task (but see the second finding).

**WeightFilter.** `Push`, `AgeIndex`, `Newest` are the ring; `InsertionSort`, `Trimmed`, `Total` and
`TrimmedMean` the filter, with C's division (`Quotient`); `CornerReport` the console's verdict on the four corners. The
definitions `FilterWindow`, `FilterRobust`, `CornerVerdict` say what they promise, quantified
over every bounded input, and `Scale` has TLC evaluate them in its first states.

**Scale.** `loop` is where the Arduino loop is: idle, in an average of raw samples for a command,
for auto-zero (`autotare`) or for the first tare (`boot`), or in a save. An average yields any
value between the loads at its two ends (`Between`), so a load that changes meanwhile shows.
The amplifier is linear (`Raw`), and in `Scale.cfg` reads zero under no load, so that a tare may
save the offset zero, which `InitLoadCell` takes for none; weights are compared without dividing (`NearAt`). Two loads one
unit apart, with factors from -1 to 2 and thresholds from -2 to 2, give near and far readings.
`Written(n)` is the flash after n of the eleven writes of `saveSettings`, and `Reset`, possible
in every state, picks any n. `Settable` and `Commands` are what the operator uses; the
acceptance tests of each command are `AcceptsSamples`, `AcceptsValve` and so on; a value of
`config.ini` passes none of them (`IniValue`), and `INI_SAMPLES` is 0 in the runs. `kept`, `farAge`
and `strayed` are history.

**Mwctl, Console.** Each statement of `TelnetClient` on `sock` and `connected` is a step:
`KeepSock`, `SetConnected`, `Announce` of the thread a click starts, `ReaderStarts` (reads `sock`),
`ReaderTests`, `ReaderCalls`, `ReaderGets` to `ReaderEnds` of the reader thread, `Disconnect`,
`CloseSock` and `DropSock` of the window. Whether `close` wakes a `recv` that waits on the same socket
depends on the platform (on Linux it does not), so `CloseSock` allows both: a connection may stay
"held" until its reader gets data. `Console` adds the post: one client
(`PostAccepts`, `PostRefuses`), one command at a time, restarts that leave the window with a dead
connection (`wire` = "lost"). `Vocabulary` is what `handleCommand` accepts with which values in the
build that `config.h` configures, without the boot log (line 7).
`Presses` is what buttons, rows and help lines send: two tables of one program each. A verb of two
words is one string with an underscore (`rfid_power`).

**Monitoring.** The serial buffer drops what it has no room for. The router's `Accepts`, `Posts`,
`AttemptFails`, `Delivered`, `TimesOut` are its loop; a request that it has given up stays at the
API and may still insert its row (`AddSensorData`). The API fails, hangs, stops and starts again.
The packets of the AD7797 reader lack the fields that `validate_packet` asks for (`FromScale`).

**Gateway.** `callback` is where `gatewayForward` is: each statement on memory that the Telnet
handler reads is a step, and so is each field on its way to the display. A copy of a packed
structure is not atomic, so either `memcpy` is two halves. The flag and the counter are stored
after the copy of the snapshot, as the code writes them and as the build, in which `memcpy` and
the stores have one core's order, does. A field is the number of the frame it was taken from. `cli` is
the handler: `AskLast` looks at the flag, `ReadFront` and `ReadBack` copy. `cli.floor`, `cli.clean`
and `taken` are history. A frame that is too short, of another type or of an unknown post is
"other". `SlaveId` is the cast of the number typed to eight bits. A restart clears the memory, and
the display or not: its `page 0` may be swallowed with a command that was cut.

**Cloud.** Each call of `appendf` is two steps, characters and the zero behind them, since the other
task may come between. A byte is the task that wrote it, or zero; `Lengths` says how long each part
may be and `Room` how much of it fits. `clean` marks a call that was alone in the buffers, `cut`
one whose text did not fit: history.

## What the runs check

| Run | Question | Instance | Result |
|---|---|---|---|
| `RfidBatch` | What does a batch promise, whatever its caller does? | 3 tags, 2 slots, 3 scans, 8-bit counters wrap at 5 | holds |
| `MostFrequent` | Does the most frequent tag win? | 3 tags, 2 slots, 4 scans | violated: finding |
| `Session` | Do the safety properties hold with resets and bucket changes? Do resets, sprays and visits come to an end? | 1 tag, 2 weights, 2 scans, resets and `valve close` | holds |
| `SessionCli` | Do RFID and valve commands break the cooldown? | 1 tag, 1 weight, all commands but reset | holds |
| `SprayCooldown` | Is the cooldown kept after a reset? | as `SessionCli`, reset only | violated: finding |
| `RfidUart` | Has the UART one user? | 1 tag, `rfid scan` | violated: finding |
| `PostLinks` | Is the count in a record that of its bucket, and all of it? Is what the master answers and shows true? What do a record and `cloud test` at once send? | 2 pulses, replies up to 1; 2 posts, 2 frames each, queue of 1, 1 restart; records of 0 to 2 samples, body of 6 bytes | holds |
| `RfidDriver` | Does a scan report what was sent? | 2 tags, one long and with a header byte, 2 strengths, lengths of 0 and 3 for 2, buffers of 4, 1, 2, 1 units | holds |
| `Scale` | Are zero, settings, filter and auto-zero right, under commands and power failures? | 2 loads, 2 commands in a behaviour, ring of 6 | holds |
| `AutoZeroHold` | Did the reading stay near zero when auto-zero tares? | `start`, `stop` and `autozero` only | violated: finding |
| `Console` | Do window and post understand each other? Does the label tell the truth? | 2 connections, 1 restart | holds |
| `Monitoring` | What becomes of a packet? | 4 packets, serial buffer of 2, 1 stop of the API | holds |

**Why the bounds are enough.** Every threshold is compared with an age, so what matters is
which thresholds can be passed before, during and after which call. Each threshold of
`Session.cfg` is 1 or 2 ticks; `PAUSE_MAX` and `POST_MAX` are 2, so that one blocking call
can outlast any confirmation, the drop window and the spray. `VALVE_COOLDOWN` is longer
than a visit can be short, so both outcomes of the cooldown test occur. One tag is enough, since the
history marks of a scan, and not its tag, tell for which cow it began; two weights further apart
than `WEIGHT_DROP_G` show a drop, its absence, and a weight log that goes up and down, and the
larger one does not fit `UINT16`; `WEIGHT_LOG_MAX_SAMPLES` is 2, and a long milking fills the log.
The scan count of the composed runs is 1 or 2: batches are studied by themselves in `RfidBatch`,
where the counter wraps when a caller resumes a finished batch and a tag finds no slot.
`MostFrequent` has two scans more than slots, as the code has. In `PostLinks.cfg` a count may
exceed the largest reply, so the clamp happens. No run uses symmetry.

The large instance is `Session`; the console is split over `Session` and `SessionCli`
because each command multiplies the interleavings. `SessionCli` has one weight, hence no
bucket change, and so leaves `session reset` to `SprayCooldown`, which it would violate.

`Scale` takes two commands in a behaviour and any number of resets, load changes and
auto-tares: enough for every pair of commands that share a value (`cal_tare` and `cal_weight`,
`point1` and `point2`, a setting and `save`). Ages are counted up to 1 because the hold time is 1. `FilterRobust` is checked for
up to six samples, where a quarter is 0 or 1, and values from -2 to 2; `FilterWindow` for more
samples than twice around the ring. In `RfidDriver` a scan holds two frames, or one and
a cut one at either end, and a wrong length covers the header of the next frame; `OneUnitMore` bounds
what is on its way or unread beside a full buffer. In `Console`
the second connection is the one that follows a loss, a restart or a disconnect. In `Monitoring` the buffer
overflows when one packet is being retried and three more come. `PostLinks` interleaves the three
links, which share no variable; TLC goes on only from states in which two of them are still in
their initial state (`OneWayAtATime`). That is a bound of the run: every reachable state of each link is
visited, and no property speaks of two. The second frame of a post overwrites the first while it is read, the second post
stands for the others, and 5 modulo 4 asks for post 1. The body holds a record of one sample and
cuts one of two, so both outcomes of every `appendf` occur.

**The properties.**

- `PauseQuiesces`, `ResultIsFinal`, `BatchEnds` (`RfidBatch`): the promises of the batch.
- `MostFrequentWins` (`MostFrequent`): what `config.h:37` promises without condition; it fails with more
  tags than slots, and is proved for a slot for every tag.
- `PostImplemented`: the refinement. It fails if any path publishes twice, publishes
  never without a reset the operator asked for, publishes a tag or weight of another milking, or
  sprays a visit twice.
- `LogOfThisBucket`: the record's log is that of its bucket.
- `OwnTag`, `TagOnlyWhileMilking`: `resetRfidConfirmation` does not stop a
  running scan; that no scan for another cow is ever counted depends on every pause that
  precedes it.
- `InitOncePerBucket`: `sensorInitSent` survives a forced reset and a cow that leaves.
- `PinOnlyInVisit`, `SprayBounded`, `CooldownHeld`, `SprayEnds`: the valve. The bound and
  the cooldown include the time for which the task may be blocked between its sample and
  the step that closes the valve (`CloseLag`), because it stores the time of the sample.
- `ResetHonoured`, `VisitProceeds`: progress.
- `BatchTypeOK`, `BatchVerdict` and `RfidQuiet` are left to the proofs below,
  which hold for every value of the constants.
- `TagWasSent`: whatever flushes, deadlines, damaged and lost bytes and header bytes
  inside an EPC do to the walk over the stream, what a scan reports came whole. `StrongestWins`: a frame
  that came before the stream slipped is never passed over for a weaker one. Behind a damaged length, a
  lost byte or a cut first frame the walk may skip any number of readable frames, also stronger ones,
  and the property claims nothing of them.
- `SavedIsUsed`: `scale`'s offset and `calibration_offset`, set at seven places. `RebootRestores`:
  no interrupted save gives a setting a value it never had. `HoldRespected`, `DriftRemoved`:
  auto-zero tares neither too early nor never.
- `FilterPromise`, `CornerPromise`: the operators of `WeightFilter`. The latter is about LOW alone.
- `ButtonsUnderstood`, `LabelSettles` (`Console`). The first excepts `bootlog`, which the help offers
  whatever the build.
- `RowsOfAttempts`, `Accounted`, `RouterMovesOn` (`Monitoring`).
- `LastIsTrue`, `DisplayAgrees` (`Gateway`): what can be relied on without a lock. A reply may be half
  of one snapshot and half of the next; it is then newer than what was there when `last` was typed,
  and never memory that was not written.
- `BodyEnds`, `CallIsOwn` (`Cloud`): two calls at once mix their texts, which nothing in the code
  denies; the text ends all the same, and a call that is alone sends its own, whole if it fits.
- `OwnPulses`, `CountIsWhole`, `AnsweredByThisRequest` (`SensorLink`): no pulse of another bucket and no
  answer to an earlier request gets into a record, and none of its own is missing but beyond sixteen
  bits, if this bucket's INIT got through. If it
  did not, the record holds the sum of two buckets: nothing in the protocol tells the post.

**Fairness** (`FairSessionSpec`): both tasks loop for ever at the same priority on core 0 and
yield in every iteration, so each step that stays enabled is taken: a scan ends at its
three-second deadline, the pause, the wait for the distance and the POST at their timeouts.
A console command that has begun returns. Nothing is assumed of cows, tags, weights, the
network or the operator: no command, no beam value and no scan outcome is fair. Console
RFID commands are left out of `Session`: `rfid stop` in COW_PRESENT does keep a visit
waiting until the operator types `rfid start`, which is what that command is for. In
`FairScaleSpec` time passes, the sampling task fills the ring and `loop()` goes on; loads, operator
and power owe nothing, and `DriftRemoved` says itself which of them it needs. `MwctlFairness` is
for the threads and the poll timer; a reader on an open socket may wait for ever, and no click
is fair. `MonitoringSpec` has fairness for the router alone, whose every wait has a time-out.

**Findings.** (1) A forced reset that closes the valve forgets the cooldown
(`session.cpp:139`, `config.h:133`). (2) A console scan and a background scan may use the
UART at once (`telnet.cpp:390`, `cfmu910.cpp:442`). (3) The hold time of auto-zero runs on while
a measurement is displayed, so that `stop` may tare at once a scale whose load has been away
(`heartbeat.cpp:28`, `data/config.ini:22`). (4) The slot table has 8 entries for 10 scans: with nine or
more tags in the field the most frequent one may lose (`cfmu910.cpp:357`, `config.h:37`).

**Observations** for which nothing in the code or its docs promises the contrary, or which are
outside the models:

- The corner report never says HIGH, since its reference is the highest reading (`telnet.cpp:42`);
  the firmware's README (line 161) and the text in line 53 offer the advice to lower a corner. Its 0.1 g
  threshold (line 49) leaves smaller readings without advice.
- `factor` in `config.ini` is not read (`nvs_manager.cpp:116`), though its comment (line 75), the
  file and the README (lines 79-84) list it among the keys that override the stored value. Other
  values of the file are taken unchecked: `samples = 0` or a text for a number.
- `bootlog` is offered by the help (`telnet.cpp:677`) and answered "Disabled": `BOOTLOG_ENABLED` is 0
  (`config.h:7`).
- A power is stored as set on any frame whose sixth byte is zero: an answer to another command, one
  with a wrong check sum, a tag of an inventory that the diagnosis left running (`cfmu910.cpp:168`).
- An EPC of more than twelve bytes is cut (`cfmu910.cpp:235`), so two of them may read the same.
- A weight of 65536 g or more would be logged modulo 65536 (`session.cpp:261`).
- A record is kept nowhere when both sends fail (`session.cpp:65`); the repetition without an
  acknowledgement that a flow chart draws is not in the code.
- A command that reaches the sensor node between its check and its sleep waits for the next
  wake-up (`esp32_sensor/src/main.cpp:364`).
- With an operator who does not wait (`CAREFUL = FALSE`), a second Return while connected leaves
  the label wrong: the reader of the first connection clears the flag of the second.
- `flow` offers "Enter to stop" (`telnet.cpp:546`) but reads no input for its sixty seconds.
- `rfid scan`, `diag`, `power` and `monitor` resume a reader that `rfid stop` had stopped.
- The value of a line of `config.ini` keeps a comment that follows it: `enabled = true ; ...`
  would read as false (`nvs_manager.cpp:120`).
- Every packet of the AD7797 reader is refused by the router, for it lacks the required fields.
- `readBeam` may skip its debouncing when two tasks call it (`beam.cpp:17`).

## What is proved

The theorems hold for every set of tags, weights and commands and for all constants that
satisfy the named assumptions of the modules, which TLC evaluates in the runs. For `RfidReader` and
`SessionTask`: thresholds are natural numbers, the spray duration, the batch and the slot table are not empty, `NoTag` is no tag,
a `uint8_t` holds more than a batch.

- `BatchTypeCorrect`, `VerdictKept`, `ConfirmedIsFinal`: `BatchTypeOK`, `BatchVerdict`,
  `ResultIsFinal`; `PauseWorks`: `PauseQuiesces`, if the pause does not time out;
  `MostFrequentTagWins`: `MostFrequentWins`, with a slot for every tag.
- `TypeCorrect`: `SessionTypeOK`; among it, that the slot table, the weight log and the
  ages stay within their bounds.
- `MeasuredOnce`, `TagShownWhileMilking`: `InitOncePerBucket`, `TagOnlyWhileMilking`.
- `PinClosedOutsideVisit`: `PinOnlyInVisit`, if `valve open` is not used.
- `LogBelongsToBucket`: `LogOfThisBucket`.
- `ReaderQuiet`, `TagIsOwn`: `RfidQuiet`, `OwnTag`, if the console leaves the reader alone
  and pauses do not time out (`Undisturbed`). Both conditions are needed: `rfid start` lets
  the reader work at any time, and a pause that gives up leaves a scan running.
- `Implements`: the session task implements `MilkingPost`, where a milking is given up on request only.

**The batch** needs little: `VerdictKept` adds that a result has a slot even when the scan
counter has wrapped, `PauseWorks` that the flag the pause has set stays set while it polls.
`MostFrequentTagWins` shows that the slot table counts what was read as the history does. It assumes
`Roomy`: no more tags in range than slots (8 in the code; with more it is false), and a counter that
holds one scan more than a batch (255 and 10): when a caller resumes a finished batch often enough for
the scan counter to wrap, one more scan is counted before the next verdict.

**The inductive invariant** `SessionInv` is `SessionTypeOK`, the reader's `RfidInv` and
`Control`. `RfidInv` adds to the reader's type that the slots hold distinct tags and that
the table is ranked well enough for `Best` to choose a slot of it: without it a `CHOOSE`
from an empty set could not be excluded. `Control` says what holds at each `pc`: which
`state` the point belongs to (`PointState`), how the valve flags and the pin agree
(`ValveState`), how `sensorInitSent` and `rfidStarted` relate to the commands sent
(`MeasureState`), and where a tag may be in the buffer (`TagState`). None of the properties
is inductive alone: `TagOnlyWhileMilking`, for instance, is about what was last shown,
which is the tag at the last `snapshot` point, which depends on every branch before it.
The results on records and reader add two invariants relative to it: `LogState`, and `ReaderState`,
which records at which points the reader is quiet and whose scans it counts.

`StepInv` has one step per action and under it one per part of the invariant that the
action can disturb. The refinement is proved by showing that each action is one step of
`MilkingPost` or leaves `Phase`, `Milking`, `out` and `SprayPhase` alone (`SameView`).

**The spray** (`SessionProofs`). The task judges the valve by the time of its sample. `Blocked`
bounds, at each point of the loop, how old that sample is; `OpenTime` then bounds the real time
the valve has been open by the age the task computes, and `CooldownTime` the age by the real
time since it was closed. `SprayIsBounded` assumes that nobody types `valve open` (`NotByHand`),
`CooldownIsHeld` that nobody resets the session (`NoReset`): with a reset it is false, which is
the first finding.

**The sensor link** (`PostLinksProofs`): `LinkTypeCorrect`, `PulsesAreOwn`, `PulsesAreWhole`, `AnswerIsOwn`. From the
time this bucket's INIT is in the node's buffer (`InitHeld`) or done, all it still has to process
was sent for this bucket (`OnlyFresh`), because INIT overwrote what was pending; hence the
counts (`Counts`) and the answers (`Answers`).

**The scale** (`ScaleProofs`): `ScaleTypeCorrect`, `OffsetsAgree`, `HoldIsRespected`, `RebootIsClean`,
for every load, threshold, set of commands and sequence of power failures. `Offsets` holds in the
middle of an average too; `Flash` says that what a start-up would find is what was last kept;
`Hold`, that a hold is not older than the time for which auto-zero has been looking, which needs
`autozero off` to end it. `CornersJudgedTruly` is the corner report's promise for any readings: LOW exactly
when another corner reads more than 0.1 g and at least 0.3 % above.
`Allowed` gives each setting its range through typing, saving, loading
and interruption; `ScaleAssumption` says that the defaults lie in them.

**The filter** (`ScaleProofs`): `FilterKeepsItsPromise`, for every size of the ring, number of samples
and samples. The ring: storing a sample keeps the newest in it, at the places their ages say
(`WindowSlides`), and so after any number of them (`RingHolds`). The mean: `insertionSort` orders a
snapshot and is a permutation of it (`SortSorts`), so if a place that is kept showed a value outside
the range, more samples would lie outside than are cut off at that end (`OutsideAtLeast`,
`TrimmedInside`); a sum of such values and its quotient, rounded as C rounds, stay in the range
(`TotalBetween`, `QuotientBetween`). `MeanInside` says it for snapshots of any length and samples of
any size; `FilterRobust` is its bounded instance, which TLC evaluates.

**The applications** (`AppsProofs`). `OffersAreUnderstood`: what a button, a filled row or a line of
the help sends is in the parser's vocabulary, part of the table by part (`BareKnown`, `ValuedKnown`,
`ButtonsKnown`), so the post complains of nothing but blank rows and `bootlog`, however window,
connections and restarts interleave. `RowsPerAttempt`, `NothingForgotten`: the monitoring scripts, for any number of packets, stops
of the API and size of the serial buffer. `RowsOfAttempts` is not inductive, since a request that was
given up may insert its row later: `CountInv` counts the rows of a packet and its open requests
together against the attempts made. `ApiInv` and `UartInv` say that only valid packets are at the
API and that no packet is in the serial buffer twice.

**The reader's driver** (`RfidDriverProofs`), for all tags, signal strengths, header bytes inside an
EPC and sizes of the buffers. `DriverTyped`: the module sends a frame as its header and then its
payload or loses one of them, whatever is flushed. `ReportedWasSent` rests on `WholeIsHeard`: a header
that its own payload follows in the stream is that of a frame which came whole while the scan was
reading; what the walk takes for a packet is such a pair with a right check sum (`WalkSound`,
`ParsedIsWhole`). `StrongestIsReported` rests on
`SoundStream`: the stream begins with the two units of each frame that came before it slipped
(`AlignedStream` while it has not). The walk then begins with the readable ones of these, in their order,
whatever follows (`WalkOfFrames`), and the comparison with `>` keeps the first of the strongest
(`FirstStrongest`, `ChosenOfFrames`).

*Recursion.* The walk, the sort, the sum and the ring after k samples are recursive functions
over `0 .. N`. The library's theorems on induction and recursive definitions take an operator as a
parameter, which the provers cannot instantiate. `Recursion` states both in terms of sets and
functions instead: a set of numbers each of whose members has a smaller one in it is empty
(`NoDescent`), and a step that looks only at smaller arguments has a function that it computes
(`RecursionExists`). Each recursive definition then gets one lemma that it computes its step, and what it
computes is proved by the least counterexample.

**The three links** (`PostLinksProofs`). The theorems are stated of each link's own specification; the
links share no variable, so a step of the interleaving is one of one link and leaves the others as they are.

**The master** (`PostLinksProofs`): `LastAnswersTruly`, `ScreenIsLast`, for any number
of posts, frames and restarts and any queue. `RxOrder` says that the frames of a post wait in the
order they were sent, so that a copy in progress is newer than what it overwrites; `SnapInv` relates
the halves, the flag and the counter to the step of the callback; `ReaderInv` is what a copy that has
begun may rely on; `Written` is how far the display is.

**The upload** (`PostLinksProofs`): `PostEnds` for all sizes and interleavings; `UploadIsOwn` from `Alone`
(a clean call is the only one), `OwnBytes`, `OwnLast` and `TextFits`: `Budget` bounds the position
after each part of the text, so that no text is cut that the body has room for (`BodyHolds`). In the
code a value has up to 5 digits and a comma, so 90 samples take 2 * 90 * 6 = 1080 bytes, and
the base, the middle and the tail some 300 more, of 3072: there nothing is cut.

**Only model-checked**: the liveness properties (`BatchEnds`, `ResetHonoured`, `SprayEnds`,
`VisitProceeds`, `DriftRemoved`, `LabelSettles`, `RouterMovesOn`), which need fairness and `ENABLED`,
out of the prover's reach. Every other property of a run that passes has a theorem. Those of
`PauseQuiesces`, `PinOnlyInVisit`, `OwnTag`, `SprayBounded` and `CooldownHeld` carry
the conditions named above; without them they are false.

## Not modelled

- **Master gateway**: `status`, `stats` and `help`, which only print, and the reconnecting of the
  WiFi, without which ESP-NOW goes on.
- **Beam debouncing**: the session task may read any value in any iteration, which covers
  every outcome; no property relies on the debouncing, and nothing states what it promises
  to two callers.
- **WiFi, NTP, OTA, log**: calls of platform services; the log prints, and what would dump its buffer is
  compiled out (`config.h:7`); an update is a restart. `millis()` does not
  wrap in any module; the hazard at `cfmu910.cpp:448` says what would follow.
- **Run-time changes of thresholds**: `SessionTask` has the valve and beam times as constants,
  so a `valve duration` typed during a spray is not covered; `Scale` has the commands themselves.
- **Device id** (a key of its own, used after a restart), the JSON of a record beyond its length, report
  texts, the displays of post and sensor node.
- **Sensor node**: the build with a distance sensor (not the configured one), battery, button.
- **Monitoring**: reading the sensors, and the API's routes that only select rows. What asyncpg
  makes of the dict that the API passes for the JSON column is up to the library: a request may
  fail in any state of the model.
- **Prototypes** (`.ino`): earlier sketches that are not built.
