# A verification of the RK3568 safety terminal

TLA+ models of the safety terminal's programs, the configurations that check them with TLC, and
theorems about them whose proofs TLAPS checks. Every definition is a translation of the C and
C++ sources; `PROJECT.json` lists, for each one, the file and the lines it stands for.

    tlc -config SafetyEvent_alarm.cfg SafetyEvent.tla      # one run; the others likewise
    tlapm SafetyEventProofs.tla                            # one proof module

Paths below are relative to the repository.

## 1. The system and its parts

A terminal on an RK3568 board watches a door contact, a light sensor, a radar, temperature and
humidity, and a camera. It raises an LED and a buzzer, shows what it knows on a screen, keeps a
history in SQLite and reports the history over MQTT.

    door GPIO, BH1750 ──> safety_event (kernel driver) ──> LED, buzzer
                              ▲ ioctl            │ /dev/safety_event (events)
    LD2410B, SHT3x ──> safety_alarmd ◀──control socket──┬── ai_alarm_bridge ◀─pipe── ai_yolov5 ◀── camera
                                                        ├── safety_alarmctl                │ H.264, preview,
                                                        └── state_snapshotd ◀─runtime file─┘ runtime file
                                                               │ system_state.json
                                     ┌─────────────────────────┼───────────────┐
                                sqlite_eventd ──SQLite──> mqtt_reporterd     hmi_qml, hmi_qt ◀── H.264
                                                               └──> broker

| Part | State it keeps | Operations | Talks to |
|---|---|---|---|
| `drivers/safety_event` | three alarm flags, outputs, one event record and its two sequence numbers, BH1750 hysteresis | door interrupt thread (50 ms debounce), BH1750 work, poll, read, two ioctls, probe, remove | LED and PWM buzzer; readers of the device |
| `userspace/safety_alarmd/safety_alarmd.c` | radar and AI request, cached merge, near/nobody timers, calibration state and record, last samples | poll loop over device, UART and socket; control commands; calibration; start, exit; restart by `S90safety_alarmd` | driver (ioctl), module (UART), clients (socket) |
| `userspace/safety_alarmd/ai_alarm_bridge.c` | the request it last had confirmed, stop flag | one request per change on its standard input; a last withdrawal | pipe from the AI process, control socket |
| `userspace/ai_yolov5/src/main.cc` | intrusion state and miss streak; two frame slots, stop and failure flags; encoder and H.264 publisher | capture thread, inference loop, encoder thread, shutdown, event lines, runtime file | pipe, H.264 socket, runtime file |
| `userspace/ai_yolov5/src/postprocess.cc` | none | tensors to boxes | called by the inference loop |
| `userspace/state_snapshotd` | last inputs | once a second: ask the daemon, read the AI's runtime file, replace `system_state.json` | control socket, two files |
| `userspace/sqlite_eventd` | trackers of modules, flags, door, intrusion, debounced conditions; the event table | one pass per new snapshot; restore at start; abnormal-exit marker by `S94sqlite_eventd` | `system_state.json`, SQLite file |
| `userspace/mqtt_reporterd` | cursor in memory and on disk, connection with its will | availability, status message, batches of up to 20 rows, cursor file | SQLite file, broker |
| `userspace/hmi_qml` | latest snapshot, page of the history, state of the H.264 decoder | timers that re-read files; video client | snapshot, SQLite file, H.264 socket |
| `userspace/hmi_qt` | latest snapshot, state of the H.264 decoder | the earlier screen, with a video client of its own | snapshot, H.264 socket |
| `userspace/safety_alarmd/safety_alarmctl.c` | none | sends one command | control socket |
| LD2410 tools, `safety_event_test` | none | diagnosis and tests by hand | UART, device |
| device tree, kernel configuration, scripts, `hello_module`, `jsmn` | none | declarative, build time, example, vendored | |

### What is hard in each, and what makes it correct

- **safety_event.** Three kernel contexts and any number of processes share one structure under
  two mutexes; the door thread reads the low-light flag before it takes the mutex; PWM calls fail
  half way; the event slot is one record that any open descriptor consumes. Correct means: the
  outputs are door OR low light OR user; the light alarm settles to what the light says; a failed
  output is repaired; no record is read twice, none is left unread, and readers do not all sleep.
- **safety_alarmd.** One thread mixes timers, frames, commands and synchronous exchanges with
  the module; the driver's flag outlives the process; an exchange can lose either direction;
  a calibration can outlive the daemon. Correct means: what it asked of the driver is what its
  sources ask; the radar's alarm is raised and withdrawn on evidence only and follows the
  target; monitoring and a calibration whose start is on record exclude each other; a recorded
  success was verified; the loop always comes back.
- **ai_yolov5 to safety_alarmd.** Four processes, started and ended separately; the pipe buffers,
  the daemon restarts and forgets, the driver may refuse, signals come at the wrong time. Correct
  means: what the daemon holds is a state of the detector, in order; the alarm ends when the
  detector does, as far as the driver lets it; a crash of the daemon does not silence what follows.
- **ai_yolov5's threads.** Two slots, one condition variable, four reasons to wake, and many ways
  to stop. Correct means: frames are accounted for, no wakeup is lost, the program ends whenever
  it is told to, and the optional encoder never stops the inference.
- **sqlite_eventd.** Edges are detected against trackers that a restart rebuilds from the table,
  and an insertion can fail while its tracker moves on; the door is not restored but searched for in
  the text of the table; a marker file tells of an end that no process could record itself. Correct
  means: a restart is invisible; no edge is recorded that did not happen; a condition is recorded
  only when it lasted; an opening is recorded once; an abnormal end is recorded by the next process.
- **mqtt_reporterd and the table.** Two processes with SQLite locks, a network, and a cursor that
  is saved after the fact. Correct means: rows are delivered in order without a gap, repeated only
  for a cause, and all of them in the end; the remote side never harms the local history; what the
  broker says of the device's availability becomes true, whoever ends how.
- **H.264 publisher and clients.** A non-blocking handoff to one client at a time, in which either
  side drops the connection, restarts, or reconnects in the middle of a group of pictures, and each
  remembers on its own what was sent. Correct means: the decoder is given the parameter sets
  first, then a key frame, then contiguous units; what is sent is used; the picture comes back.
- **state_snapshotd** (not modelled). Two inputs of different age combined into one file that its
  readers trust for as long as it exists.

## 2. The modules

| Module | Models | Extends or instantiates |
|---|---|---|
| `SafetyEvent` | the driver | |
| `AlarmDaemon` | the alarm daemon, its supervisor, the radar module and the driver's flag | |
| `RadarParameters` | the commands that query and set the module's parameters | extends `AlarmDaemon` |
| `EventReporting` | the event table between writer and reporter, the cursor, the broker | instantiates `EventOutbox` |
| `ReporterPresence` | the reporter's connections as the broker sees them: will and retained availability | extends `EventReporting` |
| `EventOutbox` | what the event topic promises: first deliveries in order, without a gap | |
| `AlarmPath` | intrusion detector, pipe, bridge, socket, the daemon's AI request | instantiates `DetectionFeed` |
| `DetectionFeed` | what the path promises: the detector's changes arrive one by one, in order | |
| `EventRecorder` | the recorder's pass over a snapshot, its trackers, its restart | |
| `EventHistory` | the recorder with the door, its own ends, its supervisor and the board's power | extends `EventRecorder` |
| `CapturePipeline` | the threads of the AI process | |
| `VideoHandoff` | H.264 publisher, socket, and either HMI's video client with its decoder | instantiates `VideoFeed` |
| `VideoFeed` | what the decoder is promised | |
| `VideoPath` | the AI process with its viewer, over any number of starts of both | extends `CapturePipeline` and `VideoHandoff` |
| `SafetyEventProofs`, `AlarmPathProofs`, `CapturePipelineProofs`, `VideoHandoffProofs`, `VideoPathProofs` | theorems and proofs about the module in their name | extend it, the proofs of its parts, and `TLAPS` |
| `AlarmDaemonProofs`, `EventReportingProofs`, `EventHistoryProofs` | the same, each for a module and what extends it: with `RadarParameters`, with `ReporterPresence`, and with `EventRecorder`, which `EventHistory` extends | extend the last of the two and `TLAPS` |

The models take their constants straight from the `.cfg`, so there are no separate modules for
model checking. Definitions whose comment begins with "Mutant of" stand beside the definition
that they change: each is a plausible mistake at that place, and one of the properties fails
when it replaces the original. No specification uses them.

### SafetyEvent

One action is what runs under one mutex; what happens between two critical sections is a step of
its own, with what was read before in a variable. So the door thread has the steps idle, load
(`doorValue` from the GPIO and `doorLux`, the flag read at line 278 without `alarm_lock`), update
and publish; the BH1750 work has sampling and publishing; a reader is in user space, in the
locked part of read, or asleep. `ApplyAlarm` is `apply_alarm_locked` with its three PWM calls,
each of which may fail and leave the earlier ones done. `Publish` overwrites the single slot and
moves `published_sequence`, which wraps at `SeqModulus` (2^32 in the code). `Remove` follows
`safety_event_remove`: cancel the work, clear the outputs, release the device. Samples are the
sensor's raw 16-bit values, converted by the code's integer arithmetic.

Observations: `applied` (the last apply succeeded), `luxRef` (the hysteresis on the samples alone)
and `last` (the sequence that the latest read returned).

Bounds: PWM faults; a producer does not lap its readers by the full modulus, a century in the
code. An edge whose level cannot be read (`gpiod_get_value_cansleep` fails) is dropped like one within the
debounce time (`DoorIrqEnter`).

Left out: error unwinding in probe, faults of `copy_to_user`, signals during read, and
`O_NONBLOCK` readers; no program in the repository opens the device that way.

### AlarmDaemon

`pc` is where the process is: down, in poll, in a pass of the loop, in a wait for an
acknowledgement that does not end, or exiting. A pass serves the descriptors in the code's
order (`ready`: UART, the calibration's end, control socket) and ends with
`expire_stale_radar_timers`. Time goes in ticks of one second, the timeout of poll; a pass takes
none, a command to the module takes as long as its acknowledgements. Timers saturate at the
largest age that any test in the code looks at. `ApplyUserAlarm` compares with `applied_user_alarm_on`
and, when an ioctl fails, leaves the driver's flag stored and the cached value stale: the driver
stores `user_alarm` before it tries the PWM. `Exchange` is a synchronous command to the module:
either the command or its acknowledgement may be lost, which leaves the module in configuration
mode or not, and the daemon in the wait or not. The record file survives the process; `Start`
reads it as `main` does.

SIGTERM and SIGINT set `stop_requested`, and since the handlers are installed without SA_RESTART, a
poll that they meet fails with EINTR. In the poll of the loop this ends `main` at once (`Stop`). In a wait
for an acknowledgement the exchange fails there, although the module may have done what it was
told (`SignalledIn` among the `Outcomes` of an exchange, `Interrupt` in a wait that would not end); the
handler and its pass go on, and the loop ends after them (`Exit`). This takes no lost message. `WriteRecord`
may fail: the file is not opened, and the old record stays, or it was truncated before the new
one got in, and the next daemon finds none. The supervisor's view of a killed process is `Crash` between
handlers, `CrashInExchange`, `CrashInCalibration` (the module has started, the record is not written)
and `CrashInWrite` (the record is truncated) within them.

The module is modelled as the code relies on it: live, it sends frames several times a tick;
it may fall silent; it forgets its calibration only at its own pace. Observations: `confirmed`,
`nearSpan` and `clearSpan` (how long the present run of near or clear frames has lasted, computed
from the frames alone), `compared`, and `unrecorded`: the latest calibration of the module did not get on
record, because `start_calibration` was cut off after the module had started, or its write failed.

Left out: bytes and framing on the UART, the texts of the answers, SHT3x sampling, the log. The
device's events are only logged by the daemon.

### RadarParameters

`set-range`, `set-nobody` and `set-resolution` each make several exchanges with the module: read,
write, for a resolution also restart and settle, read again, compare. `command`, `step` and `before` are
the position in `set_radar_maximum_gate`, `set_radar_nobody_seconds` or `set_radar_resolution`, one
action per exchange, so that a message may be lost, a value refused (`Refusal`: acknowledged, but not
stored) or the daemon killed (`CrashInCommand`) at every one of them. Both gates and the nobody time travel in one
message; a command that sets one of them writes back what it has read of the others. `stored` is
what the module has, `operating` the resolution that it works with, which follows only with a
restart. `Query` is `rear resolution` and each half of `rear config`. The sensitivities, which are read
and compared but never written, are left out; values stand for the valid ones, since `parse_maximum_gate`
and its kin refuse all others before any state is touched.

The module extends `AlarmDaemon`'s loop with these commands: `Otherwise` is any step of the daemon while
no command is being served, or while an exchange waits. `interrupted` is an observation.

### EventReporting and EventOutbox

SQLite's rollback journal is modelled by its locks: the reporter holds SHARED while its SELECT has
rows left (`pc` in send or save), the writer holds RESERVED inside its transaction and PENDING while
its COMMIT waits; PENDING keeps new readers out, and a COMMIT that meets a reader for longer than
the 100 ms busy timeout fails. `open` is the transaction that `database_insert_event` leaves behind
when COMMIT fails, because that path has no ROLLBACK. The reporter publishes a row, waits for the
acknowledgement, moves its cursor, saves it, and steps to the next row. Each kind of failure
happens at most `MaxFailures` times: an acknowledgement slower than the busy timeout ("slow") or than
the reporter waits ("ack", for a row, a status message or the "online" of a new connection), a failing insertion, a restart of the writer, an unsaved cursor, a
crash of the reporter, an outage of the broker. SQLite and the MQTT client are external and
modelled as the code uses them.

`EventOutbox` knows a table, the rows delivered, and a base. Its `Deliver` demands that everything
between the base and the row has been delivered. The base may still move while no cursor has been
secured on disk: without a cursor file the reporter starts at the end of the table, and it may
die before it has saved that choice. `EventReporting` implements it with `delivered <- received`
and `secured <- file # -1`; every other step is a stutter, redeliveries included.

Left out: message texts, the status topic's contents, rows with NULL columns (the table excludes them), and the HMI's history page, which reads for
a moment as the reporter does.

### ReporterPresence

The module adds to the steps of `EventReporting` what the broker holds of the reporter: `session` (a
connection, and with it a will), `availability` (the retained message) and `withdrawn`, an
observation. `Arrive` is a connection that lasts; `Refuse` one whose "online" is acknowledged too late,
after which the code disconnects; `BreakOff` the disconnection after a failed publication. A
DISCONNECT that arrives deletes the will; it arrives in order, after the message that was late, or not
at all. `Stop` is SIGTERM, which the code looks at between its passes and answers with "offline" and
DISCONNECT; `Kill` is the end of the process. `WillSent` is the broker's own step: it notices a dead
connection by its keep-alive of 20 s, while the reporter waits for 5 s, so that the reporter has
given the connection up before. An outage is one of the network: the broker keeps its
sessions and its retained messages. Left out: brokers that
lose either.

### AlarmPath and DetectionFeed

The detector infers: a person in the zone, or nobody. It prints a line when the intrusion begins
and when `clear_after_missed_inferences` inferences in a row saw nobody. `Emit` blocks while the
pipe is full, and without a reader it ends the process, since nothing handles SIGPIPE. The bridge
is reading, asking (a request is in the socket), ending, waiting for its last answer, ended or
killed. A signal sets `stop` and normally interrupts `fgets`, which the code treats as a failure; a
signal that comes just before `fgets` lets one more line through. The daemon stores a request even
when its ioctl fails and then answers "error"; when it crashes, the connection breaks, and its
successor starts without a request.

Of the way down to the driver the module has `driver`, its `user_alarm`, `applied`, which stands for
`applied_user_alarm_on`, and the observation `confirmed`, whether the latest ioctl went through. A request
that equals `applied` sends no ioctl, and one that fails leaves the flag set and the cache as it was
(`SetUserAlarm`, `Apply`). A start whose ioctl fails gives up, and the supervisor tries again. The
radar's own request is taken as off, and the daemon's orderly ends are in `AlarmDaemon`; the budget of
`MaxRefusals` counts all failing ioctls.

`DetectionFeed` promises that the detector's changes arrive in order, that nothing is invented,
and that once the feed is closed the request can only be withdrawn, with one exception that the
code really has: a bridge that is killed leaves its request in the listening socket, and the daemon
serves it later. In the refinement, `pending` is what is in the pipe and in the socket.

Bounds: three lines in the pipe (detector blocked, several changes under way), two refusals and
two crashes (the request and the last withdrawal can both fail, and so can a start and the request after it). Lines that the bridge ignores do
not matter to it and are not in the pipe.

### EventRecorder

Fourteen streams are served in the order of `process_snapshot`. A stream's records alternate between
"on" and "off"; a table without a record of a stream is the same as "off", because no tracker
tells the two apart. `Settle` is a whole pass: the trackers move on, and a subset of the insertions
may have been lost. `Die` is an end of the process within a pass, with a prefix of its records in the table.
`Start` restores from the table, each query of which may fail and then leaves its tracker as an empty
table would (`MaxLosses` counts these with the insertions): modules and conditions from their latest record, the intrusion
at its first sight, the two source flags and the two thresholds (humidity and darkness, which are
off unless configured) not at all. The camera's state is read the way `find_json_value` does it, by the
first textual match, so that it is mistaken after an intrusion (`spoken`). The end of a threshold's
event has the source and the type of its module's recovery, and the code takes the one for the other
when it restores; `Put` does so too.

A behaviour looks at one part of the snapshot, "alarm", "sensors", "thresholds" or, in `EventHistory`,
"door": the trackers of different parts share no state. Bounds: gaps between processed snapshots
of one and three ticks with a debounce of three, so that a condition is held by several readings or
by two; one lost insertion and one end of the process, which is where the two meet.

### EventHistory

The door's tracker is not restored. At first sight a closed door is not recorded, and an open one only
if `door_sequence_already_recorded` does not find its event sequence in the table. That search is
`LIKE '%event_sequence=N%'`, which also matches a longer number that begins with N: `Begins` divides
the longer number by one of `Powers`, in the code those of ten. The driver's sequence starts anew with each boot, the table does not.
The search itself may fail, which the code takes for "not recorded", and records the opening (`DoorDue`).

A pass has steps, and an end of the process falls between them: the report of the start (`startup`, or
`abnormal_exit` when there is a marker), the removal of the marker, the recovery of the snapshot, the
door. `S94sqlite_eventd` runs the process, creates the marker when it ends with a nonzero status
(`Exit`) and starts it again; with status 0 (`Stop`) it ends as well, and `Launch` is a later
start of the service. `PowerLoss` ends process and supervisor without a marker; what was written
stays on the disk, and the driver counts from 1. `SnapshotInvalid` is a pass that finds no snapshot.

Observations: `opened` (the sequence with which the tracker became "active"), `entry` and `system`
(what the latest pass recorded), `owed` (whether an abnormal end is still to be reported; "maybe"
while its record is there and its marker too).

Left out: the supervisor's pause between two starts, a marker that cannot be created, and the tracker of
`safety_alarmd`'s own state: every answer of the daemon says "online" (`safety_alarmd.c:459`), and
without one the snapshot is not written, so that it never has anything to record.

### CapturePipeline

One step is what a thread does under the mutex or between two uses of it. A condition variable is
the set of threads asleep in it; a notification empties the set, and a thread that is woken
tests its predicate again. A frame is known by the slots it is in: `unaccounted` counts, for each slot,
frames captured minus frames taken or counted as dropped. Main starts the capture thread, waits
for its startup, starts the encoder, loops until the deadline, a signal or the camera's terminal
failure, requests the stop, and joins. The camera, the NPU and the encoder may fail at each step.
Left out: what is in the frames, drawing, the preview and runtime files.

### VideoHandoff and VideoFeed

`Publish` is the whole of `publish` for one access unit: it accepts every connection that waits and keeps
the last, prepares the messages (`ToSend`) and sends them up to the first that is refused. A
message is refused when the client has closed its end, when `Room` messages wait in the socket, or
when a key frame is larger than the socket's buffer, which may happen at any time. The encoder puts
the parameter sets before every IDR frame, so that a key frame also fills the publisher's cache.
A unit is "next" when its predecessor went to the same connection and "stray" otherwise; the publisher
does not know which, the decoder feels it.

`viewer` chooses the HMI. The QML bridge (`Enter`, `Leave`, `Reconnect`, `BridgeConnect`, `BridgeEof`,
`BridgeReceive`) builds a decoder for each visit of its page and keeps `configReceived_` and
`waitingIdr_` over closed connections and left pages; only `Reconnect` resets them. The
widget window (`Monitor...`) resets them with each connection and keeps one decoder until it ends.
`DecoderError` may happen at any time, and `RestartHmi` too. A failed decoder reports its failure and is
not rebuilt before the bridge's page is left; the window never rebuilds it. "garbled" is a decoder
that was given what it cannot decode.

`VideoFeed` promises the decoder parameter sets first, then a key frame, then successors only, and
a key frame after every gap. `VideoHandoff` implements it with the same `decoder`: what the promise
forbids would be "garbled".

Left out: two HMIs at once, messages with a bad header (both sides are compiled against the same
one), the pictures, and what GStreamer does with them.

### VideoPath

The encoder's thread publishes at the end of `encode_frame`; main starts the publisher before the
encoder, and its destructor stops it after the join. `Relaunch` starts the program again. Both halves
are large, so a behaviour has either trouble or a viewer (`Calm`): without a viewer the camera fails,
signals arrive and the publisher's start may fail; with one the program ends by its deadline, an
NPU error or a camera that does not open. The encoder may fail in both. The proofs do not need the
split: they hold for either half because they hold for the parts.

## 3. The runs

| Run | Constants | What it asks |
|---|---|---|
| `driver_alarm` | no readers; raw light 36, 37, 60 with thresholds 30 and 50; one PWM fault | Do LED and buzzer show the merge in every interleaving of door, light, ioctl and removal? Does the flag settle, are outputs repaired? |
| `driver_events` | two readers, sequence numbers modulo 3, test injection | The shared event slot: no double read, nothing left unread, never all readers asleep. |
| `driver_lux_overwritten` | one door, two light values | The stale write of the door thread (finding 1). |
| `daemon` | hold times 1 and 2, stale limit 1; all commands but "ai off"; one failing ioctl, one lost message, one crash between or within handlers, any number of signals and of failing record writes | Merge, evidence for raising and releasing, exclusion of monitoring during a calibration whose start is on record, honesty of the record. |
| `daemon_parameters` | `RadarParameters`: hold times 2 and 1, stale limit 1; enable and the parameter commands with two values; one lost message, one crash | Parameters change as asked and only so, "verified" is true, and the radar's request follows its target. |
| `daemon_failed_ioctl` | AI commands, one failing ioctl | The stale cached value (finding 2). |
| `daemon_lost_ack` | status, one loss | The wait that never ends (finding 3). |
| `reporting` | `ReporterPresence`: batches of 2, 3 events, one failure of each kind | Order without gaps (refinement of `EventOutbox`), causes of repetitions, eventual delivery, and an availability that becomes true. |
| `reporting_slow_broker` | batches of 2, 2 events, one failure of each kind | The broker's delay costs local events (finding 4). |
| `alarm_path` | 3 misses, 3 lines, 2 failing ioctls, 2 crashes | Refinement of `DetectionFeed`; end and recovery of the alarm, in the daemon's request and in the driver's flag. |
| `recorder` | `EventHistory`: debounce 3, gaps 1 and 3, one loss (an insertion or a query), one end; sequences to 3 with the powers 1 and 2, two boots | Restarts, evidence, order of environment and fire; openings recorded once and not forgotten; abnormal ends reported. |
| `capture_pipeline` | `VideoPath`: 3 failures, key frames every 2 units, room for 2 messages, 2 waiting connections | Accounting, wakeups, shutdown, independence of the inference; what is sent is used, the decoder gets what it can decode (refinement of `VideoFeed`), the picture comes back. |

### Why these bounds

- Raw light 36, 37 and 60 convert to 30, 31 and 50 lux: at the low threshold, just above it, and at
  the recovery threshold, which are the sides of each comparison. The settling property needs a
  sample on each side.
- Sequence numbers modulo 3 make the counter wrap within three events while one is unread;
  modulo 2 suffices where nobody reads.
- In the daemon's runs (the code's times are 2 s, 5 s and 2 s) a timer runs, gets stale and is restarted
  within one hold time: a silence of `Stale + 1` fits into `NobodyHold` in `daemon`, into `NearHold`
  in `daemon_parameters`. Signals and failing writes have no bound, since the daemon is started again. One failing ioctl, one lost
  message and one crash meet in every order; a second of one kind starts from states that the first
  has already produced. What the runs check of safety is also proved for all times and budgets. The
  AI's withdrawal, `ai off`, is left out of `daemon` for its time: it is in
  `daemon_failed_ioctl` and in the proofs, and a restarted daemon withdraws the AI's request, too.
- One lost message or one crash in a parameter command, and any number of further commands after
  it: the retry of what was broken off is in the run. Two values suffice, since values are only compared.
- Three events with batches of two make a batch that ends by the limit and one that ends by the
  table. With two failures of each kind and the same properties the model has 1.4 million states
  and passes as well.
- Powers 1 and 2 with sequences to 3 have a number that begins another (1 begins 2 and 3), which is what the
  code's decimal numbers have from 10 on; the second boot meets every record of the first. Starts after
  `Stop` are not bounded, so that marker, loss and end meet in every order. The bounds of
  `EventRecorder`'s own parts are unchanged in this run.
- The camera's 20 tolerated failures are 3 in the composed run: a counter that resets, reaches
  its limit, or is cut off by the end; the proofs hold for any number. Two units from key frame to
  key frame make a group with a successor that can be lost. Room for two messages is exactly the
  parameter sets and the key frame of a new connection: every further message meets a full
  buffer. `listen(fd, 1)` admits two connections on Linux.
- The pipe's three lines hold an event, a clear and the next event, so that the daemon can be a
  whole intrusion behind the detector.

Deadlock is checked unless the system may really stop: the driver's readers after removal, the
reporter that nobody restarts, the bridge and the AI process, which end, and the recorder after its
last end.

### Fairness and why the code justifies it

- `SafetyEvent`: the debounce time elapses, a woken interrupt thread and an expired delayed work
  run, and so does a process whose system call can return. Failing PWM calls are budgeted, failing
  samples are not, but do not go on for ever. Nothing makes the door move or the light change.
- `AlarmDaemon`: time passes and a live module sends however often poll returns early (strong, since
  clients can keep the loop busy); the loop and the supervisor, which restarts after two seconds, are
  scheduled. No client need ask. `RadarParameters` adds that a command being served goes on (`Serve`).
- `EventReporting`: each process runs its next step while it is up, and the writer is restarted by
  its supervisor. The reporter's start is not fair: `S95mqtt_reporterd` has no supervisor.
- `AlarmPath`: the bridge runs when it is not blocked, the daemon serves, the supervisor restarts it.
  Nothing is assumed of the detector, of signals or of anyone who would start the bridge again.
- `ReporterPresence` adds that the broker notices a dead connection (`WillSent`), which is what its
  keep-alive is for.
- `VideoPath`: each of the threads, as in `CapturePipeline`, and the HMI's timer (`Poll`). No user
  need do anything; `VideoGoesOn` is about a page that stays open, a publisher that listens and an
  encoder that goes on, with a decoder that has not failed.
- `EventRecorder` and `EventHistory` state no liveness: the recorder polls a file, and nothing in
  its code promises when.
- `CapturePipeline`: each thread takes its next step; camera, NPU and encoder answer, if only with an
  error. The encoder's blocking poll (`MPP_POLL_BLOCK`) is where this is an assumption on hardware.

## 4. What the checks found

Four runs end in a counterexample; each checks one statement of the repository's documents.

1. **The door thread undoes the light sensor** (`driver_lux_overwritten`; `safety_event.c:278`,
   `docs/index.html:541`). `door_irq_thread` passes `low_lux_alarm`, read without `alarm_lock`, to
   `update_alarm`, which writes it. A LOW_LUX of the BH1750 work in between is lost until the
   next sample, a second later with the board's device tree. `LightAlarmSettles` shows that it is repaired then.
2. **A failed ioctl silences the next alarm** (`daemon_failed_ioctl`; `safety_alarmd.c:644`,
   `docs/index.html:570`). The driver stores `user_alarm` before its outputs fail; the daemon keeps
   the old cached value, and the next request that equals it is not sent.
3. **A lost acknowledgement stops the loop** (`daemon_lost_ack`; `safety_alarmd.c:914`,
   `docs/index.html:301`). `wait_for_command_ack` gives poll a fresh 1500 ms after each chunk,
   so a module that goes on streaming, because it never got ENABLE_CONFIG, keeps the daemon waiting.
4. **A slow broker costs local history** (`reporting_slow_broker`; `sqlite_eventd.c:426`,
   `userspace/mqtt_reporterd/README.md:65`). The reporter keeps its SELECT open while it waits up to
   5 s for an acknowledgement; COMMIT waits 100 ms, fails without ROLLBACK, and later events fail at
   BEGIN until the process restarts.

Further effects that the models show and that no document speaks about are listed as hazards in
`PROJECT.json`: the bridge does not repeat a request that a restarted daemon forgot; a bridge that
was killed leaves a request behind; a camera's failure is misread after an intrusion; an event whose
clear falls into a restart stays open in the history; the last edge of a bouncing door may be the
one that is dropped. The modules of the door, the connections, the parameters and the video add these:

- A reporter that gives a connection up after a late acknowledgement disconnects in good order, which
  deletes its will: when it ends before it has connected again, the broker retains "online" for good.
  `PresenceIsTold` names the case (`withdrawn`), and `OnlineIsGrounded` proves that it is the only one.
- After a reboot the first opening can be missing from the history, when its sequence begins that
  of a record of an earlier boot and the recorder sees the door open at its first sight
  (`OpenOnRecord`). A door that closes while the recorder is down stays open in the history.
- A `set-resolution` whose restart was lost, or that was killed before it, leaves the new value stored and
  the old one at work. The retry reads the new value, finds nothing to do, restarts nothing and answers
  "verified" (`safety_alarmd.c:2476`). `VerifiedIsTrue` names this case (`interrupted`), and
  `CommandsDoAsAsked` proves that it is the only one.
- A SIGTERM in one of the waits of `start_calibration` returns -1 before the record is written
  (`safety_alarmd.c:914`, `:1292`), while the module has started: the next daemon knows nothing of the
  calibration and accepts `rear enable`. Nothing is lost for this and nothing crashes; a lost acknowledgement, a crash at
  this place and a record that cannot be written (`:2714`) have the same effect. `MonitorExcludesCalibration`
  exempts exactly these calibrations (`unrecorded`), and `ExclusionCorrect` proves that there are no others.
- An `ai on` whose ioctl fails leaves the driver's `user_alarm` set and `applied_user_alarm_on` off. The bridge
  ends, its last `ai off` equals the cached value and is not sent (`safety_alarmd.c:644`), and the next sample of the
  BH1750 sounds an alarm that nobody asks for (`safety_event.c:235`), until some later request is sent or the daemon starts
  anew. It is the counterpart of finding 2. `EndWithdraws` exempts it for the driver's flag (`confirmed`), and
  `EndWithdrawsAtOnce` proves that it is the only one.
- When the search for a door's sequence fails, an opening that is on record is recorded again. `OpenedOnce`
  names the case (`losses`).
- The report that a calibration failed can be dropped by the exchange of `rear status`, whose answer
  "not-running" changes nothing: the daemon then refuses to monitor and to calibrate for as long as
  the record in `/run` says "waiting".
- A decoder that fails is reported with every frame and not rebuilt before the page is left; the
  widget window reconnects, fails to push and reconnects again.

## 5. What is proved

The theorems hold for every value of the constants that satisfies the named assumptions:
`LightAssumption` (16-bit samples, thresholds in order, as `parse_bh1750` demands), `SequenceAssumption`,
`DaemonAssumption`, `CommandAssumption`, `ReportingAssumption`, `PathAssumption`,
`RecorderAssumption`, `FailuresAssumption` and `HandoffAssumption` say that times, sizes and budgets are
numbers of the right sign, `HistoryAssumption` also that 1 is one of the powers (a number begins
itself). So the bounds of the runs, two readers or one crash for instance, are gone.

| Module | Theorem | Says |
|---|---|---|
| `SafetyEventProofs` | `TypeCorrect` | `TypeOK` |
| | `MergeCorrect` | `OutputsAreTheMerge` |
| | `ReadersNeverAllAsleep` | `SomeReaderAwake`, for any set of readers |
| | `RecordsReadOnce` | `NoRecordReadTwice` |
| | `LuxConversion` | the integer lux is within half a lux of raw / 1.2 |
| `AlarmDaemonProofs` | `TypeCorrect` | `TypeOK` |
| | `MergeCorrect` | `MergeDelivered` |
| | `AlarmsEarned` | `RadarAlarmEarned` |
| | `ReleasesEarned` | `RadarReleaseEarned` |
| | `ExclusionCorrect` | `MonitorExcludesCalibration`, through losses, signals, failing writes, crashes and restarts |
| | `RecordCorrect` | `RecordedSuccessWasCompared` |
| | `ParametersTypeCorrect` | `ParametersTypeOK` |
| | `CommandsDoAsAsked` | `ParametersAsAsked` |
| | `ParametersKeepDaemon` | `MonitorExcludesCalibration` and `RecordedSuccessWasCompared` also with the parameter commands |
| `EventReportingProofs` | `TypeCorrect` | `TypeOK` |
| | `RepeatsCaused` | `RepeatsHaveCause` |
| | `ImplementsOutbox` | `EventReporting` implements `EventOutbox` |
| | `PresenceImplementsReporting` | the composed system is an execution of `EventReporting`, so that its theorems hold |
| | `PresenceTypesHold` | `PresenceTypeOK` |
| | `OnlineIsGrounded` | a connected reporter is said to be online; "online" otherwise stands only while its will is to come, or after a withdrawn one |
| `AlarmPathProofs` | `TypeCorrect` | `TypeOK` |
| | `InStepWithDetector` | while the bridge is in its loop, what it had confirmed or asks for is the detector's state just before the lines in the pipe, which alternate |
| | `ImplementsFeed` | `FollowsDetector`: `AlarmPath` implements `DetectionFeed`, for any pipe and any number of misses, refusals and crashes |
| | `EndWithdrawsAtOnce` | a bridge that has ended by itself leaves no request behind, and no alarm in the driver unless the latest ioctl failed; or a daemon that is down, which withdraws both before it serves |
| | `RequestIsBehind` | before a crash or an end of the loop, the daemon's request is the detector's state as many changes ago as are under way |
| `EventHistoryProofs` | `HistoryTypesHold` | `HistoryTypeOK` |
| | `RestartsRestore` | `RestartRestores` |
| | `OverheatingIsHeld` | `HeldForDebounce` |
| | `FireIsInside` | `FireInsideEnvironment` |
| | `OpeningsAreOnRecord` | `OpenOnRecord` |
| | `OpeningsAreRecordedOnce` | `OpenedOnce` |
| | `ExitsAreOnRecord` | `ExitsOnRecord` |
| `CapturePipelineProofs` | `TypeCorrect` | `TypeOK` |
| | `FramesAddUp` | `FramesAccounted` |
| | `WakeupsArrive` | `NoLostWakeup` |
| | `PromptStop` | `StopIsPrompt` |
| `VideoHandoffProofs` | `VideoTypesHold` | `VideoTypeOK` |
| | `WhatIsSentIsUsed` | `SentIsUsed` |
| | `VideoImplementsFeed` | `VideoHandoff` implements `VideoFeed`, for any group of pictures, buffer and queue |
| `VideoPathProofs` | `PathTypesHold` | `PathTypeOK` |
| | `PathImplementsHandoff` | the AI process with its viewer is an execution of `VideoHandoff` |
| | `PathImplementsFeed`, `PathSentIsUsed` | `FeedSpec` and `SentIsUsed` of the composed system |
| | `ThreadsOverStarts` | `FramesAccounted`, `NoLostWakeup` and `StopIsPrompt` over any number of starts |

The arguments:

- **The driver's merge** is inductive with the types, since each action that writes a flag applies
  it in the same critical section (`ApplyEffect`). **Readers** need `SlotInv`:
  while a record is unread some reader is awake, and while none is, some reader is in user space; the
  slot carries the newest number, and what was consumed is what was read last. "Not all asleep" alone
  is not inductive: it says nothing of who is left when the last unread record is taken.
- **The daemon's merge** is not inductive alone, for `apply_user_alarm` may send nothing. It needs
  `CacheIsDriver`: after a confirmed ioctl the cached value, the requests and the driver agree.
  Finding 2 is the case in which `confirmed` is false.
- **The radar's evidence** needs `TimerHasEvidence`: while the near timer runs, monitoring is
  enabled, the run of near frames is at least as old as the timer, and the latest frame is no
  older than a pass can tolerate. The age bound depends on where the loop is, because the UART is
  served before stale timers expire. `TimerHasClearance` is its counterpart for the release.
- **Exclusion** needs `ExclusionInv`: while the module calibrates, the record says so, the running daemon
  knows, and no report of an earlier end is in the UART or pending; frames that say "calibrating" stand
  before any report of an end (`FramesInv`). What is inductive is `ExclusionSafe`: no frame waits for a
  daemon that is down or in a wait, and, unless the calibration is `unrecorded`, `ExclusionInv`. The latter
  comes back with the next calibration that is recorded, which begins with no frame of an earlier one.
- **The honest record** needs `RecordInv`: what a pass owes to the record is settled before it serves
  clients, and a failure that is yet to be written is not taken for a success.
- **The parameter commands** need `ScriptOK`: what was read holds until the write, and the stored resolution
  is at work unless a restart is due or was broken off. `DaemonInv` adds that a command is served last in
  its pass, so that its exchanges drop nothing that the calibration still needs.
- **The outbox** needs `Inductive`: the cursors in memory and on disk are positions up to which
  everything from the base on has been delivered (`Reached`), the one on disk not ahead of the one in
  memory, and a cursor may be missing in memory only when it is missing on disk. The refinement
  then follows action by action (`StepImplementsOutbox`).
- **Repetitions** need `RepeatsPaid`: repetitions so far, plus the rows that a crash would send again,
  are at most the causes so far plus the row in flight. The count of repetitions alone says
  nothing of the rows that are still unsaved. It uses the library's facts on cardinality.
- **The alarm path** needs `PathInv`. `Before(active, n)` is the detector's state n changes ago: since the
  detector only reports changes, the pipe alternates (`Alternating`), and the bridge stands where the
  oldest line in the pipe is news to it (`InStep`), so that it drops none as already known.
  `LastWithdraws` says that no alarm is asked for on the way out. `DriverFollows` ties the driver to
  it: unless the latest ioctl failed, the driver's flag is the request, and so is the cached value. The refinement maps each step to
  a detection, a delivery, a forgetting crash, an end, a late request, or a stutter; what the
  feed calls `pending` is the pipe and the request that is not yet served, and nothing after the end.
  Types and `PathInv` hold in spite of crashes, since the bridge knows nothing of them;
  `RequestIsBehind` speaks of the daemon's side and ends with the first crash, which is the hazard that
  the bridge does not repeat a request that a restarted daemon forgot.
- **The recorder** needs that each pass settles only on `Sound` values (the end of a threshold's event
  only with its module at work, or its record would be taken for the module's). `HeldForDebounce` and the
  order of fire and environment are about what has been recorded; inductive are the waits
  before it: a wait is no longer than the run of readings that it stands for
  (`TemperatureWaits`), and while a fire waits, the environment's alarm stands or has waited as
  long (`FireWaits`).
- **The door** needs that the records of this boot are not ahead of the driver and agree with the door when they
  are level with it (`RecordsFollowDoor`), and that an open door which the process last saw closed
  has been opened since (`OpenedSince`). Then an opening that is recorded at an edge is new, and one at first
  sight is new by the search, if the search could be made. Of the search the proofs use only that a number begins itself: that it may
  match too much makes `OpenOnRecord` as weak as it is, and harms nothing else. `MarkerOwed` follows the report
  of an abnormal end from the marker through what the process read of it to the record.
- **The pipeline** needs `StartOrder` and `StopOrder` (who was started by whom, that the request to stop
  belongs to main's last steps, and that only a waiting encoder sleeps) and `LateBound`: what
  the encoder can still take, as a function of the full slot and the read under way.

- **The handoff** is inductive as `VInv`, whose parts are the types, the two ends of the connection
  (`Ends`), what exists without publisher, page or connection (`Lifetimes`), `Transit`: what is in the
  socket can be used when it arrives, and `Belief`: what the publisher believes of its client (that it
  has the parameter sets, and a key frame) is true or will be when the socket is empty. `SentIsUsed` alone
  speaks of the first message only; the next one is covered by `Transit`, a message yet to be sent
  by `Belief`. The refinement needs that the decoder is never "garbled", which is a part of
  `Lifetimes` and follows from `Transit`.
- **The composition** needs no new invariant but `Joined` (when main has ended, so has the encoder): each
  of its steps is a step or a stutter of both parts (`HandoffSteps`, `ThreadSteps`), and `Relaunch` leads
  to a state in which the threads' invariant holds.
- **The presence** is `Held` (a reporter that counts as connected is) with `Grounded`, the statement
  itself, which is not inductive alone: a connection that ends leaves "online" behind, and only `Held`
  says that the broker still has its will.

### Only model-checked

- All liveness (`LightAlarmSettles`, `OutputsRecover`, `UnreadIsTaken`, `RequestFollowsTarget`,
  `EventuallyReported`, `PresenceIsTold`, `EndWithdraws`, `RecoversFromCrash`, `ShutdownCompletes`,
  `InferenceGoesOn`, `VideoGoesOn`):
  TLAPS does not reason about fairness and ENABLED. `EndWithdrawsAtOnce` is the safety part of
  `EndWithdraws`: what is left to the model checker there is that the bridge comes to its end and
  that the supervisor starts the daemon again.

Every invariant and every action property that a passing run checks, and each of the three refinements, is
stated by a theorem above.

## 6. What is not modelled

Besides what section 2 lists under each module: `postprocess.cc` is a pure function in floating
point; the HMIs otherwise read and change nothing but their screens, which have no state that a
property could relate to anything; the LD2410 tools, `safety_alarmctl` and the test program are
clients without state of their own; device tree, kernel configuration, patches and scripts have no
behaviour at run time; `jsmn` is vendored and `hello_module` an example. `state_snapshotd` is modelled
only by what its snapshots can say to the recorder.

## 7. Plan

Done, in this order: driver, daemon, reporting with its outbox, alarm path with its feed, recorder,
capture pipeline; proofs for driver, daemon, reporting and pipeline; then the video handoff with its
feed and its proofs, its composition with the pipeline, the rest of the recorder, and the
availability topic with its proofs; the radar's parameter commands, and the proofs that the daemon's
runs had left to the model checker; the proofs for the alarm path and its feed, and for the recorder
with the door.

Next, by importance:

1. `StateSnapshot`: two inputs of different age, the replaced file, a daemon that does not answer,
   readers that do not look at the file's age.
2. `RadarFrames` (reassembly of frames from chunks, checked against a reference over bounded inputs).
