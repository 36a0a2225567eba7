# A formal model of droneOS

TLA+ modules of the parts of droneOS in which order, loss, restarts and
concurrency matter, configurations with which TLC checks them on small
instances, and proofs for all instances that TLAPS checks. Line numbers refer to
the repository's sources.

    tlc -config CommandDelivery.cfg CommandDelivery.tla
    tlapm CommandPathProofs.tla

`PROJECT.json` lists the components, the runs, the map from definitions to source
lines, the findings, the hazards and the theorems.

## Inventory

| component | state it keeps | operations | who it talks to |
|---|---|---|---|
| controller command queue (`internal/protocol/controller.go`) | a buffered channel of 100 commands, in memory | `EnqueueControllerCommand`, `nextControllerCommand` (long poll, 2 s), `controllerAck` (logs) | the base's enqueuing goroutine; one handler per TCP connection |
| base TCP server (`cmd/base/main.go`, `protocol/main.go`) | none; a goroutine per connection | `radio` (accept loop), `TCPHandler` | drone pollers and reporter |
| WiFi transport, controller poller (`protocol/transport.go`, `cmd/drone/main.go:277`) | the command being handled | poll, read, acknowledge, sleep | base server; reads `wifiConnected` |
| WiFi poller (`cmd/drone/main.go:232`) | `wifiConnected` (atomic), `wasConnected` | `CheckWiFi` every 2 s | read by the controller poller, the keepalive and the reporter |
| priority mutex (`internal/drone/control/main.go`) | `isLocked`, a FIFO of waiters per priority | `Lock`, `Unlock` | the control algorithms |
| control algorithms, main loop (`control/pilot`, `control/obstacle_avoidance`, `cmd/drone/main.go:594`) | `taskQueue` and the sensor channels, all unbuffered | loops around `Lock`/`Unlock`; the main loop starts a motor goroutine per task | each other through the mutex; the main loop |
| radio keepalive (`cmd/drone/main.go:490`), `RadioTransport`, `ServeRadio` | no correlation state at all | ping, confirm with `debug_log`; receive, dispatch, reply | each other, through the radio link |
| SX1262 driver (`internal/drivers/radio/SX1262`) | a receive buffer with start and end | `Send`, `Receive`, `nextFrame`, `compactReceiveBuffer` | a serial port |
| codec (`protocol/codec.go`) | none | `EncodeMessage`, `DecodeMessage` (4-byte length, at most 64 KiB) | both transports |
| realtime runtime (`internal/realtime`) | per thread: policy, priority, affinity | `Prepare`, `Run`, `setupThread`, `restore` | kernel; wraps sensors and control algorithms |
| device reporter and scan (`internal/drone`) | none between reports | collect, send every 10 s | sysfs, I2C, GPIO; the base |
| Xbox controller source (`internal/controller`) | previous axis and button values | find, read, send an event, retry | base's enqueuing goroutine, over an unbuffered channel |
| GPIO layouts (`internal/drivers/gpio`) | none | `ResolvePin`, `InspectPins`, `ValidatePins` | preflight of the drone |
| serial console tool (`cmd/dev/pi_runner`) | receive window, state of the remote shell | login, exec, upload, console | a shell on the other end of a serial line |
| sensors, motors, camera | none | stubs | - |
| configuration, environment files | none after start | parse | - |
| build and image scripts | files and partitions | shell | - |

### What makes each of them correct

- **Command path**: a command is taken at most once and in the order of issue; what
  is lost is paid for by a failed poll, a full queue or a restart; the log of
  acknowledgements never names a command that was not taken; a queued command
  does arrive over a good link.
- **Mutex**: one holder; priority, then arrival; no waiter is left behind.
- **Keepalive**: what the base's log is said to prove is what happened.
- **Framing**: a frame sent is a frame received, and the search for a header finds
  the next frame after damage.
- **Realtime**: a thread goes back to the Go scheduler as it came.
- **Upload**: the destination is the old file or the whole new one, and the remote
  shell is left in a usable state.

The hard behaviours are listed line by line under `hazards` in `PROJECT.json`.

## Modules

| module | what it is |
|---|---|
| `CommandChannel` | what the command path promises: a channel that drops, never repeats and never reorders |
| `CommandDelivery` | the command path: queue, handlers, poller, acknowledgement, flag, link, restarts |
| `PriorityMutex` | `Lock` and `Unlock`, with the history of who came first |
| `PriorityMutexProofs` | exclusion, no stranded waiter, hand-over in order |
| `RadioKeepalive` | keepalive, `RadioTransport.Send`, `ServeRadio`, a link that loses and delays |
| `RadioKeepaliveProofs` | the bound on late answers, what the debug_log proves, and when |
| `Realtime` | the DRONEOS_RT_* settings, the preflight of `main`, and `Run` on borrowed threads |
| `RealtimeProofs` | what strict mode launches, what a thread looks like when it is given back |
| `LoRaFraming` | `EncodeMessage`, `Send`, `Receive`, the search for a frame in a stream that loses bytes |
| `LoRaFramingProofs` | order, no intact frame passed over, room to read, nothing left in the buffer |
| `SerialRunner` | the exec and upload modes of the serial tool, and the shell that works through its lines |
| `SerialRunnerProofs` | atomic installation, honest success, one effect, clean-up |
| `ControlLoops` | sensors, control algorithms and the main loop, over an instance of `PriorityMutex` |
| `ControlLoopsProofs` | one algorithm with the lock offers a task; rests on `PriorityMutexProofs` |
| `ControllerSource` | the Xbox reader, the goroutine that enqueues its events, the end of the base and its restart |
| `CommandPath` | the whole way from the pad to the drone: `ControllerSource` and `CommandDelivery` together |
| `CommandPathProofs` | both parts, the refinement of the channel, and order and loss from the pad to the drone |
| `GpioLines` | `ResolvePin`, `lineReqOptions`, `resolveSerialDevice`: the pure part of the drivers |
| `DeviceReport` | preflight of the pins, start of the radio, and the reporter beside them; extends `GpioLines` |
| `DeviceReportProofs` | what is held and open, what a report accounts for, which lines change |
| `MC...` | constants and symmetry of the instances TLC checks |

### CommandDelivery

`queue` is `controllerQueue`; `conn[c]` is how far the `TCPHandler` of connection
`c` has come (`decode`, `select`, `write`, then `sent` or `closed` while the client
is there, `free` otherwise); `poller`, `cur` and `taken` are the program counter and
the local variables of `startControllerPoller`; `status` is `wifiConnected`. Commands
are numbered in the order of issue. The rendezvous on the unbuffered
`controllerChannel` and the attempt to enqueue are one step: one goroutine does both
and nothing reads the queue in between. Among several handlers blocked on the queue
any may receive the command.

Decisions worth knowing:

- A handler does not notice that its client is gone, so an abandoned connection
  keeps its handler; this is where commands are lost and where a stale handler takes
  one ahead of the live handler.
- `linkGood` means that the base is reachable and answers in time. The poller's
  deadline is 3 s and the long poll 2 s, so over a good link a poll is answered;
  `suspect` marks a request that was under way while the link was not good, and only
  such a request may miss its deadline. A dial that fails changes no state.
- `LongPollEnds` stands for the timer and for `ctx.Done()`: both answer the same.
- `HandlersEnd` is about the long poll. `TCPHandler` sets no deadline on the connection,
  so a handler whose client connects and stays silent waits in the decoder; the
  clients of the model either send their request or are gone.
- A payload that `json.Marshal` refuses and a reply above 64 KiB are sets of
  commands (`Unmarshalable`, `Oversized`). The failures of `json.Unmarshal` at the
  drone cannot happen for what the base marshalled.
- A ping of the WiFi poller keeps no state at the base. It is sent (`CheckWiFi`) and
  its outcome becomes the flag later (`StoreStatus`): `check` says whether the link
  was good all the while. A suspect check may store either value, also after the
  link is back.
- Loading the flag and dialling are one step of the poller: nothing that can happen
  in between depends on which comes first.
- No claim is made on the order of acknowledgements in the log: a late one may be
  logged after that of a newer command.

### PriorityMutex

The internal `sync.Mutex` makes `Lock` (up to blocking) and `Unlock` one step each.
A goroutine is `waiting` while its channel is open, `woken` once it is closed, `in`
when `Lock` has returned. `Levels` are the ten that `Unlock` scans. `ahead[t]` is a
history variable: who was waiting when `t` queued up.

### RadioKeepalive

Messages carry the drone's ID and no number; the model numbers the requests to say
which answer is whose. The link keeps order, so frames under way are sets of
numbers and the next one is the least.

`Send` is the loop of `transport.go:76-104`. A `Receive` brings a frame, which is
decoded or not and ends `Send` either way, or an error, or nothing (`got`), also while
an answer is on its way. Only after one of the last two is the deadline looked at
(`CheckDeadline`); that it has passed (`deadline`) ends nothing by itself, and a frame
that comes after it is still taken. The context is looked at where the loop begins
(`Cancelled`). A restart of the drone is a `Send` that ends there and the loss of
frames; a restart of the base is the loss of frames. `Disturbed` admits restarts of the
drone and noise that looks like a frame; the run that refutes the repository's README
does without both, so that only a late answer is left as the cause.

### Realtime

`attr` is the scheduler and the affinity of a thread; `on[r]` is the thread that a
goroutine has locked, `saved[r]` what `setupThread` has read before it changed it.
Each of the four system calls of the setup, and each of the restore, is a step that
may fail. A goroutine whose restore fails unlocks its thread all the same, because
`UnlockOSThread` is deferred: the model lets such a thread back into the pool as it
is (`CleanPool` says that only those may be changed). `CheckKernel`, `Decide` and
their neighbours are the decisions of `main` in their order.

### LoRaFraming

A frame is the header, four digits to the base `Base`, and its payload. `line` is
what is on its way, `receiveBuf` what `Receive` has read; `receiveStart` is kept,
because a read may only fill the space behind the buffer. A loss may hit any byte on
the line. What is checked is the search: an intact frame is lost only inside what
was taken for the frame of an earlier header. That a header with a byte missing
swallows what follows is what the code does, and no property says that the framing
finds its way back whatever was lost.

### SerialRunner

The host (`pc`) and the shell at the other end, which reads lines that the host has
typed (`typed`) and answers later (`output`). Payloads are named lines, not
characters; a write may come to a stop anywhere, so a line may be whole, partial or
missing. The shell knows whether it is at a login, inside a here-document, or
running the verification. `NothingLeftBehind` is about failures in the data: only
those does the code guard with `heredocOpen`. A header or a delimiter that is itself
cut short leaves the target inside an open here-document, which the code does not
claim to repair.

### ControlLoops

`Mutex == INSTANCE PriorityMutex` supplies `Lock` and `Unlock`; the priority of an
algorithm is its index plus one in the configuration. A send on the unbuffered task
queue is a step together with its receive. A plug-in whose parameters do not fit
panics in `reflect.Call` and ends the process: every motor does, and the README of
the repository says so. No driver in the tree sends sensor events; the event that
`obstacle_avoidance` waits for is an external action.

### ControllerSource

`reader` follows `Xbox360Interface` from the search to the read, `hand` is the event
that `sendEvent` holds while it blocks on the unbuffered channel without looking at
the context. `forwarder` is the goroutine that enqueues. The retry of the base after
one second is dead code, since the interface returns only the context's error. A pad
that is listed and fails every read is opened again without a pause; the model
allows as many such rounds as it has faults.

`events` is the history of what was read; what is sent on carries its place there
(`at`), which says which event it is, also when two are alike. The base ends by a
signal (`Signal`, `CloseListener`, `Return`) or in any other way (`Kill`), and may be
started again (`Start`): the place of an event that was in hand then goes to
`forgotten`.

### CommandPath

The two modules meet in one step, `Submit`: the forwarder receives an event and calls
`EnqueueControllerCommand`, which in `CommandDelivery` alone is an action of the
environment. They also share the life of the base process. From the moment the
listener is closed, or the base is killed, it is out of reach (`BaseEnds` takes a good
link with it; a request that was under way may or may not be answered). While the base
is down its handlers do nothing, and `BaseStarts` is `Start` and `RestartBase` at once:
the event in hand, the queue and the handlers go together. All other steps are those
of one part and leave the other alone.

### DeviceReport and GpioLines

`owner` and `firmware` are the kernel's view of the lines: who has requested each and
whether it still has the function the firmware gave. `main` inspects all pins of a
device (`InspectNext`), then requests those it may (`ValidateNext`), then starts the
radio, whose two lines and port may each fail. The reporter opens a chip, reads one
line after the other, inspects the configured pins again and looks at the flag
*after* the collection; it sends once. `report.errors` says which part of the
collection failed.

There is one chip. `gpiocdev.Chips` may list none, because it could not read `/dev` or
the chip was out of reach for it: `scanGPIOPins` then returns no lines and no error
(`device_scan.go:232-235`), and a report says nothing of the lines it leaves out. So
`Accounts` claims only what holds: a report leaves out a line, without an error, only
if no chip was listed. Whether one was is history (`report.chips`), which the base
does not get to see. The table from physical pins to lines is a constant
(`PhysicalToBCM`), and of the options of a pin the model keeps those that decide
whether a request is made and whether it drives the line; active level and bias are
the one option `level`.

## Runs

| run | shows |
|---|---|
| `command_delivery` | the lossy ordered channel is implemented; acknowledgements are sound; delivery over a good link; handlers end |
| `priority_mutex` | exclusion, no stranded waiter, order, service of the best priority |
| `priority_mutex_eleven` | **violation**: a waiter of priority 11 is never woken |
| `radio_keepalive` | late answers are bounded by failed `Send`s; the log proves the round trip until then; every `Send` ends |
| `radio_keepalive_proof` | **violation**: after one late answer the log proves less than the README says |
| `realtime` | strict mode's gate, clean threads, lenient starts; the start ends in a decision |
| `lora_framing` | order, intact frames found, room to read, nothing stuck in the buffer |
| `serial_runner` | atomic installation, honest success, one effect, clean-up; the host ends |
| `control_loops` | one holder offers tasks; holders give the lock up; a signal ends the process |
| `controller_source` | one open device, events once, in order and clamped; the source recovers |
| `command_path` | from the pad to the drone: order, at most once, and losses bounded by failed polls and restarts |
| `device_report` | what is opened and requested is given back; an incomplete report says so unless no chip was listed; metadata only |

### Bounds

- `command_delivery`: two connections are the live handler and a stale one that
  competes with it; the queue holds both commands, so their order can show; one reply
  is too large; two polls may be abandoned at their deadline and each process restarts
  once. No symmetry, since it is unsound for liveness. A queue that overflows is in
  `command_path`; any number of connections, commands and restarts is what the
  theorems cover.
- `priority_mutex`: five goroutines, two pairs of equal priority, at levels 1, 2 and
  10. Nothing else is bounded: the state space is finite.
- `radio_keepalive`: six requests are three rounds, enough for two late answers to
  meet, after which a round is confirmed by the answers to the one before. Four are
  enough to refute the README of the repository (`radio_keepalive_proof`).
- `realtime`: three threads for two algorithms and the main goroutine, so that a
  thread left behind is met again. Every combination of the switches that are
  accepted, each setting in a form that is refused, and every kernel answer.
- `lora_framing`: bytes are 0 or 1 and a payload has up to three, so a header is
  `000L`; three frames, two lost bytes. A lost byte of a header then gives both a
  length out of range and one in range.
- `serial_runner`: two lines of base64, so that the first may arrive and the second
  not; three failed writes, which reach the data, the delimiter and the clean-up.
- `control_loops`: three sensors and three algorithms with two names each, so that
  two algorithms compete and one is of the other kind; one goroutine of a task is
  counted, any number may run.
- `controller_source`: three events, so that one is read, one held and one queued;
  the pad is pulled out twice, one call fails by itself and the base is started again
  once. The axis has values beyond both ends of the clamp, the button fits.
- `command_path`: two events, of which one kind acts and the other does not; two
  connections (a live handler and a stale one), a queue of one, one restart of each
  process; polls fail and leave handlers behind through these restarts, while one that
  is abandoned at its deadline is in `command_delivery`. The pad is put in but not pulled out and
  does not fail: that is in `controller_source`, and no step of the rest looks at it.
- `device_report`: the two lines of the radio and one of the UART; five
  configurations of the pins and of the radio chosen so that every arm of the
  resolution and of the request is taken, a pin with nothing but a bias included; one failing call and one line taken by
  another program at any place; two reports, so that the second follows a flag, a
  line or an error of the first.

### Fairness

Goroutines that can run do run, sockets deliver over a good link, and timers fire:
weak fairness. `select` picks at random among ready cases, so a handler that finds
the queue non-empty again and again takes a command in the end: strong fairness of
`NextControllerCommand`. A critical section ends because `pilot` only sleeps in its
own, and in `obstacle_avoidance` the main loop receives the task as long as the
drone runs. Nothing is assumed of the operator, of the link, of restarts, or of
goroutines asking for the lock.

`radio_keepalive`: a call of `Receive` returns, since the port has a read timeout; the
deadline is looked at when it brought no frame; time passes. No `Receive` is assumed to
fail or to bring a frame, so `RoundEnds` needs the loop: each round through it ends
`Send` or comes to the deadline once more.

`realtime`: the main goroutine goes on. `serial_runner`: the host goes on, since all
its waits have a timeout; the target may be silent for ever. `control_loops`: a
sleep ends, a holder releases, and a `select` that finds a task and nothing else
receives it; once a signal has been handled `main` returns and the process ends.
`controller_source`: the reader, the enqueuing goroutine and the closing of the
listener go on; the pad, the operator and the signal owe nothing. `lora_framing`,
`device_report` and `command_path` are checked for safety only.

## Proofs

TLAPS checks the following for all values of the constants that satisfy the named
assumptions (`DeliveryAssumption`, `PrioAssumption`, `SendsAssumption` and those below).

- **CommandDelivery** (in `CommandPathProofs`). `DeliveredInOrder` is not inductive: that the next command
  taken is newer than the last follows from where every command is. `IInv` adds that
  the poller waits exactly while it has a connection and for what it asked
  (`PollerInv`); that commands with the drone, in the live reply and in the queue
  are ordered in this sequence (`OrderInv`); and that an acknowledgement under way
  is the only one for a command that was taken and not logged (`AckInv`). The
  refinement maps `inTransit` to the queue plus the live reply: taking a command
  into a reply nobody reads is `Lose`, reading the live reply is `Receive`. TLC checks
  `IInv` as a part of `PathInv` in `command_path`; `DeliveredInOrder` and `LossBounded`
  are checked there in the form the composition gives them, `TakenAsPressed` and
  `PressLossBounded`.
- **PriorityMutex**. `IInv` says that the queues hold exactly the waiting
  goroutines, once, at their priority and in the order of `ahead`, and that the lock
  is held iff somebody holds it. `NobodyStranded` and `OrderlyHandOver` need
  `Priorities \subseteq Levels`; the run `priority_mutex_eleven` shows why. Mutual
  exclusion does not.
- **RadioKeepalive**. A request is in one place at a time (`PlaceInv`), and while
  nothing has failed all but the current one are answered (`AnsweredInv`). The bound
  on the backlog and on confirmed rounds is by counting. The steps of the loop of
  `Send` leave the exchange as it is or end the round with a failed `Send` (`IdleFacts`).

- **Realtime** (`RealtimeAssumption`). `IInv` says that a locked thread belongs to
  one goroutine (`LockInv`) and that what a goroutine has saved, applied to its
  thread, gives back an untouched one (`ThreadInv`); `GateInv` and `LenientInv`
  carry what the start has decided. `StrictGate`, `CleanPool`, `StrictControls` and
  `LenientStarts` follow.

- **The losses of CommandDelivery** (`BoundedLoss`). A poll that fails may cost its
  command at once, when the reply was on its way, or later, when it leaves a handler
  behind that takes one for nobody. `LossInv` counts both: commands wasted plus
  handlers left behind are at most the polls that failed, plus one that was cut off
  and has not failed yet (`CutOff`), plus a queue for every restart of the base. Each
  step but a restart adds at most one to the left side, and only with one on the right,
  or exchanges a handler for a command; a restart wastes what the queue held and the
  reply of the poll that it cuts off, and leaves no handler.
- **LoRaFraming** (`FramingAssumption`). All of it is about one stream: what is in
  the buffer from `receiveStart` on, followed by the line. Reading and compacting
  leave the stream as it is, and the search only takes bytes from its head. `LineInv`
  says that its bytes are in order, as they were sent, and none missing but the lost;
  `FramesInv` that what was returned looks like a frame and lies before it;
  `AlignedInv` that with nothing lost its head is the first byte of a frame, from which
  `Ordered` and `AllReturned` follow. `NoneMissed` is inductive with these: the
  search can only leave the first byte of an intact frame behind by returning that
  frame or one that began before it. `Room` follows from `BufferInv`: what the
  search leaves is shorter than a header or than the frame that a header announces,
  and so than the buffer.
- **SerialRunner** (`SerialAssumption`). What the properties say depends on lines
  that are still on their way. `ModeInv` says which those may be, `LastInv` that the
  one with an effect is typed once and nothing but the clean-up after it, and
  `ExitInv` what the status the host waits for then means: `Atomic`,
  `HonestSuccess` and `RunsOnce` follow. `Undone` needs the order of the lines as
  well: `ShellInv` says that the shell is there before anything is entered,
  `OrderInv` that header, data, delimiter, last line and clean-up are read in this
  order by whom they are meant for, and `UndoInv` that whatever has been begun is
  still going to be undone, by a line on its way or one that the host is to type.
  The last two are claimed as long as no write has failed but those of the data,
  which is what the code guards.
- **ControlLoops** (`LoopsAssumption`). The part about the lock is the theorem about
  `PriorityMutex`, for the algorithms as its threads and the index plus one as their
  priority, which satisfies `PrioAssumption`; the rest relates each loop to its place
  in the lock. That no two algorithms offer a task follows from `MutualExclusion`.
- **DeviceReport** (`ReportAssumption`: the configuration and the lines have the types
  of `internal/config`, and all lines are of one chip; nothing is assumed of the table
  of pins, of which pins are configured, of whether the radio's lines exist, or of how
  many there are). `PreflightInv` ties the statuses to
  the pins that they are about, without which `MetadataOnly` could not name the pin
  behind a request; `HoldsInv` says what the process holds at each point of the start;
  `CollectInv` says of a report that is being collected what `Accounts` says of a
  finished one, for the part that has been read. It says nothing of a report for which
  no chip was listed.

- **ControllerSource** (`SourceAssumption`: what the pad reports are events of
  `PadEvents`, in any number and with any value). `OfferInv` follows the events by
  their places: what was offered has increasing places of events with an action, what
  is in hand is the last event read and newer than all of these, and every event with
  an action is offered, in hand, or one of those that went with a base, which are no
  more than its restarts. `DeviceInv` ties the open device and the event in hand to
  where the reader is. Both are inductive as they stand (`SourceInvariance`).
- **CommandPath**. `Composition` says that a behaviour of the whole is one of each part,
  so that every theorem about a part, the refinement of `CommandChannel` among them,
  holds of the whole. `JointInv` is what the parts have in common: command `n` is the
  `n`-th event offered, both count the same restarts, and a base that can be reached
  accepts connections. `EndToEndOrder` then joins the order of the commands taken with
  that of the places offered. For `EndToEndLoss` the events that are lost are those
  of commands wasted, which `LossInv` bounds, and those forgotten with a base, at most
  one for each restart.

`BoundedBacklog`, `LoggedConfirmations`, `BoundedLoss` and `EndToEndLoss` count with the library's
theorems about finite sets.

Only model-checked:

- The liveness properties (`DeliveredWhileLinkGood`, `HandlersEnd`, `BestServed`,
  `RoundEnds`, `StartupDecides`, `HostEnds`, `NothingHangs`, `SourceRecovers`), which
  are out of the prover's reach.
- The two statements that runs refute (see the findings).

## Findings

1. `PriorityMutex.Unlock` scans levels 1 to 10 (`control/main.go:49`); priorities are
   indices of an unbounded list plus one. From the eleventh control algorithm on, a
   waiter may block for ever.
2. `README.md:376` calls the debug_log in the base's log a causal proof that the drone
   decoded the pong before it. `RadioTransport.Send` takes the first frame that
   arrives for its answer, so one answer that comes after the 2 s deadline shifts all
   later ones: the debug_log then confirms an earlier pong. The shift persists: with
   one late answer every confirmation reads the next pong and fails although the
   link is good; with two, rounds are confirmed by the answers to the one before.

## Not modelled

- The configuration and the environment files: parsing by libraries, no state after
  the start. The realtime settings, which have rules of their own, are in `Realtime`.
- `AutoTransport`: no entry point uses it, and it keeps no state.
- The serial tool's list, loopback, wait and console modes: they change nothing on
  the target and are I/O between two streams.
- The stubs of sensors, motors and camera beyond the parameters that they take.
- Bytes of the radio that are changed, as opposed to lost: the module's CRC drops
  damaged packets, and a UART overruns by losing.
- The contents of a device report beyond lines, use, state and errors.
- The shell scripts, which drive compilers, partition tools and containers.

## Plan

What is modelled is checked, and every safety property that holds is proved. What
could come next:

1. Liveness from the pad to the drone, which needs the fairness of both parts and a
   smaller instance than `command_path` for TLC to finish.
2. The serial tool's other modes and `AutoTransport`, once an entry point uses it.
