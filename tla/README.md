# A verification project for EBusFSM

EBusFSM (`src/`) is a C++ library that makes a program a participant of an
eBus: a serial bus of masters and slaves at 2400 baud, on which a master that
wants to send waits for a SYN byte, arbitrates with its address, sends a
telegram and is acknowledged. This directory holds TLA+ modules of it, the TLC
configurations that check them and TLAPS proofs. Line numbers are those of
`src/src/Ebus.cpp` unless another file is named.

## Inventory

| component | state | operations | interacts with |
|---|---|---|---|
| `EbusImpl`, service thread | `state` of `run()`, `m_sequence`, `m_lock_counter`, `m_activeMessage`, `m_passiveMessage`, `m_open_counter` | `run()` and ten handlers, `reset()`, `handleDeviceError()` (495-1106) | Device (bytes, exceptions), NQueue (takes messages), Message (answers them), Telegram/Sequence (data), callbacks |
| `EbusImpl`, application side | `m_running`, `m_online`, `m_close`, `EbusImpl`'s Notify | `open()`, `close()`, `online()`, `transmit()`, destructor (322-461) | the service thread, through these variables and the queue only |
| `Message` | `m_state`, its Notify, a reference to the caller's Telegram (82-92) | created by `transmit()`, answered by `reset()` | shared by a caller and the service |
| `Notify` (`Notify.h`) | mutex, condition variable, `m_notify` | `wait()`, `notify()` | |
| `NQueue` (`NQueue.h`) | a queue under a mutex | `enqueue()`, `dequeue()`, `size()` | |
| `Device` (`Device.cpp`) | `m_open`, `m_fd`, terminal settings | `open()`, `close()`, `isOpen()`, `send()`, `recv()` | the serial device; throws `runtime_warning` (timeout, EOF) or `runtime_error` |
| `Telegram` (`Telegram.cpp`) | master and slave part, CRC, acknowledge bytes, two states | `parse()`, `createMaster()`, `createSlave()`, address classes | Sequence |
| `Sequence` (`Sequence.cpp`) | bytes, `m_extended` | `extend()`, `reduce()`, `crc()`, `range()` | |
| configuration, logging, callbacks | plain members | `set_*`, `register_*`, `log*` | the application |

What is hard here, and what makes each component correct:

* **The service thread and its callers.** Any number of threads block in
  `transmit()` without a timeout; one thread answers them while handlers fail,
  retry, lose arbitrations, answer other nodes, and while another thread
  closes, opens or destroys the service. Correct means: every call is answered
  once, in order, with the truth about its telegram, and in the end; no handler
  runs without the message it dereferences; nothing is sent twice; the bus is
  left alone for `m_lock_counter_max` SYN bytes after an access.
* **The life cycle.** `open()` and `close()` are two flags read at two places.
  Correct means: `close()` closes and stays closed, `open()` opens, the
  destructor returns, `online()` tells the truth.
* **Notify and NQueue.** A notification is not lost and not invented, no thread
  waits on the empty queue, and no Message or Telegram is used after its end,
  between any two critical sections of any two threads.
* **Device.** Any system call may find the device gone, or back. The descriptor
  is closed once and is the object's own, the terminal gets its settings back,
  and a device that comes back is opened again.
* **Telegram and Sequence.** What `extend()` and `crc()` make of a part is what
  `reduce()` and the comparison of the CRC accept; `parse()` accepts what two
  nodes exchange.
* **The bus.** One master sends at a time, ties of an arbitration are broken, and
  no node waits for a bus that nobody uses. Two nodes and a listener agree on
  whether a telegram was delivered, through negative acknowledges.

The hazards of the code, each with its line and the properties that would show
it, are listed in `PROJECT.json`.

## Modules

* `Ebus` - the service thread, the calls of `transmit()` and the life cycle
  calls: variables, actions, properties. The core of the project.
* `EbusInv` - the inductive invariants of `Ebus`, which TLC checks and the
  proofs use.
* `TransmitQueue` - the abstract specification: what callers of `transmit()`
  are promised (a call is refused, or queued and served in order; the head
  leaves with its answer).
* `EbusQueue` - `Ebus` implements `TransmitQueue`: pending is the active
  message followed by the queue, a call is answered when `reset()` notifies it.
* `MCEbus` - the instances of `Ebus` for TLC; each `MCEbus*.cfg` is a run.
* `ByteSequence` - the class Sequence: escaping and the CRC, on real bytes, as
  recursive functions of byte sequences. The CRC table is computed from the
  polynomial the code names.
* `Telegram` - the class Telegram: `createMaster()`, `createSlave()`,
  `parse()`, `isValid()`, as operators from one object to the next.
* `Delivery` - abstract: what one telegram amounts to for the node that sends it
  and the one it is addressed to, without the bytes: accepted at most once,
  answered at most once, and not after `transmit()` has returned; and what is left
  of that when one of the two nodes is deceived by the SYN behind the telegram.
* `Exchange` - one telegram on a bus with noise, between the node that sends it,
  the one it is addressed to and one that listens. It implements `Delivery`:
  the parts are the bytes `reduce()` makes of the two Telegram objects.
* `MCExchange` - the instances of `Exchange` for TLC; an assumption holds the
  operators of `Telegram` against the telegrams of `src/test/test_telegram.cpp`,
  another holds the messages against what the theorems suppose of them, a third
  (`SynTakenForCrc`) shows a part and a response that are accepted changed.
* `Arbitration` - several masters that run this code on one bus: lock counters,
  lost arbitrations, and what the losers make of the winner's telegram.
  `MCArbitration` is its instance.
* `Handoff` - how a call is handed to the service and answered, one critical
  section of `Notify`, `NQueue` and the `shared_ptr`s a step. `MCHandoff` is its
  instance. It implements `NotifyFlag`, what `Ebus` takes a Notify object for,
  and, like `Ebus`, `TransmitQueue`.
* `Device` - the class Device, one system call a step, with a device that comes
  and goes.
* `EbusProofs` - type correctness, no null dereference, the lock counter,
  `m_online` and the open device.
* `EbusCallProofs` - the theorems about calls.
* `EbusQueueProofs` - that `Ebus` implements `TransmitQueue`, and what
  `SEQ_OK` means.
* `ArbitrationProofs`, `DeviceProofs` - the theorems of these modules.
* `HandoffProofs` - the theorems of `Handoff`: those that hold with spurious
  wakeups too, those that do not, and the refinement.
* `SequenceProofs` - what escaping and the CRC promise, for all bytes.
* `ExchangeProofs` - the theorems of `Exchange`, over those of `SequenceProofs`,
  and that it implements `Delivery`.

`Ebus` is the whole service with everything around it left to the environment;
each of the other models opens up one side of it: `Handoff` the application
and the synchronisation, `Device` the adapter, `Exchange` the bytes,
`Arbitration` the rivals.

### How Ebus corresponds to the code

One handler is one action, or one action per outcome (`SendDone`, `SendAcked`,
`SendRefused`, `SendFails` are `sendMessage()`); a handler that retries
takes one action per attempt, `retry` being its loop variable. This is
sound because a handler touches what other threads see (the queue, the Notify
objects, `m_online`, `m_close`) at one point only, its end: `reset()` as its
last statement, `m_online` at the end of `openDevice()`, the queue in
`monitorBus()`, of which this thread is the only consumer. Only
`idleSystem()` touches several, and is cut at each: `IdleSystem`, `GoOffline`,
`ClearClose`, then `IdleBlock`/`IdlePass`/`IdleWake` for its `wait()`. The
two stores between them are plain members with no call between them; the
compiler may exchange them, and the model makes them in either order. The other
unsynchronised accesses have a call into another translation unit on either
side and are taken as atomic; `m_close` and `m_running`, which `Loop` reads in
one step, give the same results read in two.

`pc` says where the thread is: about to run the handler of `state`
("handler"), back in `run()` before it tests `m_close` ("loop"), in the flush
loop of `openDevice()`, in `idleSystem()`, stopped, or dead ("crashed", the
null pointer of line 710). `IOFails(error)` is the exception of a read
or a write in any handler: `runtime_warning` (`error = FALSE`) or
`runtime_error`.

A call is "new", "checked" (it found the device online and is about to enqueue:
the gap is the point), "waiting", "returned". `m_state[c]`,
`notified[c]` are its Message's members. Three variables are history:
`delivered` (the protocol of a telegram was completed: a broadcast sent, a
master telegram acknowledged, a response received and acknowledged), `quiet`
(SYN bytes since this node freed the bus), `wanted` (the last life cycle call
was `open()`). No guard reads them.

Data is abstracted to what handlers branch on. `m_sequence` is its size, with
`SeqCap = 3` for anything longer (the code asks for 1 and 2); whether a byte
is an address of this node, whether a telegram is valid, what an acknowledge
byte says, whether an arbitration is won is chosen by the environment.

### How Exchange corresponds to the code

`Ebus` leaves the bytes out, `Exchange` is about nothing else: it follows one
telegram from the arbitration its sender wins to the SYN behind it. A step puts
one part on the bus (a master part, an acknowledge byte, a response), so that
`MasterReceived` is the loop body of `sendMessage()` up to the read of the
acknowledge together with `receiveMessage()`, `SlaveAnswers` is the acknowledge
with `processMessage()`, `ResponseReceived` and `MasterAnswers` are the loop
bodies of `receiveResponse()` and `sendResponse()`. `phase` is the part that
comes next. Parts are one step because the nodes take turns: nobody else writes
between two SYN.

Noise changes one byte of a part, for everybody or only for the node that has to
answer. It does not turn an acknowledge into the opposite one (eight bits
differ). Outcomes in which a reader stops at a wrong size byte and answers while
the part is still being sent (`Early`), or answers a broadcast whose address was
disturbed, are left out: what is on the bus then is a collision.
Reads end as the code's loops do: `Complete` is `bytes++` for an expand byte.

Acknowledge bytes are awaited for 10 ms (959, 857), all other bytes for a second
(701, 725, 738, 1011, 1031). The generator writes a SYN on a silent bus after some
40 ms, so that the first kind of read times out (`SendMessage`: the sender ends
with `EBUS_ERR_DEVICE`), while the second kind reads the SYN. `GeneratorSyn` is that
SYN ("silent" is the bus before it), `FreeBus` the one that ends a telegram, and
`Syn` is what both do: a sender that waits for a response takes it for a size
byte, which is too large (1014); a reader in the middle of a part, because noise has
made its size byte or an expand byte ask for more, appends it. The second case is
phase "late": the reader goes on alone (`LateSyn`) until it has what it
waits for, and then does what it would have done in time (`MasterLate`,
`ResponseLate`). `deceived` is history and names this reader. The listener is
followed up to the first SYN, and nobody begins a telegram of his own before the late
reader is done; what it writes is read by nobody.

`sendResponse()` uses a reference to an object of `processMessage()` that is gone
(814); both models have it send what it is meant to send.

### How Arbitration corresponds to the code

The bus is in step, and so is the model: `Syn` is the SYN branch of
`monitorBus()` (646-675) in every node that reads the SYN, `Arbitrate` is
`lockBus()` in all that write an address together and the byte branch of
`monitorBus()` in the others, `Telegram` is `sendMessage()` to `freeBus()` in
the winner and what `monitorBus()` and the passive handlers do in the others. The wire
carries the conjunction of the bytes written together; the nibbles of master
addresses are nested, so that it is the minimum of each nibble, which is why
addresses are records of a class and a sub-address. The winner's telegram
is its target and its first command byte: `monitorBus()` looks at the second
byte it has stored, which is the one or, in a node that has lost the
arbitration (911), the other. Telegrams are without noise, and who receives
one is done when it ends: so is a loser that is misled, which in the code reads as many bytes
as it takes for the size, over SYN bytes too, and may answer in a later telegram
or arbitration (what `TieIsBroken` and `OneSender` do not cover). `freed` is the node that has written the last SYN itself,
in `freeBus()`, and does not hear it in `monitorBus()`.
`tied`, `lost` and `heard` are history.

### How Handoff corresponds to the code

A critical section is one step, possible while its mutex is free; only
`notify()` keeps the mutex for a step of its own (`NotifyUnlock`), because the
thread it wakes wants this mutex, takes its answer and drops its reference to
the object at once. `asleep` are the threads that are in
`m_condition.wait()` and not woken. `refs` is who holds a `shared_ptr` to a Message: the
caller, the queue, the service. `reset()` is `publish()`, `notify()` and the
assignment of `nullptr`, in the order of `ResetOrder`; the handlers before it
are `Send`, whatever they answer. The destructor is `Destroy`, `notify()`,
`Join` and the loop that empties the queue (322-340).

### How Device corresponds to the code

`pc` is the system call that comes next: `open()` is `Open`,
`IsTerminal`/`NoTerminal`, `Tcgetattr`, `Tcsetattr`; `close()` is `Close(there)`,
`Restore`, `Shut`; `send()` and `recv()` are `Valid`/`Invalid`, the calls "write",
"ppoll" and "read" and what comes of them. A runtime_error
leads through `handleDeviceError()`, that is `Close("openDevice")`; a warning
leaves the device open. A path names a file, nothing, or the line; each plugging in is another
line, so that an old descriptor does not refer to it. Other threads of the process
open and close a descriptor of their own, always the lowest that is unused.

### What is assumed

* User callbacks return, do not throw and do not call back into the service.
* A call of `transmit()` that has not yet enqueued forbids the application to
  destroy the object (`DtorClose`), as C++ does; one that waits does not touch
  the object any more.
* `Device::open()` returns with the device open or throws (`Device.cpp:48`), so
  lines 610-619 are unreachable and `m_open_counter` is no variable.
* `EBUS_ERR_MASTER` is never returned: `createMaster()` has refused the
  message of a node without a master address before line 443 is reached.
* `m_lock_counter_max` does not change and is not negative; in `Arbitration` it
  is at least 2 (the documented range is 5 to 25): with 1 the losers of
  another class are back in the second round.
* In `Handoff` the application starts no call and no `open()` on an object it is
  destroying.
* In `Device`, `ioctl()`, `ppoll()` and `read()` fail, or report the end of file, on
  a line that is gone, and on no other.

## Runs

Constants of `Ebus`: `Calls` and their telegram types, `LockCounterMax`, which
life cycle calls are made (`UserOps`), what other nodes do (`Traffic`: plain bytes,
telegrams addressed to this node, rivals that win arbitrations), whether
opening the device may succeed or fail (`OpenResults`), and whether `wait()` may
return unnotified (`SpuriousWakeups`, off in every run).

| run | configuration | what it shows |
|---|---|---|
| `all` | 2 calls, everything at once, `LockCounterMax = 3`; 854,430 states | all safety properties of `Ebus`, and the service implements `TransmitQueue!Spec` |
| `alone` | 3 calls of the 3 types, no `close()`, no telegrams to this node, failures and rivals | the service implements `TransmitQueue!PromisedSpec`; `SEQ_OK` means delivered; no deadlock |
| `calls_return` | 2 calls, all traffic, failures | every queued call returns once other nodes fall silent |
| `lifecycle` | 1 call, `open()`, `close()` and the destructor at any time | `close()` closes the device; nothing but `open()` wakes an idle service; the destructor returns |
| `noise` | telegrams of the 3 types with and without escaped bytes, `MaxNoise = 3` | `Exchange` implements `Delivery!Spec`: nothing is accepted twice, and nothing late or changed but by one node that takes a SYN for the rest of a part, which happens in it; a listener publishes what was said and nothing else; 171,665 states |
| `arbitration` | 3 masters, `LockCounterMax = 3`; 35,902 states | one sends at a time, ties are broken in the next round, the first class is served, somebody always sends |
| `handoff` | 2 calls, a thread that calls `open()` for ever, the destructor; 90,818 states | no lost notification, no use after free, Notify is a flag, calls are served in order |
| `device` | a device plugged in twice, a file in its place, another thread's descriptor; 30,029 states | settings restored, no descriptor of others used, a device that is back is opened |
| `ok_after_response`, `crash`, `raw_syn`, `lost_shift` | expected violations | see Findings |

The bounds. Two calls are enough for every interleaving of an active and a
queued message, a third adds the third type and a queue of two behind an
active message. `LockCounterMax = 3` is the smallest value at which the value
2 of line 664, the value 1 of line 920 and the full wait differ; the liveness
runs use 1, where the counter only costs steps. `open()` and `close()` are not
bounded at all: they set flags. In `noise` three disturbed parts are one for
each attempt of a retry loop and one more, for the acknowledge between them or
for the response behind them. The messages have an escaped
SYN, an escaped expand byte, a part without data and parts with and without CRC;
the bytes noise puts in are an acknowledge, its opposite, an address, the size
byte, and the expand byte that changes how many bytes a reader waits for. Size bytes
that are raised by one, and by more, are among the outcomes, so that readers that
take one SYN or several for bytes of a part occur on both sides, and such parts are accepted.
The three masters of `arbitration` are 0x10, 0x01 and 0x11: the first two together
make 0x00 on the wire, nobody's address; the second and the third are of one
class, so that 0x01 wins and 0x11 keeps its place with a counter of 1. Each
submits messages without a bound. With `LockCounterMax = 3` the
counters 1 (920), 2 (664) and the full wait all differ. In `handoff` one call
can be active while another is queued, and an opener notifies the object the
service waits on and the destructor notifies; more threads add only more
notifications of the same objects. In `device` one unplugging falls between any two
calls of an open device and the other meets its successor; the two unpluggings leave at most two
descriptors behind, another thread holds one, so that `Descriptors = 4` leaves
one for the device.

Deadlock is checked in `alone`, `noise`, `arbitration`, `raw_syn` and
`lost_shift`; in the others the system may stop (the process dies, the
destructor is done, or the adapter is gone for good).

### Fairness

`FairSpec` assumes that the service thread keeps running (`WF` of `Run`), that
a caller about to enqueue or notified goes on, that a destructor goes on; that a
device which is opened again and again opens in the end, and that a bus listened
to again and again carries a SYN in the end (`SF` of `OpenDevice`, `FlushSyn`,
`MonitorSyn`): an eBus always has a SYN generator. Nothing is assumed of the
application, which need not open, close or destroy anything. Reads of echoed
bytes are made without a timeout (`write_read(..., 0, 0)`), so that `WF` of
`Run` also assumes an adapter that echoes. `CallsReturn` in addition assumes in
its own statement that other nodes fall silent (`QuietBus`): traffic can starve
a node for ever, line 664 raising the counter each time.

`Arbitration` assumes `WF` of `Bus`: the generator's SYN comes, and a node that
has won sends. Nobody has to submit anything. `Handoff` assumes that each
thread that can take a step does, and `SF` of `Wait(Service)`: threads that call
`open()` for ever contend for the mutex the service needs to wake up. The C++
standard does not promise that it gets it; their critical sections are
two assignments, and every scheduler lets it in at some time. `Device` assumes that
the thread goes on, but not that a byte ever comes (`ReadByte`), nor that an
idle service is used again; `Reopened` says in its own statement that the device stays.

### Findings

Four runs end in a counterexample to what the repository says of itself; the
quotations are in `PROJECT.json`.

* `ok_after_response`: `sendResponse()` ends with `reset()`, which also
  notifies an active message that is waiting for its turn. Its `m_state` is 0 and
  `transmit()` returns SEQ_OK for a telegram never sent. `idleSystem()` does the
  same to a message that `close()` cuts off. The theorem `AbandonedOnly` says that
  these two handlers are the only ones.
* `crash`: `receiveMessage()` dereferences `m_activeMessage` for a foreign
  telegram with a wrong size byte (line 710).
* `raw_syn`: a part passed without CRC is sent unescaped. A SYN in it disappears
  in the reader's `reduce()`, the CRC byte behind it becomes 0xa9 and what is left
  is taken for a part without CRC: the addressee accepts other data than was
  sent. Noise that turns a byte into SYN disables the comparison of the CRC in
  the same way, which is why `noise` has no such noise. A CRC that equals 0xa9 or
  0xaa is sent unescaped too. So can noise that turns PB or SB into 0xa9: `reduce()`
  drops it, the next byte becomes the size byte, and if it happens to fit, the
  rest is taken for a part without CRC (0x10 0x08 0x07 0x02 0x01 0x01 is such a
  message). The theorems exclude it by name, `ShiftRefused`.
* `lost_shift`: the byte that wins an arbitration is not stored by the nodes that
  lose it (911). They read the winner's telegram shifted by one byte: an addressee
  among them does not answer, and a node may answer a telegram whose first command byte
  is its address. `TakenByAddressee` says that nobody else errs.

Not made a run:

* A timeout in the flush of `openDevice()` leads to `MonitorBus` with `m_online`
  false, and nothing sets it before an error brings the service to `openDevice()`
  again: the bus is worked on while `transmit()` refuses every call. `OfflineOnlyByFlush` says that it comes about in no
  other way. Conversely `m_online` stays true when an error has closed the device
  (1087-1106).
* `Notify::wait()` does not clear a flag that is already set (`Notify.h:40`), so
  one `open()` on an open device makes the next `close()` reopen it, and, as the flag
  stays set, every later one. `StaysClosed` is about a service that is
  asleep, and excepts one on its way into `wait()`. For the same reason the destructor,
  which polls `m_online`, may miss its moment: `DestructorReturns` excepts a
  notification that is already there.
* A reader that waits for more bytes than are sent accepts late and changed data. The
  second it waits for a byte (701-743, 1010-1036) is longer than the bus is silent: if
  noise raises a size byte by one, the reader takes the CRC for data and the
  generator's SYN for the CRC, `reduce()` drops the SYN, and what remains has the length of
  a part without CRC, which `createMaster()` and `createSlave()` accept
  (`Telegram.cpp:283, 343`) without comparing anything. The addressee then handles and acknowledges
  another message after `transmit()` has returned `EBUS_ERR_DEVICE`; on the other side
  `transmit()` returns SEQ_OK with a response nobody gave. `SynTakenForCrc` of
  `MCExchange` has a part and a response that are accepted so; in `noise` both happen,
  and `Delivery` says what is still promised: the actions whose names contain
  `Deceive`.
* Calls that are queued when the service goes idle do not return until somebody opens
  it again: `CallsReturn` is checked without `close()` and does not speak of them (595).
* `parse()` expects an acknowledge byte before a repeated response, and the nodes
  exchange none. A listener does not publish such a telegram.
* A node that is not of the first priority class may never be served: two
  others with messages without end keep it out, as the documented priorities
  have it. `FirstClassServed` promises what holds; a message dropped by the `reset()` of a
  telegram the node answers (`ok_after_response`) counts as served there.
* A descriptor is left open when `isatty()` fails (`Device.cpp:47-48`), and
  `openDevice()` tries again at once: a path that names no terminal uses up the
  descriptors of the process. `Reopened` therefore excepts a path that names a
  file again and again; `HeldOnce` says that what is left behind is never a terminal
  that is there.
* `write_read()` waits for the echo without a timeout (491): an adapter that
  swallows a byte stops the service, `close()` and the destructor.
* `register_publish()` and `register_rawdata()` extend vectors over which the
  service thread, which runs since the constructor, iterates (387).
* `reset()` publishes failed telegrams too (504, against `Ebus.h:143`), and a
  spurious wakeup is taken for a notification (`Notify.h:42`); with
  `SpuriousWakeups = TRUE` the models show `transmit()` returning SEQ_OK for a
  queued message, whose Telegram the service then uses after the end of its
  scope (`TelegramAlive`); the Message itself stays alive (`MessageAlive`).
* The limit on opening attempts is unreachable (610-619): `Device::open()` throws.
* `close()` on an idle service stays pending and closes what the next `open()`
  opened (570, 593). `CloseTakesEffect` asks that a `close()` is obeyed, and does not
  exclude that it is obeyed too late.
* A telegram to a master counts as valid, and is published, whatever became of
  its acknowledge (`Telegram.cpp:427`): `PublishedIsTrue` says so.
* A part without data is refused unless it has its CRC (`Telegram.cpp:239, 314`).
* A listener that has heard the first copy of a repeated part disturbed gives up
  (`Telegram.cpp:59`): `DeliveredIsPublished` asks for what it heard to be exact.

## Proofs

The proofs are of the whole `Spec` of a module, for arbitrary constants under its
assumption (`EbusAssumption`, `ArbitrationAssumption`, `HandoffAssumption`,
`DeviceAssumption`, `ExchangeAssumption`): any set of calls, threads or masters, any lock counters,
any traffic. Each theorem about a `Spec` follows from an inductive invariant with one lemma per action or
group of actions; the properties alone are not inductive.

1. `Ebus`. `TypeCorrect`: `TypeOK` is inductive.
   `NeverNull` and `LockDisciplined` follow from `Held`, that is `MessagesHeld`
   (the states that need a message have one, between handlers too, and the
   states outside a telegram have none) and `LockCount` (`m_lock_counter +
   quiet >= LockCounterMax`, with equality of `quiet` in `LockBus`): it must be
   known why the counter can be trusted after a lost arbitration set it to 1.
   `HeldKept` and `HeldReset` say once what a step that resets or only
   moves on does; the actions cite them.
2. `CallsAccounted`, `NeverResent`, `DeliveriesReported` and `AbandonedOnly`
   follow from `CallInv`, the conjunction of `QueuedOnce`, `PendingWait`,
   `Decided` and `Reported`: a message that has failed or was delivered is
   answered, or is the active one about to free the bus. They assume
   `~SpuriousWakeups`, without which they are false. The invariant is `IInv`, which
   the run `all` checks.
3. `IOOnOpen` and `OfflineByFlush` need `OpenInv`: the device is open in the flush
   loop and in every state but the two outside the bus, whichever handler is next.
   `ClosedStays` (a service that is asleep with its device closed stays so until a
   call) needs `AsleepInv`: a flag that is set while the thread sleeps comes from an
   `open()` that no `close()` has followed, or from the destructor, which has stopped the
   thread. It assumes `~SpuriousWakeups`.
4. `QueueServed`: every step of `Ebus` is a step of `TransmitQueue` or a stutter,
   under `QInv` (`IInv` and `EndInv`: what the destructor leaves, and which answers
   there are), again with `~SpuriousWakeups`. A step of the thread either keeps
   the pending calls, answers the head, fetches a message or drops them all; each
   kind is mapped once. `PromiseKept` and `OkIsDelivered` assume `Alone` (no spurious
   wakeups, neither "close" nor "destroy" in `UserOps`, no "addressed" in
   `Traffic`), from which `AloneInv` derives that `idleSystem()` and the passive
   handlers are never reached.
5. `Arbitration`. `ArbInv` adds to the properties `Turns` (who may be in which
   state in which phase), `Stored` (a node that did not take part in the arbitration
   has stored one byte when the telegram follows) and `Tie`: after an
   arbitration nobody has won, each loser of the winning class has the counter
   1, every other loser at least 2, and all others one byte in `m_sequence`, which
   gives them 2 as well. `TiesBroken` rests on that: the next round is among nodes of one
   class, whose smallest sub-address is on the wire.
6. `Device`. `DInv`: where the thread is tells whether the device is open
   (`Holding`), a line that is plugged in is new to every descriptor
   (`LinesPast`), and what `close()` will restore was saved from this line, if
   it is still there (`Saved`).
7. `Handoff`. `HInv`: a mutex has the holder that is in its `notify()`, the queue has one
   consumer, which has seen that it is not empty, and the service holds what it serves.
   From it follow `HandoffTyped`, `NothingStarves` and `MessagesAlive`, with
   spurious wakeups too. With `~SpuriousWakeups`, `WInv` adds that a caller
   nobody has notified is in `wait()` and that each message is queued and served once;
   `TelegramsAlive` and the refinement `HandoffImplements` follow. `NotifyFlagged` is
   that each message's `Notify` is a step of the specification `NotifyFlag!Spec`; it rests
   on `FlagInv`: whoever has been woken has been notified.
8. `Sequence`. The operators are recursive functions of sequences. `SequenceProofs`
   first proves that the definitions define them, and an induction over the
   length of a sequence, from the least element of a set of naturals.
   `ReduceUndoesExtend` is the round trip. `CrcShowsChange`: the table is a
   permutation of the bytes (`crc_table` is injective because a shift is, and
   `Xor` with a fixed byte is), so that sequences that differ in one
   byte never meet again. `NoiseSeen` puts both together: one changed byte of
   an escape sequence changes one byte of what `reduce()` returns.
9. `Exchange`. `ExchangeTyped` needs the types of everything `Telegram` returns.
   `NoisyRead` is what a reader has that stops where its own size byte
   tells it: the part, or one whose CRC differs. It splits on where the changed byte
   is (before the size byte, the size byte, data, an escape sequence, the CRC) and
   counts escape sequences (`size`). `OnlySentAccepted` rests on `AcceptedInv`: in every
   phase the sender's object still holds the part it was given, the addressee's
   `m_sequence` is what the next attempt leaves out, and an accepted part is the
   one that was sent (`MasterReadsSent`, `SlaveReadsSent`). `LateInv` says who may
   be reading on when: the addressee once the sender knows its result, the sender
   for a response to what the addressee has accepted, never both. The readers that
   took a SYN for a byte are excepted, as the code lets them accept anything.
   `NoFailureWithoutNoise` rests on `QuietInv`: without noise each part is
   accepted at the first attempt.
10. `ExchangeDelivers` maps every step to one of
    `Delivery`, or a stutter, for each node by itself: the sender asks (`Lock`), waits,
    fails or succeeds, the addressee waits, accepts or responds. It rests on `OnceInv`:
    while a master part is to be sent nothing has been accepted, while its acknowledge
    is to come nothing has been responded, while a response is on the bus there is
    one, and all that time the result is not known; who reads on has not accepted yet, and
    a sender that does has been answered. The sender repeats an accepted part only
    if it reads a refusal, and noise never makes one acknowledge byte of the
    other. The run `noise` checks `DeliversOnce`, which contains `AcceptedIsSent`.
11. `DeliveryPublished` is about the third node, which
    parses all parts at once. `ListenInv` says what it holds in every phase, if it
    heard each part as it was sent: the bytes up to here, with a refused master
    part in them twice (`Told`). `ToldValid` follows `parse()` through them: reducing
    the whole is reducing each part (`CatReduced`), because no part ends in an expand byte,
    so each part is found at its own offset, takes what its size byte says and
    agrees with its CRC (`MasterParsedHere`, `ACKParsedHere`, `AnswerFits`), after a negative
    acknowledge once more (`AgainParsed`). A repeated response is excluded: there `parse()`
    skips a byte that the nodes do not send.
    `OnlySaidPublished` is the converse, for
    all exchanges and not only those that succeed: what `parse()` makes of any
    beginning of a telegram that may be all there is (the addressee is silent, refuses twice,
    does not respond, its response is refused or not acknowledged). `TrueInv` says which
    beginnings there are when the SYN comes, and that an acknowledged response is the one
    that `transmit()` returns (`HeardOf`). `HeardTells` follows `parse()` through
    them: each one is not valid, or valid with the master part that was sent and an
    acknowledged response (`Tells`; `OnceTold`, `AgainTold` for the two forms of the
    master part, `UnheardLeads`, `AnsweredLeads` for the response).

The theorems of `Exchange` from `OnlySentAccepted` on assume `CleanExchange`: the messages and
responses are sent as the bus wants them (`Clean`: escaped, no raw marker in
the header or as CRC), a shifted part is refused (`ShiftRefused`), the addressee is a
master and noise makes no SYN. These are the conditions under which the code
keeps the promise: without the first, `raw_syn` is the counterexample. The
assumption `GoodParts` of `MCExchange` evaluates them for the messages of `noise`.

Only model-checked: the rest of `PublishedIsTrue`. `OnlySaidPublished` proves it for a
listener that has heard each part as it was sent and no repeated response. Otherwise
`parse()` compares a CRC at a position that depends on a disturbed size byte,
or takes the size byte of the repetition for the acknowledge and its second byte for the
size: whether that shows depends on the bytes of the messages, and nothing in
`CleanExchange` excludes ones where it does not. And everything temporal under
fairness, which is out of the prover's reach: `CallsReturn`, the life cycle,
`SomebodySends`, `FirstClassServed`, `NotifiedReturns`, `Reopened` and the fairness of
`NotifyIsFlag` (its steps are proved, `NotifyFlagged`).

## Not modelled, and the plan

Not modelled: logging, formatting, configuration setters and the registration of
callbacks (one assignment each), example and test programs, build files. Of the
modelled parts these are left out: `EBUS_ERR_MASTER` and the limit on opening
attempts, which cannot be reached, and the effects of callbacks, which are choices
of the environment.

Left for later:

1. Collisions on a shared bus: the answer of a late reader, of a loser that was misled
   (`Arbitration`) and reads on over SYN bytes, or to a telegram whose address was
   disturbed, that meets another node's bytes. It needs `Exchange` with
   `Arbitration`, byte by byte.
2. `set_lock_counter_max()` while the service runs.
