# A TLA+ verification development for spif

spif connects peripherals (event cameras, or programs on the network) to a
SpiNNaker machine through an FPGA. Events enter through *pipes*, become multicast
packets, and cross a high-speed serial link; packets that come back are distilled
into events and delivered in frames. A kernel driver moves the data between memory
and the FPGA, and a daemon, spiffer, feeds the driver from cameras and UDP sockets.

This directory holds TLA+ specifications of those parts, the configurations with
which TLC checks them on small instances, and proofs, checked by TLAPS, that hold
for every value of the constants. `PROJECT.json` lists the runs, the mutants, the
source lines behind each definition, the hazards and the disagreements found.

## How to run

    tlc -config MCPktAssembler.cfg MCPktAssembler.tla
    tlapm PktAssemblerProofs.tla

## 1. Inventory of the system

Data flows `camera / UDP -> spiffer -> driver buffer -> DMA -> packet assembler ->
arbiter -> router -> link -> SpiNNaker`, and back `SpiNNaker -> link -> packet
receiver -> event dispatcher -> DMA -> driver buffer -> spiffer -> UDP client`.

### Hardware (`src/spif_common/src`)

| component | state | operations | interacts with | what is hard | what makes it correct |
|---|---|---|---|---|---|
| packet assembler, one per input pipe | ready, parked event, output packet | per clock: filter, map, accept, park, send | AXI stream of the DMA; arbiter; configuration registers | registered ready learns of back pressure a cycle late; configuration and link may change at any time | two-place FIFO of the mapped keys; held packets stay; the DMA never blocks for good |
| event dispatcher | ready-to-go event, frame credit, two timers, output event | per clock: distil, send, close a frame on credit or tick | packet receiver; DMA; registers | a tick, a slow DMA and the credit meet; no back pressure, so events are dropped | frames bounded and never empty; order kept; losses counted; last event leaves |
| packet router | drop wait counter, packet switch | route by a ternary table, drop after a wait | assemblers, link, register bank | wait counter reloads; counters of dropped and routed packets | first hit decides; each packet is routed or counted as dropped, once |
| packet receiver | packet switch | split peripheral and configuration packets, reply to counter reads, write registers | link, register bank, dispatcher | a reply that is not accepted blocks what is behind it | each configuration packet writes or is answered once |
| register bank | all registers, APB ready, diagnostic counters | APB read and write, packet write, count, soft reset | driver (APB), packet receiver, every other module | APB and packet writes in the same cycle; counting and writing in the same cycle | no write is lost; packet writes have priority |
| link interface | loss-of-sync state, two counters | per clock: acquire, resynchronise, lose | transceiver, spiNNlink (external) | counters compared a cycle late, errors cancelled by good data | sync only after enough good cycles, lost only after enough errors |
| transceiver | watchdog counter and pulse | count cycles without hand-shake, pulse the reset | link interface | pulse racing a late hand-shake | a link that is up is not reset |
| top level | wiring | gate AXI by the hand-shake, count, arbitrate | all of the above | link down while data flows | no deadlock of the AXI streams |

### Software

| component | state | operations | interacts with | what is hard | what makes it correct |
|---|---|---|---|---|---|
| driver, run time (`spif-driver.c:175-445`) | semaphore, `dev_open`, `dma_init`, `outp_ready`, wait queue | open, release, ioctls, interrupt handler | DMA controller; clients | clients racing to open; interrupt against waiter; time-outs and signals | exclusive access; no overlapping transfers; one frame to one call; waiters wake |
| driver, probe and remove (`448-994`) | list of pipes, resources | acquire, release, clean up on error | kernel, interrupts, early opens | an interrupt or an open before initialisation is complete | nothing used before it exists or after it is gone |
| spiffer life cycle (`spiffer.cpp`) | listener threads, device table, two locks, signal flag | survey, start and stop listeners, signals, shutdown | driver, cameras, UDP | signals against call backs against start-up; joins under a lock | one listener per pipe; a survey after each change; shutdown ends |
| spiffer cameras (`spiffer_caer_support.cpp`, `spiffer_meta_support.cpp`) | device handles | discover, listen, shut down | life cycle; driver | disconnection handled inside a listener | the right device is shut down, once |
| spiffer output path (`spiffer.cpp:240-276, 417-475`) | start flag, client address | start, stop, send frames | driver; UDP clients | address read while written | frames go to a client that asked |
| client library (`spif_remote.h`) | file handles | wrappers of the ioctls | driver | | passes lengths in bytes |
| configuration packets (`spif_local.h`, SpiNNaker programs) | none | encode register writes | packet receiver, register bank | | the register meant is the register written |

Not state machines of the project: test benches, board designs, vendor IP, debug
probes, host test clients.

The hazards, each at its line, are in `PROJECT.json` with the properties that would
catch them going wrong. Five have no property and say why.

## 2. Plan

In order of importance. Those marked * exist.

1. `Words`*, `EventMapper`*: filters and mapper on words of any width, `MapperArithmetic`*:
   what the document says of them, on numbers.
2. `PktAssembler`* with `EventFifo`* as its abstract specification, `PktAssemblerProofs`* (of 1 too).
3. `EvtDispatcher`* with `LossyFifo`*, `EvtDispatcherProofs`*.
4. `SpifPipe`*, the run time of the driver, `SpifPipeProofs`*.
5. `Spiffer`*, the life cycle of the daemon, `SpifferProofs`*.
6. `SpifProbe`*, start and end of the driver, `SpifProbeProofs`*.
7. `HsslRegBank`*, `PktReceiver`* and `SpifLocal`*, composed in `ConfigPath`* with the
   host at the other port of the bank, `ConfigPathProofs`*.
8. `PktRouter`*, `RouterAndLinkProofs`*.
9. `HsslLink`*: loss of synchronisation and hand-shake watchdog, proved in the same module.
10. `OutputPath`*: the output threads of the daemon and their UDP clients,
    `OutputPathProofs`*.
11. `InputPath`: two assemblers, the arbiter and the router, composed from the modules
    above; order within a pipe from camera to link, and progress under `drop_wait`.

Number 11 is left: the arbiter is a submodule that is not in the repository, so that the
module would say little that `PktAssembler` and `PktRouter` do not say.

## 3. Modules

### Words, EventMapper, MapperArithmetic, MCEventMapper

A word is the set of positions of its 1 bits, so that AND, OR and shifts are set
operations for any `WordBits`, and the proofs need no bit-vector arithmetic.
`EventMapper` is the combinational half of `pkt_assembler.sv`. `PipeConfig` is the
part of the register bank that reaches one pipe; a shift register has one bit more
than a shift amount needs, as `MPSFT_BITS` has. `MapperArithmetic`
states the algorithms of `spif_config.tex` on numbers (a mask is a bit-wise choice, a shift
is a product or a quotient by a power of two, a limit is compared) and relates them to
the wires, for one event at a time under one configuration at a time. `Pow2` and `LowBits`
are recursive functions, not RECURSIVE operators, so that they can be proved about.
`MCEventMapper` only chooses configurations.

### PktAssembler, EventFifo, MCPktAssembler

A state is a clock cycle just before the rising edge: the five registers of the
assembler and the wires that the edge samples. `Clock` is the edge, and every `always`
block is one operator (`Parked`, `ParkedData`, `EvtReady`, `PktKey`, `PktValid`).
`Reset` is the asynchronous reset, which may come at any time and leaves the data
registers alone. `Sample` lets every input change in every cycle (configuration, link
hand-shake, consumer) but for what AXI forbids: an offer that was not accepted stays.
The gating of lines 428-439 of the top level is part of the module. A packet is its
key: its payload is 0, its header and parity are functions of the key.

`EventFifo` says what a pipe promises the router. `ImplementsFifo` maps the output
register and the parked key to its queue, and the reset of the assembler to that of the
FIFO: in a cycle without a reset every key that is held or accepted stays until it is
taken. The assembler implements the FIFO cycle for cycle, not only up to stuttering.

### EvtDispatcher, LossyFifo, MCEvtDispatcher

The same cycle model of `evt_dispatcher.sv`, all of it. The distilled event is an input
of the cycle (`new_event`), chosen among what the distillers make of a packet; an index
that names no distiller distils any word. `beats` is a history variable that counts the
events that the DMA has taken of the current frame. `LossyFifo` is a two-place buffer
that may drop one event in a cycle, only while another one waits for the DMA, and never
duplicates or reorders. As in `EventFifo`, only the reset of the component empties it.

### SpifPipe, MCSpifPipe

One pipe of the driver. `sem`, `dev_open`, `dma_init` and `outp_ready` are the fields of
`spif_pipe_data`; `pc` is where each client is in open or release. An open is four
actions (`OpenDown`, then `OpenBusy`, or `OpenConfigure` and `OpenDone`), so that the
check of the flag and its update are apart and only the semaphore protects them. The
client that has the device uses it from two threads, as spiffer does: `sender` is
between the status check and the write of the length of a TRANSFER, `getter` is in
one of the stages of GET_OUTP. The interrupt handler may run between any two steps.
It is one action: the steps inside it commute with those of the other threads.

The DMA controller is external. `Started`, `InputDone` and `FrameArrives` are what the
driver relies on: a non-zero length starts a transfer, an idle bit shows it has ended, a
stopped channel finishes what it has started, an armed output channel takes one frame,
replaces the length register by the actual length and raises its interrupt. Whether a
channel still shows idle when it runs again is left open. A length of zero starts nothing.
The history `starved` marks a session whose first transfer was of no bytes.

`Upsets` names the disturbances that a run allows: time-outs, signals in the wait of
GET_OUTP, signals that interrupt the wait for the semaphore in open or in release. The
listeners of spiffer block all signals (`spiffer.cpp:243`), so that signals concern
other clients of the device and the window before a listener has blocked them.
A release happens only when no ioctl is in progress, which the kernel guarantees.

### Spiffer, MCSpiffer

The daemon from the installation of its signal handlers (`spiffer.cpp:855`) to its end. Threads that may move between two steps of
another are kept apart, and each step ends where a thread may be overtaken:

- the main thread (`main`), on top of it the handlers of SIGUSR1 and SIGTERM
  (`handlers`; a handler suspends what it interrupts);
- the survey, which `usb_mtx` lets one thread run at a time, whoever that is: main, the
  handler, the call back of libcaer or the listener of a Prophesee camera. Its program
  counter is `job.survey`. `spiffer_input_shutdown` is one loop for a survey and for
  the stop of SIGTERM, so both take the same actions with their own record of `job`; the
  handle of a listener is read at the cancel and again at the join, as in the code;
- the listeners (`thread`). A handle (`listener`) is a thread identifier. What a thread
  has copied out of the device table when it started (`pipe`, `cam`, `broken`) is apart
  from the table (`params`), which a later survey rewrites.

A listener that forwards events is one state, "listening": what matters of its loop is
where it may be cancelled. The UDP listener waits in a cancellation point, the iniVation
listener tests for cancellation whether or not it gets events, also once its camera has
gone; the Prophesee listener tests between batches, and never again once the wait for
a batch has failed. That a transfer ends, and with it the busy-wait for it, is
`TransfersFinishUnlessStarved` of `SpifPipe`.

A signal comes when it likes. Before `sig_init` it kills the process; while main waits for
the first survey (line 864) its handler may survey or shut down with handles that were never
written, which crashes the daemon (`process` is "killed" or "crashed"). The stop of SIGTERM joins the output threads in a step
of its own (`JoinOutputs`), of which nothing says that it happens: when it does is a matter of
`OutputPath`.

The USB bus, udev and the camera libraries are external. `Connect` owes one or more signals
(a rule of udev may match several devices of one camera), `Disconnect` breaks handles
and streams. Cameras are listed in any order. Cancelling through a handle that was
never written dereferences a null pointer, as in the C library of Linux. Only the
main thread takes signals, but for one disturbance that a run may allow: a library
thread runs the handler of SIGUSR1 while the main thread is in it, and finds
`signal_mtx` taken (`Usr1Elsewhere`).

`overlooked` is a history variable: a change on the bus since the last discovery had its
signal skipped or its survey refused, or a camera went before its stream started.

### SpifProbe

What `spif_driver_probe` acquires and every way in which it can fail. `pc` is the step
that comes next; `core` and `has` are the resources that are held, for the board and for
each pipe. A step either acquires and goes on, or fails and goes to the label that the
code jumps to. `class_create` and `device_create` of the kernel fail with an error code in
the pointer, which the comparisons with NULL (`spif-driver.c:739` and 689) never see: with a
class that failed the kernel faults at line 746 and the probe ends there (`pc` is "oops"), a
device that failed is taken for a created one. The references of device tree nodes that
`of_parse_phandle` counts (lines 510, 577 and 615) are resources too; a node has one
reference in the model, however many probes have left one behind. The three places that free pipes (`error4` and `error2` of
`spif_pipes_init`, and `spif_pipes_remove`) free the same in the same order, so they share
`FreePipes`; the pipe whose acquisition failed enters it in the middle. Between any two
steps a device that exists may be opened and released. `irq_en` is the part of the
controller that decides whether the handler can be called at all. The history `early` sets
aside files that were opened before their probe ended, which is what a later error exit
pulls away, and `wedged` releases that a signal interrupted.

### HsslRegBank, PktReceiver, SpifLocal, ConfigPath, MCConfigPath

Modules of one path, each a file of the source. `HsslRegBank` is the bank in full:
sections, defaults, widths, sign extension, the counters and the APB slave, one operator
per `always` block. Its packet port is the parameter `prx`, since the receiver drives it.
The APB master is what the AMBA protocol lets it be. `PktReceiver` splits, writes and
replies; the packet switch is external, a register for one packet. `SpifLocal` holds the
calls of `spif_local.h` as the packets they send, and `start_spif` of `count_events.c` as
their sequence; its loops are functions of the position, for as many entries, pipes and
fields as one likes. `ConfigPath` lets a program configure the board, a filter too, and read
two counters while the host uses the APB port in any way and peripheral packets come between.
`BankAssumption` says that a section of the bank has room for 16 registers, as its address
map does, and `ProgramAssumption` that program and bank agree on how many there are.

A reset is one of the transceiver, such as the watchdog begins. It empties the receiver
(`hi_reset_int`, `dvs_on_hssl_top.sv:317`); the bank is reset with it when the transmit clock
stops (`axi_resetn_int`, line 319) and goes on without packets when it does not. The SpiNNaker
program is not told and goes on, and a packet that it sends at that moment may be lost.
`hit` records how far it was at the last reset.

The number of a register is the address; a write of the host that is done in a cycle in
which nothing overrides it `Lands`. The histories record what the register that is read has
held (`seen`), whether no cycle has done the write (`missed`), and whether a packet was
written in every cycle of it (`crowded`).

### PktRouter, MCPktRouter

The drop wait counter, the table and the output registers of the switch. An entry is the
set of keys that it hits, which is what key and mask amount to, and its route. The table
and the wait may change in every cycle, as the register bank lets them; a packet that the
link does not take stays. `waited` and `granted` record what a blocked packet has waited
and what the register held when it began to.

### HsslLink

Two machines on two clocks, which advance independently: the loss-of-sync machine of
`hssl_interface.sv` (`Clock`) and the watchdog of `hssl_transceiver.v` (`FreeClock`). They meet in
the hand-shake, which the spiNNlink controllers complete in sync only, and in the reset,
by which the transceiver holds the interface for a while. Received data may be anything in
any cycle. `clean`, `gap`, `sparse` and `down` record what the counters are about.

### OutputPath, MCOutputPath

One output pipe of the daemon. `cmd_pc` is the thread that executes the commands of UDP
clients, `out_pc` the one that sends them the frames, `main` the shutdown of both, in its
order of cancelling and joining. A socket holds datagrams of any client; as any datagram
may arrive at any time, losing, repeating and reordering them adds nothing. The address of
the client is written by `recvfrom` and read by `sendto` without a lock: both copy it in
two pieces, and the other thread may come between. `recvfrom` writes it for every datagram,
an empty one included. The history `recent` holds the clients that the address may name: that
of the last datagram when the sender checks `out_start`, those of datagrams that come until
it has sent, and `prev`, that of the last but one while the address is half written. Cancellation takes effect where the C
library has a cancellation point: `recvfrom`, the flush of the log, `sendto`, and the explicit
test after a GET_OUTP that gave nothing. The ioctl has none.

## 4. What the runs check

| run | result | shows |
|---|---|---|
| `event_mapper` | pass | the mapper computes arithmetic shifts, and the hardware drops exactly what the documented algorithms drop, for every shift but the most negative |
| `pkt_assembler` | pass | two-place FIFO (no packet lost but by a reset, none changed or repeated), no AXI deadlock |
| `evt_dispatcher` | pass | bounded and non-empty frames, order, at most one loss in a cycle and only while the DMA keeps an event waiting, at most one uncounted and only on a tick, the last event leaves |
| `spif_pipe` | pass | exclusive access, no overlapping transfers, whole frames, waiters wake, transfers end unless the first of the session was empty, with every disturbance allowed |
| `spiffer` | pass | iniVation cameras, signals at any time: one listener per pipe, pipes sorted by serial number and matching the bus unless a change was overlooked, no crash but by a signal before the first survey, surveys end, the shutdown ends or comes to wait for the output threads |
| `spiffer_meta` | pass | Prophesee cameras, signals at any time: the pipes match the bus unless a change was overlooked |
| `spiffer_meta_deadlock` | violation | two Prophesee cameras unplugged together: a survey waits for ever with the lock held |
| `spif_probe` | pass | whichever step of a probe fails, all but node references is given back, nothing else is, the interrupt handler finds what it uses, buffers are apart |
| `config_path` | pass | the registers hold what a SpiNNaker program asked for, or after a reset of the link their defaults, reads of the host are current, its writes land unless packets crowd them out, counters are reported |
| `pkt_router` | pass | a blocked packet is dropped exactly when the wait that it was granted is over, nothing blocks for good |
| `link` | pass | sync is earned, sparse errors are tolerated, the link recovers; the watchdog resets a link without a hand-shake, again and again, and no other |
| `output_path` | pass | frames go to host and port of clients that sent the last datagrams around their sending, at most one after a STOP, the shutdown ends unless the output is stopped and frames never cease |

Met while modelling, as limits of what the passing runs claim rather than as runs of
their own:

- a shift register that holds -32 does not shift (`pkt_assembler.sv:99`):
  `FieldsAreArithmeticShifts` leaves that value out;
- with frames of size 1 the dispatcher sends a frame in every cycle in which its output is
  free, without any packet (`evt_dispatcher.sv:166`): the sizes of `evt_dispatcher` are 2
  and 4, and the proofs assume `SizesLeaveRoom`;
- GET_OUTP takes an interrupted wait for a complete transfer (`spif-driver.c:356`):
  `WholeFrameUnlessAbandoned` excepts it together with the time-out;
- a release that a signal interrupts leaves the device marked as in use for good
  (`spif-driver.c:248`): `NotRefusedUnlessWedged` excepts it;
- a transfer of no bytes, such as an empty datagram, starts nothing but leaves the initial
  state (`spif-driver.c:341`). If it is the first of a session the pipe is busy until the
  device is closed; a later one does no harm. `TransfersFinishUnlessStarved` excepts the
  first, which the run allows, and no other;
- the Prophesee listener of an unplugged camera resets, after its survey, the handle of
  whatever camera has its index by then (`spiffer_meta_support.cpp:215`): `ShutdownMETA`
  takes that step, and the listener that then finds no device crashes, which is why
  `CrashesOnlyAtStartUp` is not a property of `spiffer_meta`.

Of the packet path and the daemon's output:

- the conflict of the register bank that should delay an APB write is detected for reads
  (`hssl_reg_bank.sv:203`): a write of the host whose two cycles both coincide with packet
  writes is lost, although line 243 says that APB writes can be delayed, and reads are
  delayed for nothing. `ApbWriteLandsUnlessCrowded` is what holds;
- a soft reset of either port overrides a packet write in the same cycle
  (`hssl_reg_bank.sv:268`), and a write of a counter the count of that cycle (line 234);
- a reply may change its payload while it waits to be accepted: the counter runs on;
- the call that sets the limit of a mapper field writes the mask of the field
  (`spif_local.h:229`). No program calls it;
- key, mask and route of an entry are written by three packets: between them an entry
  may match what neither its old nor its new contents do;
- the document (`spif_config.tex:305`) says that entries match everything by default, where
  `hssl_reg_bank.sv:162` forces a miss;
- a hand-shake that completes in the cycle in which the watchdog compares comes too late,
  and crosses from another clock; `PulseEarned` describes what is left. Sync takes one
  cycle more than `NUM_CLKC_FOR_SYNC`;
- where the document says that frames go to the sender of the latest command
  (`spif_config.tex:465`), any datagram makes its sender the destination (`spiffer.cpp:440`),
  one that stops the output, is empty or holds no command too. A frame that is sent while a
  datagram is received may go to the port of one client on the host of another: with two
  clients `SentToRecentClient` allows that, as the code does, and nothing beyond it;
- the document gives START the value 0x5ec10001 (`spif_config.tex:449`), which the code takes
  for a STOP: `spif.h:77` has 0x5ec00000, and the mask of line 82 makes 0x5ec10000 of the
  documented value. The commands of the model are those of the code, so no run shows this;
- a reset of the link after the program has begun undoes what it has configured so far
  (`dvs_on_hssl_top.sv:319`), and nothing configures it again. `ConfiguredAsAsked` says that this
  is all that a reset can do: each register holds what was asked for or its default;
- a client may set a frame length of 0 or 1 (`spiffer.cpp:464`), which `SizesLeaveRoom` of
  the dispatcher excludes;
- with the output stopped and frames that never cease, the sender meets no cancellation
  point and the shutdown waits for it (`spiffer.cpp:264`): the premise of `StopEnds`.

Of the driver and the daemon:

- a tick that meets a busy output replaces the event there, which nothing counts
  (`evt_dispatcher.sv:243`): `LossesCountedExceptByTick`;
- a frame that races the time-out of GET_OUTP leaves the pipe marked as ready, and the
  next call returns before its own frame, as do those after it (`spif-driver.c:356`):
  `WholeFrameUnlessAbandoned`;
- a device can be opened as soon as it is added (`spif-driver.c:704`), before its semaphore
  is initialised at line 814 and before it is known whether the probe will succeed; what
  such an open does is undefined. `early` marks those files;
- a class that fails faults at `spif-driver.c:746`, and such a probe keeps what it has; a device
  that fails is destroyed by a removal although it was never there. `OnlyNodesLeak` is about
  probes that end, and `FreedIsHeld` makes no claim about the device of a pipe;
- no line puts back the references of device tree nodes (`spif-driver.c:510`): every probe
  leaves some behind, and `OnlyNodesLeak` is what holds;
- a signal that is handled before the first survey (`spiffer.cpp:863`) shuts down listeners
  that were never created: the daemon crashes. `CrashesOnlyAtStartUp` excepts that, in a run in
  which it happens;
- a camera that is connected while a survey runs stays without a pipe until the next
  signal (`spiffer.cpp:551`): `SwitchesUnlessOverlooked`;
- SIGTERM during a survey cancels a listener that the survey replaces, and waits for
  the new one, which nobody has cancelled (`spiffer.cpp:171`): `TermStopsUnlessReplaced`
  excepts a survey that starts listeners while the stop is under way, and the wait for the
  output threads, as `SurveysEnd` does.

The violation run checks one comment of the code against the code: with two Prophesee
cameras unplugged together a survey waits for ever with the lock held, and the run
quotes it in `PROJECT.json`. `spiffer_meta` leaves out the properties that two Prophesee
cameras break. Deadlock is not checked for the daemon, which may pause for ever or have
stopped, nor for the probe, which may have faulted.

### Bounds

- Mapper: 4-bit words, one filter, two fields (the second exercises the OR and the
  second limit), all 8 shift codes, two masks, two limits. The operators treat bits
  alike, so width matters only for the wrap of the shift amount.
- Assembler: 2-bit words, three events, two configurations that disagree on the fate of
  an event. The state machine looks at an event only through "wanted" and "key", so
  three events (dropped, kept, dropped by one configuration only) are all the cases.
- Dispatcher: 1-bit words, sizes 2 and 4 (a frame closed by its first event and one with
  an interior), ticks of 0 and 2 microseconds of 2 cycles, so that ticks meet every
  credit and every output state. The drop counter and the frame lengths do not depend
  on data.
- Driver: two clients are enough for every conflict on one semaphore; frames of two
  lengths tell an actual length from a requested one; transfers are of 0 or 4 bytes.
- Daemon: two pipes, as the board of the README has, and two cameras, so that each may
  have a pipe, take the place of the other in the table or come and go beside it; two
  connections or disconnections, so that one falls into the survey of the other; up to
  two signals for one connection, the least that `signal_usr1_taken` is about. Thread
  identifiers are used again once a thread is joined and no handle names it; there are
  enough of them that no run ever lacks one, leaked threads included (`spiffer` has as many
  states with 8 as with 5).

- Probe: three pipes, two of them with an output, so that the list has a first, an inner
  and a last member when one fails, and a reserved memory that does not divide evenly.
- Configuration: two pipes with two mapper fields and one routing entry of two, so that
  the strides of the addresses differ, on 2-bit words, so that counters wrap. The host
  writes a register that the program leaves alone and reads one that it sets; the proofs
  are for any requests. A reset may come any number of times, but only when the program has
  sent 0, 18 or 23 of its 24 packets (`ResetPoints`): before it, in the middle of its
  configuration, and between its two reads of counters. The proofs are for any `ResetPoints`.
- Router: a table whose entries overlap and one that misses a key, two channels, waits of
  0, 1 and 3 cycles.
- Link: the three constants of the loss-of-sync machine are those of the code; those of
  the watchdog, 75 million cycles and 128, are 5 and 3. The proofs are for all of them.
- Output: two clients, requests of up to three commands, one datagram in the socket. With
  two datagrams the socket only holds what arrives a step later in this model.

### Fairness

- Hardware: `WF(Clock)`. The clock runs freely; nothing is assumed of inputs. Liveness
  premises are stated in the property: `NoAxiDeadlock` assumes that the consumer keeps
  taking packets as long as the link stays up (the router drops a packet that waits too
  long), `Drains` that the DMA keeps accepting.
- Driver: weak fairness of the steps inside a call (a thread in a system call runs on; of
  release this is `FinishRelease`, when the semaphore has been taken), of the interrupt
  handler and of the end of a started transfer, which the gating of the AXI stream and the
  drop wait of the router guarantee. No client has to call anything, a release included,
  and no frame, time-out or signal has to come.

- Daemon: every thread runs on (the main thread and its handlers, whoever surveys, each
  listener), udev sends the signals it owes, and the libraries report a camera that has
  gone to the listener that uses it. No camera has to come or go, SIGTERM need not come,
  and the joins of the output threads need not end.

- Probe: the kernel runs what it has started (`WF(DriverStep)`). No file has to be opened or
  closed, and nobody has to remove the driver.
- Configuration path, router and link: `WF(Clock)`, and `WF(FreeClock)` for the second clock of
  the link. What else liveness needs is in the property: no more resets, a channel that
  takes packets, a line without errors. `NeverBlocks` needs nothing of the kind.
- Output: both threads and the shutdown run on, and GET_OUTP returns after ten seconds
  at the latest. No datagram has to come.

## 5. What is proved

All proofs are in modules of their own and hold for every value of the constants that
the named assumptions allow.

`PktAssemblerProofs`. Type correctness needs that a mapped key is a word: lemma
`MappedKeyIsWord`, from `FieldIsWord`. `SkidInv` (a parked event implies a valid packet;
ready implies nothing parked) is inductive and gives `NoDataLoss`, which is not
inductive by itself. `AssemblerImplementsFifo` follows from it: lemma
`CycleImplementsFifoCycle` shows by cases on the registers that a clock edge is a cycle
of the abstract FIFO, and a reset is its reset.
The second part is about `MapperArithmetic`: `FieldsAreShifted` and `DropsAreDocumented`, for
words of any width, need induction over the bits of a word. The induction theorems of the
library take an operator, so `Induction` is stated for a set of naturals instead, from
`Least` (a set of naturals that is not empty has a least member, from the theorems on
well-founded relations), and `Recursion` shows that functions given by recursion exist. Then
`Pow2Is` and `LowBitsIs` unfold the two recursive functions, `SplitAt` cuts the number of a
word at a bit, `RightShift` and `LeftShift` make of a moved set of bits a quotient and a
product, and `NumbersCompare` makes of the wires' comparison with a limit, by the highest bit
in which two words differ, the order of their numbers.

`EvtDispatcherProofs`. Type correctness includes the bound of the credit counter. The
frame invariant relates the credit to the events already taken: events taken, event on
the output and credit left never exceed the largest size, and the credit falls to one,
the slot of the event held back, only when there is such an event. It needs that no
client sets size 0 or 1 (`SizesLeaveRoom`): with 1 the property is
false, and with 0 the credit is reloaded for ever and frames
are closed by ticks alone. `HeldUnlessTick` needs no invariant. `LossesAreCounted` counts the
events before and after a cycle, case by case, and uses that a closed frame has an event.
`DispatcherImplementsLossyFifo` goes through the same cases with the sequences themselves:
`Held` is the abstract queue, `CycleImplementsLossyCycle` shows which one event a cycle may
remove from it, and the lemmas before it say what concatenation and removal do to
sequences of three.

`SpifPipeProofs`. Three inductive invariants. `AccessInv`: who is inside open or release
holds the semaphore, who configures has found the device unused, users are unique and
the device is marked while there is one; hence `ExclusiveAccess` and
`NotRefusedUnlessWedged` for any number of clients. `InputInv`: a transfer in progress
that no earlier session left behind shows itself busy, and between the check and the
write of TRANSFER nothing can start; hence `NoOverrun`. `OutputInv`: until a call leaves
without its frame, arming, interrupt and flag follow one another within one call; hence
`WholeFrameUnlessAbandoned` and `FramesReported`.

`SpifferProofs`. `NoListenerEscapes` says that a thread that listens or is about to is
the one that the handle of its pipe leads to, and that the device table still agrees with
it; `OneListenerPerPipe` follows. The inductive invariant `Inv` adds what a survey in
progress knows. `ClearedBehind`: no handle of a pipe that it has passed leads to an active
thread, and none at all does once it discovers, so that the table may be rewritten.
`SkipsItself`: the one listener that the shutdown passes over is the Prophesee listener
that runs the survey, which is why skipping it leaves nobody behind. `NothingYet`: the
survey of main, which shuts nothing down, finds nothing to shut down. Most steps leave all
of this alone (`Calm`: no thread becomes active or moves); those of a survey are the
cases of the proof. SIGTERM needs no case of its own: its shutdown creates nothing.

Three more results stand on `Inv`. `LowerSerialNumberFirst` adds `SerialInv`: the table gives
each camera a pipe of its own in the order of serial numbers (`TableSorted`, which lemma
`LowerSerialLowerPipe` draws from the count in `usb_sort_pipes`), a listener films the
camera at its index (`CamInv`), and the lock is held while a survey runs (`LockInv`).
`CaerCrashesOnlyAtStartUp` says that no shutdown touches a thread that does not exist, but in a
signal handler before the first survey, provided that all cameras are iniVation ones; section 4
says what Prophesee cameras do. `StartedUp` says that the handles are all unwritten or
all lead to threads, and which of the two where: hence a shutdown that finds none is that of
a handler, and no handle has been written (`CancelOfNobody`). `QuietPipesMatchBus` has no hypothesis. Its invariant `SwitchInv` says that
only a survey that is not over, or a stop, cancels listeners (`CancelInv`), that between
surveys every pipe has a thread that listens, will, or will survey (`AllManned`), and
that the table has the cameras of the bus unless something is still due that will bring a
survey: a signal, a handler, a listener that has lost its camera (`Fresh`).

`SpifProbeProofs`. The inductive invariant is the correspondence of place and resources:
the pipes of the list hold everything (`ListInv` says which they are, and that the list
leads through them in order), the pipe at hand holds what its step implies (`HasInv`), no
other pipe holds anything, and the same for the board (`CoreInv`). Each error exit enters
the common sequence at the step that matches what was acquired, which is what
`OnlyNodesAreLeaked` and `OnlyHeldIsFreed` come down to. Of node references, and of the device
of a pipe, it only says at which steps there may be one. `FileInv` says that outside the complete
driver every open file is one of the probe's own making, and that a controller that may
interrupt belongs to an open file once its pipe was reset; hence `OpenFilesAreServed` and
`HandlerIsSafe`, which both except files opened before the probe ended and the second also
releases that a signal interrupted. `WindowsStayApart` needs a little arithmetic on products and quotients.

`ConfigPathProofs`. In the last cycle of a read the data register holds what the register
had one cycle before (`ReadBehind`); a write that no cycle has done met a packet in every
one (`Overtaken`), because alone it is done at once (`LandsAlone`). Both hold whatever the
receiver shows the bank, for any widths, registers and requests.
`ProgramConfigures` says that the configuration arrives, or is lost to a reset of the link, for any numbers of entries, pipes,
fields and filters, whatever the host writes elsewhere and however packets of peripherals
come between. Its hypothesis is that the host leaves the soft reset alone; a host that uses
it undoes the configuration, in the code as in the model. The first half is about the
program: by `ConfigurationComplete` it sends a soft reset and then packets each of which sets
a register as asked, and it reaches every register that is to differ from its default. The
second is the inductive invariant `CInv`: the switch holds the last packet of the program that
was accepted (`InOrder`), and once the soft reset has left the switch every register that the
host does not write is as asked if a packet has left for it since the last reset of the link,
and otherwise as asked or at its default (`Held`, which `ResetKeeps`).

`RouterAndLinkProofs`. Of the router: `Balance`, waited plus left equals granted, is inductive and needs the types;
`WaitIsExact` and `DropIsExact` follow. `RouteIsFirst` says that the entry that decides has no
hit before it, hence `FirstEntryDecides` for any number of entries.

Of the link: `Attempt` ties the cycle counter to the cycles without an error, and the
error counter to 0, while sync is sought; `Errors` bounds the error counter in sync, and
with sparse errors makes it and the data since the last error add up to the worth of
one error; `Counted` ties the watchdog to the cycles without a hand-shake. The
assumption is that one error is worth less than the limit.

`OutputPathProofs`. `OneFrameAfterStop`, by `StopInv`: whoever has passed the check of
`out_start` did so before the stop, and nothing has been sent since; the sender checks again
before its next datagram. `FramesGoToRecentClient`, by `AddrInv`: the port is that of the last
client and so is the host, but while the address is half written it is that of the client
before; once the sender has passed its check, both pieces, and the port that it has read, are
among the recent ones, however many datagrams overtake it.

Only model-checked: the liveness properties (`NoAxiDeadlock`, `Drains`, `WaiterWoken`,
`TransfersFinishUnlessStarved`, `SurveysEnd`, `TermStopsUnlessReplaced`, `CountersReported`, `NeverBlocks`,
`LinkRecovers`, `WatchdogRetries`, `StopEnds`), because
liveness under fairness and ENABLED are out of the prover's reach. Every other property of a
passing run is stated by a theorem.

Some properties are proved and no run repeats them: the type invariants, `SkidInv`, `NoDataLoss`
and `PktHeldWhileBusy` of the assembler (which `ImplementsFifo` contains), `HeldExceptByTick`,
`FramesReported`, `OpenFilesHaveTheirPipe`, `WaitCounted` and `FirstHit`, `StartsAfresh` and
`WatchdogArmed`.

## 6. Not modelled

Of the daemon, the opening of pipes and sockets with its error exits, which precede every
camera and signal, and the data that the listeners forward (so that the length in
events that an iniVation listener passes for a length in bytes, at
`spiffer_caer_support.cpp:245`, has no place in the model). Of the top level, the wiring
and the arbiter, a submodule that is not in the repository. Left out for good: packet
payload and parity, the vendor transceivers and their configuration, the spiNNlink
controllers (submodules too; the packet switches are modelled from their use),
logging, the pulses by which the bank counts dropped and routed packets (in the proofs its
counters count arbitrary pulses), the memory maps of the driver, the interrupt handler when
another device of a shared line interrupts, what the clients of a broken probe do with freed
memory, the calls that configure the router of the SpiNNaker board, the SpiNNaker programs
other than their configuration of spif, the board designs, the test benches and the
host test programs.
