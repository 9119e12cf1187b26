# Verification of the board's concurrent software

This directory holds TLA+ models of the programs of this repository that have a
logic of their own and run concurrently: the PRU-ICSS Ethernet driver for the
AM437x (`ti-sdk-final-work/kernel/final/prueth_core.c`, called *the driver*
below), the kernel log (`ti-sdk-final-work/kernel/printk.c`) and the forking TLS
echo server with its client (`secure_socket_example/tcp/ex2`). With them come the
configurations that check them with TLC on small instances, and proofs for TLAPS.

The repository collects everything around a board: a kernel and U-Boot with
local changes, board bring-up notes, a code signing tool, examples for TLS and
sensors. The driver is its largest piece of code that fails in ways no test
shows: it shares memory with a processor (the PRU) that runs firmware without
locks, with interrupts, NAPI, the net core and a PHY library. The kernel log is
the second: every context of the kernel calls it, and its readers give the lock
back in the middle of what they do.

## Inventory

### Parts of the driver (lines of `prueth_core.c`)

| part | state | operations | talks to | what must hold |
|---|---|---|---|---|
| transmit rings (949-1079) | four rings per port in shared RAM: `rd_ptr`, `wr_ptr`, descriptors, 32 byte blocks in OCMC RAM | `prueth_tx_enqueue()`; the firmware's fetch and transmit | `start_xmit` above, firmware below, through memory only | frames leave whole, once, in order; no block of an unsent frame is overwritten |
| transmit flow control (589-703, 846-858, 1976-2076) | `netif_queue_stopped`, `emac->link`, carrier, the requested interrupts | `emac_ndo_start_xmit()`, `emac_tx_irq()`, `prueth_ptp_tx_irq_handle()`, `emac_adjust_link()`, `emac_ndo_tx_timeout()` | net core, PHY library, rings | no frame is sent or freed twice, none waits for ever |
| reception (715-727, 1176-1534) | host queues in shared RAM with `overflow_cnt`, interrupt mask, NAPI state | `emac_rx_irq()`, `emac_napi_poll()`, `emac_rx_packets()`, `emac_rx_packet()` | firmware, NAPI, the stack | every frame once, in order, to its own port; no frame stays behind |
| frame copying (969-1054, 1176-1293, 1953-1994) | none: two copies between a socket buffer and a ring | both `memcpy` sequences, the time stamp, `prueth_get_tx_queue_id()` | | every byte to its place around the end of a ring |
| PTP time stamps (153-185, 729-940, 1118-1170, 2266-2308) | one waiting message per type and port, one more per type for cut-through messages; stamps and notifications in shared RAM | `prueth_ptp_tx_ts_enqueue()`, the PTP interrupt and its thread, `prueth_hsr_ptp_ct_tx_ts_enqueue()`, `SIOCSHWTSTAMP` | firmware, both ports' paths | the stamp of a message goes to that message; nothing is leaked or freed twice |
| port lifecycle (486-586, 1536-1951, 2446-2508, 3052-3160, 3558-3610) | `eth_type`, `emac_configured`, firmware, IEP, interrupts and NAPI of two ports; `br_members`, `hw_bridge_dev`, offload flags | open, stop, set_features, bridge notifier, suspend, resume | rtnl, net core, both ports through shared RAM | resources match the open ports; the mode changes only with the ports closed |
| filters (486-543, 2093-2264, 2337-2403) | multicast bins and control byte, promiscuous bits, VLAN bitmap, in the RAM of one PRU or of both | `emac_ndo_set_rx_mode()`, adding and removing a VLAN, and what opening and closing clears | net core under a lock per device, the other port | a port hears what the stack wants of it and no more |
| probe and remove (2819-3050, 3186-3556) | device resources, net devices, notifiers, the HSR timer | nineteen acquisitions, eleven labels, eleven steps of removal | device model, user space as soon as a port is registered | every path frees what was acquired, once; what an open port uses is there |
| statistics, ethtool (1482-1522, 2536-2817) | counters in PRU RAM | queries | user | not modelled |

`prueth_switch`, `prueth_lre`, `icss_iep` and the firmware are not in the
repository. What the modules say of them is what the driver relies on, and is
marked *external* in `PROJECT.json`.

### The kernel log (lines of `printk.c`)

| part | state | operations | talks to | what must hold |
|---|---|---|---|---|
| ring and readers (405-1210, 1316-1633, 1843-1980, 3150-3389) | `log_buf`, first, next and clear positions, the unfinished line `cont`, a position per reader, `syslog_partial` | storing and dropping records, continuation lines, clearing, a larger buffer; `/dev/kmsg`, `syslog()`, dumpers | every caller of `printk()`, readers in user space, a crash dumper; all under `logbuf_lock`, which readers give back between records | the ring leads from every valid position through whole records; no text is lost or mixed; no reader skips, repeats or overruns |
| consoles (247-256, 1675-1821, 1982-2030, 2270-2545, 2632-2888, 2979-3030) | `console_sem`, `console_owner`, `console_waiter`, `console_seq`, `exclusive_console`, the list of consoles | `console_unlock()`, handing the semaphore to a context that spins, registering and removing consoles, suspend, deferred printing | printing contexts, drivers, the irq_work, syslog readers through `syslog_seq` | one writer; every console gets every record once, in order; in the end everything is out |

### The TLS echo server (`tcp/ex2/server/s.c`, `tcp/ex2/client/c.c`)

A parent that selects, accepts, does the TLS handshake itself and forks a child
per connection; a flag the signal handlers clear; clients driven by a user.
Correct means: the parent keeps no connection, the server ends after a signal, no client
waits for an answer that cannot come, no child outlives its client.

### Other parts of the repository

`PROJECT.json` lists them with the reason why they are not modelled: the PHY
driver (register programming, its link state is an input of `EmacXmit`), the SPL (one processor,
one pass), the file transfers with TLS and DTLS (one process, one connection from beginning to end), the
code signing tool (third-party, one pass over a file), test programs and sensor sketches (no
state), device trees and configuration (data). `prueth_core.c` is there four times and `printk.c`
twice (`Backup/ABINASH/board_bring_up_am437x/...` repeats `ti-sdk-final-work`); the modules
are about the copies named above, and the others differ in nothing that is modelled.

### What is hard here

`PROJECT.json` lists every hazard with its line and the properties that would
catch it. They fall into seven groups.

* *Two processors share memory without a lock.* The driver computes the free space of a ring
  from a read pointer that the firmware moves meanwhile (997-1016), reads both
  pointers of a host queue once per poll (1417), reads `overflow_cnt` and resets
  it in two accesses (1403-1415), and reads a notification and resets it in two
  more (931-933).
* *Decisions on stale state.* `start_xmit` decides that a ring is full and stops the
  queue afterwards (2036); the interrupt wakes a queue that was stopped for
  the link (699); the stamp of a message is fetched after the lock has been given
  back (902); the promiscuous bits of both ports are read before a lock that each port
  has for itself (2193); a reader of the log comes back to a ring that has moved on.
* *Something must still happen.* A stopped queue needs somebody to wake it; a
  host queue with frames needs a poll; a record stored while another context is about to
  release the console semaphore needs somebody to write it (`printk.c:2531`).
* *Boundaries.* Frames and records that wrap around, end at the last block or fill the ring; lines that fill the buffer they
  are printed into (`printk.c:1359`).
* *One step of several fails.* `-ENOMEM` in the middle of a poll, any step of an open,
  the reopening of a port in a mode change, a resume, any step of the probe, a handshake or a fork.
* *A long sequence of legal calls.* Bridging, HSR, suspend; registering a console while another one is
  stopped and a third context prints.
* *Ownership that is passed on.* The console semaphore goes to a spinning context without being
  released; a socket goes from the parent to its child.

## Modules

| module | models | uses |
|---|---|---|
| `TxFifo` | what a transmit ring promises: an abstract FIFO | |
| `PruethTxRing` | a transmit ring, driver against firmware | refines `TxFifo` |
| `EmacXmit` | the transmit path above the rings | a ring is a FIFO, as `TxFifo` says |
| `PruethRx` | interrupt, NAPI and the search of the host queues | a frame takes one slot |
| `PruethFrameCopy` | where every byte goes, in both directions | |
| `PruethPtp` | the transmit time stamps of one port | |
| `PruethPort` | the life of both ports | |
| `PruethFilter` | multicast, promiscuous and VLAN filters of both ports | opening never fails, as `PruethPort` says when it does |
| `PruethProbe` | probe, unwinding and remove, with user space in between | the same |
| `LogRing` | the ring of records, its writers and its readers | |
| `Console` | the console semaphore and what the consoles get | the log is a window of numbers, as `LogRing` says |
| `EchoServer` | server, children, clients, signals | |
| `MC...` | the instances TLC checks | |
| `..._proofs` | the proofs about `PruethTxRing`, `PruethRx`, `PruethPtp`, `PruethPort`, `PruethFilter`, `LogRing` and `Console` | |
| `Small_proofs` | the proofs about `EmacXmit`, `PruethFrameCopy`, `EchoServer` and `PruethProbe`, whose definitions have names of their own (`CopySpec`, `EchoSpec`, `ProbeSpec`, ...) so that one module can extend all four | |

The split follows what interleaves with what. `PruethTxRing` has the memory
accesses of one `prueth_tx_enqueue()` as steps; `EmacXmit` then takes a ring as one
FIFO (justified by `FifoSpec`, checked and proved) and has the steps of `start_xmit`
and the interrupts. `PruethRx` takes the copy of a frame as one step and
`PruethFrameCopy` has it byte by byte, since nobody else touches the blocks
between the pointers. `PruethPort` has every operation as one step, since all
of them run under `rtnl_lock`, and the failures inside them as choices; in `PruethProbe` it is the
probe that has steps, since it holds no lock. In `LogRing` and `Console` a step is one critical section.

### `PruethTxRing`

`rd`, `wr`, `bd`, `buf` are the queue descriptor, the buffer descriptors and the
blocks, numbered from 0. `Accept` is the part of `prueth_tx_enqueue()` up to the
test of the free space (a snapshot of `rd`), `CopyData` the copy, `WriteDescriptor`
and `Commit` the two writes at its end; `FwFetch` and `FwTransmit` are the firmware, which reads
`rd # wr`, the length, the blocks, and moves `rd`. `queue`, `wire`, `full` are history: the
frames that have been accepted, the last one on the wire, and whether a frame has
filled the ring to its last block. That last case is real: the test at 1016 accepts
a frame of exactly `free_blocks`, after which the pointers are equal and the ring
looks empty (`TxRing_comment`). From then on nothing is promised, hence `~full` in the
other properties and `ok` in `TxFifo`.

### `EmacXmit`

`StartXmit`, `CheckLink`, `Enqueue`, `FreeSkb`, `NoBufs` are the steps of
`emac_ndo_start_xmit()`. `PadFails` is `eth_skb_pad()` failing at 969-981: the frame
is freed inside, and an uninitialised value decides what the caller makes of it, so
that all outcomes are allowed and `padFailed` remembers the frame. `TxIrq` stands for both
interrupts, `LinkState` and `LinkQueue` for the two halves of `emac_adjust_link()`,
`TxTimeout` for the watchdog. Which interrupts a port has requested is chosen in `Init`
from what `emac_request_irqs()` can leave (1567-1604).

### `PruethRx`

One record per host queue (`hq`) and one per poll (`poll`). `RxIrq` masks and schedules, `Poll`
starts `emac_rx_packets()`, whose accesses are the steps from `ReadOverflow` to
`MovePointer`; `Return` completes NAPI or keeps it scheduled, `Unmask` enables
the interrupt again. The interrupt is level triggered: a frame that comes while it is masked
stays `raised`. The firmware is taken to raise no interrupt for a frame it finds no room
for. `switch` chooses between a host queue per port and both ports polling all of them. With
`Smp = FALSE` polls exclude each other, as on the AM437x and in the kernel configuration of this
repository (`config:424`, `CONFIG_SMP is not set`). With two CPUs the shared
queues of a switch have no lock, and `FramesOnce` and `NeverOvercounts` do not hold. `poll[p].emac` is the variable
`emac` of `emac_rx_packets()`, which a frame of the other port turns and only the next poll sets back; `other`
is history, the frame that turned it, and `misrouted` notes for each frame given to a wrong port behind which
frame it came.

### `PruethFrameCopy`

A `memcpy` is a set of pairs of byte addresses, so that the properties can compare what is
copied with what the layout of the ring asks for. A behaviour is one call with any mode,
block, length, time stamp, tag and shadow bit.

### `PruethPtp`

`Store` is `prueth_ptp_tx_ts_enqueue()`, all of it under `ptp_skb_lock`; `Commit` and `Free` are
the rest of the transmit path as far as it touches the message. `FwTransmit` and `FwForward` stamp. `TxIrq`
to `Finish` are the interrupt and its thread, one access each; `Receive` to `CtStore`
are the receive path of the other port with HSR. `refs` counts the references to every message. A
stamp *is* the message it belongs to, so that `StampOwn` can tell whose it is. Two
things are left to conditions in the properties because the code promises nothing there:
messages of one type sent before the last one has its stamp (`overlap`; there is one place for both), and
notifications in the two windows of the thread and the switched-off interrupt (`missed`).

### `PruethPort`

`prueth` is one record: the mode, `emac_configured`, running PRUs, the IEP timer, the
requested interrupts and enabled NAPI contexts (of the ports, and 0 for those HSR and PRP
share). `Open` and `Stop` are `emac_ndo_open()` and `emac_ndo_stop()` as functions on it: `FailsAt` says
where an open fails, `Unwound` is what its labels undo. `ChangeMode` stops and reopens the running ports
in order, as the bridge notifier does. `hung` is `napi_disable()` on a context that is
not enabled, which never returns; `wiped` is the RAM cleared under running
firmware; `strays` are interrupts freed without having been requested. Three history flags
say when the driver has got itself into trouble, and the properties hold until then:

* `stranded`: a port was closed by the driver itself and could not be reopened (1904, 3602);
* `stale`: `eth_type` was assigned under an open port (2500);
* `deaf`: a port with an offload flag left its bridge unnoticed (3140).

All three are reachable, and not only by failures: any change of another feature sets
`stale`, and an AM437x, for which there is no switch firmware, strands its ports as soon as both
are bridged. SoCs without HSR and PRP (`support_lre` false) are not instances of this module.

### `PruethFilter`

`mc`, `promisc` and `vlan` are the tables in RAM; `McRam` and `VlanRam` say which one a port uses
in which mode. `Disable` to `Allow` are the writes of `emac_ndo_set_rx_mode()`, `call` is what it remembers
between them, with the register read at its very beginning (2193). The net core calls it under a lock of the
device, so that two calls overlap only for two ports. `Opened` and `DevClose` are what opening and closing do to the
tables, `Bridge` closes and reopens the ports behind the back of the net core. Wishes are what the stack
wants of a port; `Hash` is any function from addresses to bins. History says what the properties must leave
out because the code does not do it: `told` (no other call has touched the table of this port since its own),
`lost` (the other port has written this port's promiscuous bit, or the driver has reopened the port itself), `kept` (the
VLANs nobody has cleared).

### `PruethProbe`

`Plan` is the order of the acquisitions, `Labels` that of the unwinding, `FailsTo` the label each failure
jumps to, `Removal` the order of `prueth_remove()`; `held` is what has been acquired. Between any two
steps the user may open and close a registered port, switch HSR on, and bridge the ports. The
phase `oops` is a null pointer followed; `strays` is what has been released without being held.

### `LogRing`

The memory of the ring says of every byte which record put it there, so that a reader that is led astray
reads the bytes of another record. Each position is an index with a sequence number. A reader is a
record of its kind: `/dev/kmsg`, `syslog_print()`, `syslog_print_all()` or a dumper, which takes lines or
blocks of lines. `Say` is `vprintk_store()` with `cont`; `SetupLogBuf` copies the log to a larger buffer;
`SetTime` is a write of `printk_time`, which changes the length of a line that is read in pieces. A
message longer than the ring (`truncate_msg()`) cannot occur with the sizes the kernel is built with
(`LogAssumption`), and dictionaries only make a record longer.

A record may have newlines in it (`breaks`), each of which begins a line with a prefix of its own when it is printed.
`LineSize` is what `msg_print_text()` counts, `TextSize` what it puts into the `text[]` of the two syslog readers, which
may be less: the lines that no longer fit are left out (1359), `left` characters of them, and the history `cut` says of which records
that was so. The position of `syslog_print()` (`syslog_seq`, `syslog_partial`, `syslog_time`) is static and shared
by all its callers; the model has one of them at a time, and calls that overlap are left out.

### `Console`

`pc` says where a context is: trying the semaphore, spinning, in `console_unlock()`, or asleep
in `console_lock()` in the order of `queue`. `TakeRecord`, `SpinningEnable` and
`WriteOut` are the critical sections of the loop in `console_unlock()`, `Recheck` and `Retry` its end.
A context has a list of calls to make (`todo`); registering a console that takes over from boot consoles adds the calls that
remove those (`Removals`). `seen` is what each console was given, `dropped` what was announced to it as dropped, and `owed`
from where on it has a right to be given something. `text` is what is in the static buffer: the announcement, and
the record behind it. The announcement is written with the next record that is not too quiet, and
if there is none it is not written at all; `Long` and `TooLong` are the records whose lines do not all fit behind
an announcement, and those whose lines never do (`Whole`). Drivers that print while they write, consoles with `CON_EXTENDED`,
which get a record in another form (`ext_text[]`), and console flags other than those named in the module, are left
out. The handover needs a second CPU; with `CONFIG_SMP` not set (`config:424`) it is the rest
of the module that runs on this board.

### `EchoServer`

`ParentStep` is `main()` of the server, `ChildStep` is `handle_client()`, `ClientStep` the part of a client that
does not wait for its user. `Signal` clears the flag of the parent or, with Ctrl-C, of everybody; in
`select()` it interrupts, in `SSL_accept()` it does not. TCP and TLS are external: in order, and a connection ends for the
client when no process of the server holds it.

## Runs

Each run asks one question; bounds are the constants of its `.cfg`. For every property, `PROJECT.json` names
a slip in a mapped definition (the operators commented *A slip* or *Fault*) that makes the run fail.

| run | question | bounds, and why they are enough |
|---|---|---|
| `TxRing` | Does a ring implement a FIFO, and are frames never lost or overwritten? | 4 blocks, frames of 1 to 3, up to 3 waiting: frames that wrap, end at the last block, fit exactly and do not fit all occur; two payloads tell an old block from a new one |
| `TxRing_comment` | Are all blocks free when the pointers are equal, as the comment says? | as above; no (3 steps of the driver are enough) |
| `Xmit` | Can frames be sent or freed twice, or wait for ever? | 3 frames, two priorities, rings of one frame: a ring is full with one frame in it, and the other ring can be drained meanwhile |
| `Rx` | Does every frame reach the stack, in order, once? | two ports, two host queues of 3 slots, 3 frames, budget 2: a poll ends by budget and by an empty queue, a frame of the polling port follows one of the other port in one poll, queues overflow and wrap |
| `Copy` | Is every byte copied to its place? | all calls on 4 blocks of 4 bytes, tag of 2: the code uses block and tag sizes only as parameters |
| `Ptp` | Does every message get its own stamp, once, without leaks? | two messages of the host and one cut through, all of one type, which share every place; a second type gives the thread its loop |
| `Port` | Do resources, mode and bridge stay consistent? | both ports, two bridges, all six steps of an open failing; behaviours end where the mode changes under an open port (`UntilStale`), after which no property promises anything |
| `Filter` | Does a port hear what the stack wants of it? | both ports, three addresses in two bins, a bridge address of its own, four wishes (nothing, one group, promiscuous with two, all multicast), one VLAN: two ports can ask for the same and for different things, and two addresses collide |
| `Probe` | Is everything released once, and there while it is used? | no bound: one port or two, every failure, any number of rebinds |
| `LogRing` | Is the ring whole and does every reader get what there is? | 10 bytes, later 14, records of 2 to 4: two to five fit, wraps with and without a mark; 4 messages of two callers with continuation lines, one of them of two lines, which with the time do not fit into the `text[]` of the syslog readers and without it do; one failed copy to the user, one change of `printk_time`, buffers too small and large enough |
| `Console` | Is there one writer, and does everything come out, once? | two tasks and the irq_work, two records of their own and those that registering prints and programs do; a log of 2 records, so that records are dropped; a new console with a replay of both against stop/start and against suspend/resume, a takeover from a boot console, and a suspended system that prints more than the log holds. Records 2 and 3 are too quiet, so that the log is full of quiet ones when 0 or 1 is dropped and nobody is told; 4 is long, and comes both behind an announcement and without one; 5 never fits |
| `Echo` | Does everybody end? | two clients with two messages each, two signals: a second client waits in the backlog while the first is served, and the second signal kills |

Deadlock checking is off where a system of finitely many frames, messages, calls or clients comes to its
end, or where an endless wait is a state of the model (`hung`).

### Fairness

* `TxRing`: the firmware is weakly fair (it runs a loop on a processor of its own),
  and so is a `prueth_tx_enqueue()` that has begun (it has no loop and takes no
  lock). Nothing makes the stack send.
* `Xmit`: weak fairness of the steps of `start_xmit` once it is called, of the net core that
  calls it while a frame is queued and the queue is not stopped, of the firmware, of interrupt
  delivery, of the watchdog of a stopped queue and of a link callback that has begun. The link
  itself is free: `NoStall` is about behaviours in which it stays up in the end. The
  watchdog is what makes it true: without `TxTimeout` a frame can wait for ever
  (`TxTimeoutIdle` is the slip that shows it).
* `Rx`: weak fairness of the interrupt, of the softirq that polls a scheduled instance and of
  the steps of a poll. No frame needs to arrive. On one CPU the softirq runs its
  list of instances in turn, so that no port starves another.
* `Console`: weak fairness of every context that is in a call (it runs, or is woken from the semaphore, which is handed
  over in the order of arrival) and of a pending irq_work. Nobody is made to print or to register.
  Whoever suspends the consoles resumes them, since both are in one list of calls.
* `Echo`: weak fairness of the parent, of every child and of the part of a client that waits for nobody. The user need not
  type and nobody need send a signal.

`Ptp`, `Port`, `Filter`, `Probe` and `LogRing` claim safety only.

## Findings

One disagreement between the code and what the repository says has a run of its own: a frame
of exactly the free blocks makes a full ring look empty (1016 against the comment at 1012; `TxRing_comment`).

The others are in the models, and the properties name them as exceptions:

* a queue stopped for a full ring may have no interrupt to come, only the watchdog (2036 against 689-691);
* as a switch, a frame of the other port turns `emac` for the rest of the poll (1450): the frames of the polling port
  behind it are given to the wrong net device, and so are the lost frames counted after it (1413). `MisroutedOnlyBehind` bounds
  what is wrong to the frames behind, in the same poll;
* a time stamp that has the last block of the ring to itself is read from the first block instead (1281); `CopyRight` leaves
  that case out;
* `-ENOMEM` completes NAPI with frames pending (1457 against 1519-1520);
* dropping a cut-through message frees the host's own waiting message (1161 against 1163), and a stored one is
  never released by the receive path (1166 with 1356);
* changing any feature of one port resets the mode the other one runs in (2500 against 2439-2440);
* bridging both ports of an AM437x, which has no switch firmware, leaves running ports closed (3085 against 3081-3082); a
  bridge with the only port of a device follows a null pointer on a SoC that has it (3079);
* `tx_irq` is freed without having been requested when the PTP interrupt fails (1599); removing a bare
  port from a bridge takes an HSR pair to dual EMAC (3088);
* the allocation of `lp` is not checked, `hp` is tested twice (3355); a port can be opened in HSR mode before the
  timer is initialised (3424 before 3443); `prueth_remove()` has the two PRUs the wrong way round (3549);
* the lock that "shared table" asks for at 2207 is one per port, and the promiscuous register is read before it (2193);
  VLANs and groups are not restored when the driver reopens a port (560); the addresses of the bridge (2254) are added
  only if the port has one of its own (2247); promiscuous mode with HSR leaves the list of groups as it was (2200);
* a record of several lines, each of which gets a prefix, may be longer in print than `text[]`: both syslog readers leave out the
  last lines of it and count it as read (`printk.c:1359` with 1413 and 1493), and `console_unlock()` does so, too (2479);
  `NothingSkipped` and `EveryRecordWritten` say that it happens to no other record;
* behind an announcement of dropped records there is less room in `text[]`, so that a long record of a single line may not be
  written at all, and nothing says so (2479 with 1359);
* if all records that are left are above the log level, `console_unlock()` leaves its loop with the announcement in `text[]`
  unwritten (2446 and 2458): the dropped records are never announced;
* a replay for a new console that begins ahead of what has been written skips records for every
  console (`printk.c:2815` against the comment at 2390);
* two consoles that ask for a replay while the output is suspended: `exclusive_console` and the end of the replay are
  those of the second one, and once the output is resumed the consoles that were there already are given again
  what the first replay has gone back over (2815, where the comment says that only the new console is to be spammed).
  It needs two such registrations between suspend and resume, which no scenario of the run `Console` has; it came
  up as the step that keeps `InOrder` from being proved without a condition;
* `waitpid()` ends its loop at the first child that still runs, so that the server does not wait for its children
  as it says (`s.c:130-131`), and `SHUTDOWN_TIMEOUT` (19) is not used.

## Proofs

`PruethTxRing_proofs` proves, for every ring size, frame size and set of payloads (`RingAssumption`):

* `TypeCorrect`: `Spec => []TypeOK`.
* `RingInvariant`: `Spec => []RingInv`.
* `UnsentFramesStayIntact` and `ReadPointerAtOldest`: the invariants `UnsentIntact` and `ReadsFrameStart`.
* `RingImplementsFifo`: `Spec => FifoSpec`, the refinement of `TxFifo`.

`UnsentIntact` is not inductive: that a copy does not touch an unsent frame follows from where
the frames lie. `RingInv` says so in six parts. `Ends`: the frames lie end to end from `rd` to `wr`.
`Layout`: measured from `rd`, each one ends before the next one begins and before `wr`. `Room`: the
frame being written fits in what was free, which stays true because the firmware only frees
blocks. `Written`: what has been copied so far is in place. `Latched`: the firmware's length
is that of the oldest frame. `AllIntact`: the frames are as they were written. TLC checks `RingInv` as an
invariant of `TxRing`.

The argument rests on lemmas about going around the ring (`AdvanceIs`, `DistanceAdvance`, `DistanceAdds`,
`DistanceShift`, ...), which reduce `%` to two linear cases, and has one lemma per action that disturbs
something: `AcceptKeeps` (the free space is at least what `Room` asks for), `CopyKeepsFrames`
and `CopyWrites`, `DescriptorKeepsFrames`, `CommitKeeps` and `TransmitKeeps`, in which distances
are measured from a new `rd`. In the refinement `Commit` is `Put` (`CommitPuts`), `FwTransmit` is
`Transmit` (`TransmitTakes`), everything after a full ring is `Overrun`, and all other steps stutter.

`Small_proofs` proves about `EmacXmit`, for every set of frames and every set of rings of any size (`XmitAssumption`):

* `FrameInvariant`: `Spec => []FrameInv`.
* `TypeCorrect`: `Spec => []TypeOK`, which bounds the number of times a frame is freed.
* `RetryNeverDuplicates` and `AcceptedIsFreedOnce`: the invariants `RetryIsSafe` and `FreedOnce`.
* `NothingLostAlways`: `Spec => []NothingLost`, the safety half of `NoStall`.

`RetryIsSafe` and `FreedOnce` speak of frames that wait and of frames that are settled, and neither says
how a frame gets from one to the other. `FrameInv` does: a frame is in the queue of the stack, in the
hands of `start_xmit` or in a ring, and its place says what has become of it and how often it has
been freed (`NewInv`, `PlaceInv`, `FreedInv`); no frame is twice in the queue or in its own ring
(`QdiscInv`, `HwInv`). Frames `eth_skb_pad()` has failed for are the exception every part names:
such a frame may be freed while the stack still has it. There is one lemma per action that moves a frame
(`SendKeeps` to `FwTransmitKeeps`); `HandsOnly` is what the steps of `start_xmit` that touch neither queue nor
ring share, `OthersKeep` covers interrupts, link and watchdog. TLC checks `FrameInv` as an invariant of `Xmit`.

`NothingLost` says what the liveness of `Xmit` needs and no fairness can supply: a frame the stack has not got rid of is in its
queue or with `start_xmit`, one the driver has accepted is in a ring (`HasPlace`), and a queue that is stopped was stopped for a full
ring by a port that has a transmit interrupt, or for a link that is down, or `emac_adjust_link()` is about to look at it
(`StopLifted`). It has one lemma per action that moves a frame (`SendFinds` to `FwTransmitFinds`) and one for what stops a queue
(`StopKeeps`). That a full ring may be empty again before the queue is stopped for it, so that only the watchdog is left
(2036), is not excluded by it and is why `NoStall` needs `TxTimeout`.

`PruethRx_proofs` proves, for any number of ports, host queues, slots, frames and any budget, if polls exclude each other
(`~Smp`: with two CPUs the shared queues of a switch have no lock, and the theorems would be false) and two ports have
no host queue in common as dual EMAC (`OwnHostQueues`, which 2877-2888 sets):

* `FramesGoOnce`, `MisroutedAlwaysBehind`, `PollAlwaysToCome` and `NeverOvercountsAlways`: the invariants `FramesOnce`,
  `MisroutedOnlyBehind`, `PollUnlessStalled` and `NeverOvercounts`.

`FramesInv` is the common part: one port polls at a time (`PollAlone`); the read pointer a poll remembers is
the one in memory and the write pointer it remembers is at most as far as the firmware's (`Snapshot`); the slots between the
pointers hold, in the order of arrival, what has not been delivered, and every frame that has arrived is there, delivered or
accounted for (`InOrder`); a descriptor between them is zero only while the read pointer is about to pass it
(`Descriptors`).
Distances around a queue are measured from its read pointer (`Gap`), as in the transmit ring. `OwnFrames` says that a frame lies in a
queue that its own port looks at, and `TurnedBy` that a poll which delivers to another port has given that port a frame before. `NapiState` says how scheduling, masking and the label of a poll
fit together, and `Seen` that for every queue with frames some port is still to look at it (`WillSee`): the interrupt is
raised, the poll is scheduled, or it has not come to that queue yet. `Counted` says that what has been reported, what
`overflow_cnt` says and what a poll holds in its hands is no more than the firmware dropped; the sum over all
queues is a function on `Nat` (`Sums`), since the prover has no induction for a fold.

`PruethPtp_proofs` proves, for any messages and any number of types (`PtpAssumption`):

* `HandedOverOnceAlways`, `RefsAlwaysRight`, `StampAlwaysOwn` and `StampAlwaysToCome`: the invariants `HandedOverOnce`,
  `RefsRight`, `StampOwn` and `StampToCome`.

`OnePlace` says that a message is on its way to its table, waits there, is in the hands of the thread or has been handed
over, one of these at a time and in that order; `HandedOverOnce` follows, for cut-through messages as well. `RefsCounted` writes the number of references as
a sum of three terms, so that each step changes one of them; that it is the `Cardinality` `RefsRight` speaks of is a
lemma (`HoldersCounted`). `StampInv` is about messages that are sent one at a time: one of a type is being stored, in the
ring, or noted as sent (`OneOfEach`), and the stamp that is noted is that of the message that waits (`StampsFit`); a closed port has none of
them (`Closed`). `StampsSent` and `StampsRead` say that a message that has not left has no stamp and that a stamp
that waits is noted where interrupt or thread still look.

`PruethPort_proofs` proves, for any bridges, any interrupts that are wired, any firmware that is there and any steps that may fail
(`PortAssumption`):

* `HoldsAlways`, `WipedNever`, `HangsNever` and `BridgeAlways`: the invariants `HoldsWhatItNeeds`, `NeverWiped`, `NeverHangs`
  and `BridgeKnown`.

The operations of the driver are functions on the record of the device, and so are the lemmas: what each of them makes of a
device in any state (`HostInitIs` to `NapiDisableIs`), of a failed request for interrupts (`RequestFailsIs`), of opening,
closing, closing and reopening all ports (`OpenIs`, `StopIs`, `StopAllIs`, `OpenAllIs`), and of a change of the mode
(`ChangeModeIs`), each with the fields it leaves alone (`Kept`). `Held` writes what an open device holds as functions of the mode and the
open ports, in any state of both. `PortInv` has it until the mode changes under an open port; that the ports that run are
those that are open (`RunInv`) holds after that as well, which `HoldsAlways` needs since a later failure does
not undo it. `BridgeInv` says that the driver has members in switch mode, and which bridge they are in.

`Console_proofs` proves, for any number of tasks, consoles and records, any size of the log and any programs
(`ConsoleAssumption`):

* `HandInvariant`: `Spec => []HandInv`, and `OneOwnerAlways`: the invariant `OneOwner`.
* `WriteInvariant`: `Spec => [](HandInv /\ WriteInv)`, and `EveryRecordAlways`: the invariant `EveryRecordWritten`.
* `InOrderInTurn`: the invariant `InOrder` in every behaviour in which replays come one after the other.
* `InOrderUnlessSuspended`: the invariant `InOrder` if no program suspends the consoles.
* `AttendedAlways` and `NothingForgottenAlways`: `Spec => []Attended` and `Spec => []NothingForgotten`, the safety half of `AllOut`.

`OneOwner` counts owners with `Cardinality` and says nothing of where `console_owner` points. `HandInv` says
instead that two owners are the same context, that the semaphore is down if and only if there is one, that
`console_owner` is the context that writes, that at most one context spins, that `console_waiter` is set only while one
spins and one writes, and that whoever is in the queue is asleep and there once. The lemmas follow the life of the
semaphore: `Taking`, `Trying`, `Sleeping`, `Releasing` (with the handover to a sleeper),
`StartSpinning`, `Spinning`, `Enabling` and `WritingOut` (with the handover to the one that spins); `Outside` and
`Inside` are the steps that move a context without touching the semaphore.

`EveryRecordWritten` speaks of the position that all consoles share and says nothing of a replay, which moves that position
back for one of them. `AllGiven` says of every console how far `console_unlock()` has gone for it (`Past`: while another console
has its replay, everything up to where that ends) and that everything before, from where it is owed something, was given
to it, was too quiet, was announced to it as dropped, is on its way (`OnTheWay`, as the record or in the announcement), or
is one of those the code loses: dropped at a time when all that was left in the log was quiet (`OnlyQuietLeft`), or too long for
`text[]`, or for what the announcement before it left of that (`CutShort`). None of this is a history of what went wrong: each says of the
record itself why it may be missing. That the announcement in `text[]` is about the records right before the one behind it is `Announces`, and
that a log from which something was dropped is full is part of `Positions`. `Positions` also keeps the positions inside the log, `InCall` and `ListTyped` the lists
of calls in their types. `OrderInv` adds that what a console was given increases and is past, and
that the record on its way is not. A replay that begins before another one has ended would move `stop_seq` back and so
take away from what is past: that is the case found in `printk.c:2815` (see *Findings*), and `ReplaysInTurn` excludes it.
`CalmInv` shows that it cannot occur unless somebody suspends the consoles: without that, whoever
begins a replay owns the semaphore and does not give it back before the replay is over (`ReplayOver`).

`Attended` says who is to write a record that has not been written: the owner of the semaphore, somebody who is about to
try for it or to look at the log again after releasing it (`Watchful`), the pending irq_work, or whoever resumes the consoles. A
`console_trylock()` that fails leaves the record to the owner (`TriedAttended`), and an owner that lets go looks again
(`ReleasedAttended`): that is the `goto again` of `console_unlock()` (2524-2537). `NothingForgotten` is the case in which nobody of
these is left.

`Small_proofs` proves about `PruethFrameCopy`, for any size of the blocks, number of blocks, size of the tag and shortest frame
(`CopyAssumption`):

* `CopyRightAlways`: the invariant `CopyRight`.
* `CopyTypeCorrect`: `CopySpec => []CopyTypeOK`, so that the pointer stays in the ring and the queue is one of the four.

The bytes of a frame lie in two pieces, those up to the end of the ring and those at its beginning (`FrameInRing`, from
`RingByteIs`), or in the collision buffer, and a `memcpy` in two parts that meet on both sides is one (`CopyJoins`). What
`DIV_ROUND_UP` and `roundup` say is a product of two constants and not linear: `BlocksCover` and `BlocksUnique` say that it is the one
number of blocks that covers the frame, `RoundUpShifts` and `BlockBytes` how it moves with the block. Sending then is
`TxCopyIs`; receiving is split by what the code splits it by (`ShadowCopy`, `RingCopy`), and so is the time stamp
behind the frame (`ShadowStamp`, `RingStamp`).

And about `EchoServer`, for any number of clients, messages and signals (`EchoAssumption`):

* `NoSocketKeptAlways`: the invariant `NoSocketKept`, from `HoldsOne`: between `accept()` and the end of its work for a
  connection the parent holds this one and no other.
* `EchoInvariant`: `EchoSpec => []EchoInv`, and `NobodyStuckAlways`: `EchoSpec => []NobodyStuck`, the safety half of
  `AnswerOrEnd` and of `ChildEnds`.

`NobodyStuck` is about each of those who wait: a client in its handshake, a client that waits for an answer, a child whose client
has gone. Each of them finds something it can go on with, or somebody who is to supply it. That depends on where a connection is
(`Where`: in the backlog, with the parent or with a child, one of these, which says how far its client has come) and on what has been
said on it (`Talk`: a child that writes has read a message; a client that has left has said goodbye last; a child that
waits for its client in the shutdown has said goodbye to it; a client that waits has asked or is answered). `BacklogInv`
has every connection once in the backlog and none there when nobody is left to accept it. `NothingHappens` and
`OneOfMany` reduce a step to the one connection it is about. TLC checks `EchoInv` and `NobodyStuck` on the instance of `Echo`.

And about `PruethProbe`, which has no constants but the two ports, so that here a proof covers no more states than the run `Probe`; it
says why they are right:

* `ProbeInvariant`: `ProbeSpec => []ProbeInv`.
* `UsesWhatIsThereAlways` and `ReleasedOnceAlways`: the invariants `UsesWhatIsThere` and `ReleasedOnce`.

Three tables say of every resource at which step of the probe it is acquired (`GotAt`), behind which label it is released (`PutAt`)
and in which step of the removal (`RemovedAt`). `HeldIsDue` says that what is held has been acquired and not yet released, by these tables, or
is `Forgotten`; `DueIsHeld` is the converse, but for what need not be there when a step before the label has failed (`Until`). A
label then releases what its place in the table says, all of it and nothing that is not held (`PutsIs`, `PutsAll`, `PutsHeld`); that
every failure jumps to the label that fits its step is `FailsAt`. A port is registered only between the acquisition of
the last thing it uses and the release of the first (`RegisteredHolds`), and the notifiers only as long as all ports are there
(`NotifiedPorts`): that is all the operations of user space rely on.

`LogRing_proofs` proves, for any length of the ring before and after it is enlarged, any alignment, sizes and messages
(`LogAssumption`):

* `RingHoldsLogAlways`, `NothingSkippedAlways`, `FitsBufferAlways` and `TextKeptAlways`: the invariants `RingHoldsLog`, `NothingSkipped`,
  `FitsBuffer` and `TextKept`.
* `ReadInOrderAlways`: `Spec => ReadInOrder`, the action property.

The walks through the log and the sums over its lines are recursive functions, and what they compute would need induction. The
proof has histories instead: `LogInv` says that there are a function `g` and a function `t` with `Reading(g, t)`. `g` says
where every record ever stored was to begin, and `t`, for both forms of a line, how long the lines of all records before
it are together. A step of a reader leaves both as they are, a new record adds one value to each (`GrownReads`, `StoreGrows`). That the
walk of the code gives the values of `g` (`WalkIs`), and its sums the differences of `t` (`LinesAreSums`), are the two places where
something has to be said for all records, and there the least number for which it is false leads to a contradiction
(`MinOfSet`, from the well-foundedness of the naturals; `Stretch`).

`Laid` says that the records in the ring are whole where `g` has them, each at the end of the one before or at the
beginning (`Whole`), that the positions of log, clear and next record are on this way, and that going round the ring one passes the records in
their order (`InTurn`). A record that is stored lies behind the last and does not reach the first that is left
(`StoreIsPut`, `PutLaid`, with `PutBytes` for the memory and `EndInTurn` for the order); `MakeRoomIs` finds the place
where dropping records ends, and that there is one. `ReaderOk` is what a reader relies on between two critical sections. `Room` bounds what
`syslog_print_all()` still has to copy by the difference of two values of `t`, neither of which changes while it has given
the lock back, and `Begun` says where a line that is read in pieces goes on. For the second half of `NothingSkipped`, which
records may be cut short, `Cuts` adds that lines are left out of the record `syslog_print_all()` holds only if it is too long; what is too
long stays so, because a record never changes (`LongStays`).

`TextKept` needs the unfinished line as well: `TextInv` says of every record and of `cont` that its texts are in order, of one caller and
as long as it says (`One`), that those of earlier records come before those of later ones and of `cont` (`Before`), and that none
is missing (`Kept`). The lemmas follow `log_output()`: a message joins the line (`ContAddKeeps`), ends it (`ContFlushKeeps`), or is
stored by itself (`LineKeeps`).

`PruethFilter_proofs` proves, for any sets of addresses, bins, wishes and VLAN identifiers (`FilterAssumption`):

* `VlansAlways`: the invariant `VlansAsAsked`.
* `PromiscAlways`: the invariant `PromiscAsAsked`.
* `GroupsAlways`: the invariant `GroupsAsAsked`.

`VlansAsAsked` is about open ports; `VlanInv` says the same of the tables a closed port will be opened with: what nobody
has cleared (`kept`) is in them in any case, and nothing unregistered is, as long as a port is open. The lemmas
`OpenedClears` and `ReopenedClears` say what opening one port and reopening both does to the tables, and each operation has
one lemma. `PromiscInv` says from which step of the call on its bit is right (`Written`): the steps before do not
count, the write itself (`PromiscInvWrite`) makes its own bit right and the other one lost unless it is what it was, and
the steps after it leave both alone (`PcSteps`).

`GroupsInv` says the same of the multicast tables, but at every step of a call: which bins are written and which are still
to be, as long as the call is alone on its table (`InCallRight`), and what is in the table between calls (`IdleRight`). Which calls are
alone is `AloneInv`; as dual EMAC all are. A step of one call leaves the other port's table alone or makes that
port's call one that is not alone (`StepOfOne`), so that each step of `emac_ndo_set_rx_mode()` needs one lemma about its own
table. Two addresses in one bin are the reason why what gets through is bounded by bins and not by addresses.

Model-checked only:

* liveness (`TransmittedInTheEnd`, `NoStall`, `TakenOut`, `AllOut`, `ServerEnds`, `AnswerOrEnd`, `ChildEnds`), since the
  prover handles neither fairness nor `ENABLED`. The safety halves of most of them are proved: `NothingLost` of `NoStall`,
  `PollUnlessStalled` of `TakenOut`, `Attended` and `NothingForgotten` of `AllOut`, `NobodyStuck` of `AnswerOrEnd` and `ChildEnds`;
* `InOrder` of `Console` without a condition, for the programs of the run `Console`.

No module uses a `RECURSIVE` operator.

Every module has a type invariant `TypeOK` or states the types with its invariant; the runs check them only where
they carry another invariant. Those of the modules with proofs are proved, as part of the inductive invariant where
no theorem of their own states them (`Typed`, `LogTyped`, `EchoTyped`, `ProbeTypeOK`, `PortTypes`, `VlanTypes`, `GroupTypes`, `ListTyped`).

## What is not modelled

* The speed and duplex of a link, statistics, ethtool, messages, register contents.
* The order in which memory writes of the driver become visible to the PRU: the driver
  writes through `__iomem` accessors, and the models have its program order.
* The firmware's own use of the host queues beyond the pointers and its collision handling.
* Storm prevention, FDB, node tables, STP state: not in the repository.
* `TIMESYNC_CTRL`, one byte for both ports (168): closing one port ends forced
  two-step for the other. `PruethPtp` has one port.
* In `printk.c`: `truncate_msg()` and dictionaries (see `LogRing`), `console_flush_on_panic()` and
  `console_unblank()`, which ignore the semaphore on a dying CPU, CPU hotplug, calls of `syslog_print()` that overlap and share its
  position, the extended form of a record for consoles with `CON_EXTENDED`, the parsing of the command line, and the
  line added for an early UART at 1971, which keeps no state.
* The set-up of the echo server before its loop, which ends the program if it fails.
* The copies of `prueth_core.c` and `printk.c` elsewhere in the repository, and the parts listed above under *Other
  parts*. Together they are the larger part of the lines of the repository: third-party code, sequential set-up and
  repetitions, none of which interleaves with anything.

## Plan

Done: all parts of the driver that keep state but statistics, both halves of the kernel log, the echo server; proofs of
every safety invariant the runs check (`InOrder` of `Console` under either of two conditions), of the action property
`ReadInOrder`, of the refinement of `TxFifo`, and of the safety halves of `NoStall`, `TakenOut`, `AllOut`, `AnswerOrEnd` and `ChildEnds`.

Left, should the work be taken up again:

1. a module for statistics and ethtool, whose counters move between the RAM of the PRUs and the driver when a port is closed and opened;
2. `truncate_msg()` and dictionaries in `LogRing`, which make a record shorter or longer and leave the argument of `Laid` as it is;
3. `PruethRx` with two CPUs: which part of `FramesOnce` is left when the polls of both ports share the queues of a switch;
4. an abstract specification of the log, a window of numbered records, that `LogRing` implements and `Console` uses.
