# Formal models of the XV64 networking subsystem

This directory holds TLA+ models of the networking code in `src/kernel` and
`src/include`. It contains TLC configurations that model-check them on small
instances, and TLAPS proofs of their main invariants, and of one refinement, for every instance.
Every definition is translated from the C++ source, with one exception:
`RxChannel` is an abstract specification of what the receive path promises,
and `NicRx` is shown to implement it. `PROJECT.json` maps each
definition to the lines it models.

## 1. The system

| Part | Source | State | Operations | Context |
|---|---|---|---|---|
| ARP | `UProtocols.cc` 27–386 | `ARP::ARPTable` (cache, ≤ 4096 entries), `Tester::ARPingIsTesting/IsReceived` flags, `ARPLock` | `ARP::Main` (receive handler), `RequestFrom` (resolve or busy-wait), `Tester::ARPing` (probe) | `Main` runs in the receive interrupt; `RequestFrom` runs in system calls and in the interrupt (echo replies); `ARPing` runs in a system call |
| IPv4 tables | `UProtocols.cc` 625–716, 1322–1417 | `AdapterIPAddressTable` (≤ 100), `RouteTable` (≤ 30), `IPLock` (initialised, never taken) | `IPFind`, `IPAllocate`, `IPDelete`, `RouteTableMatch`, `MaskToNum`, `INet_SetIPAddress`, `INet_DelIPAddress`, `INet_RTAddStatic` | system calls; read by the interrupt |
| IPv4 protocol | `UProtocols.cc` 399–830 | `Protocols[0xFF]` dispatch table | header get/set, checksum, `ToDevice` (address + ARP + identification), `Main` (validate, filter, dispatch) | both |
| ICMP / ping | `UProtocols.cc` 834–1264 | `PingEcho::IsTesting/IsReceived/CurrentID/CurrentSN` | `PingEcho::Ping` (5 echoes), `ICMPv4::Main` (match reply, answer request) | `Ping` in a system call, `Main` in the interrupt |
| NIC driver | `UNetworkAdapter.cc` | 16-slot TX and RX descriptor rings, `TDT`/`RDT` registers | `Transmit` (fill tail slot, advance, spin on DD), `Receive` (drain done slots), `Reset`, `Intel8254xInterrupt` | both |
| Frame codec and dispatch | `UEtherFrame.cc` | frame bytes and size, `GlobalEtherFrameBuffer[180]` | `SetData`, `EraseData`, `Resize`, `FrameFilter`, `FrameBufferHandler` | both |
| Socket shim | `USocket.cc`, `file.c` | the file table `ftable` (entries with `ref`, `type`, `Socket.Type/Desc`) | create and accept (filealloc, controller `Open`/`Accept`, `fdalloc`), close (`fileclose`, `DestorySocket`), dispatch of bind/listen/read/write to the TCP/UDP controllers, whose code is not in `src` | system calls |

The parts interact along one path. The NIC interrupt is routed to the
last CPU (`ioapicenable(IRQLine, ncpu - 1)`). It drains the RX ring into the
global frame buffer. `FrameBufferHandler` then filters each frame (broadcast
or own MAC) and dispatches it by EtherType to `ARP::Main` or `IPv4::Main`.
`IPv4::Main` dispatches by protocol number to `ICMPv4::Main`.

Outbound traffic takes the reverse path. A protocol builds a frame;
`IPv4::ToDevice` finds the adapter's address and resolves the destination
with `ARP::RequestFrom`; `EthernetFrame::ToDevice` then calls `Transmit`.
System calls run on the other CPUs, concurrently with the interrupt. Only
`ARPLock` is ever taken; the address table, the route table, the tester flags
and the TX ring are shared without a lock.

What is hard to test here is what the models are for:
- interrupt/system-call interleavings on the shared tables and flags;
- replies that arrive late or for another request;
- busy-waits that can never succeed;
- boundary cases of the table scans.

`PROJECT.json` lists each hazard at its line and names the property that
covers it, or says why none does yet.

## 2. Modules

### `RouteLookup` — route selection (pure operators)
An address or a mask is the stored DWORD, narrowed to `AddrBits` bits.

- `MaskedEqual`: the `(d & m) == (t & m)` lambda.
- `RouteMatches`: the indices the `MatchTable` loop collects.
- `RouteBefore`: the qsort comparator. qsort is not in `src`, so
  `RouteTableMatch` may return any match that no other match is ordered
  before.
- `MaskToNum`: the bit length of the DWORD, with 0 mapped to the full width.
- `RouteTableMatch`: its outcome is `RouteFault` when the last route does not
  match. There the loop's `++First` runs after `find_if` returned `Last`, so
  the iterator passes `end()` and the scan reads beyond the table. That is
  undefined behaviour, and the model treats it as a fault.
- `RTAddStatic`: the table update of the `INet_RTAddStatic` system call,
  with the return value. A route to a network through a gateway takes the
  adapter of the first default route through that gateway
  (`RouteTableFindDefault`, the `RouteTableFind` lambda), and returns
  0xDEADBEEF when there is none. Other routes take the device argument, and
  return 0xBAADF00D when it is out of range. A gateway route's destination
  is masked, and a host route's mask is all ones. The error codes are kept
  as the `int` values the call returns. `Flags` is left out of `Route`,
  because it is a function of `Gateway`.

### `Arp` — the ARP component
Each variable stands for a piece of the code:

| Variable | Code |
|---|---|
| `arpTable` | `ARP::ARPTable` |
| `ipTable` | `AdapterIPAddressTable` |
| `routeTable` | `RouteTable` (constant `InitRoutes`) |
| `inbox` / `outbox` | frames on the links |
| `arpingTesting`, `arpingReceived` | the tester flags |
| `pc`, `target`, `rfResult` | each system-call CPU's position, address and `RequestFrom` result |
| `heard`, `outcome` | history: replies seen during an arping, and what it reported |
| `trap` | the kernel stopped on a divide error or a route-scan fault |

Actions:

| Action | Code |
|---|---|
| `SetIPAddress` | `INet_SetIPAddress` + `IPAllocate` |
| `DelIPAddress` | `IPDelete` |
| `RequestFromStart` | entry of `RequestFrom`: no address → nullptr, cached → MAC, miss → broadcast and poll |
| `RequestFromFound` / `RequestFromTimeout` | the poll loop |
| `ARPingStart` | flags, route and sender lookup, trap paths, send |
| `ARPingFinish` | end of the wait: report, clear flags |
| `ArpMain` | the whole of `ARP::Main`: tester branch, refresh under lock, insert-if-new, reply |

The environment has three more actions: `HostAnswer` (a host answers a
request for its address), `HostRequest` and `FrameLost`. After a trap, only
the `Halted` stutter remains.

Three abstractions keep the model small:
- **Addresses.** A MAC address is the adapter or host model value.
- **Busy-waits.** The budgets are not counted, so a wait may end after any
  number of steps.
- **Atomicity.** `ArpMain` is one atomic step. Interrupts are serialized on
  one CPU, so it is atomic relative to itself. Its unlocked reads of the
  address table are not yet interleaved with the system calls (hazard at
  line 374).

`MC_Arp` fixes a small instance:
- one adapter;
- one host at address 1;
- addresses 0..3;
- address 2 assignable to the adapter;
- a default route through gateway 1, followed by a host route to the
  host, in the order `INet_RTAddStatic` appends them. Both tables are
  ones that the call builds.

### `NicTx` — the transmit ring
| Variable | Code |
|---|---|
| `tdesc` | `TDescLayout[0..15]`, reduced to the frame a descriptor points to and its DD bit |
| `tdt`, `tdh` | the TDT register (written by `Transmit`) and TDH (advanced by the device) |
| `txpc`, `txTail` | each caller's position in `Transmit` and its local `TransmitTail` |
| `sends`, `wire` | history: frames handed to `Transmit`, frames the device sent |

`Transmit` is split where it touches shared state:
- `TxRead`: the TDT read (line 129);
- `TxFill`: the descriptor writes (130–135);
- `TxBump`: the TDT write (136–137);
- `TxWait` / `TxSpin`: the DD poll (138–141). `TxSpin` is one turn of the
  loop, so a hang is an infinite stutter, not a deadlock.

`DeviceSend` is the hardware: while TDH ≠ TDT it sends the descriptor at
TDH, writes DD and advances TDH. A caller is a context that transmits: a
system-call CPU, or the receive interrupt sending an ARP or echo reply.
`Transmit` takes no lock, so the callers interleave freely.

### `NicRx` — the receive ring and interrupt
| Variable | Code |
|---|---|
| `rdesc` | `RDescLayout[0..15]`: frame, accepted/rejected, DD bit |
| `rdh`, `rdt` | RDH (advanced by the device) and RDT (written by `Receive`) |
| `icr` | the RXT0 cause bit of ICR |
| `isr`, `buf`, `ret` | the handler's position, `GlobalEtherFrameBuffer[0..BufferSize)`, `Receive`'s result |
| `arrived`, `dropped`, `delivered`, `discarded` | history: arrivals, overruns, frames handed to `FrameBufferHandler`, frames of aborted batches |
| `trap` | `Receive` wrote past `GlobalEtherFrameBuffer` |

Actions:
- `DeviceReceive` / `DeviceDrop`: the hardware. It fills slot RDH while
  RDH ≠ RDT and raises RXT0; otherwise it drops the frame.
- `IsrStart`: `Intel8254xInterrupt` up to the `Receive` call, including
  `HasInterrupt`, whose ICR read clears the cause.
- `RxNext`: one iteration of `Receive`'s loop. It has four outcomes: break
  on DD clear; error return on a rejected descriptor; out-of-bounds store
  when the buffer is full; copy, clear DD and advance RDT.
- `IsrFinish`: `ClearInterrupt` (a second ICR read) and the
  `FrameBufferHandler` call.

A "bad" frame stands for the three rejections (short, no EOP, error bits),
which have the same effect. `EtherFrameBufferCurrentSize` is a QWORD, so the
error guard at line 410 never matches a sign-extended negative `int`.
`FrameBufferHandler` receives the size truncated back to a negative `int`,
and its loop does nothing. `IsrFinish` models exactly this.

**The abstract channel.** `RxChannel` states what the receive path promises
the stack. Frames are numbered in arrival order. Each frame is either
accepted into a FIFO `queue` or dropped. The driver takes a prefix of the
queue and either delivers it (`Deliver`) or discards it (`Discard`).
`NicRx` maps onto it by `RxQueue`: the batch of the running `Receive`,
followed by `RingFrames`, the frames of the slots from RDT+1 up to RDH-1.
The frame buffer is counted only while the interrupt runs. After
`IsrFinish` it holds frames that were already handed on. The steps map as
follows:
- `DeviceReceive` is `Accept`, and `DeviceDrop` is `Drop`.
- A frame `Receive` copies moves from the front of the ring to the back of
  the batch. This is the same place in `RxQueue`, so the channel does not
  change.
- `IsrFinish` is `Deliver` or `Discard` of the whole batch. With an empty
  batch it changes nothing.
`RxImplementsChannel == Channel!Spec` is the refinement property.

### `FrameCodec`, `EchoCodec`, `IcmpTypes` — the frames at the byte level
`FrameCodec` models `EthernetFrame` (`UEtherFrame.cc`) and the IPv4 and
ICMPv4 views over it (`UProtocols.cc`) as pure operators on a record
`[data, size]`. `data` is the `Data` array as a sequence; `size` is
`FrameSize`. Every view's accessors go through the base class's
`GetData`/`SetData` with the view's offset, as the code does. A field
written through one view is therefore read back through another. Multi-byte
fields go through the `Splitter` union: network order when `Reverse` is
set, memory order for the IPv4 addresses. The model keeps the first 100 of
the 1518 bytes of `Data`. The frames the checks build are at most 82 bytes.
`VerifyChecksum` and `ICMPv4::VerifyChecksum` are the ones'-complement sums
of the code:
- the checksum word is skipped when computing;
- an odd ICMP length takes the byte after the data;
- the carry loop is folded twice, which is all it can run for a sum of
  fewer than 2^16 words.

`EchoCodec` builds the frames of the echo exchange:
- `PingTemplate` is `Ping` before its loop.
- `PingFrame(.., k)` is the object after the k-th pass. Each pass sets the
  sequence number and calls `ToDevice` on what the previous pass left,
  so the old checksums and the incremented identification are in the
  header while the new sums are computed.
- `Received` is what the peer's `GlobalEtherFrameBuffer` slot holds after
  the copy.
- `ResponseFrame` is `ICMPv4::Main`'s reply.
- `Accepted` is every check the receive path makes before the echo
  handling.

The inputs are:
- header garbage 0 or 255;
- two payloads, all ones (every word sum carries) and a varied one;
- two identifiers;
- two values for a fresh IP identification.

Three constant sets collect the passes whose frames have a property:
- `DecodingPasses`: the peer accepts the frame and reads back what `Ping`
  wrote.
- `MirroredPasses`: the reply to the frame is accepted by the requester,
  with the addresses swapped.
- `BitErrorDetectingPasses`: every single-bit flip of the IPv4 header or
  the ICMP message fails `IsValid`.

`IcmpTypes` holds the ICMP type numbers and the burst length (5), shared by
the codec and the state machine.

### `Icmp` — Ping and the ICMP receive path
| Variable | Code |
|---|---|
| `isTesting`, `isReceived`, `currentID`, `currentSN` | `PingEcho::IsTesting/IsReceived/CurrentID/CurrentSN` |
| `pc`, `target`, `device` | where `Ping` is, `TargetIPAddress`, the adapter `RouteTableMatch` chose |
| `pingSent`, `pingReceived`, `unanswered` | `Ping`'s counters |
| `arpCache` | the hosts the ARP table resolves |
| `inbox` / `outbox` | frames from the hosts / echo frames this kernel sent |
| `trap` | the kernel stopped on a route-scan fault or a divide error |
| `replied`, `counted`, `served`, `pings` | history: matched replies, replies `Ping` counted, requests answered, `Ping` calls |
| `routes` | `IPv4::RouteTable`, empty at boot |

`Ping` is split at its loops' exits:
- `PingStart`: flags, route, sender address, and the trap paths.
- `PingPrepare`: draws `CurrentID`.
- `PingSend`: sets `CurrentSN` and sends, or finds the target uncached.
- `PingArpPoll`: the `RequestFrom` poll.
- `PingCollect`: the end of the reply wait.
- `PingEnd`: the report.

`IcmpMain` is the whole of `ICMPv4::Main` in the interrupt:
- an echo reply matching `CurrentID`/`CurrentSN` during a test sets
  `IsReceived`;
- an echo request to the adapter's address is answered. The reply is
  dropped when the requester is not in the ARP table, because inside the
  interrupt the ARP poll cannot see an answer.

The hosts answer late, twice or never (`HostEchoReply`), send requests
(`HostEchoRequest`), answer ARP (`HostArp`), and frames are lost
(`FrameLost`). `INet_RTAddStatic` runs on another CPU at any point and
applies `RTAddStatic`. A call that fails leaves the table as it was.

**Fairness.** `WF(PingStep)`: the system call, once started, keeps
running, and each of its waits ends by its budget. Hosts and the
interrupt get no fairness.

**Bounds.** `MC_Icmp` uses addresses 0..3, adapter `eth0` at 2 and `eth1`
without an address, and hosts at 1 and 3. It allows one `Ping` call and
one frame in flight to the kernel. A reply that arrives after the call
ended still reaches the interrupt, which is what a flag left over from an
earlier test needs. Up to two `INet_RTAddStatic` calls come from four
requests:
- the default route through gateway 1 on `eth0`;
- a host route to 3 on `eth1`;
- a route to 1's network through gateway 1, with `eth1` as its ignored
  device argument;
- a host route with a device index out of range.

In their possible orders, interleaved with `Ping`, these calls reach:
- the empty table, which gives the divide error;
- the route-scan fault;
- both adapters;
- the 0xDEADBEEF and 0xBAADF00D failures;
- a gateway route built through the default route.

Two `Ping` calls with this route space take about ten minutes, and one
call already covers every property. Each `Ping` sends five echoes, so
every pass of the loop is on the wire.

### `Socket` — sockets over the file table
| Variable | Code |
|---|---|
| `ref`, `ftype`, `stype`, `desc` | `ftable.file[s]`: `ref`, `type`, `Socket.Type`, `Socket.Desc` |
| `ofile` | each process's descriptor table |
| `pc`, `lf`, `ff` | each process's position in its call, its `struct file*`, and `fileclose`'s copy `ff` |
| `open` | the descriptors each transport controller has open |
| `panicked` | the kernel called `panic` |

`ftable.lock` is held only inside `filealloc`, `filedup` and `fileclose`,
so the calls are split where the lock is released:
- `CreateAlloc` / `CreateOpen`: `CreateSocket` before and after
  `filealloc`, then `fdalloc` (`InstallOrClose`), whose failure calls
  `fileclose`.
- `AcceptAlloc` / `AcceptDone`: the same for `SocketAccept`. A failed
  `TCB<4>::Accept` frees the entry while its type is still `FD_NONE`.
- `Close`: `sys_close` and the locked part of `fileclose`. The last
  reference copies the entry into `ff` and frees it.
- `Destroy`: `DestorySocket(&ff)` after the unlock.
- `Dup`: `sys_dup` with `filedup`.
- `FileWrite`: `write(2)` on a socket, which panics.

The transport controllers are not in `src`. Their `Open`, `Accept` and
`Close` are modelled from the specification as a set of open descriptors
per type. `Open` returns -1 when the set is full, and `CreateSocket`
stores it unchecked. `fdalloc`, `sys_close` and `sys_dup` are modelled
from the specification too (xv6's, which take the lowest free descriptor).

**Bounds.** `MC_Socket` has two processes, two file entries, two
descriptors per process and two descriptors per controller. That is the
smallest instance with each of these:
- one process's freed entry is taken by the other before
  `DestorySocket` runs;
- a controller fills up;
- a process holds one socket twice.

No liveness is checked: every step of a call under way is always
enabled, so a call always returns.

## 3. Runs

| Run | cfg | Result | What it shows |
|---|---|---|---|
| `arp_core` | `MC_Arp.cfg` | pass (≈118k states) | `TypeOK`; `UniqueArpEntry`: the cache never holds two entries for an address. One system-call CPU. |
| `arping_passed` | `MC_Arp_PassedSound.cfg` | violation of `ARPingPassedSound` | A `RequestFrom` for address 1 times out; an arping to address 3 starts; the late reply from 1 sets the flag; the arping reports Passed. |
| `arp_fault` | `MC_Arp_Fault.cfg` | violation of `ArpNoFault` | An arping with the default and a host route installed faults. For any target other than the host route, the route scan walks past the end of the table. Before an address is assigned, `EndTesting` divides by `Count = 0`. |
| `tx_core` | `MC_NicTx.cfg` | pass | One transmitting context on the real 16-slot ring, wrapped twice. `TxWireSound`: the device sends every frame once and never an unfilled descriptor. The two-context case is `tx_rollback`. |
| `tx_rollback` | `MC_NicTx_TxWireSound.cfg` | violation of `TxWireSound` | Two contexts. One reads TDT = 0; the other sends two frames (TDT = 2). The first writes TDT = 1, moving the tail backwards, and the device walks the ring again and sends a descriptor nobody filled. |
| `rx_core` | `MC_NicRx.cfg` | pass | Good and rejected frames, overruns, and a 2-entry frame buffer. `RxRingOwnership`: DD is set exactly on the slots between RDT and RDH. `RxDeliveredInOrder`: frames are delivered in order, each once. `RxNoFrameLost`: an accepted frame is in the ring, the current batch, delivered, or in a batch an error aborted. `RxImplementsChannel`: the receive path implements the FIFO channel `RxChannel`. |
| `rx_overflow` | `MC_NicRx_Overflow.cfg` | violation of `RxBufferInBounds` | The device refills the ring while `Receive` drains it, and the store index passes the buffer's end. |
| `rx_lost_interrupt` | `MC_NicRx_LostInterrupt.cfg` | violation of `RxEventuallyDelivered` | Frame 2 arrives after `Receive`'s last poll. `ClearInterrupt` erases its cause, and it stays in the ring. |
| `rx_wedge` | `MC_NicRx_Wedge.cfg` | violation of `RxErrorRecovers` | A rejected descriptor is never released. Every later interrupt returns at the same slot. |
| `ping_core` | `MC_Icmp.cfg` | pass (≈722k states, ≈50 s) | Hosts answer late, twice or never; frames are lost; ARP misses; static routes are added during the call. `PingTerminates`: every `Ping` returns. `EchoRepliesAnswerRequests`: a reply answers a request addressed to the adapter, with mirrored addresses. `PingEchoesDecode`, `EchoReplyMirrors`, `SingleBitErrorsDetected`: every echo on the wire is, as bytes, a frame the peer decodes, a reply that mirrors its request, and a frame whose checksums catch any single-bit error. |
| `ping_report` | `MC_Icmp_Report.cfg` | violation of `PingCountsOwnReplies` | Echo 1 times out. Its late reply sets `IsReceived` while `CurrentSN` is still 1, and `Ping` counts echo 2 as answered without a reply. |
| `socket_core` | `MC_Socket.cfg` | pass (≈27k states) | Two processes create, accept, dup, write and close sockets. `RefCountsExact`: each entry's `ref` is the number of descriptors and in-flight calls holding it. `DescOwnedOnce`: each open transport descriptor belongs to exactly one socket or pending `DestorySocket`, although `fileclose` releases the table before `DestorySocket` runs. |

**Bounds.** Two address bits give four addresses. That is enough for:
- the host's address;
- the adapter's address;
- an address nobody owns;
- a default route and a host route.

One host and one adapter suffice because every property is about one cache
entry or one arping at a time. The passing run keeps one CPU because two
CPUs with all the frames multiply the state space: a passing two-CPU run
takes about nine minutes. For the same reason no run checks that an arping
reporting Timeout heard no reply from its target. With one CPU that
statement holds by the shape of the code. With two CPUs TLC violates it
within a few steps: a second arping resets the shared received flag, and
the first to finish clears it for the other (hazard at line 184).

The NIC runs use these bounds:
- `tx_core` uses the real ring size and 34 frames, enough to wrap it
  twice. With one context `Transmit` is sequential, so the state space is
  small whatever the bound.
- `tx_rollback` needs a ring of 3 and two frames per context: enough for
  one context's tail to fall two slots behind. On this instance the
  unlocked tail (hazard at line 129) also lets a caller return after
  another frame's DD bit, and lets a caller spin forever. No run states
  those two consequences. With one context they hold by construction.
- `NicRx` uses a ring of 3, i.e. two descriptors owned by the device, so
  it covers overrun, wrap-around and refills during a drain. The frame
  buffer is scaled down with it. The overflow depends only on the drain
  outlasting the buffer, not on the ratio 180/16.

**Fairness.** `Arp` checks no liveness and assumes no fairness. Its
busy-waits are budget-bounded, so a wait ends by the clock and not by a
fair scheduler. `NicTx` checks no liveness and assumes no fairness.
Whether `Transmit` returns depends on the device completing the
descriptor, and the hardware does not promise that when the link is down
(hazard at line 138). `NicRx` assumes weak fairness only where the system
guarantees progress:
- The interrupt is delivered while RXT0 is set, and its handler runs to the
  end with interrupts off (`WF` of `IsrStart`, `RxNext`, `IsrFinish`).
- Arrivals are not fair. No frame has to come.

**Mutants.** Each property of the passing run is broken by a plausible
bug:
- `RequestFrame` with the broadcast sender hardware address breaks
  `TypeOK`;
- `CacheUpdate` without the existing-entry check breaks `UniqueArpEntry`;
- In `NicTx`, two mutants of `TxBump`:
  - TDT not reduced modulo the ring size breaks `TypeOK`;
  - TDT advanced by two breaks `TxWireSound`.
- In `NicRx`, four mutants:
  - no DD test breaks `TypeOK`;
  - DD not cleared on release breaks `RxRingOwnership`, and also
    `RxImplementsChannel`: a stale frame is taken again;
  - `BufferSize` not reset breaks `RxDeliveredInOrder`;
  - a batch of one frame not handed on breaks `RxNoFrameLost`.
- In `Icmp` and the codec, six mutants:
  - `Ping`'s loop running one pass too many breaks `TypeOK`;
  - the destination filter checking only that the adapter has an address
    breaks `EchoRepliesAnswerRequests`;
  - the reply wait without its budget, ending only on `IsReceived`, breaks
    `PingTerminates`;
  - the IPv4 checksum word summed when computing breaks `PingEchoesDecode`;
  - the reply's destination not swapped breaks `EchoReplyMirrors`;
  - the ICMP sum stopping one word short breaks `SingleBitErrorsDetected`.
- In `Socket`, three mutants:
  - `sys_dup` without `filedup`'s increment breaks `TypeOK` (a later close
    drives `ref` below 0);
  - an `fdalloc` failure returning without `fileclose` breaks
    `RefCountsExact`;
  - `DestorySocket` given the entry instead of the copy `ff` breaks
    `DescOwnedOnce`.

## 4. Proofs

### `ArpProofs`

The following are proved for all values of the constants, under
`ArpConstantsAssumption` and `AddrBitsAssumption`:
- `TypeCorrect == Spec => []TypeOK`
- `ArpEntriesUnique == Spec => []UniqueArpEntry`

Neither invariant is inductive alone. `ARPTableFind` and `IPFind` return the
first matching index (`SelectInSeq`), and the provers can only pin that
index down when at most one entry matches. The inductive invariant is
`IInv == TypeOK /\ UniqueArpEntry /\ UniqueIPEntry /\ BusyHasTarget`:
- `UniqueIPEntry`: each adapter has at most one address.
  `INet_SetIPAddress` keeps this by refusing a second one.
- `BusyHasTarget`: a CPU inside `RequestFrom` or `ARPing` has an address to
  work on, which makes the outcome record well typed.

The proof runs as follows:
- Lemmas `ArpFindUnique`/`IPFindUnique` show that a lookup in a table with
  unique keys returns 0 exactly when no entry matches, and otherwise the
  matching index.
- `RefreshedFacts` shows that refreshing a MAC keeps every address.
- `RemoveAtFacts` describes `erase` via `SubSeqProperties`.
- There is one lemma per action, and `NextIInv` combines them by cases on
  `Next`.
- The theorems follow by `PTL`.

### `NicRxProofs`

The following are proved for every `RxSlots > 1`, `MaxFrames`, `FrameKinds`
and `FrameBufferMax`, under `NicRxAssumption`:
- `RxTypeCorrect == Spec => []TypeOK`
- `RxRingOwned == Spec => []RxRingOwnership`

`RxRingOwnership` says that DD is set exactly on `Pending`, the slots from
RDT+1 up to RDH-1 modulo the ring size. The invariant that is inductive is
`IInv == TypeOK /\ RxRingOwnership /\ FilledHasFrame /\ BufferBounded /\ RetIsBatch`:
- `FilledHasFrame`: a slot with DD holds a frame in `1..MaxFrames`. A
  frame Receive copies into the buffer is then well typed.
- `BufferBounded`: the buffer never holds more than `FrameBufferMax`
  frames. Receive traps instead of writing past it.
- `RetIsBatch`: after Receive, `ret` is the batch length or -1. The
  `SubSeq` in `IsrFinish` is then within the buffer.

The proof runs as follows:
- `ModLow`, `ModNeg` and `ModSucc` are facts about `%` for a symbolic modulus.
- `DeviceShift` shows that when the device fills the slot at RDH and
  advances RDH, `Pending` grows by exactly that slot. `ReleaseShift` shows
  that when Receive releases RDT+1 and moves RDT onto it, `Pending` loses
  exactly that slot.
- There is one lemma per action, and `NextIInv` combines them.
- Both theorems follow by `PTL`.

Before the proof was written, TLC checked `IInv` as an invariant with the
`rx_core` constants (956 states).

### `NicRxOrderProofs`

The following are proved for every `RxSlots > 1`, `MaxFrames`, `FrameKinds`
and `FrameBufferMax`, under `NicRxAssumption`:
- `RxInOrder == Spec => []RxDeliveredInOrder`
- `RxNoLoss == Spec => []RxNoFrameLost`

Neither property is inductive alone. A frame reaches `delivered` only
through the ring and the batch buffer, so the proof follows each frame
along that path.

`RxDeliveredInOrder` rests on `OrderIInv == IInv /\ Ordered`, where
`Ordered` adds four facts:
- `RingOrdered`: read in ring order from RDT+1, the pending slots hold
  increasing frames. `Dist(s)` is the distance of slot s from RDT+1. This
  is what makes the frame Receive takes at RDT+1 the oldest one.
- `BufOrdered`: the batch of the running Receive is increasing.
- `Layered`: delivered frames come before the batch, and the batch comes
  before the ring. Without this, IsrFinish could append an older batch.
- `Arrived`: no frame on the path is newer than `arrived`. The frame the
  device writes at RDH is then larger than every frame already there.

`RxNoFrameLost` rests on `LostIInv == IInv /\ RxNoFrameLost`. It needs
`RetIsBatch` from `IInv`: when Receive returns a count, IsrFinish hands on
the whole buffer, and an error return discards it.

The proof runs as follows:
- `DistShift` and `DistFacts` restate `DeviceShift` and `ReleaseShift` of
  `NicRxProofs` in terms of `Dist`.
- `ConcatOrdered` is an operator lemma. Appending an increasing sequence
  whose elements exceed those of an increasing sequence gives an increasing
  sequence.
- There is one lemma per action for each invariant. `NextOrderIInv` and
  `NextLostIInv` combine them with `NextIInv`.
- Both theorems follow by `PTL`.

Before the proof was written, TLC checked `OrderIInv` and `LostIInv` as
invariants with the `rx_core` constants (956 states), and with 4 slots,
7 frames and a 3-entry buffer (5,091 states).

### `NicRxChannelProofs`

The following is proved for every `RxSlots > 1`, `MaxFrames`, `FrameKinds`
and `FrameBufferMax`, under `NicRxAssumption`:
- `RxRefinesChannel == Spec => RxImplementsChannel`

This is a refinement: `NicRx` implements `RxChannel` under the mapping
`RxQueue`. The invariant needed is the `IInv` of `NicRxProofs`:
- `RxRingOwnership` makes the slot `Receive` copies lie at the front of
  the pending run.
- `RetIsBatch` makes `IsrFinish` hand on or discard the whole batch, which
  is a prefix of `RxQueue`.

The proof runs as follows:
- Position lemmas. `PosWrap`, `PosSlot` and `PosNext` locate the i-th slot
  after RDT. `RunGrow` shows that the device's step lengthens the run by
  one, at slot RDH.
- `RingFacts` gives the type of the mapping, its length (`RunLen`) and its
  elements.
- Sequence lemmas. `QueueAppend` and `QueueSuffix` are built on
  `SequenceTheorems`.
- There is one lemma per action. `DeviceReceive` is shown to be `Accept`,
  by comparing the two sequences element by element (`SeqEqual`).
  `Receive`'s copy step leaves `RxQueue` unchanged. `IsrFinish` is
  `Deliver`, `Discard` or a stutter.
- `NextChannel` combines the lemmas. The theorem follows by `PTL` from
  `InitChannel`, `NextChannel` and the invariance of `IInv`.

Before the proof was written, TLC checked the property on the `rx_core`
constants (956 states), and on 4 slots, 7 frames and a 3-entry buffer
(5,091 states). The mutant that leaves DD set on release
(`RxNextKeepDD`) breaks it.

### `NicTxProofs`

The following are proved under `NicTxAssumption`. That assumption now also
says that the empty descriptor's frame `NoFrame` is no caller's frame.
- `TxTypeCorrect == Spec => []TypeOK`, for any set of contexts, every ring
  size and every `MaxSends`. It is inductive with `CountedCurrent`: a
  context inside `Transmit` has counted its frame, so the descriptor
  `TxFill` writes names a frame in `Frame`.

No other property of `NicTx` is proved. `TxWireSound` holds with one
context, but the code has two: the receive interrupt sends ARP and echo
replies, and a system call on another CPU sends too. With two contexts the
property fails (`tx_rollback`). A theorem for one context would leave out
that case.

### `SocketProofs`

The following are proved for every set of processes, every `NFILE`,
`NOFILE` and every finite set of descriptors `Descs`, under
`SocketAssumption`. That assumption includes `0 \in Descs`: descriptors
index the controllers' connection tables from 0, and the zeroed file table
holds `Socket.Desc = 0`.
- `SocketTypeCorrect == Spec => []TypeOK`
- `RefCountsAreExact == Spec => []RefCountsExact`
- `DescsOwnedOnce == Spec => []DescOwnedOnce`

None of the three is inductive alone. The inductive invariant is
`IInv == TypeOK /\ RefCountsExact /\ InFlightOwned /\ FreeIsNone /\ OwnedUnique`:
- `InFlightOwned`: a call between `filealloc` and `fdalloc` holds an entry
  with `ref = 1` and type `FD_NONE`. The count then says that no one else
  points to that entry. So `fdalloc`'s failure path, or a failed `Accept`,
  can free it, and installing it adds no second holder of a descriptor.
- `FreeIsNone`: an entry with `ref = 0` is `FD_NONE`. An entry that
  `filealloc` takes therefore holds no descriptor.
- `OwnedUnique`: `DescOwnedOnce` with the count of holders replaced by
  "some holder, and any two are the same". This lets each step be argued
  holder by holder, without cardinalities.

The proof runs as follows:
- `NatSetHasLeast` (from `WFMin` on `<` over `Nat`) gives `FirstFree` and
  `LowestFd` their meaning: a free entry and a null `ofile` slot.
- `RefSplit`, `SoleFlightRef` and `SoleOfileRef` turn a count of 1 into
  "this is the only reference" (`FS_Singleton`, `FS_EmptySet`).
- `AllocIInv` covers both `filealloc`s. `InstallIInv` covers both ends of
  `CreateSocket`/`SocketAccept`, success and `fdalloc` failure.
- `CloseIInv` covers `sys_close`. On the last reference, the entry's
  descriptor passes to the closing process's copy `ff`. `DestroyIInv` then
  closes a descriptor that nothing else holds.
- `DupIInv` adds one `ofile` reference (`FS_AddElement`). `QuietIInv`
  covers the panic and stuttering.
- `OwnedUniqueDescOwnedOnce` counts the holders, and the theorems follow
  by `PTL`.

Before the proof was written, TLC checked `IInv` as an invariant with the
`socket_core` constants (26,588 states).

## 5. Not modelled, or only model-checked
- **Not proved by TLAPS.** Liveness, ENABLED and recursive definitions are
  beyond the prover. What stays with TLC only:
  - the liveness properties of `NicRx` and `Icmp`, which need fairness and ENABLED;
  - everything in `Icmp` and the byte-level codec, which reach a
    recursive sum.
- **The route table in `Arp`.** It is a constant there, chosen from the
  tables `INet_RTAddStatic` builds. In `Icmp` the table grows by the call.
  `INet_RTDelete` is a stub that returns 0.
- **IPv4 dispatch.** `IPv4::Main`'s protocol table is not modelled: `Icmp`
  receives ICMP frames only. Protocol 255 indexes one past the 255-entry
  table (hazard at line 826).
- **Two `Ping` callers.** `Icmp` has one. The shared-flag race of two
  callers is the one `arp_core` shows for `ARPing`.
- **Socket data calls.** Bind, listen, read, receive-from, write and
  send-to only forward to the controllers, whose code is not in `src`, and
  change no file state.
- **NIC start-up.** `Reset`, `Open`/`Close`, the `Enable*`/`Disable*`
  register updates, `LoadMACAddress` and the multicast table run once
  before any frame. `NicTx.Init` and `NicRx.Init` start from the ring state
  they leave.
- **Transmit and receive together.** `NicTx` and `NicRx` share no state
  in the driver, so they are checked separately. Their link is the
  interrupt transmitting replies, which `NicTx` covers as a caller.
- **Out of scope.** Pipes, inodes, the console, PCI, string routines, the
  C++ runtime and the user programs hold no networking state. The user
  programs each make one system call, which is modelled.

**Defects seen in the code and not checked by a run.** Each is listed as
a hazard in `PROJECT.json`:
- `filewrite` on a socket calls `SocketWrite` and then falls through to
  `panic("filewrite")`, so a `write(2)` on a socket halts the kernel
  (`file.c:167`). `Socket` models the panic.
- `CreateSocket` does not check `Open`'s -1 (`USocket.cc:23`).
- `ICMPv4::Main` returns on an invalid frame without freeing its copy,
  leaking heap (`UProtocols.cc:1214`).
- An echo request from a host missing from the ARP table makes the
  interrupt busy-wait for an ARP reply that only the interrupt itself
  could insert (`UProtocols.cc:1238`).

## 6. Plan
1. **NIC rings.** Done: `NicTx` and `NicRx`.
2. **`Icmp`.** Done: `Ping`, `ICMPv4::Main` and the byte-level codec.
3. **Sockets and the file table.** Done: `Socket`.
4. **Route table.** `INet_RTAddStatic` is done: it is an action of `Icmp`.
   Still to do: check the route lookup against a longest-prefix reference. The reference is expected
   to fail, for the metric-0 comparator and for `MaskToNum` on stored masks.
   All twelve runs are in use, so this needs an existing configuration to
   take the question on.
5. **`ArpSplit`.** `ARP::Main` split at its unlocked reads of the address
   table, with the atomic `Arp` as its abstract specification
   (`INSTANCE Arp WITH ...` as a refinement).
6. **Proofs.** Done: `ArpProofs`, `NicRxProofs`, `NicRxOrderProofs`,
   `SocketProofs`, `NicTxProofs`, and the refinement of `RxChannel` by
   `NicRx` (`NicRxChannelProofs`). Next: the refinement step lemmas for
   `ArpSplit`.
