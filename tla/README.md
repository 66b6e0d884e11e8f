# A TLA+ verification project for the W5500 web server firmware

The firmware in `src/` runs on an STM32 with an external W5500 network chip, under uC/OS-II.
Two tasks do the work: `task_socket` polls the chip for data, and `task_tcpserver` is an HTTP
server that serves pages from code flash and files from an SD card. Around them the tree
keeps a heap, FatFs, an FTP server, DHCP, DNS and SNMP clients, the tasks of an earlier audio line
and a PC program (`src/server/YHServer`), none of the latter started by the present
`task_startup.c`.

This directory models the parts whose correctness depends on order, interleaving, timeouts or long
sequences of calls, checks them with TLC on small instances and proves theorems about them
with TLAPS. `PROJECT.json` lists the components, runs, mutants, the lines each
definition stands for, the findings, the hazards and the theorems.

## 1. Inventory of the system

| component | state | operations | talks to | hard because |
|---|---|---|---|---|
| HTTP server (`task_tcpserver.c`, `httpServer.c`) | descriptor `s`, `HTTPSock_Status[]`, `s_file` | one pass of `httpServer_run`: read the status, receive, parse, answer, send a part, disconnect, reopen | socket API, FatFs | the peer acts between any two calls; the state of a slot outlives the connection; a response takes many passes |
| Socket API (`w5500_socket.c`) | `s_socket_usage` | `socket bind listen send recvfrom disconnect close socket_status` | driver, mailboxes | bits must be given back on every path; `recvfrom` times out |
| Receive path (`task_socket.c`, `recvfrom`) | `g_pack`, poll index, mailboxes | poll, post, pend, copy | driver, kernel | one buffer for all sockets; a mailbox holds one pointer to it; a post races a timeout |
| W5500 driver (`w5500_core.c`) | SPI bus, `sem_w5500`, ring buffers and their offsets in the chip | register access, receive, transmit, open, listen | the chip, kernel | some calls take the semaphore and some do not; data wraps in the buffers; nobody asks for room before sending |
| Kernel (`ucosii/src`) | ready list, wait lists, ticks, lock | semaphore, mailbox, delay, scheduler lock, deletion, tick | all tasks | a pend that was timed out is still on the wait list; calls have gaps in which the tick comes |
| Heap (`lib_mem.c`) | free list, headers, counters | `pvPortMalloc`, `vPortFree` | all tasks | split and merge under any order of calls |
| DHCP client (`dhcp.c`) | state, addresses, lease, tick, retries | `DHCP_run`, `DHCP_time_handler`, `DHCP_init`, `DHCP_stop` | UDP socket, timer | answers are late, lost, repeated, or from another server; one counter of retries for all phases |
| HTTP parser, CGI | none that lasts | string functions | HTTP server | bounds of strings |
| Audio line (`task_udp*.c`, `task_play.c`) | `g_pbuff`, `is_line_established`, semaphores | receive, play, record | socket API | shared buffer without a lock |
| FTP, DNS, SNMP | protocol state machines | commands, timeouts | socket API | late and repeated answers |
| FatFs, SD card, codec, STM32 library, collections | vendored or register I/O | | | |

What makes them correct. The HTTP server never loses its socket, ends every response whole,
answers only the peer that asked, and always comes back to listening. The receive
path neither loses, repeats, reorders nor misdirects data, and a timeout never swallows a mail.
The kernel runs the ready task of highest priority, hands what is posted to exactly one
waiter, and loses no wake-up. An access on the SPI bus is not cut by another one, and the
semaphore always comes back. What is read from a ring buffer is what was written, across
every wrap. The heap gives memory nobody else holds and refuses only when there is no room.
The DHCP client gets a lease whatever happened before, keeps it, and gives it up for a reason.

## 2. The modules

| module | extends or instantiates | models |
|---|---|---|
| `W5500Chip` | | what commands do to `Sn_SR` |
| `HttpServer` | `W5500Chip` | the HTTP server task and the socket API under it |
| `SocketRx` | `RxChannel` (implements) | `task_socket`, mailboxes, `recvfrom` |
| `WebServer` | `HttpServer` (implements), `SocketRx` | the two put together |
| `Ucos` | `KernelCalls` (implements) | the kernel services in use |
| `SpiBus` | `SpiRegisters` (implements) | frames of the driver on the SPI bus, `sem_w5500` |
| `SocketRings` | | the transmit and receive buffers of a socket |
| `Heap` | `HeapSpace` (implements) | the allocator |
| `Dhcp` | | the DHCP client, servers and network |

`MCx` is the instance of `x` that TLC checks, `xProofs` holds what is proved of `x`.
The abstract specifications are layered: `SpiBus` takes the semaphore to act as
`KernelCalls` promises and `Ucos` implements, and `SocketRx` takes a receive of the
driver to be undisturbed, which `SpiBus` shows of the calls that take the semaphore.

### `W5500Chip`, `HttpServer`

`HttpServer` is the loop of `task_tcpserver`. The code reads the socket's status once per
pass (`sock_sta`) and then acts on that reading while chip and peer go on, so each
socket call is an action of its own and `pc` names the next one:

| action | code |
|---|---|
| `Sample` | `socket_status`, and the two `switch`es (`Branch`) |
| `RecvNothing`, `RecvRequest(c)` | `STATE_HTTP_IDLE`: `recvfrom` returned 0, or a request for content `c` |
| `Handle` | `http_process_handler` up to the body |
| `FirstPart`, `LaterPart` | `send_http_response_body` in the pass of the request, and in later ones |
| `Done` | `STATE_HTTP_RES_DONE` |
| `CloseWait`, `Closed` | the branches of those statuses |
| `Disconnect`, `CloseSocket` | `disconnect`, and the rest of `close`; `ret` tells the four call sites apart |
| `Socket`, `Bind`, `Listen`, `ListenCheck` | the calls that open a socket; the 5 ms after LISTEN are a step in which a peer may connect |
| `Connect`, `PeerSends`, `PeerCloses`, `ConnectionEnds` | the peers and the network |
| `DataLost` | `task_socket` replaces what is in `g_pack` before it was read |

`W5500Chip` says what a command does to `Sn_SR`; where the driver does not depend on one outcome all of
them are allowed. The receive path is reduced to `inbox`, "data is waiting", and what `WebServer`
shows it to do: `recvfrom` may return nothing although data is waiting, data may be waiting still after it was
read (`MayDrain`), and OPEN may or may not drop it. Contents are
model values with a size; `Chunk` is `DATA_BUF_SIZE - 1`. `f_read` may fail at any time.
`conn`, `job`, `rcvd` and `answers` are history: they say who asked for what
and what the latest connection has received.

### `SocketRx`, `RxChannel`

`SocketRx` is `task_socket` (`Sweep`, `Wake`), the mailbox operations of uC/OS-II as they act
(`Post`, `Pend`, `Expire`, `TimedOut`) and `recvfrom` (`TakeLen`, `Copy`). A mailbox holds a pointer to `g_pack`, so
the data a reader gets is whatever `g_pack` holds when it copies; reading the length and copying are two
steps. One poll of one socket is a step: `task_socket` has the higher priority, and does not
block between filling `g_pack` and posting it.

Whether this works depends on time, which the constant `Prompt` makes explicit: the readers in it
collect a mail before `task_socket`, which sleeps 4 ticks (20 ms), wakes up again. That is so for
a reader that is waiting in `recvfrom` when the data comes, or about to call it, since it only has to copy at most 808 bytes and is
the next task to run. It is not so for a server that is in the middle of a response.
The code guarantees nothing for such readers; `socket_rx` therefore checks its properties for the prompt reader
while the other one is as slow as it likes, and `socket_rx_post` shows what happens to the slow one.

`RxChannel` is the abstract specification: a queue per socket. `IsChannel` says that `SocketRx` implements it for the
prompt readers, with `queue` = what is in `g_pack` for the socket, then what is in the chip.

### `WebServer`

`HttpServer` with the receive path of `SocketRx` in place of `inbox`. The actions of both are
used as they are; `recvfrom` of the server becomes `Pend`, `TimedOut`, `TakeLen` and `Copy`, `Bind` also empties the chip's buffer,
`Peer` sends into it. The server is *not* assumed to be prompt. There is one socket: polls of the others only
ever empty `g_pack`, as a poll of this one does.

`IsHttpServer` says that this implements `HttpServer`, with `inbox` = data in the chip, in the pack a mail points to, or
about to be copied: what was shown of `HttpServer` holds of the composition. The module also says how old
data can reach a new connection: only as a mail that was in the mailbox when the socket was opened, and then
once (`OldDataIsLeftMail`). That one way is real: nobody empties the mailbox, so a mail that came after the last
`recvfrom` of a connection is taken for the first request of the next one.

### `Ucos`, `KernelCalls`

A task is its priority. What stands between `OS_ENTER_CRITICAL` and `OS_EXIT_CRITICAL` is one step; between
two critical sections of one call the tick may come and another task may run: `pc` is `pend` before a pend has called
`OS_Sched`, `woken` when it has come back, `sched` when another call is about to call it, `deleting` in the gap of `OSTaskDel`.

| action | code |
|---|---|
| `SemPend`, `MboxPend` | the first critical section, `OS_EventTaskWait` included |
| `PendReturns` | the second one: `OSTCBStatPend`, and `OS_EventTaskRemove` after a timeout |
| `SemPost`, `MboxPost` | with `OS_EventTaskRdy`, which also reaches a waiter that was timed out |
| `TimeDly`, `SchedLock`, `SchedUnlock`, `Sched` | the calls of the same name |
| `TaskDel`, `TaskFreed` | `OSTaskDel` of the caller up to and after the gap in which interrupts are let in |
| `Tick` | `OSTimeTick` and `OSIntExit` |

`KernelCalls` is what callers rely on, with neither ready list nor ticks: a signal or message goes to the waiter of highest
priority or into the object, and to nobody else; a pend that times out loses nothing.

### `SpiBus`, `SpiRegisters`

A driver call is a sequence of frames (`Frames`); a frame is `Select`, `Address`, `Data`, `Deselect`. The chip hears
whoever clocks the bus: an address in the middle of another frame is data to it (`Spoilt`, `Garbled`), and
bytes after chip select went high are lost. `task_socket` (priority 0) takes the processor in the middle of a frame of a lower task. The calls in
`Guarded` take `sem_w5500`, those in `Bare` (`W5500_Socket_TCP`, `_UDP`, `_Init`, `_TCP_Open`, `_UDP_Open`, `_TCP_Listen`, `_TCP_Connect`) do not.
The two sets are the calls that the socket API and the Internet libraries make, and `task_socket`'s `Read`, all of them
for streams and for datagrams. What the chip itself changes (`Answers`) is
nondeterministic: `Sn_CR` may still be set or be clear, `Sn_SR` may be anything, `Sn_RX_RSR` zero or more, a datagram may not be
as long as its header says (`Misfit`).

`Frames` is what a call begins with, `Follow` what it goes on with after what it has just read (`Decide`; a byte garbled by
another task may be anything). `Read_SOCK_Data_Buffer` has three ways out: nothing is there (`goto exit`); data is read, of a stream
(`Stream`) or of a datagram, whose header may take two frames and whose data shares the last one (`Payload`), and the offset moved
(`Done`); or a datagram does not fit its header, is copied and passed over and then given up (`goto exit`, `Exit`).
`Write_SOCK_Data_Buffer` writes the peer's address first if the socket is for datagrams (`Addressed`). OPEN and LISTEN are followed by 5 ms
of sleep (`Delay`), a look at `Sn_SR` and CLOSE if it is not what it should be (`Status`).

`SpiRegisters` is what the driver wants its bus to be: registers that are read and written at once, by a task
that has them to itself from the first access of a call to the last. `IsRegisters` says the guarded calls get that,
except while a bare call is inside a frame (`Exposed`); what happens then is the finding `spi_bus_open`.

### `SocketRings`

One TCP stream: `Write_SOCK_Data_Buffer` (`Fill`, `Send`) into the transmit buffer of one device, the chips (`Transmit`) from there
to the receive buffer of another one, `Read_SOCK_Data_Buffer` (`ReadSize`, `CopyOut`, `Return`) out of it. Offsets count modulo `Wrap` and are masked with `Size`;
`WriteCells` and `ReadCells` are the one or two frames of a run that reaches the end of the buffer. A unit of the stream is its number.
The driver does not read `Sn_TX_FSR`; `overrun` records that a call of send met too little room, and the properties hold until then.

### `Heap`, `HeapSpace`

`Heap` is `lib_mem.c`, in units of 8 bytes (`portBYTE_ALIGNMENT`, also the size of a header). The headers
of all blocks are kept as in the code: `next`, `size` and the allocated bit. The free list is walked from
`xStart` as the loops do. A call is one action, because no two tasks are ever in the heap at once: `task_socket` allocates
before `task_tcpserver` first runs, and nobody but `task_tcpserver` (its buffers, `pvTest`, and FatFs
on its behalf) allocates afterwards. `HeapSpace` is what callers rely on: regions nobody else holds, `NULL`
only when no gap is large enough. The top-bit check of the request is part of "more than is free".

### `Dhcp`

`Poll` is `DHCP_run` without a datagram, `Receive` with one, `Stray` with one from another port, whose type the code returns
uninitialised; each is `Run...` of the state, with `CheckTimeout`. `Tick` is `DHCP_time_handler`, `Stop` and `Restart` are `DHCP_stop` and `DHCP_init`.
A server stands for the one address it offers. The client takes server, lease time and addresses from every message before anyone looks at its type
(`Parse`), and never compares the transaction number, which is left out.

`dhcp.c` is written against WIZnet's socket library, whose calls take other parameters than those of this tree; the socket is modelled as
`dhcp.c` uses it. Servers and network are external. While `net` is `lossy` they do anything: datagrams are lost, repeated, delayed and overtaken, servers refuse,
addresses collide, seconds pass between any two steps, the application stops and restarts the client. From `settled` on (or all along, `reliable`) datagrams are
answered before the next second passes.

## 3. The runs

| run | checks | shows |
|---|---|---|
| `http_server` | `TypeOK NoSlotLeak FileBookkeeping WholeResponse OneAnswer SdPartIsLive ListensAgain` | no exit of `httpServer_run` loses a socket bit or leaves a slot half reset; a response that ends with no read error was delivered once and in order; a connection is answered once; no SD part outlives its socket; the server always listens again |
| `http_server_stale` | `PartIsLive`, violated | see the findings |
| `socket_rx` | `TypeOK NothingLost NoMailWhileWaiting IsChannel Delivered` | the prompt reader is immune to the slow one, no mail is lost to a timeout, refinement of `RxChannel`, and whatever arrives is returned |
| `socket_rx_post` | `PostsToConsumed`, violated | see the findings |
| `web_server` | `OldDataIsLeftMail IsHttpServer` | the HTTP server on its real receive path is the one of `HttpServer`; old data comes from a left mail only |
| `ucos` | `TypeOK RunsHighest ListsAgree NoLostWakeup LockHolds IsKernelCalls TimedWaitEnds` | the kernel's lists under every interleaving of calls, ticks and switches; refinement of `KernelCalls`; a timed wait ends |
| `spi_bus` | `TypeOK BusGivenBack FramesWhole IsRegisters CallsReturn` | the semaphore comes back on every way out of a call, the two through `exit` included; frames and offsets of guarded calls are undisturbed; every call returns, those of the lower task too, whatever the chip answers |
| `spi_bus_open` | `WritesArrive`, violated | see the findings |
| `socket_rings` | `TypeOK StreamIntact AllAccounted AllDelivered` | the stream stays intact across both ends of buffers and of offsets; nothing stays behind |
| `socket_rings_full` | `NeverOverwritten`, violated | see the findings |
| `heap` | `TypeOK Tiled FreeListOK FreeCount Restored KeepsPromise` | the heap's structure under any order of calls, refinement of `HeapSpace` |
| `dhcp` | `TypeOK LeaseKept GetsLease KeepsAsking` | a lease is got after any past, kept on a reliable network, and given up only after all retries or a NAK |

Bounds.

- `HttpServer`: two connections (what one leaves behind and the next finds), a page of one
  part, one of three parts whose last is full, a file of two parts and an empty one; two slots, of which
  the server only ever takes the first, as `SlotInv` proves for every number.
- `SocketRx`: two sockets, reads of at most two units, three units per socket, so that a read is capped, a segment spans two polls
  and a second post meets a full mailbox.
- `WebServer`: a page of one part and a file of two, two connections, reads of at most two units, three units: a
  request that takes two reads and one more, which may be of the next connection.
- `Ucos`: three tasks, one semaphore created with 1 as `sem_w5500` is, one mailbox with one message, pends for ever and for
  2 ticks, delays of one, no nested lock. Three tasks are one that waits, one that posts and one that
  overtakes; a timeout of two ticks can be met before, at and after its end.
- `SpiBus`: one server, as on the device (`task_tcpserver`; `task_ftpd` is commented out), one socket, data of one or two frames, offsets modulo 2.
  In `spi_bus` `task_socket` makes `Read` and the server nine calls, one or more of each shape (`MCShapes`): with and without the semaphore, a read, a
  write, both by turns, with a delay and a status to wait for. The seven left out are like one of these but for a register or value
  no call looks at: `getSn_RX_RSR` is like `getSn_SR`, `CLOSE` like `DISCON`, `setSn_IR` and `setSn_DPORTR` like `setSn_DIPR`, `TCP_Open`
  like `UDP_Open`, `TCP_Connect` and each of the two frames of `Init` like `TCP`. The theorems of section 4 are about every set of calls,
  and `spi_bus_open` is free to make all of them.
- `SocketRings`: buffers of 4, offsets modulo 8 from every start, calls of 1, 2 and 4 units, reads of at most 3, 6 units in all: every
  call can meet the end of the buffer and of the offsets at each position. Deadlock is not checked in the two runs
  since the stream has an end; in `spi_bus_open` it is of no interest.
- `Heap`: 13 units and requests of 0, 2, 3 and 4 units, enough for six blocks, for
  exact fits, for rests of 0 to 2 units that are not split off and for merges with both neighbours.
- `Dhcp`: two servers, one with leases of 3 s, one with leases without end; two retries, a wait of 1 s, a tick that saturates beyond all comparisons, one datagram
  under way in each direction while the network is lossy.

Limits of `LeaseKept`. A lease of 1 or 2 s is asked for again only when it is over (`leaseTime/2 < tick`, in whole
seconds), and with `MAX_DHCP_RETRY = 1` a request may be given up in the second it was sent: the property is
for leases of 3 s and more, and two retries and more (the code has 2). It is conditional on `GoesByGrant`, that no other server's
message has replaced the server and lease time since the grant. `LeaseNeverRunsOut` in section 4 proves it within just these limits
(`LeasesLast`), and `OneServerNeverRunsOut` that the condition is only needed because of other servers.

Fairness.

- `http_server`: weak fairness of the task as a whole and nothing of the peers: every call
  returns (`recvfrom` has a timeout of 600 ticks) and the only task of higher priority sleeps after each poll.
- `socket_rx`: weak fairness of each step of `task_socket`, whose delay ends, and of each reader. Nothing is assumed
  of the timeout, nor of arrivals, but those are bounded: with endless traffic on one socket the
  index never moves on, and the others starve.
- `ucos`: weak fairness of the tick and of the steps inside a call, strong fairness of each task's `OSSchedUnlock`, as
  `delay_us`, the only user of the lock, unlocks after a spin of given length whoever interrupts it.
- `spi_bus`: sleeps end and `task_socket` polls; strong fairness of each task's frames, since `task_socket` gives up the processor for
  20 ms after every poll. Each call of `getSn_CR` returns; that
  the loops of `close` and `disconnect` over it end depends on the chip.
- `socket_rings`: calls end, the reader polls, the network delivers.
- `dhcp`: `DHCP_run` is called over and over ("always called by your main task", `dhcp.h:114`), the one-second tick goes on; once
  the network is no longer lossy it delivers and the servers answer.

Every property of a passing run has a mutant, an operator marked "Bug:" before the definition it
replaces, under which TLC finds the property violated.

## 4. What is proved

Everything below holds for every value of the constants that the named assumption of the module admits. In each module
an inductive invariant (`IInv`; `HeapInv` in `HeapProofs`) is shown to hold initially and to be preserved, with a lemma per action or per
part; the theorems follow from it.

`HttpServerProofs` (`HttpAssumption`: the chunk is not empty, pages and files are disjoint, sizes are natural
numbers): `TypeCorrect`, `NeverLeaks`, `Bookkeeping`, `AnsweredOnce`, `DeliveredWhole`, `SdNeverStale`.
`IInv` adds to `TypeOK` and `FileBookkeeping`:
`AtInv` (what is known at each `pc`), `SlotInv` (the server only ever has slot 0, so the bit
it sets is the bit it clears), `SdInv` (the file is closed before the socket is opened
again), `AnswerInv` (a slot that has answered is on its way to `disconnect`) and `RcvdInv` (what the peer has, what the
slot has recorded and where the file stands agree). `DeliveredWhole` needs `FileBookkeeping` in turn: without `offset < len` the last part is not the last.

`SocketRxProofs` (`RxAssumption`: the numbers are natural, there is a socket, a read takes at least one unit):
`RxTypeCorrect`, `NoLostWakeup`, `RxNothingLost`, `ImplementsChannel`.
`IInv` adds `WantFits` (no reader is about to copy more than `g_pack`'s buffer has ever held), `Turn` (`task_socket` is only
awake when no prompt reader has a mail, which is what "prompt" means) and `OneMail` (one prompt reader at most has a mail,
and the length it took is still `g_pack`'s). Without `Turn` and `OneMail` a poll could overwrite what `NothingLost` counts
as being in `g_pack`. The refinement rests on `NothingLost`: since what is returned and queued is all that has
arrived, in order, the queue is determined by what was sent and what was received, and no step of
the path below changes it.

`WebServerProofs` (`WebAssumption`: a read takes at least one unit): `PathIsInbox` (the refinement of `HttpServer`) and `OldDataOnlyByMail`.
`IInv` says where the server can be in `recvfrom`, that what is in the chip arrived since the last OPEN, and that what is in the
pack did so too unless a mail was left (`PackFresh`, `CopyFresh`). `ServesWhole` and `ServerKeepsItsState` carry the theorems of `HttpServerProofs` over to the composition: by `PathIsInbox` each
of its behaviours is one of `HttpServer`, whose theorems are cited for `Inbox` and one slot. Their hypothesis `Served` is `HttpAssumption` for
that instance.

`UcosProofs` (`UcosAssumption`): `KernelTypeCorrect`, `HighestRuns`, `ListsStayTrue`, `WakeupsArrive`, `LockIsHeld`, `ImplementsCalls` (the refinement of `KernelCalls`),
for any number of tasks, events, messages and timeouts.
The four invariants need each other, and `CallInv`: the idle task makes no
calls, whoever pends and is on no wait list has been given the event and is
ready, a task being deleted neither waits nor sleeps, nobody pends while the scheduler is locked.

`SpiBusProofs` (`SpiAssumption`): `SpiTypeCorrect` and `SemaphoreComesBack` for any number of servers, sockets and set of calls, streams and datagrams;
`EveryWayOutPosts` says that a guarded call ends by a post and in no other way, so that none of the ways out of a read keeps the bus;
`FramesStayWhole` and `ImplementsRegisters` under the hypothesis `Careful`: there is one server, or none of them
makes a bare call. The hypothesis is needed: with two servers that open sockets, the bare call of one can be
interrupted by that of the other, which ends first and leaves a frame disturbed with nobody `Exposed`.
`IInv` says which frames a task in a call has still to send (`ParcelsAre` for what `Follow` may give it), who is on the wait list and who has the semaphore;
`Line` adds who the chip hears in a frame, and that chip select is high between frames; that a task of higher priority finishes
its frames before a lower one goes on comes from `OnCpu`, and that two guarded calls are never in frames at once from `BusGivenBack`.
The run `spi_bus_open` refutes `WritesArrive`; two theorems say how far the fault goes. `WritesArriveUnexposed`: a write can only fail
to arrive while a bare call is in a frame. `WritesArriveGuarded`: if `Api` has no bare call, `WritesArrive` holds.

`SocketRingsProofs` (`RingsAssumption`: the size of a buffer divides the range of the offsets and is less, and no call of send is longer than the
buffer): `RingsTypeCorrect`, `StreamStaysIntact`, `AllStayAccounted`. The first half is the arithmetic of offsets: how
`Ahead` and `Between` move (`EndMoves`, `StartMoves`), that the cells of one buffer's length are all different
(`CellsDiffer`) and that the one or two frames go to them (`FramesAre`). `IInv` says which unit every
cell in use holds (`Contents`), unless `overrun`, and that the registers agree with what the chips go by.
`ShortStreamsFit` says when the missing check of `socket_rings_full` does no harm: with `Total <= Size`, a connection that carries
no more than the transmit buffer holds, `overrun` stays FALSE and what is received is a prefix of what was written.

`HeapProofs` (`HeapAssumption`: there is room for `pxEnd` and one unit more, requests are natural numbers): `TypeCorrect`, `HeapTiled`,
`FreeListCorrect`, `FreeCountCorrect`, `HeapRestored`, `HeapKeepsPromise` (the refinement of `HeapSpace`). `HeapInv` says that the blocks
tile the heap (`Layout`), that each block's `next` is the free block of the next higher address (`Linked`), that no two
of them are adjacent (`Separate`), and that the counter is the number of units they cover. The loops are
tied to `Linked` first: `Visited` and `FirstIs` say that the walk meets every block of the list and stops at the least it may stop
at, by induction over the steps of the walk (`InductionOver`, a theorem about sets of naturals, which needs no operator for what is proved).
Then each half of `prvInsertBlockIntoFreeList`, the unlinking and the split are shown to keep `Layout`, `Linked` and
`Separate` and to change what is free by just the block in question. That `NULL` means "no gap is big enough" rests on
`Separate`: free units in a row lie in one block (`OneBlock`).
Two action properties follow for the callers. `BlocksStay`: whatever is split and merged around it, a block in use keeps its place and
header until it is freed. `RefusalIsBounded`: with `n` blocks in use, a request of `w` units is refused only when at most `(n + 1) * (w - 1)`
units are free. Each free unit is sent to the last block in use before it and to its rest modulo `w - 1`; were there more free
units, two would meet (the pigeonhole principle), all units between these two would be free (`FreeBetween`), and there would be room. On the instance
TLC finds both properties true and the bound reached.

`DhcpProofs` (`DhcpAssumption`): `DhcpTypeCorrect` (the retries never pass `MAX_DHCP_RETRY`) and `GivesUpForAReason`, from `AskedIs`: within a renewal
the request went out once more than retries were counted.

- `LeaseNeverRunsOut` is `LeaseKept` under `LeasesLast`: two retries or more, leases of three seconds or more. Its invariant `LInv` says, of a
  reliable network, what can be under way in each state of the client (`Orderly`). Whenever a datagram is, the clock stands at 0, and
  one refusal at most is (`CalmNetwork`); in DISCOVER no second retry is needed; in REQUEST the ACK the client waits for, or its
  request, is always under way; in LEASED the clock is at most one second past half of the lease and the lease began in the second the clock did
  (`Granted`); in REREQUEST nothing but this renewal is under way, and something is if it went to the right server. TLC checked `LInv` with three
  servers and leases of 3, 4 and 5 s first. It also finds `LeaseKept` violated with leases of 1 or 2 s, and with no retry or one: the hypothesis is needed.
- `OneServerHolds`: with one server and one retry, `GoesByGrant` always holds of a client that holds a lease, and it holds it for good.
  `Alone` says that one question or its answer is under way, or nothing. With no retry TLC finds the lease given up. `OneServerNeverRunsOut` combines it
  with `LeaseNeverRunsOut`.
- `AddressNeverChanges` holds of every network, lossy ones included: `chip` is `allocated` in LEASED and REREQUEST, and `old` is `allocated` in REREQUEST. The
  update in `DHCP_run` for an address that changed (`dhcp.c:765-770`) is dead code.

Only model-checked:

- liveness, which is beyond the prover: `ListensAgain`, `Delivered`, `TimedWaitEnds`, `CallsReturn`, `AllDelivered`, `GetsLease`;
- that hypotheses are needed: TLC refutes the conclusions without them on small instances, no theorem says so.

Every invariant and every safety property of a passing run is a theorem.

## 5. Findings

- `http_server_stale`: when a peer vanishes in the middle of a page from code flash, the `SOCK_CLOSED` branch reopens the
  socket but leaves `HTTPSock_Status` in `STATE_HTTP_RES_INPROC`. The next connection is sent the rest of that page before it asks
  for anything. For an SD file the `f_close` at the same place ends the response instead.
- `socket_rx_post`: `task_socket` posts `&g_pack` whether or not the last message was taken. The data of
  that message is overwritten by then, and the result `OS_ERR_MBOX_FULL` is ignored.
- `spi_bus_open`: OPEN, LISTEN and the registers written before them go out without `sem_w5500`. When `task_socket` wakes up in such a
  frame, the chip takes the rest of it for something else or does not hear it, and the register keeps its value.
- `socket_rings_full`: nobody waits for room in the transmit buffer. A peer that reads slowly lets `send` write
  over units the chip has still to transmit.

Observed while reading, outside what the runs are about:

- `SPI2_ReadWriteByte` gives up after 200 tries and returns 0, which callers take for data.
- `socket` hands out eight descriptors while four of them have buffers (`w5500_socket.c:18`), and the range checks
  `s > W5500_SOCKET_NUM` let one too many pass.
- A datagram whose header crosses the end of the receive buffer leaves `offset` beyond it (`w5500_core.c:333`), where the
  16-bit remainder in `read_rx_buffer` wraps. No task that is started opens a socket for datagrams.
- `close` loops over `getSn_CR` without bound (`w5500_socket.c:157`); `getSn_RX_RSR` returns a variable it never set
  (`w5500_core.c:390`); its callers, FTP, DHCP, DNS and SNMP, are not started.
- The DHCP client gives up at once, without waiting, after its last retry or when DISCOVER has used the retries up
  before an OFFER is accepted (`dhcp.h:57-58` suggests ten seconds each); a late OFFER of another server replaces server and lease time
  of the one in use; `DHCP_IP_CHANGED` and `DHCP_IP_ASSIGN` are never returned; the chip keeps the address of a lease that was lost.

## 6. Plan

Done: `HttpServer`, `SocketRx`, `WebServer`, `Ucos`, `SpiBus`, `SocketRings`, `Dhcp`, `Heap`, with their proofs.
Left, in order of what it would add:

1. The transmit path in the composition: `SocketRings` under `WebServer`, to say what of a response the peer
   gets when `disconnect` and OPEN follow before it is transmitted. That depends on what the chip does to a connection being torn down.
2. `SocketRx` over `Ucos` and `SpiBus` in one state space, in place of the abstract specifications that connect them.
3. That the semaphore of `SpiBus` and the mailbox of `SocketRx` are instances of `KernelCalls`, as a theorem. What the latest pend returned
   (`got`) is no function of their states, so that this takes a history variable in both.

## 7. Not modelled

- HTTP parsing and formatting and the CGI handlers: string functions; the parser's result is an input of `Handle`.
- FTP server: `task_ftpd` is commented out in `task_startup.c`. As written, `disconnect` frees the usage bit of a descriptor the server keeps, so
  that control and data connection can come to share one, and the session outlives its connection.
- Audio line: its tasks are not started. `task_play` checks a header through a buffer pointer that is `NULL`, AT commands are acted on when the
  line has changed since, and `g_pbuff` is copied while it is being filled.
- PC server: a C# program whose receive threads share an unsynchronised `Queue`, the peer of the audio line.
- DNS and SNMP: vendored WIZnet code without a caller in the tree.
- SD card and FatFs: vendored; `HttpServer` has that calls fail and what they do to the file object.
- Codec, STM32 library, collections: register access and vendored containers.
- Of the driver: the hardware reset and `W5500_Init`, which run before the scheduler does; the interrupt handler, `W5500_Socket_Connect` and
  `W5500_Socket_Listen`, which nobody calls; DMA, which is compiled out; what the copy of a datagram does to memory (section 5);
  that a call for a socket out of range returns at once.
- Of the kernel: event flags, mutexes, queues, partitions, timers, pend abort, suspend and change of priority, which have no caller.
- Of the socket API: `connect`, `sendto` and sockets for datagrams are modelled in `SpiBus` only, as the driver's calls
  on the bus. `SocketRx` and `SocketRings` are about streams, without headers and addresses, and `HttpServer` listens: the tasks that are started use TCP only.
- That the prompt reader of `SocketRx` takes its mail before the next poll is assumed there, not shown; what a slow one loses is the finding `socket_rx_post`.
- That a lease is still kept once an OFFER of another server has replaced its server and time: `LeaseKept` leaves that out (`GoesByGrant`, section 3).

Most lines of the tree are code pages of FatFs, register headers, and vendored libraries; what is modelled is the
firmware's own control flow and the kernel services under it. `PROJECT.json` gives the reason for each component and, under hazards,
what is known to be delicate there.
