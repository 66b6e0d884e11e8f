------------------------------- MODULE SpiBus -------------------------------
(***************************************************************************)
(* The bus to the W5500 (src/src/HARDWARE/W5500/w5500_core.c) and the tasks *)
(* that share it: task_socket, which polls, and servers of lower priority  *)
(* that call the socket API.  An access to a register is a frame: chip     *)
(* select goes low, address and control byte, data, chip select goes high. *)
(* A call of the driver is a sequence of frames, which most calls, but not *)
(* all, protect by sem_w5500.                                              *)
(*                                                                         *)
(* A task is its priority; one of higher priority takes the processor as   *)
(* soon as it is ready.  The semaphore acts as KernelCalls promises.  The  *)
(* bytes of a register, or of a run of data, are written in one step.      *)
(***************************************************************************)
EXTENDS Integers, Sequences, FiniteSets

CONSTANTS
    Servers,    \* number of tasks that use the socket API
    Socks,      \* hardware sockets
    Api,        \* the calls the servers make
    Pointers    \* bound: Sn_RX_RD and Sn_TX_WR count modulo this

Poller == 0     \* task_socket
Tasks == 0 .. Servers

\* Calls that take sem_w5500; DISCON and CLOSE are setSn_CR.
Guarded == {"Read", "Write", "getSn_SR", "getSn_RX_RSR", "getSn_CR", "DISCON", "CLOSE",
            "setSn_IR", "setSn_DIPR", "setSn_DPORTR"}
\* Those of socket, bind, listen and connect, that do not.
Bare == {"TCP", "UDP", "Init", "TCP_Open", "UDP_Open", "TCP_Listen", "TCP_Connect"}

ASSUME SpiAssumption ==
    /\ Servers \in Nat
    /\ IsFiniteSet(Socks)
    /\ Api \subseteq (Guarded \cup Bare) \ {"Read"}
    /\ Pointers \in Nat \ {0}

\* Commands, and the values of Sn_SR as far as they matter.
OPEN == 1
LISTEN == 2
CONNECT == 4
DISCON == 8
CLOSE == 16
SEND == 32
RECV == 64
SOCK_CLOSED == 0
SOCK_INIT == 19
SOCK_LISTEN == 20
SOCK_UDP == 34
Commands == {OPEN, LISTEN, CONNECT, DISCON, CLOSE, SEND, RECV}
Statuses == {SOCK_CLOSED, SOCK_INIT, SOCK_LISTEN, SOCK_UDP}
MR_TCP == 1
MR_UDP == 2
Datum == 1          \* what is sent and received, a port, an address, a flag
Misfit == 0         \* received: a datagram that is not as long as its header says
Garbled == -1       \* bytes of another frame
Moved == -2         \* to be sent: the offset that was read plus the length

\* The registers and the chip's two buffers, and what they may hold.
Names == {"MR", "CR", "IR", "SR", "PORT", "MSSR", "DIPR", "DPORTR", "RX_RSR", "RX_RD", "RX",
          "TX_WR", "TX"}
Values == Commands \cup Statuses \cup {Garbled, Datum, Misfit, MR_TCP, MR_UDP}
            \cup 0 .. Pointers - 1
\* What the chip may answer for the registers it changes by itself, when v was
\* written last: Sn_CR is 0 once it has taken the command.
Answers(r, v) ==
    CASE r = "SR" -> Statuses
      [] r = "RX_RSR" -> {0, 1}
      [] r = "RX" -> {Datum, Misfit}
      [] r = "CR" -> {0, v}
      [] OTHER -> {v}

VARIABLES
    regs,       \* what was written to the registers of every socket
    scs,        \* chip select is low
    heard,      \* what the chip has understood of the frame, and from whom
    count, waiting,  \* sem_w5500
    pc,         \* where a task is in a call or a frame
    call, sock, \* its call, and the socket that is for
    todo,       \* the frames it has still to send, the present one first
    seen,       \* what it has read last
    ptr,        \* the offset it has read
    polled      \* sockets task_socket has polled since it slept

chip == <<regs, scs, heard>>
sem == <<count, waiting>>
local == <<call, sock, seen, ptr>>
vars == <<chip, sem, pc, todo, local, polled>>

Silence == <<-1, "silence">>    \* chip select is high
Start == <<-1, "start">>        \* a frame begins
Spoilt == <<-1, "spoilt">>      \* an address came where data should
From(t) == <<t, "addressed">>   \* the address and control byte of t

Rd(r) == [dir |-> "read", reg |-> r, val |-> 0]
Wr(r, v) == [dir |-> "write", reg |-> r, val |-> v]
Delay == [dir |-> "delay", reg |-> "CR", val |-> 0]
Exit == [dir |-> "exit", reg |-> "CR", val |-> 0]       \* goto exit

Init ==
    /\ regs = [i \in Socks |-> [r \in Names |->
                  IF r = "MR" THEN MR_TCP
                  ELSE IF r \in {"CR", "SR", "RX_RSR", "RX_RD", "RX", "TX_WR"} THEN 0 ELSE Datum]]
    /\ scs = FALSE /\ heard = Silence
    /\ count = 1 /\ waiting = {}
    /\ pc = [t \in Tasks |-> "idle"]
    /\ call = [t \in Tasks |-> "none"]
    /\ sock \in [Tasks -> Socks]
    /\ todo = [t \in Tasks |-> <<>>]
    /\ seen = [t \in Tasks |-> 0]
    /\ ptr = [t \in Tasks |-> 0]
    /\ polled = 0

-----------------------------------------------------------------------------
(* The calls, as frames.                                                   *)

\* Data that reaches the end of the ring buffer takes a second frame.
Runs(f) == {<<f>>, <<f, f>>}

\* The frames a call begins with.
Frames(c) ==
    CASE c = "Read"         -> {<<Rd("RX_RSR")>>}
      [] c = "Write"        -> {<<Rd("MR")>>}
      [] c = "getSn_SR"     -> {<<Rd("SR")>>}
      [] c = "getSn_RX_RSR" -> {<<Rd("RX_RSR")>>}
      [] c = "getSn_CR"     -> {<<Rd("CR")>>}
      [] c = "DISCON"       -> {<<Wr("CR", DISCON)>>}
      [] c = "CLOSE"        -> {<<Wr("CR", CLOSE)>>}
      [] c = "setSn_IR"     -> {<<Wr("IR", Datum)>>}
      [] c = "setSn_DIPR"   -> {<<Wr("DIPR", Datum)>>}
      [] c = "setSn_DPORTR" -> {<<Wr("DPORTR", Datum)>>}
      [] c = "TCP"          -> {<<Wr("MR", MR_TCP)>>}
      [] c = "UDP"          -> {<<Wr("MR", MR_UDP)>>}
      [] c = "Init"         -> {<<Wr("MSSR", Datum), Wr("PORT", Datum)>>}
      [] c = "TCP_Connect"  -> {<<Wr("CR", CONNECT)>>}
      [] c = "TCP_Listen"   -> {<<Wr("CR", LISTEN), Delay, Rd("SR")>>}
      [] OTHER              -> {<<Wr("CR", OPEN), Delay, Rd("SR")>>}

\* What a write goes on with: the offset, the data, the offset moved, SEND.
Output == {<<Rd("TX_WR")>> \o run \o <<Wr("TX_WR", Moved), Wr("CR", SEND)>> :
              run \in Runs(Wr("TX", Datum))}
Addressed == <<Wr("DIPR", Datum), Wr("DPORTR", Datum)>>

\* What ends a read that found data: the offset moved past it, and RECV.
Done == <<Wr("RX_RD", Moved), Wr("CR", RECV)>>

\* A stream: the peer's address, the data.  A datagram: the header, then in
\* the frame that the header ends in, or one more, the data, whether it is as
\* long as the header says or, before it is given up, not.
Stream == {<<Rd("DIPR"), Rd("DPORTR")>> \o run \o Done : run \in Runs(Rd("RX"))}
Payload(end) == {end, <<Rd("RX")>> \o end}

\* The one if t has read v, the other if not; a garbled byte may be anything.
Decide(t, v, same, different) ==
    UNION {IF seen[t] \in {v, Garbled} THEN same ELSE {}, IF seen[t] # v THEN different ELSE {}}

\* The status that OPEN and LISTEN have to lead to.
Status == [TCP_Open |-> SOCK_INIT, UDP_Open |-> SOCK_UDP, TCP_Listen |-> SOCK_LISTEN]

\* The frames that follow the present one, after what it has read.
Follow(t) ==
    LET f == Head(todo[t]) IN
    CASE call[t] = "Read" /\ f = Rd("RX_RSR") ->
            Decide(t, 0, {<<Exit>>}, {<<Rd("RX_RD"), Rd("MR")>>})
      [] call[t] = "Read" /\ f = Rd("MR") -> Decide(t, MR_UDP, Runs(Rd("RX")), Stream)
      [] call[t] = "Read" /\ todo[t] = <<Rd("RX")>> ->
            Decide(t, Misfit, Payload(Done \o <<Exit>>), Payload(Done))
      [] call[t] = "Write" /\ f = Rd("MR") ->
            Decide(t, MR_UDP, {Addressed \o out : out \in Output}, Output)
      [] call[t] \in DOMAIN Status /\ f = Rd("SR") ->
            Decide(t, Status[call[t]], {<<>>}, {<<Wr("CR", CLOSE)>>})
      [] OTHER -> {Tail(todo[t])}

-----------------------------------------------------------------------------
(* The processor.                                                          *)

Ready(t) == pc[t] \notin {"waiting", "asleep"}

\* t runs: no task of higher priority is ready.
OnCpu(t) == Ready(t) /\ \A u \in Tasks : u < t => ~ Ready(u)

Steps(t, from, to) == OnCpu(t) /\ pc[t] = from /\ pc' = [pc EXCEPT ![t] = to]

\* Bug: the status is read without waiting for the semaphore.
FirstStepHasty(c) == IF c \in Guarded \ {"getSn_SR"} THEN "pend" ELSE "select"

FirstStep(c) == IF c \in Guarded THEN "pend" ELSE "select"

\* A call begins.  (One for a socket that is out of range returns at once.)
Begin(t, c, i) ==
    /\ Steps(t, "idle", FirstStep(c))
    /\ call' = [call EXCEPT ![t] = c]
    /\ sock' = [sock EXCEPT ![t] = i]
    /\ \E frames \in Frames(c) : todo' = [todo EXCEPT ![t] = frames]
    /\ IF t = Poller THEN /\ polled < Cardinality(Socks)
                          /\ polled' = polled + 1
                     ELSE UNCHANGED polled
    /\ UNCHANGED <<chip, sem, seen, ptr>>

\* Bug: the semaphore is not taken when it has to be waited for.
PendPolls(t) ==
    \/ count > 0 /\ Steps(t, "pend", "select") /\ count' = count - 1 /\ UNCHANGED waiting
    \/ count = 0 /\ Steps(t, "pend", "select") /\ UNCHANGED sem

\* OSSemPend(sem_w5500, 0, &err), which without a timeout returns no error.
Pend(t) ==
    \/ count > 0 /\ Steps(t, "pend", "select") /\ count' = count - 1 /\ UNCHANGED waiting
    \/ /\ count = 0 /\ Steps(t, "pend", "waiting")
       /\ waiting' = waiting \cup {t}
       /\ UNCHANGED count

\* A call is over and forgets what it knew.
Returns(t) ==
    /\ call' = [call EXCEPT ![t] = "none"]
    /\ seen' = [seen EXCEPT ![t] = 0]
    /\ ptr' = [ptr EXCEPT ![t] = 0]

\* Bug: the semaphore is counted, but the waiter is not woken.
PostKeeps(t) == Returns(t) /\ Steps(t, "post", "idle") /\ count' = 1 /\ UNCHANGED waiting

\* Bug: the semaphore is counted although it was handed over.
PostTwice(t) ==
    /\ Returns(t) /\ OnCpu(t) /\ pc[t] = "post"
    /\ count' = count + 1
    /\ IF waiting = {} THEN pc' = [pc EXCEPT ![t] = "idle"] /\ UNCHANGED waiting
       ELSE \E w \in waiting : /\ pc' = [pc EXCEPT ![t] = "idle", ![w] = "select"]
                              /\ waiting' = waiting \ {w}

\* OSSemPost(sem_w5500): to the waiter of highest priority, if there is one.
Post(t) ==
    /\ Returns(t)
    /\ \/ /\ waiting = {} /\ Steps(t, "post", "idle")
          /\ count' = count + 1
          /\ UNCHANGED waiting
       \/ \E w \in waiting :
             /\ \A u \in waiting : w <= u
             /\ OnCpu(t) /\ pc[t] = "post"
             /\ pc' = [pc EXCEPT ![t] = "idle", ![w] = "select"]
             /\ waiting' = waiting \ {w}
             /\ UNCHANGED count

-----------------------------------------------------------------------------
(* A frame.                                                                *)

\* W5500_SCS(RESET).  The chip begins a frame if the line was high.
Select(t) ==
    /\ Steps(t, "select", "address")
    /\ scs' = TRUE
    /\ heard' = IF scs THEN heard ELSE Start
    /\ UNCHANGED regs

\* The register the frame the chip is in would write next, if any.
Target == {t \in Tasks : heard = From(t) /\ todo[t][1].dir = "write"}

Garble == [i \in Socks |-> [r \in Names |->
    IF \E t \in Target : sock[t] = i /\ todo[t][1].reg = r THEN Garbled ELSE regs[i][r]]]

\* Address and control byte.
Address(t) ==
    /\ Steps(t, "address", "data")
    /\ IF heard = Start THEN heard' = From(t) /\ UNCHANGED regs
       ELSE IF scs THEN heard' = Spoilt /\ regs' = Garble
       ELSE UNCHANGED <<heard, regs>>
    /\ UNCHANGED scs

\* What a write puts on the bus.
Sent(t) ==
    IF Head(todo[t]).val # Moved THEN Head(todo[t]).val
    ELSE IF ptr[t] = Garbled THEN Garbled ELSE (ptr[t] + 1) % Pointers

\* The data, to or from the register.
Data(t) ==
    LET f == Head(todo[t])
        i == sock[t]
    IN
    /\ Steps(t, "data", "deselect")
    /\ IF heard = From(t)
         THEN IF f.dir = "write"
                THEN regs' = [regs EXCEPT ![i][f.reg] = Sent(t)] /\ UNCHANGED seen
                ELSE /\ \E v \in Answers(f.reg, regs[i][f.reg]) : seen' = [seen EXCEPT ![t] = v]
                     /\ UNCHANGED regs
         ELSE IF f.dir = "write"
                THEN regs' = Garble /\ UNCHANGED seen
                ELSE seen' = [seen EXCEPT ![t] = Garbled] /\ UNCHANGED regs
    /\ UNCHANGED <<scs, heard>>

\* Nothing is left to send: the call has come to its end, or gone to exit.
Leaving(frames) == frames = <<>> \/ Head(frames) = Exit

\* Bug: a datagram that is given up returns without going to exit.
OnwardNoExit(t, frames) ==
    IF frames = <<Exit>> /\ Head(todo[t]) = Wr("CR", RECV) THEN "idle"
    ELSE IF Leaving(frames) THEN IF call[t] \in Guarded THEN "post" ELSE "idle"
    ELSE IF Head(frames) = Delay THEN "asleep" ELSE "select"

\* Where a task goes with these frames to send.
Onward(t, frames) ==
    IF Leaving(frames) THEN IF call[t] \in Guarded THEN "post" ELSE "idle"
    ELSE IF Head(frames) = Delay THEN "asleep" ELSE "select"

\* W5500_SCS(SET), and on to the next frame or the end of the call.
Deselect(t) ==
    /\ pc[t] = "deselect"
    /\ \E frames \in Follow(t) :
          /\ Steps(t, "deselect", Onward(t, frames))
          /\ todo' = [todo EXCEPT ![t] = IF Leaving(frames) THEN <<>> ELSE frames]
          /\ IF Onward(t, frames) = "idle" THEN Returns(t) ELSE
                /\ ptr' = IF Head(todo[t]) \in {Rd("RX_RD"), Rd("TX_WR")}
                            THEN [ptr EXCEPT ![t] = seen[t]] ELSE ptr
                /\ UNCHANGED <<call, seen>>
    /\ scs' = FALSE /\ heard' = Silence
    /\ UNCHANGED <<regs, sock>>

-----------------------------------------------------------------------------
\* delay_ms and OSTimeDly.  task_socket sleeps after a poll.
Sleep ==
    /\ polled > 0 /\ Steps(Poller, "idle", "asleep")
    /\ polled' = 0
    /\ UNCHANGED <<chip, sem, todo, local>>

Wake(t) ==
    /\ pc[t] = "asleep"
    /\ IF todo[t] = <<>>
         THEN pc' = [pc EXCEPT ![t] = "idle"] /\ UNCHANGED todo
         ELSE /\ pc' = [pc EXCEPT ![t] = "select"]
              /\ todo' = [todo EXCEPT ![t] = Tail(@)]
    /\ UNCHANGED <<chip, sem, local, polled>>

\* The steps of a call once it has begun.
Frame(t) ==
    \/ Pend(t) /\ UNCHANGED <<chip, todo, local, polled>>
    \/ Post(t) /\ UNCHANGED <<chip, todo, sock, polled>>
    \/ (Select(t) \/ Address(t)) /\ UNCHANGED <<sem, todo, local, polled>>
    \/ Data(t) /\ UNCHANGED <<sem, todo, call, sock, ptr, polled>>
    \/ Deselect(t) /\ UNCHANGED <<sem, polled>>

Next ==
    \/ \E i \in Socks :
          \/ Begin(Poller, "Read", i)
          \/ \E t \in Tasks \ {Poller}, c \in Api : Begin(t, c, i)
    \/ Sleep
    \/ \E t \in Tasks : Frame(t) \/ Wake(t)

Spec == Init /\ [][Next]_vars

\* A sleep ends, task_socket polls when it is awake, and whoever has the
\* processor goes on.  A task of lower
\* priority gets it again and again because task_socket sleeps 20 ms after
\* a poll, which takes less.
FairSpec ==
    /\ Spec
    /\ WF_vars(Sleep) /\ WF_vars(\E i \in Socks : Begin(Poller, "Read", i))
    /\ \A t \in Tasks : WF_vars(Wake(t)) /\ SF_vars(Frame(t))
-----------------------------------------------------------------------------
(* Type invariant.                                                         *)

Step == [dir : {"read", "write", "delay", "exit"}, reg : Names, val : Values \cup {Moved}]

TypeOK ==
    /\ regs \in [Socks -> [Names -> Values]]
    /\ scs \in BOOLEAN
    /\ heard \in {Silence, Start, Spoilt} \cup {From(t) : t \in Tasks}
    /\ count \in {0, 1} /\ waiting \subseteq Tasks
    /\ pc \in [Tasks -> {"idle", "pend", "waiting", "select", "address", "data",
                        "deselect", "post", "asleep"}]
    /\ call \in [Tasks -> Guarded \cup Bare \cup {"none"}]
    /\ sock \in [Tasks -> Socks]
    /\ todo \in [Tasks -> Seq(Step)]
    /\ seen \in [Tasks -> Values]
    /\ ptr \in [Tasks -> Values]
    /\ polled \in 0 .. Cardinality(Socks)

-----------------------------------------------------------------------------
(* Properties.                                                             *)

Inside(t) ==
    pc[t] \in {"select", "address", "data", "deselect", "post"} /\ call[t] \in Guarded

\* sem_w5500 comes back on every way out of every call in Guarded and Bare, and
\* has one holder.  A read has three: nothing is there, a datagram that does
\* not fit is given up (both by goto exit), or data was read.
BusGivenBack ==
    IF count = 1 THEN \A t \in Tasks : ~ Inside(t)
    ELSE \E t \in Tasks : Inside(t) /\ \A u \in Tasks : Inside(u) => u = t

\* A call without the semaphore is in the middle of a frame.
Exposed == \E t \in Tasks : call[t] \in Bare /\ pc[t] \in {"address", "data", "deselect"}

\* A frame is whole: from the time chip select is low until it is high again
\* the chip hears one task only, which knows where in its frame it is.  Only
\* while a call without the semaphore is in a frame this may fail, and with
\* one server, which is all the device has, no longer.  (A second server could
\* interrupt the first one's frame in the same way, and end first.)
FramesWhole ==
    Exposed \/ \A t \in Tasks :
        /\ pc[t] = "address" => scs /\ heard = Start
        /\ pc[t] \in {"data", "deselect"} => scs /\ heard = From(t)

\* A write changes the register it names to the value it names, and nothing else.
WritesArrive ==
    [][\A t \in Tasks :
          pc[t] = "data" /\ pc'[t] = "deselect" /\ Head(todo[t]).dir = "write"
              => regs' = [regs EXCEPT ![sock[t]][Head(todo[t]).reg] = Sent(t)]]_vars

\* The calls that take the semaphore have the registers to themselves, and
\* read and write them as if each access were one step: an offset that was
\* read is still the register's when the next one is written.
Wanted == INSTANCE SpiRegisters WITH inside <- {t \in Tasks : Inside(t)}

IsRegisters == Wanted!Init /\ [][Exposed \/ Wanted!Next]_Wanted!vars

\* A call returns, also one of the task of lowest priority.
CallsReturn == \A t \in Tasks : pc[t] # "idle" ~> pc[t] = "idle"
=============================================================================
