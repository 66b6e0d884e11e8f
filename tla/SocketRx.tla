------------------------------ MODULE SocketRx ------------------------------
(***************************************************************************)
(* The receive path: task_socket (src/src/task/task_socket.c) polls the    *)
(* chip's sockets in turn and posts what it read, always in the one buffer *)
(* g_pack, to the socket's mailbox; recvfrom (w5500_socket.c) pends on the *)
(* mailbox with a timeout and copies out of g_pack.                        *)
(*                                                                         *)
(* A mailbox holds a pointer to g_pack, never the data: what a reader gets *)
(* is what g_pack holds when the reader copies.  There is one reader per   *)
(* socket.  The mailbox is modelled as OSMboxPend, OSMboxPost and          *)
(* OSTimeTick (src/src/ucosii/src) make it behave, the timeout that races  *)
(* a post included.  Data is counted in units of a size that divides the   *)
(* 808 bytes one read takes at most.  Only TCP sockets: a datagram's       *)
(* header and the addresses are left out.                                  *)
(***************************************************************************)
EXTENDS Integers, Sequences

CONSTANTS
    NumSocks,   \* W5500_SOCKET_NUM
    Cap,        \* the most one Read_SOCK_Data_Buffer takes, in units
    MaxUnits,   \* bound: units that arrive on each socket in a behaviour
    Prompt      \* sockets whose reader collects a mail before task_socket,
                \* which sleeps for 4 ticks, wakes up again

Socks == 0 .. NumSocks - 1

ASSUME RxAssumption ==
    /\ NumSocks \in Nat \ {0}
    /\ Cap \in Nat \ {0}
    /\ MaxUnits \in Nat
    /\ Prompt \subseteq Socks

VARIABLES
    awake,  \* task_socket is in its for loop, not in OSTimeDly
    i,      \* its index, which a hit leaves where it is
    pack,   \* g_pack: len and data
    rx,     \* the receive buffer of every socket of the chip
    mbox,   \* OSEventPtr of every mailbox: does it hold a message
    rd,     \* where the reader of each socket is in recvfrom
    want,   \* rcv_len of that call
    sent,   \* units that have arrived (history)
    recv    \* units recvfrom has returned (history)

taskVars == <<awake, i>>
vars == <<awake, i, pack, rx, mbox, rd, want, sent, recv>>

\* The k-th unit that arrives on a socket.
Unit(sock, k) == [sock |-> sock, seq |-> k]

Init ==
    /\ awake = TRUE /\ i = 0
    /\ pack = [len |-> 0, data |-> <<>>]
    /\ rx = [k \in Socks |-> <<>>]
    /\ mbox = [k \in Socks |-> FALSE]
    /\ rd = [k \in Socks |-> "out"]
    /\ want = [k \in Socks |-> 0]
    /\ sent = [k \in Socks |-> 0]
    /\ recv = [k \in Socks |-> <<>>]

-----------------------------------------------------------------------------
(* The peers, through the chip.                                            *)

Arrive(k) ==
    /\ sent[k] < MaxUnits
    /\ sent' = [sent EXCEPT ![k] = @ + 1]
    /\ rx' = [rx EXCEPT ![k] = Append(@, Unit(k, sent[k] + 1))]
    /\ UNCHANGED <<taskVars, pack, mbox, rd, want, recv>>

-----------------------------------------------------------------------------
(* task_socket.                                                            *)

\* Bug: a read is not capped to the size of g_pack's buffer.
AllTaken(k) == Len(rx[k])

\* rx_size, capped.
Taken(k) == IF Len(rx[k]) > Cap THEN Cap ELSE Len(rx[k])

\* Bug: the chip is not told (RECV) that the data was read.
ReadOnly(k) ==
    LET n == Taken(k) IN
    /\ pack' = [len  |-> n,
                data |-> SubSeq(rx[k], 1, n) \o SubSeq(pack.data, n + 1, Len(pack.data))]
    /\ UNCHANGED rx

\* Read_SOCK_Data_Buffer: the oldest units go to the front of g_pack's
\* buffer, and only they leave the chip.  Nothing to read empties g_pack too.
Read(k) ==
    LET n == Taken(k) IN
    /\ pack' = [len  |-> n,
                data |-> SubSeq(rx[k], 1, n) \o SubSeq(pack.data, n + 1, Len(pack.data))]
    /\ rx' = [rx EXCEPT ![k] = SubSeq(@, n + 1, Len(@))]

\* Bug: a pend that has timed out is taken off the wait list by the tick.
WaitingOnly(k) == rd[k] = "wait"

\* The reader is on the mailbox's wait list; a tick that has found it timed
\* out has made it ready, but it is there until it runs.
OnWaitList(k) == rd[k] \in {"wait", "expired"}

\* OSMboxPost: to the waiting reader, else into the mailbox if it is empty,
\* else nowhere (task_socket does not look at the result).
Post(k) ==
    IF OnWaitList(k)
      THEN rd' = [rd EXCEPT ![k] = "mail"] /\ UNCHANGED mbox
      ELSE mbox' = [mbox EXCEPT ![k] = TRUE] /\ UNCHANGED rd

\* Bug: after the last socket, i stays there.
LastIndexKept == IF i + 1 < NumSocks THEN i + 1 ELSE i

\* i++, and i %= W5500_SOCKET_NUM after the loop.
NextIndex == (i + 1) % NumSocks

\* One pass of the for loop.  A hit ends the loop and leaves i at the socket;
\* so does running past the last one, and i starts again at 0.
Sweep ==
    /\ awake
    /\ Read(i)
    /\ IF Taken(i) > 0
         THEN Post(i) /\ awake' = FALSE /\ UNCHANGED i
         ELSE /\ i' = NextIndex
              /\ awake' = (NextIndex # 0)
              /\ UNCHANGED <<mbox, rd>>
    /\ UNCHANGED <<want, sent, recv>>

\* A mail for socket k, or a pack its reader was woken with, is not yet copied.
Pending(k) == mbox[k] \/ rd[k] \in {"mail", "copy"}

\* OSTimeDly(4) is over.
Wake ==
    /\ ~ awake
    /\ \A k \in Prompt : ~ Pending(k)
    /\ awake' = TRUE
    /\ UNCHANGED <<i, pack, rx, mbox, rd, want, sent, recv>>

-----------------------------------------------------------------------------
(* recvfrom, and the tick that ends its wait.                              *)

\* Bug: the pend leaves the message in the mailbox.
MailKept(k) == mbox

\* OSEventPtr = NULL
MailTaken(k) == [mbox EXCEPT ![k] = FALSE]

\* OSMboxPend.
Pend(k) ==
    /\ rd[k] = "out"
    /\ rd' = [rd EXCEPT ![k] = IF mbox[k] THEN "mail" ELSE "wait"]
    /\ mbox' = MailTaken(k)
    /\ UNCHANGED <<taskVars, pack, rx, want, sent, recv>>

\* OSTimeTick: the 600 ticks are over.
Expire(k) ==
    /\ rd[k] = "wait"
    /\ rd' = [rd EXCEPT ![k] = "expired"]
    /\ UNCHANGED <<taskVars, pack, rx, mbox, want, sent, recv>>

\* The reader runs after its timeout; recvfrom returns 0.
TimedOut(k) ==
    /\ rd[k] = "expired"
    /\ rd' = [rd EXCEPT ![k] = "out"]
    /\ UNCHANGED <<taskVars, pack, rx, mbox, want, sent, recv>>

\* Bug: as much is taken as the caller's buffer can hold.
TakeBuffer(k) ==
    /\ rd[k] = "mail"
    /\ want' = [want EXCEPT ![k] = Len(pack.data)]
    /\ rd' = [rd EXCEPT ![k] = "copy"]
    /\ UNCHANGED <<taskVars, pack, rx, mbox, sent, recv>>

\* rcv_len = mail->len ...
TakeLen(k) ==
    /\ rd[k] = "mail"
    /\ want' = [want EXCEPT ![k] = pack.len]
    /\ rd' = [rd EXCEPT ![k] = "copy"]
    /\ UNCHANGED <<taskVars, pack, rx, mbox, sent, recv>>

\* ... and memcpy(mem, mail->data, rcv_len).
Copy(k) ==
    /\ rd[k] = "copy"
    /\ recv' = [recv EXCEPT ![k] = @ \o SubSeq(pack.data, 1, want[k])]
    /\ rd' = [rd EXCEPT ![k] = "out"]
    /\ UNCHANGED <<taskVars, pack, rx, mbox, want, sent>>

-----------------------------------------------------------------------------
Reader(k) == Pend(k) \/ TimedOut(k) \/ TakeLen(k) \/ Copy(k)

Next ==
    \/ Sweep \/ Wake
    \/ \E k \in Socks : Arrive(k) \/ Expire(k) \/ Reader(k)

Spec == Init /\ [][Next]_vars

\* task_socket is the highest of the two priorities and its delay ends; a
\* reader that is ready runs when task_socket sleeps.  No fairness of the
\* timeout: it may never happen.
Fairness ==
    /\ WF_vars(Sweep) /\ WF_vars(Wake)
    /\ \A k \in Socks : WF_vars(Reader(k))

FairSpec == Spec /\ Fairness
-----------------------------------------------------------------------------
(* Type invariant.                                                         *)

Units == [sock : Socks, seq : 1 .. MaxUnits]

TypeOK ==
    /\ awake \in BOOLEAN
    /\ i \in Socks
    /\ pack.len \in 0 .. Cap
    /\ pack.len <= Len(pack.data) /\ Len(pack.data) <= Cap
    /\ pack.data \in Seq(Units)
    /\ rx \in [Socks -> Seq(Units)]
    /\ mbox \in [Socks -> BOOLEAN]
    /\ rd \in [Socks -> {"out", "wait", "expired", "mail", "copy"}]
    /\ want \in [Socks -> 0 .. Cap]
    /\ sent \in [Socks -> 0 .. MaxUnits]
    /\ recv \in [Socks -> Seq(Units)]

-----------------------------------------------------------------------------
(* Properties.                                                             *)

\* What was read for socket k and is not copied yet.
InFlight(k) == IF Pending(k) THEN SubSeq(pack.data, 1, pack.len) ELSE <<>>

\* Nothing that arrives on the socket of a prompt reader is lost, repeated,
\* reordered or mixed with another socket's data, wherever it is: returned,
\* in g_pack, or in the chip.  The readers of the other sockets may be as slow
\* as they like: g_pack, which they share, is never taken from a prompt one.
NothingLost ==
    \A k \in Prompt :
        recv[k] \o InFlight(k) \o rx[k] = [n \in 1 .. sent[k] |-> Unit(k, n)]

\* No lost wake-up: no reader waits, or has been timed out, while there is a
\* message in its mailbox.
NoMailWhileWaiting ==
    \A k \in Socks : rd[k] \in {"wait", "expired"} => ~ mbox[k]

\* The receive path of the prompt readers implements the queue per socket.
Channel == INSTANCE RxChannel WITH
    Socks <- Prompt,
    queue <- [k \in Prompt |-> InFlight(k) \o rx[k]],
    recv  <- [k \in Prompt |-> recv[k]]

IsChannel == Channel!Spec

\* Whatever arrives for a prompt reader is returned to it: a poll that always
\* finds data of the other sockets, or a timeout, only delays it.
Delivered ==
    \A k \in Prompt : \A n \in 1 .. MaxUnits : sent[k] >= n ~> Len(recv[k]) >= n

\* The comment on OSMboxPost: "the message MUST be consumed before you are
\* allowed to send another one".  task_socket only posts to a mailbox whose
\* last message was consumed.
PostsToConsumed == [][ Sweep /\ Taken(i) > 0 => ~ mbox[i] ]_vars
=============================================================================
