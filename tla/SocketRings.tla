---------------------------- MODULE SocketRings ----------------------------
(***************************************************************************)
(* A TCP stream through the two ring buffers a socket has in the W5500:    *)
(* Write_SOCK_Data_Buffer fills the transmit buffer of one device,         *)
(* Read_SOCK_Data_Buffer empties the receive buffer of another             *)
(* (src/src/HARDWARE/W5500/w5500_core.c).  The chips move the stream from  *)
(* one to the other as TCP does: no more than there is room for.           *)
(*                                                                         *)
(* The offset registers count modulo 2^16 and are masked with the size of  *)
(* the buffer.  A unit of the stream is its number; a buffer is what its   *)
(* cells hold.  Each driver call takes sem_w5500, but the chips go on      *)
(* between its accesses.                                                   *)
(***************************************************************************)
EXTENDS Integers, Sequences

CONSTANTS
    Size,       \* sn_tx_sz[s], sn_rx_sz[s]: 4096
    Wrap,       \* the offset registers count modulo this: 65536
    Cap,        \* most that one read takes: 808
    Sizes,      \* lengths of the calls of send
    Total       \* bound: units that are written

ASSUME RingsAssumption ==
    /\ Size \in Nat \ {0} /\ Cap \in Nat \ {0} /\ Total \in Nat
    /\ Wrap \in Nat /\ Size < Wrap /\ Wrap % Size = 0
    /\ Sizes \subseteq 1 .. Size

Offsets == 0 .. Wrap - 1
Cells == 0 .. Size - 1
Units == 0 .. Total     \* 0: nothing was written there yet

VARIABLES
    tx, txWr, txRd, txEnd,  \* transmit buffer, Sn_TX_WR, how far the chip is,
                            \* and Sn_TX_WR as of the last SEND
    rx, rxWr, rxRd, rxOld,  \* receive buffer, how far the chip is, Sn_RX_RD,
                            \* and Sn_RX_RD as of the last RECV
    sending,    \* Write_SOCK_Data_Buffer: units it has put into the buffer
    reading,    \* Read_SOCK_Data_Buffer: rx_size, once it was read
    got,        \* what it has copied
    written,    \* units that were given to send
    received,   \* units that reads have returned
    overrun     \* send has written over units the chip had still to transmit

txVars == <<tx, txWr, txRd, txEnd, sending, written, overrun>>
rxVars == <<rx, rxWr, rxRd, rxOld, reading, got, received>>
vars == <<txVars, rxVars>>

\* OPEN resets the offsets to anything, the same for both ends of a buffer.
Init ==
    /\ \E o \in Offsets : txWr = o /\ txRd = o /\ txEnd = o
    /\ \E o \in Offsets : rxWr = o /\ rxRd = o /\ rxOld = o
    /\ tx = [c \in Cells |-> 0] /\ rx = [c \in Cells |-> 0]
    /\ sending = 0 /\ reading = 0 /\ got = <<>>
    /\ written = 0 /\ received = <<>> /\ overrun = FALSE

Ahead(o, n) == (o + n) % Wrap
Between(from, to) == (to - from) % Wrap

\* offset &= (sn_tx_sz[s]-1)
Masked(o) == o % Size

-----------------------------------------------------------------------------
(* Transmission.                                                           *)

\* Bug: the second frame takes its data from the start plus what the first took.
WriteCellsShifted(offset, len) ==
    [k \in 1 .. len |-> IF offset + k <= Size THEN offset + k - 1 ELSE k - 1]

\* write_tx_buffer: the cells of one frame, or of two when the end of the
\* buffer is reached.
WriteCells(offset, len) ==
    IF offset + len < Size THEN [k \in 1 .. len |-> offset + k - 1]
    ELSE LET first == (Size - offset) % Wrap IN
         [k \in 1 .. len |-> IF k <= first THEN offset + k - 1 ELSE k - first - 1]

\* Write_SOCK_Data_Buffer up to the end of the data.  The room in the buffer
\* (Sn_TX_FSR) is not asked for.
Fill(n) ==
    /\ sending = 0 /\ written + n <= Total
    /\ LET cells == WriteCells(Masked(txWr), n) IN
       tx' = [c \in Cells |-> IF \E k \in 1 .. n : cells[k] = c
                               THEN written + (CHOOSE k \in 1 .. n : cells[k] = c)
                               ELSE tx[c]]
    /\ overrun' = (overrun \/ Between(txRd, txWr) + n > Size)
    /\ sending' = n
    /\ written' = written + n
    /\ UNCHANGED <<txWr, txRd, txEnd, rxVars>>

\* Bug: the offset is written back without its upper bits.
MovedMasked(o, n) == Masked(o) + n

\* Bug: the offset is not kept in 16 bits.
MovedUnwrapped(o, n) == o + n

\* offset1 += size
Moved(o, n) == Ahead(o, n)

\* Bug: SEND is issued before Sn_TX_WR is written.
SendFirst ==
    /\ sending > 0
    /\ txEnd' = txWr
    /\ txWr' = Moved(txWr, sending)
    /\ sending' = 0
    /\ UNCHANGED <<tx, txRd, written, overrun, rxVars>>

\* The rest of it: Sn_TX_WR and SEND.
Send ==
    /\ sending > 0
    /\ txWr' = Moved(txWr, sending)
    /\ txEnd' = txWr'
    /\ sending' = 0
    /\ UNCHANGED <<tx, txRd, written, overrun, rxVars>>

\* The chips: the next unit goes from buffer to buffer, if there is room.
Transmit ==
    /\ txRd # txEnd
    /\ Between(rxOld, rxWr) < Size
    /\ rx' = [rx EXCEPT ![Masked(rxWr)] = tx[Masked(txRd)]]
    /\ txRd' = Ahead(txRd, 1)
    /\ rxWr' = Ahead(rxWr, 1)
    /\ UNCHANGED <<tx, txWr, txEnd, sending, written, overrun, rxRd, rxOld, reading, got, received>>

-----------------------------------------------------------------------------
(* Reception.                                                              *)

\* Sn_RX_RSR, and the cap.
ReadSize ==
    /\ reading = 0 /\ got = <<>>
    /\ Between(rxOld, rxWr) > 0
    /\ reading' = IF Between(rxOld, rxWr) > Cap THEN Cap ELSE Between(rxOld, rxWr)
    /\ UNCHANGED <<txVars, rx, rxWr, rxRd, rxOld, got, received>>

\* read_rx_buffer, in the same way.
ReadCells(offset, len) ==
    IF offset + len < Size THEN [k \in 1 .. len |-> offset + k - 1]
    ELSE LET first == (Size - offset) % Wrap IN
         [k \in 1 .. len |-> IF k <= first THEN offset + k - 1 ELSE k - first - 1]

\* Sn_RX_RD, and the data.
CopyOut ==
    /\ reading > 0
    /\ LET cells == ReadCells(Masked(rxRd), reading) IN
       got' = [k \in 1 .. reading |-> rx[cells[k]]]
    /\ reading' = 0
    /\ UNCHANGED <<txVars, rx, rxWr, rxRd, rxOld, received>>

\* Sn_RX_RD and RECV, and the data is returned.
Return ==
    /\ got # <<>>
    /\ rxRd' = Moved(rxRd, Len(got))
    /\ rxOld' = rxRd'
    /\ received' = received \o got
    /\ got' = <<>>
    /\ UNCHANGED <<txVars, rx, rxWr, reading>>

Next == (\E n \in Sizes : Fill(n)) \/ Send \/ Transmit \/ ReadSize \/ CopyOut \/ Return

Spec == Init /\ [][Next]_vars

\* Calls of the driver end, the reader polls, and the network delivers.
FairSpec == Spec /\ WF_vars(Send \/ Transmit) /\ WF_vars(ReadSize \/ CopyOut \/ Return)
-----------------------------------------------------------------------------
TypeOK ==
    /\ tx \in [Cells -> Units] /\ rx \in [Cells -> Units]
    /\ {txWr, txRd, txEnd, rxWr, rxRd, rxOld} \subseteq Offsets
    /\ sending \in 0 .. Size /\ reading \in 0 .. Cap
    /\ got \in Seq(Units) /\ received \in Seq(Units)
    /\ written \in 0 .. Total /\ overrun \in BOOLEAN

\* What a read returns is the next of what was written, across the ends of both
\* buffers and of the offsets, for as long as send was not called with more
\* than the transmit buffer had room for.
StreamIntact == ~ overrun => \A k \in 1 .. Len(received) : received[k] = k

\* Every unit is in exactly one place: returned, copied, in one of the
\* buffers, or put there without SEND.
AllAccounted ==
    ~ overrun =>
        Len(received) + Between(rxRd, rxWr) + Between(txRd, txEnd) + sending = written

\* Nothing is written over that the chip has still to transmit.
NeverOverwritten == ~ overrun

\* Everything that is written is returned.
AllDelivered == \A n \in 1 .. Total : written = n ~> (overrun \/ Len(received) >= n)
=============================================================================
