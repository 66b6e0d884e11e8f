------------------------- MODULE SocketRingsProofs -------------------------
(***************************************************************************)
(* The stream through the two ring buffers, for every size of a buffer     *)
(* that divides the range of the offset registers, every cap of a read and *)
(* every length of the calls of send, proved with TLAPS.                   *)
(***************************************************************************)
EXTENDS SocketRings, SequenceTheorems, TLAPS

-----------------------------------------------------------------------------
(* Arithmetic.                                                             *)

LEMMA DivMod ==
  ASSUME NEW x \in Int, NEW s \in Nat \ {0}
  PROVE  /\ x = s * (x \div s) + (x % s)
         /\ x % s \in 0 .. s - 1 /\ x \div s \in Int
OBVIOUS

LEMMA NextMultiple ==
  ASSUME NEW s \in Nat \ {0}, NEW d \in Int, NEW e \in Int, d > e
  PROVE  s * d >= s * e + s
OBVIOUS

\* A remainder is known by what it is.
LEMMA Remainder ==
  ASSUME NEW x \in Int, NEW s \in Nat \ {0}, NEW d \in Int, NEW r \in 0 .. s - 1,
         x = s * d + r
  PROVE  x % s = r
<1> DEFINE e == x \div s
           t == x % s
<1>1. e \in Int /\ t \in 0 .. s - 1 /\ x = s * e + t
  BY DivMod
<1> HIDE DEF e, t
<1>2. ~ d > e /\ ~ e > d
  BY <1>1, NextMultiple
<1> QED
  BY <1>1, <1>2 DEF t

\* The range of the offsets is as long as two buffers at least.
LEMMA TwoSizes == Size + Size <= Wrap
<1> DEFINE q == Wrap \div Size
<1>1. Wrap = Size * q + (Wrap % Size) /\ q \in Int /\ Size < Wrap /\ Wrap % Size = 0
      /\ Size \in Nat \ {0} /\ Wrap \in Nat
  BY RingsAssumption, DivMod
<1> HIDE DEF q
<1>2. q > 1
  <2>1. CASE q <= 0
    <3>1. 1 > q /\ Size * 1 = Size
      BY <1>1, <2>1
    <3>2. Size * 1 >= Size * q + Size
      BY <1>1, <3>1, NextMultiple
    <3> QED
      BY <1>1, <3>1, <3>2
  <2>2. CASE q = 1
    BY <1>1, <2>2
  <2> QED
    BY <1>1, <2>1, <2>2
<1>3. Size * q >= Size * 1 + Size
  BY <1>1, <1>2, NextMultiple
<1> QED
  BY <1>1, <1>3

\* An offset moved on.
LEMMA AheadIs ==
  ASSUME NEW o \in Offsets, NEW n \in 0 .. Wrap - 1
  PROVE  /\ Ahead(o, n) = IF o + n < Wrap THEN o + n ELSE o + n - Wrap
         /\ Ahead(o, n) \in Offsets
<1>1. Wrap \in Nat \ {0} /\ o \in Int /\ n \in Int
  BY RingsAssumption DEF Offsets
<1>2. CASE o + n < Wrap
  <2>1. o + n \in 0 .. Wrap - 1 /\ o + n = Wrap * 0 + (o + n)
    BY <1>1, <1>2 DEF Offsets
  <2>2. (o + n) % Wrap = o + n
    BY <1>1, <2>1, Remainder
  <2> QED
    BY <1>2, <2>1, <2>2 DEF Ahead, Offsets
<1>3. CASE ~ o + n < Wrap
  <2>1. /\ o + n - Wrap \in 0 .. Wrap - 1
        /\ o + n = Wrap * 1 + (o + n - Wrap)
    BY <1>1, <1>3 DEF Offsets
  <2>2. (o + n) % Wrap = o + n - Wrap
    BY <1>1, <2>1, Remainder
  <2> QED
    BY <1>3, <2>1, <2>2 DEF Ahead, Offsets
<1> QED
  BY <1>2, <1>3

\* How far it is from one offset to another.
LEMMA BetweenIs ==
  ASSUME NEW a \in Offsets, NEW b \in Offsets
  PROVE  /\ Between(a, b) = IF a <= b THEN b - a ELSE b - a + Wrap
         /\ Between(a, b) \in 0 .. Wrap - 1
         /\ Between(a, b) = 0 <=> a = b
<1>1. Wrap \in Nat \ {0} /\ a \in Int /\ b \in Int
  BY RingsAssumption DEF Offsets
<1>2. CASE a <= b
  <2>1. b - a \in 0 .. Wrap - 1 /\ b - a = Wrap * 0 + (b - a)
    BY <1>1, <1>2 DEF Offsets
  <2>2. (b - a) % Wrap = b - a
    BY <1>1, <2>1, Remainder
  <2> QED
    BY <1>1, <1>2, <2>1, <2>2 DEF Between
<1>3. CASE ~ a <= b
  <2>1. /\ b - a + Wrap \in 0 .. Wrap - 1 /\ b - a + Wrap # 0
        /\ b - a = Wrap * (-1) + (b - a + Wrap)
    BY <1>1, <1>3 DEF Offsets
  <2>2. (b - a) % Wrap = b - a + Wrap
    BY <1>1, <2>1, Remainder
  <2> QED
    BY <1>1, <1>3, <2>1, <2>2 DEF Between
<1> QED
  BY <1>2, <1>3

\* The cell of an offset, and of one moved on by no more than the buffer.
LEMMA MaskedIs ==
  ASSUME NEW o \in Offsets, NEW n \in 0 .. Size
  PROVE  /\ Masked(o) \in Cells /\ Masked(Ahead(o, n)) \in Cells
         /\ Masked(Ahead(o, n)) = IF Masked(o) + n < Size THEN Masked(o) + n
                                  ELSE Masked(o) + n - Size
<1> DEFINE r == o % Size
           q == o \div Size
           w == Wrap \div Size
<1>1. /\ Size \in Nat \ {0} /\ Wrap \in Nat /\ Size < Wrap
      /\ o \in 0 .. Wrap - 1 /\ n \in 0 .. Size
  BY RingsAssumption DEF Offsets
<1>2. r \in 0 .. Size - 1 /\ q \in Int /\ o = Size * q + r
  BY <1>1, DivMod
<1>3. w \in Int /\ Wrap = Size * w
  BY <1>1, DivMod, RingsAssumption
<1>4. /\ Ahead(o, n) \in Offsets
      /\ Ahead(o, n) = o + n \/ Ahead(o, n) = o + n - Wrap
  BY <1>1, AheadIs
<1> HIDE DEF r, q, w
<1> DEFINE rest == IF r + n < Size THEN r + n ELSE r + n - Size
<1>5. rest \in 0 .. Size - 1
  BY <1>1, <1>2
<1>6. \E d \in Int : Ahead(o, n) = Size * d + rest
  <2>1. Size * (q + 1) = Size * q + Size /\ Size * (q - w) = Size * q - Size * w
        /\ Size * (q - w + 1) = Size * q - Size * w + Size
    BY <1>1, <1>2, <1>3
  <2>2. CASE Ahead(o, n) = o + n
    <3>1. Ahead(o, n) = Size * q + rest \/ Ahead(o, n) = Size * (q + 1) + rest
      BY <1>1, <1>2, <2>1, <2>2
    <3> QED
      BY <1>2, <3>1
  <2>3. CASE Ahead(o, n) = o + n - Wrap
    <3>1. Ahead(o, n) = Size * (q - w) + rest \/ Ahead(o, n) = Size * (q - w + 1) + rest
      BY <1>1, <1>2, <1>3, <2>1, <2>3
    <3> QED
      BY <1>2, <1>3, <3>1
  <2> QED
    BY <1>4, <2>2, <2>3
<1>7. Ahead(o, n) % Size = rest
  <2>1. PICK d \in Int : Ahead(o, n) = Size * d + rest
    BY <1>6
  <2>2. Ahead(o, n) \in Int
    BY <1>1, <1>4 DEF Offsets
  <2> HIDE DEF rest
  <2> QED
    BY <1>1, <1>5, <2>1, <2>2, Remainder
<1>8. Masked(o) = r /\ Masked(Ahead(o, n)) = rest
  BY <1>7 DEF Masked, r
<1> QED
  BY <1>2, <1>5, <1>8 DEF Cells

\* The j-th cell from an offset on.
Cell(o, j) == Masked(Ahead(o, j - 1))

\* The cells of one buffer's length are all different.
LEMMA CellsDiffer ==
  ASSUME NEW o \in Offsets
  PROVE  /\ \A j \in 1 .. Size : Cell(o, j) \in Cells
         /\ \A j, k \in 1 .. Size : Cell(o, j) = Cell(o, k) => j = k
<1>1. Size \in Nat \ {0}
  BY RingsAssumption
<1>2. \A j \in 1 .. Size :
        /\ Cell(o, j) \in Cells /\ Masked(o) \in Cells
        /\ Cell(o, j) = IF Masked(o) + (j - 1) < Size THEN Masked(o) + (j - 1)
                        ELSE Masked(o) + (j - 1) - Size
  <2> TAKE j \in 1 .. Size
  <2>1. j - 1 \in 0 .. Size
    BY <1>1
  <2> QED
    BY <2>1, MaskedIs DEF Cell
<1> QED
  BY <1>1, <1>2 DEF Cells

\* The driver's one or two frames go to the cells from the offset on.
LEMMA FramesAre ==
  ASSUME NEW o \in Offsets, NEW n \in 1 .. Size
  PROVE  \A k \in 1 .. n : /\ WriteCells(Masked(o), n)[k] = Cell(o, k)
                           /\ ReadCells(Masked(o), n)[k] = Cell(o, k)
<1> TAKE k \in 1 .. n
<1> DEFINE m == Masked(o)
<1>1. Size \in Nat \ {0} /\ k \in 1 .. Size /\ k - 1 \in 0 .. Size /\ Wrap \in Nat /\ Size < Wrap
  BY RingsAssumption
<1>2. /\ m \in 0 .. Size - 1
      /\ Cell(o, k) = IF m + (k - 1) < Size THEN m + (k - 1) ELSE m + (k - 1) - Size
  BY <1>1, MaskedIs DEF Cell, Cells
<1> HIDE DEF m
<1>3. (Size - m) % Wrap = Size - m
  <2>1. Size - m \in 0 .. Wrap - 1 /\ Size - m = Wrap * 0 + (Size - m) /\ Wrap \in Nat \ {0}
    BY <1>1, <1>2
  <2> QED
    BY <2>1, Remainder
<1>4. WriteCells(m, n)[k] = Cell(o, k)
  BY <1>1, <1>2, <1>3 DEF WriteCells
<1>5. ReadCells(m, n)[k] = Cell(o, k)
  BY <1>1, <1>2, <1>3 DEF ReadCells
<1> QED
  BY <1>4, <1>5 DEF m

\* Cells counted from an offset that was moved on.
LEMMA CellAhead ==
  ASSUME NEW o \in Offsets, NEW m \in 0 .. Size, NEW j \in 1 .. Size, m + j <= Size
  PROVE  Cell(Ahead(o, m), j) = Cell(o, m + j)
<1>1. Size \in Nat \ {0} /\ Wrap \in Nat /\ Size < Wrap /\ o \in 0 .. Wrap - 1
  BY RingsAssumption DEF Offsets
<1>2. /\ m \in 0 .. Wrap - 1 /\ j - 1 \in 0 .. Wrap - 1
      /\ m + j - 1 \in 0 .. Wrap - 1 /\ m + j - 1 = (m + j) - 1
  BY <1>1
<1>3. Ahead(o, m) \in Offsets
  BY <1>2, AheadIs
<1>4. /\ Ahead(o, m) = IF o + m < Wrap THEN o + m ELSE o + m - Wrap
      /\ Ahead(Ahead(o, m), j - 1) = IF Ahead(o, m) + (j - 1) < Wrap THEN Ahead(o, m) + (j - 1)
                                     ELSE Ahead(o, m) + (j - 1) - Wrap
      /\ Ahead(o, m + j - 1) = IF o + (m + j - 1) < Wrap THEN o + (m + j - 1)
                               ELSE o + (m + j - 1) - Wrap
  BY <1>2, <1>3, AheadIs
<1>5. Ahead(Ahead(o, m), j - 1) = Ahead(o, m + j - 1)
  BY <1>1, <1>2, <1>4
<1> QED
  BY <1>2, <1>5 DEF Cell

\* The far end moves on ...
LEMMA EndMoves ==
  ASSUME NEW a \in Offsets, NEW b \in Offsets, NEW n \in 0 .. Size,
         Between(a, b) + n < Wrap
  PROVE  /\ Ahead(b, n) \in Offsets /\ Between(a, Ahead(b, n)) = Between(a, b) + n
<1>1. Size \in Nat \ {0} /\ Wrap \in Nat /\ Size < Wrap
      /\ a \in 0 .. Wrap - 1 /\ b \in 0 .. Wrap - 1 /\ n \in 0 .. Wrap - 1
  BY RingsAssumption DEF Offsets
<1>2. /\ Ahead(b, n) = IF b + n < Wrap THEN b + n ELSE b + n - Wrap
      /\ Ahead(b, n) \in Offsets
  BY <1>1, AheadIs
<1> DEFINE c == Ahead(b, n)
<1>3. c \in Offsets /\ c = IF b + n < Wrap THEN b + n ELSE b + n - Wrap
  BY <1>2
<1> HIDE DEF c
<1>4. /\ Between(a, b) = IF a <= b THEN b - a ELSE b - a + Wrap
      /\ Between(a, c) = IF a <= c THEN c - a ELSE c - a + Wrap
  BY <1>3, BetweenIs
<1>5. c \in 0 .. Wrap - 1
  BY <1>3 DEF Offsets
<1>6. Between(a, c) = Between(a, b) + n
  BY <1>1, <1>3, <1>4, <1>5
<1> QED
  BY <1>2, <1>6 DEF c

\* ... or the near end.
LEMMA StartMoves ==
  ASSUME NEW a \in Offsets, NEW b \in Offsets, NEW n \in 0 .. Size,
         n <= Between(a, b)
  PROVE  /\ Ahead(a, n) \in Offsets /\ Between(Ahead(a, n), b) = Between(a, b) - n
<1>1. Size \in Nat \ {0} /\ Wrap \in Nat /\ Size < Wrap
      /\ a \in 0 .. Wrap - 1 /\ b \in 0 .. Wrap - 1 /\ n \in 0 .. Wrap - 1
  BY RingsAssumption DEF Offsets
<1> DEFINE c == Ahead(a, n)
<1>2. c \in Offsets /\ c = IF a + n < Wrap THEN a + n ELSE a + n - Wrap
  BY <1>1, AheadIs
<1> HIDE DEF c
<1>3. /\ Between(a, b) = IF a <= b THEN b - a ELSE b - a + Wrap
      /\ Between(c, b) = IF c <= b THEN b - c ELSE b - c + Wrap
  BY <1>2, BetweenIs
<1>4. c \in 0 .. Wrap - 1
  BY <1>2 DEF Offsets
<1>5. Between(c, b) = Between(a, b) - n
  BY <1>1, <1>2, <1>3, <1>4
<1> QED
  BY <1>2, <1>5 DEF c

\* An offset is as far ahead of another one as it is from it.
LEMMA AheadBetween ==
  ASSUME NEW a \in Offsets, NEW b \in Offsets
  PROVE  Ahead(a, Between(a, b)) = b
<1> DEFINE d == Between(a, b)
<1>1. Wrap \in Nat \ {0} /\ a \in 0 .. Wrap - 1 /\ b \in 0 .. Wrap - 1
  BY RingsAssumption DEF Offsets
<1>2. d \in 0 .. Wrap - 1 /\ d = IF a <= b THEN b - a ELSE b - a + Wrap
  BY BetweenIs
<1> HIDE DEF d
<1>3. Ahead(a, d) = IF a + d < Wrap THEN a + d ELSE a + d - Wrap
  BY <1>2, AheadIs
<1>4. Ahead(a, d) = b
  BY <1>1, <1>2, <1>3
<1> QED
  BY <1>4 DEF d

-----------------------------------------------------------------------------
(* The inductive invariant.                                                *)

InTx == Between(txRd, txEnd)    \* units sent and still to transmit
InRx == Between(rxOld, rxWr)    \* units that a read may return

\* The registers agree with what the chips go by, and a read takes no more
\* than there is.
Registers ==
    /\ txWr = txEnd /\ rxRd = rxOld
    /\ InRx <= Size
    /\ reading <= InRx /\ Len(got) <= InRx
    /\ got # <<>> => reading = 0

\* Every cell in use holds the unit that is due there.
Contents ==
    /\ InTx + sending <= Size
    /\ Len(received) + InRx + InTx + sending = written
    /\ \A j \in 1 .. InRx : rx[Cell(rxOld, j)] = Len(received) + j
    /\ \A j \in 1 .. InTx + sending : tx[Cell(txRd, j)] = Len(received) + InRx + j
    /\ \A j \in 1 .. Len(got) : got[j] = Len(received) + j
    /\ \A j \in 1 .. Len(received) : received[j] = j

IInv == TypeOK /\ Registers /\ (~ overrun => Contents)

\* What the types say of the numbers.
LEMMA Numbers ==
  ASSUME TypeOK
  PROVE  /\ {txWr, txRd, txEnd, rxWr, rxRd, rxOld} \subseteq Offsets
         /\ InTx \in 0 .. Wrap - 1 /\ InRx \in 0 .. Wrap - 1
         /\ sending \in 0 .. Size /\ reading \in 0 .. Cap
         /\ written \in Nat /\ Len(received) \in Nat /\ Len(got) \in Nat
         /\ Size \in Nat \ {0} /\ Wrap \in Nat \ {0} /\ Size + Size <= Wrap
         /\ Cap \in Nat \ {0} /\ Total \in Nat
<1>1. {txWr, txRd, txEnd, rxWr, rxRd, rxOld} \subseteq Offsets
  BY DEF TypeOK
<1>2. InTx \in 0 .. Wrap - 1 /\ InRx \in 0 .. Wrap - 1
  BY <1>1, BetweenIs DEF InTx, InRx
<1> QED
  BY <1>1, <1>2, TwoSizes, LenProperties, RingsAssumption DEF TypeOK

LEMMA InitHolds == Init => IInv
<1> SUFFICES ASSUME Init PROVE IInv
  OBVIOUS
<1>1. TypeOK
  <2>1. tx \in [Cells -> Units] /\ rx \in [Cells -> Units]
    <3>1. 0 \in Units
      BY RingsAssumption DEF Units
    <3> QED
      BY <3>1 DEF Init
  <2>2. {txWr, txRd, txEnd, rxWr, rxRd, rxOld} \subseteq Offsets
    BY DEF Init
  <2>3. sending \in 0 .. Size /\ reading \in 0 .. Cap /\ written \in 0 .. Total
    BY RingsAssumption DEF Init
  <2>4. got \in Seq(Units) /\ received \in Seq(Units) /\ overrun \in BOOLEAN
    BY EmptySeq DEF Init
  <2> QED
    BY <2>1, <2>2, <2>3, <2>4 DEF TypeOK
<1>2. InTx = 0 /\ InRx = 0
  <2>1. txRd \in Offsets /\ txEnd = txRd /\ rxOld \in Offsets /\ rxWr = rxOld
    BY DEF Init
  <2> QED
    BY <2>1, BetweenIs DEF InTx, InRx
<1>3. Len(got) = 0 /\ Len(received) = 0
  BY EmptySeq DEF Init
<1>4. Registers
  BY <1>2, <1>3, RingsAssumption DEF Registers, Init
<1>5. Contents
  <2>1. sending = 0 /\ written = 0 /\ Size \in Nat
    BY RingsAssumption DEF Init
  <2> QED
    BY <1>2, <1>3, <2>1 DEF Contents
<1> QED
  BY <1>1, <1>4, <1>5 DEF IInv

-----------------------------------------------------------------------------
(* Transmission.                                                           *)

\* send's data goes behind everything that is in the buffer, and over none of
\* it unless it overruns.
LEMMA FillStep == ASSUME IInv, NEW n \in Sizes, Fill(n) PROVE IInv'
<1>0. TypeOK /\ Registers /\ n \in 1 .. Size
  BY RingsAssumption DEF IInv
<1>N. /\ Size \in Nat \ {0} /\ n \in Nat /\ written \in Nat /\ Total \in Nat
      /\ InTx \in Nat /\ InRx \in Nat /\ Len(received) \in Nat
  BY <1>0, Numbers
<1> DEFINE cells == WriteCells(Masked(txWr), n)
<1>1. /\ sending = 0 /\ written + n <= Total /\ sending' = n /\ written' = written + n
      /\ overrun' = (overrun \/ Between(txRd, txWr) + n > Size)
      /\ UNCHANGED <<txWr, txRd, txEnd, rx, rxWr, rxRd, rxOld, reading, got, received>>
      /\ tx' = [c \in Cells |-> IF \E k \in 1 .. n : cells[k] = c
                                 THEN written + (CHOOSE k \in 1 .. n : cells[k] = c)
                                 ELSE tx[c]]
  BY DEF Fill, rxVars
<1>2. txWr \in Offsets /\ \A k \in 1 .. n : cells[k] = Cell(txWr, k)
  BY <1>0, FramesAre DEF TypeOK
<1> HIDE DEF cells
<1>3. /\ \A k \in 1 .. n : Cell(txWr, k) \in Cells
      /\ \A k \in 1 .. n : tx'[Cell(txWr, k)] = written + k
      /\ \A c \in Cells : (\A k \in 1 .. n : Cell(txWr, k) # c) => tx'[c] = tx[c]
      /\ tx' \in [Cells -> Units]
  <2>1. /\ \A k \in 1 .. n : Cell(txWr, k) \in Cells
        /\ \A j, k \in 1 .. n : Cell(txWr, j) = Cell(txWr, k) => j = k
    <3>1. \A k \in 1 .. n : k \in 1 .. Size
      BY <1>0, <1>N
    <3> QED
      BY <1>2, <3>1, CellsDiffer
  <2>2. ASSUME NEW k \in 1 .. n PROVE tx'[Cell(txWr, k)] = written + k
    <3> DEFINE c == Cell(txWr, k)
               kk == CHOOSE j \in 1 .. n : cells[j] = c
    <3>1. c \in Cells /\ cells[k] = c
      BY <1>2, <2>1
    <3>2. kk \in 1 .. n /\ cells[kk] = c
      BY <3>1
    <3>3. kk = k
      BY <1>2, <2>1, <3>2
    <3>4. tx'[c] = written + kk
      BY <1>1, <3>1
    <3> QED
      BY <3>3, <3>4
  <2>3. ASSUME NEW c \in Cells, \A k \in 1 .. n : Cell(txWr, k) # c PROVE tx'[c] = tx[c]
    BY <1>1, <1>2, <2>3
  <2>4. ASSUME NEW c \in Cells PROVE tx'[c] \in Units
    <3>1. CASE \E k \in 1 .. n : Cell(txWr, k) = c
      <4>1. PICK k \in 1 .. n : Cell(txWr, k) = c
        BY <3>1
      <4>2. tx'[c] = written + k
        BY <2>2, <4>1
      <4> QED
        BY <1>1, <1>N, <4>2 DEF Units
    <3>2. CASE ~ \E k \in 1 .. n : Cell(txWr, k) = c
      BY <1>0, <2>3, <3>2 DEF TypeOK
    <3> QED
      BY <3>1, <3>2
  <2>5. tx' \in [Cells -> Units]
    BY <1>1, <2>4
  <2> QED
    BY <2>1, <2>2, <2>3, <2>5
<1>4. TypeOK'
  <2>1. sending' \in 0 .. Size /\ written' \in 0 .. Total /\ overrun' \in BOOLEAN
    BY <1>0, <1>1, Numbers DEF TypeOK
  <2> QED
    BY <1>0, <1>1, <1>3, <2>1 DEF TypeOK
<1>5. InTx' = InTx /\ InRx' = InRx
  BY <1>1 DEF InTx, InRx
<1>6. Registers'
  BY <1>0, <1>1, <1>5 DEF Registers
<1>7. ASSUME ~ overrun' PROVE Contents'
  <2>1. Contents /\ InTx + n <= Size /\ txWr = txEnd
    <3>1. ~ overrun /\ ~ Between(txRd, txWr) + n > Size /\ txWr = txEnd
      BY <1>0, <1>1, <1>7 DEF Registers
    <3>2. InTx = Between(txRd, txWr)
      BY <3>1 DEF InTx
    <3> QED
      BY <1>N, <3>1, <3>2 DEF IInv
  <2>2. \A j \in 1 .. InTx + n : tx'[Cell(txRd, j)] = Len(received) + InRx + j
    <3> TAKE j \in 1 .. InTx + n
    <3>0. InTx \in Nat /\ InTx <= Size /\ j \in 1 .. Size /\ InTx \in 0 .. Size
      BY <1>0, <1>N, <2>1
    <3>1. txRd \in Offsets /\ Ahead(txRd, InTx) = txWr
      BY <1>0, <2>1, AheadBetween DEF InTx, TypeOK
    <3>2. ASSUME NEW k \in 1 .. n PROVE Cell(txWr, k) = Cell(txRd, InTx + k)
      <4>1. k \in 1 .. Size /\ InTx + k <= Size
        BY <1>0, <1>N, <2>1, <3>0
      <4> QED
        BY <3>0, <3>1, <4>1, CellAhead
    <3>3. CASE j > InTx
      <4>1. j - InTx \in 1 .. n /\ InTx + (j - InTx) = j
        BY <1>N, <3>0, <3>3
      <4>2. tx'[Cell(txRd, j)] = written + (j - InTx)
        BY <1>3, <3>2, <4>1
      <4>3. Len(received) + InRx + InTx = written
        BY <1>1, <1>N, <2>1 DEF Contents
      <4> QED
        BY <1>N, <3>0, <4>2, <4>3
    <3>4. CASE j <= InTx
      <4>1. \A k \in 1 .. n : InTx + k \in 1 .. Size /\ InTx + k # j
        BY <1>N, <2>1, <3>0, <3>4
      <4>2. \A k \in 1 .. n : Cell(txWr, k) # Cell(txRd, j)
        BY <3>0, <3>1, <3>2, <4>1, CellsDiffer
      <4>3. Cell(txRd, j) \in Cells
        BY <3>0, <3>1, CellsDiffer
      <4>4. tx'[Cell(txRd, j)] = tx[Cell(txRd, j)]
        BY <1>3, <4>2, <4>3
      <4>5. j \in 1 .. InTx + sending
        BY <1>1, <1>N, <3>0, <3>4
      <4> QED
        BY <2>1, <4>4, <4>5 DEF Contents
    <3> QED
      BY <1>N, <3>0, <3>3, <3>4
  <2>3. Len(received) + InRx + InTx + n = written + n
    BY <1>1, <1>N, <2>1 DEF Contents
  <2> QED
    BY <1>1, <1>5, <2>1, <2>2, <2>3 DEF Contents, Cell
<1> QED
  BY <1>4, <1>6, <1>7 DEF IInv

\* SEND hands the chip what was put behind the end.
LEMMA SendStep == ASSUME IInv, Send PROVE IInv'
<1>0. TypeOK /\ Registers
  BY DEF IInv
<1>N. /\ Size \in Nat \ {0} /\ Wrap \in Nat /\ Size < Wrap /\ sending \in 0 .. Size
      /\ InTx \in Nat /\ InRx \in Nat /\ {txWr, txRd, txEnd} \subseteq Offsets
  BY <1>0, Numbers, RingsAssumption
<1>1. /\ txWr' = Ahead(txWr, sending) /\ txEnd' = txWr' /\ sending' = 0
      /\ UNCHANGED <<tx, txRd, written, overrun, rx, rxWr, rxRd, rxOld, reading, got, received>>
  BY DEF Send, Moved, rxVars
<1>2. InRx' = InRx
  BY <1>1 DEF InRx
<1>3. TypeOK'
  <2>1. Ahead(txWr, sending) \in Offsets /\ 0 \in 0 .. Size
    BY <1>N, AheadIs
  <2> QED
    BY <1>0, <1>1, <2>1 DEF TypeOK
<1>4. Registers'
  BY <1>0, <1>1, <1>2 DEF Registers
<1>5. ASSUME ~ overrun' PROVE Contents'
  <2>1. Contents /\ txWr = txEnd
    BY <1>0, <1>1, <1>5 DEF IInv, Registers
  <2>2. InTx + sending <= Size
    BY <2>1 DEF Contents
  <2>3. InTx' = InTx + sending
    <3>1. Between(txRd, txEnd) + sending < Wrap
      BY <1>N, <2>2 DEF InTx
    <3>2. Between(txRd, Ahead(txEnd, sending)) = Between(txRd, txEnd) + sending
      BY <1>N, <3>1, EndMoves
    <3> QED
      BY <1>1, <2>1, <3>2 DEF InTx
  <2>4. InTx' + sending' = InTx + sending
    BY <1>N, <1>1, <2>3
  <2>5. Len(received) + InRx + InTx' + sending' = written
    <3>1. Len(received) \in Nat /\ Len(received) + InRx + InTx + sending = written
      BY <1>0, <2>1, Numbers DEF Contents
    <3> QED
      BY <1>1, <1>N, <2>3, <3>1
  <2> QED
    BY <1>1, <1>2, <2>1, <2>4, <2>5 DEF Contents, Cell
<1> QED
  BY <1>3, <1>4, <1>5 DEF IInv

\* The unit that is next leaves the one buffer and is the last of the other.
LEMMA TransmitStep == ASSUME IInv, Transmit PROVE IInv'
<1>0. TypeOK /\ Registers
  BY DEF IInv
<1>N. /\ Size \in Nat \ {0} /\ Wrap \in Nat /\ Size < Wrap /\ sending \in 0 .. Size
      /\ InTx \in Nat /\ InRx \in Nat /\ Len(received) \in Nat
      /\ {txWr, txRd, txEnd, rxWr, rxRd, rxOld} \subseteq Offsets
      /\ 1 \in 0 .. Size /\ 1 \in 1 .. Size
  BY <1>0, Numbers, RingsAssumption
<1>1. /\ txRd # txEnd /\ InRx < Size
      /\ rx' = [rx EXCEPT ![Masked(rxWr)] = tx[Masked(txRd)]]
      /\ txRd' = Ahead(txRd, 1) /\ rxWr' = Ahead(rxWr, 1)
      /\ UNCHANGED <<tx, txWr, txEnd, sending, written, overrun, rxRd, rxOld, reading, got, received>>
  BY DEF Transmit, InRx
<1>2. InRx' = InRx + 1
  <2>1. Between(rxOld, rxWr) + 1 < Wrap
    BY <1>N, <1>1 DEF InRx
  <2>2. Between(rxOld, Ahead(rxWr, 1)) = Between(rxOld, rxWr) + 1
    BY <1>N, <2>1, EndMoves
  <2> QED
    BY <1>1, <2>2 DEF InRx
<1>3. InTx >= 1 /\ InTx' = InTx - 1
  <2>1. Between(txRd, txEnd) # 0
    BY <1>N, <1>1, BetweenIs
  <2>2. InTx >= 1
    BY <1>N, <2>1 DEF InTx
  <2>3. Between(Ahead(txRd, 1), txEnd) = Between(txRd, txEnd) - 1
    BY <1>N, <2>2, StartMoves DEF InTx
  <2> QED
    BY <1>1, <2>2, <2>3 DEF InTx
<1>4. Masked(txRd) \in Cells /\ Masked(rxWr) \in Cells
  BY <1>N, MaskedIs
<1>5. TypeOK'
  <2>1. Ahead(txRd, 1) \in Offsets /\ Ahead(rxWr, 1) \in Offsets
    <3>1. 1 \in 0 .. Wrap - 1
      BY <1>N
    <3> QED
      BY <1>N, <3>1, AheadIs
  <2>2. rx' \in [Cells -> Units]
    BY <1>0, <1>1, <1>4 DEF TypeOK
  <2> QED
    BY <1>0, <1>1, <2>1, <2>2 DEF TypeOK
<1>6. Registers'
  <2>1. reading \in Nat /\ Len(got) \in Nat
    BY <1>0, Numbers
  <2> QED
    BY <1>0, <1>N, <1>1, <1>2, <2>1 DEF Registers
<1>7. ASSUME ~ overrun' PROVE Contents'
  <2>1. Contents
    BY <1>1, <1>7 DEF IInv
  <2>2. InTx + sending <= Size /\ Len(received) + InRx + InTx + sending = written
    BY <2>1 DEF Contents
  <2>3. InTx' + sending' <= Size /\ Len(received) + InRx' + InTx' + sending' = written
    BY <1>1, <1>2, <1>3, <1>N, <2>2
  <2>4. Cell(txRd, 1) = Masked(txRd)
    <3>1. 1 - 1 = 0 /\ 0 \in 0 .. Wrap - 1 /\ txRd \in 0 .. Wrap - 1
      BY <1>N DEF Offsets
    <3>2. Ahead(txRd, 0) = txRd
      BY <1>N, <3>1, AheadIs
    <3> QED
      BY <3>1, <3>2 DEF Cell
  <2>5. Cell(rxOld, InRx + 1) = Masked(rxWr)
    <3>1. Ahead(rxOld, InRx) = rxWr
      BY <1>N, AheadBetween DEF InRx
    <3>2. PICK j \in Int : j = InRx + 1 /\ j - 1 = InRx
      BY <1>N
    <3>3. Cell(rxOld, j) = Masked(rxWr)
      BY <3>1, <3>2 DEF Cell
    <3> QED
      BY <3>2, <3>3
  <2>6. tx[Masked(txRd)] = Len(received) + InRx + 1
    <3>1. 1 \in 1 .. InTx + sending
      BY <1>N, <1>3
    <3> QED
      BY <2>1, <2>4, <3>1 DEF Contents
  <2>7. ASSUME NEW j \in 1 .. InRx + 1 PROVE rx'[Cell(rxOld, j)] = Len(received) + j
    <3>1. j \in 1 .. Size /\ InRx + 1 \in 1 .. Size
      BY <1>N, <1>1
    <3>2. CASE j = InRx + 1
      <4>1. rx'[Masked(rxWr)] = Len(received) + InRx + 1
        BY <1>0, <1>1, <1>4, <2>6 DEF TypeOK
      <4>2. Len(received) + (InRx + 1) = Len(received) + InRx + 1
        BY <1>N
      <4> QED
        BY <2>5, <3>2, <4>1, <4>2
    <3>3. CASE j # InRx + 1
      <4>1. Cell(rxOld, j) # Masked(rxWr) /\ Cell(rxOld, j) \in Cells
        BY <1>N, <2>5, <3>1, <3>3, CellsDiffer
      <4>2. rx'[Cell(rxOld, j)] = rx[Cell(rxOld, j)]
        BY <1>0, <1>1, <4>1 DEF TypeOK
      <4>3. j \in 1 .. InRx
        BY <1>N, <3>3
      <4> QED
        BY <2>1, <4>2, <4>3 DEF Contents
    <3> QED
      BY <3>2, <3>3
  <2>8. ASSUME NEW j \in 1 .. InTx' + sending'
        PROVE  tx'[Cell(txRd, j)'] = Len(received) + InRx' + j
    <3>1. j \in 1 .. Size /\ 1 + j <= Size /\ 1 + j \in 1 .. InTx + sending
      BY <1>N, <1>1, <1>3, <2>2
    <3>2. Cell(txRd, j)' = Cell(txRd, 1 + j)
      <4>1. Cell(Ahead(txRd, 1), j) = Cell(txRd, 1 + j)
        BY <1>N, <3>1, CellAhead
      <4> QED
        BY <1>1, <4>1 DEF Cell
    <3>3. tx[Cell(txRd, 1 + j)] = Len(received) + InRx + (1 + j)
      BY <2>1, <3>1 DEF Contents
    <3>4. Len(received) + InRx + (1 + j) = Len(received) + (InRx + 1) + j
      BY <1>N, <3>1
    <3> QED
      BY <1>1, <1>2, <3>2, <3>3, <3>4
  <2>9. \A j \in 1 .. InRx' : rx'[Cell(rxOld, j)'] = Len(received) + j
    BY <1>1, <1>2, <2>7 DEF Cell
  <2> QED
    BY <1>1, <2>1, <2>3, <2>8, <2>9 DEF Contents
<1> QED
  BY <1>5, <1>6, <1>7 DEF IInv

-----------------------------------------------------------------------------
(* Reception.                                                              *)

\* A read takes no more than what is there.
LEMMA ReadSizeStep == ASSUME IInv, ReadSize PROVE IInv'
<1>0. TypeOK /\ Registers
  BY DEF IInv
<1>N. InRx \in Nat /\ Cap \in Nat \ {0}
  BY <1>0, Numbers
<1>1. /\ got = <<>> /\ reading' = IF InRx > Cap THEN Cap ELSE InRx
      /\ UNCHANGED <<tx, txWr, txRd, txEnd, sending, written, overrun, rx, rxWr, rxRd, rxOld,
                     got, received>>
  BY DEF ReadSize, InRx, txVars
<1>2. InTx' = InTx /\ InRx' = InRx
  BY <1>1 DEF InTx, InRx
<1>3. reading' \in 0 .. Cap /\ reading' <= InRx
  BY <1>N, <1>1
<1>4. TypeOK'
  BY <1>0, <1>1, <1>3 DEF TypeOK
<1>5. Registers'
  BY <1>0, <1>1, <1>2, <1>3 DEF Registers
<1>6. ASSUME ~ overrun' PROVE Contents'
  <2>1. Contents
    BY <1>1, <1>6 DEF IInv
  <2> QED
    BY <1>1, <1>2, <2>1 DEF Contents, Cell
<1> QED
  BY <1>4, <1>5, <1>6 DEF IInv

\* It copies the units that are next.
LEMMA CopyOutStep == ASSUME IInv, CopyOut PROVE IInv'
<1>0. TypeOK /\ Registers
  BY DEF IInv
<1>N. /\ Size \in Nat \ {0} /\ InRx \in Nat /\ Cap \in Nat \ {0}
      /\ reading \in 0 .. Cap /\ rxRd \in Offsets
  BY <1>0, Numbers
<1> DEFINE cells == ReadCells(Masked(rxRd), reading)
<1>1. /\ reading > 0 /\ reading' = 0
      /\ got' = [k \in 1 .. reading |-> rx[cells[k]]]
      /\ UNCHANGED <<tx, txWr, txRd, txEnd, sending, written, overrun, rx, rxWr, rxRd, rxOld,
                     received>>
  BY DEF CopyOut, txVars
<1>2. reading \in 1 .. Size /\ reading <= InRx /\ reading \in Nat
  BY <1>0, <1>1, <1>N DEF Registers
<1>3. \A k \in 1 .. reading : cells[k] = Cell(rxRd, k)
  BY <1>2, <1>N, FramesAre
<1> HIDE DEF cells
<1>4. \A k \in 1 .. reading : got'[k] = rx[Cell(rxRd, k)] /\ Cell(rxRd, k) \in Cells
  <2>1. \A k \in 1 .. reading : k \in 1 .. Size
    BY <1>2, <1>N
  <2> QED
    BY <1>1, <1>3, <1>N, <2>1, CellsDiffer
<1>5. got' \in Seq(Units) /\ Len(got') = reading
  <2>1. \A k \in 1 .. reading : rx[cells[k]] \in Units
    BY <1>0, <1>3, <1>4 DEF TypeOK
  <2>2. got' \in [1 .. reading -> Units]
    BY <1>1, <2>1
  <2> QED
    BY <1>2, <2>2, IsASeq, LenProperties
<1>6. InTx' = InTx /\ InRx' = InRx
  BY <1>1 DEF InTx, InRx
<1>7. TypeOK'
  <2>1. reading' \in 0 .. Cap
    BY <1>1, <1>N
  <2> QED
    BY <1>0, <1>1, <1>5, <2>1 DEF TypeOK
<1>8. Registers'
  BY <1>0, <1>1, <1>2, <1>5, <1>6 DEF Registers
<1>9. ASSUME ~ overrun' PROVE Contents'
  <2>1. Contents /\ rxRd = rxOld
    BY <1>0, <1>1, <1>9 DEF IInv, Registers
  <2>2. \A j \in 1 .. Len(got') : got'[j] = Len(received) + j
    <3>1. \A j \in 1 .. reading : j \in 1 .. InRx
      BY <1>2, <1>N
    <3> QED
      BY <1>4, <1>5, <2>1, <3>1 DEF Contents
  <2> QED
    BY <1>1, <1>6, <2>1, <2>2 DEF Contents, Cell
<1> QED
  BY <1>7, <1>8, <1>9 DEF IInv

\* And gives their room back when it returns them.
LEMMA ReturnStep == ASSUME IInv, Return PROVE IInv'
<1>0. TypeOK /\ Registers
  BY DEF IInv
<1> DEFINE m == Len(got)
<1>N. /\ Size \in Nat \ {0} /\ Wrap \in Nat /\ Size < Wrap /\ sending \in 0 .. Size
      /\ InTx \in Nat /\ InRx \in Nat /\ Len(received) \in Nat /\ m \in Nat
      /\ rxRd \in Offsets /\ rxOld \in Offsets /\ rxWr \in Offsets
      /\ got \in Seq(Units) /\ received \in Seq(Units)
  BY <1>0, Numbers, RingsAssumption DEF TypeOK
<1>1. /\ reading = 0 /\ rxRd' = Ahead(rxRd, m) /\ rxOld' = rxRd' /\ rxRd = rxOld
      /\ received' = received \o got /\ got' = <<>>
      /\ UNCHANGED <<tx, txWr, txRd, txEnd, sending, written, overrun, rx, rxWr, reading>>
  BY <1>0 DEF Return, Moved, txVars, Registers
<1>2. m \in 0 .. Size /\ m <= InRx /\ InRx <= Size
  BY <1>0, <1>N DEF Registers
<1>3. /\ received' \in Seq(Units) /\ Len(received') = Len(received) + m
      /\ \A k \in 1 .. Len(received) : received'[k] = received[k]
      /\ \A k \in 1 .. m : received'[Len(received) + k] = got[k]
  <2>1. /\ received \o got \in Seq(Units) /\ Len(received \o got) = Len(received) + Len(got)
        /\ \A k \in 1 .. Len(received) + Len(got) :
             (received \o got)[k] = IF k <= Len(received) THEN received[k]
                                    ELSE got[k - Len(received)]
    BY <1>N, ConcatProperties
  <2>2. \A k \in 1 .. Len(received) : k \in 1 .. Len(received) + m /\ k <= Len(received)
    BY <1>N
  <2>3. \A k \in 1 .. m : /\ Len(received) + k \in 1 .. Len(received) + m
                          /\ ~ Len(received) + k <= Len(received)
                          /\ Len(received) + k - Len(received) = k
    BY <1>N
  <2> QED
    BY <1>1, <2>1, <2>2, <2>3
<1>4. Len(got') = 0
  BY <1>1, EmptySeq
<1> HIDE DEF m
<1>5. Ahead(rxRd, m) \in Offsets /\ InRx' = InRx - m
  <2>1. m <= Between(rxOld, rxWr)
    BY <1>2 DEF InRx
  <2>2. Ahead(rxOld, m) \in Offsets /\ Between(Ahead(rxOld, m), rxWr) = Between(rxOld, rxWr) - m
    BY <1>N, <1>2, <2>1, StartMoves
  <2> QED
    BY <1>1, <2>2 DEF InRx
<1>6. InTx' = InTx
  BY <1>1 DEF InTx
<1>7. TypeOK'
  <2>1. got' \in Seq(Units)
    BY <1>1, EmptySeq
  <2> QED
    BY <1>0, <1>1, <1>3, <1>5, <2>1 DEF TypeOK
<1>8. Registers'
  <2>1. InRx' \in Nat /\ InRx' <= Size
    BY <1>2, <1>5, <1>N
  <2>2. reading' <= InRx' /\ Len(got') <= InRx' /\ reading' = 0
    BY <1>1, <1>4, <2>1
  <2> QED
    BY <1>0, <1>1, <2>1, <2>2 DEF Registers
<1>9. ASSUME ~ overrun' PROVE Contents'
  <2>1. Contents
    BY <1>1, <1>9 DEF IInv
  <2>2. Len(received) + InRx + InTx + sending = written /\ InTx + sending <= Size
    BY <2>1 DEF Contents
  <2>3. Len(received') + InRx' + InTx' + sending' = written'
    BY <1>1, <1>2, <1>3, <1>5, <1>6, <1>N, <2>2
  <2>4. ASSUME NEW j \in 1 .. InRx' PROVE rx'[Cell(rxOld, j)'] = Len(received') + j
    <3>1. /\ j \in 1 .. Size /\ m + j <= Size /\ m + j \in 1 .. InRx
          /\ Len(received) + (m + j) = Len(received') + j
      BY <1>2, <1>3, <1>5, <1>N
    <3>2. Cell(rxOld, j)' = Cell(rxOld, m + j)
      <4>1. Cell(Ahead(rxOld, m), j) = Cell(rxOld, m + j)
        BY <1>2, <1>N, <3>1, CellAhead
      <4> QED
        BY <1>1, <4>1 DEF Cell
    <3>3. rx[Cell(rxOld, m + j)] = Len(received) + (m + j)
      BY <2>1, <3>1 DEF Contents
    <3> QED
      BY <1>1, <3>1, <3>2, <3>3
  <2>5. ASSUME NEW j \in 1 .. InTx + sending
        PROVE  tx'[Cell(txRd, j)'] = Len(received') + InRx' + j
    <3>1. tx[Cell(txRd, j)] = Len(received) + InRx + j
      BY <2>1 DEF Contents
    <3>2. Len(received') + InRx' = Len(received) + InRx
      BY <1>2, <1>3, <1>5, <1>N
    <3> QED
      BY <1>1, <3>1, <3>2 DEF Cell
  <2>6. ASSUME NEW j \in 1 .. Len(received') PROVE received'[j] = j
    <3>1. CASE j <= Len(received)
      <4>1. j \in 1 .. Len(received)
        BY <1>N, <3>1
      <4> QED
        BY <1>3, <2>1, <4>1 DEF Contents
    <3>2. CASE j > Len(received)
      <4>1. j - Len(received) \in 1 .. m /\ Len(received) + (j - Len(received)) = j
        BY <1>3, <1>N, <3>2
      <4>2. received'[j] = got[j - Len(received)]
        BY <1>3, <4>1
      <4>3. got[j - Len(received)] = Len(received) + (j - Len(received))
        BY <2>1, <4>1 DEF Contents, m
      <4> QED
        BY <4>1, <4>2, <4>3
    <3> QED
      BY <1>N, <1>3, <3>1, <3>2
  <2>7. \A j \in 1 .. Len(got') : got'[j] = Len(received') + j
    BY <1>4
  <2> QED
    BY <1>1, <1>6, <2>2, <2>3, <2>4, <2>5, <2>6, <2>7 DEF Contents
<1> QED
  BY <1>7, <1>8, <1>9 DEF IInv

-----------------------------------------------------------------------------
LEMMA StepHolds == ASSUME IInv, [Next]_vars PROVE IInv'
<1>1. CASE UNCHANGED vars
  BY <1>1 DEF IInv, TypeOK, Registers, Contents, InTx, InRx, Cell, vars, txVars, rxVars
<1> QED
  BY <1>1, FillStep, SendStep, TransmitStep, ReadSizeStep, CopyOutStep, ReturnStep DEF Next

LEMMA Inductive == Spec => []IInv
<1>1. IInv /\ [Next]_vars => IInv'
  BY StepHolds
<1> QED
  BY <1>1, InitHolds, PTL DEF Spec

\* The registers stay offsets, and the buffers hold units of the stream.
THEOREM RingsTypeCorrect == Spec => []TypeOK
<1>1. IInv => TypeOK
  BY DEF IInv
<1> QED
  BY <1>1, Inductive, PTL

\* What a read returns is the next of what was written, for as long as send is
\* not called with more than there is room for: whatever the sizes of the
\* buffers, of the calls and of the reads, and across every end of a buffer
\* and of the range of the offset registers.
THEOREM StreamStaysIntact == Spec => []StreamIntact
<1>1. IInv => StreamIntact
  BY DEF IInv, Contents, StreamIntact
<1> QED
  BY <1>1, Inductive, PTL

\* Until then no unit is lost and none is there twice.
THEOREM AllStayAccounted == Spec => []AllAccounted
<1>1. IInv => AllAccounted
  BY DEF IInv, Registers, Contents, AllAccounted, InTx, InRx
<1> QED
  BY <1>1, Inductive, PTL

-----------------------------------------------------------------------------
(* Streams that fit.                                                       *)

\* What the calls of send give the transmit buffer, that it never holds more
\* of than was written, is within its size.
LEMMA FitsAlways ==
  ASSUME Total <= Size, IInv, ~ overrun, [Next]_vars
  PROVE  ~ overrun'
<1>1. ASSUME NEW n \in Sizes, Fill(n) PROVE ~ overrun'
  <2>1. /\ TypeOK /\ Registers /\ Contents
        /\ sending = 0 /\ written + n <= Total /\ n \in 1 .. Size
        /\ overrun' = (overrun \/ Between(txRd, txWr) + n > Size)
    BY <1>1, RingsAssumption DEF IInv, Fill
  <2>2. Between(txRd, txWr) = InTx
    BY <2>1 DEF Registers, InTx
  <2>3. /\ InTx \in Nat /\ InRx \in Nat /\ Len(received) \in Nat
        /\ Size \in Nat /\ written \in Nat /\ Total \in Nat
    BY <2>1, Numbers
  <2>4. Len(received) + InRx + InTx + sending = written
    BY <2>1 DEF Contents
  <2>5. InTx + n <= Size
    BY <2>1, <2>3, <2>4
  <2>6. ~ InTx + n > Size
    BY <2>1, <2>3, <2>5
  <2> QED
    BY <2>1, <2>2, <2>6
<1>2. CASE Send \/ Transmit \/ ReadSize \/ CopyOut \/ Return \/ UNCHANGED vars
  BY <1>2 DEF Send, Transmit, ReadSize, CopyOut, Return, vars, txVars
<1> QED
  BY <1>1, <1>2 DEF Next

\* Write_SOCK_Data_Buffer, which never asks for the room, does not have to when
\* the connection carries no more than the transmit buffer holds: nothing is
\* overwritten, however late the chip transmits, and the reader's copy of the
\* stream is right without any condition.
THEOREM ShortStreamsFit ==
  ASSUME Total <= Size
  PROVE  Spec => [](NeverOverwritten /\ \A k \in 1 .. Len(received) : received[k] = k)
<1>1. Init => ~ overrun
  BY DEF Init
<1>2. IInv /\ ~ overrun /\ [Next]_vars => ~ overrun'
  BY FitsAlways
<1>3. IInv /\ ~ overrun => NeverOverwritten /\ \A k \in 1 .. Len(received) : received[k] = k
  BY DEF IInv, Contents, NeverOverwritten
<1> QED
  BY <1>1, <1>2, <1>3, Inductive, PTL DEF Spec
=============================================================================
