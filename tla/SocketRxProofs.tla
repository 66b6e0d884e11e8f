--------------------------- MODULE SocketRxProofs ---------------------------
(***************************************************************************)
(* What the receive path promises for every number of sockets, every size  *)
(* of a read, every amount of traffic and every set of prompt readers,     *)
(* proved with TLAPS.                                                      *)
(***************************************************************************)
EXTENDS SocketRx, SequenceTheorems, TLAPS

-----------------------------------------------------------------------------
(* The inductive invariant.                                                *)

\* task_socket only runs when the prompt readers have what was posted to them.
Turn == awake => \A k \in Prompt : ~ Pending(k)

\* Only one prompt reader has a mail, it has only one, and g_pack is still
\* what it was when the reader took its length.
OneMail ==
    \A k \in Prompt : Pending(k) =>
        /\ mbox[k] => rd[k] \notin {"mail", "copy"}
        /\ rd[k] = "copy" => want[k] = pack.len
        /\ \A l \in Prompt : Pending(l) => l = k

\* The buffer of g_pack has held as many units as any reader is about to copy.
WantFits == \A k \in Socks : want[k] <= Len(pack.data)

IInv == TypeOK /\ WantFits /\ NoMailWhileWaiting /\ Turn /\ OneMail /\ NothingLost

-----------------------------------------------------------------------------
(* Lemmas about the sequences.                                             *)

\* Taking the n oldest units to the front of the buffer loses none of them and
\* leaves the buffer's length alone unless n is more.
LEMMA TakeUnits ==
  ASSUME NEW S, NEW q \in Seq(S), NEW d \in Seq(S), NEW n \in 0 .. Len(q)
  PROVE  /\ SubSeq(q, 1, n) \o SubSeq(d, n + 1, Len(d)) \in Seq(S)
         /\ Len(SubSeq(q, 1, n) \o SubSeq(d, n + 1, Len(d)))
              = IF n > Len(d) THEN n ELSE Len(d)
         /\ SubSeq(SubSeq(q, 1, n) \o SubSeq(d, n + 1, Len(d)), 1, n) = SubSeq(q, 1, n)
         /\ SubSeq(q, n + 1, Len(q)) \in Seq(S)
         /\ SubSeq(q, 1, n) \in Seq(S)
         /\ SubSeq(q, 1, n) \o SubSeq(q, n + 1, Len(q)) = q
<1> DEFINE a == SubSeq(q, 1, n)
           b == SubSeq(d, n + 1, Len(d))
<1>1. Len(q) \in Nat /\ Len(d) \in Nat /\ n \in Nat
  BY LenProperties
<1>2. a \in Seq(S) /\ Len(a) = n
  <2>1. \A k \in 1 .. n : q[k] \in S
    BY <1>1, ElementOfSeq
  <2> QED
    BY <1>1, <2>1, SubSeqProperties
<1>3. b \in Seq(S) /\ Len(b) = IF n > Len(d) THEN 0 ELSE Len(d) - n
  <2>1. \A k \in n + 1 .. Len(d) : d[k] \in S
    BY <1>1, ElementOfSeq
  <2> QED
    BY <1>1, <2>1, SubSeqProperties
<1>4. SubSeq(q, n + 1, Len(q)) \in Seq(S)
  <2>1. \A k \in n + 1 .. Len(q) : q[k] \in S
    BY <1>1, ElementOfSeq
  <2> QED
    BY <1>1, <2>1, SubSeqProperties
<1>5. a \o b \in Seq(S) /\ Len(a \o b) = Len(a) + Len(b)
  BY <1>2, <1>3, ConcatProperties
<1>6. SubSeq(a \o b, 1, n) = a
  <2>1. CASE n = 0
    <3>1. SubSeq(a \o b, 1, n) = <<>>
      BY <2>1, SubSeqEmpty
    <3>2. SubSeq(q, 1, n) = <<>>
      BY <2>1, SubSeqEmpty
    <3> QED
      BY <3>1, <3>2
  <2>2. CASE n > 0
    <3>1. 1 \in 1 .. Len(a) /\ n \in 1 .. Len(a)
      BY <1>1, <1>2, <2>2
    <3>2. SubSeq(a \o b, 1, n) = SubSeq(a, 1, n)
      BY <1>2, <1>3, <3>1, SubSeqOfConcat1
    <3>3. SubSeq(a, 1, Len(a)) = a
      BY <1>2, SubSeqFull
    <3> QED
      BY <1>2, <3>2, <3>3
  <2>3. n = 0 \/ n > 0
    BY <1>1
  <2> QED
    BY <2>1, <2>2, <2>3
<1>7. a \o SubSeq(q, n + 1, Len(q)) = q
  <2>1. 1 \in 1 .. Len(q) + 1 /\ n \in 1 - 1 .. Len(q) /\ Len(q) \in n .. Len(q)
    BY <1>1
  <2>2. a \o SubSeq(q, n + 1, Len(q)) = SubSeq(q, 1, Len(q))
    BY <2>1, ConcatAdjacentSubSeq
  <2> QED
    BY <2>2, SubSeqFull
<1>8. Len(a \o b) = IF n > Len(d) THEN n ELSE Len(d)
  <2> HIDE DEF a, b
  <2> QED
    BY <1>1, <1>2, <1>3, <1>5
<1> QED
  BY <1>2, <1>4, <1>5, <1>6, <1>7, <1>8

\* The first m units of a socket, and one more.
LEMMA UnitsSoFar ==
  ASSUME NEW k \in Socks, NEW m \in 0 .. MaxUnits - 1, MaxUnits \in Nat
  PROVE  /\ [n \in 1 .. m |-> Unit(k, n)] \in Seq(Units)
         /\ Unit(k, m + 1) \in Units
         /\ Append([n \in 1 .. m |-> Unit(k, n)], Unit(k, m + 1))
              = [n \in 1 .. m + 1 |-> Unit(k, n)]
<1>1. \A n \in 1 .. m + 1 : Unit(k, n) \in Units
  BY DEF Unit, Units
<1>2. [n \in 1 .. m |-> Unit(k, n)] \in Seq(Units)
  BY <1>1
<1> QED
  BY <1>1, <1>2

-----------------------------------------------------------------------------
(* The initial state and the type invariant.                               *)

\* At startup nothing was read, posted or asked for.
LEMMA InitHolds == Init => IInv
<1> SUFFICES ASSUME Init PROVE IInv
  OBVIOUS
<1> USE RxAssumption DEF Init, Socks
<1>1. TypeOK
  BY EmptySeq DEF TypeOK
<1>2. WantFits /\ NoMailWhileWaiting /\ Turn /\ OneMail
  BY EmptySeq DEF WantFits, NoMailWhileWaiting, Turn, OneMail, Pending
<1>3. ASSUME NEW k \in Prompt
      PROVE  recv[k] \o InFlight(k) \o rx[k] = [n \in 1 .. sent[k] |-> Unit(k, n)]
  <2>1. recv[k] = <<>> /\ InFlight(k) = <<>> /\ rx[k] = <<>> /\ sent[k] = 0
    BY DEF InFlight, Pending
  <2>2. <<>> \o <<>> = <<>>
    BY ConcatEmptySeq, EmptySeq
  <2>3. [n \in 1 .. 0 |-> Unit(k, n)] = <<>>
    OBVIOUS
  <2> QED
    BY <2>1, <2>2, <2>3
<1> QED
  BY <1>1, <1>2, <1>3 DEF IInv, NothingLost

\* What a poll of a socket leaves in g_pack and in the chip.
LEMMA AfterRead ==
  ASSUME TypeOK, Read(i)
  PROVE  /\ Taken(i) \in 0 .. Cap /\ Taken(i) \in 0 .. Len(rx[i])
         /\ pack'.len = Taken(i)
         /\ pack'.data \in Seq(Units)
         /\ Taken(i) <= Len(pack'.data) /\ Len(pack'.data) <= Cap
         /\ Len(pack.data) <= Len(pack'.data)
         /\ SubSeq(pack'.data, 1, Taken(i)) = SubSeq(rx[i], 1, Taken(i))
         /\ rx' = [rx EXCEPT ![i] = SubSeq(rx[i], Taken(i) + 1, Len(rx[i]))]
         /\ rx'[i] \in Seq(Units)
         /\ SubSeq(rx[i], 1, Taken(i)) \in Seq(Units)
         /\ SubSeq(rx[i], 1, Taken(i)) \o rx'[i] = rx[i]
<1> DEFINE n == Taken(i)
<1>1. /\ i \in Socks /\ rx[i] \in Seq(Units) /\ pack.data \in Seq(Units)
      /\ Len(pack.data) <= Cap /\ rx \in [Socks -> Seq(Units)]
  BY DEF TypeOK
<1>2. Len(rx[i]) \in Nat /\ Len(pack.data) \in Nat /\ Cap \in Nat
  BY <1>1, LenProperties, RxAssumption
<1>3. n \in 0 .. Cap /\ n \in 0 .. Len(rx[i])
  BY <1>2 DEF Taken
<1>4. /\ pack'.len = n
      /\ pack'.data = SubSeq(rx[i], 1, n) \o SubSeq(pack.data, n + 1, Len(pack.data))
      /\ rx' = [rx EXCEPT ![i] = SubSeq(rx[i], n + 1, Len(rx[i]))]
  BY DEF Read
<1>5. rx'[i] = SubSeq(rx[i], n + 1, Len(rx[i]))
  BY <1>1, <1>4
<1> HIDE DEF n
<1>6. /\ pack'.data \in Seq(Units)
      /\ Len(pack'.data) = IF n > Len(pack.data) THEN n ELSE Len(pack.data)
      /\ SubSeq(pack'.data, 1, n) = SubSeq(rx[i], 1, n)
      /\ rx'[i] \in Seq(Units)
      /\ SubSeq(rx[i], 1, n) \in Seq(Units)
      /\ SubSeq(rx[i], 1, n) \o rx'[i] = rx[i]
  <2> DEFINE q == rx[i]
             d == pack.data
  <2>1. q \in Seq(Units) /\ d \in Seq(Units) /\ n \in 0 .. Len(q)
    BY <1>1, <1>3
  <2> HIDE DEF q, d
  <2>2. /\ SubSeq(q, 1, n) \o SubSeq(d, n + 1, Len(d)) \in Seq(Units)
        /\ Len(SubSeq(q, 1, n) \o SubSeq(d, n + 1, Len(d)))
             = IF n > Len(d) THEN n ELSE Len(d)
        /\ SubSeq(SubSeq(q, 1, n) \o SubSeq(d, n + 1, Len(d)), 1, n) = SubSeq(q, 1, n)
        /\ SubSeq(q, n + 1, Len(q)) \in Seq(Units)
        /\ SubSeq(q, 1, n) \in Seq(Units)
        /\ SubSeq(q, 1, n) \o SubSeq(q, n + 1, Len(q)) = q
    BY <2>1, TakeUnits
  <2> QED
    BY <1>4, <1>5, <2>2, Zenon DEF q, d
<1>7. n <= Len(pack'.data) /\ Len(pack'.data) <= Cap /\ Len(pack.data) <= Len(pack'.data)
  BY <1>1, <1>2, <1>3, <1>6
<1> QED
  BY <1>3, <1>4, <1>6, <1>7 DEF n

\* The next index of the loop is a socket.
LEMMA IndexType == i \in Socks => NextIndex \in Socks
BY RxAssumption DEF Socks, NextIndex

\* Every step of task_socket, of the readers, of the tick and of the peers
\* preserves the type invariant.
LEMMA TypeStep == TypeOK /\ WantFits /\ [Next]_vars => TypeOK'
<1> SUFFICES ASSUME TypeOK, WantFits, [Next]_vars PROVE TypeOK'
  OBVIOUS
<1> USE RxAssumption DEF taskVars
<1>1. CASE Sweep
  <2>1. Read(i) /\ i \in Socks
    BY <1>1 DEF Sweep, TypeOK
  <2>2. /\ pack'.len \in 0 .. Cap /\ pack'.len <= Len(pack'.data)
        /\ Len(pack'.data) <= Cap /\ pack'.data \in Seq(Units)
        /\ rx' \in [Socks -> Seq(Units)]
    BY <2>1, AfterRead DEF TypeOK
  <2>3. i' \in Socks /\ awake' \in BOOLEAN
    BY <1>1, <2>1, IndexType DEF Sweep
  <2>4. /\ mbox' \in [Socks -> BOOLEAN]
        /\ rd' \in [Socks -> {"out", "wait", "expired", "mail", "copy"}]
    BY <1>1, <2>1 DEF Sweep, Post, TypeOK
  <2> QED
    BY <1>1, <2>2, <2>3, <2>4 DEF Sweep, TypeOK
<1>2. CASE Wake
  BY <1>2 DEF Wake, TypeOK
<1>3. ASSUME NEW k \in Socks, Arrive(k) PROVE TypeOK'
  <2>1. sent[k] \in 0 .. MaxUnits - 1
    BY <1>3 DEF Arrive, TypeOK
  <2>2. Unit(k, sent[k] + 1) \in Units
    BY <2>1, UnitsSoFar
  <2>3. Append(rx[k], Unit(k, sent[k] + 1)) \in Seq(Units)
    BY <2>2, AppendProperties DEF TypeOK
  <2>4. sent' \in [Socks -> 0 .. MaxUnits] /\ rx' \in [Socks -> Seq(Units)]
    <3> DEFINE q == Append(rx[k], Unit(k, sent[k] + 1))
    <3>1. sent' \in [Socks -> 0 .. MaxUnits]
      <4>1. sent \in [Socks -> 0 .. MaxUnits] /\ sent' = [sent EXCEPT ![k] = sent[k] + 1]
        BY <1>3 DEF Arrive, TypeOK
      <4>2. sent[k] + 1 \in 0 .. MaxUnits
        BY <2>1
      <4> QED
        BY <4>1, <4>2
    <3>2. q \in Seq(Units) /\ rx' = [rx EXCEPT ![k] = q] /\ rx \in [Socks -> Seq(Units)]
      BY <1>3, <2>3 DEF Arrive, TypeOK
    <3> HIDE DEF q
    <3>3. rx' \in [Socks -> Seq(Units)]
      BY <3>2
    <3> QED
      BY <3>1, <3>3
  <2> QED
    BY <1>3, <2>4 DEF Arrive, TypeOK
<1>4. ASSUME NEW k \in Socks, Expire(k) PROVE TypeOK'
  BY <1>4 DEF Expire, TypeOK
<1>5. ASSUME NEW k \in Socks, Pend(k) PROVE TypeOK'
  BY <1>5 DEF Pend, MailTaken, TypeOK
<1>6. ASSUME NEW k \in Socks, TimedOut(k) PROVE TypeOK'
  BY <1>6 DEF TimedOut, TypeOK
<1>7. ASSUME NEW k \in Socks, TakeLen(k) PROVE TypeOK'
  BY <1>7 DEF TakeLen, TypeOK
<1>8. ASSUME NEW k \in Socks, Copy(k) PROVE TypeOK'
  <2>1. \A n \in 1 .. want[k] : pack.data[n] \in Units
    BY ElementOfSeq, LenProperties DEF TypeOK, WantFits
  <2>2. SubSeq(pack.data, 1, want[k]) \in Seq(Units)
    BY <2>1, SubSeqProperties DEF TypeOK
  <2>3. recv[k] \o SubSeq(pack.data, 1, want[k]) \in Seq(Units)
    BY <2>2, ConcatProperties DEF TypeOK
  <2> QED
    BY <1>8, <2>3 DEF Copy, TypeOK
<1>9. CASE UNCHANGED vars
  BY <1>9 DEF vars, TypeOK
<1> QED
  BY <1>1, <1>2, <1>3, <1>4, <1>5, <1>6, <1>7, <1>8, <1>9 DEF Next, Reader

\* Every step preserves that a reader never copies more than g_pack has held.
LEMMA WantStep == TypeOK /\ WantFits /\ [Next]_vars => WantFits'
<1> SUFFICES ASSUME TypeOK, WantFits, [Next]_vars PROVE WantFits'
  OBVIOUS
<1> USE RxAssumption DEF taskVars, WantFits
<1>1. CASE Sweep
  <2>1. Len(pack.data) <= Len(pack'.data) /\ want' = want
    BY <1>1, AfterRead DEF Sweep
  <2>2. Len(pack.data) \in Nat /\ Len(pack'.data) \in Nat
    BY <1>1, AfterRead, LenProperties DEF Sweep, TypeOK
  <2>3. \A k \in Socks : want[k] \in Nat
    BY DEF TypeOK
  <2> QED
    BY <2>1, <2>2, <2>3
<1>2. CASE Wake
  BY <1>2 DEF Wake
<1>3. ASSUME NEW k \in Socks, Arrive(k) PROVE WantFits'
  BY <1>3 DEF Arrive
<1>4. ASSUME NEW k \in Socks, Expire(k) PROVE WantFits'
  BY <1>4 DEF Expire
<1>5. ASSUME NEW k \in Socks, Pend(k) PROVE WantFits'
  BY <1>5 DEF Pend
<1>6. ASSUME NEW k \in Socks, TimedOut(k) PROVE WantFits'
  BY <1>6 DEF TimedOut
<1>7. ASSUME NEW k \in Socks, TakeLen(k) PROVE WantFits'
  BY <1>7 DEF TakeLen, TypeOK
<1>8. ASSUME NEW k \in Socks, Copy(k) PROVE WantFits'
  BY <1>8 DEF Copy
<1>9. CASE UNCHANGED vars
  BY <1>9 DEF vars
<1> QED
  BY <1>1, <1>2, <1>3, <1>4, <1>5, <1>6, <1>7, <1>8, <1>9 DEF Next, Reader

\* Every step preserves that no reader waits beside a full mailbox: the pend
\* takes the message if there is one, and a post hands it to whoever is still
\* on the wait list.
LEMMA WaitStep == TypeOK /\ NoMailWhileWaiting /\ [Next]_vars => NoMailWhileWaiting'
<1> SUFFICES ASSUME TypeOK, NoMailWhileWaiting, [Next]_vars PROVE NoMailWhileWaiting'
  OBVIOUS
<1> USE RxAssumption DEF taskVars, NoMailWhileWaiting, TypeOK
<1>1. CASE Sweep
  BY <1>1 DEF Sweep, Post, OnWaitList
<1>2. CASE Wake
  BY <1>2 DEF Wake
<1>3. ASSUME NEW k \in Socks, Arrive(k) PROVE NoMailWhileWaiting'
  BY <1>3 DEF Arrive
<1>4. ASSUME NEW k \in Socks, Expire(k) PROVE NoMailWhileWaiting'
  BY <1>4 DEF Expire
<1>5. ASSUME NEW k \in Socks, Pend(k) PROVE NoMailWhileWaiting'
  BY <1>5 DEF Pend, MailTaken
<1>6. ASSUME NEW k \in Socks, TimedOut(k) PROVE NoMailWhileWaiting'
  BY <1>6 DEF TimedOut
<1>7. ASSUME NEW k \in Socks, TakeLen(k) PROVE NoMailWhileWaiting'
  BY <1>7 DEF TakeLen
<1>8. ASSUME NEW k \in Socks, Copy(k) PROVE NoMailWhileWaiting'
  BY <1>8 DEF Copy
<1>9. CASE UNCHANGED vars
  BY <1>9 DEF vars
<1> QED
  BY <1>1, <1>2, <1>3, <1>4, <1>5, <1>6, <1>7, <1>8, <1>9 DEF Next, Reader

-----------------------------------------------------------------------------
(* The mail of the prompt readers.                                         *)

\* task_socket only posts when no prompt reader has a mail: a step that does
\* not post preserves who has one, and Wake waits for all of them.
LEMMA MailStep ==
  TypeOK /\ Turn /\ OneMail /\ [Next]_vars => Turn' /\ OneMail'
<1> SUFFICES ASSUME TypeOK, Turn, OneMail, [Next]_vars PROVE Turn' /\ OneMail'
  OBVIOUS
<1>0. Prompt \subseteq Socks
  BY RxAssumption
<1> USE DEF taskVars, Turn, OneMail, Pending
<1>1. CASE Sweep
  <2>1. \A k \in Prompt : ~ mbox[k] /\ rd[k] \notin {"mail", "copy"}
    BY <1>1 DEF Sweep
  <2>2. CASE Taken(i) > 0
    <3>1. ~ awake' /\ Post(i)
      BY <1>1, <2>2 DEF Sweep
    <3>2. \A k \in Prompt : k # i => mbox'[k] = mbox[k] /\ rd'[k] = rd[k]
      BY <1>0, <3>1 DEF Post, TypeOK
    <3>3. i \in Prompt => /\ rd'[i] # "copy"
                          /\ mbox'[i] => rd'[i] \notin {"mail", "copy"}
      BY <1>0, <2>1, <3>1 DEF Post, OnWaitList, TypeOK
    <3> QED
      BY <2>1, <3>1, <3>2, <3>3
  <2>3. CASE ~ Taken(i) > 0
    BY <1>1, <2>1, <2>3 DEF Sweep
  <2> QED
    BY <2>2, <2>3
<1>2. CASE Wake
  BY <1>2 DEF Wake
<1>3. ASSUME NEW k \in Socks, Arrive(k) PROVE Turn' /\ OneMail'
  BY <1>3 DEF Arrive
<1>4. ASSUME NEW k \in Socks, Expire(k) PROVE Turn' /\ OneMail'
  BY <1>0, <1>4 DEF Expire, TypeOK
<1>5. ASSUME NEW k \in Socks, Pend(k) PROVE Turn' /\ OneMail'
  BY <1>0, <1>5 DEF Pend, MailTaken, TypeOK
<1>6. ASSUME NEW k \in Socks, TimedOut(k) PROVE Turn' /\ OneMail'
  BY <1>0, <1>6 DEF TimedOut, TypeOK
<1>7. ASSUME NEW k \in Socks, TakeLen(k) PROVE Turn' /\ OneMail'
  BY <1>0, <1>7 DEF TakeLen, TypeOK
<1>8. ASSUME NEW k \in Socks, Copy(k) PROVE Turn' /\ OneMail'
  BY <1>0, <1>8 DEF Copy, TypeOK
<1>9. CASE UNCHANGED vars
  BY <1>9 DEF vars
<1> QED
  BY <1>1, <1>2, <1>3, <1>4, <1>5, <1>6, <1>7, <1>8, <1>9 DEF Next, Reader

-----------------------------------------------------------------------------
(* Nothing is lost.                                                        *)

\* What is in g_pack for a reader is a sequence of units.
LEMMA InFlightType ==
  ASSUME TypeOK, NEW k \in Socks
  PROVE  InFlight(k) \in Seq(Units)
<1>1. \A n \in 1 .. pack.len : pack.data[n] \in Units
  BY ElementOfSeq, LenProperties DEF TypeOK
<1>2. SubSeq(pack.data, 1, pack.len) \in Seq(Units)
  BY <1>1, SubSeqProperties DEF TypeOK
<1> QED
  BY <1>2, EmptySeq DEF InFlight

\* What arrives goes to the end of everything the socket has not returned.
LEMMA AppendLast ==
  ASSUME NEW S, NEW a \in Seq(S), NEW b \in Seq(S), NEW c \in Seq(S), NEW u \in S
  PROVE  a \o b \o Append(c, u) = Append(a \o b \o c, u)
<1> DEFINE ab == a \o b
<1>1. ab \in Seq(S)
  BY ConcatProperties
<1> HIDE DEF ab
<1>2. ab \o Append(c, u) = Append(ab \o c, u)
  BY <1>1
<1> QED
  BY <1>2 DEF ab

\* Every step preserves that nothing is lost.
LEMMA LostStep ==
  /\ TypeOK /\ Turn /\ OneMail /\ NothingLost /\ [Next]_vars
  => NothingLost'
<1> SUFFICES ASSUME TypeOK, Turn, OneMail, NothingLost, [Next]_vars,
                    NEW k \in Prompt
             PROVE  (recv[k] \o InFlight(k) \o rx[k]
                       = [n \in 1 .. sent[k] |-> Unit(k, n)])'
  BY DEF NothingLost
<1>0. k \in Socks
  BY RxAssumption
<1>a. recv[k] \o InFlight(k) \o rx[k] = [n \in 1 .. sent[k] |-> Unit(k, n)]
  BY DEF NothingLost
<1>b. recv[k] \in Seq(Units) /\ InFlight(k) \in Seq(Units) /\ rx[k] \in Seq(Units)
  BY <1>0, InFlightType DEF TypeOK
\* A step that changes none of the four.
<1>c. ASSUME recv'[k] = recv[k], InFlight(k)' = InFlight(k),
             rx'[k] = rx[k], sent'[k] = sent[k]
      PROVE  (recv[k] \o InFlight(k) \o rx[k] = [n \in 1 .. sent[k] |-> Unit(k, n)])'
  BY <1>a, <1>c DEF Unit
<1>1. CASE Sweep
  <2>1. /\ ~ Pending(k) /\ InFlight(k) = <<>>
        /\ recv' = recv /\ sent' = sent /\ Read(i) /\ i \in Socks
    BY <1>1 DEF Sweep, Turn, InFlight, TypeOK
  <2>2. CASE i # k
    <3>1. rx'[k] = rx[k]
      BY <1>0, <2>1, <2>2 DEF Read, TypeOK
    <3>2. mbox'[k] = mbox[k] /\ rd'[k] = rd[k]
      BY <1>0, <1>1, <2>2 DEF Sweep, Post, TypeOK
    <3>3. InFlight(k)' = <<>>
      BY <2>1, <3>2 DEF InFlight, Pending
    <3> QED
      BY <1>c, <2>1, <3>1, <3>3
  <2>3. CASE i = k /\ Taken(i) > 0
    <3>1. Pending(k)'
      BY <1>0, <1>1, <2>3 DEF Sweep, Post, Pending, TypeOK
    <3>2. InFlight(k)' = SubSeq(rx[k], 1, Taken(k))
      BY <2>1, <2>3, <3>1, AfterRead DEF InFlight
    <3>3. /\ SubSeq(rx[k], 1, Taken(k)) \in Seq(Units) /\ rx'[k] \in Seq(Units)
          /\ SubSeq(rx[k], 1, Taken(k)) \o rx'[k] = rx[k]
      BY <2>1, <2>3, AfterRead
    <3>4. recv[k] \o SubSeq(rx[k], 1, Taken(k)) \o rx'[k]
            = recv[k] \o (SubSeq(rx[k], 1, Taken(k)) \o rx'[k])
      <4> DEFINE a == recv[k]
                 b == SubSeq(rx[k], 1, Taken(k))
                 c == rx'[k]
      <4>1. a \in Seq(Units) /\ b \in Seq(Units) /\ c \in Seq(Units)
        BY <1>b, <3>3
      <4> HIDE DEF a, b, c
      <4>2. a \o b \o c = a \o (b \o c)
        BY <4>1, ConcatAssociative
      <4> QED
        BY <4>2 DEF a, b, c
    <3>5. recv[k] \o <<>> = recv[k]
      BY <1>b, ConcatEmptySeq
    <3>6. recv[k] \o InFlight(k)' \o rx'[k] = [n \in 1 .. sent[k] |-> Unit(k, n)]
      BY <1>a, <2>1, <3>2, <3>3, <3>4, <3>5, Zenon
    <3> QED
      BY <2>1, <3>6 DEF Unit
  <2>4. CASE i = k /\ ~ Taken(i) > 0
    <3>1. Taken(k) = 0
      BY <2>1, <2>4, AfterRead
    <3>2. SubSeq(rx[k], 1, 0) = <<>>
      BY SubSeqEmpty
    <3>3. rx'[k] \in Seq(Units) /\ <<>> \o rx'[k] = rx[k]
      BY <2>1, <2>4, <3>1, <3>2, AfterRead
    <3>4. rx'[k] = rx[k]
      BY <3>3, ConcatEmptySeq
    <3>5. InFlight(k)' = <<>>
      BY <1>1, <2>1, <2>4 DEF Sweep, InFlight, Pending
    <3> QED
      BY <1>c, <2>1, <3>4, <3>5
  <2> QED
    BY <2>2, <2>3, <2>4
<1>2. CASE Wake
  BY <1>2, <1>c DEF Wake, InFlight, Pending
<1>3. ASSUME NEW l \in Socks, Arrive(l)
      PROVE  (recv[k] \o InFlight(k) \o rx[k] = [n \in 1 .. sent[k] |-> Unit(k, n)])'
  <2>1. recv' = recv /\ InFlight(k)' = InFlight(k)
    BY <1>3 DEF Arrive, InFlight, Pending
  <2>2. CASE l # k
    <3>1. rx'[k] = rx[k] /\ sent'[k] = sent[k]
      BY <1>0, <1>3, <2>2 DEF Arrive, TypeOK
    <3> QED
      BY <1>c, <2>1, <3>1
  <2>3. CASE l = k
    <3>1. /\ sent[k] \in 0 .. MaxUnits - 1 /\ MaxUnits \in Nat
          /\ rx'[k] = Append(rx[k], Unit(k, sent[k] + 1))
          /\ sent'[k] = sent[k] + 1
      BY <1>0, <1>3, <2>3, RxAssumption DEF Arrive, TypeOK
    <3>2. /\ Unit(k, sent[k] + 1) \in Units
          /\ Append([n \in 1 .. sent[k] |-> Unit(k, n)], Unit(k, sent[k] + 1))
               = [n \in 1 .. sent[k] + 1 |-> Unit(k, n)]
      BY <1>0, <3>1, UnitsSoFar
    <3>3. recv[k] \o InFlight(k) \o Append(rx[k], Unit(k, sent[k] + 1))
            = Append(recv[k] \o InFlight(k) \o rx[k], Unit(k, sent[k] + 1))
      <4> DEFINE a == recv[k]
                 b == InFlight(k)
                 c == rx[k]
                 u == Unit(k, sent[k] + 1)
      <4>1. a \in Seq(Units) /\ b \in Seq(Units) /\ c \in Seq(Units) /\ u \in Units
        BY <1>b, <3>2
      <4> HIDE DEF a, b, c, u
      <4>2. a \o b \o Append(c, u) = Append(a \o b \o c, u)
        BY <4>1, AppendLast
      <4> QED
        BY <4>2 DEF a, b, c, u
    <3>4. recv[k] \o InFlight(k) \o Append(rx[k], Unit(k, sent[k] + 1))
            = [n \in 1 .. sent[k] + 1 |-> Unit(k, n)]
      BY <1>a, <3>2, <3>3, Zenon
    <3>5. recv'[k] \o InFlight(k)' \o rx'[k] = [n \in 1 .. sent'[k] |-> Unit(k, n)]
      BY <2>1, <3>1, <3>4, Zenon
    <3> QED
      BY <3>5 DEF Unit
  <2> QED
    BY <2>2, <2>3
<1>4. ASSUME NEW l \in Socks, Expire(l) \/ Pend(l) \/ TimedOut(l) \/ TakeLen(l)
      PROVE  (recv[k] \o InFlight(k) \o rx[k] = [n \in 1 .. sent[k] |-> Unit(k, n)])'
  <2>1. recv' = recv /\ rx' = rx /\ sent' = sent /\ pack' = pack
    BY <1>4 DEF Expire, Pend, TimedOut, TakeLen
  <2>2. Pending(k)' = Pending(k)
    <3>1. CASE Expire(l)
      BY <1>0, <3>1 DEF Expire, Pending, TypeOK
    <3>2. CASE Pend(l)
      BY <1>0, <3>2 DEF Pend, MailTaken, Pending, TypeOK
    <3>3. CASE TimedOut(l)
      BY <1>0, <3>3 DEF TimedOut, Pending, TypeOK
    <3>4. CASE TakeLen(l)
      BY <1>0, <3>4 DEF TakeLen, Pending, TypeOK
    <3> QED
      BY <1>4, <3>1, <3>2, <3>3, <3>4
  <2>3. InFlight(k)' = InFlight(k)
    BY <2>1, <2>2 DEF InFlight
  <2> QED
    BY <1>c, <2>1, <2>3
<1>5. ASSUME NEW l \in Socks, Copy(l)
      PROVE  (recv[k] \o InFlight(k) \o rx[k] = [n \in 1 .. sent[k] |-> Unit(k, n)])'
  <2>1. rx' = rx /\ sent' = sent /\ pack' = pack /\ mbox' = mbox
    BY <1>5 DEF Copy
  <2>2. CASE l # k
    <3>1. recv'[k] = recv[k] /\ rd'[k] = rd[k]
      BY <1>0, <1>5, <2>2 DEF Copy, TypeOK
    <3>2. InFlight(k)' = InFlight(k)
      BY <2>1, <3>1 DEF InFlight, Pending
    <3> QED
      BY <1>c, <2>1, <3>1, <3>2
  <2>3. CASE l = k
    <3>1. Pending(k) /\ want[k] = pack.len /\ ~ mbox[k]
      BY <1>5, <2>3 DEF Copy, Pending, OneMail
    <3>2. recv'[k] = recv[k] \o InFlight(k)
      BY <1>0, <1>5, <2>3, <3>1 DEF Copy, InFlight, TypeOK
    <3>3. InFlight(k)' = <<>>
      BY <1>0, <1>5, <2>1, <2>3, <3>1 DEF Copy, InFlight, Pending, TypeOK
    <3>4. recv[k] \o InFlight(k) \in Seq(Units)
      BY <1>b, ConcatProperties
    <3>5. recv[k] \o InFlight(k) \o <<>> = recv[k] \o InFlight(k)
      BY <3>4, ConcatEmptySeq
    <3>6. recv'[k] \o InFlight(k)' \o rx'[k] = [n \in 1 .. sent'[k] |-> Unit(k, n)]
      BY <1>a, <2>1, <3>2, <3>3, <3>5, Zenon
    <3> QED
      BY <3>6 DEF Unit
  <2> QED
    BY <2>2, <2>3
<1>6. CASE UNCHANGED vars
  BY <1>6, <1>c DEF vars, InFlight, Pending
<1> QED
  BY <1>1, <1>2, <1>3, <1>4, <1>5, <1>6 DEF Next, Reader

-----------------------------------------------------------------------------
(* The theorems.                                                           *)

\* The inductive invariant holds in every state of every behaviour.
LEMMA Inductive == Spec => []IInv
<1>1. Init => IInv
  BY InitHolds
<1>2. IInv /\ [Next]_vars => IInv'
  BY TypeStep, WantStep, WaitStep, MailStep, LostStep DEF IInv
<1> QED
  BY <1>1, <1>2, PTL DEF Spec

\* Type correctness: among others, a read never makes g_pack's data longer
\* than its buffer, and the poll index is always a socket.
THEOREM RxTypeCorrect == Spec => []TypeOK
<1>1. IInv => TypeOK
  BY DEF IInv
<1> QED
  BY <1>1, Inductive, PTL

\* OSMboxPend, OSMboxPost and the tick never leave a reader waiting, or give it
\* a timeout, while its mailbox holds a message.
THEOREM NoLostWakeup == Spec => []NoMailWhileWaiting
<1>1. IInv => NoMailWhileWaiting
  BY DEF IInv
<1> QED
  BY <1>1, Inductive, PTL

\* Nothing that arrives for a reader that collects its mail within task_socket's
\* sleep is lost, repeated or reordered, whatever the other readers do.
THEOREM RxNothingLost == Spec => []NothingLost
<1>1. IInv => NothingLost
  BY DEF IInv
<1> QED
  BY <1>1, Inductive, PTL

-----------------------------------------------------------------------------
(* The receive path implements the queue per socket.                       *)

Queue(k) == InFlight(k) \o rx[k]

\* With nothing lost, what is queued follows from what was sent and returned.
QueueInv ==
    \A k \in Prompt :
        /\ Queue(k) \in Seq(Units) /\ recv[k] \in Seq(Units)
        /\ InFlight(k) \in Seq(Units) /\ rx[k] \in Seq(Units)
        /\ recv[k] \o Queue(k) = [n \in 1 .. sent[k] |-> Unit(k, n)]
        /\ Len(recv[k]) + Len(Queue(k)) = sent[k]

LEMMA QueueIs == TypeOK /\ NothingLost => QueueInv
<1> SUFFICES ASSUME TypeOK, NothingLost, NEW k \in Prompt
             PROVE  /\ Queue(k) \in Seq(Units) /\ recv[k] \in Seq(Units)
                    /\ InFlight(k) \in Seq(Units) /\ rx[k] \in Seq(Units)
                    /\ recv[k] \o Queue(k) = [n \in 1 .. sent[k] |-> Unit(k, n)]
                    /\ Len(recv[k]) + Len(Queue(k)) = sent[k]
  BY DEF QueueInv
<1>0. k \in Socks
  BY RxAssumption
<1> DEFINE a == recv[k]
           b == InFlight(k)
           c == rx[k]
           units == [n \in 1 .. sent[k] |-> Unit(k, n)]
<1>1. a \in Seq(Units) /\ b \in Seq(Units) /\ c \in Seq(Units)
  BY <1>0, InFlightType DEF TypeOK
<1>2. a \o b \o c = units
  BY DEF NothingLost
<1>3. sent[k] \in Nat
  BY <1>0 DEF TypeOK
<1>4. Len(units) = sent[k]
  BY <1>3
<1>5. Queue(k) = b \o c
  BY DEF Queue
<1> HIDE DEF a, b, c, units
<1>6. b \o c \in Seq(Units) /\ a \o b \o c = a \o (b \o c)
  BY <1>1, ConcatProperties, ConcatAssociative
<1>7. Len(a \o (b \o c)) = Len(a) + Len(b \o c)
  BY <1>1, <1>6, ConcatProperties
<1> QED
  BY <1>1, <1>2, <1>4, <1>5, <1>6, <1>7 DEF a, b, c, units

\* A step that returns nothing and in which nothing arrives leaves the queue.
LEMMA QueueStays ==
  ASSUME QueueInv, QueueInv', NEW k \in Prompt, recv'[k] = recv[k], sent'[k] = sent[k]
  PROVE  Queue(k)' = Queue(k)
<1>1. /\ Queue(k) \in Seq(Units) /\ recv[k] \in Seq(Units)
      /\ recv[k] \o Queue(k) = [n \in 1 .. sent[k] |-> Unit(k, n)]
  BY DEF QueueInv
<1>2. /\ Queue(k)' \in Seq(Units)
      /\ recv[k] \o Queue(k)' = [n \in 1 .. sent[k] |-> Unit(k, n)]
  BY DEF QueueInv, Unit
<1> QED
  BY <1>1, <1>2, ConcatSimplifications

\* What arrives on a socket goes to the end of its queue.
LEMMA ArriveStep ==
  ASSUME TypeOK, QueueInv, NEW k \in Prompt, Arrive(k)
  PROVE  Queue(k)' = Append(Queue(k), Unit(k, Len(recv[k]) + Len(Queue(k)) + 1))
<1>0. k \in Socks
  BY RxAssumption
<1> DEFINE b == InFlight(k)
           c == rx[k]
           u == Unit(k, sent[k] + 1)
<1>1. b \in Seq(Units) /\ c \in Seq(Units) /\ Len(recv[k]) + Len(Queue(k)) = sent[k]
  BY DEF QueueInv
<1>2. u \in Units
  <2>1. sent[k] \in 0 .. MaxUnits - 1 /\ MaxUnits \in Nat
    BY <1>0, RxAssumption DEF Arrive, TypeOK
  <2> QED
    BY <1>0, <2>1, UnitsSoFar
<1>3. InFlight(k)' = b /\ rx'[k] = Append(c, u)
  BY <1>0 DEF Arrive, InFlight, Pending, TypeOK
<1>4. Queue(k) = b \o c /\ Queue(k)' = b \o Append(c, u)
  BY <1>3 DEF Queue
<1> HIDE DEF b, c, u
<1>5. b \o Append(c, u) = Append(b \o c, u)
  BY <1>1, <1>2
<1> QED
  BY <1>1, <1>4, <1>5 DEF u

\* What a prompt reader copies is the front of its queue.
LEMMA CopyStep ==
  ASSUME TypeOK, OneMail, QueueInv, NEW k \in Prompt, Copy(k)
  PROVE  \E n \in 0 .. Len(Queue(k)) :
            /\ recv'[k] = recv[k] \o SubSeq(Queue(k), 1, n)
            /\ Queue(k)' = SubSeq(Queue(k), n + 1, Len(Queue(k)))
<1>0. k \in Socks
  BY RxAssumption
<1> DEFINE b == InFlight(k)
           c == rx[k]
           n == Len(b)
<1>1. b \in Seq(Units) /\ c \in Seq(Units) /\ Queue(k) = b \o c
  BY DEF QueueInv, Queue
<1>2. Pending(k) /\ want[k] = pack.len /\ ~ mbox[k]
  BY DEF Copy, Pending, OneMail
<1>3. recv'[k] = recv[k] \o b
  BY <1>0, <1>2 DEF Copy, InFlight, TypeOK
<1>4. InFlight(k)' = <<>> /\ rx'[k] = c
  BY <1>0, <1>2 DEF Copy, InFlight, Pending, TypeOK
<1>5. Queue(k)' = <<>> \o c
  BY <1>4 DEF Queue
<1> HIDE DEF b, c
<1>6. Queue(k)' = c
  BY <1>1, <1>5, ConcatEmptySeq
<1>7. n \in Nat /\ Len(c) \in Nat /\ Len(b \o c) = n + Len(c)
  BY <1>1, LenProperties, ConcatProperties
<1>8. SubSeq(b \o c, 1, n) = b
  <2>1. CASE n = 0
    <3>1. b = <<>>
      BY <1>1, <2>1, EmptySeq
    <3> QED
      BY <2>1, <3>1, SubSeqEmpty
  <2>2. CASE n > 0
    <3>1. 1 \in 1 .. Len(b) /\ n \in 1 .. Len(b)
      BY <1>7, <2>2
    <3>2. SubSeq(b \o c, 1, n) = SubSeq(b, 1, n)
      BY <1>1, <3>1, SubSeqOfConcat1
    <3> QED
      BY <1>1, <3>2, SubSeqFull
  <2> QED
    BY <1>7, <2>1, <2>2
<1>9. SubSeq(b \o c, n + 1, n + Len(c)) = c
  <2>1. CASE Len(c) = 0
    <3>1. c = <<>>
      BY <1>1, <2>1, EmptySeq
    <3> QED
      BY <1>7, <2>1, <3>1, SubSeqEmpty
  <2>2. CASE Len(c) > 0
    <3>1. /\ n + 1 \in Len(b) + 1 .. Len(b) + Len(c)
          /\ n + Len(c) \in Len(b) + 1 .. Len(b) + Len(c)
          /\ n + 1 - Len(b) = 1 /\ n + Len(c) - Len(b) = Len(c)
      BY <1>7, <2>2
    <3>2. SubSeq(b \o c, n + 1, n + Len(c)) = SubSeq(c, n + 1 - Len(b), n + Len(c) - Len(b))
      BY <1>1, <3>1, SubSeqOfConcat2
    <3>3. SubSeq(c, 1, Len(c)) = c
      BY <1>1, SubSeqFull
    <3> QED
      BY <3>1, <3>2, <3>3
  <2> QED
    BY <1>7, <2>1, <2>2
<1>10. n \in 0 .. Len(Queue(k))
  BY <1>1, <1>7
<1>11. /\ recv'[k] = recv[k] \o SubSeq(Queue(k), 1, n)
       /\ Queue(k)' = SubSeq(Queue(k), n + 1, Len(Queue(k)))
  BY <1>1, <1>3, <1>6, <1>7, <1>8, <1>9
<1> QED
  BY <1>10, <1>11

\* The queues and what was returned, as the refinement mapping gives them.
Queues == [k \in Prompt |-> Queue(k)]
Returned == [k \in Prompt |-> recv[k]]

\* A step that changes neither for any prompt reader is a stutter.
LEMMA Stutters ==
  ASSUME QueueInv, QueueInv',
         \A k \in Prompt : recv'[k] = recv[k] /\ sent'[k] = sent[k]
  PROVE  UNCHANGED <<Queues, Returned>>
<1>1. \A k \in Prompt : Queue(k)' = Queue(k)
  BY QueueStays
<1> QED
  BY <1>1 DEF Queues, Returned

\* An arrival at a prompt reader's socket is one in the channel.
LEMMA ArriveMaps ==
  ASSUME TypeOK, QueueInv, QueueInv', NEW k \in Prompt, Arrive(k)
  PROVE  /\ Queues' = [Queues EXCEPT ![k]
                        = Append(Queues[k], Unit(k, Len(Returned[k]) + Len(Queues[k]) + 1))]
         /\ UNCHANGED Returned
<1>1. recv' = recv /\ \A l \in Prompt : l # k => sent'[l] = sent[l]
  BY RxAssumption DEF Arrive, TypeOK
<1>2. \A l \in Prompt : l # k => Queue(l)' = Queue(l)
  BY <1>1, QueueStays
<1>3. Queue(k)' = Append(Queue(k), Unit(k, Len(recv[k]) + Len(Queue(k)) + 1))
  BY ArriveStep
<1>4. Queues[k] = Queue(k) /\ Returned[k] = recv[k]
  BY DEF Queues, Returned
<1> DEFINE q == Append(Queue(k), Unit(k, Len(recv[k]) + Len(Queue(k)) + 1))
<1>5. Queue(k)' = q
  BY <1>3
<1> HIDE DEF q
<1>6. Queues' = [Queues EXCEPT ![k] = q]
  BY <1>2, <1>5 DEF Queues
<1>7. Queues' = [Queues EXCEPT ![k]
                   = Append(Queues[k], Unit(k, Len(Returned[k]) + Len(Queues[k]) + 1))]
  BY <1>4, <1>6 DEF q
<1>8. UNCHANGED Returned
  BY <1>1 DEF Returned
<1> QED
  BY <1>7, <1>8

\* What a prompt reader copies is one Receive of the channel, or nothing.
LEMMA CopyMaps ==
  ASSUME TypeOK, OneMail, QueueInv, QueueInv', NEW k \in Prompt, Copy(k)
  PROVE  \/ \E n \in 1 .. Len(Queues[k]) :
               /\ Returned' = [Returned EXCEPT ![k] = Returned[k] \o SubSeq(Queues[k], 1, n)]
               /\ Queues' = [Queues EXCEPT ![k] = SubSeq(Queues[k], n + 1, Len(Queues[k]))]
         \/ UNCHANGED <<Queues, Returned>>
<1>1. /\ sent' = sent
      /\ \A l \in Prompt : l # k => recv'[l] = recv[l]
  BY RxAssumption DEF Copy, TypeOK
<1>2. \A l \in Prompt : l # k => Queue(l)' = Queue(l)
  BY <1>1, QueueStays
<1>3. PICK n \in 0 .. Len(Queue(k)) :
        /\ recv'[k] = recv[k] \o SubSeq(Queue(k), 1, n)
        /\ Queue(k)' = SubSeq(Queue(k), n + 1, Len(Queue(k)))
  BY CopyStep
<1>4. Queues[k] = Queue(k) /\ Returned[k] = recv[k]
  BY DEF Queues, Returned
<1>5. Queue(k) \in Seq(Units) /\ recv[k] \in Seq(Units)
  BY DEF QueueInv
<1>6. CASE n = 0
  <2>1. SubSeq(Queue(k), 1, n) = <<>>
    BY <1>6, SubSeqEmpty
  <2>2. recv'[k] = recv[k]
    BY <1>3, <1>5, <2>1, ConcatEmptySeq
  <2>3. \A l \in Prompt : recv'[l] = recv[l] /\ sent'[l] = sent[l]
    BY <1>1, <2>2
  <2> QED
    BY <2>3, Stutters
<1>7. CASE n # 0
  <2> DEFINE r == recv[k] \o SubSeq(Queue(k), 1, n)
             q == SubSeq(Queue(k), n + 1, Len(Queue(k)))
  <2>1. recv'[k] = r /\ Queue(k)' = q
    BY <1>3
  <2>2. n \in 1 .. Len(Queues[k])
    BY <1>4, <1>5, <1>7, LenProperties
  <2> HIDE DEF r, q
  <2>3. Returned' = [Returned EXCEPT ![k] = r] /\ Queues' = [Queues EXCEPT ![k] = q]
    BY <1>1, <1>2, <2>1 DEF Returned, Queues
  <2> QED
    BY <1>4, <2>2, <2>3 DEF r, q
<1> QED
  BY <1>6, <1>7

\* Every step is one of the channel's or changes nothing a caller sees.
LEMMA StepMaps ==
  IInv /\ QueueInv /\ QueueInv' /\ [Next]_vars
    => \/ \E k \in Prompt :
            \/ /\ Queues' = [Queues EXCEPT ![k]
                               = Append(Queues[k], Unit(k, Len(Returned[k]) + Len(Queues[k]) + 1))]
               /\ UNCHANGED Returned
            \/ \E n \in 1 .. Len(Queues[k]) :
                 /\ Returned' = [Returned EXCEPT ![k] = Returned[k] \o SubSeq(Queues[k], 1, n)]
                 /\ Queues' = [Queues EXCEPT ![k] = SubSeq(Queues[k], n + 1, Len(Queues[k]))]
       \/ UNCHANGED <<Queues, Returned>>
<1> SUFFICES ASSUME IInv, QueueInv, QueueInv', [Next]_vars,
                    ~ UNCHANGED <<Queues, Returned>>
             PROVE  \E k \in Prompt :
            \/ /\ Queues' = [Queues EXCEPT ![k]
                               = Append(Queues[k], Unit(k, Len(Returned[k]) + Len(Queues[k]) + 1))]
               /\ UNCHANGED Returned
            \/ \E n \in 1 .. Len(Queues[k]) :
                 /\ Returned' = [Returned EXCEPT ![k] = Returned[k] \o SubSeq(Queues[k], 1, n)]
                 /\ Queues' = [Queues EXCEPT ![k] = SubSeq(Queues[k], n + 1, Len(Queues[k]))]
  OBVIOUS
<1>0. TypeOK /\ OneMail /\ Prompt \subseteq Socks
  BY RxAssumption DEF IInv
<1>1. ASSUME recv' = recv, sent' = sent PROVE FALSE
  BY <1>1, Stutters
<1>2. ~ Sweep
  BY <1>1 DEF Sweep
<1>3. ~ Wake
  BY <1>1 DEF Wake
<1>4. \A k \in Socks : ~ Expire(k)
  BY <1>1 DEF Expire
<1>5. \A k \in Socks : ~ Pend(k) /\ ~ TimedOut(k) /\ ~ TakeLen(k)
  BY <1>1 DEF Pend, TimedOut, TakeLen
<1>6. ~ UNCHANGED vars
  BY <1>1 DEF vars
<1>7. PICK k \in Socks : Arrive(k) \/ Copy(k)
  BY <1>2, <1>3, <1>4, <1>5, <1>6 DEF Next, Reader
<1>8. k \in Prompt
  <2> SUFFICES ASSUME k \notin Prompt PROVE FALSE
    OBVIOUS
  <2>1. \A l \in Prompt : recv'[l] = recv[l] /\ sent'[l] = sent[l]
    BY <1>0, <1>7 DEF Arrive, Copy, TypeOK
  <2> QED
    BY <2>1, Stutters
<1> QED
  BY <1>0, <1>7, <1>8, ArriveMaps, CopyMaps

\* The receive path of the prompt readers implements, for any number of
\* sockets and any traffic, a lossless first-in first-out queue per socket:
\* g_pack, the mailboxes, the poll and the timeouts are not seen by a caller.
THEOREM ImplementsChannel == Spec => IsChannel
<1>1. Init => Channel!Init
  <2> SUFFICES ASSUME Init PROVE Channel!Init
    OBVIOUS
  <2>1. \A k \in Prompt : recv[k] = <<>> /\ InFlight(k) = <<>> /\ rx[k] = <<>>
    BY RxAssumption DEF Init, InFlight, Pending
  <2>2. <<>> \o <<>> = <<>>
    BY ConcatEmptySeq, EmptySeq
  <2> QED
    BY <2>1, <2>2 DEF Channel!Init
<1>2. IInv /\ QueueInv /\ QueueInv' /\ [Next]_vars => [Channel!Next]_<<Queues, Returned>>
  BY StepMaps DEF Channel!Next, Channel!Arrive, Channel!Receive, Queues, Returned, Queue
<1>3. IInv => QueueInv
  BY QueueIs DEF IInv
<1>4. Queues = [k \in Prompt |-> InFlight(k) \o rx[k]] /\ Returned = [k \in Prompt |-> recv[k]]
  BY DEF Queues, Returned, Queue
<1> QED
  BY <1>1, <1>2, <1>3, Inductive, PTL DEF Spec, IsChannel, Channel!Spec, Queues, Returned, Queue
=============================================================================
