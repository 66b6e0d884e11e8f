-------------------------- MODULE WebServerProofs --------------------------
(***************************************************************************)
(* That the HTTP server on top of the receive path is the HTTP server of   *)
(* HttpServer, and where old data may come from, for every size of a read, *)
(* every amount of traffic, every chunk and every content, proved with     *)
(* TLAPS.                                                                  *)
(***************************************************************************)
EXTENDS WebServer, SequenceTheorems, TLAPS

-----------------------------------------------------------------------------
(* The inductive invariant.                                                *)

WithSocket == {"recv", "handle", "first", "body", "done", "close_wait", "discon",
               "close", "bind", "listen", "listening"}

\* The descriptor is that of the one socket, or none.
HasSocket == s \in {-1, 0} /\ (pc \in WithSocket => s = 0)

Old == [sock : {0}, seq : Nat]

PathOK ==
    /\ idx = 0
    /\ pack.len \in Nat /\ pack.data \in Seq(Old) /\ pack.len <= Len(pack.data)
    /\ rx \in [{0} -> Seq(Old)]
    /\ mbox \in [{0} -> BOOLEAN]
    /\ rd \in [{0} -> {"out", "wait", "expired", "mail", "copy"}]
    /\ want \in [{0} -> Nat]
    /\ sent \in [{0} -> Nat]
    /\ opened \in Nat /\ opened <= sent[0]
    /\ left \in BOOLEAN

\* The server is in recvfrom only where it calls it.
Calling == rd[0] # "out" => pc = "recv"

\* The first n units of a sequence have arrived since the socket was opened.
Fresh(seq, n) == \A m \in 1 .. n : seq[m].seq > opened

\* OPEN has emptied the chip.
ChipFresh == Fresh(rx[0], Len(rx[0]))

\* A mail from before is there until it is copied; a pend that waits has none.
LeftIsMail ==
    /\ left => mbox[0] \/ rd[0] \in {"mail", "copy"}
    /\ rd[0] \in {"wait", "expired"} => ~ mbox[0]

\* What was posted since is fresh, and so is what is posted while the server
\* is still at the mail before.
PackFresh ==
    /\ R!Pending(0) /\ ~ left => Fresh(pack.data, pack.len)
    /\ mbox[0] /\ rd[0] \in {"mail", "copy"} => Fresh(pack.data, pack.len)

CopyFresh ==
    rd[0] = "copy" /\ ~ left => Fresh(pack.data, want[0]) /\ want[0] <= Len(pack.data)

IInv ==
    HasSocket /\ PathOK /\ Calling /\ ChipFresh /\ LeftIsMail /\ PackFresh /\ CopyFresh

-----------------------------------------------------------------------------
(* Lemmas.                                                                 *)

\* There is one socket.
LEMMA OneSocket == R!Socks = {0} /\ H!Slots = {0} /\ Reduced!Slots = {0}
BY DEF R!Socks, H!Slots, Reduced!Slots

\* At startup nothing was read, posted or asked for.
LEMMA InitHolds == Init => IInv
<1> SUFFICES ASSUME Init PROVE IInv
  OBVIOUS
<1> USE OneSocket, EmptySeq DEF Init, R!Init, IInv
<1>1. HasSocket
  BY DEF HasSocket, WithSocket
<1>2. PathOK
  <2>1. /\ idx = 0 /\ left \in BOOLEAN /\ opened = 0 /\ sent = [k \in {0} |-> 0]
        /\ pack.len = 0 /\ pack.data = <<>>
    OBVIOUS
  <2>2. /\ rx \in [{0} -> Seq(Old)] /\ mbox \in [{0} -> BOOLEAN]
        /\ rd \in [{0} -> {"out", "wait", "expired", "mail", "copy"}]
        /\ want \in [{0} -> Nat] /\ sent \in [{0} -> Nat]
    OBVIOUS
  <2> QED
    BY <2>1, <2>2 DEF PathOK
<1>3. Calling /\ LeftIsMail /\ CopyFresh
  BY DEF Calling, LeftIsMail, CopyFresh
<1>4. ChipFresh
  BY DEF ChipFresh, Fresh
<1>5. PackFresh
  BY DEF PackFresh, R!Pending
<1> QED
  BY <1>1, <1>2, <1>3, <1>4, <1>5

\* A poll moves the oldest units of the chip to the front of g_pack.
LEMMA AfterPoll ==
  ASSUME PathOK, R!Read(0)
  PROVE  /\ R!Taken(0) \in 0 .. Len(rx[0])
         /\ pack'.len = R!Taken(0)
         /\ pack'.data \in Seq(Old) /\ pack'.len <= Len(pack'.data)
         /\ Len(pack.data) <= Len(pack'.data)
         /\ \A m \in 1 .. pack'.len : pack'.data[m] = rx[0][m]
         /\ \A m \in pack'.len + 1 .. Len(pack.data) : pack'.data[m] = pack.data[m]
         /\ rx' = [rx EXCEPT ![0] = SubSeq(rx[0], R!Taken(0) + 1, Len(rx[0]))]
         /\ rx'[0] \in Seq(Old) /\ Len(rx'[0]) = Len(rx[0]) - R!Taken(0)
         /\ \A m \in 1 .. Len(rx'[0]) : rx'[0][m] = rx[0][m + R!Taken(0)]
         /\ R!Taken(0) = 0 => rx[0] = <<>> /\ rx'[0] = <<>>
<1> DEFINE n == R!Taken(0)
           q == rx[0]
           d == pack.data
           a == SubSeq(q, 1, n)
           b == SubSeq(d, n + 1, Len(d))
           c == SubSeq(q, n + 1, Len(q))
<1>1. q \in Seq(Old) /\ d \in Seq(Old) /\ Len(q) \in Nat /\ Len(d) \in Nat
  BY LenProperties DEF PathOK
<1>2. n \in 0 .. Len(q) /\ (n = 0 => Len(q) = 0)
  BY <1>1, WebAssumption DEF R!Taken
<1>3. pack' = [len |-> n, data |-> a \o b] /\ rx' = [rx EXCEPT ![0] = c]
  BY DEF R!Read
<1>4. rx'[0] = c
  BY <1>3 DEF PathOK
<1>h. /\ rx[0] = q /\ pack.data = d /\ R!Taken(0) = n
  OBVIOUS
<1> HIDE DEF n, q, d
<1>5. a \in Seq(Old) /\ Len(a) = n /\ \A m \in 1 .. n : a[m] = q[m]
  <2>1. \A k \in 1 .. n : q[k] \in Old
    BY <1>1, <1>2, ElementOfSeq
  <2> QED
    BY <1>1, <1>2, <2>1, SubSeqProperties
<1>6. /\ b \in Seq(Old) /\ Len(b) = IF n > Len(d) THEN 0 ELSE Len(d) - n
      /\ \A m \in 1 .. Len(b) : b[m] = d[m + n]
  <2>1. \A k \in n + 1 .. Len(d) : d[k] \in Old
    BY <1>1, <1>2, ElementOfSeq
  <2>2. /\ b \in Seq(Old) /\ Len(b) = (IF n + 1 <= Len(d) THEN Len(d) - (n + 1) + 1 ELSE 0)
        /\ \A m \in 1 .. Len(d) - (n + 1) + 1 : b[m] = d[n + 1 + m - 1]
    BY <1>1, <1>2, <2>1, SubSeqProperties
  <2> QED
    BY <1>1, <1>2, <2>2
<1>7. /\ c \in Seq(Old) /\ Len(c) = Len(q) - n
      /\ \A m \in 1 .. Len(c) : c[m] = q[m + n]
  <2>1. \A k \in n + 1 .. Len(q) : q[k] \in Old
    BY <1>1, <1>2, ElementOfSeq
  <2>2. /\ c \in Seq(Old) /\ Len(c) = (IF n + 1 <= Len(q) THEN Len(q) - (n + 1) + 1 ELSE 0)
        /\ \A m \in 1 .. Len(q) - (n + 1) + 1 : c[m] = q[n + 1 + m - 1]
    BY <1>1, <1>2, <2>1, SubSeqProperties
  <2> QED
    BY <1>1, <1>2, <2>2
<1> HIDE DEF a, b, c
<1>8. /\ a \o b \in Seq(Old) /\ Len(a \o b) = Len(a) + Len(b)
      /\ \A m \in 1 .. Len(a) + Len(b) :
            (a \o b)[m] = IF m <= Len(a) THEN a[m] ELSE b[m - Len(a)]
  <2>1. a \in Seq(Old) /\ b \in Seq(Old)
    BY <1>5, <1>6
  <2> QED
    BY <2>1, ConcatProperties, Zenon
<1>9. /\ \A m \in 1 .. n : (a \o b)[m] = q[m]
      /\ \A m \in n + 1 .. Len(d) : (a \o b)[m] = d[m]
      /\ Len(d) <= Len(a \o b) /\ n <= Len(a \o b)
  BY <1>1, <1>2, <1>5, <1>6, <1>8
<1>10. n = 0 => q = <<>> /\ c = <<>>
  <2>1. n = 0 => Len(q) = 0 /\ Len(c) = 0
    BY <1>1, <1>2, <1>7
  <2>2. ASSUME NEW seq \in Seq(Old), Len(seq) = 0 PROVE seq = <<>>
    BY <2>2, EmptySeq
  <2> QED
    BY <1>1, <1>7, <2>1, <2>2
<1>11. pack'.len = n /\ pack'.data = a \o b
  BY <1>3
<1>12. rx' = [rx EXCEPT ![0] = SubSeq(rx[0], R!Taken(0) + 1, Len(rx[0]))]
  BY <1>3, <1>h DEF c
<1>13. /\ rx'[0] \in Seq(Old) /\ Len(rx'[0]) = Len(rx[0]) - R!Taken(0)
       /\ \A m \in 1 .. Len(rx'[0]) : rx'[0][m] = rx[0][m + R!Taken(0)]
  BY <1>h, <1>4, <1>7, Zenon
<1>14. /\ \A m \in 1 .. pack'.len : pack'.data[m] = rx[0][m]
       /\ \A m \in pack'.len + 1 .. Len(pack.data) : pack'.data[m] = pack.data[m]
       /\ Len(pack.data) <= Len(pack'.data) /\ pack'.len <= Len(pack'.data)
       /\ pack'.data \in Seq(Old)
  BY <1>h, <1>8, <1>9, <1>11, Zenon
<1>15. R!Taken(0) = 0 => rx[0] = <<>> /\ rx'[0] = <<>>
  BY <1>h, <1>4, <1>10, Zenon
<1>16. R!Taken(0) \in 0 .. Len(rx[0]) /\ pack'.len = R!Taken(0)
  BY <1>h, <1>2, <1>11, Zenon
<1> QED
  BY <1>12, <1>13, <1>14, <1>15, <1>16

-----------------------------------------------------------------------------
(* The server has the socket where it uses it.                             *)

\* The steps of httpServer_run outside recvfrom, by name.
LEMMA SocketStep ==
  HasSocket /\ Calling /\ PathOK /\ [Next]_vars => HasSocket' /\ Calling'
<1> SUFFICES ASSUME HasSocket, Calling, PathOK, [Next]_vars PROVE HasSocket' /\ Calling'
  OBVIOUS
<1> USE OneSocket DEF HasSocket, Calling, WithSocket
<1>1. CASE Pend
  BY <1>1 DEF Pend, R!Pend, serverVars, PathOK
<1>2. CASE TimedOut
  BY <1>2 DEF TimedOut, R!TimedOut, H!RecvNothing, PathOK
<1>3. CASE TakeLen
  BY <1>3 DEF TakeLen, R!TakeLen, serverVars, PathOK
<1>4. CASE Copy
  BY <1>4 DEF Copy, R!Copy, H!RecvNothing, H!RecvRequest, PathOK
<1>5. CASE Bind
  BY <1>5 DEF Bind, H!Bind
<1>6. CASE Other
  <2>1. rd' = rd
    BY <1>6 DEF Other, pathVars
  <2>2. CASE H!Sample
    BY <2>1, <2>2 DEF H!Sample, H!Branch, H!SocketStatus, H!Serving
  <2>3. CASE H!Handle
    BY <2>1, <2>3 DEF H!Handle
  <2>4. CASE H!FirstPart \/ H!LaterPart
    BY <2>1, <2>4 DEF H!FirstPart, H!LaterPart
  <2>5. CASE H!Done \/ H!CloseWait \/ H!Closed
    BY <2>1, <2>5 DEF H!Done, H!CloseWait, H!Closed
  <2>6. CASE H!Disconnect \/ H!CloseSocket \/ H!Socket
    BY <2>1, <2>6 DEF H!Disconnect, H!CloseSocket, H!Socket
  <2>7. CASE H!Listen \/ H!ListenCheck
    BY <2>1, <2>7 DEF H!Listen, H!ListenCheck
  <2> QED
    BY <1>6, <2>2, <2>3, <2>4, <2>5, <2>6, <2>7 DEF Other
<1>7. CASE Poll
  BY <1>7 DEF Poll, R!Sweep, R!Post, R!OnWaitList, R!Wake, serverVars, PathOK
<1>8. CASE Tick
  BY <1>8 DEF Tick, R!Expire, serverVars, PathOK
<1>9. ASSUME NEW k \in R!Socks, Arrive(k) \/ Peer(k) PROVE HasSocket' /\ Calling'
  BY <1>9 DEF Arrive, Peer, R!Arrive, H!Connect, H!PeerCloses, H!ConnectionEnds,
              H!taskVars, serverVars, pathVars
<1>10. CASE UNCHANGED vars
  BY <1>10 DEF vars, serverVars, pathVars
<1> QED
  BY <1>1, <1>2, <1>3, <1>4, <1>5, <1>6, <1>7, <1>8, <1>9, <1>10 DEF Next, Server

-----------------------------------------------------------------------------
(* Where the data in the path comes from.                                  *)

PathInv == PathOK /\ ChipFresh /\ LeftIsMail /\ PackFresh /\ CopyFresh

\* A poll keeps the types, and what it reads is fresh because the chip's
\* buffer is.
LEMMA SweepStep ==
  ASSUME PathInv, R!Sweep, UNCHANGED openVars
  PROVE  PathInv'
<1> USE DEF openVars
<1>0. PathOK /\ idx = 0 /\ R!Read(0)
  BY DEF PathInv, PathOK, R!Sweep
<1> DEFINE n == R!Taken(0)
<1>1. /\ n \in 0 .. Len(rx[0]) /\ pack'.len = n
      /\ pack'.data \in Seq(Old) /\ pack'.len <= Len(pack'.data)
      /\ Len(pack.data) <= Len(pack'.data)
      /\ \A m \in 1 .. n : pack'.data[m] = rx[0][m]
      /\ \A m \in n + 1 .. Len(pack.data) : pack'.data[m] = pack.data[m]
      /\ rx' = [rx EXCEPT ![0] = SubSeq(rx[0], n + 1, Len(rx[0]))]
      /\ rx'[0] \in Seq(Old) /\ Len(rx'[0]) = Len(rx[0]) - n
      /\ \A m \in 1 .. Len(rx'[0]) : rx'[0][m] = rx[0][m + n]
  BY <1>0, AfterPoll
<1>2. Len(rx[0]) \in Nat /\ Len(pack.data) \in Nat /\ Len(pack'.data) \in Nat
  BY <1>0, <1>1, LenProperties DEF PathOK
<1>3. /\ want' = want /\ sent' = sent /\ opened' = opened /\ left' = left
  BY DEF R!Sweep
<1>4. /\ n > 0 => R!Post(0) /\ idx' = 0
      /\ ~ n > 0 => mbox' = mbox /\ rd' = rd /\ idx' = R!NextIndex
  BY <1>0 DEF R!Sweep
<1>5. R!NextIndex = 0
  <2>1. R!NextIndex = (0 + 1) % 1
    BY <1>0 DEF R!NextIndex
  <2>2. (0 + 1) % 1 = 0
    OBVIOUS
  <2> QED
    BY <2>1, <2>2
<1> HIDE DEF n
<1>6. rx' \in [{0} -> Seq(Old)]
  BY <1>0, <1>1 DEF PathOK
<1>7. /\ mbox' \in [{0} -> BOOLEAN]
      /\ rd' \in [{0} -> {"out", "wait", "expired", "mail", "copy"}]
  BY <1>0, <1>4 DEF R!Post, R!OnWaitList, PathOK
<1>8. PathOK'
  <2>1. n \in Nat
    BY <1>1, <1>2
  <2> QED
    BY <1>0, <1>1, <1>3, <1>4, <1>5, <1>6, <1>7, <2>1 DEF PathOK
\* Everything read is fresh, and so is everything that stays in the chip.
<1>n. \A m \in 1 .. n : pack'.data[m].seq > opened
  <2>1. \A m \in 1 .. n : m \in 1 .. Len(rx[0]) /\ pack'.data[m] = rx[0][m]
    BY <1>1, <1>2
  <2>2. \A m \in 1 .. Len(rx[0]) : rx[0][m].seq > opened
    BY DEF PathInv, ChipFresh, Fresh
  <2> QED
    BY <2>1, <2>2
<1>9. Fresh(pack.data, pack.len)'
  <2>1. pack'.len = n /\ opened' = opened
    BY <1>1, <1>3
  <2> QED
    BY <1>n, <2>1 DEF Fresh
<1>10. ChipFresh'
  <2>1. \A m \in 1 .. Len(rx'[0]) : m + n \in 1 .. Len(rx[0])
    BY <1>1, <1>2
  <2>2. \A m \in 1 .. Len(rx[0]) : rx[0][m].seq > opened
    BY DEF PathInv, ChipFresh, Fresh
  <2>3. \A m \in 1 .. Len(rx'[0]) : rx'[0][m].seq > opened
    BY <1>1, <2>1, <2>2
  <2> QED
    BY <1>3, <2>3 DEF ChipFresh, Fresh
<1>11. LeftIsMail'
  <2>1. CASE n > 0
    BY <1>0, <1>3, <1>4, <2>1 DEF R!Post, R!OnWaitList, PathInv, PathOK, LeftIsMail
  <2>2. CASE ~ n > 0
    BY <1>3, <1>4, <2>2 DEF PathInv, LeftIsMail
  <2> QED
    BY <2>1, <2>2
<1>12. PackFresh'
  BY <1>9 DEF PackFresh, Fresh
<1>13. CopyFresh'
  <2> SUFFICES ASSUME rd'[0] = "copy", ~ left'
               PROVE  (Fresh(pack.data, want[0]) /\ want[0] <= Len(pack.data))'
    BY DEF CopyFresh
  <2>1. rd[0] = "copy" /\ ~ left
    BY <1>0, <1>3, <1>4 DEF R!Post, R!OnWaitList, PathOK
  <2>2. /\ \A m \in 1 .. want[0] : pack.data[m].seq > opened
        /\ want[0] <= Len(pack.data) /\ want[0] \in Nat
    BY <1>0, <2>1 DEF PathInv, CopyFresh, Fresh, PathOK
  <2>4. ASSUME NEW m \in 1 .. want[0] PROVE pack'.data[m].seq > opened
    <3>1. m \in 1 .. n \/ m \in n + 1 .. Len(pack.data)
      BY <1>1, <1>2, <2>2
    <3> QED
      BY <1>1, <1>n, <2>2, <3>1
  <2> QED
    BY <1>1, <1>2, <1>3, <2>2, <2>4 DEF Fresh
<1> QED
  BY <1>8, <1>10, <1>11, <1>12, <1>13 DEF PathInv

\* Every other step, in the path or not.
LEMMA PathStep == HasSocket /\ Calling /\ PathInv /\ [Next]_vars => PathInv'
<1> SUFFICES ASSUME HasSocket, Calling, PathInv, [Next]_vars PROVE PathInv'
  OBVIOUS
<1> USE OneSocket DEF openVars
<1>0. PathOK /\ ChipFresh /\ LeftIsMail /\ PackFresh /\ CopyFresh
  BY DEF PathInv
\* A step that leaves the path alone.
<1>a. ASSUME UNCHANGED <<pathVars, openVars>> PROVE PathInv'
  BY <1>0, <1>a DEF pathVars, PathInv, PathOK, ChipFresh, LeftIsMail, PackFresh, CopyFresh,
     Fresh, R!Pending
\* A step that only moves the reader.
<1>b. ASSUME UNCHANGED <<idx, pack, rx, sent, opened>>, PathOK', LeftIsMail',
             PackFresh', CopyFresh'
      PROVE  PathInv'
  BY <1>0, <1>b DEF PathInv, ChipFresh, Fresh
<1>1. CASE Pend
  <2>1. /\ s = 0 /\ rd[0] = "out"
        /\ rd' = [rd EXCEPT ![0] = IF mbox[0] THEN "mail" ELSE "wait"]
        /\ mbox' = [mbox EXCEPT ![0] = FALSE]
        /\ UNCHANGED <<idx, pack, rx, want, sent, opened, left>>
    BY <1>1 DEF Pend, R!Pend, R!MailTaken, R!taskVars, HasSocket, WithSocket
  <2> QED
    BY <1>0, <1>b, <2>1 DEF PathOK, LeftIsMail, PackFresh, CopyFresh, Fresh, R!Pending
<1>2. CASE TimedOut
  <2>1. /\ s = 0 /\ rd[0] = "expired" /\ rd' = [rd EXCEPT ![0] = "out"]
        /\ UNCHANGED <<idx, pack, rx, mbox, want, sent, opened, left>>
    BY <1>2 DEF TimedOut, R!TimedOut, R!taskVars, HasSocket, WithSocket
  <2> QED
    BY <1>0, <1>b, <2>1 DEF PathOK, LeftIsMail, PackFresh, CopyFresh, Fresh, R!Pending
<1>3. CASE TakeLen
  <2>1. /\ s = 0 /\ rd[0] = "mail" /\ rd' = [rd EXCEPT ![0] = "copy"]
        /\ want' = [want EXCEPT ![0] = pack.len]
        /\ UNCHANGED <<idx, pack, rx, mbox, sent, opened, left>>
    BY <1>3 DEF TakeLen, R!TakeLen, R!taskVars, HasSocket, WithSocket
  <2> QED
    BY <1>0, <1>b, <2>1 DEF PathOK, LeftIsMail, PackFresh, CopyFresh, Fresh, R!Pending
<1>4. CASE Copy
  <2>1. /\ s = 0 /\ rd[0] = "copy" /\ rd' = [rd EXCEPT ![0] = "out"] /\ ~ left'
        /\ left' \in BOOLEAN
        /\ UNCHANGED <<idx, pack, rx, mbox, want, sent, opened>>
    BY <1>4 DEF Copy, R!Copy, R!taskVars, HasSocket, WithSocket
  <2> QED
    BY <1>0, <1>b, <2>1 DEF PathOK, LeftIsMail, PackFresh, CopyFresh, Fresh, R!Pending
<1>5. CASE Bind
  <2>1. /\ s = 0 /\ rd[0] = "out" /\ rx' = [rx EXCEPT ![0] = <<>>]
        /\ opened' = sent[0] /\ left' = mbox[0]
        /\ UNCHANGED <<idx, pack, mbox, rd, want, sent>>
    BY <1>0, <1>5 DEF Bind, HasSocket, WithSocket, Calling, PathOK
  <2>2. rx'[0] = <<>> /\ Len(<<>>) = 0 /\ <<>> \in Seq(Old)
    BY <1>0, <2>1, EmptySeq DEF PathOK
  <2>3. ChipFresh'
    BY <2>2 DEF ChipFresh, Fresh
  <2>4. PathOK'
    BY <1>0, <2>1, <2>2 DEF PathOK
  <2>5. LeftIsMail' /\ PackFresh' /\ CopyFresh'
    BY <1>0, <2>1 DEF PathOK, LeftIsMail, PackFresh, CopyFresh, R!Pending
  <2> QED
    BY <2>3, <2>4, <2>5 DEF PathInv
<1>6. CASE Other
  BY <1>6, <1>a DEF Other
<1>7. CASE Poll
  <2>1. CASE R!Sweep
    BY <1>7, <2>1, SweepStep DEF Poll
  <2>2. CASE R!Wake
    BY <1>0, <1>7, <2>2 DEF Poll, R!Wake, PathInv, PathOK, ChipFresh, LeftIsMail, PackFresh,
       CopyFresh, Fresh, R!Pending
  <2> QED
    BY <1>7, <2>1, <2>2 DEF Poll
<1>8. CASE Tick
  <2>1. /\ rd[0] = "wait" /\ rd' = [rd EXCEPT ![0] = "expired"]
        /\ UNCHANGED <<idx, pack, rx, mbox, want, sent, opened, left>>
    BY <1>8 DEF Tick, R!Expire, R!taskVars
  <2> QED
    BY <1>0, <1>b, <2>1 DEF PathOK, LeftIsMail, PackFresh, CopyFresh, Fresh, R!Pending
<1>9. ASSUME NEW k \in R!Socks, Arrive(k) PROVE PathInv'
  <2> DEFINE u == R!Unit(0, sent[0] + 1)
             q == rx[0]
  <2>1. /\ sent' = [sent EXCEPT ![0] = sent[0] + 1]
        /\ rx' = [rx EXCEPT ![0] = Append(q, u)]
        /\ UNCHANGED <<idx, pack, mbox, rd, want, opened, left>>
    BY <1>9 DEF Arrive, R!Arrive, R!taskVars
  <2>2. u \in Old /\ u.seq > opened /\ q \in Seq(Old) /\ sent[0] \in Nat
    BY <1>0 DEF R!Unit, Old, PathOK
  <2>3. rx'[0] = Append(q, u)
    BY <1>0, <2>1 DEF PathOK
  <2>4. \A m \in 1 .. Len(q) : q[m].seq > opened
    BY <1>0 DEF ChipFresh, Fresh
  <2> HIDE DEF u, q
  <2>5. /\ Append(q, u) \in Seq(Old) /\ Len(Append(q, u)) = Len(q) + 1 /\ Len(q) \in Nat
        /\ \A m \in 1 .. Len(q) : Append(q, u)[m] = q[m]
        /\ Append(q, u)[Len(q) + 1] = u
    BY <2>2, AppendProperties, LenProperties
  <2>6. \A m \in 1 .. Len(q) + 1 : Append(q, u)[m].seq > opened
    BY <2>2, <2>4, <2>5
  <2>7. ChipFresh'
    BY <2>1, <2>3, <2>5, <2>6 DEF ChipFresh, Fresh
  <2>8. rx' \in [{0} -> Seq(Old)] /\ sent' \in [{0} -> Nat] /\ sent'[0] = sent[0] + 1
    BY <1>0, <2>1, <2>2, <2>5 DEF PathOK
  <2>9. PathOK'
    BY <1>0, <2>1, <2>2, <2>8 DEF PathOK
  <2>10. LeftIsMail' /\ PackFresh' /\ CopyFresh'
    BY <1>0, <2>1 DEF LeftIsMail, PackFresh, CopyFresh, Fresh, R!Pending
  <2> QED
    BY <2>7, <2>9, <2>10 DEF PathInv
<1>10. ASSUME NEW k \in R!Socks, Peer(k) PROVE PathInv'
  BY <1>10, <1>a DEF Peer
<1>11. CASE UNCHANGED vars
  BY <1>11, <1>a DEF vars
<1> QED
  BY <1>1, <1>2, <1>3, <1>4, <1>5, <1>6, <1>7, <1>8, <1>9, <1>10, <1>11 DEF Next, Server

LEMMA Inductive == Spec => []IInv
<1>1. IInv /\ [Next]_vars => IInv'
  BY SocketStep, PathStep DEF IInv, PathInv
<1> QED
  BY <1>1, InitHolds, PTL DEF Spec

-----------------------------------------------------------------------------
(* The composition implements HttpServer.                                  *)

\* What was in the inbox is still there, or it is gone.
Drained == \/ Inbox' = Inbox
           \/ Inbox' = [Inbox EXCEPT ![0] = FALSE]

\* Data waits for the one socket.
Waits == \/ rx[0] # <<>>
         \/ (mbox[0] \/ rd[0] \in {"mail", "copy"}) /\ pack.len > 0
         \/ rd[0] = "copy" /\ want[0] > 0

\* The inbox before and after a step.
LEMMA InboxIs ==
  /\ Inbox = [k \in {0} |-> Waits]
  /\ Inbox' = [k \in {0} |-> Waits']
  /\ Inbox[0] = Waits /\ Inbox[0]' = Waits' /\ Waits \in BOOLEAN /\ Waits' \in BOOLEAN
BY OneSocket DEF Inbox, Waits, R!Pending

\* Data that was not there before does not come to the inbox.
LEMMA OnlyDrained == (Waits' => Waits) => Drained
<1> SUFFICES ASSUME Waits' => Waits PROVE Drained
  OBVIOUS
<1>1. CASE Waits /\ ~ Waits'
  <2>1. [Inbox EXCEPT ![0] = FALSE] = [k \in {0} |-> FALSE]
    BY InboxIs
  <2>2. Inbox' = [k \in {0} |-> FALSE]
    BY <1>1, InboxIs
  <2> QED
    BY <2>1, <2>2 DEF Drained
<1>2. CASE Waits' = Waits
  BY <1>2, InboxIs, Zenon DEF Drained
<1> QED
  BY <1>1, <1>2, InboxIs

\* A step of the path that only drains is a step of HttpServer's network, or
\* none.
LEMMA DrainStep ==
  ASSUME UNCHANGED serverVars, Drained
  PROVE  [Reduced!Next]_(Reduced!vars)
<1> USE DEF serverVars
<1>1. CASE Inbox' = Inbox
  BY <1>1 DEF Reduced!vars
<1>2. CASE Inbox' = [Inbox EXCEPT ![0] = FALSE]
  <2>1. CASE Inbox[0]
    <3>1. Reduced!DataLost(0)
      BY <1>2, <2>1 DEF Reduced!DataLost, Reduced!taskVars, Reduced!history
    <3> QED
      BY <3>1, OneSocket DEF Reduced!Next, Reduced!Environment
  <2>2. CASE ~ Inbox[0]
    <3>1. [Inbox EXCEPT ![0] = FALSE] = Inbox
      BY <2>2, InboxIs
    <3> QED
      BY <1>2, <3>1 DEF Reduced!vars
  <2> QED
    BY <2>1, <2>2
<1> QED
  BY <1>1, <1>2 DEF Drained

\* A call that does not receive is the same call of HttpServer.
LEMMA OtherStep ==
  ASSUME Other PROVE Reduced!Next
<1>1. Inbox' = Inbox
  BY DEF Other, pathVars, Inbox, R!Pending
<1>2. CASE H!Sample
  <2>1. Reduced!Sample
    BY <1>1, <1>2 DEF H!Sample, H!Branch, H!SocketStatus, H!Serving, H!peerVars, H!history,
       H!Slots, Reduced!Sample, Reduced!Branch, Reduced!SocketStatus, Reduced!Serving,
       Reduced!peerVars, Reduced!history, Reduced!Slots
  <2> QED
    BY <2>1 DEF Reduced!Next, Reduced!Task
<1>3. CASE H!Handle
  <2>1. Reduced!Handle
    BY <1>1, <1>3 DEF H!Handle, H!peerVars, H!None, H!Connected, Reduced!Handle,
       Reduced!peerVars, Reduced!None, Reduced!Connected
  <2> QED
    BY <2>1 DEF Reduced!Next, Reduced!Task
<1>4. CASE H!FirstPart
  <2>1. Reduced!FirstPart
    BY <1>1, <1>4, Zenon DEF H!FirstPart, H!SendPart, H!SendNothing, H!Advanced, H!NextState,
       H!Slot, H!Ended, H!Delivered, H!peerVars, H!None, H!Connected, Reduced!Connected,
       Reduced!FirstPart, Reduced!SendPart, Reduced!SendNothing, Reduced!Advanced,
       Reduced!NextState, Reduced!Slot, Reduced!Ended, Reduced!Delivered, Reduced!peerVars,
       Reduced!None
  <2> QED
    BY <2>1 DEF Reduced!Next, Reduced!Task
<1>5. CASE H!LaterPart
  <2>1. Reduced!LaterPart
    BY <1>1, <1>5, Zenon DEF H!LaterPart, H!SendPart, H!SendNothing, H!Advanced, H!NextState,
       H!Slot, H!Ended, H!Delivered, H!peerVars, H!None, H!Connected, Reduced!Connected,
       Reduced!LaterPart, Reduced!SendPart, Reduced!SendNothing, Reduced!Advanced,
       Reduced!NextState, Reduced!Slot, Reduced!Ended, Reduced!Delivered, Reduced!peerVars,
       Reduced!None
  <2> QED
    BY <2>1 DEF Reduced!Next, Reduced!Task
<1>6. CASE H!Done
  <2>1. Reduced!Done
    BY <1>1, <1>6 DEF H!Done, H!Cleared, H!Slot, H!None, H!NoFile, H!peerVars, H!history,
       Reduced!Done, Reduced!Cleared, Reduced!Slot, Reduced!None, Reduced!NoFile,
       Reduced!peerVars, Reduced!history
  <2> QED
    BY <2>1 DEF Reduced!Next, Reduced!Task
<1>7. CASE H!CloseWait
  <2>1. Reduced!CloseWait
    BY <1>1, <1>7 DEF H!CloseWait, H!peerVars, H!history, Reduced!CloseWait,
       Reduced!peerVars, Reduced!history
  <2> QED
    BY <2>1 DEF Reduced!Next, Reduced!Task
<1>8. CASE H!Closed
  <2>1. Reduced!Closed
    BY <1>1, <1>8 DEF H!Closed, H!NoFile, H!None, H!peerVars, H!history, Reduced!Closed,
       Reduced!NoFile, Reduced!None, Reduced!peerVars, Reduced!history
  <2> QED
    BY <2>1 DEF Reduced!Next, Reduced!Task
<1>9. CASE H!Disconnect
  <2>1. Reduced!Disconnect
    BY <1>1, <1>9 DEF H!Disconnect, H!Released, H!AfterDISCON, H!Connected, H!history,
       Reduced!Disconnect, Reduced!Released, Reduced!AfterDISCON, Reduced!Connected,
       Reduced!history
  <2> QED
    BY <2>1 DEF Reduced!Next, Reduced!Task
<1>10. CASE H!CloseSocket
  <2>1. Reduced!CloseSocket
    BY <1>1, <1>10 DEF H!CloseSocket, H!AfterCLOSE, H!history, Reduced!CloseSocket,
       Reduced!AfterCLOSE, Reduced!history
  <2> QED
    BY <2>1 DEF Reduced!Next, Reduced!Task
<1>11. CASE H!Socket
  <2>1. Reduced!Socket
    BY <1>1, <1>11 DEF H!Socket, H!Slots, H!peerVars, H!history, Reduced!Socket,
       Reduced!Slots, Reduced!peerVars, Reduced!history
  <2> QED
    BY <2>1 DEF Reduced!Next, Reduced!Task
<1>12. CASE H!Listen
  <2>1. Reduced!Listen
    BY <1>1, <1>12 DEF H!Listen, H!AfterLISTEN, H!history, Reduced!Listen,
       Reduced!AfterLISTEN, Reduced!history
  <2> QED
    BY <2>1 DEF Reduced!Next, Reduced!Task
<1>13. CASE H!ListenCheck
  <2>1. Reduced!ListenCheck
    BY <1>1, <1>13 DEF H!ListenCheck, H!AfterCLOSE, H!history, Reduced!ListenCheck,
       Reduced!AfterCLOSE, Reduced!history
  <2> QED
    BY <2>1 DEF Reduced!Next, Reduced!Task
<1> QED
  BY <1>2, <1>3, <1>4, <1>5, <1>6, <1>7, <1>8, <1>9, <1>10, <1>11, <1>12, <1>13 DEF Other

\* recvfrom returns nothing, or a request if there was something to return.
LEMMA ReceiveStep ==
  ASSUME HasSocket, PathOK, TimedOut \/ Copy
  PROVE  Reduced!Next
<1>0. s = 0
  BY DEF HasSocket, WithSocket, TimedOut, Copy
<1>1. /\ rd[0] \in {"expired", "copy"} /\ rd' = [rd EXCEPT ![0] = "out"]
      /\ UNCHANGED <<rx, mbox, pack, want>>
  BY <1>0 DEF TimedOut, Copy, R!TimedOut, R!Copy, R!taskVars
<1>2. Waits' => Waits
  BY <1>1 DEF PathOK, Waits
<1>3. Drained
  BY <1>2, OnlyDrained
<1>4. Reduced!MayDrain
  BY <1>0, <1>3 DEF Drained, Reduced!MayDrain
<1>5. CASE H!RecvNothing
  <2>1. Reduced!RecvNothing
    BY <1>4, <1>5 DEF H!RecvNothing, H!history, Reduced!RecvNothing, Reduced!history
  <2> QED
    BY <2>1 DEF Reduced!Next, Reduced!Task
<1>6. ASSUME NEW c \in H!Contents \cup {H!None}, H!RecvRequest(c), Copy, want[0] # 0
      PROVE  Reduced!Next
  <2>1. Inbox[s]
    <3>1. rd[0] = "copy" /\ want[0] > 0
      BY <1>0, <1>6 DEF Copy, R!Copy, PathOK
    <3> QED
      BY <1>0, <3>1, InboxIs DEF Waits
  <2>2. Reduced!RecvRequest(c)
    BY <1>4, <1>6, <2>1 DEF H!RecvRequest, H!Connected, Reduced!RecvRequest,
       Reduced!Connected
  <2>3. c \in Reduced!Contents \cup {Reduced!None}
    BY <1>6 DEF H!Contents, H!None, Reduced!Contents, Reduced!None
  <2> QED
    BY <2>2, <2>3 DEF Reduced!Next, Reduced!Task
<1> QED
  BY <1>0, <1>5, <1>6 DEF TimedOut, Copy

\* Every step of the composition is a step of HttpServer, or none.
LEMMA Implements == IInv /\ [Next]_vars => [Reduced!Next]_(Reduced!vars)
<1> SUFFICES ASSUME IInv, [Next]_vars PROVE [Reduced!Next]_(Reduced!vars)
  OBVIOUS
<1> USE OneSocket
<1>0. HasSocket /\ PathOK
  BY DEF IInv
<1>1. CASE Pend
  <2>1. /\ rd[0] = "out" /\ rd' = [rd EXCEPT ![0] = IF mbox[0] THEN "mail" ELSE "wait"]
        /\ mbox' = [mbox EXCEPT ![0] = FALSE] /\ UNCHANGED <<pack, rx, want, serverVars>>
    BY <1>0, <1>1 DEF Pend, R!Pend, R!MailTaken, R!taskVars, HasSocket, WithSocket
  <2>2. Waits' => Waits
    BY <1>0, <2>1 DEF PathOK, Waits
  <2> QED
    BY <2>1, <2>2, OnlyDrained, DrainStep
<1>2. CASE TimedOut \/ Copy
  BY <1>0, <1>2, ReceiveStep
<1>3. CASE TakeLen
  <2>1. /\ rd[0] = "mail" /\ rd' = [rd EXCEPT ![0] = "copy"]
        /\ want' = [want EXCEPT ![0] = pack.len] /\ UNCHANGED <<pack, rx, mbox, serverVars>>
    BY <1>0, <1>3 DEF TakeLen, R!TakeLen, R!taskVars, HasSocket, WithSocket
  <2>2. Waits' => Waits
    BY <1>0, <2>1 DEF PathOK, Waits
  <2> QED
    BY <2>1, <2>2, OnlyDrained, DrainStep
<1>4. CASE Bind
  <2>1. /\ s = 0 /\ rx' = [rx EXCEPT ![0] = <<>>] /\ UNCHANGED <<pack, mbox, rd, want>>
    BY <1>0, <1>4 DEF Bind, HasSocket, WithSocket
  <2>2. Waits' => Waits
    BY <1>0, <2>1 DEF PathOK, Waits
  <2>3. Reduced!MayDrain
    BY <2>1, <2>2, OnlyDrained DEF Drained, Reduced!MayDrain
  <2>4. Reduced!Bind
    BY <1>4, <2>3 DEF Bind, H!Bind, H!AfterOPEN, H!AfterCLOSE, Reduced!Bind,
       Reduced!AfterOPEN, Reduced!AfterCLOSE
  <2> QED
    BY <2>4 DEF Reduced!Next, Reduced!Task
<1>5. CASE Other
  BY <1>5, OtherStep
<1>6. CASE Poll /\ R!Sweep
  <2>1. UNCHANGED serverVars /\ want' = want /\ idx = 0 /\ R!Read(0)
    BY <1>0, <1>6 DEF Poll, R!Sweep, PathOK
  <2>2. /\ R!Taken(0) \in Nat /\ pack'.len = R!Taken(0)
        /\ R!Taken(0) = 0 => rx[0] = <<>> /\ rx'[0] = <<>>
    BY <1>0, <2>1, AfterPoll, LenProperties DEF PathOK
  <2>3. R!Taken(0) > 0 => rx[0] # <<>>
    BY <1>0, <2>1, AfterPoll, EmptySeq
  <2>4. Waits' => Waits
    <3>1. CASE R!Taken(0) = 0
      <4>1. mbox' = mbox /\ rd' = rd
        BY <1>6, <2>1, <3>1 DEF R!Sweep
      <4> QED
        BY <2>1, <2>2, <3>1, <4>1 DEF Waits
    <3>2. CASE R!Taken(0) > 0
      BY <2>3, <3>2 DEF Waits
    <3> QED
      BY <2>2, <3>1, <3>2
  <2> QED
    BY <2>1, <2>4, OnlyDrained, DrainStep
<1>7. CASE Poll /\ R!Wake
  <2>1. UNCHANGED <<serverVars, rx, mbox, rd, pack, want>>
    BY <1>7 DEF Poll, R!Wake
  <2>2. Waits' => Waits
    BY <2>1 DEF Waits
  <2> QED
    BY <2>1, <2>2, OnlyDrained, DrainStep
<1>8. CASE Tick
  <2>1. /\ rd[0] = "wait" /\ rd' = [rd EXCEPT ![0] = "expired"]
        /\ UNCHANGED <<pack, rx, mbox, want, serverVars>>
    BY <1>8 DEF Tick, R!Expire, R!taskVars
  <2>2. Waits' => Waits
    BY <1>0, <2>1 DEF PathOK, Waits
  <2> QED
    BY <2>1, <2>2, OnlyDrained, DrainStep
<1>9. ASSUME NEW k \in R!Socks, Arrive(k) PROVE [Reduced!Next]_(Reduced!vars)
  <2>1. /\ sr[0] = "ESTABLISHED" /\ UNCHANGED serverVars
        /\ rx' = [rx EXCEPT ![0] = Append(rx[0], R!Unit(0, sent[0] + 1))]
    BY <1>9 DEF Arrive, R!Arrive
  <2>2. rx'[0] # <<>>
    <3>1. rx'[0] = Append(rx[0], R!Unit(0, sent[0] + 1)) /\ rx[0] \in Seq(Old)
      BY <1>0, <2>1 DEF PathOK
    <3>2. R!Unit(0, sent[0] + 1) \in Old
      BY <1>0 DEF R!Unit, Old, PathOK
    <3> QED
      BY <3>1, <3>2, AppendProperties
  <2>3. Inbox' = [l \in {0} |-> TRUE]
    BY <2>2, InboxIs DEF Waits
  <2>4. CASE Inbox[0]
    <3>1. Inbox' = Inbox
      BY <2>3, <2>4, InboxIs
    <3> QED
      BY <2>1, <3>1 DEF Reduced!vars, serverVars
  <2>5. CASE ~ Inbox[0]
    <3>1. Inbox' = [Inbox EXCEPT ![0] = TRUE]
      BY <2>3, InboxIs
    <3>2. Reduced!PeerSends(0)
      BY <2>1, <2>5, <3>1 DEF Reduced!PeerSends, Reduced!taskVars, Reduced!history, serverVars
    <3> QED
      BY <3>2 DEF Reduced!Next, Reduced!Environment
  <2> QED
    BY <2>4, <2>5
<1>10. ASSUME NEW k \in R!Socks, Peer(k) PROVE [Reduced!Next]_(Reduced!vars)
  <2>1. Inbox' = Inbox
    BY <1>10 DEF Peer, pathVars, Inbox, R!Pending
  <2>2. Reduced!Connect(k) \/ Reduced!PeerCloses(k) \/ Reduced!ConnectionEnds(k)
    BY <1>10, <2>1 DEF Peer, H!Connect, H!PeerCloses, H!ConnectionEnds, H!Connected,
       H!taskVars, H!history, Reduced!Connected,
       Reduced!Connect, Reduced!PeerCloses, Reduced!ConnectionEnds, Reduced!taskVars,
       Reduced!history
  <2> QED
    BY <2>2 DEF Reduced!Next, Reduced!Environment
<1>11. CASE UNCHANGED vars
  <2>1. Inbox' = Inbox
    BY <1>11 DEF vars, pathVars, Inbox, R!Pending
  <2> QED
    BY <1>11, <2>1 DEF vars, serverVars, Reduced!vars
<1> QED
  BY <1>1, <1>2, <1>3, <1>4, <1>5, <1>6, <1>7, <1>8, <1>9, <1>10, <1>11
     DEF Next, Server, Poll

-----------------------------------------------------------------------------
(* The theorems.                                                           *)

\* The HTTP server over task_socket, the mailbox and g_pack behaves as the
\* server of HttpServer: every invariant shown there holds of the composition.
THEOREM PathIsInbox == Spec => IsHttpServer
<1>1. Init => Reduced!Init
  <2>1. ASSUME Init PROVE Reduced!Init
    <3>1. Inbox = [k \in {0} |-> FALSE]
      <4>1. rx[0] = <<>> /\ ~ mbox[0] /\ rd[0] = "out"
        BY <2>1, OneSocket DEF Init, R!Init
      <4> QED
        BY <4>1, InboxIs DEF Waits
    <3> QED
      BY <2>1, <3>1, OneSocket DEF Init, Reduced!Init, H!Fresh, H!NoFile, H!NoJob, H!None,
         Reduced!Fresh, Reduced!NoFile, Reduced!NoJob, Reduced!None
  <2> QED
    BY <2>1
<1>2. IInv /\ [Next]_vars => [Reduced!Next]_(Reduced!vars)
  BY Implements
<1> QED
  BY <1>1, <1>2, Inductive, PTL DEF Spec, IsHttpServer, Reduced!Spec

\* Data of an earlier opening of the socket reaches httpServer_run only as the
\* one mail that was in the mailbox when the socket was opened.
THEOREM OldDataOnlyByMail == Spec => []OldDataIsLeftMail
<1>1. IInv => OldDataIsLeftMail
  BY OneSocket DEF IInv, CopyFresh, Fresh, OldDataIsLeftMail
<1> QED
  BY <1>1, Inductive, PTL

-----------------------------------------------------------------------------
(* What was shown of HttpServer, shown of the composition.                 *)

\* The theorems of HttpServer, for the one socket and the inbox that the
\* receive path makes of itself.
Shown == INSTANCE HttpServerProofs WITH NumSlots <- 1, inbox <- Inbox

\* The contents are as HttpServer takes them to be.
Served ==
    /\ Chunk \in Nat \ {0} /\ MaxConns \in Nat
    /\ Pages \cap Files = {} /\ H!None \notin H!Contents
    /\ Size \in [H!Contents -> Nat]

LEMMA SameInit == Reduced!Init => Shown!Init
BY DEF Reduced!Init, Reduced!Slots, Reduced!Fresh, Reduced!NoFile, Reduced!NoJob, Reduced!None,
   Shown!Init, Shown!Slots, Shown!Fresh, Shown!NoFile, Shown!NoJob, Shown!None

\* The theorems are about the same program: Shown and Reduced substitute the
\* same in the same text.
LEMMA SameSteps == [Reduced!Next]_(Reduced!vars) => [Shown!Next]_(Shown!vars)
<1> USE DEF Reduced!Contents, Reduced!None, Reduced!Slots, Reduced!taskVars,
        Reduced!peerVars, Reduced!history, Reduced!vars, Reduced!Delivered,
        Reduced!Connected, Shown!Contents, Shown!None, Shown!Slots, Shown!taskVars,
        Shown!peerVars, Shown!history, Shown!vars, Shown!Delivered, Shown!Connected
<1>1. Reduced!Sample => Shown!Sample
  BY DEF Reduced!Sample, Reduced!Serving, Reduced!SocketStatus, Reduced!Branch,
     Shown!Sample, Shown!Serving, Shown!SocketStatus, Shown!Branch
<1>2. /\ Reduced!RecvNothing => Shown!RecvNothing
      /\ \A c : Reduced!RecvRequest(c) => Shown!RecvRequest(c)
      /\ Reduced!Handle => Shown!Handle
  BY DEF Reduced!RecvNothing, Reduced!RecvRequest, Reduced!MayDrain, Reduced!Handle,
     Shown!RecvNothing, Shown!RecvRequest, Shown!MayDrain, Shown!Handle
<1>3. Reduced!FirstPart \/ Reduced!LaterPart => Shown!FirstPart \/ Shown!LaterPart
  BY DEF Reduced!FirstPart, Reduced!LaterPart, Reduced!SendPart, Reduced!SendNothing,
     Reduced!Advanced, Reduced!Ended, Reduced!Slot, Reduced!NextState,
     Shown!FirstPart, Shown!LaterPart, Shown!SendPart, Shown!SendNothing,
     Shown!Advanced, Shown!Ended, Shown!Slot, Shown!NextState
<1>4. /\ Reduced!Done => Shown!Done
      /\ Reduced!CloseWait => Shown!CloseWait
      /\ Reduced!Closed => Shown!Closed
  BY DEF Reduced!Done, Reduced!Cleared, Reduced!Slot, Reduced!NoFile, Reduced!CloseWait,
     Reduced!Closed, Shown!Done, Shown!Cleared, Shown!Slot, Shown!NoFile, Shown!CloseWait,
     Shown!Closed
<1>5. /\ Reduced!Disconnect => Shown!Disconnect
      /\ Reduced!CloseSocket => Shown!CloseSocket
      /\ Reduced!Socket => Shown!Socket
  BY DEF Reduced!Disconnect, Reduced!AfterDISCON, Reduced!Released, Reduced!CloseSocket,
     Reduced!AfterCLOSE, Reduced!Socket, Shown!Disconnect, Shown!AfterDISCON,
     Shown!Released, Shown!CloseSocket, Shown!AfterCLOSE, Shown!Socket
<1>6. /\ Reduced!Bind => Shown!Bind
      /\ Reduced!Listen => Shown!Listen
      /\ Reduced!ListenCheck => Shown!ListenCheck
  BY DEF Reduced!Bind, Reduced!AfterOPEN, Reduced!MayDrain, Reduced!Listen,
     Reduced!AfterLISTEN, Reduced!ListenCheck, Reduced!AfterCLOSE,
     Shown!Bind, Shown!AfterOPEN, Shown!MayDrain, Shown!Listen,
     Shown!AfterLISTEN, Shown!ListenCheck, Shown!AfterCLOSE
<1>7. Reduced!Environment => Shown!Environment
  BY DEF Reduced!Environment, Reduced!Connect, Reduced!PeerSends, Reduced!DataLost,
     Reduced!PeerCloses, Reduced!ConnectionEnds, Shown!Environment, Shown!Connect,
     Shown!PeerSends, Shown!DataLost, Shown!PeerCloses, Shown!ConnectionEnds
<1> QED
  BY <1>1, <1>2, <1>3, <1>4, <1>5, <1>6, <1>7
  DEF Reduced!Next, Reduced!Task, Shown!Next, Shown!Task

LEMMA ServerShown == Spec => Shown!Spec
<1>1. Reduced!Spec => Shown!Spec
  BY SameInit, SameSteps, PTL DEF Reduced!Spec, Shown!Spec
<1> QED
  BY <1>1, PathIsInbox, PTL DEF IsHttpServer

LEMMA ServedIs == Served => Shown!HttpAssumption
BY DEF Served, Shown!HttpAssumption, Shown!Contents, Shown!None, H!Contents, H!None

\* With task_socket, the mailbox, the tick and g_pack below it, the server
\* gives each peer that stays its whole response, every byte once and in
\* order, and answers a connection at most once.
THEOREM ServesWhole ==
  ASSUME Served
  PROVE  Spec => [](Reduced!WholeResponse /\ Reduced!OneAnswer)
<1>1. Shown!Spec => []Shown!WholeResponse /\ []Shown!OneAnswer
  BY ServedIs, Shown!DeliveredWhole, Shown!AnsweredOnce
<1>2. Shown!WholeResponse /\ Shown!OneAnswer => Reduced!WholeResponse /\ Reduced!OneAnswer
  BY DEF Shown!WholeResponse, Shown!OneAnswer, Shown!Whole, Shown!Contiguous, Shown!Reach,
     Shown!None, Shown!Connected, Reduced!WholeResponse, Reduced!OneAnswer, Reduced!Whole,
     Reduced!Contiguous, Reduced!Reach, Reduced!None, Reduced!Connected
<1> QED
  BY <1>1, <1>2, ServerShown, PTL

\* Whatever way data comes, the server loses no socket, keeps the record of
\* the response it is in, and sends no part of an SD file on a later opening of
\* the socket.
THEOREM ServerKeepsItsState ==
  ASSUME Served
  PROVE  Spec => [](Reduced!NoSlotLeak /\ Reduced!FileBookkeeping) /\ Reduced!SdPartIsLive
<1>1. Shown!Spec => []Shown!NoSlotLeak /\ []Shown!FileBookkeeping /\ Shown!SdPartIsLive
  BY ServedIs, Shown!NeverLeaks, Shown!Bookkeeping, Shown!SdNeverStale
<1>2. Shown!NoSlotLeak /\ Shown!FileBookkeeping => Reduced!NoSlotLeak /\ Reduced!FileBookkeeping
  BY DEF Shown!NoSlotLeak, Shown!FileBookkeeping, Shown!Bookkept, Shown!Slots, Shown!None,
     Shown!Contents, Reduced!NoSlotLeak, Reduced!FileBookkeeping, Reduced!Bookkept,
     Reduced!Slots, Reduced!None, Reduced!Contents
<1>3. Shown!SdPartIsLive => Reduced!SdPartIsLive
  BY PTL DEF Shown!SdPartIsLive, Reduced!SdPartIsLive, Shown!vars, Reduced!vars
<1> QED
  BY <1>1, <1>2, <1>3, ServerShown, PTL
=============================================================================
