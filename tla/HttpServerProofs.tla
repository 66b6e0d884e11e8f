-------------------------- MODULE HttpServerProofs --------------------------
(***************************************************************************)
(* What HttpServer promises for every number of slots and connections,     *)
(* every chunk size and every web content, proved with TLAPS.              *)
(***************************************************************************)
EXTENDS HttpServer, TLAPS

-----------------------------------------------------------------------------
(* The inductive invariant, one named part per idea.                       *)

\* Between two calls the descriptor is that of the call, and the slot's state
\* is the one the branch was chosen by.
WithSocket == {"recv", "handle", "first", "body", "done", "close_wait", "discon",
               "close", "bind", "listen", "listening"}

AtInv ==
    /\ pc \in WithSocket => s \in Slots
    /\ pc \in {"recv", "handle", "first"} => status[s].state = "IDLE"
    /\ pc = "body" => status[s].state = "RES_INPROC"
    /\ pc = "done" => status[s].state = "RES_DONE"
    /\ pc = "handle" => job.live
    /\ pc = "first" => job.content \in Contents

\* The server only ever has slot 0, and gives its bit back in disconnect.
SlotInv ==
    /\ s \in {-1, 0}
    /\ usage \subseteq {s}
    /\ pc \in {"close", "socket"} => usage = {}
    /\ \A i \in Slots : i # 0 => sr[i] = "CLOSED"

\* The SD file is closed before the socket is opened again.
Reopening == pc \in {"socket", "bind"} \/ (pc \in {"discon", "close"} /\ ret = "reopen")

SdInv ==
    /\ sfile.open => job.live
    /\ Reopening => ~ sfile.open

\* Once a connection was answered, its slot is on the way to disconnect.
AnswerInv ==
    /\ OneAnswer
    /\ answers > 0 /\ sr[0] \in Connected =>
          /\ s = 0
          /\ status[0].state # "IDLE" \/ pc \in {"first", "discon"}

\* The request being answered is that of the connection, no read has failed
\* and the peer is still there.
Answering == job.conn = conn /\ ~ job.failed /\ sr[0] \in Connected

\* What the peer has so far is what the slot's record and the file position
\* say it has.
RcvdInv ==
    /\ job.conn <= conn
    /\ sr[0] \in Connected /\ rcvd # <<>> =>
          s = 0 /\ (status[0].state # "IDLE" \/ pc = "discon")
    /\ pc = "first" /\ status[0].storage = "SDCARD" /\ sfile.open =>
          sfile.name = job.content /\ sfile.pos = 0
    /\ status[0].state = "RES_INPROC" =>
          /\ status[0].start = job.content
          /\ status[0].storage = "SDCARD" /\ sfile.open =>
                sfile.name = job.content /\ sfile.pos = status[0].offset
          /\ Answering => /\ Contiguous(rcvd, job.content)
                          /\ Reach(rcvd) = status[0].offset
    /\ status[0].state = "RES_DONE" /\ job.content # None /\ Answering =>
          Whole(rcvd, job.content)

IInv == TypeOK /\ AtInv /\ SlotInv /\ FileBookkeeping /\ SdInv /\ AnswerInv /\ RcvdInv
-----------------------------------------------------------------------------
\* The state after startup, no socket open and no request, satisfies every part
\* of the inductive invariant.
LEMMA InitHolds == Init => IInv
<1> USE HttpAssumption
<1> QED
  BY DEF Init, IInv, TypeOK, AtInv, SlotInv, FileBookkeeping, Bookkept, SdInv, AnswerInv, OneAnswer, RcvdInv,
         Answering, Contiguous, Connected,
         Reopening, Slots, Conns, PCs, WithSocket, SlotRecord, Part, Fresh, NoFile, NoJob,
         SockStates, Contents, None

\* What a call of send_http_response_body leaves is well typed.
TypedParts ==
    /\ status' \in [Slots -> SlotRecord]
    /\ rcvd' \in Seq(Part)
    /\ sfile' \in [open : BOOLEAN, name : Contents \cup {None}, pos : Nat]
    /\ job' \in [conn : Conns, live : BOOLEAN, content : Contents \cup {None},
                 failed : BOOLEAN]

\* A part sent by send_http_response_body leaves the slot's record, the SD file
\* and the history typed, given that the next record is.
LEMMA SendPartType ==
    ASSUME TypeOK, s \in Slots, NEW start \in Contents \cup {None}, NEW n \in Nat,
           NEW next \in SlotRecord, SendPart(start, n, next)
    PROVE  TypedParts
<1>1. status[s] \in SlotRecord /\ status[s].offset \in Nat
  BY DEF TypeOK, SlotRecord
<1>2. [content |-> start, from |-> status[s].offset, len |-> n] \in Part
      /\ [content |-> sfile.name, from |-> sfile.pos, len |-> n] \in Part
  BY <1>1 DEF TypeOK, Part
<1>3. rcvd' \in Seq(Part)
  <2>1. rcvd \in Seq(Part)
    BY DEF TypeOK
  <2>2. \E part \in Part : Delivered(part)
    BY <1>2 DEF SendPart
  <2> QED
    BY <2>1, <2>2 DEF Delivered
<1> QED
  BY <1>3 DEF TypeOK, SendPart, TypedParts

\* So does a response that ends because nothing could be read.
LEMMA SendNothingType ==
    ASSUME TypeOK, s \in Slots, NEW n \in Nat, SendNothing(n)
    PROVE  TypedParts
<1>1. status[s] \in SlotRecord
  BY DEF TypeOK
<1>2. Ended \in SlotRecord
  BY <1>1 DEF Ended, Slot, SlotRecord
<1>3. job' \in [conn : Conns, live : BOOLEAN, content : Contents \cup {None},
               failed : BOOLEAN]
  BY DEF TypeOK, SendNothing
<1> QED
  BY <1>2, <1>3 DEF TypeOK, SendNothing, TypedParts

\* The record of a slot that has sent another n bytes is typed if it was.
LEMMA AdvancedType ==
  ASSUME status[s] \in SlotRecord, NEW start \in Contents \cup {None},
         NEW len \in Nat, NEW n \in Nat
  PROVE  Advanced(start, len, n) \in SlotRecord
<1>1. status[s].offset + n \in Nat /\ status[s].storage \in {"NONE", "CODEFLASH", "SDCARD"}
  BY DEF SlotRecord
<1>2. NextState(len) \in {"IDLE", "RES_INPROC", "RES_DONE"}
  BY DEF NextState
<1> QED
  BY <1>1, <1>2 DEF Advanced, Slot, SlotRecord

\* Every step of the task and of its peers preserves the type invariant.  The
\* unsigned difference file_len - file_offset needs FileBookkeeping.
LEMMA TypeStep == TypeOK /\ AtInv /\ FileBookkeeping /\ [Next]_vars => TypeOK'
<1> SUFFICES ASSUME TypeOK, AtInv, FileBookkeeping, [Next]_vars PROVE TypeOK'
  OBVIOUS
<1> USE HttpAssumption DEF TypeOK, AtInv, WithSocket, PCs, Part, SockStates,
        Slots, Conns, taskVars, peerVars, history
<1>1. CASE Sample
  <2>1. SocketStatus \in SockStates
    BY DEF SocketStatus
  <2>2. Branch(SocketStatus) \in PCs
    BY DEF Branch
  <2> QED
    BY <1>1, <2>1, <2>2 DEF Sample
<1>2. CASE RecvNothing
  BY <1>2 DEF RecvNothing, MayDrain
<1>3. ASSUME NEW c \in Contents \cup {None}, RecvRequest(c) PROVE TypeOK'
  <2>1. inbox' \in [Slots -> BOOLEAN]
    BY <1>3 DEF RecvRequest, MayDrain
  <2>2. job' \in [conn : Conns, live : BOOLEAN, content : Contents \cup {None},
                  failed : BOOLEAN]
    BY <1>3 DEF RecvRequest
  <2> QED
    BY <1>3, <2>1, <2>2 DEF RecvRequest
<1>4. CASE Handle
  <2>1. status[s] \in SlotRecord /\ answers' \in Nat /\ pc' \in {"run", "first"}
    BY <1>4 DEF Handle
  <2>2. \/ status' = [status EXCEPT ![s] = [status[s] EXCEPT !.state = "RES_DONE"]]
        \/ status' = [status EXCEPT ![s] = [status[s] EXCEPT !.storage = "CODEFLASH"]]
        \/ status' = [status EXCEPT ![s] = [status[s] EXCEPT !.storage = "SDCARD"]]
    BY <1>4 DEF Handle
  <2>3. status' \in [Slots -> SlotRecord]
    <3>1. /\ [status[s] EXCEPT !.state = "RES_DONE"] \in SlotRecord
          /\ [status[s] EXCEPT !.storage = "CODEFLASH"] \in SlotRecord
          /\ [status[s] EXCEPT !.storage = "SDCARD"] \in SlotRecord
      BY <2>1 DEF SlotRecord
    <3> QED
      BY <2>2, <3>1
  <2>4. sfile' \in [open : BOOLEAN, name : Contents \cup {None}, pos : Nat]
    <3>1. [open |-> TRUE, name |-> job.content, pos |-> 0]
            \in [open : BOOLEAN, name : Contents \cup {None}, pos : Nat]
      OBVIOUS
    <3> QED
      BY <1>4, <3>1 DEF Handle
  <2> QED
    BY <1>4, <2>1, <2>3, <2>4 DEF Handle
<1>5. CASE FirstPart
  <2> DEFINE total == Size[job.content]
  <2>1. s \in Slots /\ status[s] \in SlotRecord /\ total \in Nat /\ pc' = "run"
    BY <1>5 DEF FirstPart
  <2>2. /\ Advanced(job.content, total, Chunk) \in SlotRecord
        /\ Advanced(status[s].start, 0, total) \in SlotRecord
    <3> HIDE DEF total
    <3>1. job.content \in Contents \cup {None} /\ Chunk \in Nat
      OBVIOUS
    <3>2. status[s].start \in Contents \cup {None}
      BY <2>1 DEF SlotRecord
    <3> QED
      BY <2>1, <3>1, <3>2, AdvancedType
  <2>3. \/ /\ total > Chunk
           /\ SendPart(job.content, Chunk, Advanced(job.content, total, Chunk))
        \/ SendPart(job.content, total, Advanced(status[s].start, 0, total))
        \/ \E n \in Nat : SendNothing(n)
    BY <1>5, <2>1 DEF FirstPart
  <2>4. TypedParts
    BY <2>1, <2>2, <2>3, SendPartType, SendNothingType
  <2> QED
    BY <1>5, <2>1, <2>4 DEF FirstPart, TypedParts
<1>6. CASE LaterPart
  <2>1. s \in Slots /\ status[s] \in SlotRecord /\ pc' = "run"
        /\ status[s].start \in Contents \cup {None}
    BY <1>6 DEF LaterPart, SlotRecord
  <2> DEFINE left == status[s].len - status[s].offset
  <2>2. left \in Nat
    <3>1. status[s].state = "RES_INPROC"
      BY <1>6 DEF LaterPart
    <3>2. status[s].len \in Nat /\ status[s].offset \in Nat
      BY <2>1 DEF SlotRecord
    <3>3. status[s].offset < status[s].len
      BY <2>1, <3>1 DEF FileBookkeeping, Bookkept
    <3> QED
      BY <3>2, <3>3
  <2>3. /\ Advanced(status[s].start, status[s].len, Chunk) \in SlotRecord
        /\ Ended \in SlotRecord
    <3>1. status[s].len \in Nat /\ Chunk \in Nat
      BY <2>1 DEF SlotRecord
    <3>2. Advanced(status[s].start, status[s].len, Chunk) \in SlotRecord
      BY <2>1, <3>1, AdvancedType
    <3>3. Ended \in SlotRecord
      BY <2>1 DEF Ended, Slot, SlotRecord
    <3> QED
      BY <3>2, <3>3
  <2>4. \/ SendPart(status[s].start, Chunk, Advanced(status[s].start, status[s].len, Chunk))
        \/ SendPart(status[s].start, left, Ended)
        \/ \E n \in Nat : SendNothing(n)
    BY <1>6, <2>1, <2>2 DEF LaterPart
  <2>5. TypedParts
    BY <2>1, <2>2, <2>3, <2>4, SendPartType, SendNothingType
  <2> QED
    BY <1>6, <2>1, <2>5 DEF LaterPart, TypedParts
<1>7. CASE Done
  BY <1>7 DEF Done, Cleared, Slot, SlotRecord, NoFile
<1>8. CASE CloseWait
  BY <1>8 DEF CloseWait
<1>9. CASE Closed
  BY <1>9 DEF Closed, NoFile
<1>10. CASE Disconnect
  <2>1. PICK r \in AfterDISCON(sr[s]) : sr' = [sr EXCEPT ![s] = r]
    BY <1>10 DEF Disconnect, Released
  <2>2. sr[s] \in SockStates
    BY <1>10 DEF Disconnect, Released
  <2>3. r \in SockStates
    BY <2>1, <2>2 DEF AfterDISCON
  <2> QED
    BY <1>10, <2>1, <2>3 DEF Disconnect, Released
<1>11. CASE CloseSocket
  BY <1>11 DEF CloseSocket, AfterCLOSE
<1>12. CASE Socket
  <2>1. s' \in Slots \cup {-1} /\ usage' \subseteq Slots /\ pc' \in {"run", "bind"}
    <3>1. CASE Slots \subseteq usage
      BY <1>12, <3>1 DEF Socket
    <3>2. CASE ~ (Slots \subseteq usage)
      <4>1. PICK i \in Slots \ usage : s' = i /\ usage' = usage \cup {i} /\ pc' = "bind"
        BY <1>12, <3>2 DEF Socket
      <4> QED
        BY <4>1
    <3> QED
      BY <3>1, <3>2
  <2>2. UNCHANGED <<ret, sta, status, sfile, sr, inbox, conn, job, rcvd, answers>>
    BY <1>12 DEF Socket
  <2> QED
    BY <2>1, <2>2
<1>13. CASE Bind
  <2>1. PICK r \in AfterOPEN(sr[s]) :
          sr' = [sr EXCEPT ![s] = IF r = "INIT" THEN r ELSE AfterCLOSE]
    BY <1>13 DEF Bind
  <2>2. sr' \in [Slots -> SockStates]
    BY <2>1 DEF AfterCLOSE
  <2>3. job' = [conn |-> job.conn, live |-> FALSE, content |-> job.content,
                failed |-> job.failed]
    BY <1>13 DEF Bind
  <2>4. job' \in [conn : Conns, live : BOOLEAN, content : Contents \cup {None},
                  failed : BOOLEAN]
    BY <2>3
  <2> QED
    BY <1>13, <2>2, <2>4 DEF Bind, MayDrain
<1>14. CASE Listen
  BY <1>14 DEF Listen, AfterLISTEN
<1>15. CASE ListenCheck
  BY <1>15 DEF ListenCheck, AfterCLOSE
<1>16. ASSUME NEW i \in Slots, Connect(i) PROVE TypeOK'
  BY <1>16 DEF Connect
<1>17. ASSUME NEW i \in Slots, PeerSends(i) PROVE TypeOK'
  BY <1>17 DEF PeerSends
<1>18. ASSUME NEW i \in Slots, PeerCloses(i) PROVE TypeOK'
  BY <1>18 DEF PeerCloses
<1>19. ASSUME NEW i \in Slots, ConnectionEnds(i) PROVE TypeOK'
  BY <1>19 DEF ConnectionEnds, Connected
<1>20. ASSUME NEW i \in Slots, DataLost(i) PROVE TypeOK'
  BY <1>20 DEF DataLost
<1>21. CASE UNCHANGED vars
  BY <1>21 DEF vars
<1> QED
  BY <1>1, <1>2, <1>3, <1>4, <1>5, <1>6, <1>7, <1>8, <1>9, <1>10, <1>11, <1>12, <1>13, <1>14, <1>15, <1>16,
     <1>17, <1>18, <1>19, <1>20, <1>21 DEF Next, Task, Environment

\* Every step preserves what is known at each point of httpServer_run.
LEMMA AtStep == TypeOK /\ AtInv /\ FileBookkeeping /\ [Next]_vars => AtInv'
<1> SUFFICES ASSUME TypeOK, AtInv, FileBookkeeping, [Next]_vars PROVE AtInv'
  OBVIOUS
<1> USE HttpAssumption DEF taskVars, peerVars, history, TypeOK, AtInv, WithSocket, PCs, SlotRecord, Slots
<1>1. CASE Sample
  BY <1>1 DEF Sample, Branch, SocketStatus, Serving
<1>2. CASE RecvNothing
  BY <1>2 DEF RecvNothing
<1>3. ASSUME NEW c \in Contents \cup {None}, RecvRequest(c) PROVE AtInv'
  BY <1>3 DEF RecvRequest
<1>4. CASE Handle
  <2>1. CASE job.content = None
    BY <1>4, <2>1 DEF Handle, Contents
  <2>2. CASE job.content \in Pages
    BY <1>4, <2>2 DEF Handle, Contents
  <2>3. CASE job.content \in Files
    BY <1>4, <2>3 DEF Handle, Contents
  <2> QED
    BY <1>4, <2>1, <2>2, <2>3 DEF Handle
<1>5. CASE FirstPart
  BY <1>5 DEF FirstPart, SendPart, SendNothing, Advanced, Ended, Slot, NextState
<1>6. CASE LaterPart
  BY <1>6 DEF LaterPart, SendPart, SendNothing, Advanced, Ended, Slot, NextState
<1>7. CASE Done
  BY <1>7 DEF Done, Cleared, Slot, NoFile
<1>8. CASE CloseWait
  BY <1>8 DEF CloseWait
<1>9. CASE Closed
  BY <1>9 DEF Closed, NoFile
<1>10. CASE Disconnect
  BY <1>10 DEF Disconnect, Released, AfterDISCON
<1>11. CASE CloseSocket
  BY <1>11 DEF CloseSocket, AfterCLOSE
<1>12. CASE Socket
  BY <1>12 DEF Socket
<1>13. CASE Bind
  BY <1>13 DEF Bind, AfterOPEN, AfterCLOSE
<1>14. CASE Listen
  BY <1>14 DEF Listen, AfterLISTEN
<1>15. CASE ListenCheck
  BY <1>15 DEF ListenCheck, AfterCLOSE
<1>16. ASSUME NEW i \in Slots, Connect(i) PROVE AtInv'
  BY <1>16 DEF Connect
<1>17. ASSUME NEW i \in Slots, PeerSends(i) PROVE AtInv'
  BY <1>17 DEF PeerSends
<1>18. ASSUME NEW i \in Slots, PeerCloses(i) PROVE AtInv'
  BY <1>18 DEF PeerCloses
<1>19. ASSUME NEW i \in Slots, ConnectionEnds(i) PROVE AtInv'
  BY <1>19 DEF ConnectionEnds
<1>20. ASSUME NEW i \in Slots, DataLost(i) PROVE AtInv'
  BY <1>20 DEF DataLost
<1>21. CASE UNCHANGED vars
  BY <1>21 DEF vars
<1> QED
  BY <1>1, <1>2, <1>3, <1>4, <1>5, <1>6, <1>7, <1>8, <1>9, <1>10, <1>11, <1>12,
     <1>13, <1>14, <1>15, <1>16, <1>17, <1>18, <1>19, <1>20, <1>21 DEF Next, Task, Environment

\* Every step preserves how s_socket_usage and the descriptor go together.
LEMMA SlotStep == TypeOK /\ AtInv /\ SlotInv /\ [Next]_vars => SlotInv'
<1> SUFFICES ASSUME TypeOK, AtInv, SlotInv, [Next]_vars PROVE SlotInv'
  OBVIOUS
<1> USE HttpAssumption DEF taskVars, peerVars, history, TypeOK, AtInv, SlotInv, WithSocket, PCs, Slots
<1>1. CASE Sample
  BY <1>1 DEF Sample, Branch, SocketStatus, Serving
<1>2. CASE RecvNothing
  BY <1>2 DEF RecvNothing
<1>3. ASSUME NEW c \in Contents \cup {None}, RecvRequest(c) PROVE SlotInv'
  BY <1>3 DEF RecvRequest
<1>4. CASE Handle
  BY <1>4 DEF Handle
<1>5. CASE FirstPart
  BY <1>5 DEF FirstPart, SendPart, SendNothing, Advanced, Ended, Slot, NextState
<1>6. CASE LaterPart
  BY <1>6 DEF LaterPart, SendPart, SendNothing, Advanced, Ended, Slot, NextState
<1>7. CASE Done
  BY <1>7 DEF Done, Cleared, Slot, NoFile
<1>8. CASE CloseWait
  BY <1>8 DEF CloseWait
<1>9. CASE Closed
  BY <1>9 DEF Closed, NoFile
<1>10. CASE Disconnect
  BY <1>10 DEF Disconnect, Released, AfterDISCON
<1>11. CASE CloseSocket
  BY <1>11 DEF CloseSocket, AfterCLOSE
<1>12. CASE Socket
  <2>1. usage = {} /\ 0 \in Slots
    BY <1>12 DEF Socket
  <2>2. Slots \ usage = Slots /\ ~ (Slots \subseteq usage)
    BY <2>1
  <2> HIDE DEF Slots
  <2>3. PICK i \in Slots : /\ \A j \in Slots : i <= j
                           /\ s' = i /\ usage' = usage \cup {i} /\ pc' = "bind"
    BY <1>12, <2>2 DEF Socket
  <2>4. i <= 0
    BY <2>1, <2>3
  <2>5. i = 0
    BY <2>4 DEF Slots
  <2> QED
    BY <1>12, <2>1, <2>3, <2>5 DEF Socket
<1>13. CASE Bind
  BY <1>13 DEF Bind, AfterOPEN, AfterCLOSE
<1>14. CASE Listen
  BY <1>14 DEF Listen, AfterLISTEN
<1>15. CASE ListenCheck
  BY <1>15 DEF ListenCheck, AfterCLOSE
<1>16. ASSUME NEW i \in Slots, Connect(i) PROVE SlotInv'
  BY <1>16 DEF Connect
<1>17. ASSUME NEW i \in Slots, PeerSends(i) PROVE SlotInv'
  BY <1>17 DEF PeerSends
<1>18. ASSUME NEW i \in Slots, PeerCloses(i) PROVE SlotInv'
  BY <1>18 DEF PeerCloses
<1>19. ASSUME NEW i \in Slots, ConnectionEnds(i) PROVE SlotInv'
  BY <1>19 DEF ConnectionEnds
<1>20. ASSUME NEW i \in Slots, DataLost(i) PROVE SlotInv'
  BY <1>20 DEF DataLost
<1>21. CASE UNCHANGED vars
  BY <1>21 DEF vars
<1> QED
  BY <1>1, <1>2, <1>3, <1>4, <1>5, <1>6, <1>7, <1>8, <1>9, <1>10, <1>11, <1>12,
     <1>13, <1>14, <1>15, <1>16, <1>17, <1>18, <1>19, <1>20, <1>21 DEF Next, Task, Environment

\* Every step preserves the bookkeeping of the slots, early exits included.
LEMMA BookStep == TypeOK /\ AtInv /\ FileBookkeeping /\ [Next]_vars => FileBookkeeping'
<1> SUFFICES ASSUME TypeOK, AtInv, FileBookkeeping, [Next]_vars PROVE FileBookkeeping'
  OBVIOUS
<1> USE HttpAssumption DEF taskVars, peerVars, history, TypeOK, AtInv, FileBookkeeping, WithSocket, SlotRecord
<1>1. CASE Sample
  BY <1>1 DEF Sample, Branch, SocketStatus, Serving
<1>2. CASE RecvNothing
  BY <1>2 DEF RecvNothing
<1>3. ASSUME NEW c \in Contents \cup {None}, RecvRequest(c) PROVE FileBookkeeping'
  BY <1>3 DEF RecvRequest
<1>4. CASE Handle
  <2>1. s \in Slots /\ status[s].state = "IDLE"
    BY <1>4 DEF Handle
  <2>2. \A i \in Slots : i # s => status'[i] = status[i]
    BY <1>4 DEF Handle
  <2>3. /\ status'[s].state \in {"IDLE", "RES_DONE"}
        /\ status'[s].start = None /\ status'[s].len = 0 /\ status'[s].offset = 0
    <3>1. status[s].start = None /\ status[s].len = 0 /\ status[s].offset = 0
      BY <2>1 DEF Bookkept
    <3> QED
      BY <1>4, <2>1, <3>1 DEF Handle
  <2> QED
    BY <2>1, <2>2, <2>3 DEF Bookkept
<1>5. CASE FirstPart
  <2> DEFINE total == Size[job.content]
  <2>1. /\ s \in Slots /\ status[s].state = "IDLE"
        /\ job.content \in Contents /\ total \in Nat
    BY <1>5 DEF FirstPart
  <2>2. status[s].len = 0 /\ status[s].offset = 0 /\ status[s].start = None
    BY <2>1 DEF Bookkept
  <2>3. \/ status' = [status EXCEPT ![s] = Ended]
        \/ total > Chunk /\ status' = [status EXCEPT ![s] = Advanced(job.content, total, Chunk)]
        \/ status' = [status EXCEPT ![s] = Advanced(status[s].start, 0, total)]
    BY <1>5 DEF FirstPart, SendPart, SendNothing
  <2>4. \A i \in Slots : i # s => status'[i] = status[i]
    BY <2>1, <2>3
  <2> HIDE DEF total
  <2>5. CASE status'[s] = Ended
    <3>1. Bookkept(status'[s])
      BY <2>5 DEF Ended, Slot, Bookkept
    <3> QED
      BY <2>4, <3>1
  <2>6. CASE total > Chunk /\ status'[s] = Advanced(job.content, total, Chunk)
    <3>1. Bookkept(status'[s])
      BY <2>1, <2>2, <2>6 DEF Advanced, Slot, NextState, Bookkept, total
    <3> QED
      BY <2>4, <3>1
  <2>7. CASE status'[s] = Advanced(status[s].start, 0, total)
    <3>1. Bookkept(status'[s])
      BY <2>1, <2>2, <2>7 DEF Advanced, Slot, NextState, Bookkept
    <3> QED
      BY <2>4, <3>1
  <2> QED
    BY <2>1, <2>3, <2>5, <2>6, <2>7 DEF SlotRecord
<1>6. CASE LaterPart
  <2> DEFINE len == status[s].len
             offset == status[s].offset
             start == status[s].start
  <2>1. s \in Slots /\ status[s].state = "RES_INPROC"
    BY <1>6 DEF LaterPart
  <2>2. /\ len \in Nat /\ offset \in Nat /\ 0 < offset /\ offset < len
        /\ start \in Contents /\ len = Size[start]
    BY <2>1 DEF Bookkept
  <2>3. \/ status' = [status EXCEPT ![s] = Ended]
        \/ len - offset > Chunk /\ status' = [status EXCEPT ![s] = Advanced(start, len, Chunk)]
    BY <1>6 DEF LaterPart, SendPart, SendNothing
  <2>4. \A i \in Slots : i # s => status'[i] = status[i]
    BY <2>1, <2>3
  <2>5. CASE status'[s] = Ended
    <3>1. Bookkept(status'[s])
      BY <2>5 DEF Ended, Slot, Bookkept
    <3> QED
      BY <2>4, <3>1
  <2>6. CASE len - offset > Chunk /\ status'[s] = Advanced(start, len, Chunk)
    <3>1. Bookkept(status'[s])
      BY <2>1, <2>2, <2>6 DEF Advanced, Slot, NextState, Bookkept
    <3> QED
      BY <2>4, <3>1
  <2> QED
    BY <2>1, <2>3, <2>5, <2>6
<1>7. CASE Done
  BY <1>7 DEF Done, Cleared, Slot, NoFile, Bookkept
<1>8. CASE CloseWait
  BY <1>8 DEF CloseWait
<1>9. CASE Closed
  BY <1>9 DEF Closed, NoFile
<1>10. CASE Disconnect
  BY <1>10 DEF Disconnect, Released, AfterDISCON
<1>11. CASE CloseSocket
  BY <1>11 DEF CloseSocket, AfterCLOSE
<1>12. CASE Socket
  BY <1>12 DEF Socket
<1>13. CASE Bind
  BY <1>13 DEF Bind, AfterOPEN, AfterCLOSE
<1>14. CASE Listen
  BY <1>14 DEF Listen, AfterLISTEN
<1>15. CASE ListenCheck
  BY <1>15 DEF ListenCheck, AfterCLOSE
<1>16. ASSUME NEW i \in Slots, Connect(i) PROVE FileBookkeeping'
  BY <1>16 DEF Connect
<1>17. ASSUME NEW i \in Slots, PeerSends(i) PROVE FileBookkeeping'
  BY <1>17 DEF PeerSends
<1>18. ASSUME NEW i \in Slots, PeerCloses(i) PROVE FileBookkeeping'
  BY <1>18 DEF PeerCloses
<1>19. ASSUME NEW i \in Slots, ConnectionEnds(i) PROVE FileBookkeeping'
  BY <1>19 DEF ConnectionEnds
<1>20. ASSUME NEW i \in Slots, DataLost(i) PROVE FileBookkeeping'
  BY <1>20 DEF DataLost
<1>21. CASE UNCHANGED vars
  BY <1>21 DEF vars
<1> QED
  BY <1>1, <1>2, <1>3, <1>4, <1>5, <1>6, <1>7, <1>8, <1>9, <1>10, <1>11, <1>12,
     <1>13, <1>14, <1>15, <1>16, <1>17, <1>18, <1>19, <1>20, <1>21 DEF Next, Task, Environment

\* Every step preserves that an SD response in progress reads the file it was
\* asked for, at the place its slot has recorded.
LEMMA SdStep == TypeOK /\ AtInv /\ SdInv /\ [Next]_vars => SdInv'
<1> SUFFICES ASSUME TypeOK, AtInv, SdInv, [Next]_vars PROVE SdInv'
  OBVIOUS
<1> USE HttpAssumption DEF taskVars, peerVars, history, TypeOK, AtInv, SdInv, Reopening, WithSocket, PCs
<1>1. CASE Sample
  BY <1>1 DEF Sample, Branch, SocketStatus, Serving
<1>2. CASE RecvNothing
  BY <1>2 DEF RecvNothing
<1>3. ASSUME NEW c \in Contents \cup {None}, RecvRequest(c) PROVE SdInv'
  BY <1>3 DEF RecvRequest
<1>4. CASE Handle
  BY <1>4 DEF Handle
<1>5. CASE FirstPart
  BY <1>5 DEF FirstPart, SendPart, SendNothing, Advanced, Ended, Slot, NextState
<1>6. CASE LaterPart
  BY <1>6 DEF LaterPart, SendPart, SendNothing, Advanced, Ended, Slot, NextState
<1>7. CASE Done
  BY <1>7 DEF Done, Cleared, Slot, NoFile
<1>8. CASE CloseWait
  BY <1>8 DEF CloseWait
<1>9. CASE Closed
  BY <1>9 DEF Closed, NoFile
<1>10. CASE Disconnect
  BY <1>10 DEF Disconnect, Released, AfterDISCON
<1>11. CASE CloseSocket
  BY <1>11 DEF CloseSocket, AfterCLOSE
<1>12. CASE Socket
  BY <1>12 DEF Socket
<1>13. CASE Bind
  BY <1>13 DEF Bind, AfterOPEN, AfterCLOSE
<1>14. CASE Listen
  BY <1>14 DEF Listen, AfterLISTEN
<1>15. CASE ListenCheck
  BY <1>15 DEF ListenCheck, AfterCLOSE
<1>16. ASSUME NEW i \in Slots, Connect(i) PROVE SdInv'
  BY <1>16 DEF Connect
<1>17. ASSUME NEW i \in Slots, PeerSends(i) PROVE SdInv'
  BY <1>17 DEF PeerSends
<1>18. ASSUME NEW i \in Slots, PeerCloses(i) PROVE SdInv'
  BY <1>18 DEF PeerCloses
<1>19. ASSUME NEW i \in Slots, ConnectionEnds(i) PROVE SdInv'
  BY <1>19 DEF ConnectionEnds
<1>20. ASSUME NEW i \in Slots, DataLost(i) PROVE SdInv'
  BY <1>20 DEF DataLost
<1>21. CASE UNCHANGED vars
  BY <1>21 DEF vars
<1> QED
  BY <1>1, <1>2, <1>3, <1>4, <1>5, <1>6, <1>7, <1>8, <1>9, <1>10, <1>11, <1>12,
     <1>13, <1>14, <1>15, <1>16, <1>17, <1>18, <1>19, <1>20, <1>21 DEF Next, Task, Environment

\* Every step preserves that an idle, connected slot has answered nothing yet.
LEMMA AnswerStep == TypeOK /\ AtInv /\ SlotInv /\ AnswerInv /\ [Next]_vars => AnswerInv'
<1> SUFFICES ASSUME TypeOK, AtInv, SlotInv, AnswerInv, [Next]_vars PROVE AnswerInv'
  OBVIOUS
<1> USE HttpAssumption DEF taskVars, peerVars, history, TypeOK, AtInv, SlotInv, AnswerInv, OneAnswer, WithSocket, SlotRecord, Slots, Connected
<1>1. CASE Sample
  BY <1>1 DEF Sample, Branch, SocketStatus, Serving
<1>2. CASE RecvNothing
  BY <1>2 DEF RecvNothing
<1>3. ASSUME NEW c \in Contents \cup {None}, RecvRequest(c) PROVE AnswerInv'
  BY <1>3 DEF RecvRequest
<1>4. CASE Handle
  BY <1>4 DEF Handle
<1>5. CASE FirstPart
  BY <1>5 DEF FirstPart, SendPart, SendNothing, Advanced, Ended, Slot, NextState
<1>6. CASE LaterPart
  BY <1>6 DEF LaterPart, SendPart, SendNothing, Advanced, Ended, Slot, NextState
<1>7. CASE Done
  BY <1>7 DEF Done, Cleared, Slot, NoFile
<1>8. CASE CloseWait
  BY <1>8 DEF CloseWait
<1>9. CASE Closed
  BY <1>9 DEF Closed, NoFile
<1>10. CASE Disconnect
  BY <1>10 DEF Disconnect, Released, AfterDISCON
<1>11. CASE CloseSocket
  BY <1>11 DEF CloseSocket, AfterCLOSE
<1>12. CASE Socket
  BY <1>12 DEF Socket
<1>13. CASE Bind
  BY <1>13 DEF Bind, AfterOPEN, AfterCLOSE
<1>14. CASE Listen
  BY <1>14 DEF Listen, AfterLISTEN
<1>15. CASE ListenCheck
  BY <1>15 DEF ListenCheck, AfterCLOSE
<1>16. ASSUME NEW i \in Slots, Connect(i) PROVE AnswerInv'
  BY <1>16 DEF Connect
<1>17. ASSUME NEW i \in Slots, PeerSends(i) PROVE AnswerInv'
  BY <1>17 DEF PeerSends
<1>18. ASSUME NEW i \in Slots, PeerCloses(i) PROVE AnswerInv'
  BY <1>18 DEF PeerCloses
<1>19. ASSUME NEW i \in Slots, ConnectionEnds(i) PROVE AnswerInv'
  BY <1>19 DEF ConnectionEnds
<1>20. ASSUME NEW i \in Slots, DataLost(i) PROVE AnswerInv'
  BY <1>20 DEF DataLost
<1>21. CASE UNCHANGED vars
  BY <1>21 DEF vars
<1> QED
  BY <1>1, <1>2, <1>3, <1>4, <1>5, <1>6, <1>7, <1>8, <1>9, <1>10, <1>11, <1>12,
     <1>13, <1>14, <1>15, <1>16, <1>17, <1>18, <1>19, <1>20, <1>21 DEF Next, Task, Environment

\* A part that starts where the earlier ones ended extends what they covered.
LEMMA AppendPart ==
    ASSUME NEW parts \in Seq(Part), NEW c \in Contents, NEW n \in Nat, Contiguous(parts, c),
           NEW more, more = Append(parts, [content |-> c, from |-> Reach(parts), len |-> n])
    PROVE  Contiguous(more, c) /\ Reach(more) = Reach(parts) + n
<1>1. Len(more) = Len(parts) + 1 /\ Len(parts) \in Nat /\ more # <<>>
  OBVIOUS
<1>2. \A i \in 1 .. Len(parts) : more[i] = parts[i]
  OBVIOUS
<1>3. more[Len(parts) + 1] = [content |-> c, from |-> Reach(parts), len |-> n]
  OBVIOUS
<1>4. Reach(more) = Reach(parts) + n
  BY <1>1, <1>3 DEF Reach
<1>5. ASSUME NEW i \in 1 .. Len(more)
      PROVE  /\ more[i].content = c
             /\ more[i].from = IF i = 1 THEN 0 ELSE more[i-1].from + more[i-1].len
  <2>1. CASE i \in 1 .. Len(parts)
    BY <1>2, <2>1 DEF Contiguous
  <2>2. CASE i = Len(parts) + 1
    BY <1>1, <1>2, <1>3, <2>2 DEF Reach
  <2> QED
    BY <1>1, <2>1, <2>2
<1> QED
  BY <1>4, <1>5 DEF Contiguous

\* Every step preserves that what a peer received so far is a contiguous start
\* of the content it asked for.
LEMMA RcvdStep == TypeOK /\ AtInv /\ SlotInv /\ FileBookkeeping /\ SdInv /\ RcvdInv /\ [Next]_vars => RcvdInv'
<1> SUFFICES ASSUME TypeOK, AtInv, SlotInv, FileBookkeeping, SdInv, RcvdInv, [Next]_vars PROVE RcvdInv'
  OBVIOUS
<1> USE HttpAssumption DEF taskVars, peerVars, history, TypeOK, AtInv, SlotInv, SdInv, RcvdInv, Answering, WithSocket, SlotRecord, Slots, Conns, Connected
<1>1. CASE Sample
  BY <1>1 DEF Sample, Branch, SocketStatus, Serving
<1>2. CASE RecvNothing
  BY <1>2 DEF RecvNothing
<1>3. ASSUME NEW c \in Contents \cup {None}, RecvRequest(c) PROVE RcvdInv'
  BY <1>3 DEF RecvRequest
<1>4. CASE Handle
  <2>1. /\ s = 0 /\ 0 \in Slots /\ status[0].state = "IDLE" /\ pc = "handle"
        /\ UNCHANGED <<s, sr, conn, job, rcvd>>
    BY <1>4 DEF Handle
  <2>2. ~ (sr[0] \in Connected /\ rcvd # <<>>)
    BY <2>1
  <2>3. CASE job.content = None
    <3>1. status'[0].state = "RES_DONE" /\ pc' = "run"
      BY SMTT(30), <1>4, <2>1, <2>3 DEF Handle, Contents
    <3> QED
      BY <2>1, <2>2, <2>3, <3>1
  <2>4. CASE job.content \in Pages
    <3>0. job.content \notin Files /\ job.content # None
      BY <2>4 DEF Contents
    <3>1. status'[0].state = "IDLE" /\ status'[0].storage = "CODEFLASH"
      <4>1. status' = [status EXCEPT ![s].storage = "CODEFLASH"]
        BY <1>4, <3>0 DEF Handle
      <4> QED
        BY <2>1, <4>1
    <3> QED
      BY <2>1, <2>2, <3>1
  <2>5. CASE job.content \in Files
    <3>0. job.content \notin Pages /\ job.content # None
      BY <2>5 DEF Contents
    <3>1. /\ status'[0].state = "IDLE"
          /\ sfile' = [open |-> TRUE, name |-> job.content, pos |-> 0]
      <4>1. /\ status' = [status EXCEPT ![s].storage = "SDCARD"]
            /\ sfile' = [open |-> TRUE, name |-> job.content, pos |-> 0]
        BY <1>4, <3>0 DEF Handle
      <4> QED
        BY <2>1, <4>1
    <3> QED
      BY <2>1, <2>2, <3>1
  <2> QED
    BY <1>4, <2>3, <2>4, <2>5 DEF Handle
<1>5. CASE FirstPart
  <2> DEFINE total == Size[job.content]
  <2>1. /\ pc = "first" /\ pc' = "run" /\ s = 0 /\ 0 \in Slots /\ status[0].state = "IDLE"
        /\ job.content \in Contents /\ total \in Nat /\ job.content # None
        /\ UNCHANGED <<s, sr, conn>>
    BY <1>5 DEF FirstPart
  <2>2. status[0].offset = 0
    BY <2>1 DEF FileBookkeeping, Bookkept
  <2>3. sr[0] \in Connected => rcvd = <<>>
    BY <2>1
  <2>4. CASE \E n \in Nat : SendNothing(n) /\ (n = 0 => total = 0)
    <3>1. status'[0].state = "RES_DONE" /\ rcvd' = rcvd
      BY <2>1, <2>4 DEF SendNothing, Ended, Slot
    <3>2. \/ job'.failed
          \/ total = 0 /\ job' = job
      BY <2>4 DEF SendNothing
    <3>3. job'.conn = job.conn /\ job'.content = job.content
      BY <2>4 DEF SendNothing
    <3>4. Answering' => Whole(rcvd', job.content)
      <4>1. CASE job'.failed
        BY <4>1
      <4>2. CASE total = 0 /\ job' = job
        BY <2>1, <2>3, <3>1, <4>2 DEF Whole, Contiguous, Reach
      <4> QED
        BY <3>2, <4>1, <4>2
    <3> QED
      BY <2>1, <3>1, <3>3, <3>4
  <2>5. ASSUME NEW n \in Nat, NEW next,
               SendPart(job.content, n, next),
               \/ n = total /\ next = Advanced(status[s].start, 0, total)
               \/ total > Chunk /\ n = Chunk /\ next = Advanced(job.content, total, Chunk)
        PROVE  RcvdInv'
    <3>1. status'[0] = next /\ job' = job
      BY <2>1, <2>5 DEF SendPart
    <3>2. sr[0] \in Connected =>
            rcvd' = Append(rcvd, [content |-> job.content, from |-> 0, len |-> n])
      BY <2>1, <2>2, <2>5 DEF SendPart, Delivered
    <3>3. sr[0] \in Connected => Contiguous(rcvd', job.content) /\ Reach(rcvd') = n
      BY <2>3, <3>2 DEF Contiguous, Reach
    <3>4. status[0].storage = "SDCARD" /\ sfile'.open =>
            sfile'.name = job.content /\ sfile'.pos = n
      BY <2>1, <2>5 DEF SendPart
    <3>5. next.storage = status[0].storage /\ next.offset = n
      BY <2>1, <2>2, <2>5 DEF Advanced, Slot
    <3>6. \/ next.state = "RES_DONE" /\ n = total
          \/ next.state = "RES_INPROC" /\ next.start = job.content
      BY <2>1, <2>5 DEF Advanced, Slot, NextState
    <3> QED
      BY <2>1, <3>1, <3>3, <3>4, <3>5, <3>6 DEF Whole
  <2> QED
    BY <1>5, <2>1, <2>4, <2>5 DEF FirstPart
<1>6. CASE LaterPart
  <2> DEFINE left == status[0].len - status[0].offset
  <2>1. /\ pc = "body" /\ pc' = "run" /\ s = 0 /\ 0 \in Slots
        /\ status[0].state = "RES_INPROC"
        /\ UNCHANGED <<s, sr, conn>>
    BY <1>6 DEF LaterPart
  <2>2. /\ job.content \in Contents /\ job.content # None /\ left \in Nat \ {0}
        /\ status[0].len = Size[job.content] /\ status[0].offset \in Nat
        /\ status[0].start = job.content /\ status[0].len > 0
    BY <2>1 DEF FileBookkeeping, Bookkept
  <2>3. CASE \E n \in Nat \ {0} : SendNothing(n)
    <3>1. status'[0].state = "RES_DONE" /\ job'.failed
      BY <2>1, <2>3 DEF SendNothing, Ended, Slot
    <3>2. job'.conn = job.conn /\ rcvd' = rcvd
      BY <2>3 DEF SendNothing
    <3> QED
      BY <2>1, <3>1, <3>2
  <2>4. ASSUME NEW n \in Nat, NEW next,
               SendPart(job.content, n, next),
               \/ n = left /\ next = Ended
               \/ n = Chunk /\ next = Advanced(job.content, status[0].len, Chunk)
        PROVE  RcvdInv'
    <3>1. status'[0] = next /\ job' = job
      BY <2>1, <2>4 DEF SendPart
    <3>2. Answering =>
            rcvd' = Append(rcvd, [content |-> job.content, from |-> Reach(rcvd), len |-> n])
      BY SMTT(30), <2>1, <2>2, <2>4 DEF SendPart, Delivered
    <3>3. Answering => /\ Contiguous(rcvd', job.content)
                      /\ Reach(rcvd') = status[0].offset + n
      BY SMTT(30), <2>1, <2>2, <3>2, AppendPart
    <3>4. status[0].storage = "SDCARD" /\ sfile'.open =>
            sfile'.name = job.content /\ sfile'.pos = status[0].offset + n
      BY <2>1, <2>2, <2>4 DEF SendPart
    <3>5. next.storage = status[0].storage
      BY <2>1, <2>4 DEF Advanced, Ended, Slot
    <3>6. \/ next.state = "RES_DONE" /\ status[0].offset + n = Size[job.content]
          \/ /\ next.state = "RES_INPROC" /\ next.start = job.content
             /\ next.offset = status[0].offset + n
      BY SMTT(30), <2>1, <2>2, <2>4 DEF Advanced, Ended, Slot, NextState
    <3> QED
      BY <2>1, <3>1, <3>3, <3>4, <3>5, <3>6 DEF Whole
  <2> QED
    BY <1>6, <2>1, <2>2, <2>3, <2>4 DEF LaterPart
<1>7. CASE Done
  BY <1>7 DEF Done, Cleared, Slot, NoFile
<1>8. CASE CloseWait
  BY <1>8 DEF CloseWait
<1>9. CASE Closed
  BY <1>9 DEF Closed, NoFile
<1>10. CASE Disconnect
  BY <1>10 DEF Disconnect, Released, AfterDISCON
<1>11. CASE CloseSocket
  BY <1>11 DEF CloseSocket, AfterCLOSE
<1>12. CASE Socket
  BY <1>12 DEF Socket
<1>13. CASE Bind
  BY <1>13 DEF Bind, AfterOPEN, AfterCLOSE
<1>14. CASE Listen
  BY <1>14 DEF Listen, AfterLISTEN
<1>15. CASE ListenCheck
  BY <1>15 DEF ListenCheck, AfterCLOSE
<1>16. ASSUME NEW i \in Slots, Connect(i) PROVE RcvdInv'
  BY <1>16 DEF Connect
<1>17. ASSUME NEW i \in Slots, PeerSends(i) PROVE RcvdInv'
  BY <1>17 DEF PeerSends
<1>18. ASSUME NEW i \in Slots, PeerCloses(i) PROVE RcvdInv'
  BY <1>18 DEF PeerCloses
<1>19. ASSUME NEW i \in Slots, ConnectionEnds(i) PROVE RcvdInv'
  BY <1>19 DEF ConnectionEnds
<1>20. ASSUME NEW i \in Slots, DataLost(i) PROVE RcvdInv'
  BY <1>20 DEF DataLost
<1>21. CASE UNCHANGED vars
  BY <1>21 DEF vars
<1> QED
  BY <1>1, <1>2, <1>3, <1>4, <1>5, <1>6, <1>7, <1>8, <1>9, <1>10, <1>11, <1>12,
     <1>13, <1>14, <1>15, <1>16, <1>17, <1>18, <1>19, <1>20, <1>21 DEF Next, Task, Environment

-----------------------------------------------------------------------------
(* The invariant holds, and what follows from it.                          *)

\* The strengthened invariant holds in every reachable state.
THEOREM Inductive == Spec => []IInv
<1>1. IInv /\ [Next]_vars => IInv'
  BY TypeStep, AtStep, SlotStep, BookStep, SdStep, AnswerStep, RcvdStep DEF IInv
<1> QED
  BY <1>1, InitHolds, PTL DEF Spec

\* Every variable keeps its type, for every instance.
THEOREM TypeCorrect == Spec => []TypeOK
BY Inductive, PTL DEF IInv

\* The server never loses a socket, and socket() never fails for it.
THEOREM NeverLeaks == Spec => []NoSlotLeak
<1>1. IInv => NoSlotLeak
  BY DEF IInv, SlotInv, NoSlotLeak
<1> QED
  BY <1>1, Inductive, PTL

\* file_offset stays below file_len while a file is being sent, and an idle
\* slot is clean, whatever exit the server took.
THEOREM Bookkeeping == Spec => []FileBookkeeping
BY Inductive, PTL DEF IInv

\* A connection is answered at most once.
THEOREM AnsweredOnce == Spec => []OneAnswer
<1>1. IInv => OneAnswer
  BY DEF IInv, AnswerInv
<1> QED
  BY <1>1, Inductive, PTL

\* A response that ends without a read error was delivered whole.
THEOREM DeliveredWhole == Spec => []WholeResponse
<1>1. ASSUME IInv PROVE WholeResponse
  <2>1. SUFFICES ASSUME pc = "done", job.content # None, ~ job.failed,
                        job.conn = conn, sr[s] \in Connected
                 PROVE  Whole(rcvd, job.content)
    BY DEF WholeResponse
  <2>2. s = 0 /\ status[0].state = "RES_DONE"
    BY <1>1, <2>1 DEF IInv, AtInv, SlotInv, WithSocket, Slots
  <2> QED
    BY <1>1, <2>1, <2>2 DEF IInv, RcvdInv, Answering
<1> QED
  BY <1>1, Inductive, PTL

\* No part of an SD file outlives the opening of the socket it was asked on.
THEOREM SdNeverStale == Spec => SdPartIsLive
<1>1. IInv /\ [Next]_vars =>
        [rcvd' # rcvd /\ rcvd' # <<>> /\ status[s].storage = "SDCARD" => job.live]_vars
  <2> SUFFICES ASSUME IInv, [Next]_vars, rcvd' # rcvd, rcvd' # <<>>,
                      status[s].storage = "SDCARD"
               PROVE  job.live
    OBVIOUS
  <2>1. FirstPart \/ LaterPart
    BY DEF Next, Task, Environment, vars, history, peerVars, taskVars, Sample, RecvNothing,
       RecvRequest, Handle, Done, CloseWait, Closed, Disconnect, CloseSocket, Socket, Bind,
       Listen, ListenCheck, Connect, PeerSends, DataLost, PeerCloses, ConnectionEnds
  <2>2. sfile.open
    BY <2>1 DEF FirstPart, LaterPart, SendPart, SendNothing
  <2> QED
    BY <2>2 DEF IInv, SdInv
<1> QED
  BY <1>1, Inductive, PTL DEF Spec, SdPartIsLive
=============================================================================
