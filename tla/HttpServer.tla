----------------------------- MODULE HttpServer -----------------------------
(***************************************************************************)
(* task_tcpserver: the endless loop around httpServer_run                  *)
(* (src/src/Internet/httpServer/httpServer.c) and the socket calls it      *)
(* makes through socket_cfg_t (src/src/HARDWARE/W5500/w5500_socket.c).     *)
(*                                                                         *)
(* The task reads the socket's status once per pass and then acts on the   *)
(* reading, one socket call at a time, while the chip and the peer go on.  *)
(* Each call that reaches the chip, and each blocking call, is an action   *)
(* of its own; pc says which one comes next.                               *)
(*                                                                         *)
(* The lower receive path (task_socket and the mailboxes) is reduced to    *)
(* inbox: some data the peer sent is waiting, or not.  It may be waiting   *)
(* for longer than the connection it came on, and it may get lost; that    *)
(* the receive path is like this, WebServer shows.                         *)
(***************************************************************************)
EXTENDS Integers, Sequences, W5500Chip

CONSTANTS
    Chunk,      \* DATA_BUF_SIZE - 1, the most one call of send carries
    Pages,      \* web content registered in code flash
    Files,      \* web content on the SD card
    Size,       \* length of each page and file
    NumSlots,   \* bits of s_socket_usage and entries of HTTPSock_Status
    MaxConns    \* bound: connections the environment makes in a behaviour

Contents == Pages \cup Files
None == "none"

ASSUME HttpAssumption ==
    /\ Chunk \in Nat \ {0}
    /\ NumSlots \in Nat \ {0}
    /\ MaxConns \in Nat
    /\ Pages \cap Files = {}
    /\ None \notin Contents
    /\ Size \in [Contents -> Nat]

Slots == 0 .. NumSlots - 1
Conns == 0 .. MaxConns

VARIABLES
    pc,         \* where the task is in httpServer_run
    ret,        \* which call site of disconnect/close the task is in
    sta,        \* sock_sta, the status read at the start of the pass
    s,          \* the task's socket descriptor
    usage,      \* s_socket_usage, as the set of bits that are set
    status,     \* HTTPSock_Status: one record per slot
    sfile,      \* s_file: is it open, which file, how far it was read
    sr,         \* Sn_SR of every hardware socket
    inbox,      \* data of the peer is waiting for recvfrom
    conn,       \* number of the latest connection (history)
    job,        \* the request being answered; live until the socket is opened
                \* again (history)
    rcvd,       \* body parts the latest connection received (history)
    answers     \* answers begun on the latest connection (history)

taskVars == <<pc, ret, sta, s, usage, status, sfile>>
peerVars == <<sr, inbox, conn>>
history  == <<job, rcvd, answers>>
vars == <<pc, ret, sta, s, usage, status, sfile, sr, inbox, conn, job, rcvd, answers>>

Fresh == [state |-> "IDLE", start |-> None, len |-> 0, offset |-> 0, storage |-> "NONE"]
NoFile == [open |-> FALSE, name |-> None, pos |-> 0]
NoJob == [conn |-> 0, live |-> FALSE, content |-> None, failed |-> FALSE]

Init ==
    /\ pc = "run" /\ ret = "done" /\ sta = "CLOSED"
    /\ s = -1
    /\ usage = {}
    /\ status = [i \in Slots |-> Fresh]
    /\ sfile = NoFile
    /\ sr = [i \in Slots |-> "CLOSED"]
    /\ inbox = [i \in Slots |-> FALSE]
    /\ conn = 0 /\ job = NoJob /\ rcvd = <<>> /\ answers = 0

-----------------------------------------------------------------------------
(* The socket calls.                                                       *)

\* socket_status: a descriptor out of range reads as SOCK_CLOSED.
SocketStatus == IF s \in Slots THEN sr[s] ELSE "CLOSED"

\* send: copies to the chip and returns at once.  Only a socket with a peer
\* delivers what it is given; send reports success in every case.
Delivered(part) ==
    rcvd' = IF sr[s] \in Connected THEN Append(rcvd, part) ELSE rcvd

-----------------------------------------------------------------------------
(* httpServer_run: read the status, then branch on it and on the slot's    *)
(* own state.                                                              *)

Serving == {"LISTEN", "ESTABLISHED"}

Branch(now) ==
    CASE now \in Serving /\ status[s].state = "IDLE"       -> "recv"
      [] now \in Serving /\ status[s].state = "RES_INPROC" -> "body"
      [] now \in Serving /\ status[s].state = "RES_DONE"   -> "done"
      [] now = "CLOSE_WAIT" -> "close_wait"
      [] now = "CLOSED"     -> "closed"
      [] now = "INIT"       -> "listen"
      [] OTHER              -> "run"

Sample ==
    /\ pc = "run"
    /\ sta' = SocketStatus
    /\ pc' = Branch(SocketStatus)
    /\ UNCHANGED <<ret, s, usage, status, sfile, peerVars, history>>

\* What is waiting for the socket may be gone after the call, or there may be
\* more of it.
MayDrain == inbox' \in {inbox, [inbox EXCEPT ![s] = FALSE]}

\* recvfrom returned 0: nothing came within the timeout, or the posted pack
\* had been emptied meanwhile.  Only a pass that saw ESTABLISHED closes.
RecvNothing ==
    /\ pc = "recv"
    /\ MayDrain
    /\ IF sta = "ESTABLISHED"
         THEN pc' = "discon" /\ ret' = "idle"
         ELSE pc' = "run" /\ UNCHANGED ret
    /\ UNCHANGED <<sta, s, usage, status, sfile, sr, conn, history>>

\* recvfrom returned a request, which is then parsed.
RecvRequest(content) ==
    /\ pc = "recv"
    /\ inbox[s]
    /\ MayDrain
    /\ job' = [conn    |-> IF sr[s] \in Connected THEN conn ELSE 0,
               live    |-> TRUE,
               content |-> content,
               failed  |-> FALSE]
    /\ pc' = "handle"
    /\ UNCHANGED <<ret, sta, s, usage, status, sfile, sr, conn, rcvd, answers>>

\* http_process_handler up to the body: everything that is answered by one
\* send (400, 404, a CGI answer), or the header of a page or a file.
Handle ==
    /\ pc = "handle"
    /\ answers' = IF sr[s] \in Connected THEN answers + 1 ELSE answers
    /\ \/ /\ job.content = None
          /\ pc' = "run"
          /\ status' = [status EXCEPT ![s].state = "RES_DONE"]
          /\ UNCHANGED sfile
       \/ /\ job.content \in Pages
          /\ pc' = "first"
          /\ status' = [status EXCEPT ![s].storage = "CODEFLASH"]
          /\ UNCHANGED sfile
       \/ /\ job.content \in Files
          /\ pc' = "first"
          /\ status' = [status EXCEPT ![s].storage = "SDCARD"]
          /\ sfile' = [open |-> TRUE, name |-> job.content, pos |-> 0]
    /\ UNCHANGED <<ret, sta, s, usage, peerVars, job, rcvd>>

\* The state after a part was sent: more to come, or the end of the response.
NextState(len) == IF len > 0 THEN "RES_INPROC" ELSE "RES_DONE"

\* The slot's record, whose storage type outlives the response.
Slot(state, start, len, offset) ==
    [state |-> state, start |-> start, len |-> len, offset |-> offset,
     storage |-> status[s].storage]

\* send_http_response_body has ended the response.
Ended == Slot("RES_DONE", None, 0, 0)

\* Bug: the offset is counted by the buffer's size, one more than is sent.
AdvancedByBuffer(start, len, n) == Slot(NextState(len), start, len, status[s].offset + n + 1)

\* Bug: what is left is counted down in file_len.
AdvancedByCountdown(start, len, n) == Slot(NextState(len), start, len - n, status[s].offset)

\* n more bytes of a response of len bytes (0 when this part is all of it)
\* were sent, and the record is kept for the next pass.
Advanced(start, len, n) == Slot(NextState(len), start, len, status[s].offset + n)

\* send_http_response_body reads n bytes from the storage and sends them; the
\* slot's record becomes next.
SendPart(start, n, next) ==
    \/ /\ status[s].storage = "CODEFLASH"
       /\ n > 0
       /\ Delivered([content |-> start, from |-> status[s].offset, len |-> n])
       /\ status' = [status EXCEPT ![s] = next]
       /\ UNCHANGED <<sfile, job>>
    \/ /\ status[s].storage = "SDCARD"
       /\ n > 0
       /\ sfile.open
       /\ Delivered([content |-> sfile.name, from |-> sfile.pos, len |-> n])
       /\ sfile' = [sfile EXCEPT !.pos = @ + n]
       /\ status' = [status EXCEPT ![s] = next]
       /\ UNCHANGED job

\* Nothing was read: an empty file, or f_read failed, which it does on a file
\* that was closed and may do on one that is open.
SendNothing(n) ==
    /\ n = 0 \/ status[s].storage = "SDCARD"
    /\ status' = [status EXCEPT ![s] = Ended]
    /\ IF n > 0 THEN job' = [job EXCEPT !.failed = TRUE] ELSE UNCHANGED job
    /\ UNCHANGED <<sfile, rcvd>>

\* The first part, in the pass that received the request.
FirstPart ==
    /\ pc = "first"
    /\ pc' = "run"
    /\ LET total == Size[job.content] IN
       IF total > Chunk
         THEN SendPart(job.content, Chunk, Advanced(job.content, total, Chunk))
                \/ SendNothing(Chunk)
         ELSE SendPart(job.content, total, Advanced(status[s].start, 0, total))
                \/ SendNothing(total)
    /\ UNCHANGED <<ret, sta, s, usage, peerVars, answers>>

\* A later part, one per pass.
LaterPart ==
    /\ pc = "body"
    /\ pc' = "run"
    /\ LET left == status[s].len - status[s].offset IN
       IF left > Chunk
         THEN SendPart(status[s].start, Chunk,
                       Advanced(status[s].start, status[s].len, Chunk))
                \/ SendNothing(Chunk)
         ELSE SendPart(status[s].start, left, Ended) \/ SendNothing(left)
    /\ UNCHANGED <<ret, sta, s, usage, peerVars, answers>>

\* Bug: the offset of the response that ended is kept.
ClearedButOffset == Slot("IDLE", None, 0, status[s].offset)

\* The slot's record between two requests.
Cleared == Slot("IDLE", None, 0, 0)

\* Bug: the connection is kept for another request.
DoneKeepsAlive ==
    /\ pc = "done"
    /\ status' = [status EXCEPT ![s] = Cleared]
    /\ sfile' = IF status[s].storage = "SDCARD" THEN NoFile ELSE sfile
    /\ pc' = "run"
    /\ UNCHANGED <<ret, sta, s, usage, peerVars, history>>

\* RES_DONE: reset the slot's record, close the SD file, disconnect.
Done ==
    /\ pc = "done"
    /\ status' = [status EXCEPT ![s] = Cleared]
    /\ sfile' = IF status[s].storage = "SDCARD" THEN NoFile ELSE sfile
    /\ pc' = "discon" /\ ret' = "done"
    /\ UNCHANGED <<sta, s, usage, peerVars, history>>

\* Bug: a half-closed peer is left alone.
CloseWaitIgnored ==
    /\ pc = "close_wait"
    /\ pc' = "run"
    /\ UNCHANGED <<ret, sta, s, usage, status, sfile, peerVars, history>>

\* SOCK_CLOSE_WAIT: the peer has half-closed, close() the descriptor.
CloseWait ==
    /\ pc = "close_wait"
    /\ pc' = "discon" /\ ret' = "wait"
    /\ UNCHANGED <<sta, s, usage, status, sfile, peerVars, history>>

\* Bug: the SD file stays open.
ClosedKeepsFile ==
    /\ pc = "closed"
    /\ IF s >= 0
         THEN pc' = "discon" /\ ret' = "reopen"
         ELSE pc' = "socket" /\ UNCHANGED ret
    /\ UNCHANGED <<sta, s, usage, status, sfile, peerVars, history>>

\* SOCK_CLOSED: close the SD file; close the descriptor if there is one.
Closed ==
    /\ pc = "closed"
    /\ sfile' = NoFile
    /\ IF s >= 0
         THEN pc' = "discon" /\ ret' = "reopen"
         ELSE pc' = "socket" /\ UNCHANGED ret
    /\ UNCHANGED <<sta, s, usage, status, peerVars, history>>

-----------------------------------------------------------------------------
(* The calls that change the socket itself.                                *)

\* Bug: disconnect leaves the bit to close().
ReleasedByClose == usage

\* s_socket_usage &= ~(1 << s)
Released == usage \ {s}

\* disconnect(s), alone in RES_DONE and as the first half of close(s).
Disconnect ==
    /\ pc = "discon"
    /\ \E r \in AfterDISCON(sr[s]) : sr' = [sr EXCEPT ![s] = r]
    /\ usage' = Released
    /\ IF ret = "done" THEN pc' = "run" /\ s' = -1
                       ELSE pc' = "close" /\ UNCHANGED s
    /\ UNCHANGED <<ret, sta, status, sfile, inbox, conn, history>>

\* The second half of close(s), and what the call site does next.
CloseSocket ==
    /\ pc = "close"
    /\ sr' = [sr EXCEPT ![s] = AfterCLOSE]
    /\ pc' = IF ret = "reopen" THEN "socket" ELSE "run"
    /\ s' = IF ret = "wait" THEN -1 ELSE s
    /\ UNCHANGED <<ret, sta, usage, status, sfile, inbox, conn, history>>

\* socket(): the lowest free bit, or -1.
Socket ==
    /\ pc = "socket"
    /\ IF Slots \subseteq usage
         THEN s' = -1 /\ pc' = "run" /\ UNCHANGED usage
         ELSE \E i \in Slots \ usage :
                /\ \A j \in Slots \ usage : i <= j
                /\ s' = i
                /\ usage' = usage \cup {i}
                /\ pc' = "bind"
    /\ UNCHANGED <<ret, sta, status, sfile, peerVars, history>>

\* bind(): OPEN, wait, and CLOSE again unless the socket is in INIT.  The
\* descriptor is kept when it fails.
Bind ==
    /\ pc = "bind"
    /\ \E r \in AfterOPEN(sr[s]) :
         sr' = [sr EXCEPT ![s] = IF r = "INIT" THEN r ELSE AfterCLOSE]
    /\ MayDrain
    /\ pc' = "run"
    /\ job' = [job EXCEPT !.live = FALSE]
    /\ UNCHANGED <<ret, sta, s, usage, status, sfile, conn, rcvd, answers>>

\* listen(): LISTEN, then a delay of 5 ms ...
Listen ==
    /\ pc = "listen"
    /\ sr' = [sr EXCEPT ![s] = AfterLISTEN(sr[s])]
    /\ pc' = "listening"
    /\ UNCHANGED <<ret, sta, s, usage, status, sfile, inbox, conn, history>>

\* ... and CLOSE if the socket is not listening any more.
ListenCheck ==
    /\ pc = "listening"
    /\ sr' = [sr EXCEPT ![s] = IF @ = "LISTEN" THEN @ ELSE AfterCLOSE]
    /\ pc' = "run"
    /\ UNCHANGED <<ret, sta, s, usage, status, sfile, inbox, conn, history>>

-----------------------------------------------------------------------------
(* The peers and the network.                                              *)

Connect(i) ==
    /\ sr[i] = "LISTEN"
    /\ conn < MaxConns
    /\ sr' = [sr EXCEPT ![i] = "ESTABLISHED"]
    /\ conn' = conn + 1
    /\ rcvd' = <<>> /\ answers' = 0
    /\ UNCHANGED <<taskVars, inbox, job>>

PeerSends(i) ==
    /\ sr[i] = "ESTABLISHED"
    /\ ~ inbox[i]
    /\ inbox' = [inbox EXCEPT ![i] = TRUE]
    /\ UNCHANGED <<taskVars, sr, conn, history>>

\* task_socket's next read overwrites g_pack, or finds nothing and empties it.
DataLost(i) ==
    /\ inbox[i]
    /\ inbox' = [inbox EXCEPT ![i] = FALSE]
    /\ UNCHANGED <<taskVars, sr, conn, history>>

PeerCloses(i) ==
    /\ sr[i] = "ESTABLISHED"
    /\ sr' = [sr EXCEPT ![i] = "CLOSE_WAIT"]
    /\ UNCHANGED <<taskVars, inbox, conn, history>>

\* The peer resets the connection, a retransmission times out, or the
\* tear-down of the connection ends.
ConnectionEnds(i) ==
    /\ sr[i] \in Connected \cup {"FIN_WAIT"}
    /\ sr' = [sr EXCEPT ![i] = "CLOSED"]
    /\ UNCHANGED <<taskVars, inbox, conn, history>>

-----------------------------------------------------------------------------
Task ==
    \/ Sample
    \/ RecvNothing
    \/ \E c \in Contents \cup {None} : RecvRequest(c)
    \/ Handle \/ FirstPart \/ LaterPart \/ Done
    \/ CloseWait \/ Closed
    \/ Disconnect \/ CloseSocket \/ Socket \/ Bind \/ Listen \/ ListenCheck

Environment ==
    \E i \in Slots :
        \/ Connect(i) \/ PeerSends(i) \/ DataLost(i)
        \/ PeerCloses(i) \/ ConnectionEnds(i)

Next == Task \/ Environment

Spec == Init /\ [][Next]_vars

\* task_tcpserver never blocks for good: recvfrom has a timeout, every other
\* call returns, and no task of higher priority runs without sleeping.
FairSpec == Spec /\ WF_vars(Task)
-----------------------------------------------------------------------------
(* Type invariant.                                                         *)

PCs == {"run", "recv", "handle", "first", "body", "done", "close_wait", "closed",
        "discon", "close", "socket", "bind", "listen", "listening"}

SlotRecord == [state : {"IDLE", "RES_INPROC", "RES_DONE"}, start : Contents \cup {None},
               len : Nat, offset : Nat, storage : {"NONE", "CODEFLASH", "SDCARD"}]

Part == [content : Contents \cup {None}, from : Nat, len : Nat]

TypeOK ==
    /\ pc \in PCs
    /\ ret \in {"done", "idle", "wait", "reopen"}
    /\ sta \in SockStates
    /\ s \in Slots \cup {-1}
    /\ usage \subseteq Slots
    /\ status \in [Slots -> SlotRecord]
    /\ sfile \in [open : BOOLEAN, name : Contents \cup {None}, pos : Nat]
    /\ sr \in [Slots -> SockStates]
    /\ inbox \in [Slots -> BOOLEAN]
    /\ conn \in Conns
    /\ job \in [conn : Conns, live : BOOLEAN, content : Contents \cup {None},
                failed : BOOLEAN]
    /\ rcvd \in Seq(Part)
    /\ answers \in Nat

-----------------------------------------------------------------------------
(* Properties.                                                             *)

\* The server never loses a socket: at most the bit of its own descriptor is
\* set in s_socket_usage, and none is when socket() looks for a free one,
\* whichever of its exits the previous passes took (failed bind, listen that
\* closed again, peer gone, timeout).
NoSlotLeak ==
    /\ usage \subseteq {s}
    /\ pc = "socket" => usage = {}

Bookkept(slot) ==
    /\ slot.state = "IDLE" => slot.start = None /\ slot.len = 0 /\ slot.offset = 0
    /\ slot.state = "RES_INPROC" =>
          /\ 0 < slot.offset /\ slot.offset < slot.len
          /\ slot.start \in Contents /\ slot.len = Size[slot.start]
    /\ slot.state = "RES_DONE" => slot.len = 0

\* The slot's bookkeeping survives every early exit: a slot that is idle has
\* nothing left of an earlier file, one in the middle of a file has sent some
\* of it and not all, so that file_len - file_offset (an unsigned
\* subtraction) never wraps and the next request is taken for a first part.
FileBookkeeping == \A i \in Slots : Bookkept(status[i])

\* The parts are those of one content, each from where the last one ended.
Contiguous(parts, content) ==
    \A i \in 1 .. Len(parts) :
        /\ parts[i].content = content
        /\ parts[i].from = IF i = 1 THEN 0 ELSE parts[i-1].from + parts[i-1].len

\* Where the last part ended.
Reach(parts) ==
    IF parts = <<>> THEN 0 ELSE parts[Len(parts)].from + parts[Len(parts)].len

Whole(parts, content) == Contiguous(parts, content) /\ Reach(parts) = Size[content]

\* When the server ends a response whose reads all succeeded, the peer that
\* asked for it and is still there was given every byte once and in order.
WholeResponse ==
    pc = "done" /\ job.content # None /\ ~ job.failed
        /\ job.conn = conn /\ sr[s] \in Connected
      => Whole(rcvd, job.content)

\* A connection is answered at most once: whatever the peer sends after its
\* first request, the pass that follows the response disconnects.
OneAnswer == answers <= 1

\* A part of an SD file is only ever sent on the opening of the socket on which
\* the file was asked for: s_file does not outlive it.
SdPartIsLive ==
    [][ rcvd' # rcvd /\ rcvd' # <<>> /\ status[s].storage = "SDCARD" => job.live ]_vars

\* The comment at httpServer.c:99 says of every later part what it is: the
\* remaining data of this response, sent to its client.
PartIsLive ==
    [][ rcvd' # rcvd /\ rcvd' # <<>> => job.live ]_vars

\* The server always comes back to listening, whatever its peers do: no peer
\* that stays silent or half-closed, and no early exit, keeps it.
ListensAgain == []<>(\E i \in Slots : sr[i] = "LISTEN")
=============================================================================
