----------------------------- MODULE WebServer -----------------------------
(***************************************************************************)
(* HttpServer and SocketRx put together: httpServer_run takes its requests *)
(* from the socket's mailbox with recvfrom, while task_socket polls the    *)
(* chip and posts g_pack (src/src/Internet/httpServer/httpServer.c,        *)
(* src/src/HARDWARE/W5500/w5500_socket.c, src/src/task/task_socket.c).     *)
(*                                                                         *)
(* The steps of the server are those of HttpServer, with recvfrom replaced *)
(* by its own steps; the steps of task_socket, the mailbox and the tick    *)
(* are those of SocketRx, for the one socket the server uses: polls of the *)
(* others find nothing and empty g_pack, as a poll of this one may.  The   *)
(* server may be as slow as it likes.                                      *)
(***************************************************************************)
EXTENDS Integers, Sequences, W5500Chip

CONSTANTS
    Chunk, Pages, Files, Size, MaxConns,    \* as in HttpServer
    Cap, MaxUnits                           \* as in SocketRx

ASSUME WebAssumption == Cap \in Nat \ {0} /\ MaxUnits \in Nat

VARIABLES
    pc, ret, sta, s, usage, status, sfile, sr, conn, job, rcvd, answers,
    awake, idx, pack, rx, mbox, rd, want, sent, recv,
    opened,     \* units that had arrived when the socket was last opened (history)
    left        \* a mail from before that is in the mailbox, or was taken by
                \* the recvfrom that is running (history)

serverVars == <<pc, ret, sta, s, usage, status, sfile, sr, conn, job, rcvd, answers>>
pathVars == <<awake, idx, pack, rx, mbox, rd, want, sent, recv>>
openVars == <<opened, left>>
vars == <<serverVars, pathVars, openVars>>

R == INSTANCE SocketRx WITH NumSocks <- 1, Prompt <- {}, i <- idx

\* The server's steps, whatever HttpServer says of its inbox: what recvfrom
\* returns is decided here.
H == INSTANCE HttpServer WITH NumSlots <- 1, inbox <- [k \in R!Socks |-> TRUE]

Init ==
    /\ pc = "run" /\ ret = "done" /\ sta = "CLOSED" /\ s = -1
    /\ usage = {} /\ status = [k \in H!Slots |-> H!Fresh] /\ sfile = H!NoFile
    /\ sr = [k \in H!Slots |-> "CLOSED"]
    /\ conn = 0 /\ job = H!NoJob /\ rcvd = <<>> /\ answers = 0
    /\ R!Init
    /\ opened = 0 /\ left = FALSE

-----------------------------------------------------------------------------
(* recvfrom, called by httpServer_run.                                     *)

Pend ==
    /\ pc = "recv"
    /\ R!Pend(s)
    /\ UNCHANGED <<serverVars, openVars>>

\* Bug: the return value is not looked at, and the buffer is parsed as it is.
TimeoutParsed ==
    /\ pc = "recv"
    /\ R!TimedOut(s)
    /\ job' = [job EXCEPT !.live = TRUE, !.content = H!None]
    /\ pc' = "handle"
    /\ UNCHANGED <<ret, sta, s, usage, status, sfile, sr, conn, rcvd, answers, openVars>>

TimedOut ==
    /\ pc = "recv"
    /\ R!TimedOut(s)
    /\ H!RecvNothing
    /\ UNCHANGED openVars

TakeLen ==
    /\ pc = "recv"
    /\ R!TakeLen(s)
    /\ UNCHANGED <<serverVars, openVars>>

\* recvfrom returns what it copied: 0 bytes if g_pack had been emptied.
Copy ==
    /\ pc = "recv"
    /\ R!Copy(s)
    /\ IF want[s] = 0
         THEN H!RecvNothing
         ELSE \E c \in H!Contents \cup {H!None} : H!RecvRequest(c)
    /\ left' = FALSE
    /\ UNCHANGED opened

\* bind(): OPEN empties the chip's receive buffer, and nothing empties the
\* mailbox.
Bind ==
    /\ pc = "bind"
    /\ rx' = [rx EXCEPT ![s] = <<>>]
    /\ UNCHANGED <<awake, idx, pack, mbox, rd, want, sent, recv>>
    /\ H!Bind
    /\ opened' = sent[s]
    /\ left' = mbox[s]

\* The calls of the server that do not receive.
Other ==
    /\ UNCHANGED <<pathVars, openVars>>
    /\ \/ H!Sample
       \/ H!Handle \/ H!FirstPart \/ H!LaterPart \/ H!Done
       \/ H!CloseWait \/ H!Closed
       \/ H!Disconnect \/ H!CloseSocket \/ H!Socket \/ H!Listen \/ H!ListenCheck

Server == Pend \/ TimedOut \/ TakeLen \/ Copy \/ Bind \/ Other

-----------------------------------------------------------------------------
(* task_socket, the tick, and the peers.                                   *)

Poll ==
    /\ R!Sweep \/ R!Wake
    /\ UNCHANGED <<serverVars, openVars>>

Tick ==
    /\ \E k \in R!Socks : R!Expire(k)
    /\ UNCHANGED <<serverVars, openVars>>

Arrive(k) ==
    /\ sr[k] = "ESTABLISHED"
    /\ R!Arrive(k)
    /\ UNCHANGED <<serverVars, openVars>>

Peer(k) ==
    /\ UNCHANGED <<pathVars, openVars>>
    /\ H!Connect(k) \/ H!PeerCloses(k) \/ H!ConnectionEnds(k)

Next ==
    \/ Server \/ Poll \/ Tick
    \/ \E k \in R!Socks : Arrive(k) \/ Peer(k)

Spec == Init /\ [][Next]_vars
-----------------------------------------------------------------------------
(* Properties.                                                             *)

\* What HttpServer calls the inbox: data in the chip, in the pack a mail
\* points to, or about to be copied.
Inbox == [k \in R!Socks |->
    \/ rx[k] # <<>>
    \/ R!Pending(k) /\ pack.len > 0
    \/ rd[k] = "copy" /\ want[k] > 0]

Reduced == INSTANCE HttpServer WITH NumSlots <- 1, inbox <- Inbox

\* The receive path is as HttpServer takes it to be: whatever task_socket,
\* the mailbox, the tick and the shared g_pack do, a request is only handled
\* if data was waiting for the socket, and data starts to wait only when a peer
\* that is connected sends it.  What was shown of HttpServer holds here.
IsHttpServer == Reduced!Spec

\* Data of an earlier opening of the socket reaches httpServer_run in one way
\* only: a mail that was in the mailbox when the socket was opened, and then
\* once.  Every other recvfrom returns data that arrived since, although
\* nothing clears g_pack's buffer, and a pack may be replaced by a shorter one
\* while the reader is between its length and its data.
OldDataIsLeftMail ==
    \A k \in R!Socks : rd[k] = "copy" /\ ~ left =>
        \A n \in 1 .. want[k] : pack.data[n].seq > opened
=============================================================================
