----------------------------- MODULE W5500Chip -----------------------------
(***************************************************************************)
(* What the firmware relies on of one hardware socket of the W5500: the    *)
(* values of its status register Sn_SR and what a command written to Sn_CR *)
(* does to it.  The chip is not part of the repository; the operators say  *)
(* what the calls in w5500_socket.c and w5500_core.c can observe.  Where   *)
(* the driver does not depend on one outcome, all of them are kept.        *)
(***************************************************************************)

\* The values of Sn_SR the firmware tells apart.  "FIN_WAIT" stands for every
\* state of a connection being torn down (FIN_WAIT, CLOSING, TIME_WAIT,
\* LAST_ACK): httpServer_run does nothing in any of them.
SockStates == {"CLOSED", "INIT", "LISTEN", "ESTABLISHED", "CLOSE_WAIT", "FIN_WAIT"}

\* A peer is attached and reads what is sent.
Connected == {"ESTABLISHED", "CLOSE_WAIT"}

\* DISCON starts the tear-down of a connection; on a socket without a
\* connection it either has no effect or closes the socket.
AfterDISCON(sr) ==
    IF sr \in Connected THEN {"FIN_WAIT"} ELSE {sr, "CLOSED"}

\* OPEN on a closed socket gives INIT.  On a socket that is not closed it may
\* be refused, which W5500_Socket_TCP_Open sees after its delay.
AfterOPEN(sr) ==
    IF sr = "CLOSED" THEN {"INIT"} ELSE {"INIT", sr}

\* LISTEN is only honoured by a socket in INIT.
AfterLISTEN(sr) == IF sr = "INIT" THEN "LISTEN" ELSE sr

\* CLOSE takes effect whatever the socket was doing.
AfterCLOSE == "CLOSED"
============================================================================
