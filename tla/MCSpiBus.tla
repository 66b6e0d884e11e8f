------------------------------ MODULE MCSpiBus ------------------------------
(***************************************************************************)
(* The instances of SpiBus that TLC checks: task_socket, one server and    *)
(* one socket.                                                             *)
(***************************************************************************)
EXTENDS SpiBus

MCSocks == {0}

\* Every call of the module but Read, which only task_socket makes.
MCApi == (Guarded \cup Bare) \ {"Read"}

\* The calls of each shape, for all that needs the whole state space.  The
\* others differ from one of these in a register or value no call looks at.
MCShapes == {"Write", "getSn_SR", "getSn_CR", "setSn_DIPR", "DISCON",
             "TCP", "UDP", "UDP_Open", "TCP_Listen"}
=============================================================================
