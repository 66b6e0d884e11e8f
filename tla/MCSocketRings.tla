--------------------------- MODULE MCSocketRings ---------------------------
(***************************************************************************)
(* The instance of SocketRings that TLC checks: buffers of four units and  *)
(* offsets modulo eight, which both wrap, reads of at most three.          *)
(***************************************************************************)
EXTENDS SocketRings

MCSizes == {1, 2, 4}
=============================================================================
