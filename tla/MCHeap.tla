------------------------------- MODULE MCHeap -------------------------------
(***************************************************************************)
(* The instance of Heap that TLC checks: blocks of 2, 3 and 4 units, and a *)
(* request of 0 bytes, in 13 units.                                        *)
(***************************************************************************)
EXTENDS Heap

MCRequests == {0, 1, 9, 24}
=============================================================================
