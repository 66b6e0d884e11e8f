------------------------------- MODULE MCUcos -------------------------------
(***************************************************************************)
(* The instance of Ucos that TLC checks: three tasks, one semaphore used   *)
(* as sem_w5500 (created with 1), one mailbox.                             *)
(***************************************************************************)
EXTENDS Ucos

CONSTANTS sem, mbox, m

MCSems == {sem}
MCBoxes == {mbox}
MCMsgs == {m}
MCTimeouts == {0, 2}
MCDelays == {1}
=============================================================================
