------------------------------ MODULE HeapSpace ------------------------------
(***************************************************************************)
(* What the callers of pvPortMalloc and vPortFree are promised: memory     *)
(* that nobody else holds, NULL only when there is no room, and room again *)
(* once it is given back.  No headers, no free list.                       *)
(***************************************************************************)
EXTENDS Integers

CONSTANTS
    Space,      \* the units that can be given away
    Wants,      \* sizes callers ask for, the block's header included
    Slack,      \* the most by which a block may exceed what was asked for
    NULL

VARIABLES
    owned,      \* [at, size] of every block in a caller's hands
    last        \* the last request: what it wanted and what it returned

\* The units of a block.
Region(b) == b.at .. b.at + b.size - 1

Taken == UNION { Region(b) : b \in owned }

Fits(b) == Region(b) \subseteq Space \ Taken

Init == owned = {} /\ last = [want |-> 0, at |-> NULL]

Give(want) ==
    \E at \in Space, size \in want .. want + Slack :
        LET b == [at |-> at, size |-> size] IN
        /\ Fits(b)
        /\ owned' = owned \cup {b}
        /\ last' = [want |-> want, at |-> at]

Refuse(want) ==
    /\ want = 0 \/ \A at \in Space : ~ Fits([at |-> at, size |-> want])
    /\ last' = [want |-> want, at |-> NULL]
    /\ UNCHANGED owned

Malloc(want) == (want > 0 /\ Give(want)) \/ Refuse(want)

Free(b) ==
    /\ owned' = owned \ {b}
    /\ UNCHANGED last

Next ==
    \/ \E want \in Wants : Malloc(want)
    \/ \E b \in owned : Free(b)

Spec == Init /\ [][Next]_<<owned, last>>
=============================================================================
