------------------------------ MODULE RxChannel ------------------------------
(***************************************************************************)
(* What a caller of recvfrom is promised, socket by socket: the units its  *)
(* peer sends come out whole, once and in the order they were sent, one or *)
(* more per call, and none of another socket's.  No shared pack, no        *)
(* mailbox, no polling.                                                    *)
(***************************************************************************)
EXTENDS Naturals, Sequences

CONSTANTS Socks,    \* the sockets the promise is made for
          Unit(_, _)    \* the k-th unit that arrives on socket i

VARIABLES queue,    \* units that have arrived and were not returned yet
          recv      \* units recvfrom has returned

Init ==
    /\ queue = [i \in Socks |-> <<>>]
    /\ recv = [i \in Socks |-> <<>>]

\* The next unit of the peer arrives.
Arrive(i) ==
    /\ queue' = [queue EXCEPT ![i] = Append(@, Unit(i, Len(recv[i]) + Len(@) + 1))]
    /\ UNCHANGED recv

\* recvfrom returns the n oldest units.
Receive(i, n) ==
    /\ recv' = [recv EXCEPT ![i] = @ \o SubSeq(queue[i], 1, n)]
    /\ queue' = [queue EXCEPT ![i] = SubSeq(@, n + 1, Len(@))]

Next ==
    \E i \in Socks :
        \/ Arrive(i)
        \/ \E n \in 1 .. Len(queue[i]) : Receive(i, n)

Spec == Init /\ [][Next]_<<queue, recv>>
=============================================================================
