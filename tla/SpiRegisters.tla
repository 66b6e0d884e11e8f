---------------------------- MODULE SpiRegisters ----------------------------
(***************************************************************************)
(* What the driver of the W5500 wants its bus to be: registers that are    *)
(* read and written at once, by one task at a time, which keeps them to    *)
(* itself from its first access of a call to its last.                     *)
(***************************************************************************)
CONSTANTS Tasks, Socks, Names, Values,
          Answers(_, _)     \* what a register answers after it was written

VARIABLES
    regs,       \* what was written to the registers of every socket
    seen,       \* what a task has read last
    inside      \* the task that is in a call of the driver

vars == <<regs, seen, inside>>

Enter(t) == inside = {} /\ inside' = {t} /\ UNCHANGED <<regs, seen>>

\* Whoever leaves forgets what it has read, and may leave to one who waits.
Leave(t) ==
    /\ inside = {t}
    /\ inside' = {} \/ \E u \in Tasks : inside' = {u}
    /\ seen' = [seen EXCEPT ![t] = 0]
    /\ UNCHANGED regs

Read(t) ==
    /\ inside = {t}
    /\ \E i \in Socks, r \in Names : \E v \in Answers(r, regs[i][r]) :
             seen' = [seen EXCEPT ![t] = v]
    /\ UNCHANGED <<regs, inside>>

Write(t) ==
    /\ inside = {t}
    /\ \E i \in Socks, r \in Names, v \in Values : regs' = [regs EXCEPT ![i][r] = v]
    /\ UNCHANGED <<seen, inside>>

Next == \E t \in Tasks : Enter(t) \/ Leave(t) \/ Read(t) \/ Write(t)

Init == inside = {}

Spec == Init /\ [][Next]_vars
=============================================================================
