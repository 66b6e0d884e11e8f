---------------------------- MODULE KernelCalls ----------------------------
(***************************************************************************)
(* What the callers of OSSemPend, OSSemPost, OSMboxPend and OSMboxPost may *)
(* rely on, without ready list, ticks or scheduler: what is given goes     *)
(* either to one waiter, the one of highest priority, or into the object,  *)
(* and to nobody else.                                                     *)
(***************************************************************************)
EXTENDS Integers

CONSTANTS
    Callers,    \* tasks, which are their priorities: 0 is the highest
    Sems, Boxes,
    Msgs,       \* messages
    MaxCount,   \* the most a semaphore counts to
    Initially   \* the count every semaphore is created with

Nothing == "nothing"        \* no message, the mailbox is empty
Timeout == "timeout"        \* the pend returned because its time was over
Signal == "signal"          \* what a semaphore gives

VARIABLES
    count,      \* of every semaphore
    box,        \* what every mailbox holds
    waiting,    \* the callers waiting for an object
    given,      \* what a caller is about to return with
    got         \* the latest return of a pend: to whom, and what

vars == <<count, box, waiting, given, got>>

Init ==
    /\ count = [x \in Sems |-> Initially]
    /\ box = [x \in Boxes |-> Nothing]
    /\ waiting = [x \in Sems \cup Boxes |-> {}]
    /\ given = [t \in Callers |-> Nothing]
    /\ got = <<0, Nothing>>

Out(t) == given[t] = Nothing /\ \A x \in Sems \cup Boxes : t \notin waiting[x]

\* A pend that finds the object available takes from it.
TakeSignal(t, x) ==
    /\ Out(t) /\ count[x] > 0
    /\ count' = [count EXCEPT ![x] = @ - 1]
    /\ got' = <<t, Signal>>
    /\ UNCHANGED <<box, waiting, given>>

TakeMessage(t, x) ==
    /\ Out(t) /\ box[x] # Nothing
    /\ got' = <<t, box[x]>>
    /\ box' = [box EXCEPT ![x] = Nothing]
    /\ UNCHANGED <<count, waiting, given>>

\* One that does not waits.
Wait(t, x) ==
    /\ Out(t)
    /\ IF x \in Sems THEN count[x] = 0 ELSE box[x] = Nothing
    /\ waiting' = [waiting EXCEPT ![x] = @ \cup {t}]
    /\ UNCHANGED <<count, box, given, got>>

Give(t, x, what) ==
    /\ t \in waiting[x]
    /\ \A u \in waiting[x] : t <= u
    /\ waiting' = [waiting EXCEPT ![x] = @ \ {t}]
    /\ given' = [given EXCEPT ![t] = what]
    /\ UNCHANGED <<count, box, got>>

\* A post with no waiter is kept, if there is room.
KeepSignal(x) ==
    /\ waiting[x] = {} /\ count[x] < MaxCount
    /\ count' = [count EXCEPT ![x] = @ + 1]
    /\ UNCHANGED <<box, waiting, given, got>>

KeepMessage(x, m) ==
    /\ waiting[x] = {} /\ box[x] = Nothing
    /\ box' = [box EXCEPT ![x] = m]
    /\ UNCHANGED <<count, waiting, given, got>>

\* A pend returns what it was given, or, if nothing was, that it timed out.
Return(t) ==
    /\ given[t] # Nothing
    /\ got' = <<t, given[t]>>
    /\ given' = [given EXCEPT ![t] = Nothing]
    /\ UNCHANGED <<count, box, waiting>>

GiveUp(t, x) ==
    /\ t \in waiting[x]
    /\ waiting' = [waiting EXCEPT ![x] = @ \ {t}]
    /\ got' = <<t, Timeout>>
    /\ UNCHANGED <<count, box, given>>

Next ==
    \E t \in Callers :
        \/ Return(t)
        \/ \E x \in Sems : TakeSignal(t, x) \/ Give(t, x, Signal) \/ KeepSignal(x)
        \/ \E x \in Boxes :
              \/ TakeMessage(t, x)
              \/ \E m \in Msgs : Give(t, x, m) \/ KeepMessage(x, m)
        \/ \E x \in Sems \cup Boxes : Wait(t, x) \/ GiveUp(t, x)

Spec == Init /\ [][Next]_vars
=============================================================================
