-------------------------------- MODULE Ucos --------------------------------
(***************************************************************************)
(* The services of uC/OS-II (src/src/ucosii/src) the firmware uses:        *)
(* OSSemPend, OSSemPost, OSMboxPend, OSMboxPost, OSTimeDly, OSSchedLock,   *)
(* OSSchedUnlock, OSTaskDel of the caller, and the tick interrupt.         *)
(*                                                                         *)
(* A task is its priority, as in OSTCBPrioTbl; 0 is the highest.  Code     *)
(* between OS_ENTER_CRITICAL and OS_EXIT_CRITICAL is one step, and so is   *)
(* the interrupt handler; between two critical sections of a call the tick *)
(* may come and another task may run.  pc says where a task is.  The       *)
(* bitmaps of the ready list and the wait lists are sets.  The switch      *)
(* itself (PendSV) is part of the step that asks for it.  A call that only *)
(* returns an error code changes nothing and is not a step.                *)
(***************************************************************************)
EXTENDS Integers, FiniteSets

CONSTANTS
    NumTasks,   \* tasks of the application; the idle task has this priority
    Sems, Boxes,
    Msgs,       \* messages, pointers in the code
    MaxCount,   \* 65535, the most a semaphore counts to
    Initially,  \* the count semaphores are created with
    Timeouts,   \* timeouts of pends in ticks; 0 is for ever
    Delays,     \* ticks of OSTimeDly
    MaxLock     \* bound: nesting of OSSchedLock by a task

App == 0 .. NumTasks - 1
Idle == NumTasks
Tasks == App \cup {Idle}
Events == Sems \cup Boxes

Nothing == "nothing"
Timeout == "timeout"
Signal == "signal"
None == "none"

ASSUME UcosAssumption ==
    /\ NumTasks \in Nat \ {0}
    /\ Sems \cap Boxes = {}
    /\ None \notin Events
    /\ Msgs \cap {Nothing, Timeout, Signal} = {}
    /\ MaxCount \in Nat /\ Initially \in 0 .. MaxCount
    /\ Timeouts \subseteq Nat /\ Delays \subseteq Nat \ {0}
    /\ MaxLock \in Nat

VARIABLES
    cur,        \* OSPrioCur
    lock,       \* OSLockNesting
    rdy,        \* OSRdyTbl
    wait,       \* OSEventTbl of every event
    count,      \* OSEventCnt of every semaphore
    box,        \* OSEventPtr of every mailbox
    dly,        \* OSTCBDly
    stat,       \* OSTCBStat: the kind of event the task waits for
    pend,       \* OSTCBStatPend
    msg,        \* OSTCBMsg
    event,      \* OSTCBEventPtr
    pc,         \* where a task is in a call
    got         \* the latest return of a pend: to whom, and what

tcb == <<dly, stat, pend, msg, event>>
objects == <<wait, count, box>>
vars == <<cur, lock, rdy, wait, count, box, dly, stat, pend, msg, event, pc, got>>

Init ==
    /\ cur = 0 /\ lock = 0 /\ rdy = Tasks
    /\ wait = [x \in Events |-> {}]
    /\ count = [x \in Sems |-> Initially]
    /\ box = [x \in Boxes |-> Nothing]
    /\ dly = [t \in Tasks |-> 0]
    /\ stat = [t \in Tasks |-> "rdy"]
    /\ pend = [t \in Tasks |-> "ok"]
    /\ msg = [t \in Tasks |-> Nothing]
    /\ event = [t \in Tasks |-> None]
    /\ pc = [t \in Tasks |-> "run"]
    /\ got = <<0, Nothing>>

-----------------------------------------------------------------------------
(* The scheduler.                                                          *)

IsHighest(t, ready) == t \in ready /\ \A u \in ready : t <= u

\* Bug: a task that became ready is not preferred to the one that runs.
KeepCurrent(ready) ==
    IF lock = 0 /\ cur \notin ready
      THEN \E t \in ready : IsHighest(t, ready) /\ cur' = t
      ELSE cur' = cur

\* OS_SchedNew and the switch, unless the scheduler is locked.
Switch(ready) ==
    IF lock = 0 THEN \E t \in ready : IsHighest(t, ready) /\ cur' = t
                ELSE cur' = cur

\* OS_Sched comes next, and then the task's own code.
ThenSched(t) == [pc EXCEPT ![t] = "sched"]

\* OS_Sched, the last or the middle part of a call.
Sched ==
    /\ pc[cur] \in {"pend", "sched", "dead"}
    /\ pc' = [pc EXCEPT ![cur] = CASE @ = "pend" -> "woken"
                                   [] @ = "sched" -> "run"
                                   [] OTHER -> @]
    /\ Switch(rdy)
    /\ UNCHANGED <<lock, rdy, objects, tcb, got>>

\* The task is in its own code and may make a call.
Calls(t) == t = cur /\ t # Idle /\ pc[t] = "run"

-----------------------------------------------------------------------------
(* Wait lists.                                                             *)

HighestWaiter(t, x) == IsHighest(t, wait[x])

\* Bug: a task that has timed out counts as gone, before it took itself off.
NobodyWaits(x) == \A t \in wait[x] : pend[t] = "to"

\* OSEventGrp == 0
NobodyOn(x) == wait[x] = {}

\* Bug: the task stays on the wait list.
RdyOnly(t, x, m) ==
    /\ dly' = [dly EXCEPT ![t] = 0]
    /\ msg' = [msg EXCEPT ![t] = m]
    /\ stat' = [stat EXCEPT ![t] = "rdy"]
    /\ pend' = [pend EXCEPT ![t] = "ok"]
    /\ rdy' = rdy \cup {t}
    /\ UNCHANGED wait

\* Bug: a task that had timed out is not told that it was given the event.
RdyTimedOut(t, x, m) ==
    /\ dly' = [dly EXCEPT ![t] = 0]
    /\ msg' = [msg EXCEPT ![t] = m]
    /\ stat' = [stat EXCEPT ![t] = "rdy"]
    /\ rdy' = rdy \cup {t}
    /\ wait' = [wait EXCEPT ![x] = @ \ {t}]
    /\ UNCHANGED pend

\* OS_EventTaskRdy: t gets the event, and m with it.
EventTaskRdy(t, x, m) ==
    /\ dly' = [dly EXCEPT ![t] = 0]
    /\ msg' = [msg EXCEPT ![t] = m]
    /\ stat' = [stat EXCEPT ![t] = "rdy"]
    /\ pend' = [pend EXCEPT ![t] = "ok"]
    /\ rdy' = rdy \cup {t}
    /\ wait' = [wait EXCEPT ![x] = @ \ {t}]

\* Of a call of pend that has to wait, up to OS_Sched: OS_EventTaskWait, too.
EventTaskWait(t, x, kind, ticks) ==
    /\ stat' = [stat EXCEPT ![t] = kind]
    /\ pend' = [pend EXCEPT ![t] = "ok"]
    /\ dly' = [dly EXCEPT ![t] = ticks]
    /\ event' = [event EXCEPT ![t] = x]
    /\ wait' = [wait EXCEPT ![x] = @ \cup {t}]
    /\ rdy' = rdy \ {t}
    /\ pc' = [pc EXCEPT ![t] = "pend"]

\* The rest of a pend, when the task runs again: it was given the event, or
\* it is still on the wait list and takes itself off.
PendReturns ==
    /\ pc[cur] = "woken"
    /\ IF pend[cur] = "ok"
         THEN /\ got' = <<cur, IF event[cur] \in Sems THEN Signal ELSE msg[cur]>>
              /\ UNCHANGED wait
         ELSE /\ got' = <<cur, Timeout>>
              /\ wait' = [wait EXCEPT ![event[cur]] = @ \ {cur}]
    /\ stat' = [stat EXCEPT ![cur] = "rdy"]
    /\ pend' = [pend EXCEPT ![cur] = "ok"]
    /\ event' = [event EXCEPT ![cur] = None]
    /\ msg' = [msg EXCEPT ![cur] = Nothing]
    /\ pc' = [pc EXCEPT ![cur] = "run"]
    /\ UNCHANGED <<cur, lock, rdy, count, box, dly>>

-----------------------------------------------------------------------------
(* Semaphores and mailboxes.                                               *)

MayPend(t) == Calls(t) /\ lock = 0

\* Bug: the last value is counted past.
NotYetFull(x) == count[x] <= MaxCount

Counts(x) == count[x] < MaxCount

SemPend(t, x, ticks) ==
    /\ MayPend(t)
    /\ IF count[x] > 0
         THEN /\ count' = [count EXCEPT ![x] = @ - 1]
              /\ got' = <<t, Signal>>
              /\ UNCHANGED <<rdy, wait, tcb, pc>>
         ELSE /\ EventTaskWait(t, x, "sem", ticks)
              /\ UNCHANGED <<count, msg, got>>
    /\ UNCHANGED <<cur, lock, box>>

SemPost(t, x) ==
    /\ Calls(t)
    /\ \/ /\ \E w \in wait[x] : HighestWaiter(w, x) /\ EventTaskRdy(w, x, Nothing)
          /\ pc' = ThenSched(t)
          /\ UNCHANGED <<count, event>>
       \/ /\ NobodyOn(x) /\ Counts(x)
          /\ count' = [count EXCEPT ![x] = @ + 1]
          /\ UNCHANGED <<rdy, wait, tcb, pc>>
    /\ UNCHANGED <<cur, lock, box, got>>

MboxPend(t, x, ticks) ==
    /\ MayPend(t)
    /\ IF box[x] # Nothing
         THEN /\ got' = <<t, box[x]>>
              /\ box' = [box EXCEPT ![x] = Nothing]
              /\ UNCHANGED <<rdy, wait, tcb, pc>>
         ELSE /\ EventTaskWait(t, x, "mbox", ticks)
              /\ UNCHANGED <<box, msg, got>>
    /\ UNCHANGED <<cur, lock, count>>

MboxPost(t, x, m) ==
    /\ Calls(t)
    /\ \/ /\ \E w \in wait[x] : HighestWaiter(w, x) /\ EventTaskRdy(w, x, m)
          /\ pc' = ThenSched(t)
          /\ UNCHANGED <<box, event>>
       \/ /\ NobodyOn(x) /\ box[x] = Nothing
          /\ box' = [box EXCEPT ![x] = m]
          /\ UNCHANGED <<rdy, wait, tcb, pc>>
    /\ UNCHANGED <<cur, lock, count, got>>

-----------------------------------------------------------------------------
(* Time and the scheduler's lock.                                          *)

TimeDly(t, ticks) ==
    /\ MayPend(t)
    /\ rdy' = rdy \ {t}
    /\ dly' = [dly EXCEPT ![t] = ticks]
    /\ pc' = ThenSched(t)
    /\ UNCHANGED <<cur, lock, objects, stat, pend, msg, event, got>>

\* Bug: only a task that sleeps is made ready by the tick.
DueSleeper(t) == dly[t] = 1 /\ stat[t] = "rdy"

\* The delay or the timeout of t ends with this tick.
Due(t) == dly[t] = 1

\* The delay of a task that only sleeps is no timeout.
TickedPend(t) ==
    IF ~ Due(t) THEN pend[t] ELSE IF stat[t] # "rdy" THEN "to" ELSE "ok"

\* SysTick_Handler: OSTimeTick, and OSIntExit, which switches.
Tick ==
    /\ dly' = [t \in Tasks |-> IF dly[t] > 0 THEN dly[t] - 1 ELSE 0]
    /\ pend' = [t \in Tasks |-> TickedPend(t)]
    /\ stat' = [t \in Tasks |-> IF Due(t) THEN "rdy" ELSE stat[t]]
    /\ rdy' = rdy \cup {t \in Tasks : Due(t)}
    /\ Switch(rdy')
    /\ UNCHANGED <<lock, objects, msg, event, pc, got>>

SchedLock(t) ==
    /\ Calls(t)
    /\ lock < MaxLock
    /\ lock' = lock + 1
    /\ UNCHANGED <<cur, rdy, objects, tcb, pc, got>>

SchedUnlock(t) ==
    /\ Calls(t)
    /\ lock > 0
    /\ lock' = lock - 1
    /\ pc' = IF lock = 1 THEN ThenSched(t) ELSE pc
    /\ UNCHANGED <<cur, rdy, objects, tcb, got>>

\* Bug: the scheduler is not locked while the task is taken apart.
DelUnlocked == lock

\* OSLockNesting++, for the rest of OSTaskDel
DelLocked == lock + 1

\* OSTaskDel(OS_PRIO_SELF), which startup_task calls with nothing locked: the
\* task is no longer ready, an interrupt may come ...
TaskDel(t) ==
    /\ MayPend(t)
    /\ rdy' = rdy \ {t}
    /\ lock' = DelLocked
    /\ pc' = [pc EXCEPT ![t] = "deleting"]
    /\ UNCHANGED <<cur, objects, tcb, got>>

\* ... and its TCB goes back to the free list.  OS_Sched follows.
TaskFreed(t) ==
    /\ t = cur /\ pc[t] = "deleting"
    /\ lock' = IF lock > 0 THEN lock - 1 ELSE 0
    /\ pc' = [pc EXCEPT ![t] = "dead"]
    /\ UNCHANGED <<cur, rdy, objects, tcb, got>>

-----------------------------------------------------------------------------
Kernel == Sched \/ PendReturns \/ \E t \in App : TaskFreed(t)

Next ==
    \/ Kernel \/ Tick
    \/ \E t \in App :
          \/ \E x \in Sems : SemPost(t, x) \/ \E n \in Timeouts : SemPend(t, x, n)
          \/ \E x \in Boxes :
                \/ \E m \in Msgs : MboxPost(t, x, m)
                \/ \E n \in Timeouts : MboxPend(t, x, n)
          \/ \E n \in Delays : TimeDly(t, n)
          \/ SchedLock(t) \/ SchedUnlock(t) \/ TaskDel(t)

Spec == Init /\ [][Next]_vars

\* The tick goes on, whoever runs goes on with the call it has begun, and
\* whoever has locked the scheduler unlocks it (delay_us, its only user, spins
\* for a given time in between).
FairSpec ==
    /\ Spec
    /\ WF_vars(Tick) /\ WF_vars(Kernel)
    /\ \A t \in App : SF_vars(SchedUnlock(t))
-----------------------------------------------------------------------------
(* Type invariant.                                                         *)

TypeOK ==
    /\ cur \in Tasks
    /\ lock \in 0 .. MaxLock + 1
    /\ rdy \subseteq Tasks
    /\ wait \in [Events -> SUBSET App]
    /\ count \in [Sems -> 0 .. MaxCount]
    /\ box \in [Boxes -> Msgs \cup {Nothing}]
    /\ dly \in [Tasks -> Nat]
    /\ stat \in [Tasks -> {"rdy", "sem", "mbox"}]
    /\ pend \in [Tasks -> {"ok", "to"}]
    /\ msg \in [Tasks -> Msgs \cup {Nothing}]
    /\ event \in [Tasks -> Events \cup {None}]
    /\ pc \in [Tasks -> {"run", "pend", "woken", "sched", "deleting", "dead"}]
    /\ got \in App \X (Msgs \cup {Nothing, Timeout, Signal})

-----------------------------------------------------------------------------
(* Properties.                                                             *)

\* Outside a call of OS_Sched that is about to be made, and unless it has locked
\* the scheduler, the task that runs is the ready one of highest priority:
\* no post, tick, timeout, delay or unlock leaves a better one waiting.
RunsHighest ==
    lock = 0 /\ pc[cur] \in {"run", "woken"} => IsHighest(cur, rdy)

\* The ready list agrees with the TCBs, and the wait lists with both: a task
\* is ready unless it sleeps, waits or was deleted; one that is on a wait list
\* is in a pend for that event, and waits or has been made ready by its timeout.
ListsAgree ==
    \A t \in Tasks :
        /\ t \in rdy <=> /\ dly[t] = 0 /\ stat[t] = "rdy"
                        /\ pc[t] \notin {"deleting", "dead"}
        /\ \A x \in Events : t \in wait[x] =>
              /\ event[t] = x /\ pc[t] \in {"pend", "woken"}
              /\ stat[t] # "rdy" \/ pend[t] = "to"

\* No lost wake-up: no task is on the wait list of a semaphore that counts or
\* of a mailbox that holds a message, whichever way pends, posts and timeouts
\* overtake each other.
NoLostWakeup ==
    /\ \A x \in Sems : count[x] > 0 => wait[x] = {}
    /\ \A x \in Boxes : box[x] # Nothing => wait[x] = {}

\* Whoever has locked the scheduler is ready and stays the one that runs, and
\* a task that deletes itself is not switched away from before its TCB is
\* freed (nobody would ever switch back to it).
LockHolds ==
    /\ lock > 0 => cur \in rdy \/ pc[cur] = "deleting"
    /\ \A t \in Tasks : pc[t] = "deleting" => t = cur

\* What a task that was given an event will return with.
Given(t) ==
    IF pc[t] \in {"pend", "woken"} /\ t \notin wait[event[t]]
      THEN IF event[t] \in Sems THEN Signal ELSE msg[t]
      ELSE Nothing

\* Seen by its callers, the kernel hands every signal and message to one
\* caller, the one of highest priority that waits; a timeout that is overtaken
\* by a post returns what was posted, and one that is not loses nothing.
Promised == INSTANCE KernelCalls WITH
    Callers <- App,
    given   <- [t \in App |-> Given(t)],
    waiting <- wait

IsKernelCalls == Promised!Spec

\* A delay or a pend with a timeout of the task of highest priority ends.
TimedWaitEnds == dly[0] > 0 ~> pc[0] = "run"
=============================================================================
