----------------------------- MODULE UcosProofs -----------------------------
(***************************************************************************)
(* Proofs of the invariants of Ucos, for every number of tasks, events and *)
(* messages, and that the kernel implements KernelCalls.                   *)
(***************************************************************************)
EXTENDS Ucos, TLAPS

USE DEF App, Idle, Tasks, Events, Nothing, Timeout, Signal, None

\* What the calls leave behind, beyond the properties: the idle task makes no
\* calls, whoever pends has stored its event, who is being deleted neither
\* waits nor sleeps, whoever pends and is on no wait list has been given the
\* event, and nobody pends while the scheduler is locked.
CallInv ==
    /\ pc[Idle] = "run"
    /\ \A t \in Tasks :
        /\ pc[t] \in {"pend", "woken"} => event[t] \in Events
        /\ pc[t] \in {"deleting", "dead"} => dly[t] = 0 /\ stat[t] = "rdy"
        /\ pc[t] = "deleting" => lock = 1
        /\ \A x \in Events : t \in wait[x] /\ stat[t] = "rdy" => dly[t] = 0
        /\ pc[t] \in {"pend", "woken"} /\ t \notin wait[event[t]] =>
              /\ pend[t] = "ok" /\ stat[t] = "rdy" /\ dly[t] = 0
              /\ event[t] \in Boxes => msg[t] \in Msgs
    /\ lock > 0 => pc[cur] \in {"run", "sched", "deleting"}

IInv == TypeOK /\ RunsHighest /\ ListsAgree /\ NoLostWakeup /\ LockHolds /\ CallInv

\* Every one of the formulas holds in the initial state.
LEMMA InitInv == Init => IInv
<1> USE UcosAssumption
<1> SUFFICES ASSUME Init PROVE IInv
  OBVIOUS
<1>1. TypeOK
  BY DEF Init, TypeOK
<1>2. RunsHighest
  BY DEF Init, RunsHighest, IsHighest
<1>3. ListsAgree
  BY DEF Init, ListsAgree
<1>4. NoLostWakeup /\ LockHolds /\ CallInv
  BY DEF Init, NoLostWakeup, LockHolds, CallInv
<1> QED
  BY <1>1, <1>2, <1>3, <1>4 DEF IInv

\* OS_Sched.
LEMMA SchedInv == IInv /\ Sched => IInv'
<1> USE UcosAssumption
<1> SUFFICES ASSUME IInv, Sched PROVE IInv'
  OBVIOUS
<1> USE DEF IInv
<1>1. TypeOK'
  BY DEF TypeOK, Sched, Switch, IsHighest, objects, tcb
<1>2. RunsHighest'
  BY DEF RunsHighest, Sched, Switch, IsHighest, TypeOK, objects, tcb, CallInv, LockHolds
<1>3. ListsAgree'
  BY DEF ListsAgree, Sched, TypeOK, objects, tcb
<1>4. NoLostWakeup'
  BY DEF NoLostWakeup, Sched, objects, tcb
<1>5. LockHolds' /\ CallInv'
  BY DEF LockHolds, CallInv, Sched, Switch, TypeOK, objects, tcb
<1> QED
  BY <1>1, <1>2, <1>3, <1>4, <1>5

\* The tick interrupt.
LEMMA TickInv == IInv /\ Tick => IInv'
<1> USE UcosAssumption
<1> SUFFICES ASSUME IInv, Tick PROVE IInv'
  OBVIOUS
<1> USE DEF IInv
<1>1. TypeOK'
  <2>0. \A t \in Tasks : (IF dly[t] > 0 THEN dly[t] - 1 ELSE 0) \in Nat
    BY DEF TypeOK
  <2>1. dly' \in [Tasks -> Nat] /\ rdy' \subseteq Tasks
    <3>1. dly' \in [Tasks -> Nat]
      BY <2>0 DEF Tick
    <3>2. rdy' \subseteq Tasks
      BY DEF TypeOK, Tick
    <3> QED
      BY <3>1, <3>2
  <2>2. pend' \in [Tasks -> {"ok", "to"}]
    BY DEF TypeOK, Tick, TickedPend
  <2>3. stat' \in [Tasks -> {"rdy", "sem", "mbox"}]
    BY DEF TypeOK, Tick
  <2>4. cur' \in Tasks
    BY <2>1 DEF TypeOK, Tick, Switch
  <2> QED
    BY <2>1, <2>2, <2>3, <2>4 DEF TypeOK, Tick, objects
<1>2. RunsHighest'
  BY DEF RunsHighest, Tick, Switch, IsHighest, TypeOK, objects
<1>3. ListsAgree'
  BY DEF ListsAgree, CallInv, Tick, TickedPend, Due, TypeOK, objects
<1>4. NoLostWakeup'
  BY DEF NoLostWakeup, Tick, objects
<1>5. LockHolds' /\ CallInv'
  BY DEF LockHolds, CallInv, Tick, TickedPend, Due, Switch, TypeOK, objects
<1> QED
  BY <1>1, <1>2, <1>3, <1>4, <1>5

\* Whoever makes a call is ready, and on no wait list; when it may block, it is
\* the highest.
LEMMA CallerReady ==
  ASSUME IInv, NEW t \in App, Calls(t)
  PROVE  /\ t \in rdy /\ dly[t] = 0 /\ stat[t] = "rdy"
         /\ \A x \in Events : t \notin wait[x]
  BY UcosAssumption
     DEF IInv, Calls, RunsHighest, IsHighest, LockHolds, ListsAgree, TypeOK, CallInv

\* A pend that has to wait.
LEMMA WaitInv ==
  ASSUME IInv, NEW t \in App, NEW x \in Events, NEW kind \in {"sem", "mbox"}, NEW n \in Nat,
         MayPend(t), EventTaskWait(t, x, kind, n),
         x \in Sems => count[x] = 0, x \in Boxes => box[x] = Nothing,
         UNCHANGED <<cur, lock, count, box, msg, got>>
  PROVE  IInv'
<1> USE UcosAssumption
<1> USE DEF IInv
<1>0. lock = 0 /\ t = cur /\ pc[t] = "run" /\ t # Idle
  BY DEF MayPend, Calls
<1>1. TypeOK'
  BY DEF TypeOK, EventTaskWait
<1>2. RunsHighest'
  BY <1>0 DEF RunsHighest, EventTaskWait, TypeOK
<1>3. ListsAgree'
  BY <1>0, CallerReady DEF ListsAgree, EventTaskWait, TypeOK, MayPend
<1>4. NoLostWakeup'
  BY DEF NoLostWakeup, EventTaskWait, TypeOK
<1>5. LockHolds' /\ CallInv'
  BY <1>0, CallerReady DEF LockHolds, CallInv, EventTaskWait, TypeOK, MayPend
<1> QED
  BY <1>1, <1>2, <1>3, <1>4, <1>5

\* A post that finds a waiter.
LEMMA GiveInv ==
  ASSUME IInv, NEW t \in App, NEW x \in Events, NEW w \in wait[x],
         NEW m \in Msgs \cup {Nothing}, x \in Boxes => m \in Msgs,
         Calls(t), EventTaskRdy(w, x, m), pc' = ThenSched(t),
         UNCHANGED <<cur, lock, count, box, event, got>>
  PROVE  IInv'
<1> USE UcosAssumption
<1> USE DEF IInv
<1>0. /\ t = cur /\ pc[t] = "run" /\ t # Idle /\ w \in App /\ w # t
      /\ pc[w] \in {"pend", "woken"} /\ event[w] = x
  BY CallerReady DEF Calls, ListsAgree, TypeOK
<1>1. TypeOK'
  BY <1>0 DEF TypeOK, EventTaskRdy, ThenSched
<1>2. RunsHighest'
  BY <1>0 DEF RunsHighest, EventTaskRdy, ThenSched, TypeOK
<1>3. ListsAgree'
  BY <1>0 DEF ListsAgree, EventTaskRdy, ThenSched, TypeOK
<1>4. NoLostWakeup'
  BY DEF NoLostWakeup, EventTaskRdy, TypeOK
<1>5. LockHolds' /\ CallInv'
  BY <1>0 DEF LockHolds, CallInv, EventTaskRdy, ThenSched, TypeOK
<1> QED
  BY <1>1, <1>2, <1>3, <1>4, <1>5

\* A call that only changes what an event holds.
LEMMA HoldInv ==
  ASSUME IInv, UNCHANGED <<cur, lock, rdy, wait, tcb, pc>>, TypeOK',
         \A x \in Sems : count'[x] > count[x] => wait[x] = {},
         \A x \in Boxes : box'[x] = box[x] \/ wait[x] = {} \/ box'[x] = Nothing
  PROVE  IInv'
<1> USE DEF IInv
<1>1. RunsHighest' /\ LockHolds'
  BY DEF RunsHighest, IsHighest, LockHolds, tcb
<1>2. ListsAgree'
  BY DEF ListsAgree, tcb
<1>3. NoLostWakeup'
  BY DEF NoLostWakeup, TypeOK
<1>4. CallInv'
  BY DEF CallInv, tcb
<1> QED
  BY <1>1, <1>2, <1>3, <1>4

LEMMA SemInv ==
  ASSUME IInv, NEW t \in App, NEW x \in Sems,
         SemPost(t, x) \/ \E n \in Timeouts : SemPend(t, x, n)
  PROVE  IInv'
<1> USE UcosAssumption
<1>1. CASE \E w \in wait[x] : EventTaskRdy(w, x, Nothing) /\ SemPost(t, x)
                                /\ pc' = ThenSched(t) /\ UNCHANGED <<count, event>>
  BY <1>1, GiveInv DEF SemPost
<1>2. CASE /\ SemPost(t, x) /\ NobodyOn(x) /\ count[x] < MaxCount
           /\ count' = [count EXCEPT ![x] = @ + 1]
           /\ UNCHANGED <<rdy, wait, tcb, pc>>
  <2>1. TypeOK'
    BY <1>2 DEF SemPost, IInv, TypeOK, tcb
  <2>2. \A y \in Sems : count'[y] > count[y] => wait[y] = {}
    BY <1>2 DEF NobodyOn, IInv, TypeOK
  <2> QED
    BY <1>2, <2>1, <2>2, HoldInv DEF SemPost
<1>3. ASSUME NEW n \in Timeouts, SemPend(t, x, n)
      PROVE  IInv'
  <2>1. CASE count[x] > 0
    <3>1. TypeOK'
      <4>1. count' \in [Sems -> 0 .. MaxCount]
        BY <1>3, <2>1 DEF SemPend, IInv, TypeOK
      <4>2. got' \in App \X (Msgs \cup {Nothing, Timeout, Signal})
        BY <1>3, <2>1 DEF SemPend
      <4>3. UNCHANGED <<cur, lock, rdy, wait, box, tcb, pc>>
        BY <1>3, <2>1 DEF SemPend
      <4> QED
        BY <4>1, <4>2, <4>3 DEF IInv, TypeOK, tcb
    <3>2. \A y \in Sems : ~ (count'[y] > count[y])
      BY <1>3, <2>1 DEF SemPend, IInv, TypeOK
    <3> QED
      BY <1>3, <2>1, <3>1, <3>2, HoldInv DEF SemPend
  <2>2. CASE ~ (count[x] > 0)
    <3>1. count[x] = 0
      BY <2>2 DEF IInv, TypeOK
    <3> QED
      BY <1>3, <2>2, <3>1, WaitInv DEF SemPend
  <2> QED
    BY <2>1, <2>2
<1> QED
  BY <1>1, <1>2, <1>3 DEF SemPost, Counts

LEMMA MboxInv ==
  ASSUME IInv, NEW t \in App, NEW x \in Boxes,
         \/ \E m \in Msgs : MboxPost(t, x, m)
         \/ \E n \in Timeouts : MboxPend(t, x, n)
  PROVE  IInv'
<1> USE UcosAssumption
<1>1. ASSUME NEW m \in Msgs, MboxPost(t, x, m)
      PROVE  IInv'
  <2>1. CASE \E w \in wait[x] : EventTaskRdy(w, x, m)
                                  /\ pc' = ThenSched(t) /\ UNCHANGED <<box, event>>
    BY <1>1, <2>1, GiveInv DEF MboxPost
  <2>2. CASE /\ NobodyOn(x) /\ box[x] = Nothing
             /\ box' = [box EXCEPT ![x] = m]
             /\ UNCHANGED <<rdy, wait, tcb, pc>>
    <3>1. TypeOK'
      BY <1>1, <2>2 DEF MboxPost, IInv, TypeOK, tcb
    <3>2. \A y \in Boxes : box'[y] = box[y] \/ wait[y] = {}
      BY <2>2 DEF NobodyOn, IInv, TypeOK
    <3>3. UNCHANGED <<cur, lock, count>>
      BY <1>1 DEF MboxPost
    <3>4. \A y \in Sems : ~ (count'[y] > count[y])
      BY <3>3 DEF IInv, TypeOK
    <3> QED
      BY <2>2, <3>1, <3>2, <3>3, <3>4, HoldInv
  <2> QED
    BY <1>1, <2>1, <2>2 DEF MboxPost
<1>2. ASSUME NEW n \in Timeouts, MboxPend(t, x, n)
      PROVE  IInv'
  <2>1. CASE box[x] # Nothing
    <3>1. /\ box' = [box EXCEPT ![x] = Nothing] /\ got' = <<t, box[x]>>
          /\ UNCHANGED <<cur, lock, rdy, wait, count, tcb, pc>>
      BY <1>2, <2>1 DEF MboxPend
    <3>2. box' \in [Boxes -> Msgs \cup {Nothing}] /\ box[x] \in Msgs
      BY <2>1, <3>1 DEF IInv, TypeOK
    <3>3. TypeOK'
      BY <3>1, <3>2 DEF IInv, TypeOK, tcb
    <3>4. \A y \in Boxes : box'[y] = box[y] \/ box'[y] = Nothing
      BY <3>1 DEF IInv, TypeOK
    <3>5. \A y \in Sems : ~ (count'[y] > count[y])
      BY <3>1 DEF IInv, TypeOK
    <3> QED
      BY <3>1, <3>3, <3>4, <3>5, HoldInv
  <2>2. CASE box[x] = Nothing
    BY <1>2, <2>2, WaitInv DEF MboxPend
  <2> QED
    BY <2>1, <2>2
<1> QED
  BY <1>1, <1>2

\* The second half of a pend: the task runs, so it is ready, and if it is still
\* on the wait list that is because it timed out.
LEMMA ReturnInv == IInv /\ PendReturns => IInv'
<1> USE UcosAssumption
<1> SUFFICES ASSUME IInv, PendReturns PROVE IInv'
  OBVIOUS
<1> USE DEF IInv
<1>0. /\ lock = 0 /\ cur \in App /\ pc[cur] = "woken" /\ cur \in rdy
      /\ event[cur] \in Events /\ IsHighest(cur, rdy)
  BY DEF PendReturns, CallInv, TypeOK, RunsHighest, IsHighest
<1>1. \A x \in Events : cur \in wait[x] => pend[cur] = "to" /\ event[cur] = x
  BY <1>0 DEF ListsAgree
<1>2. \A x \in Events : cur \notin wait'[x]
  BY <1>0, <1>1 DEF PendReturns, TypeOK
<1>3. \A x \in Events : wait'[x] \subseteq wait[x]
  BY <1>0 DEF PendReturns, TypeOK
<1>4. TypeOK'
  BY <1>0 DEF TypeOK, PendReturns
<1>5. RunsHighest'
  BY <1>0 DEF RunsHighest, PendReturns, IsHighest
<1>6. ListsAgree'
  BY <1>0, <1>2, <1>3 DEF ListsAgree, PendReturns, TypeOK
<1>7. NoLostWakeup'
  BY <1>3 DEF NoLostWakeup, PendReturns
<1>8. LockHolds' /\ CallInv'
  BY <1>0, <1>2, <1>3 DEF LockHolds, CallInv, PendReturns, TypeOK
<1> QED
  BY <1>4, <1>5, <1>6, <1>7, <1>8

\* Delays, and the deletion of the caller.
LEMMA SleepInv ==
  ASSUME IInv, NEW t \in App, TaskDel(t) \/ \E n \in Delays : TimeDly(t, n)
  PROVE  IInv'
<1> USE UcosAssumption
<1> USE DEF IInv
<1>0. /\ lock = 0 /\ t = cur /\ pc[t] = "run" /\ t # Idle /\ t \in rdy
      /\ dly[t] = 0 /\ stat[t] = "rdy" /\ \A x \in Events : t \notin wait[x]
  BY CallerReady DEF TaskDel, TimeDly, MayPend, Calls
<1>1. TypeOK'
  <2>1. CASE TaskDel(t)
    BY <1>0, <2>1 DEF TypeOK, TaskDel, DelLocked, objects, tcb
  <2>2. ASSUME NEW n \in Delays, TimeDly(t, n) PROVE TypeOK'
    BY <1>0, <2>2 DEF TypeOK, TimeDly, ThenSched, objects
  <2> QED
    BY <2>1, <2>2
<1>2. RunsHighest'
  BY <1>0 DEF RunsHighest, TaskDel, TimeDly, DelLocked, ThenSched, TypeOK
<1>3. ListsAgree'
  BY <1>0 DEF ListsAgree, TaskDel, TimeDly, ThenSched, TypeOK, objects, tcb
<1>4. NoLostWakeup'
  BY DEF NoLostWakeup, TaskDel, TimeDly, objects
<1>5. LockHolds' /\ CallInv'
  <2>1. CASE TaskDel(t)
    BY <1>0, <2>1 DEF LockHolds, CallInv, TaskDel, DelLocked, TypeOK, objects, tcb
  <2>2. ASSUME NEW n \in Delays, TimeDly(t, n) PROVE LockHolds' /\ CallInv'
    BY <1>0, <2>2 DEF LockHolds, CallInv, TimeDly, ThenSched, TypeOK, objects
  <2> QED
    BY <2>1, <2>2
<1> QED
  BY <1>1, <1>2, <1>3, <1>4, <1>5

\* The lock of the scheduler.
LEMMA LockInv ==
  ASSUME IInv, NEW t \in App, SchedLock(t) \/ SchedUnlock(t) \/ TaskFreed(t)
  PROVE  IInv'
<1> USE UcosAssumption
<1> USE DEF IInv
<1>0. Calls(t) \/ (t = cur /\ pc[t] = "deleting" /\ lock = 1)
  BY DEF SchedLock, SchedUnlock, TaskFreed, CallInv
<1>1. TypeOK'
  <2>1. lock' \in 0 .. MaxLock + 1
    <3>1. lock \in 0 .. MaxLock + 1
      BY DEF TypeOK
    <3>2. CASE SchedLock(t)
      BY <3>1, <3>2 DEF SchedLock
    <3>3. CASE SchedUnlock(t)
      BY <3>1, <3>3 DEF SchedUnlock
    <3>4. CASE TaskFreed(t)
      BY <3>1, <3>4 DEF TaskFreed
    <3> QED
      BY <3>2, <3>3, <3>4
  <2>2. pc' \in [Tasks -> {"run", "pend", "woken", "sched", "deleting", "dead"}]
    BY DEF TypeOK, SchedLock, SchedUnlock, TaskFreed, ThenSched
  <2>3. UNCHANGED <<cur, rdy, wait, count, box, dly, stat, pend, msg, event, got>>
    BY DEF SchedLock, SchedUnlock, TaskFreed, objects, tcb
  <2> QED
    BY <2>1, <2>2, <2>3 DEF TypeOK
<1>2. RunsHighest'
  BY <1>0 DEF RunsHighest, SchedLock, SchedUnlock, TaskFreed, ThenSched, TypeOK,
              Calls
<1>3. ListsAgree'
  BY <1>0 DEF ListsAgree, SchedLock, SchedUnlock, TaskFreed, ThenSched, TypeOK,
              Calls, objects, tcb
<1>4. NoLostWakeup'
  BY DEF NoLostWakeup, SchedLock, SchedUnlock, TaskFreed, objects
<1>5. LockHolds' /\ CallInv'
  <2>0. UNCHANGED <<cur, rdy, wait, dly, stat, pend, msg, event>>
    BY DEF SchedLock, SchedUnlock, TaskFreed, objects, tcb
  <2>1. CASE SchedLock(t)
    BY <2>0, <2>1, CallerReady DEF LockHolds, CallInv, SchedLock, Calls, TypeOK
  <2>2. CASE SchedUnlock(t)
    BY <2>0, <2>2, CallerReady
       DEF LockHolds, CallInv, SchedUnlock, ThenSched, Calls, TypeOK
  <2>3. CASE TaskFreed(t)
    BY <2>0, <2>3 DEF LockHolds, CallInv, TaskFreed, TypeOK
  <2> QED
    BY <2>1, <2>2, <2>3
<1> QED
  BY <1>1, <1>2, <1>3, <1>4, <1>5

LEMMA NextInv == IInv /\ [Next]_vars => IInv'
<1> SUFFICES ASSUME IInv, [Next]_vars PROVE IInv'
  OBVIOUS
<1>1. CASE Kernel
  BY <1>1, SchedInv, ReturnInv, LockInv DEF Kernel
<1>2. CASE Tick
  BY <1>2, TickInv
<1>3. ASSUME NEW t \in App, NEW x \in Sems,
             SemPost(t, x) \/ \E n \in Timeouts : SemPend(t, x, n)
      PROVE  IInv'
  BY <1>3, SemInv
<1>4. ASSUME NEW t \in App, NEW x \in Boxes,
             \/ \E m \in Msgs : MboxPost(t, x, m)
             \/ \E n \in Timeouts : MboxPend(t, x, n)
      PROVE  IInv'
  BY <1>4, MboxInv
<1>5. ASSUME NEW t \in App, TaskDel(t) \/ \E n \in Delays : TimeDly(t, n)
      PROVE  IInv'
  BY <1>5, SleepInv
<1>6. ASSUME NEW t \in App, SchedLock(t) \/ SchedUnlock(t)
      PROVE  IInv'
  BY <1>6, LockInv
<1>7. CASE UNCHANGED vars
  BY <1>7 DEF vars, IInv, TypeOK, RunsHighest, IsHighest, ListsAgree, NoLostWakeup,
              LockHolds, CallInv
<1> QED
  BY <1>1, <1>2, <1>3, <1>4, <1>5, <1>6, <1>7 DEF Next

LEMMA Inductive == Spec => []IInv
<1> QED
  BY InitInv, NextInv, PTL DEF Spec

\* The semaphore counts stay between 0 and the most a count can be, the lock
\* nesting within its bound, and every list, TCB and mailbox holds what it may.
THEOREM KernelTypeCorrect == Spec => []TypeOK
  BY Inductive, PTL DEF IInv

\* The scheduler: whoever runs outside OS_Sched is the ready task of highest
\* priority, for any tasks, timeouts and interleaving of ticks.
THEOREM HighestRuns == Spec => []RunsHighest
  BY Inductive, PTL DEF IInv

\* The ready list, the wait lists and the TCBs never disagree.
THEOREM ListsStayTrue == Spec => [](TypeOK /\ ListsAgree)
  BY Inductive, PTL DEF IInv

\* No pend waits for what is there.
THEOREM WakeupsArrive == Spec => []NoLostWakeup
  BY Inductive, PTL DEF IInv

\* Neither a locked scheduler nor a deletion in progress is switched away from.
THEOREM LockIsHeld == Spec => []LockHolds
  BY Inductive, PTL DEF IInv
-----------------------------------------------------------------------------
(* The kernel implements KernelCalls.                                      *)

LEMMA InitCalls == Init => Promised!Init
  BY UcosAssumption
     DEF Init, Promised!Init, Given, Promised!Nothing

\* A step that leaves every task's place in a pend, and what it will return
\* with, as it was.
LEMMA SameGiven ==
  ASSUME UNCHANGED <<wait, event, msg>>,
         \A t \in App : (pc'[t] \in {"pend", "woken"}) = (pc[t] \in {"pend", "woken"})
  PROVE  UNCHANGED [t \in App |-> Given(t)]
  BY DEF Given

\* The scheduler, the tick, delays, the lock and deletions are not seen.
LEMMA UnseenStep ==
  ASSUME IInv,
         \/ Sched \/ Tick
         \/ \E t \in App :
               \/ TaskFreed(t) \/ SchedLock(t) \/ SchedUnlock(t) \/ TaskDel(t)
               \/ \E n \in Delays : TimeDly(t, n)
  PROVE  UNCHANGED Promised!vars
<1>1. UNCHANGED <<wait, count, box, event, msg, got>>
  BY DEF Sched, Tick, TaskFreed, SchedLock, SchedUnlock, TaskDel, TimeDly, objects, tcb
<1>2. \A t \in App : (pc'[t] \in {"pend", "woken"}) = (pc[t] \in {"pend", "woken"})
  BY UcosAssumption
     DEF IInv, TypeOK, Sched, Tick, TaskFreed, SchedLock, SchedUnlock, TaskDel, TimeDly,
         ThenSched, MayPend, Calls
<1> QED
  BY <1>1, <1>2, SameGiven DEF Promised!vars

\* A caller is outside of pends.
LEMMA CallerOut ==
  ASSUME IInv, NEW t \in App, Calls(t)
  PROVE  Given(t) = Nothing /\ \A x \in Events : t \notin wait[x]
  BY CallerReady DEF Given, Calls

\* A pend that waits.
LEMMA WaitStep ==
  ASSUME IInv, NEW t \in App, NEW x \in Events, NEW kind \in {"sem", "mbox"}, NEW n \in Nat,
         MayPend(t), EventTaskWait(t, x, kind, n),
         x \in Sems => count[x] = 0, x \in Boxes => box[x] = Nothing,
         UNCHANGED <<cur, lock, count, box, msg, got>>
  PROVE  Promised!Wait(t, x)
<1>1. Promised!Out(t)
  BY CallerOut DEF Promised!Out, Promised!Nothing, MayPend
<1>2. \A u \in App : Given(u)' = Given(u)
  <2>1. Given(t)' = Nothing /\ Given(t) = Nothing
    BY UcosAssumption, CallerOut DEF Given, EventTaskWait, IInv, TypeOK, MayPend
  <2>2. ASSUME NEW u \in App, u # t PROVE Given(u)' = Given(u)
    BY <2>2 DEF Given, EventTaskWait, IInv, TypeOK, CallInv
  <2> QED
    BY <2>1, <2>2
<1> QED
  BY <1>1, <1>2, UcosAssumption DEF Promised!Wait, Promised!Nothing, EventTaskWait

\* A post that finds a waiter.
LEMMA GiveStep ==
  ASSUME IInv, NEW t \in App, NEW x \in Events, NEW w \in wait[x],
         NEW m \in Msgs \cup {Nothing}, x \in Boxes => m \in Msgs,
         Calls(t), HighestWaiter(w, x), EventTaskRdy(w, x, m), pc' = ThenSched(t),
         UNCHANGED <<cur, lock, count, box, event, got>>
  PROVE  Promised!Give(w, x, IF x \in Sems THEN Signal ELSE m)
<1>0. /\ w \in App /\ w # t /\ pc[w] \in {"pend", "woken"} /\ event[w] = x
      /\ w \notin wait'[x] /\ pc'[w] = pc[w]
  BY CallerOut DEF IInv, TypeOK, ListsAgree, EventTaskRdy, ThenSched
<1>1. Given(w)' = IF x \in Sems THEN Signal ELSE m
  BY <1>0 DEF Given, EventTaskRdy, IInv, TypeOK
<1>2. ASSUME NEW u \in App, u # w PROVE Given(u)' = Given(u)
  BY <1>0, <1>2 DEF Given, EventTaskRdy, ThenSched, Calls, IInv, TypeOK, CallInv
<1>3. [u \in App |-> Given(u)]' =
        [[u \in App |-> Given(u)] EXCEPT ![w] = IF x \in Sems THEN Signal ELSE m]
  BY <1>0, <1>1, <1>2
<1> QED
  BY <1>0, <1>3 DEF Promised!Give, EventTaskRdy, HighestWaiter, IsHighest

LEMMA SemStep ==
  ASSUME IInv, NEW t \in App, NEW x \in Sems,
         SemPost(t, x) \/ \E n \in Timeouts : SemPend(t, x, n)
  PROVE  Promised!Next
<1> USE UcosAssumption
<1>1. CASE \E w \in wait[x] : /\ HighestWaiter(w, x) /\ EventTaskRdy(w, x, Nothing)
                              /\ pc' = ThenSched(t) /\ SemPost(t, x)
                              /\ UNCHANGED <<count, event>>
  <2>1. PICK w \in wait[x] : /\ HighestWaiter(w, x) /\ EventTaskRdy(w, x, Nothing)
                             /\ pc' = ThenSched(t) /\ SemPost(t, x)
                             /\ UNCHANGED <<count, event>>
    BY <1>1
  <2>2. Promised!Give(w, x, Signal) /\ w \in App
    BY <2>1, GiveStep DEF SemPost, IInv, TypeOK
  <2> QED
    BY <2>2 DEF Promised!Next, Promised!Signal
<1>2. CASE /\ SemPost(t, x) /\ NobodyOn(x) /\ count[x] < MaxCount
           /\ count' = [count EXCEPT ![x] = @ + 1]
           /\ UNCHANGED <<rdy, wait, tcb, pc>>
  <2>1. UNCHANGED [u \in App |-> Given(u)]
    BY <1>2, SameGiven DEF tcb
  <2>2. Promised!KeepSignal(x)
    BY <1>2, <2>1 DEF Promised!KeepSignal, SemPost, NobodyOn
  <2> QED
    BY <2>2 DEF Promised!Next
<1>3. ASSUME NEW n \in Timeouts, SemPend(t, x, n)
      PROVE  Promised!Next
  <2>1. CASE count[x] > 0
    <3>1. UNCHANGED [u \in App |-> Given(u)]
      BY <1>3, <2>1, SameGiven DEF SemPend, tcb
    <3>2. Promised!Out(t)
      BY <1>3, CallerOut DEF Promised!Out, Promised!Nothing, SemPend, MayPend
    <3>3. Promised!TakeSignal(t, x)
      BY <1>3, <2>1, <3>1, <3>2 DEF Promised!TakeSignal, Promised!Signal, SemPend
    <3> QED
      BY <3>3 DEF Promised!Next
  <2>2. CASE ~ (count[x] > 0)
    <3>1. count[x] = 0
      BY <2>2 DEF IInv, TypeOK
    <3>2. Promised!Wait(t, x)
      BY <1>3, <2>2, <3>1, WaitStep DEF SemPend
    <3> QED
      BY <3>2 DEF Promised!Next
  <2> QED
    BY <2>1, <2>2
<1> QED
  BY <1>1, <1>2, <1>3 DEF SemPost, Counts

LEMMA MboxStep ==
  ASSUME IInv, NEW t \in App, NEW x \in Boxes,
         \/ \E m \in Msgs : MboxPost(t, x, m)
         \/ \E n \in Timeouts : MboxPend(t, x, n)
  PROVE  Promised!Next
<1> USE UcosAssumption
<1>1. ASSUME NEW m \in Msgs, MboxPost(t, x, m)
      PROVE  Promised!Next
  <2>1. CASE \E w \in wait[x] : /\ HighestWaiter(w, x) /\ EventTaskRdy(w, x, m)
                                /\ pc' = ThenSched(t) /\ UNCHANGED <<box, event>>
    <3>1. PICK w \in wait[x] : /\ HighestWaiter(w, x) /\ EventTaskRdy(w, x, m)
                               /\ pc' = ThenSched(t) /\ UNCHANGED <<box, event>>
      BY <2>1
    <3>2. Promised!Give(w, x, m) /\ w \in App
      BY <1>1, <3>1, GiveStep DEF MboxPost, IInv, TypeOK
    <3> QED
      BY <3>2 DEF Promised!Next
  <2>2. CASE /\ NobodyOn(x) /\ box[x] = Nothing
             /\ box' = [box EXCEPT ![x] = m]
             /\ UNCHANGED <<rdy, wait, tcb, pc>>
    <3>1. UNCHANGED [u \in App |-> Given(u)]
      BY <2>2, SameGiven DEF tcb
    <3>2. Promised!KeepMessage(x, m)
      BY <1>1, <2>2, <3>1 DEF Promised!KeepMessage, Promised!Nothing, MboxPost, NobodyOn
    <3> QED
      BY <3>2 DEF Promised!Next
  <2> QED
    BY <1>1, <2>1, <2>2 DEF MboxPost
<1>2. ASSUME NEW n \in Timeouts, MboxPend(t, x, n)
      PROVE  Promised!Next
  <2>1. CASE box[x] # Nothing
    <3>1. UNCHANGED [u \in App |-> Given(u)]
      BY <1>2, <2>1, SameGiven DEF MboxPend, tcb
    <3>2. Promised!Out(t)
      BY <1>2, CallerOut DEF Promised!Out, Promised!Nothing, MboxPend, MayPend
    <3>3. Promised!TakeMessage(t, x)
      BY <1>2, <2>1, <3>1, <3>2 DEF Promised!TakeMessage, Promised!Nothing, MboxPend
    <3> QED
      BY <3>3 DEF Promised!Next
  <2>2. CASE box[x] = Nothing
    <3>1. Promised!Wait(t, x)
      BY <1>2, <2>2, WaitStep DEF MboxPend
    <3> QED
      BY <3>1 DEF Promised!Next
  <2> QED
    BY <2>1, <2>2
<1> QED
  BY <1>1, <1>2

\* The second half of a pend returns what was given, or gives up.
LEMMA ReturnStep == IInv /\ PendReturns => Promised!Next
<1> USE UcosAssumption
<1> SUFFICES ASSUME IInv, PendReturns PROVE Promised!Next
  OBVIOUS
<1>0. cur \in App /\ pc[cur] = "woken" /\ cur \in rdy /\ event[cur] \in Events
  BY DEF PendReturns, IInv, CallInv, TypeOK, RunsHighest, IsHighest
<1>1. ASSUME NEW u \in App, u = cur PROVE Given(u)' = Nothing
  BY <1>0, <1>1 DEF Given, PendReturns, IInv, TypeOK
<1>2. ASSUME NEW u \in App, u # cur PROVE Given(u)' = Given(u)
  BY <1>0, <1>2 DEF Given, PendReturns, IInv, TypeOK, CallInv
<1>3. [u \in App |-> Given(u)]' = [[u \in App |-> Given(u)] EXCEPT ![cur] = Nothing]
  BY <1>0, <1>1, <1>2
<1>4. CASE pend[cur] = "ok"
  <2>1. cur \notin wait[event[cur]]
    BY <1>0, <1>4 DEF IInv, ListsAgree
  <2>2. /\ Given(cur) = IF event[cur] \in Sems THEN Signal ELSE msg[cur]
        /\ Given(cur) # Nothing
    BY <1>0, <2>1 DEF Given, IInv, CallInv
  <2>3. Promised!Return(cur)
    BY <1>0, <1>3, <1>4, <2>2 DEF Promised!Return, Promised!Nothing, PendReturns
  <2> QED
    BY <1>0, <2>3 DEF Promised!Next
<1>5. CASE pend[cur] # "ok"
  <2>1. cur \in wait[event[cur]]
    BY <1>0, <1>5 DEF IInv, CallInv
  <2>2. Given(cur) = Nothing
    BY <2>1 DEF Given
  <2>3. UNCHANGED [u \in App |-> Given(u)]
    <3>1. ASSUME NEW u \in App PROVE Given(u)' = Given(u)
      BY <1>1, <1>2, <2>2
    <3> QED
      BY <3>1
  <2>4. Promised!GiveUp(cur, event[cur])
    BY <1>5, <2>1, <2>3 DEF Promised!GiveUp, Promised!Timeout, PendReturns
  <2> QED
    BY <1>0, <2>4 DEF Promised!Next
<1> QED
  BY <1>4, <1>5

LEMMA StepCalls == IInv /\ [Next]_vars => [Promised!Next]_(Promised!vars)
<1> SUFFICES ASSUME IInv, [Next]_vars
             PROVE  Promised!Next \/ UNCHANGED Promised!vars
  OBVIOUS
<1>1. CASE Kernel
  BY <1>1, UnseenStep, ReturnStep DEF Kernel
<1>2. CASE Tick
  BY <1>2, UnseenStep
<1>3. ASSUME NEW t \in App, NEW x \in Sems,
             SemPost(t, x) \/ \E n \in Timeouts : SemPend(t, x, n)
      PROVE  Promised!Next
  BY <1>3, SemStep
<1>4. ASSUME NEW t \in App, NEW x \in Boxes,
             \/ \E m \in Msgs : MboxPost(t, x, m)
             \/ \E n \in Timeouts : MboxPend(t, x, n)
      PROVE  Promised!Next
  BY <1>4, MboxStep
<1>5. ASSUME NEW t \in App,
             \/ TaskDel(t) \/ SchedLock(t) \/ SchedUnlock(t)
             \/ \E n \in Delays : TimeDly(t, n)
      PROVE  UNCHANGED Promised!vars
  BY <1>5, UnseenStep
<1>6. CASE UNCHANGED vars
  BY <1>6 DEF vars, Promised!vars, Given
<1> QED
  BY <1>1, <1>2, <1>3, <1>4, <1>5, <1>6 DEF Next

\* To its callers the kernel is KernelCalls: every signal and every message goes
\* to one caller, the highest that waits, whatever ticks and switches happen in
\* between.
THEOREM ImplementsCalls == Spec => IsKernelCalls
  BY InitCalls, Inductive, StepCalls, PTL DEF Spec, IsKernelCalls, Promised!Spec
=============================================================================
