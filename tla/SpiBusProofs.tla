---------------------------- MODULE SpiBusProofs ----------------------------
(***************************************************************************)
(* What holds on the bus to the W5500 for every number of servers, every   *)
(* set of calls, every number of sockets and every size of a ring buffer,  *)
(* proved with TLAPS: the semaphore is held by one call at a time and      *)
(* always comes back; and if all calls took it, or there is one server, as *)
(* on this device, no frame is disturbed but by a call that does not.      *)
(***************************************************************************)
EXTENDS SpiBus, FiniteSetTheorems, SequenceTheorems, TLAPS

-----------------------------------------------------------------------------
(* The inductive invariant.                                                *)

\* The frames that read or write a register.
Access == [dir : {"read", "write"}, reg : Names, val : Values \cup {Moved}]

\* What a call may have still to send: accesses, and perhaps a jump to exit.
Doing == Access \cup {Exit}
Going == {q \in Seq(Doing) : q # <<>> /\ Head(q) \in Access}

\* OPEN and LISTEN with the delay that follows them.
Opening == {<<Wr("CR", c), Delay, Rd("SR")>> : c \in {OPEN, LISTEN}}
Opened == <<Delay, Rd("SR")>>

InFrame == {"pend", "waiting", "select", "address", "data", "deselect"}

\* A task that has not finished a call has frames to send, which begin with an
\* access; a call without the semaphore may have a delay among them.
TodoOf(t) ==
    /\ pc[t] \in {"idle", "post"} => todo[t] = <<>>
    /\ pc[t] = "asleep" => \/ todo[t] = <<>> /\ call[t] = "none"
                           \/ todo[t] = Opened /\ call[t] \in Bare
    /\ pc[t] \in InFrame => \/ todo[t] \in Going
                            \/ call[t] \in Bare /\ todo[t] \in Opening

\* Where a task can be in which call.
CallOf(t) ==
    /\ pc[t] = "idle" => call[t] = "none"
    /\ pc[t] \in {"pend", "waiting", "post"} => call[t] \in Guarded
    /\ pc[t] \in InFrame => call[t] # "none"
    /\ call[t] \in (IF t = Poller THEN {"Read", "none"} ELSE Api \cup {"none"})

\* The wait list of the semaphore.
WaitList == waiting = {t \in Tasks : pc[t] = "waiting"}

Places == \A t \in Tasks : TodoOf(t) /\ CallOf(t)

IInv == TypeOK /\ Places /\ WaitList /\ BusGivenBack

-----------------------------------------------------------------------------
(* The frames.                                                             *)

LEMMA StepsAre ==
  /\ Access \subseteq Step
  /\ Delay \in Step /\ Delay \notin Access
  /\ Exit \in Step /\ Exit \notin Access /\ Exit # Delay
  /\ \A r \in Names : Rd(r) \in Access
  /\ \A r \in Names, v \in Values \cup {Moved} : Wr(r, v) \in Access
BY DEF Access, Step, Delay, Exit, Rd, Wr, Names, Values, Statuses, SOCK_CLOSED

LEMMA DoingIs ==
  /\ Access \subseteq Doing /\ Exit \in Doing /\ Doing \subseteq Step
  /\ Seq(Access) \subseteq Seq(Doing) /\ Seq(Doing) \subseteq Seq(Step)
  /\ Seq(Access) \ {<<>>} \subseteq Going
<1>1. Access \subseteq Doing /\ Exit \in Doing /\ Doing \subseteq Step
  BY StepsAre DEF Doing
<1>2. Seq(Access) \subseteq Seq(Doing) /\ Seq(Doing) \subseteq Seq(Step)
  BY <1>1, SeqMonotonic
<1>3. ASSUME NEW q \in Seq(Access), q # <<>> PROVE q \in Going
  BY <1>2, <1>3, HeadTailProperties DEF Going
<1> QED
  BY <1>1, <1>2, <1>3

LEMMA ValuesAre ==
  /\ Commands \subseteq Values /\ Statuses \subseteq Values
  /\ {Garbled, Datum, Misfit, MR_TCP, MR_UDP, 0, 1} \subseteq Values
  /\ Values \subseteq Int /\ Moved \notin Values
BY SpiAssumption DEF Values, Commands, Statuses, SOCK_CLOSED, SOCK_INIT, SOCK_LISTEN, SOCK_UDP,
  OPEN, LISTEN, CONNECT, DISCON, CLOSE, SEND, RECV, Garbled, Datum, Misfit, MR_TCP, MR_UDP, Moved

\* Short sequences.
LEMMA Tuples ==
  ASSUME NEW S
  PROVE  /\ \A a \in S : <<a>> \in Seq(S) /\ <<a>> # <<>>
         /\ \A a, b \in S : <<a, b>> \in Seq(S) /\ <<a, b>> # <<>>
         /\ \A a, b, c \in S : <<a, b, c>> \in Seq(S) /\ <<a, b, c>> # <<>>
OBVIOUS

LEMMA RunsAre ==
  ASSUME NEW f \in Doing, NEW run \in Runs(f)
  PROVE  run \in Seq(Doing)
BY Tuples, Zenon DEF Runs

\* The accesses the driver makes.
LEMMA AccessesAre ==
  /\ \A r \in Names : Rd(r) \in Access
  /\ \A r \in Names : Wr(r, Datum) \in Access /\ Wr(r, Moved) \in Access
  /\ Wr("MR", MR_TCP) \in Access /\ Wr("MR", MR_UDP) \in Access
  /\ \A c \in Commands : Wr("CR", c) \in Access
BY StepsAre, ValuesAre DEF Names

\* What a call begins with.
LEMMA FramesType ==
  ASSUME NEW c \in Guarded \cup Bare, NEW frames \in Frames(c)
  PROVE  \/ frames \in Going
         \/ c \in Bare /\ frames \in Opening
<1>0. \A f \in Access : <<f>> \in Going
  BY Tuples, DoingIs
<1>1. CASE c \in {"TCP_Open", "UDP_Open", "TCP_Listen"}
  BY <1>1 DEF Frames, Opening, Bare
<1>2. CASE c \in {"Read", "Write", "getSn_SR", "getSn_RX_RSR", "getSn_CR"}
  <2>1. PICK r \in Names : frames = <<Rd(r)>>
    BY <1>2 DEF Frames, Names
  <2>2. Rd(r) \in Access
    BY AccessesAre
  <2> QED
    BY <1>0, <2>1, <2>2, Zenon
<1>3. CASE c \in {"DISCON", "CLOSE", "TCP_Connect"}
  <2>1. PICK d \in Commands : frames = <<Wr("CR", d)>>
    BY <1>3 DEF Frames, Commands
  <2>2. Wr("CR", d) \in Access
    BY AccessesAre
  <2> QED
    BY <1>0, <2>1, <2>2, Zenon
<1>4. CASE c \in {"setSn_IR", "setSn_DIPR", "setSn_DPORTR"}
  <2>1. PICK r \in Names : frames = <<Wr(r, Datum)>>
    BY <1>4 DEF Frames, Names
  <2>2. Wr(r, Datum) \in Access
    BY AccessesAre
  <2> QED
    BY <1>0, <2>1, <2>2, Zenon
<1>5. CASE c \in {"TCP", "UDP"}
  <2>1. PICK f \in {Wr("MR", MR_TCP), Wr("MR", MR_UDP)} : frames = <<f>>
    BY <1>5 DEF Frames
  <2>2. f \in Access
    BY <2>1, AccessesAre
  <2> QED
    BY <1>0, <2>1, <2>2, Zenon
<1>6. CASE c = "Init"
  <2>1. frames = <<Wr("MSSR", Datum), Wr("PORT", Datum)>>
    BY <1>6 DEF Frames
  <2>2. Wr("MSSR", Datum) \in Access /\ Wr("PORT", Datum) \in Access
    BY AccessesAre DEF Names
  <2>3. frames \in Seq(Access) /\ frames # <<>>
    BY <2>1, <2>2, Tuples, Zenon
  <2> QED
    BY <2>3, DoingIs
<1> QED
  BY <1>1, <1>2, <1>3, <1>4, <1>5, <1>6 DEF Guarded, Bare

\* What a call may go on with.
LEMMA ParcelsAre ==
  /\ Done \in Seq(Doing) /\ Done \o <<Exit>> \in Seq(Doing)
  /\ {<<>>, <<Exit>>, <<Wr("CR", CLOSE)>>, <<Rd("RX_RD"), Rd("MR")>>} \subseteq Seq(Doing)
  /\ Runs(Rd("RX")) \subseteq Seq(Doing)
  /\ Stream \subseteq Seq(Doing)
  /\ \A end \in Seq(Doing) : Payload(end) \subseteq Seq(Doing)
  /\ Output \subseteq Seq(Doing)
  /\ {Addressed \o out : out \in Output} \subseteq Seq(Doing)
<1>1. /\ Exit \in Doing
      /\ \A r \in Names : Rd(r) \in Doing /\ Wr(r, Datum) \in Doing /\ Wr(r, Moved) \in Doing
      /\ \A c \in Commands : Wr("CR", c) \in Doing
  BY AccessesAre, DoingIs
<1>2. /\ {"RX_RD", "MR", "DIPR", "DPORTR", "RX", "TX_WR", "TX", "CR"} \subseteq Names
      /\ {CLOSE, SEND, RECV} \subseteq Commands
  BY DEF Names, Commands
<1>3. /\ <<>> \in Seq(Doing) /\ <<Exit>> \in Seq(Doing) /\ <<Rd("RX")>> \in Seq(Doing)
      /\ <<Wr("CR", CLOSE)>> \in Seq(Doing) /\ <<Rd("TX_WR")>> \in Seq(Doing)
  BY <1>1, <1>2, EmptySeq, Tuples, Zenon
<1>4. /\ <<Rd("RX_RD"), Rd("MR")>> \in Seq(Doing) /\ <<Rd("DIPR"), Rd("DPORTR")>> \in Seq(Doing)
      /\ <<Wr("TX_WR", Moved), Wr("CR", SEND)>> \in Seq(Doing)
  BY <1>1, <1>2, Tuples, Zenon
<1>5. Done \in Seq(Doing) /\ Addressed \in Seq(Doing)
  BY <1>1, <1>2, Tuples, Zenon DEF Done, Addressed
<1>6. \A a, b \in Seq(Doing) : a \o b \in Seq(Doing)
  BY ConcatProperties
<1>7. Runs(Rd("RX")) \subseteq Seq(Doing) /\ Runs(Wr("TX", Datum)) \subseteq Seq(Doing)
  BY <1>1, <1>2, RunsAre
<1>8. Stream \subseteq Seq(Doing)
  BY <1>4, <1>5, <1>6, <1>7, Zenon DEF Stream
<1>9. Output \subseteq Seq(Doing)
  BY <1>3, <1>4, <1>6, <1>7, Zenon DEF Output
<1>10. {Addressed \o out : out \in Output} \subseteq Seq(Doing)
  BY <1>5, <1>6, <1>9, Zenon
<1>11. \A end \in Seq(Doing) : Payload(end) \subseteq Seq(Doing)
  BY <1>3, <1>6, Zenon DEF Payload
<1>12. Done \o <<Exit>> \in Seq(Doing)
  BY <1>3, <1>5, <1>6
<1> QED
  BY <1>3, <1>4, <1>5, <1>7, <1>8, <1>9, <1>10, <1>11, <1>12

\* The frame a task is in is an access; what follows is accesses too, perhaps
\* with a jump to exit, except in the calls without the semaphore.
LEMMA PresentFrame ==
  ASSUME Places, NEW t \in Tasks, pc[t] \in InFrame
  PROVE  /\ todo[t] # <<>> /\ Head(todo[t]) \in Access
         /\ todo[t][1] = Head(todo[t])
         /\ \/ Tail(todo[t]) \in Seq(Doing)
            \/ call[t] \in Bare /\ Tail(todo[t]) = Opened
<1>1. \/ todo[t] \in Going
      \/ call[t] \in Bare /\ todo[t] \in Opening
  BY DEF Places, TodoOf
<1>2. CASE todo[t] \in Going
  <2> DEFINE q == todo[t]
  <2>1. q \in Seq(Doing) /\ q # <<>> /\ Head(q) \in Access
    BY <1>2 DEF Going
  <2> HIDE DEF q
  <2>2. Tail(q) \in Seq(Doing) /\ q[1] = Head(q)
    BY <2>1, HeadTailProperties
  <2> QED
    BY <2>1, <2>2 DEF q
<1>3. CASE call[t] \in Bare /\ todo[t] \in Opening
  <2>1. PICK c \in {OPEN, LISTEN} : todo[t] = <<Wr("CR", c), Delay, Rd("SR")>>
    BY <1>3 DEF Opening
  <2>2. Head(todo[t]) = Wr("CR", c) /\ Tail(todo[t]) = Opened /\ todo[t] # <<>>
        /\ todo[t][1] = Wr("CR", c)
    BY <2>1 DEF Opened
  <2>3. Wr("CR", c) \in Access
    BY StepsAre, ValuesAre DEF Names, Commands
  <2> QED
    BY <1>3, <2>2, <2>3
<1> QED
  BY <1>1, <1>2, <1>3

LEMMA DecideIs ==
  ASSUME NEW t, NEW v, NEW same, NEW different, NEW x \in Decide(t, v, same, different)
  PROVE  x \in same \/ x \in different
BY DEF Decide

\* What a task may send after the present frame.
LEMMA FollowType ==
  ASSUME Places, NEW t \in Tasks, pc[t] = "deselect", NEW frames \in Follow(t)
  PROVE  \/ frames \in Seq(Doing)
         \/ call[t] \in Bare /\ frames = Opened
<1> DEFINE f == Head(todo[t])
           AtSize == call[t] = "Read" /\ f = Rd("RX_RSR")
           AtMode == call[t] = "Read" /\ f = Rd("MR")
           AtHeader == call[t] = "Read" /\ todo[t] = <<Rd("RX")>>
           AtTarget == call[t] = "Write" /\ f = Rd("MR")
           AtStatus == call[t] \in DOMAIN Status /\ f = Rd("SR")
           Sized == Decide(t, 0, {<<Exit>>}, {<<Rd("RX_RD"), Rd("MR")>>})
           Chosen == Decide(t, MR_UDP, Runs(Rd("RX")), Stream)
           Checked == Decide(t, Misfit, Payload(Done \o <<Exit>>), Payload(Done))
           Aimed == Decide(t, MR_UDP, {Addressed \o out : out \in Output}, Output)
           Judged == Decide(t, Status[call[t]], {<<>>}, {<<Wr("CR", CLOSE)>>})
<1>1. \/ Tail(todo[t]) \in Seq(Doing)
      \/ call[t] \in Bare /\ Tail(todo[t]) = Opened
  BY PresentFrame DEF InFrame
<1>2. /\ Sized \subseteq Seq(Doing) /\ Chosen \subseteq Seq(Doing) /\ Checked \subseteq Seq(Doing)
      /\ Aimed \subseteq Seq(Doing) /\ Judged \subseteq Seq(Doing)
  <2>1. Sized \subseteq {<<Exit>>} \cup {<<Rd("RX_RD"), Rd("MR")>>}
    BY DecideIs, Zenon
  <2>2. Chosen \subseteq Runs(Rd("RX")) \cup Stream
    BY DecideIs, Zenon
  <2>3. Checked \subseteq Payload(Done \o <<Exit>>) \cup Payload(Done)
    BY DecideIs, Zenon
  <2>4. Aimed \subseteq {Addressed \o out : out \in Output} \cup Output
    BY DecideIs, Zenon
  <2>5. Judged \subseteq {<<>>} \cup {<<Wr("CR", CLOSE)>>}
    BY DecideIs, Zenon
  <2>6. /\ <<Exit>> \in Seq(Doing) /\ <<Rd("RX_RD"), Rd("MR")>> \in Seq(Doing)
        /\ <<>> \in Seq(Doing) /\ <<Wr("CR", CLOSE)>> \in Seq(Doing)
    BY ParcelsAre, Zenon
  <2>7. Payload(Done \o <<Exit>>) \subseteq Seq(Doing) /\ Payload(Done) \subseteq Seq(Doing)
    BY ParcelsAre, Zenon
  <2> HIDE DEF Sized, Chosen, Checked, Aimed, Judged
  <2> QED
    BY <2>1, <2>2, <2>3, <2>4, <2>5, <2>6, <2>7, ParcelsAre, Zenon
<1>3. Follow(t) = CASE AtSize -> Sized [] AtMode -> Chosen [] AtHeader -> Checked
                    [] AtTarget -> Aimed [] AtStatus -> Judged [] OTHER -> {Tail(todo[t])}
  BY Zenon DEF Follow
<1> HIDE DEF Sized, Chosen, Checked, Aimed, Judged, AtSize, AtMode, AtHeader, AtTarget, AtStatus
<1>4. frames \in Sized \cup Chosen \cup Checked \cup Aimed \cup Judged \cup {Tail(todo[t])}
  BY <1>3
<1> QED
  BY <1>1, <1>2, <1>4, Zenon

\* Where a task goes after its frame.
LEMMA OnwardIs ==
  ASSUME Places, NEW t \in Tasks, pc[t] = "deselect", NEW frames \in Follow(t)
  PROVE  /\ Onward(t, frames) \in {"idle", "post", "asleep", "select"}
         /\ Onward(t, frames) = "idle" => Leaving(frames) /\ call[t] \notin Guarded
         /\ Onward(t, frames) = "post" => Leaving(frames) /\ call[t] \in Guarded
         /\ Onward(t, frames) = "asleep"
               => ~ Leaving(frames) /\ frames = Opened /\ call[t] \in Bare
         /\ Onward(t, frames) = "select" => ~ Leaving(frames) /\ frames \in Going
<1>1. CASE frames \in Seq(Doing) /\ ~ Leaving(frames)
  <2>1. frames # <<>> /\ Head(frames) # Exit
    BY <1>1 DEF Leaving
  <2>2. Head(frames) \in Access
    BY <1>1, <2>1, HeadTailProperties DEF Doing
  <2>3. Head(frames) # Delay /\ frames \in Going
    BY <1>1, <2>1, <2>2, StepsAre DEF Going
  <2> QED
    BY <1>1, <2>3 DEF Onward
<1>2. CASE Leaving(frames)
  BY <1>2 DEF Onward
<1>3. CASE call[t] \in Bare /\ frames = Opened
  <2>1. frames # <<>> /\ Head(frames) = Delay
    BY <1>3 DEF Opened
  <2>2. ~ Leaving(frames)
    BY <2>1, StepsAre DEF Leaving
  <2> QED
    BY <1>3, <2>1, <2>2 DEF Onward
<1> QED
  BY <1>1, <1>2, <1>3, FollowType

-----------------------------------------------------------------------------
(* Type correctness.                                                       *)

\* The next offset is one.
LEMMA SentType ==
  ASSUME TypeOK, Places, NEW t \in Tasks, pc[t] \in InFrame
  PROVE  Sent(t) \in Values
<1> DEFINE v == Head(todo[t]).val
<1>1. v \in Values \cup {Moved}
  BY PresentFrame DEF Access
<1>2. ptr[t] \in Values
  BY DEF TypeOK
<1>3. CASE ptr[t] # Garbled
  <2>1. ptr[t] \in Nat
    BY <1>2, <1>3, SpiAssumption DEF Values, Commands, Statuses, SOCK_CLOSED, SOCK_INIT,
      SOCK_LISTEN, SOCK_UDP, OPEN, LISTEN, CONNECT, DISCON, CLOSE, SEND, RECV, Datum, Misfit,
      MR_TCP, MR_UDP
  <2>2. (ptr[t] + 1) % Pointers \in 0 .. Pointers - 1
    BY <2>1, SpiAssumption
  <2> QED
    BY <1>1, <1>3, <2>2 DEF Sent, Values
<1>4. CASE ptr[t] = Garbled
  BY <1>1, <1>4, ValuesAre DEF Sent
<1> QED
  BY <1>3, <1>4

LEMMA AnswersType ==
  ASSUME NEW r \in Names, NEW v \in Values
  PROVE  Answers(r, v) \subseteq Values
BY ValuesAre DEF Answers

LEMMA GarbleType == TypeOK => Garble \in [Socks -> [Names -> Values]]
BY ValuesAre DEF Garble, TypeOK

LEMMA InitHolds == Init => IInv
<1> SUFFICES ASSUME Init PROVE IInv
  OBVIOUS
<1>1. TypeOK
  <2>1. regs \in [Socks -> [Names -> Values]]
    BY ValuesAre DEF Init
  <2>2. polled \in 0 .. Cardinality(Socks)
    BY SpiAssumption, FS_CardinalityType DEF Init
  <2>3. todo \in [Tasks -> Seq(Step)]
    BY EmptySeq DEF Init
  <2> QED
    BY <2>1, <2>2, <2>3, ValuesAre DEF Init, TypeOK
<1>2. Places /\ WaitList /\ BusGivenBack
  BY DEF Init, Places, TodoOf, CallOf, WaitList, BusGivenBack, Inside, InFrame
<1> QED
  BY <1>1, <1>2 DEF IInv

\* Every step of the tasks preserves the type invariant.
LEMMA TypeStep == IInv /\ [Next]_vars => TypeOK'
<1> SUFFICES ASSUME IInv, [Next]_vars PROVE TypeOK'
  OBVIOUS
<1>0. TypeOK /\ Places /\ BusGivenBack /\ WaitList
  BY DEF IInv
<1> DEFINE PCs == {"idle", "pend", "waiting", "select", "address", "data",
                   "deselect", "post", "asleep"}
<1>a. \A t \in Tasks, to \in PCs : \A from : Steps(t, from, to) => pc' \in [Tasks -> PCs]
  BY <1>0 DEF Steps, TypeOK
<1>1. ASSUME NEW t \in Tasks, NEW c \in Guarded \cup Bare, NEW i \in Socks, Begin(t, c, i)
      PROVE  TypeOK'
  <2>1. pc' \in [Tasks -> PCs]
    BY <1>0, <1>1 DEF Begin, Steps, FirstStep, TypeOK
  <2>2. PICK frames \in Frames(c) : todo' = [todo EXCEPT ![t] = frames]
    BY <1>1 DEF Begin
  <2>3. frames \in Seq(Step)
    <3>1. CASE frames \in Going
      BY <3>1, DoingIs DEF Going
    <3>2. CASE frames \in Opening
      <4>1. PICK d \in {OPEN, LISTEN} : frames = <<Wr("CR", d), Delay, Rd("SR")>>
        BY <3>2 DEF Opening
      <4>2. Wr("CR", d) \in Step /\ Delay \in Step /\ Rd("SR") \in Step
        BY StepsAre, AccessesAre DEF Commands, Names
      <4> QED
        BY <4>1, <4>2, Tuples, Zenon
    <3> QED
      BY <3>1, <3>2, FramesType
  <2>4. todo' \in [Tasks -> Seq(Step)]
    BY <1>0, <2>2, <2>3 DEF TypeOK
  <2>5. polled' \in 0 .. Cardinality(Socks)
    BY <1>0, <1>1, SpiAssumption, FS_CardinalityType DEF Begin, TypeOK
  <2>6. /\ call' \in [Tasks -> Guarded \cup Bare \cup {"none"}] /\ sock' \in [Tasks -> Socks]
        /\ UNCHANGED <<regs, scs, heard, count, waiting, seen, ptr>>
    BY <1>0, <1>1 DEF Begin, chip, sem, TypeOK
  <2> QED
    BY <1>0, <2>1, <2>4, <2>5, <2>6 DEF TypeOK
<1>2. CASE Sleep
  <2>1. pc' \in [Tasks -> PCs]
    BY <1>0, <1>2 DEF Sleep, Steps, TypeOK
  <2>2. polled' \in 0 .. Cardinality(Socks)
    BY <1>2, SpiAssumption, FS_CardinalityType DEF Sleep
  <2>3. UNCHANGED <<regs, scs, heard, count, waiting, todo, call, sock, seen, ptr>>
    BY <1>2 DEF Sleep, chip, sem, local
  <2> QED
    BY <1>0, <2>1, <2>2, <2>3 DEF TypeOK
<1>3. ASSUME NEW t \in Tasks, Wake(t) PROVE TypeOK'
  <2>1. todo' \in [Tasks -> Seq(Step)]
    <3>1. todo[t] \in Seq(Step)
      BY <1>0 DEF TypeOK
    <3>2. todo[t] # <<>> => Tail(todo[t]) \in Seq(Step)
      BY <3>1, HeadTailProperties
    <3> QED
      BY <1>0, <1>3, <3>2 DEF Wake, TypeOK
  <2>2. pc' \in [Tasks -> PCs]
    BY <1>0, <1>3 DEF Wake, TypeOK
  <2>3. UNCHANGED <<regs, scs, heard, count, waiting, call, sock, seen, ptr, polled>>
    BY <1>3 DEF Wake, chip, sem, local
  <2> QED
    BY <1>0, <2>1, <2>2, <2>3 DEF TypeOK
<1>4. ASSUME NEW t \in Tasks, Pend(t), UNCHANGED <<chip, todo, local, polled>> PROVE TypeOK'
  <2>1. pc' \in [Tasks -> PCs]
    BY <1>0, <1>4 DEF Pend, Steps, TypeOK
  <2>2. count' \in {0, 1} /\ waiting' \subseteq Tasks
    BY <1>0, <1>4 DEF Pend, sem, TypeOK
  <2>3. UNCHANGED <<regs, scs, heard, todo, call, sock, seen, ptr, polled>>
    BY <1>4 DEF chip, local
  <2> QED
    BY <1>0, <2>1, <2>2, <2>3 DEF TypeOK
<1>5. ASSUME NEW t \in Tasks, Post(t), UNCHANGED <<chip, todo, sock, polled>> PROVE TypeOK'
  <2>1. pc[t] = "post" /\ Inside(t)
    BY <1>0, <1>5 DEF Post, Steps, Inside, Places, CallOf
  <2>2. count = 0
    BY <1>0, <2>1 DEF BusGivenBack, TypeOK
  <2>3. pc' \in [Tasks -> PCs] /\ count' \in {0, 1} /\ waiting' \subseteq Tasks
    <3>1. CASE waiting = {}
      <4>1. Steps(t, "post", "idle") /\ count' = count + 1 /\ waiting' = waiting
        BY <1>5, <3>1 DEF Post
      <4> QED
        BY <1>0, <1>a, <2>2, <4>1 DEF TypeOK
    <3>2. CASE waiting # {}
      <4>1. PICK w \in waiting : /\ pc' = [pc EXCEPT ![t] = "idle", ![w] = "select"]
                                 /\ waiting' = waiting \ {w} /\ count' = count
        BY <1>5, <3>2 DEF Post
      <4>2. pc \in [Tasks -> PCs] /\ waiting \subseteq Tasks /\ count \in {0, 1}
        BY <1>0 DEF TypeOK
      <4> QED
        BY <4>1, <4>2
    <3> QED
      BY <3>1, <3>2
  <2>4. /\ call' \in [Tasks -> Guarded \cup Bare \cup {"none"}]
        /\ seen' \in [Tasks -> Values] /\ ptr' \in [Tasks -> Values]
    BY <1>0, <1>5, ValuesAre DEF Post, Returns, TypeOK
  <2> QED
    BY <1>0, <1>5, <2>3, <2>4 DEF chip, TypeOK
<1>6. ASSUME NEW t \in Tasks, Select(t), UNCHANGED <<sem, todo, local, polled>> PROVE TypeOK'
  BY <1>0, <1>6 DEF Select, Steps, sem, local, TypeOK
<1>7. ASSUME NEW t \in Tasks, Address(t), UNCHANGED <<sem, todo, local, polled>> PROVE TypeOK'
  <2>1. regs' \in [Socks -> [Names -> Values]]
    BY <1>0, <1>7, GarbleType DEF Address, TypeOK
  <2> QED
    BY <1>0, <1>7, <2>1 DEF Address, Steps, sem, local, TypeOK
<1>8. ASSUME NEW t \in Tasks, Data(t), UNCHANGED <<sem, todo, call, sock, ptr, polled>>
      PROVE  TypeOK'
  <2>1. pc[t] \in InFrame
    BY <1>8 DEF Data, Steps, InFrame
  <2>2. Head(todo[t]).reg \in Names /\ sock[t] \in Socks
    BY <1>0, <2>1, PresentFrame DEF Access, TypeOK
  <2> DEFINE r == Head(todo[t]).reg
             i == sock[t]
  <2>3. regs[i][r] \in Values /\ Sent(t) \in Values
    BY <1>0, <2>1, <2>2, SentType DEF TypeOK
  <2>4. regs' \in {regs, Garble, [regs EXCEPT ![i][r] = Sent(t)]}
    BY <1>8 DEF Data
  <2>5. [regs EXCEPT ![i][r] = Sent(t)] \in [Socks -> [Names -> Values]]
    BY <1>0, <2>2, <2>3 DEF TypeOK
  <2>6. regs' \in [Socks -> [Names -> Values]]
    BY <1>0, <2>4, <2>5, GarbleType DEF TypeOK
  <2>7. Answers(r, regs[i][r]) \subseteq Values
    BY <2>2, <2>3, AnswersType
  <2>8. seen' = seen \/ \E v \in Values : seen' = [seen EXCEPT ![t] = v]
    BY <1>8, <2>7, ValuesAre DEF Data
  <2>9. seen' \in [Tasks -> Values]
    BY <1>0, <2>8 DEF TypeOK
  <2> QED
    BY <1>0, <1>8, <2>6, <2>9 DEF Data, Steps, sem, TypeOK
<1>9. ASSUME NEW t \in Tasks, Deselect(t), UNCHANGED <<sem, polled>> PROVE TypeOK'
  <2>1. pc[t] = "deselect"
    BY <1>9 DEF Deselect
  <2>2. PICK frames \in Follow(t) :
          /\ Steps(t, "deselect", Onward(t, frames))
          /\ todo' = [todo EXCEPT ![t] = IF Leaving(frames) THEN <<>> ELSE frames]
          /\ IF Onward(t, frames) = "idle" THEN Returns(t) ELSE
                /\ ptr' = IF Head(todo[t]) \in {Rd("RX_RD"), Rd("TX_WR")}
                            THEN [ptr EXCEPT ![t] = seen[t]] ELSE ptr
                /\ UNCHANGED <<call, seen>>
    BY <1>9 DEF Deselect
  <2>3. pc' \in [Tasks -> PCs]
    BY <1>0, <1>a, <2>1, <2>2, OnwardIs
  <2>4. frames \in Seq(Step)
    <3>1. CASE frames \in Seq(Doing)
      BY <3>1, DoingIs
    <3>2. CASE frames = Opened
      <4>1. Delay \in Step /\ Rd("SR") \in Step
        BY StepsAre, AccessesAre DEF Names
      <4> QED
        BY <3>2, <4>1, Tuples, Zenon DEF Opened
    <3> QED
      BY <1>0, <2>1, <3>1, <3>2, FollowType
  <2>5. todo' \in [Tasks -> Seq(Step)]
    BY <1>0, <2>2, <2>4, EmptySeq DEF TypeOK
  <2>6. /\ call' \in [Tasks -> Guarded \cup Bare \cup {"none"}]
        /\ seen' \in [Tasks -> Values] /\ ptr' \in [Tasks -> Values]
    <3>1. CASE Returns(t)
      BY <1>0, <3>1, ValuesAre DEF Returns, TypeOK
    <3>2. CASE ~ Returns(t)
      BY <1>0, <2>2, <3>2 DEF TypeOK
    <3> QED
      BY <3>1, <3>2
  <2> QED
    BY <1>0, <1>9, <2>3, <2>5, <2>6 DEF Deselect, sem, TypeOK
<1>10. CASE UNCHANGED vars
  BY <1>0, <1>10 DEF vars, chip, sem, local, TypeOK
<1>11. Api \cup {"Read"} \subseteq Guarded \cup Bare /\ Poller \in Tasks
  BY SpiAssumption DEF Guarded, Poller, Tasks
<1> QED
  BY <1>1, <1>2, <1>3, <1>4, <1>5, <1>6, <1>7, <1>8, <1>9, <1>10, <1>11 DEF Next, Frame

-----------------------------------------------------------------------------
(* Where the tasks are.                                                    *)

\* A step of a task leaves the others where they are.
LEMMA OneMoves ==
  ASSUME Places, NEW t \in Tasks, TodoOf(t)', CallOf(t)',
         \A u \in Tasks \ {t} : pc'[u] = pc[u] /\ todo'[u] = todo[u] /\ call'[u] = call[u]
  PROVE  Places'
BY DEF Places, TodoOf, CallOf

\* A step from one place in a frame to another one in it.
LEMMA StaysInFrame ==
  ASSUME TypeOK, Places, NEW t \in Tasks, pc[t] \in InFrame, NEW to \in InFrame,
         to \in {"pend", "waiting"} => call[t] \in Guarded,
         pc' = [pc EXCEPT ![t] = to], todo' = todo, call' = call
  PROVE  Places'
<1>1. pc'[t] = to /\ \A u \in Tasks \ {t} : pc'[u] = pc[u]
  BY DEF TypeOK
<1>2. to \notin {"idle", "post", "asleep"}
  BY DEF InFrame
<1>3. TodoOf(t)'
  BY <1>1, <1>2 DEF Places, TodoOf
<1>4. CallOf(t)'
  BY <1>1, <1>2 DEF Places, CallOf
<1> QED
  BY <1>1, <1>3, <1>4, OneMoves

LEMMA PlacesStep == IInv /\ [Next]_vars => Places'
<1> SUFFICES ASSUME IInv, [Next]_vars PROVE Places'
  OBVIOUS
<1>0. TypeOK /\ Places /\ WaitList
  BY DEF IInv
<1>1. ASSUME NEW t \in Tasks, NEW c \in Guarded \cup Bare, NEW i \in Socks, Begin(t, c, i),
             c \in (IF t = Poller THEN {"Read", "none"} ELSE Api \cup {"none"})
      PROVE  Places'
  <2>1. PICK frames \in Frames(c) : todo' = [todo EXCEPT ![t] = frames]
    BY <1>1 DEF Begin
  <2>2. /\ pc'[t] = FirstStep(c) /\ todo'[t] = frames /\ call'[t] = c
        /\ \A u \in Tasks \ {t} : pc'[u] = pc[u] /\ todo'[u] = todo[u] /\ call'[u] = call[u]
    BY <1>0, <1>1, <2>1 DEF Begin, Steps, TypeOK
  <2>3. FirstStep(c) \in {"pend", "select"} /\ (FirstStep(c) = "pend" => c \in Guarded)
    BY DEF FirstStep
  <2>4. \/ frames \in Going
        \/ c \in Bare /\ frames \in Opening
    BY FramesType
  <2>5. TodoOf(t)'
    BY <2>2, <2>3, <2>4 DEF TodoOf
  <2>6. CallOf(t)'
    BY <1>1, <2>2, <2>3 DEF CallOf, Guarded, Bare
  <2> QED
    BY <1>0, <2>2, <2>5, <2>6, OneMoves
<1>2. CASE Sleep
  <2>1. Poller \in Tasks
    BY SpiAssumption DEF Poller, Tasks
  <2>2. /\ pc[Poller] = "idle" /\ pc'[Poller] = "asleep" /\ todo' = todo /\ call' = call
        /\ \A u \in Tasks \ {Poller} : pc'[u] = pc[u]
    BY <1>0, <1>2, <2>1 DEF Sleep, Steps, local, TypeOK
  <2>3. TodoOf(Poller)' /\ CallOf(Poller)'
    BY <1>0, <2>1, <2>2 DEF Places, TodoOf, CallOf, InFrame
  <2> QED
    BY <1>0, <2>1, <2>2, <2>3, OneMoves
<1>3. ASSUME NEW t \in Tasks, Wake(t) PROVE Places'
  <2>1. pc[t] = "asleep" /\ TodoOf(t) /\ CallOf(t) /\ call' = call
    BY <1>0, <1>3 DEF Wake, Places, local
  <2>2. CASE todo[t] = <<>>
    <3>1. /\ pc'[t] = "idle" /\ todo' = todo
          /\ \A u \in Tasks \ {t} : pc'[u] = pc[u]
      BY <1>0, <1>3, <2>2 DEF Wake, TypeOK
    <3>2. call[t] = "none"
      BY <2>1, <2>2 DEF TodoOf, Opened
    <3>3. TodoOf(t)' /\ CallOf(t)'
      BY <2>1, <2>2, <3>1, <3>2 DEF TodoOf, CallOf, InFrame
    <3> QED
      BY <1>0, <2>1, <3>1, <3>3, OneMoves
  <2>3. CASE todo[t] # <<>>
    <3>1. /\ pc'[t] = "select" /\ todo'[t] = Tail(todo[t])
          /\ \A u \in Tasks \ {t} : pc'[u] = pc[u] /\ todo'[u] = todo[u]
      BY <1>0, <1>3, <2>3 DEF Wake, TypeOK
    <3>2. todo[t] = Opened /\ call[t] \in Bare
      BY <2>1, <2>3 DEF TodoOf
    <3>3. Tail(todo[t]) = <<Rd("SR")>>
      BY <3>2 DEF Opened
    <3>4. Tail(todo[t]) \in Going
      <4>1. Rd("SR") \in Access
        BY AccessesAre DEF Names
      <4>2. Tail(todo[t]) \in Seq(Access) /\ Tail(todo[t]) # <<>>
        BY <3>3, <4>1, Tuples, Zenon
      <4> QED
        BY <4>2, DoingIs
    <3>5. TodoOf(t)'
      BY <3>1, <3>4 DEF TodoOf
    <3>6. CallOf(t)'
      BY <2>1, <3>1, <3>2 DEF CallOf, Bare
    <3> QED
      BY <1>0, <2>1, <3>1, <3>5, <3>6, OneMoves
  <2> QED
    BY <2>2, <2>3
<1>4. ASSUME NEW t \in Tasks, Pend(t), UNCHANGED <<chip, todo, local, polled>> PROVE Places'
  <2>1. /\ pc[t] = "pend" /\ call' = call /\ todo' = todo
        /\ pc' = [pc EXCEPT ![t] = "select"] \/ pc' = [pc EXCEPT ![t] = "waiting"]
    BY <1>4 DEF Pend, Steps, local
  <2>2. call[t] \in Guarded
    BY <1>0, <2>1 DEF Places, CallOf
  <2> QED
    BY <1>0, <2>1, <2>2, StaysInFrame DEF InFrame
<1>5. ASSUME NEW t \in Tasks, Post(t), UNCHANGED <<chip, todo, sock, polled>> PROVE Places'
  <2>1. pc[t] = "post" /\ call'[t] = "none" /\ todo' = todo
        /\ \A u \in Tasks \ {t} : call'[u] = call[u]
    BY <1>0, <1>5 DEF Post, Returns, Steps, TypeOK
  <2>2. pc'[t] = "idle" => TodoOf(t)' /\ CallOf(t)'
    BY <1>0, <2>1 DEF Places, TodoOf, CallOf, InFrame
  <2>3. CASE Steps(t, "post", "idle")
    <3>1. pc'[t] = "idle" /\ \A u \in Tasks \ {t} : pc'[u] = pc[u]
      BY <1>0, <2>3 DEF Steps, TypeOK
    <3> QED
      BY <1>0, <2>1, <2>2, <3>1, OneMoves
  <2>4. CASE \E w \in waiting : pc' = [pc EXCEPT ![t] = "idle", ![w] = "select"]
    <3>1. PICK w \in waiting : pc' = [pc EXCEPT ![t] = "idle", ![w] = "select"]
      BY <2>4
    <3>2. w \in Tasks /\ pc[w] = "waiting" /\ w # t
      BY <1>0, <2>1 DEF WaitList
    <3>3. /\ pc'[t] = "idle" /\ pc'[w] = "select"
          /\ \A u \in Tasks \ {t, w} : pc'[u] = pc[u]
      BY <1>0, <3>1, <3>2 DEF TypeOK
    <3>4. TodoOf(w)' /\ CallOf(w)'
      BY <1>0, <2>1, <3>2, <3>3 DEF Places, TodoOf, CallOf, InFrame
    <3>5. \A u \in Tasks \ {t, w} : TodoOf(u)' /\ CallOf(u)'
      BY <1>0, <2>1, <3>3 DEF Places, TodoOf, CallOf
    <3> QED
      BY <2>2, <3>3, <3>4, <3>5 DEF Places
  <2> QED
    BY <1>5, <2>3, <2>4 DEF Post
<1>6. ASSUME NEW t \in Tasks, Select(t) \/ Address(t), UNCHANGED <<sem, todo, local, polled>>
      PROVE  Places'
  <2>1. /\ pc[t] \in {"select", "address"} /\ call' = call /\ todo' = todo
        /\ pc' = [pc EXCEPT ![t] = "address"] \/ pc' = [pc EXCEPT ![t] = "data"]
    BY <1>6 DEF Select, Address, Steps, local
  <2> QED
    BY <1>0, <2>1, StaysInFrame DEF InFrame
<1>7. ASSUME NEW t \in Tasks, Data(t), UNCHANGED <<sem, todo, call, sock, ptr, polled>>
      PROVE  Places'
  <2>1. pc[t] = "data" /\ call' = call /\ todo' = todo /\ pc' = [pc EXCEPT ![t] = "deselect"]
    BY <1>7 DEF Data, Steps
  <2> QED
    BY <1>0, <2>1, StaysInFrame DEF InFrame
<1>8. ASSUME NEW t \in Tasks, Deselect(t) PROVE Places'
  <2>1. pc[t] = "deselect" /\ CallOf(t)
    BY <1>0, <1>8 DEF Deselect, Places
  <2>2. PICK frames \in Follow(t) :
          /\ Steps(t, "deselect", Onward(t, frames))
          /\ todo' = [todo EXCEPT ![t] = IF Leaving(frames) THEN <<>> ELSE frames]
          /\ IF Onward(t, frames) = "idle" THEN Returns(t) ELSE call' = call
    BY <1>8 DEF Deselect
  <2>3. /\ pc'[t] = Onward(t, frames)
        /\ todo'[t] = IF Leaving(frames) THEN <<>> ELSE frames
        /\ \A u \in Tasks \ {t} : pc'[u] = pc[u] /\ todo'[u] = todo[u]
    BY <1>0, <2>2 DEF Steps, TypeOK
  <2>4. /\ call'[t] = IF Onward(t, frames) = "idle" THEN "none" ELSE call[t]
        /\ \A u \in Tasks \ {t} : call'[u] = call[u]
    BY <1>0, <2>2 DEF Returns, TypeOK
  <2>5. TodoOf(t)'
    BY <1>0, <2>1, <2>3, <2>4, OnwardIs DEF TodoOf, InFrame
  <2>6. CallOf(t)'
    <3>1. call[t] # "none"
      BY <2>1 DEF CallOf, InFrame
    <3> QED
      BY <1>0, <2>1, <2>3, <2>4, <3>1, OnwardIs DEF CallOf, InFrame
  <2> QED
    BY <1>0, <2>3, <2>4, <2>5, <2>6, OneMoves
<1>9. CASE UNCHANGED vars
  BY <1>0, <1>9 DEF vars, local, Places, TodoOf, CallOf
<1>10. /\ Poller \in Tasks /\ "Read" \in Guarded
       /\ Api \subseteq Guarded \cup Bare
  BY SpiAssumption DEF Guarded, Poller, Tasks
<1> QED
  BY <1>1, <1>2, <1>3, <1>4, <1>5, <1>6, <1>7, <1>8, <1>9, <1>10 DEF Next, Frame

-----------------------------------------------------------------------------
(* The semaphore.                                                          *)

\* A step that takes nobody in or out of a guarded call leaves the bus with
\* whom it was.
LEMMA SameHolder ==
  ASSUME BusGivenBack, count' = count, \A u \in Tasks : Inside(u)' <=> Inside(u)
  PROVE  BusGivenBack'
BY DEF BusGivenBack

\* The step of t, to another place.
LEMMA Others ==
  ASSUME TypeOK, NEW t \in Tasks, NEW to, pc' = [pc EXCEPT ![t] = to],
         \A u \in Tasks \ {t} : call'[u] = call[u]
  PROVE  /\ pc'[t] = to
         /\ \A u \in Tasks \ {t} : pc'[u] = pc[u] /\ (Inside(u)' <=> Inside(u))
BY DEF TypeOK, Inside

\* A step that neither leaves nor enters a wait keeps the wait list.
LEMMA SameWaitList ==
  ASSUME TypeOK, WaitList, NEW t \in Tasks, NEW to, pc' = [pc EXCEPT ![t] = to],
         pc[t] # "waiting", to # "waiting", waiting' = waiting
  PROVE  WaitList'
BY DEF TypeOK, WaitList

LEMMA BusStep == IInv /\ [Next]_vars => WaitList' /\ BusGivenBack'
<1> SUFFICES ASSUME IInv, [Next]_vars PROVE WaitList' /\ BusGivenBack'
  OBVIOUS
<1>0. TypeOK /\ Places /\ WaitList /\ BusGivenBack
  BY DEF IInv
<1>1. ASSUME NEW t \in Tasks, NEW c \in Guarded \cup Bare, NEW i \in Socks, Begin(t, c, i)
      PROVE  WaitList' /\ BusGivenBack'
  <2>1. /\ pc[t] = "idle" /\ pc' = [pc EXCEPT ![t] = FirstStep(c)] /\ call'[t] = c
        /\ \A u \in Tasks \ {t} : call'[u] = call[u]
        /\ count' = count /\ waiting' = waiting
    BY <1>0, <1>1 DEF Begin, Steps, sem, TypeOK
  <2>2. \/ FirstStep(c) = "pend"
        \/ FirstStep(c) = "select" /\ c \notin Guarded
    BY DEF FirstStep
  <2>3. ~ Inside(t) /\ ~ Inside(t)'
    BY <1>0, <2>1, <2>2, Others DEF Inside
  <2>4. \A u \in Tasks : Inside(u)' <=> Inside(u)
    BY <1>0, <2>1, <2>3, Others
  <2> QED
    BY <1>0, <2>1, <2>2, <2>4, SameHolder, SameWaitList
<1>2. CASE Sleep
  <2>1. Poller \in Tasks
    BY SpiAssumption DEF Poller, Tasks
  <2>2. /\ pc[Poller] = "idle" /\ pc' = [pc EXCEPT ![Poller] = "asleep"] /\ call' = call
        /\ count' = count /\ waiting' = waiting
    BY <1>2 DEF Sleep, Steps, local, sem
  <2>3. \A u \in Tasks : Inside(u)' <=> Inside(u)
    BY <1>0, <2>1, <2>2 DEF Inside, TypeOK
  <2> QED
    BY <1>0, <2>1, <2>2, <2>3, SameHolder, SameWaitList
<1>3. ASSUME NEW t \in Tasks, Wake(t) PROVE WaitList' /\ BusGivenBack'
  <2>1. /\ pc[t] = "asleep" /\ call' = call /\ count' = count /\ waiting' = waiting
        /\ pc' = [pc EXCEPT ![t] = "idle"] \/ pc' = [pc EXCEPT ![t] = "select"]
    BY <1>3 DEF Wake, local, sem
  <2>2. call[t] \notin Guarded
    BY <1>0, <2>1 DEF Places, TodoOf, Guarded, Bare
  <2>3. \A u \in Tasks : Inside(u)' <=> Inside(u)
    BY <1>0, <2>1, <2>2 DEF Inside, TypeOK
  <2> QED
    BY <1>0, <2>1, <2>3, SameHolder, SameWaitList
<1>4. ASSUME NEW t \in Tasks, Pend(t), UNCHANGED <<chip, todo, local, polled>>
      PROVE  WaitList' /\ BusGivenBack'
  <2>1. pc[t] = "pend" /\ call' = call /\ ~ Inside(t)
    BY <1>4 DEF Pend, Steps, local, Inside
  <2>2. call[t] \in Guarded
    BY <1>0, <2>1 DEF Places, CallOf
  <2>3. CASE count > 0
    <3>1. pc' = [pc EXCEPT ![t] = "select"] /\ count' = count - 1 /\ waiting' = waiting
      BY <1>4, <2>3 DEF Pend, Steps
    <3>2. count = 1 /\ count' = 0
      BY <1>0, <2>3, <3>1 DEF TypeOK
    <3>3. \A u \in Tasks : ~ Inside(u)
      BY <1>0, <3>2 DEF BusGivenBack
    <3>4. Inside(t)' /\ \A u \in Tasks \ {t} : ~ Inside(u)'
      BY <1>0, <2>1, <2>2, <3>1, <3>3 DEF Inside, TypeOK
    <3>5. BusGivenBack'
      BY <3>2, <3>4 DEF BusGivenBack
    <3> QED
      BY <1>0, <2>1, <3>1, <3>5, SameWaitList
  <2>4. CASE ~ count > 0
    <3>1. pc' = [pc EXCEPT ![t] = "waiting"] /\ count' = count /\ waiting' = waiting \cup {t}
      BY <1>4, <2>4 DEF Pend, Steps
    <3>2. \A u \in Tasks : Inside(u)' <=> Inside(u)
      BY <1>0, <2>1, <3>1 DEF Inside, TypeOK
    <3>3. WaitList'
      BY <1>0, <3>1 DEF WaitList, TypeOK
    <3> QED
      BY <1>0, <3>1, <3>2, <3>3, SameHolder
  <2> QED
    BY <2>3, <2>4
<1>5. ASSUME NEW t \in Tasks, Post(t), UNCHANGED <<chip, todo, sock, polled>>
      PROVE  WaitList' /\ BusGivenBack'
  <2>1. /\ pc[t] = "post" /\ call[t] \in Guarded
        /\ \A u \in Tasks \ {t} : call'[u] = call[u]
    BY <1>0, <1>5 DEF Post, Returns, Steps, Places, CallOf, TypeOK
  <2>2. Inside(t) /\ count = 0 /\ \A u \in Tasks : Inside(u) => u = t
    BY <1>0, <2>1 DEF Inside, BusGivenBack, TypeOK
  <2>3. CASE waiting = {}
    <3>1. pc' = [pc EXCEPT ![t] = "idle"] /\ count' = count + 1 /\ waiting' = waiting
      BY <1>5, <2>3 DEF Post, Steps
    <3>2. count' = 1
      BY <2>2, <3>1
    <3>3. \A u \in Tasks : ~ Inside(u)'
      <4>1. pc'[t] = "idle" /\ \A u \in Tasks \ {t} : Inside(u)' <=> Inside(u)
        BY <1>0, <2>1, <3>1, Others
      <4>2. ~ Inside(t)'
        BY <4>1 DEF Inside
      <4> QED
        BY <2>2, <4>1, <4>2
    <3> QED
      BY <1>0, <2>1, <3>1, <3>2, <3>3, SameWaitList DEF BusGivenBack
  <2>4. CASE waiting # {}
    <3>1. PICK w \in waiting : /\ pc' = [pc EXCEPT ![t] = "idle", ![w] = "select"]
                               /\ waiting' = waiting \ {w} /\ count' = count
      BY <1>5, <2>4 DEF Post
    <3>2. w \in Tasks /\ pc[w] = "waiting" /\ w # t
      BY <1>0, <2>1 DEF WaitList
    <3>3. /\ pc'[t] = "idle" /\ pc'[w] = "select"
          /\ \A u \in Tasks \ {t, w} : pc'[u] = pc[u]
      BY <1>0, <3>1, <3>2 DEF TypeOK
    <3>4. call[w] \in Guarded /\ call'[w] = call[w]
      BY <1>0, <2>1, <3>2 DEF Places, CallOf
    <3>5. Inside(w)' /\ ~ Inside(t)' /\ \A u \in Tasks \ {t, w} : ~ Inside(u)'
      BY <2>1, <2>2, <3>3, <3>4 DEF Inside
    <3>6. WaitList'
      BY <1>0, <2>1, <3>1, <3>2, <3>3 DEF WaitList
    <3> QED
      BY <2>2, <3>1, <3>2, <3>5, <3>6 DEF BusGivenBack
  <2> QED
    BY <2>3, <2>4
<1>6. ASSUME NEW t \in Tasks, Select(t) \/ Address(t) \/ Data(t), UNCHANGED <<sem, call>>
      PROVE  WaitList' /\ BusGivenBack'
  <2>1. PICK to \in {"address", "data", "deselect"} :
          pc[t] \in {"select", "address", "data"} /\ pc' = [pc EXCEPT ![t] = to]
    BY <1>6 DEF Select, Address, Data, Steps
  <2>2. \A u \in Tasks : Inside(u)' <=> Inside(u)
    BY <1>0, <1>6, <2>1 DEF Inside, TypeOK
  <2> QED
    BY <1>0, <1>6, <2>1, <2>2, SameHolder, SameWaitList DEF sem
<1>7. ASSUME NEW t \in Tasks, Deselect(t), UNCHANGED <<sem, polled>>
      PROVE  WaitList' /\ BusGivenBack'
  <2>1. pc[t] = "deselect"
    BY <1>7 DEF Deselect
  <2>2. PICK frames \in Follow(t) :
          /\ pc' = [pc EXCEPT ![t] = Onward(t, frames)]
          /\ IF Onward(t, frames) = "idle" THEN Returns(t) ELSE call' = call
    BY <1>7 DEF Deselect, Steps
  <2>3. \A u \in Tasks \ {t} : call'[u] = call[u]
    BY <1>0, <2>2 DEF Returns, TypeOK
  <2> DEFINE to == Onward(t, frames)
  <2>4. /\ to \in {"idle", "post", "asleep", "select"}
        /\ to \in {"idle", "asleep"} => call[t] \notin Guarded
    BY <1>0, <2>1, OnwardIs DEF Guarded, Bare
  <2> HIDE DEF to
  <2>5. pc' = [pc EXCEPT ![t] = to] /\ (to # "idle" => call' = call)
    BY <2>2 DEF to
  <2>6. pc'[t] = to /\ \A u \in Tasks \ {t} : Inside(u)' <=> Inside(u)
    BY <1>0, <2>3, <2>5, Others
  <2>7. Inside(t)' <=> Inside(t)
    BY <2>1, <2>4, <2>5, <2>6 DEF Inside
  <2> QED
    BY <1>0, <1>7, <2>1, <2>4, <2>5, <2>6, <2>7, SameHolder, SameWaitList DEF sem
<1>8. CASE UNCHANGED vars
  BY <1>0, <1>8 DEF vars, sem, local, WaitList, BusGivenBack, Inside
<1>9. Poller \in Tasks /\ "Read" \in Guarded /\ Api \subseteq Guarded \cup Bare
  BY SpiAssumption DEF Guarded, Poller, Tasks
<1> QED
  BY <1>1, <1>2, <1>3, <1>4, <1>5, <1>6, <1>7, <1>8, <1>9 DEF Next, Frame, local

-----------------------------------------------------------------------------
(* The line of chip select.                                                *)

\* Every call takes the semaphore, or there is one server.
Careful == Api \subseteq Guarded \/ Servers <= 1

Mid(t) == pc[t] \in {"address", "data", "deselect"}

\* Unless a call without the semaphore is in a frame, chip select is high
\* between the frames and the chip knows where in its frame a task is.
Line ==
    \/ Exposed
    \/ /\ \A t \in Tasks :
            /\ pc[t] = "address" => scs /\ heard = Start
            /\ pc[t] \in {"data", "deselect"} => scs /\ heard = From(t)
       /\ (\A t \in Tasks : ~ Mid(t)) => ~ scs /\ heard = Silence

\* A step that takes nobody into, through or out of a frame.
LEMMA SameLine ==
  ASSUME Line, scs' = scs, heard' = heard,
         \A u \in Tasks : \/ pc'[u] = pc[u] /\ call'[u] = call[u]
                          \/ ~ Mid(u) /\ ~ Mid(u)'
  PROVE  Line'
<1>1. ASSUME Exposed PROVE Exposed'
  BY <1>1 DEF Exposed, Mid
<1>2. \A u \in Tasks : Mid(u)' <=> Mid(u)
  BY DEF Mid
<1>3. \A u \in Tasks : /\ pc'[u] = "address" => pc[u] = "address"
                       /\ pc'[u] \in {"data", "deselect"} => pc[u] \in {"data", "deselect"}
  BY DEF Mid
<1> QED
  BY <1>1, <1>2, <1>3 DEF Line, From

\* If no call without the semaphore is in a frame, one that holds it is alone.
LEMMA AloneInFrame ==
  ASSUME TypeOK, Places, BusGivenBack, ~ Exposed,
         NEW t \in Tasks, Inside(t), NEW u \in Tasks, Mid(u)
  PROVE  u = t
<1>1. call[u] \in Guarded
  BY DEF Exposed, Mid, Places, CallOf, InFrame, TypeOK
<1>2. Inside(u)
  BY <1>1 DEF Inside, Mid
<1> QED
  BY <1>2 DEF BusGivenBack

LEMMA LineStep == Careful /\ IInv /\ Line /\ [Next]_vars => Line'
<1> SUFFICES ASSUME Careful, IInv, Line, [Next]_vars PROVE Line'
  OBVIOUS
<1>0. TypeOK /\ Places /\ BusGivenBack /\ WaitList
  BY DEF IInv
<1>1. ASSUME NEW t \in Tasks, NEW c \in Guarded \cup Bare, NEW i \in Socks, Begin(t, c, i)
      PROVE  Line'
  <2>1. /\ ~ Mid(t) /\ ~ Mid(t)' /\ scs' = scs /\ heard' = heard
        /\ \A u \in Tasks \ {t} : pc'[u] = pc[u] /\ call'[u] = call[u]
    BY <1>0, <1>1 DEF Begin, Steps, FirstStep, Mid, chip, TypeOK
  <2> QED
    BY <2>1, SameLine
<1>2. CASE Sleep
  <2>1. Poller \in Tasks
    BY SpiAssumption DEF Poller, Tasks
  <2>2. /\ ~ Mid(Poller) /\ ~ Mid(Poller)' /\ scs' = scs /\ heard' = heard /\ call' = call
        /\ \A u \in Tasks \ {Poller} : pc'[u] = pc[u]
    BY <1>0, <1>2, <2>1 DEF Sleep, Steps, Mid, chip, local, TypeOK
  <2> QED
    BY <2>2, SameLine
<1>3. ASSUME NEW t \in Tasks, Wake(t) PROVE Line'
  <2>1. /\ ~ Mid(t) /\ ~ Mid(t)' /\ scs' = scs /\ heard' = heard /\ call' = call
        /\ \A u \in Tasks \ {t} : pc'[u] = pc[u]
    BY <1>0, <1>3 DEF Wake, Mid, chip, local, TypeOK
  <2> QED
    BY <2>1, SameLine
<1>4. ASSUME NEW t \in Tasks, Pend(t), UNCHANGED <<chip, todo, local, polled>> PROVE Line'
  <2>1. /\ ~ Mid(t) /\ ~ Mid(t)' /\ scs' = scs /\ heard' = heard /\ call' = call
        /\ \A u \in Tasks \ {t} : pc'[u] = pc[u]
    BY <1>0, <1>4 DEF Pend, Steps, Mid, chip, local, TypeOK
  <2> QED
    BY <2>1, SameLine
<1>5. ASSUME NEW t \in Tasks, Post(t), UNCHANGED <<chip, todo, sock, polled>> PROVE Line'
  <2>1. /\ pc[t] = "post" /\ scs' = scs /\ heard' = heard
        /\ \A u \in Tasks \ {t} : call'[u] = call[u]
    BY <1>0, <1>5 DEF Post, Returns, Steps, chip, TypeOK
  <2>2. CASE Steps(t, "post", "idle")
    <3>1. ~ Mid(t) /\ ~ Mid(t)' /\ \A u \in Tasks \ {t} : pc'[u] = pc[u]
      BY <1>0, <2>1, <2>2 DEF Steps, Mid, TypeOK
    <3> QED
      BY <2>1, <3>1, SameLine
  <2>3. CASE \E w \in waiting : pc' = [pc EXCEPT ![t] = "idle", ![w] = "select"]
    <3>1. PICK w \in waiting : pc' = [pc EXCEPT ![t] = "idle", ![w] = "select"]
      BY <2>3
    <3>2. w \in Tasks /\ pc[w] = "waiting" /\ w # t
      BY <1>0, <2>1 DEF WaitList
    <3>3. /\ pc'[t] = "idle" /\ pc'[w] = "select"
          /\ \A u \in Tasks \ {t, w} : pc'[u] = pc[u]
      BY <1>0, <3>1, <3>2 DEF TypeOK
    <3>4. ~ Mid(t) /\ ~ Mid(t)' /\ ~ Mid(w) /\ ~ Mid(w)'
      BY <2>1, <3>2, <3>3 DEF Mid
    <3> QED
      BY <2>1, <3>3, <3>4, SameLine
  <2> QED
    BY <1>5, <2>2, <2>3 DEF Post
<1>6. ASSUME NEW t \in Tasks, Select(t) \/ Address(t) \/ Data(t), UNCHANGED call
      PROVE  Line'
  <2>1. PICK to \in {"address", "data", "deselect"} :
          pc[t] \in {"select", "address", "data"} /\ pc' = [pc EXCEPT ![t] = to]
    BY <1>6 DEF Select, Address, Data, Steps
  <2>2. pc'[t] = to /\ \A u \in Tasks \ {t} : pc'[u] = pc[u]
    BY <1>0, <2>1 DEF TypeOK
  <2>3. CASE call[t] \in Bare
    BY <1>6, <2>2, <2>3 DEF Line, Exposed
  <2>4. CASE Exposed /\ call[t] \notin Bare
    BY <1>6, <2>2, <2>4 DEF Line, Exposed
  <2>5. CASE ~ Exposed /\ call[t] \notin Bare
    <3>1. Inside(t)
      BY <1>0, <2>1, <2>5 DEF Places, CallOf, InFrame, Inside, TypeOK
    <3>2. \A u \in Tasks \ {t} : ~ Mid(u) /\ ~ Mid(u)'
      BY <1>0, <2>2, <2>5, <3>1, AloneInFrame DEF Mid
    <3>3. /\ pc[t] = "address" => scs /\ heard = Start
          /\ pc[t] \in {"data", "deselect"} => scs /\ heard = From(t)
          /\ pc[t] = "select" => ~ scs /\ heard = Silence
      BY <2>5, <3>2 DEF Line, Mid
    <3>4. /\ pc'[t] = "address" => scs' /\ heard' = Start
          /\ pc'[t] \in {"data", "deselect"} => scs' /\ heard' = From(t)
      <4>1. CASE Select(t)
        BY <1>0, <3>3, <4>1 DEF Select, Steps, TypeOK
      <4>2. CASE Address(t)
        BY <1>0, <3>3, <4>2 DEF Address, Steps, TypeOK
      <4>3. CASE Data(t)
        BY <1>0, <3>3, <4>3 DEF Data, Steps, TypeOK
      <4> QED
        BY <1>6, <4>1, <4>2, <4>3
    <3>5. Mid(t)'
      BY <2>2 DEF Mid
    <3> QED
      BY <3>2, <3>4, <3>5 DEF Line, Mid, From
  <2> QED
    BY <2>3, <2>4, <2>5
<1>7. ASSUME NEW t \in Tasks, Deselect(t) PROVE Line'
  <2>1. pc[t] = "deselect" /\ ~ scs' /\ heard' = Silence /\ OnCpu(t)
    BY <1>7 DEF Deselect, Steps
  <2>2. PICK frames \in Follow(t) :
          /\ pc' = [pc EXCEPT ![t] = Onward(t, frames)]
          /\ IF Onward(t, frames) = "idle" THEN Returns(t) ELSE call' = call
    BY <1>7 DEF Deselect, Steps
  <2>3. /\ \A u \in Tasks \ {t} : pc'[u] = pc[u] /\ call'[u] = call[u]
        /\ pc'[t] = Onward(t, frames)
    BY <1>0, <2>2 DEF Returns, TypeOK
  <2>4. ~ Mid(t)'
    BY <1>0, <2>1, <2>3, OnwardIs DEF Mid
  <2>5. SUFFICES ASSUME ~ Exposed' PROVE \A u \in Tasks \ {t} : ~ Mid(u)
    BY <2>1, <2>3, <2>4 DEF Line, Mid
  <2>6. ASSUME NEW u \in Tasks \ {t}, Mid(u) PROVE FALSE
    <3>1. call[u] \in Guarded
      BY <1>0, <2>3, <2>5, <2>6 DEF Exposed, Mid, Places, CallOf, InFrame, TypeOK
    <3>2. CASE call[t] \in Guarded
      BY <1>0, <2>1, <2>6, <3>1, <3>2 DEF Inside, Mid, BusGivenBack
    <3>3. CASE call[t] \in Bare
      <4>1. t # Poller /\ call[t] \in Api
        BY <1>0, <2>1, <3>3 DEF Places, CallOf, Bare
      <4>2. Servers <= 1
        BY <3>3, <4>1 DEF Careful, Guarded, Bare
      <4>3. t = 1 /\ u = 0
        BY <2>6, <4>1, <4>2, SpiAssumption DEF Tasks, Poller
      <4>4. Ready(u)
        BY <2>6 DEF Mid, Ready
      <4> QED
        BY <2>1, <2>6, <4>3, <4>4 DEF OnCpu
    <3> QED
      BY <1>0, <2>1, <3>2, <3>3 DEF Places, CallOf, InFrame, TypeOK
  <2> QED
    BY <2>6
<1>8. CASE UNCHANGED vars
  BY <1>8, SameLine DEF vars, chip, local
<1>9. Poller \in Tasks /\ "Read" \in Guarded /\ Api \subseteq Guarded \cup Bare
  BY SpiAssumption DEF Guarded, Poller, Tasks
<1> QED
  BY <1>1, <1>2, <1>3, <1>4, <1>5, <1>6, <1>7, <1>8, <1>9 DEF Next, Frame, local

-----------------------------------------------------------------------------
(* The registers the guarded calls have to themselves.                     *)

Holders == {t \in Tasks : Inside(t)}

LEMMA HolderAlone ==
  ASSUME BusGivenBack, NEW t \in Tasks, Inside(t)
  PROVE  Holders = {t}
BY DEF BusGivenBack, Holders

\* Nobody gets in or out, and nothing is read or written.
LEMMA NothingSeen ==
  ASSUME regs' = regs, seen' = seen, \A u \in Tasks : Inside(u)' <=> Inside(u)
  PROVE  UNCHANGED <<regs, seen, Holders>>
BY DEF Holders

\* Unless a call without the semaphore is in a frame, every step is one of the
\* registers that are read and written at once, or none.
LEMMA StepMaps ==
  Careful /\ IInv /\ Line /\ [Next]_vars
    => [Exposed \/ Wanted!Next]_<<regs, seen, Holders>>
<1> SUFFICES ASSUME Careful, IInv, Line, [Next]_vars, ~ Exposed,
                    ~ UNCHANGED <<regs, seen, Holders>>
             PROVE  Wanted!Next
  OBVIOUS
<1>0. TypeOK /\ Places /\ BusGivenBack /\ WaitList
  BY DEF IInv
<1>a. Holders = {t \in Tasks : Inside(t)} /\ Holders' = {t \in Tasks : Inside(t)'}
  BY DEF Holders
<1>b. ~ \A u \in Tasks : regs' = regs /\ seen' = seen /\ (Inside(u)' <=> Inside(u))
  <2>1. Poller \in Tasks
    BY SpiAssumption DEF Poller, Tasks
  <2> QED
    BY <2>1, NothingSeen
<1>c. \A t \in Tasks : Mid(t) => Inside(t)
  BY <1>0 DEF Exposed, Mid, Places, CallOf, InFrame, TypeOK, Inside
<1>1. ASSUME NEW t \in Tasks, NEW c \in Guarded \cup Bare, NEW i \in Socks, Begin(t, c, i)
      PROVE  FALSE
  <2>1. /\ pc[t] = "idle" /\ pc' = [pc EXCEPT ![t] = FirstStep(c)] /\ call'[t] = c
        /\ \A u \in Tasks \ {t} : call'[u] = call[u]
        /\ regs' = regs /\ seen' = seen
    BY <1>0, <1>1 DEF Begin, Steps, chip, TypeOK
  <2>2. ~ Inside(t) /\ ~ Inside(t)'
    BY <1>0, <2>1, Others DEF Inside, FirstStep
  <2> QED
    BY <1>0, <1>b, <2>1, <2>2, Others
<1>2. CASE Sleep
  <2>1. Poller \in Tasks
    BY SpiAssumption DEF Poller, Tasks
  <2>2. /\ pc[Poller] = "idle" /\ pc' = [pc EXCEPT ![Poller] = "asleep"] /\ call' = call
        /\ regs' = regs /\ seen' = seen
    BY <1>2 DEF Sleep, Steps, local, chip
  <2> QED
    BY <1>0, <1>b, <2>1, <2>2 DEF Inside, TypeOK
<1>3. ASSUME NEW t \in Tasks, Wake(t) PROVE FALSE
  <2>1. /\ pc[t] = "asleep" /\ call' = call /\ regs' = regs /\ seen' = seen
        /\ pc' = [pc EXCEPT ![t] = "idle"] \/ pc' = [pc EXCEPT ![t] = "select"]
    BY <1>3 DEF Wake, local, chip
  <2>2. call[t] \notin Guarded
    BY <1>0, <2>1 DEF Places, TodoOf, Guarded, Bare
  <2> QED
    BY <1>0, <1>b, <2>1, <2>2 DEF Inside, TypeOK
<1>4. ASSUME NEW t \in Tasks, Pend(t), UNCHANGED <<chip, todo, local, polled>>
      PROVE  Wanted!Enter(t)
  <2>1. pc[t] = "pend" /\ call' = call /\ ~ Inside(t) /\ regs' = regs /\ seen' = seen
    BY <1>4 DEF Pend, Steps, local, chip, Inside
  <2>2. CASE count > 0
    <3>1. pc' = [pc EXCEPT ![t] = "select"] /\ count = 1
      BY <1>0, <1>4, <2>2 DEF Pend, Steps, TypeOK
    <3>2. call[t] \in Guarded /\ \A u \in Tasks : ~ Inside(u)
      BY <1>0, <2>1, <3>1 DEF Places, CallOf, BusGivenBack
    <3>3. \A u \in Tasks : Inside(u)' <=> u = t
      BY <1>0, <2>1, <3>1, <3>2 DEF Inside, TypeOK
    <3> QED
      BY <1>a, <2>1, <3>2, <3>3 DEF Wanted!Enter
  <2>3. CASE ~ count > 0
    <3>1. pc' = [pc EXCEPT ![t] = "waiting"]
      BY <1>4, <2>3 DEF Pend, Steps
    <3> QED
      BY <1>0, <1>b, <2>1, <3>1 DEF Inside, TypeOK
  <2> QED
    BY <2>2, <2>3
<1>5. ASSUME NEW t \in Tasks, Post(t), UNCHANGED <<chip, todo, sock, polled>>
      PROVE  Wanted!Leave(t)
  <2>1. /\ pc[t] = "post" /\ call[t] \in Guarded /\ regs' = regs
        /\ seen' = [seen EXCEPT ![t] = 0]
        /\ \A u \in Tasks \ {t} : call'[u] = call[u]
    BY <1>0, <1>5 DEF Post, Returns, Steps, Places, CallOf, chip, TypeOK
  <2>2. Inside(t) /\ Holders = {t} /\ \A u \in Tasks : Inside(u) => u = t
    BY <1>0, <2>1, HolderAlone DEF Inside, BusGivenBack, TypeOK
  <2>3. CASE Steps(t, "post", "idle")
    <3>1. pc' = [pc EXCEPT ![t] = "idle"]
      BY <2>3 DEF Steps
    <3>2. pc'[t] = "idle" /\ \A u \in Tasks \ {t} : Inside(u)' <=> Inside(u)
      BY <1>0, <2>1, <3>1, Others
    <3>3. ~ Inside(t)'
      BY <3>2 DEF Inside
    <3>4. Holders' = {}
      BY <1>a, <2>2, <3>2, <3>3
    <3> QED
      BY <1>a, <2>1, <2>2, <3>4 DEF Wanted!Leave
  <2>4. CASE \E w \in waiting : pc' = [pc EXCEPT ![t] = "idle", ![w] = "select"]
    <3>1. PICK w \in waiting : pc' = [pc EXCEPT ![t] = "idle", ![w] = "select"]
      BY <2>4
    <3>2. w \in Tasks /\ pc[w] = "waiting" /\ w # t
      BY <1>0, <2>1 DEF WaitList
    <3>3. /\ pc'[t] = "idle" /\ pc'[w] = "select"
          /\ \A u \in Tasks \ {t, w} : pc'[u] = pc[u]
      BY <1>0, <3>1, <3>2 DEF TypeOK
    <3>4. call[w] \in Guarded /\ call'[w] = call[w]
      BY <1>0, <2>1, <3>2 DEF Places, CallOf
    <3>5. Inside(w)' /\ ~ Inside(t)' /\ \A u \in Tasks \ {t, w} : ~ Inside(u)'
      BY <2>1, <2>2, <3>3, <3>4 DEF Inside
    <3>6. Holders' = {w}
      BY <1>a, <3>2, <3>5
    <3> QED
      BY <1>a, <2>1, <2>2, <3>2, <3>6 DEF Wanted!Leave
  <2> QED
    BY <1>5, <2>3, <2>4 DEF Post
<1>6. ASSUME NEW t \in Tasks, Select(t) \/ Address(t), UNCHANGED <<sem, todo, local, polled>>
      PROVE  FALSE
  <2>1. PICK to \in {"address", "data"} :
          pc[t] \in {"select", "address"} /\ pc' = [pc EXCEPT ![t] = to]
    BY <1>6 DEF Select, Address, Steps
  <2>2. call' = call /\ seen' = seen
    BY <1>6 DEF local
  <2>3. regs' = regs
    <3>1. CASE Select(t)
      BY <3>1 DEF Select
    <3>2. CASE Address(t)
      <4>1. pc[t] = "address"
        BY <3>2 DEF Address, Steps
      <4>2. heard = Start
        BY <4>1 DEF Line
      <4> QED
        BY <3>2, <4>2 DEF Address
    <3> QED
      BY <1>6, <3>1, <3>2
  <2>4. \A u \in Tasks : Inside(u)' <=> Inside(u)
    BY <1>0, <2>1, <2>2 DEF Inside, TypeOK
  <2> QED
    BY <1>b, <2>2, <2>3, <2>4
<1>7. ASSUME NEW t \in Tasks, Data(t), UNCHANGED <<sem, todo, call, sock, ptr, polled>>
      PROVE  Wanted!Read(t) \/ Wanted!Write(t)
  <2> DEFINE f == Head(todo[t])
             k == sock[t]
  <2>1. pc[t] = "data" /\ pc' = [pc EXCEPT ![t] = "deselect"] /\ pc[t] \in InFrame
    BY <1>7 DEF Data, Steps, InFrame
  <2>2. heard = From(t) /\ Inside(t)
    BY <1>c, <2>1 DEF Line, Mid
  <2>3. f.reg \in Names /\ k \in Socks /\ Sent(t) \in Values
    BY <1>0, <2>1, PresentFrame, SentType DEF Access, TypeOK
  <2>4. Holders = {t} /\ Holders' = Holders
    <3>1. \A u \in Tasks : Inside(u)' <=> Inside(u)
      BY <1>0, <1>7, <2>1 DEF Inside, TypeOK
    <3> QED
      BY <1>0, <1>a, <2>2, <3>1, HolderAlone
  <2>5. CASE f.dir = "write"
    <3>1. regs' = [regs EXCEPT ![k][f.reg] = Sent(t)] /\ seen' = seen
      BY <1>7, <2>2, <2>5 DEF Data
    <3> HIDE DEF f, k
    <3> QED
      BY <1>a, <2>3, <2>4, <3>1 DEF Wanted!Write
  <2>6. CASE f.dir # "write"
    <3>1. PICK v \in Answers(f.reg, regs[k][f.reg]) : seen' = [seen EXCEPT ![t] = v]
      BY <1>7, <2>2, <2>6 DEF Data
    <3>2. regs' = regs
      BY <1>7, <2>2, <2>6 DEF Data
    <3> HIDE DEF f, k
    <3> QED
      BY <1>a, <2>3, <2>4, <3>1, <3>2 DEF Wanted!Read
  <2> QED
    BY <2>5, <2>6
<1>8. ASSUME NEW t \in Tasks, Deselect(t) PROVE FALSE
  <2>1. pc[t] = "deselect" /\ regs' = regs /\ call[t] \in Guarded
    BY <1>8, <1>c DEF Deselect, Mid, Inside
  <2>2. PICK frames \in Follow(t) :
          /\ pc' = [pc EXCEPT ![t] = Onward(t, frames)]
          /\ IF Onward(t, frames) = "idle" THEN Returns(t) ELSE call' = call /\ seen' = seen
    BY <1>8 DEF Deselect, Steps
  <2>3. Onward(t, frames) \in {"post", "select"}
    BY <1>0, <2>1, OnwardIs DEF Guarded, Bare
  <2>4. call' = call /\ seen' = seen
    BY <2>2, <2>3
  <2>5. \A u \in Tasks : Inside(u)' <=> Inside(u)
    BY <1>0, <2>1, <2>2, <2>3, <2>4 DEF Inside, TypeOK
  <2> QED
    BY <1>b, <2>1, <2>4, <2>5
<1>9. ~ UNCHANGED vars
  BY <1>b DEF vars, chip, local, Inside
<1>10. Poller \in Tasks /\ "Read" \in Guarded /\ Api \subseteq Guarded \cup Bare
  BY SpiAssumption DEF Guarded, Poller, Tasks
<1> QED
  BY <1>1, <1>2, <1>3, <1>4, <1>5, <1>6, <1>7, <1>8, <1>9, <1>10 DEF Next, Frame, Wanted!Next

-----------------------------------------------------------------------------
(* Writes that arrive.                                                     *)

\* The frame of t's write, which has its data on the bus in this step, is the
\* one the chip hears.
WriteArrives(t) ==
    pc[t] = "data" /\ pc'[t] = "deselect" /\ Head(todo[t]).dir = "write"
        => regs' = [regs EXCEPT ![sock[t]][Head(todo[t]).reg] = Sent(t)]

LEMMA UndisturbedWrite ==
  IInv /\ Line /\ ~ Exposed /\ [Next]_vars => \A t \in Tasks : WriteArrives(t)
<1> SUFFICES ASSUME IInv, Line, ~ Exposed, [Next]_vars, NEW t \in Tasks,
                    pc[t] = "data", pc'[t] = "deselect", Head(todo[t]).dir = "write"
             PROVE  regs' = [regs EXCEPT ![sock[t]][Head(todo[t]).reg] = Sent(t)]
  BY DEF WriteArrives
<1>0. TypeOK /\ Places /\ WaitList /\ heard = From(t)
  BY DEF IInv, Line
\* Nobody else puts t there.
<1>1. ASSUME NEW u \in Tasks, NEW c \in Guarded \cup Bare, NEW i \in Socks PROVE ~ Begin(u, c, i)
  BY <1>0 DEF Begin, Steps, FirstStep, TypeOK
<1>2. ~ Sleep
  BY <1>0 DEF Sleep, Steps, TypeOK
<1>3. \A u \in Tasks : ~ Wake(u)
  BY <1>0 DEF Wake, TypeOK
<1>4. \A u \in Tasks : ~ Pend(u)
  BY <1>0 DEF Pend, Steps, TypeOK
<1>5. \A u \in Tasks : ~ Post(u)
  BY <1>0 DEF Post, Steps, WaitList, TypeOK
<1>6. \A u \in Tasks : ~ Select(u) /\ ~ Address(u)
  BY <1>0 DEF Select, Address, Steps, TypeOK
<1>7. ASSUME NEW u \in Tasks, Deselect(u) PROVE FALSE
  <2>1. PICK frames \in Follow(u) : Steps(u, "deselect", Onward(u, frames))
    BY <1>7 DEF Deselect
  <2>2. u # t
    BY <2>1 DEF Steps
  <2> QED
    BY <1>0, <2>1, <2>2 DEF Steps, TypeOK
<1>8. ASSUME NEW u \in Tasks, Data(u) PROVE u = t
  BY <1>0, <1>8 DEF Data, Steps, TypeOK
<1>9. ~ UNCHANGED vars
  BY DEF vars
<1>10. Poller \in Tasks /\ "Read" \in Guarded /\ Api \subseteq Guarded \cup Bare
  BY SpiAssumption DEF Guarded, Poller, Tasks
<1>11. Data(t)
  BY <1>1, <1>2, <1>3, <1>4, <1>5, <1>6, <1>7, <1>8, <1>9, <1>10 DEF Next, Frame
<1> QED
  BY <1>0, <1>11 DEF Data

-----------------------------------------------------------------------------
(* The way out of a call.                                                  *)

\* The semaphore is counted or handed to one who waits for it.
Posted == \/ waiting = {} /\ count' = count + 1
          \/ \E w \in waiting : pc'[w] = "select" /\ waiting' = waiting \ {w} /\ count' = count

\* t, which has it, leaves its call in this step only by posting it.
LeavesByPost(t) == call[t] \in Guarded /\ call'[t] # call[t] => pc[t] = "post" /\ Posted

LEMMA WayOut == IInv /\ [Next]_vars => \A t \in Tasks : LeavesByPost(t)
<1> SUFFICES ASSUME IInv, [Next]_vars, NEW t \in Tasks, call[t] \in Guarded, call'[t] # call[t]
             PROVE  pc[t] = "post" /\ Posted
  BY DEF LeavesByPost
<1>0. TypeOK /\ Places /\ WaitList
  BY DEF IInv
<1>1. ASSUME NEW u \in Tasks, NEW c \in Guarded \cup Bare, NEW i \in Socks PROVE ~ Begin(u, c, i)
  <2> SUFFICES ASSUME Begin(u, c, i) PROVE FALSE
    OBVIOUS
  <2>1. pc[u] = "idle" /\ call' = [call EXCEPT ![u] = c]
    BY DEF Begin, Steps
  <2>2. u = t
    BY <1>0, <2>1 DEF TypeOK
  <2> QED
    BY <1>0, <2>1, <2>2 DEF Places, CallOf, Guarded
<1>2. ~ Sleep /\ \A u \in Tasks : ~ Wake(u)
  BY DEF Sleep, Wake, local
<1>3. ASSUME NEW u \in Tasks, Post(u) PROVE pc[t] = "post" /\ Posted
  <2>1. u = t /\ pc[u] = "post"
    BY <1>0, <1>3 DEF Post, Returns, Steps, TypeOK
  <2>2. CASE waiting = {}
    BY <1>3, <2>1, <2>2 DEF Post, Posted
  <2>3. CASE waiting # {}
    <3>1. PICK w \in waiting : /\ pc' = [pc EXCEPT ![u] = "idle", ![w] = "select"]
                               /\ waiting' = waiting \ {w} /\ count' = count
      BY <1>3, <2>3 DEF Post
    <3>2. pc'[w] = "select"
      BY <1>0, <3>1 DEF TypeOK
    <3> QED
      BY <2>1, <3>1, <3>2 DEF Posted
  <2> QED
    BY <2>2, <2>3
<1>4. ASSUME NEW u \in Tasks, Deselect(u) PROVE FALSE
  <2>1. PICK frames \in Follow(u) :
          IF Onward(u, frames) = "idle" THEN Returns(u) ELSE call' = call
    BY <1>4 DEF Deselect
  <2>2. Onward(u, frames) = "idle" /\ u = t
    BY <1>0, <2>1 DEF Returns, TypeOK
  <2>3. pc[u] = "deselect"
    BY <1>4 DEF Deselect
  <2> QED
    BY <1>0, <2>2, <2>3, OnwardIs
<1>5. ASSUME NEW u \in Tasks, Frame(u) PROVE Post(u)
  BY <1>4, <1>5 DEF Frame, local
<1>6. ~ UNCHANGED vars
  BY DEF vars, local
<1>7. Poller \in Tasks /\ "Read" \in Guarded /\ Api \subseteq Guarded \cup Bare
  BY SpiAssumption DEF Guarded, Poller, Tasks
<1> QED
  BY <1>1, <1>2, <1>3, <1>5, <1>6, <1>7 DEF Next

-----------------------------------------------------------------------------
(* The theorems.                                                           *)

LEMMA Inductive == Spec => []IInv
<1>1. IInv /\ [Next]_vars => IInv'
  BY TypeStep, PlacesStep, BusStep DEF IInv
<1> QED
  BY <1>1, InitHolds, PTL DEF Spec

LEMMA LineHolds == ASSUME Careful PROVE Spec => []Line
<1>1. Init => Line
  BY DEF Init, Line, Mid
<1>2. IInv /\ Line /\ [Next]_vars => Line'
  BY LineStep
<1> QED
  BY <1>1, <1>2, Inductive, PTL DEF Spec

\* Type correctness: among others, sem_w5500 never counts beyond 1.
THEOREM SpiTypeCorrect == Spec => []TypeOK
<1>1. IInv => TypeOK
  BY DEF IInv
<1> QED
  BY <1>1, Inductive, PTL

\* sem_w5500 is with nobody, or with one task that is in a call that has
\* taken it: none of these calls, the read of a datagram that does not fit
\* included, ends without having given it back, for any number of tasks.
THEOREM SemaphoreComesBack == Spec => []BusGivenBack
<1>1. IInv => BusGivenBack
  BY DEF IInv
<1> QED
  BY <1>1, Inductive, PTL

\* The same, step by step: a call that takes sem_w5500 ends by a post and in no
\* other way, which counts the semaphore or hands it to one who waits.
THEOREM EveryWayOutPosts == Spec => [][\A t \in Tasks : LeavesByPost(t)]_vars
<1>1. IInv /\ [Next]_vars => [\A t \in Tasks : LeavesByPost(t)]_vars
  BY WayOut
<1> QED
  BY <1>1, Inductive, PTL DEF Spec

\* With one server, or any number of them if none makes a call that does not
\* take sem_w5500, a frame is only disturbed while such a call is in one.
THEOREM FramesStayWhole == ASSUME Careful PROVE Spec => []FramesWhole
<1>1. Line => FramesWhole
  BY DEF Line, FramesWhole
<1> QED
  BY <1>1, LineHolds, PTL

\* Under the same condition the guarded calls see registers that are read and
\* written at once, by one task at a time.
THEOREM ImplementsRegisters == ASSUME Careful PROVE Spec => IsRegisters
<1>1. Init => Wanted!Init
  BY DEF Init, Wanted!Init, Inside
<1>2. IInv /\ Line /\ [Next]_vars => [Exposed \/ Wanted!Next]_<<regs, seen, Holders>>
  BY StepMaps
<1> QED
  BY <1>1, <1>2, Inductive, LineHolds, PTL
  DEF Spec, IsRegisters, Wanted!vars, Holders

\* With the one server of the device, or any number of them that make no bare
\* call, a write changes the register it names to the value it names, and
\* nothing else, unless a call without the semaphore is in a frame.
THEOREM WritesArriveUnexposed ==
  ASSUME Careful
  PROVE  Spec => [][~ Exposed => \A t \in Tasks : WriteArrives(t)]_vars
<1>1. IInv /\ Line /\ [Next]_vars => [~ Exposed => \A t \in Tasks : WriteArrives(t)]_vars
  BY UndisturbedWrite
<1> QED
  BY <1>1, Inductive, LineHolds, PTL DEF Spec

\* If OPEN, LISTEN and the registers written before them went out under the
\* semaphore as everything else does, every write would arrive: nothing
\* but these calls stands between the driver and WritesArrive.
THEOREM WritesArriveGuarded ==
  ASSUME Api \subseteq Guarded
  PROVE  Spec => WritesArrive
<1>1. Careful
  BY DEF Careful
<1>2. Places => ~ Exposed
  BY SpiAssumption DEF Places, CallOf, Exposed, Guarded, Bare
<1>3. IInv /\ Line /\ [Next]_vars
        => [\A t \in Tasks :
              pc[t] = "data" /\ pc'[t] = "deselect" /\ Head(todo[t]).dir = "write"
                => regs' = [regs EXCEPT ![sock[t]][Head(todo[t]).reg] = Sent(t)]]_vars
  BY <1>2, UndisturbedWrite DEF IInv, WriteArrives
<1> QED
  BY <1>1, <1>3, Inductive, LineHolds, PTL DEF Spec, WritesArrive
=============================================================================
