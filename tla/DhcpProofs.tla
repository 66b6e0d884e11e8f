----------------------------- MODULE DhcpProofs -----------------------------
(***************************************************************************)
(* What the DHCP client keeps to with every number of servers, every lease *)
(* time, every number of retries and every network, proved with TLAPS.     *)
(***************************************************************************)
EXTENDS Dhcp, TLAPS

\* In a renewal the request went out once and once more per retry, and outside
\* of one none is counted.
AskedIs == asked = IF state = "REREQUEST" THEN retry + 1 ELSE 0

IInv == TypeOK /\ AskedIs

-----------------------------------------------------------------------------
(* Lemmas about the channels and the parts of DHCP_run.                    *)

\* What is put into a channel of the client's messages keeps its type.
LEMMA SendType ==
  ASSUME toServer \subseteq ToServer, NEW m \in ToServer, Send(m)
  PROVE  toServer' \subseteq ToServer
<1>1. toServer' \in {toServer, toServer \cup {m}}
  BY DEF Send, Carrying
<1> QED
  BY <1>1

LEMMA AnswerType ==
  ASSUME toClient \subseteq ToClient, NEW s \in Servers, NEW type \in Types, Answer(s, type)
  PROVE  toClient' \subseteq ToClient
<1> DEFINE m == [type |-> type, from |-> s]
<1>1. m \in ToClient
  BY DEF ToClient
<1>2. toClient' \in {toClient, toClient \cup {m}}
  BY DEF Answer, Carrying
<1> QED
  BY <1>1, <1>2

\* The messages of the client, for an address it may hold.
LEMMA MessageType ==
  ASSUME sip' \in Addresses, NEW ip \in Addresses
  PROVE  Discover \in ToServer /\ Request(ip) \in ToServer /\ Decline(ip) \in ToServer
BY DEF Discover, Request, Decline, ToServer

\* A call of DHCP_run, with the type of any message or none.
LEMMA SwitchStep ==
  ASSUME IInv, sip' \in Addresses, NEW type, NEW yiaddr \in Addresses,
         Switch(type, yiaddr)
  PROVE  /\ state' \in States /\ {allocated, old, chip}' \subseteq Addresses
         /\ tick' \in 0 .. MaxTick /\ retry' \in 0 .. MaxRetry
         /\ toServer' \subseteq ToServer
         /\ asked' \in 0 .. MaxRetry + 1 /\ AskedIs'
         /\ state = "REREQUEST" /\ state' = "DISCOVER"
              => asked = MaxRetry + 1 \/ type = "NAK"
<1> USE DhcpAssumption
<1>0. TypeOK /\ AskedIs
  BY DEF IInv
<1>1. ASSUME CheckTimeout, state \in {"DISCOVER", "REQUEST", "REREQUEST"}
      PROVE  /\ state' \in States /\ {allocated, old, chip}' \subseteq Addresses
             /\ tick' \in 0 .. MaxTick /\ retry' \in 0 .. MaxRetry
             /\ toServer' \subseteq ToServer
             /\ asked' \in 0 .. MaxRetry + 1 /\ AskedIs'
             /\ state = "REREQUEST" /\ state' = "DISCOVER" => asked = MaxRetry + 1
  <2>1. UNCHANGED Address /\ retry \in 0 .. MaxRetry /\ MaxRetry \in Nat /\ tick \in 0 .. MaxTick
    BY <1>0, <1>1 DEF CheckTimeout, TypeOK
  <2>2. CASE MayRetry /\ WaitTime < tick
    <3>1. Retransmit
      BY <1>1, <2>1, <2>2 DEF CheckTimeout
    <3>2. toServer' \subseteq ToServer
      BY <1>0, <3>1, SendType, MessageType DEF Retransmit, TypeOK
    <3>3. tick' = 0 /\ retry' = retry + 1 /\ state' = state /\ retry < MaxRetry
      BY <2>2, <3>1 DEF Retransmit, MayRetry
    <3>4. asked' = (IF state' = "REREQUEST" THEN retry' + 1 ELSE 0)
      BY <1>0, <3>1, <3>3 DEF Retransmit, AskedIs
    <3> QED
      BY <1>0, <1>1, <2>1, <3>2, <3>3, <3>4 DEF AskedIs, TypeOK, States, Address
  <2>3. CASE MayRetry /\ WaitTime >= tick
    <3>1. KeepWaiting
      BY <1>1, <2>1, <2>3 DEF CheckTimeout
    <3> QED
      BY <1>0, <1>1, <2>1, <3>1 DEF KeepWaiting, SendNothing, Timer, AskedIs, TypeOK, Address
  <2>4. CASE ~ MayRetry
    <3>1. GiveUp
      BY <1>1, <2>4 DEF CheckTimeout
    <3>2. toServer' \subseteq ToServer
      BY <1>0, <3>1, SendType, MessageType DEF GiveUp, SendNothing, TypeOK
    <3>3. retry = MaxRetry
      BY <2>1, <2>4 DEF MayRetry
    <3> QED
      BY <1>0, <1>1, <2>1, <3>1, <3>2, <3>3
      DEF GiveUp, ResetTimeout, AskedIs, TypeOK, States, Address
  <2>5. MayRetry => WaitTime < tick \/ WaitTime >= tick
    BY <2>1
  <2> QED
    BY <2>2, <2>3, <2>4, <2>5
<1>2. CASE RunInit
  <2>1. toServer' \subseteq ToServer
    BY <1>0, <1>2, SendType, MessageType DEF RunInit, TypeOK
  <2> QED
    BY <1>0, <1>2, <2>1 DEF RunInit, Timer, AskedIs, TypeOK, States, Addresses
<1>3. CASE RunDiscover(type, yiaddr)
  <2>1. CASE type = "OFFER"
    <3>1. Send(Request(yiaddr)) /\ toServer' \subseteq ToServer
      BY <1>0, <1>3, <2>1, SendType, MessageType DEF RunDiscover, TypeOK
    <3> QED
      BY <1>0, <1>3, <2>1, <3>1 DEF RunDiscover, Timer, AskedIs, TypeOK, States
  <2>2. CASE type # "OFFER"
    BY <1>1, <1>3, <2>2 DEF RunDiscover
  <2> QED
    BY <2>1, <2>2
<1>4. CASE RunRequest(type)
  <2>1. CASE type = "ACK"
    <3>1. toServer' \subseteq ToServer
      BY <1>0, <1>4, <2>1, SendType, MessageType DEF RunRequest, SendNothing, TypeOK
    <3> QED
      BY <1>0, <1>4, <2>1, <3>1
      DEF RunRequest, ResetTimeout, AskedIs, TypeOK, States, Addresses
  <2>2. CASE type = "NAK"
    BY <1>0, <1>4, <2>2
    DEF RunRequest, Refused, ResetTimeout, SendNothing, Address, AskedIs, TypeOK, States
  <2>3. CASE type \notin {"ACK", "NAK"}
    BY <1>1, <1>4, <2>3 DEF RunRequest
  <2> QED
    BY <2>1, <2>2, <2>3
<1>5. CASE RunLeased
  <2>1. CASE RenewalDue
    <3>1. toServer' \subseteq ToServer
      BY <1>0, <1>5, <2>1, SendType, MessageType DEF RunLeased, TypeOK
    <3> QED
      BY <1>0, <1>5, <2>1, <3>1 DEF RunLeased, ResetTimeout, AskedIs, TypeOK, States
  <2>2. CASE ~ RenewalDue
    BY <1>0, <1>5, <2>2 DEF RunLeased, SendNothing, Timer, Address, AskedIs, TypeOK
  <2> QED
    BY <2>1, <2>2
<1>6. CASE RunRerequest(type)
  <2>1. CASE type = "ACK"
    BY <1>0, <1>6, <2>1
    DEF RunRerequest, ResetTimeout, SendNothing, AskedIs, TypeOK, States
  <2>2. CASE type = "NAK"
    BY <1>0, <1>6, <2>2
    DEF RunRerequest, Refused, ResetTimeout, SendNothing, Address, AskedIs, TypeOK, States
  <2>3. CASE type \notin {"ACK", "NAK"}
    BY <1>1, <1>6, <2>3 DEF RunRerequest
  <2> QED
    BY <2>1, <2>2, <2>3
<1> QED
  BY <1>2, <1>3, <1>4, <1>5, <1>6 DEF Switch

-----------------------------------------------------------------------------
(* The steps.                                                              *)

\* Nothing was sent, granted or counted when the device starts.
LEMMA InitHolds == Init => IInv
<1> SUFFICES ASSUME Init PROVE IInv
  OBVIOUS
<1>1. tick \in 0 .. MaxTick /\ retry \in 0 .. MaxRetry /\ asked \in 0 .. MaxRetry + 1
  BY DhcpAssumption DEF Init
<1>2. left \in [Servers -> Nat]
  BY DEF Init
<1> QED
  BY <1>1, <1>2 DEF Init, IInv, TypeOK, AskedIs, States, Addresses

\* What a call of DHCP_run leaves alone has its type, and the rest by SwitchStep.
LEMMA RunStep ==
  ASSUME IInv, NEW type, NEW yiaddr \in Addresses, Switch(type, yiaddr),
         sip' \in Addresses, leaseTime' \in {Lease[s] : s \in Servers} \cup {Endless},
         toClient' \subseteq ToClient, net' = net, idle' \in BOOLEAN, left' = left
  PROVE  IInv'
<1>1. TypeOK
  BY DEF IInv
<1> QED
  BY <1>1, SwitchStep DEF IInv, TypeOK

\* The parse of a message of a server.
LEMMA ParseType ==
  ASSUME TypeOK, NEW m \in ToClient, Parse(m)
  PROVE  /\ sip' \in Addresses /\ m.from \in Addresses
         /\ leaseTime' \in {Lease[s] : s \in Servers} \cup {Endless}
BY DEF Parse, ToClient, Addresses, TypeOK

\* Every step of the client, the timer, the network and the servers preserves
\* the invariant.
LEMMA InvStep == IInv /\ [Next]_vars => IInv'
<1> SUFFICES ASSUME IInv, [Next]_vars PROVE IInv'
  OBVIOUS
<1> USE DhcpAssumption
<1>0. TypeOK /\ AskedIs
  BY DEF IInv
<1>1. CASE Poll
  <2>1. None \in Addresses
    BY DEF Addresses
  <2>2. Switch("none", None) /\ UNCHANGED <<sip, leaseTime, toClient, net, left>> /\ idle' \in BOOLEAN
    BY <1>1 DEF Poll
  <2> QED
    BY <1>0, <2>1, <2>2, RunStep DEF TypeOK
<1>2. ASSUME NEW m \in toClient, Receive(m) PROVE IInv'
  <2>1. m \in ToClient
    BY <1>0 DEF TypeOK
  <2>2. toClient' \subseteq ToClient
    BY <1>0, <1>2 DEF Receive, Without, TypeOK
  <2> QED
    BY <1>0, <1>2, <2>1, <2>2, ParseType, RunStep DEF Receive
<1>3. ASSUME NEW type \in Types, Stray(type) PROVE IInv'
  <2>1. None \in Addresses
    BY DEF Addresses
  <2> QED
    BY <1>0, <1>3, <2>1, RunStep DEF Stray, TypeOK
<1>4. CASE Stop
  BY <1>0, <1>4 DEF Stop, Timer, IInv, TypeOK, AskedIs, States
<1>5. CASE Restart
  BY <1>0, <1>5 DEF Restart, ResetTimeout, IInv, TypeOK, AskedIs, States, Addresses
<1>6. CASE Tick
  <2>1. tick' \in 0 .. MaxTick
    BY <1>0, <1>6 DEF Tick, TypeOK
  <2>2. left' \in [Servers -> Nat]
    BY <1>0, <1>6 DEF Tick, TypeOK
  <2> QED
    BY <1>0, <1>6, <2>1, <2>2 DEF Tick, IInv, TypeOK, AskedIs
<1>7. CASE Outside
  <2>1. UNCHANGED <<client, net, idle, asked>>
    BY <1>7 DEF Outside
  <2>2. toServer' \subseteq ToServer /\ toClient' \subseteq ToClient /\ left' \in [Servers -> Nat]
    <3>1. CASE Offer
      <4>1. [type : {"OFFER"}, from : Servers] \subseteq ToClient
        BY DEF ToClient, Types
      <4>2. toClient' \subseteq ToClient
        BY <1>0, <3>1, <4>1, AnswerType DEF Offer, Types, TypeOK
      <4> QED
        BY <1>0, <3>1, <4>2 DEF Offer, TypeOK
    <3>2. ASSUME NEW m \in toServer, Reply(m)
          PROVE  /\ toServer' \subseteq ToServer /\ toClient' \subseteq ToClient
                 /\ left' \in [Servers -> Nat]
      <4>1. toServer' \subseteq ToServer
        BY <1>0, <3>2 DEF Reply, TypeOK
      <4>2. toClient' \subseteq ToClient
        BY <1>0, <3>2, AnswerType DEF Reply, Types, TypeOK
      <4>3. left' \in [Servers -> Nat]
        BY <1>0, <3>2 DEF Reply, TypeOK, Endless
      <4> QED
        BY <4>1, <4>2, <4>3
    <3>3. ASSUME NEW m \in toServer, Declined(m)
          PROVE  /\ toServer' \subseteq ToServer /\ toClient' \subseteq ToClient
                 /\ left' \in [Servers -> Nat]
      BY <1>0, <3>3 DEF Declined, TypeOK
    <3>4. CASE Lose
      BY <1>0, <3>4 DEF Lose, TypeOK
    <3> QED
      BY <1>7, <3>1, <3>2, <3>3, <3>4 DEF Outside
  <2> QED
    BY <1>0, <2>1, <2>2 DEF client, IInv, TypeOK, AskedIs
<1>8. CASE Settle
  BY <1>0, <1>8 DEF Settle, client, IInv, TypeOK, AskedIs
<1>9. CASE UNCHANGED vars
  BY <1>0, <1>9 DEF vars, IInv, TypeOK, AskedIs
<1> QED
  BY <1>1, <1>2, <1>3, <1>4, <1>5, <1>6, <1>7, <1>8, <1>9 DEF Next, Deliver

\* A lease is given up in a call of DHCP_run only, after the last retry or
\* because of a NAK.
LEMMA GivesUpLate ==
  IInv /\ [Next]_vars
    => (state = "REREQUEST" /\ state' = "DISCOVER"
          => \/ asked = MaxRetry + 1
             \/ \E m \in toClient : m.type = "NAK"
             \/ Stray("NAK"))
<1> SUFFICES ASSUME IInv, [Next]_vars, state = "REREQUEST", state' = "DISCOVER",
                    asked # MaxRetry + 1
             PROVE  (\E m \in toClient : m.type = "NAK") \/ Stray("NAK")
  OBVIOUS
<1>0. TypeOK /\ None \in Addresses
  BY DEF IInv, Addresses
<1>1. ~ Poll
  <2>1. Poll => sip' \in Addresses /\ Switch("none", None)
    BY <1>0 DEF Poll, TypeOK
  <2> QED
    BY <1>0, <2>1, SwitchStep
<1>2. ASSUME NEW m \in toClient, Receive(m) PROVE m.type = "NAK"
  <2>1. sip' \in Addresses /\ m.from \in Addresses /\ Switch(m.type, m.from)
    BY <1>0, <1>2, ParseType DEF Receive, TypeOK
  <2> QED
    BY <2>1, SwitchStep
<1>3. ASSUME NEW type \in Types, Stray(type) PROVE type = "NAK"
  <2>1. sip' \in Addresses /\ Switch(type, None)
    BY <1>0, <1>3 DEF Stray, TypeOK
  <2> QED
    BY <1>0, <2>1, SwitchStep
<1>4. ~ Stop /\ ~ Restart /\ ~ Tick /\ ~ Outside /\ ~ Settle /\ ~ UNCHANGED vars
  BY DEF Stop, Restart, Tick, Outside, Settle, client, vars
<1> QED
  BY <1>1, <1>2, <1>3, <1>4 DEF Next, Deliver

-----------------------------------------------------------------------------
(* The theorems.                                                           *)

LEMMA Inductive == Spec => []IInv
<1> QED
  BY InitHolds, InvStep, PTL DEF Spec

\* Type correctness: among others, the count of retries never passes
\* MAX_DHCP_RETRY and nothing but a server's answer sets the lease time.
THEOREM DhcpTypeCorrect == Spec => []TypeOK
<1>1. IInv => TypeOK
  BY DEF IInv
<1> QED
  BY <1>1, Inductive, PTL

\* Whatever the network does, and for every MAX_DHCP_RETRY: a renewal is given
\* up only after all the retries, or for a NAK.
THEOREM GivesUpForAReason == Spec => KeepsAsking
<1>1. IInv /\ [Next]_vars
        => [ state = "REREQUEST" /\ state' = "DISCOVER"
          => \/ asked = MaxRetry + 1
             \/ \E m \in toClient : m.type = "NAK"
             \/ Stray("NAK") ]_vars
  BY GivesUpLate
<1> QED
  BY <1>1, Inductive, PTL DEF Spec, KeepsAsking

-----------------------------------------------------------------------------
(* A reliable network, where the lease is kept.                            *)

\* The OFFERs under way, and the messages that are or will be a NAK.
Offers == {m \in toClient : m.type = "OFFER"}
Refusals == {m \in toServer : m.type = "REQUEST" /\ m.to # m.ip}
              \cup {m \in toClient : m.type = "NAK"}

\* An ACK of server s is under way, or the REQUEST it will answer so.
GrantFor(s) == \/ [type |-> "REQUEST", to |-> s, ip |-> s] \in toServer
               \/ [type |-> "ACK", from |-> s] \in toClient

\* The lease of s began in the second in which the client's clock did.
Granted(s) == Lease[s] = Endless \/ left[s] >= Lease[s] - tick

\* Datagrams do not outlive the second in which the clock was restarted; the
\* OFFERs of one DISCOVER are over before the next; an ACK under way is fresh;
\* and no more than one refusal is.
CalmNetwork ==
    /\ toServer # {} \/ toClient # {} => tick = 0
    /\ Discover \in toServer => state = "DISCOVER" /\ Offers = {}
    /\ \A m \in toServer : m.type # "DECLINE"
    /\ \A s \in Servers : [type |-> "ACK", from |-> s] \in toClient
                            => Lease[s] = Endless \/ left[s] = Lease[s]
    /\ \A m, n \in Refusals : m = n

\* INIT is the state of a device that was just started.
InInit ==
    toServer = {} /\ toClient = {} /\ tick = 0 /\ retry = 0 /\ ~ idle

\* No retry but the first is needed, and that one is answered.
InDiscover ==
    /\ retry <= 1
    /\ retry = 1 => Discover \in toServer \/ Offers # {}
    /\ (\E s \in Servers : GrantFor(s)) => Refusals = {}

\* The ACK the client waits for is under way, and the server that sends it
\* has no OFFER under way.  A refusal from before finds no other grant.
InRequest ==
    /\ allocated \in Servers /\ retry <= 1
    /\ GrantFor(allocated)
    /\ [type |-> "OFFER", from |-> allocated] \notin toClient
    /\ (\E s \in Servers : s # allocated /\ GrantFor(s)) => Refusals = {}

\* The renewal is due one second after half of the lease, and the call that
\* finds nothing to do has looked.  Going by the grant, the client knows when
\* the lease began.
InLeased ==
    /\ allocated \in Servers /\ chip = allocated
    /\ [type |-> "OFFER", from |-> allocated] \notin toClient
    /\ leaseTime # Endless
         => tick <= leaseTime \div 2 + 1 /\ (idle => tick <= leaseTime \div 2)
    /\ tick = 0 => Granted(chip) \/ (sip # chip /\ Refusals = {})
    /\ GoesByGrant => Granted(chip)

\* Nothing but the request of this renewal, or its answer, is under way; and
\* something is when the right server was asked.
InRerequest ==
    /\ allocated \in Servers /\ chip = allocated /\ old = allocated
    /\ toServer \subseteq {[type |-> "REQUEST", to |-> sip, ip |-> allocated]}
    /\ toClient \subseteq {[type |-> IF sip = allocated THEN "ACK" ELSE "NAK", from |-> sip]}
    /\ toServer = {} \/ toClient = {}
    /\ sip = allocated => retry = 0 /\ (toServer # {} \/ toClient # {})
    /\ GoesByGrant /\ leaseTime # Endless => left[chip] > 0

Orderly ==
    /\ CalmNetwork
    /\ state # "STOP"
    /\ state = "INIT" => InInit
    /\ state = "DISCOVER" => InDiscover
    /\ state = "REQUEST" => InRequest
    /\ state = "LEASED" => InLeased
    /\ state = "REREQUEST" => InRerequest

LInv == Servers # {} /\ net = "reliable" => Orderly

\* What it takes: the client has two retries, as MAX_DHCP_RETRY says, and no
\* server grants leases of less than three seconds.
LeasesLast ==
    /\ MaxRetry >= 2
    /\ \A s \in Servers : Lease[s] = Endless \/ Lease[s] >= 3

-----------------------------------------------------------------------------
(* One lemma per kind of step on a reliable network.                       *)

Reliable ==
    TypeOK /\ Orderly /\ Servers # {} /\ net = "reliable" /\ LeasesLast

\* What is sent arrives.
LEMMA NothingIsLost ==
  ASSUME net = "reliable"
  PROVE  /\ ~ Lossy
         /\ \A m : Send(m) => toServer' = toServer \cup {m}
         /\ \A m : Without(toClient, m) = {toClient \ {m}}
         /\ \A s, type : Answer(s, type) => toClient' = toClient \cup {[type |-> type, from |-> s]}
BY DEF Lossy, Send, Carrying, Without, Answer

\* The invariant in pieces: the network, and what the new state says.
LEMMA OrderlyAfter ==
  /\ CalmNetwork' /\ state' = "DISCOVER" /\ InDiscover' => Orderly'
  /\ CalmNetwork' /\ state' = "REQUEST" /\ InRequest' => Orderly'
  /\ CalmNetwork' /\ state' = "LEASED" /\ InLeased' => Orderly'
  /\ CalmNetwork' /\ state' = "REREQUEST" /\ InRerequest' => Orderly'
BY DEF Orderly

\* A second passes.
LEMMA TickKeeps ==
  ASSUME Reliable, Tick
  PROVE  Orderly'
<1> USE DhcpAssumption
<1>0. TypeOK /\ Orderly /\ net = "reliable" /\ ~ Lossy
  BY DEF Reliable, Lossy
<1>1. /\ idle /\ toServer = {} /\ toClient = {} /\ ~ idle'
      /\ tick' = (IF tick < MaxTick THEN tick + 1 ELSE tick)
      /\ left' = [s \in Servers |-> IF left[s] > 0 THEN left[s] - 1 ELSE 0]
      /\ UNCHANGED <<state, allocated, old, sip, leaseTime, retry, chip, toServer, toClient>>
  BY <1>0 DEF Tick
<1>2. CalmNetwork'
  BY <1>1 DEF CalmNetwork, Offers, Refusals
<1>3. state # "INIT" /\ state # "STOP" /\ state # "REQUEST"
  BY <1>0, <1>1 DEF Orderly, InInit, InRequest, GrantFor
<1>4. CASE state = "DISCOVER"
  <2>1. InDiscover
    BY <1>0, <1>4 DEF Orderly
  <2>2. InDiscover'
    BY <1>1, <2>1 DEF InDiscover, Offers, Refusals, GrantFor
  <2> QED
    BY <1>1, <1>2, <1>4, <2>2, OrderlyAfter
<1>5. CASE state = "LEASED"
  <2>1. InLeased
    BY <1>0, <1>5 DEF Orderly
  <2>2. tick \in Nat /\ tick <= MaxTick /\ MaxTick \in Nat /\ tick' \in Nat /\ tick' # 0
    BY <1>0, <1>1 DEF TypeOK
  <2>3. ASSUME leaseTime # Endless
        PROVE  tick' = tick + 1 /\ leaseTime \in Nat /\ tick <= leaseTime \div 2
    <3>1. PICK s \in Servers : leaseTime = Lease[s]
      BY <1>0, <2>3 DEF TypeOK
    <3>2. leaseTime \in Nat /\ leaseTime \div 2 \in Int /\ leaseTime \div 2 < MaxTick
      BY <2>3, <3>1 DEF Endless
    <3>3. tick <= leaseTime \div 2
      BY <1>1, <2>1, <2>3 DEF InLeased
    <3> QED
      BY <1>1, <2>2, <3>2, <3>3
  <2>4. leaseTime # Endless => tick' <= leaseTime \div 2 + 1
    <3> SUFFICES ASSUME leaseTime # Endless PROVE tick' <= leaseTime \div 2 + 1
      OBVIOUS
    <3> DEFINE half == leaseTime \div 2
    <3>1. half \in Int /\ tick <= half /\ tick' = tick + 1
      BY <2>3
    <3> HIDE DEF half
    <3>2. tick' <= half + 1
      BY <2>2, <3>1
    <3> QED
      BY <3>2 DEF half
  <2>5. GoesByGrant => Granted(chip)'
    <3> SUFFICES ASSUME GoesByGrant, Lease[chip] # Endless
                 PROVE  left'[chip] >= Lease[chip] - tick'
      BY <1>1 DEF Granted
    <3>1. chip \in Servers /\ Granted(chip) /\ leaseTime = Lease[chip]
      BY <2>1 DEF InLeased, GoesByGrant
    <3>2. tick' = tick + 1 /\ Lease[chip] \in Nat /\ left[chip] \in Nat
      BY <1>0, <2>3, <3>1 DEF TypeOK
    <3>3. left[chip] >= Lease[chip] - tick
      BY <3>1 DEF Granted
    <3>4. left'[chip] = IF left[chip] > 0 THEN left[chip] - 1 ELSE 0
      BY <1>1, <3>1
    <3> QED
      BY <2>2, <3>2, <3>3, <3>4
  <2>6. GoesByGrant' = GoesByGrant
    BY <1>1 DEF GoesByGrant
  <2>7. InLeased'
    BY <1>1, <2>1, <2>2, <2>4, <2>5, <2>6 DEF InLeased
  <2> QED
    BY <1>1, <1>2, <1>5, <2>7, OrderlyAfter
<1>6. CASE state = "REREQUEST"
  <2>1. InRerequest
    BY <1>0, <1>6 DEF Orderly
  <2>2. sip # allocated /\ chip = allocated
    BY <1>1, <2>1 DEF InRerequest
  <2>3. InRerequest'
    BY <1>1, <2>1, <2>2 DEF InRerequest, GoesByGrant
  <2> QED
    BY <1>1, <1>2, <1>6, <2>3, OrderlyAfter
<1> QED
  BY <1>0, <1>3, <1>4, <1>5, <1>6 DEF TypeOK, States

\* The servers answer a DISCOVER.
LEMMA OfferKeeps ==
  ASSUME Reliable, Offer, UNCHANGED <<client, net, idle, asked>>
  PROVE  Orderly'
<1>0. TypeOK /\ Orderly /\ net = "reliable" /\ ~ Lossy /\ Servers # {}
  BY DEF Reliable, Lossy
<1>1. /\ Discover \in toServer /\ toServer' = toServer \ {Discover}
      /\ toClient' = toClient \cup [type : {"OFFER"}, from : Servers]
      /\ UNCHANGED <<left, client, net, idle, asked>>
  BY <1>0 DEF Offer
<1>2. state = "DISCOVER" /\ tick = 0 /\ InDiscover /\ CalmNetwork
  BY <1>0, <1>1 DEF Orderly, CalmNetwork
<1>3. Discover.type = "DISCOVER"
  BY DEF Discover
<1>4. Refusals' = Refusals
  BY <1>1, <1>3 DEF Refusals
<1>5. \A s \in Servers : GrantFor(s)' <=> GrantFor(s)
  BY <1>1, <1>3 DEF GrantFor
<1>6. Offers' # {}
  <2>1. PICK s \in Servers : TRUE
    BY <1>0
  <2>2. [type |-> "OFFER", from |-> s] \in toClient' /\ [type |-> "OFFER", from |-> s].type = "OFFER"
    BY <1>1
  <2> QED
    BY <2>2 DEF Offers
<1>7. CalmNetwork'
  <2>1. \A s \in Servers : [type |-> "ACK", from |-> s] \in toClient' => [type |-> "ACK", from |-> s] \in toClient
    BY <1>1
  <2> QED
    BY <1>1, <1>2, <1>4, <2>1 DEF CalmNetwork, client
<1>8. InDiscover'
  BY <1>1, <1>2, <1>4, <1>5, <1>6 DEF InDiscover, client
<1> QED
  BY <1>1, <1>2, <1>7, <1>8, OrderlyAfter DEF client

\* The client's own reasons to send: after a second in which nothing came.
LEMMA ClockOnlyWhenQuiet ==
  ASSUME Reliable, WaitTime < tick
  PROVE  /\ toServer = {} /\ toClient = {}
         /\ state # "REQUEST" /\ state # "INIT"
         /\ state = "DISCOVER" => retry = 0
<1>0. TypeOK /\ Orderly /\ WaitTime \in Nat /\ tick \in Nat
  BY DhcpAssumption DEF Reliable, TypeOK
<1>1. tick # 0
  BY <1>0
<1>2. toServer = {} /\ toClient = {}
  BY <1>0, <1>1 DEF Orderly, CalmNetwork
<1>3. state # "REQUEST" /\ state # "INIT"
  BY <1>0, <1>1, <1>2 DEF Orderly, InRequest, InInit, GrantFor
<1>4. state = "DISCOVER" => retry = 0
  BY <1>0, <1>2 DEF Orderly, InDiscover, Offers, TypeOK
<1> QED
  BY <1>2, <1>3, <1>4

\* What check_DHCP_timeout finds: in DISCOVER and REQUEST there is a retry left.
LEMMA RetriesLeft ==
  ASSUME Reliable, state \in {"DISCOVER", "REQUEST"}
  PROVE  MayRetry
<1>1. retry <= 1 /\ retry \in Nat /\ MaxRetry \in Nat /\ MaxRetry >= 2
  BY DhcpAssumption DEF Reliable, Orderly, InDiscover, InRequest, TypeOK, LeasesLast
<1> QED
  BY <1>1 DEF MayRetry

\* While datagrams are under way the clock stands at 0 and the client waits.
LEMMA WaitsForAnswers ==
  ASSUME Reliable, state \in {"DISCOVER", "REQUEST"}, CheckTimeout, tick = 0
  PROVE  UNCHANGED <<state, allocated, old, chip, tick, retry, toServer, asked>>
<1>1. WaitTime >= tick /\ ~ (WaitTime < tick)
  BY DhcpAssumption
<1>2. KeepWaiting /\ UNCHANGED Address
  BY <1>1, RetriesLeft DEF CheckTimeout
<1> QED
  BY <1>2 DEF KeepWaiting, SendNothing, Timer, Address

\* One message leaves the channel to a client that is in DISCOVER and stays
\* there, waiting.
LEMMA DiscoverWaits ==
  ASSUME Reliable, state = "DISCOVER", NEW m \in toClient, m.type # "OFFER",
         toClient' = toClient \ {m},
         UNCHANGED <<state, tick, retry, toServer, left>>
  PROVE  Orderly'
<1>0. CalmNetwork /\ InDiscover
  BY DEF Reliable, Orderly
<1>1. Offers' = Offers /\ Refusals' \subseteq Refusals
  BY DEF Offers, Refusals
<1>2. \A s \in Servers : GrantFor(s)' => GrantFor(s)
  BY DEF GrantFor
<1>3. CalmNetwork'
  BY <1>0, <1>1 DEF CalmNetwork
<1>4. InDiscover'
  BY <1>0, <1>1, <1>2 DEF InDiscover
<1> QED
  BY <1>3, <1>4, OrderlyAfter

LEMMA HalfIsNatural ==
  ASSUME NEW n \in Nat
  PROVE  n \div 2 \in Nat /\ ~ (n \div 2 < 0) /\ 0 <= n \div 2 /\ 0 <= n \div 2 + 1
<1> DEFINE half == n \div 2
<1>1. half \in Int /\ 2 * half <= n /\ n <= 2 * half + 1
  OBVIOUS
<1> HIDE DEF half
<1>2. half \in Nat /\ ~ (half < 0) /\ 0 <= half /\ 0 <= half + 1
  BY <1>1
<1> QED
  BY <1>2 DEF half

\* Half of a lease time is not over in the second it was set.
LEMMA NotDueAtOnce ==
  ASSUME TypeOK, tick = 0, leaseTime' \in Nat \cup {Endless}
  PROVE  ~ RenewalDue
BY HalfIsNatural DEF RenewalDue

\* A DISCOVER is no REQUEST.
LEMMA NoGrantForDiscover ==
  \A t, ip : [type |-> "REQUEST", to |-> t, ip |-> ip] # Discover
<1> SUFFICES ASSUME NEW t, NEW ip, [type |-> "REQUEST", to |-> t, ip |-> ip] = Discover PROVE FALSE
  OBVIOUS
<1>1. [type |-> "REQUEST", to |-> t, ip |-> ip].type = Discover.type
  OBVIOUS
<1> QED
  BY <1>1 DEF Discover

\* The channels after one send into a quiet network.
LEMMA QuietThenOne ==
  ASSUME toServer = {}, toClient = {}, toClient' = {}, NEW m, toServer' = {m}, tick' = 0,
         \/ m = Discover /\ state' = "DISCOVER"
         \/ \E t, ip \in Addresses : m = [type |-> "REQUEST", to |-> t, ip |-> ip]
  PROVE  CalmNetwork'
<1>1. Offers' = {}
  BY DEF Offers
<1>2. m.type # "DECLINE" /\ (m = Discover => state' = "DISCOVER")
  BY DEF Discover
<1>3. \A n \in Refusals' : n = m
  BY DEF Refusals
<1> QED
  BY <1>1, <1>2, <1>3 DEF CalmNetwork

\* A call of DHCP_run that finds no datagram.
LEMMA PollKeeps ==
  ASSUME Reliable, Poll
  PROVE  Orderly'
<1> USE DhcpAssumption
<1>0. TypeOK /\ Orderly /\ CalmNetwork /\ net = "reliable"
  BY DEF Reliable, Orderly
<1>1. /\ UNCHANGED <<sip, leaseTime, toClient, net, left>>
      /\ Switch("none", None)
      /\ idle' => UNCHANGED <<client, toServer>>
  BY DEF Poll
<1>2. \A m : Send(m) => toServer' = toServer \cup {m}
  BY <1>0, NothingIsLost
<1>t. /\ tick \in Nat /\ retry \in Nat /\ MaxRetry \in Nat /\ WaitTime \in Nat /\ MaxRetry >= 2
      /\ {allocated, old, sip, chip} \subseteq Addresses
  BY <1>0 DEF TypeOK, Reliable, LeasesLast
<1>3. CASE RunInit
  <2>1. InInit /\ state' = "DISCOVER" /\ toServer' = {Discover} /\ UNCHANGED <<tick, retry>>
    BY <1>0, <1>2, <1>3 DEF RunInit, Orderly, InInit, Timer
  <2>2. CalmNetwork'
    BY <1>1, <2>1, QuietThenOne DEF InInit
  <2>3. InDiscover'
    BY <1>1, <2>1, NoGrantForDiscover DEF InInit, InDiscover, GrantFor
  <2> QED
    BY <2>1, <2>2, <2>3, OrderlyAfter
<1>4. CASE state = "DISCOVER" /\ CheckTimeout
  <2>1. CASE WaitTime < tick
    <3>1. toServer = {} /\ toClient = {} /\ retry = 0
      BY <1>4, <2>1, ClockOnlyWhenQuiet
    <3>2. Retransmit
      BY <1>4, <2>1, <1>t, RetriesLeft DEF CheckTimeout
    <3>3. tick' = 0 /\ retry' = 1 /\ state' = "DISCOVER" /\ toServer' = {Discover} /\ toClient' = {}
      BY <1>1, <1>2, <1>4, <3>1, <3>2 DEF Retransmit
    <3>4. CalmNetwork'
      BY <3>1, <3>3, QuietThenOne
    <3>5. InDiscover'
      BY <3>3, NoGrantForDiscover DEF InDiscover, GrantFor
    <3> QED
      BY <3>3, <3>4, <3>5, OrderlyAfter
  <2>2. CASE WaitTime >= tick
    <3>1. KeepWaiting /\ ~ (WaitTime < tick)
      BY <1>4, <1>t, <2>2, RetriesLeft DEF CheckTimeout
    <3>2. UNCHANGED <<state, tick, retry, toServer, toClient, left>>
      BY <1>1, <3>1 DEF KeepWaiting, SendNothing, Timer
    <3>3. CalmNetwork'
      BY <1>0, <3>2 DEF CalmNetwork, Offers, Refusals
    <3>4. InDiscover'
      BY <1>0, <1>4, <3>2 DEF Orderly, InDiscover, Offers, Refusals, GrantFor
    <3> QED
      BY <1>4, <3>2, <3>3, <3>4, OrderlyAfter
  <2> QED
    BY <1>t, <2>1, <2>2
<1>5. CASE state = "REQUEST" /\ CheckTimeout
  <2>1. tick = 0 /\ InRequest
    BY <1>0, <1>5 DEF Orderly, CalmNetwork, InRequest, GrantFor
  <2>2. UNCHANGED <<state, allocated, old, chip, tick, retry, toServer, asked>>
    BY <1>5, <2>1, WaitsForAnswers
  <2>3. CalmNetwork'
    BY <1>0, <1>1, <2>2 DEF CalmNetwork, Offers, Refusals
  <2>4. InRequest'
    BY <1>1, <2>1, <2>2 DEF InRequest, GrantFor, Refusals
  <2> QED
    BY <1>5, <2>2, <2>3, <2>4, OrderlyAfter
<1>6. CASE RunLeased
  <2>0. state = "LEASED" /\ InLeased
    BY <1>0, <1>6 DEF RunLeased, Orderly
  <2>1. CASE RenewalDue
    <3>1. leaseTime # Endless /\ leaseTime \in Nat /\ leaseTime \div 2 < tick /\ tick # 0
      <4>1. leaseTime # Endless /\ leaseTime \div 2 < tick
        BY <1>1, <2>1 DEF RenewalDue
      <4>2. leaseTime \in Nat
        BY <1>0, <4>1 DEF TypeOK, Endless
      <4> QED
        BY <4>1, <4>2
    <3>2. toServer = {} /\ toClient = {}
      BY <1>0, <3>1 DEF CalmNetwork
    <3>3. /\ old' = allocated /\ UNCHANGED <<allocated, chip, sip, leaseTime, left>>
          /\ tick' = 0 /\ retry' = 0 /\ state' = "REREQUEST"
          /\ toServer' = {[type |-> "REQUEST", to |-> sip, ip |-> allocated]} /\ toClient' = {}
      BY <1>1, <1>2, <1>6, <2>1, <3>2 DEF RunLeased, ResetTimeout, Request
    <3>4. CalmNetwork'
      BY <1>t, <3>2, <3>3, QuietThenOne
    <3>5. GoesByGrant => left[chip] > 0
      <4> SUFFICES ASSUME GoesByGrant PROVE left[chip] > 0
        OBVIOUS
      <4> DEFINE l == Lease[chip]
                 half == l \div 2
      <4>1. chip \in Servers /\ Granted(chip) /\ leaseTime = l
        BY <2>0 DEF InLeased, GoesByGrant
      <4>2. left[chip] >= l - tick /\ left[chip] \in Nat
        BY <1>0, <3>1, <4>1 DEF Granted, TypeOK
      <4>3. l >= 3 /\ l \in Nat
        BY <3>1, <4>1 DEF Reliable, LeasesLast
      <4>4. tick <= half + 1
        BY <2>0, <3>1, <4>1 DEF InLeased
      <4>5. half \in Nat /\ 2 * half <= l
        BY <4>3
      <4> HIDE DEF l, half
      <4> QED
        BY <1>t, <4>2, <4>3, <4>4, <4>5
    <3>6. InRerequest'
      BY <2>0, <3>3, <3>5 DEF InRerequest, InLeased, GoesByGrant
    <3> QED
      BY <3>3, <3>4, <3>6, OrderlyAfter
  <2>2. CASE ~ RenewalDue
    <3>1. UNCHANGED <<state, allocated, old, chip, tick, retry, toServer, toClient, sip, leaseTime, left>>
      BY <1>1, <1>6, <2>2 DEF RunLeased, SendNothing, Timer, Address
    <3>2. leaseTime # Endless => tick <= leaseTime \div 2
      <4> SUFFICES ASSUME leaseTime # Endless PROVE tick <= leaseTime \div 2
        OBVIOUS
      <4> DEFINE half == leaseTime \div 2
      <4>1. leaseTime \in Nat
        BY <1>0 DEF TypeOK, Endless
      <4>2. half \in Nat /\ ~ (half < tick)
        BY <1>1, <2>2, <4>1 DEF RenewalDue
      <4> HIDE DEF half
      <4>3. tick <= half
        BY <1>t, <4>2
      <4> QED
        BY <4>3 DEF half
    <3>3. CalmNetwork'
      BY <1>0, <3>1 DEF CalmNetwork, Offers, Refusals
    <3>4. InLeased'
      BY <2>0, <3>1, <3>2 DEF InLeased, Granted, GoesByGrant, Refusals
    <3> QED
      BY <2>0, <3>1, <3>3, <3>4, OrderlyAfter
  <2> QED
    BY <2>1, <2>2
<1>7. CASE state = "REREQUEST" /\ CheckTimeout
  <2>0. InRerequest
    BY <1>0, <1>7 DEF Orderly
  <2>a. UNCHANGED Address
    BY <1>7 DEF CheckTimeout
  <2>1. CASE MayRetry /\ WaitTime < tick
    <3>1. toServer = {} /\ toClient = {}
      BY <2>1, ClockOnlyWhenQuiet
    <3>2. Retransmit
      BY <1>7, <1>t, <2>1 DEF CheckTimeout
    <3>3. /\ tick' = 0 /\ state' = "REREQUEST" /\ toClient' = {}
          /\ toServer' = {[type |-> "REQUEST", to |-> sip, ip |-> allocated]}
      BY <1>1, <1>2, <1>7, <3>1, <3>2 DEF Retransmit, Request
    <3>4. CalmNetwork'
      BY <1>t, <3>1, <3>3, QuietThenOne
    <3>5. sip # allocated
      BY <2>0, <3>1 DEF InRerequest
    <3>6. InRerequest'
      BY <1>1, <2>0, <2>a, <3>3, <3>5 DEF InRerequest, GoesByGrant, Address
    <3> QED
      BY <3>3, <3>4, <3>6, OrderlyAfter
  <2>2. CASE MayRetry /\ WaitTime >= tick
    <3>1. KeepWaiting /\ ~ (WaitTime < tick)
      BY <1>7, <1>t, <2>2 DEF CheckTimeout
    <3>2. UNCHANGED <<state, allocated, old, chip, tick, retry, toServer, toClient, sip, leaseTime, left>>
      BY <1>1, <2>a, <3>1 DEF KeepWaiting, SendNothing, Timer, Address
    <3>3. CalmNetwork'
      BY <1>0, <3>2 DEF CalmNetwork, Offers, Refusals
    <3>4. InRerequest'
      BY <2>0, <3>2 DEF InRerequest, GoesByGrant
    <3> QED
      BY <1>7, <3>2, <3>3, <3>4, OrderlyAfter
  <2>3. CASE ~ MayRetry
    <3>1. GiveUp
      BY <1>7, <2>3 DEF CheckTimeout
    <3>2. /\ tick' = 0 /\ retry' = 0 /\ state' = "DISCOVER" /\ toServer' = toServer \cup {Discover}
      BY <1>2, <1>7, <3>1 DEF GiveUp, ResetTimeout
    <3>3. retry # 0
      BY <1>t, <2>3 DEF MayRetry
    <3>4. sip # allocated
      BY <2>0, <3>3 DEF InRerequest
    <3>5. /\ \A m \in toServer : m = [type |-> "REQUEST", to |-> sip, ip |-> allocated]
          /\ \A m \in toClient : m = [type |-> "NAK", from |-> sip]
          /\ toServer = {} \/ toClient = {}
      BY <2>0, <3>4 DEF InRerequest
    <3>6. Offers' = {}
      BY <1>1, <3>5 DEF Offers
    <3>7. \A s \in Servers : ~ GrantFor(s)'
      BY <1>1, <3>2, <3>4, <3>5 DEF GrantFor, Discover
    <3>8. Refusals' \subseteq Refusals
      BY <1>1, <3>2 DEF Refusals, Discover
    <3>9. CalmNetwork'
      BY <1>0, <1>1, <3>2, <3>5, <3>6, <3>8 DEF CalmNetwork, Discover
    <3>10. InDiscover'
      BY <3>2, <3>7 DEF InDiscover
    <3> QED
      BY <3>2, <3>9, <3>10, OrderlyAfter
  <2> QED
    BY <1>t, <2>1, <2>2, <2>3
<1> QED
  BY <1>1, <1>3, <1>4, <1>5, <1>6, <1>7 DEF Switch, RunDiscover, RunRequest, RunRerequest

\* A server answers a REQUEST, or leaves it.
LEMMA ReplyKeeps ==
  ASSUME Reliable, NEW m \in toServer, Reply(m), UNCHANGED <<client, net, idle, asked>>
  PROVE  Orderly'
<1> USE DhcpAssumption
<1>0. TypeOK /\ Orderly /\ CalmNetwork /\ ~ Lossy /\ net = "reliable"
  BY DEF Reliable, Orderly, Lossy
<1>1. /\ tick = 0 /\ tick \in Nat /\ toServer' = toServer \ {m} /\ m.type = "REQUEST"
      /\ UNCHANGED <<state, allocated, old, sip, leaseTime, tick, retry, chip, idle>>
  BY <1>0 DEF CalmNetwork, Reply, client
<1>2. PICK t \in Addresses, ip \in Addresses : m = [type |-> "REQUEST", to |-> t, ip |-> ip]
  BY <1>0, <1>1 DEF TypeOK, ToServer, Discover
<1>3. /\ state = "DISCOVER" => InDiscover
      /\ state = "REQUEST" => InRequest
      /\ state = "LEASED" => InLeased
      /\ state = "REREQUEST" => InRerequest
      /\ state \in {"DISCOVER", "REQUEST", "LEASED", "REREQUEST"}
  BY <1>0, <1>1 DEF Orderly, InInit, TypeOK, States
<1>4. Discover \in toServer' <=> Discover \in toServer
  BY <1>1, <1>2, NoGrantForDiscover
\* The server asked for its own address grants it.
<1>5. CASE t = ip /\ t \in Servers
  <2> DEFINE ack == [type |-> "ACK", from |-> t]
  <2>1. /\ toClient' = toClient \cup {ack}
        /\ left' = IF Lease[t] # Endless THEN [left EXCEPT ![t] = Lease[t]] ELSE left
    <3>1. Answer(t, "ACK") /\ left' = IF Lease[t] # Endless THEN [left EXCEPT ![t] = Lease[t]] ELSE left
      BY <1>0, <1>2, <1>5 DEF Reply
    <3> QED
      BY <1>0, <3>1, NothingIsLost
  <2>2. \A s \in Servers : /\ Lease[s] = Endless \/ left'[s] = Lease[s] \/ left'[s] = left[s]
                           /\ s = t => Lease[s] = Endless \/ left'[s] = Lease[s]
    BY <1>0, <2>1 DEF TypeOK
  <2>3. Offers' = Offers /\ Refusals' = Refusals
    <3>1. m \notin Refusals
      BY <1>2, <1>5 DEF Refusals
    <3> QED
      BY <1>1, <1>2, <1>5, <2>1, <3>1 DEF Offers, Refusals
  <2>4. \A s \in Servers : GrantFor(s)' <=> GrantFor(s)
    <3>1. GrantFor(t)' /\ GrantFor(t)
      BY <1>2, <1>5, <2>1 DEF GrantFor
    <3>2. ASSUME NEW s \in Servers, s # t PROVE GrantFor(s)' <=> GrantFor(s)
      <4>1. [type |-> "REQUEST", to |-> s, ip |-> s] # m /\ [type |-> "ACK", from |-> s] # ack
        BY <1>2, <3>2
      <4> QED
        BY <1>1, <2>1, <4>1 DEF GrantFor
    <3> QED
      BY <3>1, <3>2
  <2>5. CalmNetwork'
    <3>1. \A s \in Servers : [type |-> "ACK", from |-> s] \in toClient'
                               => [type |-> "ACK", from |-> s] \in toClient \/ s = t
      BY <2>1
    <3>2. \A s \in Servers : [type |-> "ACK", from |-> s] \in toClient'
                               => Lease[s] = Endless \/ left'[s] = Lease[s]
      BY <1>0, <2>2, <3>1 DEF CalmNetwork
    <3> QED
      BY <1>0, <1>1, <1>4, <2>3, <3>2 DEF CalmNetwork
  <2>6. \A s \in Servers : [type |-> "OFFER", from |-> s] \in toClient' => [type |-> "OFFER", from |-> s] \in toClient
    BY <2>1
  <2>7. ASSUME state = "DISCOVER" PROVE InDiscover'
    BY <1>1, <1>3, <1>4, <2>3, <2>4, <2>7 DEF InDiscover
  <2>8. ASSUME state = "REQUEST" PROVE InRequest'
    BY <1>1, <1>3, <2>3, <2>4, <2>6, <2>8 DEF InRequest
  <2>9. ASSUME state = "LEASED" PROVE InLeased'
    <3>1. chip \in Servers /\ chip' = chip
      BY <1>1, <1>3, <2>9 DEF InLeased
    <3>2. Granted(chip) => Granted(chip)'
      <4>1. Lease[chip] # Endless => Lease[chip] \in Nat /\ Lease[chip] >= Lease[chip] - tick
        BY <1>1, <3>1
      <4> QED
        BY <1>1, <2>2, <3>1, <4>1 DEF Granted
    <3> QED
      BY <1>1, <1>3, <2>3, <2>6, <2>9, <3>1, <3>2 DEF InLeased, GoesByGrant
  <2>10. ASSUME state = "REREQUEST" PROVE InRerequest'
    <3>1. InRerequest /\ chip \in Servers /\ chip' = chip
      BY <1>1, <1>3, <2>10 DEF InRerequest
    <3>2. t = sip /\ ip = allocated /\ toServer = {m} /\ toClient = {}
      BY <1>2, <3>1 DEF InRerequest
    <3>3. left[chip] > 0 => left'[chip] > 0 \/ Lease[chip] = Endless
      BY <2>2, <3>1 DEF Reliable, LeasesLast
    <3>4. toServer' = {} /\ toClient' = {ack}
      BY <1>1, <2>1, <3>2
    <3> QED
      BY <1>1, <1>5, <3>1, <3>2, <3>3, <3>4 DEF InRerequest, GoesByGrant
  <2> QED
    BY <1>1, <1>3, <2>5, <2>7, <2>8, <2>9, <2>10, OrderlyAfter
\* A server asked for another's address refuses it, or does not answer.
<1>6. CASE t # ip \/ t \notin Servers
  <2>1. /\ left' = left
        /\ \/ toClient' = toClient \cup {[type |-> "NAK", from |-> t]} /\ t # ip /\ t \in Servers
           \/ toClient' = toClient
    BY <1>0, <1>2, <1>6, NothingIsLost DEF Reply
  <2>2. Offers' = Offers
    BY <2>1 DEF Offers
  <2>3. \A s \in Servers : GrantFor(s)' <=> GrantFor(s)
    BY <1>1, <1>2, <1>6, <2>1 DEF GrantFor
  <2>4. t # ip => m \in Refusals
    BY <1>2 DEF Refusals
  <2>5. Refusals' \subseteq (Refusals \ {m}) \cup {[type |-> "NAK", from |-> t]}
    BY <1>1, <2>1 DEF Refusals
  <2>6. t = ip => Refusals' \subseteq Refusals
    BY <1>1, <2>1 DEF Refusals
  <2>7. \A x, y \in Refusals' : x = y
    BY <1>0, <2>4, <2>5, <2>6 DEF CalmNetwork
  <2>8. Refusals = {} => Refusals' = {}
    BY <2>4, <2>6
  <2>9. /\ \A s \in Servers : [type |-> "ACK", from |-> s] \in toClient' => [type |-> "ACK", from |-> s] \in toClient
        /\ \A s \in Servers : [type |-> "OFFER", from |-> s] \in toClient' => [type |-> "OFFER", from |-> s] \in toClient
    BY <2>1
  <2>10. CalmNetwork'
    BY <1>0, <1>1, <1>4, <2>1, <2>2, <2>7, <2>9 DEF CalmNetwork
  <2>11. ASSUME state = "DISCOVER" PROVE InDiscover'
    BY <1>1, <1>3, <1>4, <2>2, <2>3, <2>8, <2>11 DEF InDiscover
  <2>12. ASSUME state = "REQUEST" PROVE InRequest'
    BY <1>1, <1>3, <2>3, <2>8, <2>9, <2>12 DEF InRequest
  <2>13. ASSUME state = "LEASED" PROVE InLeased'
    BY <1>1, <1>3, <2>1, <2>8, <2>9, <2>13 DEF InLeased, GoesByGrant, Granted
  <2>14. ASSUME state = "REREQUEST" PROVE InRerequest'
    <3>1. InRerequest /\ t = sip /\ ip = allocated /\ toServer = {m} /\ toClient = {}
      BY <1>2, <1>3, <2>14 DEF InRerequest
    <3>2. sip # allocated
      BY <1>6, <3>1 DEF InRerequest
    <3>3. toServer' = {} /\ toClient' \subseteq {[type |-> "NAK", from |-> sip]}
      BY <1>1, <2>1, <3>1
    <3> QED
      BY <1>1, <2>1, <3>1, <3>2, <3>3 DEF InRerequest, GoesByGrant
  <2> QED
    BY <1>1, <1>3, <2>10, <2>11, <2>12, <2>13, <2>14, OrderlyAfter
<1> QED
  BY <1>5, <1>6

\* A call of DHCP_run that finds a datagram.
LEMMA ReceiveKeeps ==
  ASSUME Reliable, NEW m \in toClient, Receive(m)
  PROVE  Orderly'
<1> USE DhcpAssumption
<1>0. TypeOK /\ Orderly /\ CalmNetwork /\ ~ Lossy /\ net = "reliable"
  BY DEF Reliable, Orderly, Lossy
<1>1. /\ toClient' = toClient \ {m} /\ left' = left /\ ~ idle'
      /\ sip' = m.from /\ leaseTime' = (IF m.type = "NAK" THEN leaseTime ELSE Lease[m.from])
      /\ Switch(m.type, m.from)
  BY <1>0, NothingIsLost DEF Receive, Parse
<1>2. PICK type \in Types, f \in Servers : m = [type |-> type, from |-> f]
  BY <1>0 DEF TypeOK, ToClient
<1>m. m.type = type /\ m.from = f
  BY <1>2
<1>3. tick = 0 /\ toClient # {}
  BY <1>0 DEF CalmNetwork
<1>4. \A x : Send(x) => toServer' = toServer \cup {x}
  BY <1>0, NothingIsLost
<1>5. /\ Offers' \subseteq Offers
      /\ \A x \in toClient' : x \in toClient
      /\ m.type # "OFFER" => Offers' = Offers
  BY <1>1 DEF Offers
<1>6. state # "INIT" /\ ~ RunInit
  BY <1>0, <1>3 DEF Orderly, InInit, RunInit
\* Taking the message, and sending nothing.
<1>7. ASSUME toServer' = toServer, tick' = 0, state' = state \/ Discover \notin toServer
      PROVE  CalmNetwork' /\ Refusals' = Refusals \ {m}
  <2>1. Refusals' = Refusals \ {m}
    <3>1. m \notin toServer \/ m \notin Refusals \/ m.type = "NAK"
      BY <1>2 DEF Refusals, Types
    <3>2. \A x \in toServer : x.type = "REQUEST" => x # m
      BY <1>2 DEF Types
    <3> QED
      BY <1>1, <1>7, <3>2 DEF Refusals
  <2>2. Discover \in toServer' => state' = "DISCOVER" /\ Offers' = {}
    BY <1>0, <1>5, <1>7 DEF CalmNetwork
  <2> QED
    BY <1>0, <1>1, <1>5, <1>7, <2>1, <2>2 DEF CalmNetwork
<1>8. CASE RunDiscover(m.type, m.from)
  <2>0. state = "DISCOVER" /\ InDiscover
    BY <1>0, <1>8 DEF RunDiscover, Orderly
  <2>1. CASE type = "OFFER"
    <3> DEFINE r == [type |-> "REQUEST", to |-> f, ip |-> f]
    <3>1. /\ allocated' = f /\ state' = "REQUEST" /\ toServer' = toServer \cup {r}
          /\ UNCHANGED <<old, chip, tick, retry>>
      BY <1>1, <1>4, <1>8, <1>m, <2>1 DEF RunDiscover, Request, Timer
    <3>2. Discover \notin toServer /\ Discover \notin toServer'
      <4>1. m \in Offers
        BY <1>m, <2>1 DEF Offers
      <4> QED
        BY <1>0, <3>1, <4>1, NoGrantForDiscover DEF CalmNetwork
    <3>3. Refusals' = Refusals
      BY <1>1, <1>m, <2>1, <3>1 DEF Refusals
    <3>4. CalmNetwork'
      BY <1>0, <1>1, <1>3, <1>5, <3>1, <3>2, <3>3 DEF CalmNetwork
    <3>5. GrantFor(f)' /\ \A s \in Servers : s # f => (GrantFor(s)' => GrantFor(s))
      BY <1>1, <3>1 DEF GrantFor
    <3>6. InRequest'
      BY <1>1, <1>2, <2>0, <2>1, <3>1, <3>3, <3>5 DEF InRequest, InDiscover
    <3> QED
      BY <3>1, <3>4, <3>6, OrderlyAfter
  <2>2. CASE type # "OFFER"
    <3>1. CheckTimeout
      BY <1>8, <1>m, <2>2 DEF RunDiscover
    <3>2. UNCHANGED <<state, tick, retry, toServer>>
      BY <1>3, <2>0, <3>1, WaitsForAnswers
    <3> QED
      BY <1>1, <1>m, <2>0, <2>2, <3>2, DiscoverWaits
  <2> QED
    BY <2>1, <2>2
<1>9. CASE RunRequest(m.type)
  <2>0. state = "REQUEST" /\ InRequest /\ Discover \notin toServer
    BY <1>0, <1>9 DEF RunRequest, Orderly, CalmNetwork
  <2>1. CASE type = "ACK"
    <3>1. /\ tick' = 0 /\ state' = "LEASED" /\ chip' = allocated /\ allocated' = allocated
          /\ toServer' = toServer
      BY <1>0, <1>9, <1>m, <2>1 DEF RunRequest, ResetTimeout, SendNothing
    <3>2. CalmNetwork' /\ Refusals' = Refusals \ {m}
      BY <1>7, <2>0, <3>1
    <3>3. Lease[f] = Endless \/ left[f] = Lease[f]
      BY <1>0, <1>2, <2>1 DEF CalmNetwork
    <3>4. f = allocated => Granted(chip)'
      <4>1. Lease[f] # Endless => Lease[f] \in Nat /\ Lease[f] >= Lease[f] - 0
        BY <1>2
      <4> QED
        BY <1>1, <3>1, <3>3, <4>1 DEF Granted
    <3>5. f # allocated => Refusals = {}
      BY <1>2, <2>0, <2>1 DEF InRequest, GrantFor
    <3>6. leaseTime' # Endless => 0 <= leaseTime' \div 2 + 1 /\ 0 <= leaseTime' \div 2
      <4>1. leaseTime' = Lease[f] /\ Lease[f] \in Nat \cup {Endless}
        BY <1>1, <1>2, <2>1
      <4>2. Lease[f] # Endless => 0 <= Lease[f] \div 2 + 1 /\ 0 <= Lease[f] \div 2
        BY <4>1, HalfIsNatural
      <4> QED
        BY <4>1, <4>2
    <3>7. InLeased'
      BY <1>1, <1>m, <2>0, <3>1, <3>2, <3>4, <3>5, <3>6 DEF InLeased, InRequest, GoesByGrant
    <3> QED
      BY <3>1, <3>2, <3>7, OrderlyAfter
  <2>2. CASE type = "NAK"
    <3>1. tick' = 0 /\ retry' = 0 /\ state' = "DISCOVER" /\ toServer' = toServer
      BY <1>9, <1>m, <2>2 DEF RunRequest, Refused, ResetTimeout, SendNothing
    <3>2. CalmNetwork' /\ Refusals' = Refusals \ {m}
      BY <1>7, <2>0, <3>1
    <3>3. Refusals' = {}
      <4>1. m \in Refusals
        BY <1>m, <2>2 DEF Refusals
      <4> QED
        BY <1>0, <3>2, <4>1 DEF CalmNetwork
    <3>4. InDiscover'
      BY <3>1, <3>3 DEF InDiscover
    <3> QED
      BY <3>1, <3>2, <3>4, OrderlyAfter
  <2>3. CASE type = "OFFER"
    <3>1. CheckTimeout
      BY <1>9, <1>m, <2>3 DEF RunRequest
    <3>2. UNCHANGED <<state, allocated, old, chip, tick, retry, toServer>>
      BY <1>3, <2>0, <3>1, WaitsForAnswers
    <3>3. CalmNetwork' /\ Refusals' = Refusals \ {m}
      BY <1>3, <1>7, <3>2
    <3>4. \A s \in Servers : GrantFor(s)' <=> GrantFor(s)
      BY <1>1, <1>2, <2>3, <3>2 DEF GrantFor
    <3>5. InRequest'
      BY <1>1, <2>0, <3>2, <3>3, <3>4 DEF InRequest
    <3> QED
      BY <2>0, <3>2, <3>3, <3>5, OrderlyAfter
  <2> QED
    BY <2>1, <2>2, <2>3 DEF Types
<1>10. CASE RunLeased
  <2>0. state = "LEASED" /\ InLeased /\ Discover \notin toServer
    BY <1>0, <1>10 DEF RunLeased, Orderly, CalmNetwork
  <2>1. leaseTime' \in Nat \cup {Endless}
    BY <1>0, <1>1, <1>2 DEF TypeOK
  <2>2. ~ RenewalDue
    BY <1>0, <1>3, <2>1, NotDueAtOnce
  <2>3. UNCHANGED <<state, allocated, old, chip, tick, retry, toServer>>
    BY <1>10, <2>2 DEF RunLeased, SendNothing, Timer, Address
  <2>4. CalmNetwork' /\ Refusals' = Refusals \ {m}
    BY <1>3, <1>7, <2>3
  <2>5. leaseTime' # Endless => 0 <= leaseTime' \div 2 + 1 /\ 0 <= leaseTime' \div 2
    BY <2>1, HalfIsNatural
  <2>6. Granted(chip)' <=> Granted(chip)
    BY <1>1, <2>3 DEF Granted
  <2>7. Granted(chip)' \/ (sip' # chip' /\ Refusals' = {})
    <3> SUFFICES ASSUME ~ Granted(chip) PROVE sip' # chip' /\ Refusals' = {}
      BY <2>6
    <3>1. sip # chip /\ Refusals = {}
      BY <1>3, <2>0 DEF InLeased
    <3>2. type # "NAK"
      BY <1>m, <3>1 DEF Refusals
    <3>3. type = "OFFER" => f # chip
      BY <1>2, <2>0 DEF InLeased
    <3>4. type = "ACK" => f # chip
      <4> SUFFICES ASSUME type = "ACK", f = chip PROVE FALSE
        OBVIOUS
      <4>1. Lease[f] = Endless \/ left[f] = Lease[f]
        BY <1>0, <1>2 DEF CalmNetwork
      <4>2. Lease[f] # Endless => Lease[f] \in Nat /\ Lease[f] >= Lease[f] - 0
        BY <1>2
      <4> QED
        BY <1>3, <4>1, <4>2 DEF Granted
    <3> QED
      BY <1>1, <1>m, <2>3, <2>4, <3>1, <3>2, <3>3, <3>4 DEF Types
  <2>8. InLeased'
    BY <1>1, <1>3, <2>0, <2>3, <2>5, <2>7 DEF InLeased, GoesByGrant
  <2> QED
    BY <2>0, <2>3, <2>4, <2>8, OrderlyAfter
<1>11. CASE RunRerequest(m.type)
  <2>0. state = "REREQUEST" /\ InRerequest /\ Discover \notin toServer
    BY <1>0, <1>11 DEF RunRerequest, Orderly, CalmNetwork
  <2>1. /\ f = sip /\ type = (IF sip = allocated THEN "ACK" ELSE "NAK")
        /\ toServer = {} /\ toClient = {m}
    BY <1>2, <2>0 DEF InRerequest
  <2>2. CASE type = "ACK"
    <3>1. /\ tick' = 0 /\ state' = "LEASED" /\ allocated' = allocated /\ toServer' = toServer
          /\ chip' = chip
      BY <1>11, <1>m, <2>0, <2>2 DEF RunRerequest, ResetTimeout, SendNothing, InRerequest
    <3>2. CalmNetwork'
      BY <1>7, <2>0, <3>1
    <3>3. sip = allocated /\ chip = f /\ toClient' = {}
      BY <1>1, <2>0, <2>1, <2>2 DEF InRerequest
    <3>4. Granted(chip)'
      <4>1. Lease[f] = Endless \/ left[f] = Lease[f]
        BY <1>0, <1>2, <2>2 DEF CalmNetwork
      <4>2. Lease[f] # Endless => Lease[f] \in Nat /\ Lease[f] >= Lease[f] - 0
        BY <1>2
      <4> QED
        BY <1>1, <3>1, <3>3, <4>1, <4>2 DEF Granted
    <3>5. leaseTime' # Endless => 0 <= leaseTime' \div 2 + 1 /\ 0 <= leaseTime' \div 2
      <4>1. leaseTime' = Lease[f] /\ Lease[f] \in Nat \cup {Endless}
        BY <1>1, <1>2, <2>2
      <4>2. Lease[f] # Endless => 0 <= Lease[f] \div 2 + 1 /\ 0 <= Lease[f] \div 2
        BY <4>1, HalfIsNatural
      <4> QED
        BY <4>1, <4>2
    <3>6. InLeased'
      BY <1>1, <2>0, <3>1, <3>3, <3>4, <3>5 DEF InLeased, InRerequest
    <3> QED
      BY <3>1, <3>2, <3>6, OrderlyAfter
  <2>3. CASE type = "NAK"
    <3>1. tick' = 0 /\ retry' = 0 /\ state' = "DISCOVER" /\ toServer' = {} /\ toClient' = {}
      BY <1>1, <1>11, <1>m, <2>1, <2>3 DEF RunRerequest, Refused, ResetTimeout, SendNothing
    <3>2. CalmNetwork'
      BY <1>7, <2>0, <2>1, <3>1
    <3>3. InDiscover'
      BY <3>1 DEF InDiscover, GrantFor
    <3> QED
      BY <3>1, <3>2, <3>3, OrderlyAfter
  <2> QED
    BY <2>1, <2>2, <2>3
<1> QED
  BY <1>1, <1>6, <1>8, <1>9, <1>10, <1>11 DEF Switch

\* Nothing is under way before the first call of DHCP_run.
LEMMA OrderlyAtFirst == Init => LInv
BY DEF Init, LInv, Orderly, CalmNetwork, Offers, Refusals, InInit

\* No step leaves a reliable network or disturbs its order.
LEMMA OrderlyStep == TypeOK /\ LInv /\ LeasesLast /\ [Next]_vars => LInv'
<1> SUFFICES ASSUME TypeOK, LInv, LeasesLast, [Next]_vars, Servers # {}, net' = "reliable"
             PROVE  Orderly'
  BY DEF LInv
<1>1. CASE net = "reliable"
  <2>0. Reliable /\ ~ Lossy
    BY <1>1 DEF Reliable, LInv, Lossy
  <2>1. CASE Poll
    BY <2>0, <2>1, PollKeeps
  <2>2. CASE Deliver
    BY <2>0, <2>2, ReceiveKeeps DEF Deliver
  <2>3. CASE Tick
    BY <2>0, <2>3, TickKeeps
  <2>4. CASE Outside
    <3>1. UNCHANGED <<client, net, idle, asked>> /\ ~ Lose
      BY <2>0, <2>4 DEF Outside, Lose
    <3>2. \A m \in toServer : ~ Declined(m)
      BY <2>0 DEF Declined, Reliable, Orderly, CalmNetwork
    <3> QED
      BY <2>0, <2>4, <3>1, <3>2, OfferKeeps, ReplyKeeps DEF Outside
  <2>5. CASE UNCHANGED vars
    BY <2>0, <2>5
    DEF vars, Reliable, Orderly, CalmNetwork, InInit, InDiscover, InRequest, InLeased,
        InRerequest, Offers, Refusals, GrantFor, Granted, GoesByGrant
  <2>6. ~ Stop /\ ~ Restart /\ ~ Settle /\ \A type \in Types : ~ Stray(type)
    BY <2>0 DEF Stop, Restart, Settle, Stray
  <2> QED
    BY <2>1, <2>2, <2>3, <2>4, <2>5, <2>6 DEF Next
<1>2. CASE net # "reliable"
  <2>1. net' = net \/ net' = "settled"
    BY DEF Next, Poll, Deliver, Receive, Stray, Stop, Restart, Tick, Outside, Settle, vars
  <2> QED
    BY <1>2, <2>1
<1> QED
  BY <1>1, <1>2

\* An orderly network and client keep the lease in use.
LEMMA OrderKeepsLease == TypeOK /\ LInv /\ LeasesLast => LeaseKept
<1> SUFFICES ASSUME TypeOK, LInv, LeasesLast, net = "reliable", state \in {"LEASED", "REREQUEST"},
                    chip # None, GoesByGrant, leaseTime # Endless
             PROVE  left[chip] > 0
  BY DEF LeaseKept
<1>1. chip \in Servers /\ Orderly
  BY DEF TypeOK, Addresses, LInv
<1>2. CASE state = "REREQUEST"
  BY <1>1, <1>2 DEF Orderly, InRerequest
<1>3. CASE state = "LEASED"
  <2> DEFINE l == Lease[chip]
             half == l \div 2
  <2>1. leaseTime = l /\ Granted(chip) /\ tick <= half + 1 /\ l >= 3
    BY <1>1, <1>3 DEF Orderly, InLeased, GoesByGrant, LeasesLast
  <2>2. l \in Nat /\ left[chip] >= l - tick /\ left[chip] \in Nat /\ tick \in Nat
    BY <1>1, <2>1, DhcpAssumption DEF Granted, TypeOK
  <2>3. half \in Nat /\ 2 * half <= l
    BY <2>2, HalfIsNatural
  <2> HIDE DEF l, half
  <2> QED
    BY <2>1, <2>2, <2>3
<1> QED
  BY <1>2, <1>3

\* On a reliable network the lease of the address in use never runs out while
\* the client goes by the grant: for every number of servers, every lease
\* time of three seconds or more, every wait, and two retries or more.
THEOREM LeaseNeverRunsOut ==
  ASSUME LeasesLast
  PROVE  Spec => []LeaseKept
<1>1. Init => TypeOK /\ LInv
  BY InitHolds, OrderlyAtFirst DEF IInv
<1>2. LInv /\ TypeOK /\ [Next]_vars => LInv'
  BY OrderlyStep
<1>3. TypeOK /\ LInv => LeaseKept
  BY OrderKeepsLease
<1> QED
  BY <1>1, <1>2, <1>3, DhcpTypeCorrect, PTL DEF Spec

-----------------------------------------------------------------------------
(* One server on a reliable network, where the grant is never mixed up.    *)

Holding == {"LEASED", "REREQUEST"}

\* The question is on its way to the server, or its answer to the client.
UnderWay(question, answer) ==
    \/ toServer = {question} /\ toClient = {}
    \/ toServer = {} /\ toClient = {answer}

Asked(s) ==
    UnderWay([type |-> "REQUEST", to |-> s, ip |-> s], [type |-> "ACK", from |-> s])

\* Alone with server s, the client has one datagram under way or none, waits
\* for no answer that is late, and goes by what s granted.
Alone(s) ==
    /\ retry = 0 /\ state # "STOP"
    /\ state = "INIT" => toServer = {} /\ toClient = {} /\ tick = 0 /\ ~ idle
    /\ state = "DISCOVER"
         => tick = 0 /\ UnderWay(Discover, [type |-> "OFFER", from |-> s])
    /\ state \in {"REQUEST", "REREQUEST"} => tick = 0 /\ Asked(s)
    /\ state = "LEASED" => toServer = {} /\ toClient = {}
    /\ state \in {"REQUEST"} \cup Holding
         => allocated = s /\ sip = s /\ leaseTime = Lease[s]
    /\ state \in Holding => chip = s

AloneInv(s) == net = "reliable" => Alone(s)

\* DHCP_run without a datagram: nothing is ever sent twice.
LEMMA AlonePolls ==
  ASSUME NEW s \in Servers, Servers = {s}, MaxRetry >= 1,
         TypeOK, Alone(s), net = "reliable", Poll
  PROVE  Alone(s)' /\ (state \in Holding => state' \in Holding)
<1> USE DhcpAssumption
<1>1. /\ \A m : Send(m) => toServer' = toServer \cup {m}
      /\ UNCHANGED <<sip, leaseTime, toClient>> /\ Switch("none", None)
  BY NothingIsLost DEF Poll
<1>2. CASE RunInit
  <2>1. /\ state = "INIT" /\ state' = "DISCOVER" /\ UNCHANGED Timer
        /\ toServer' = {Discover} /\ toClient' = {} /\ tick = 0
    BY <1>1, <1>2 DEF RunInit, Alone
  <2> QED
    BY <1>1, <2>1 DEF Alone, UnderWay, Timer, Holding
<1>3. CASE CheckTimeout /\ state \in {"DISCOVER", "REQUEST", "REREQUEST"}
  <2>1. MayRetry /\ WaitTime >= tick /\ ~ WaitTime < tick
    BY <1>3 DEF Alone, MayRetry
  <2>2. KeepWaiting /\ UNCHANGED Address
    BY <1>3, <2>1 DEF CheckTimeout
  <2> QED
    BY <1>1, <1>3, <2>2 DEF Alone, UnderWay, Asked, KeepWaiting, SendNothing, Timer, Address, Holding
<1>4. CASE RunLeased /\ RenewalDue
  <2>1. /\ state = "LEASED" /\ state' = "REREQUEST" /\ tick' = 0 /\ retry' = 0
        /\ toServer' = toServer \cup {Request(allocated)}
        /\ UNCHANGED <<allocated, chip>>
    BY <1>1, <1>4 DEF RunLeased, ResetTimeout
  <2>2. toServer' = {[type |-> "REQUEST", to |-> s, ip |-> s]} /\ toClient' = {}
    BY <1>1, <2>1 DEF Alone, Request, Holding
  <2> QED
    BY <1>1, <2>1, <2>2 DEF Alone, UnderWay, Asked, Holding
<1>5. CASE RunLeased /\ ~ RenewalDue
  BY <1>1, <1>5 DEF RunLeased, Alone, UnderWay, Asked, SendNothing, Timer, Address, Holding
<1>6. \/ RunInit \/ RunLeased
      \/ CheckTimeout /\ state \in {"DISCOVER", "REQUEST", "REREQUEST"}
  BY <1>1 DEF Switch, RunDiscover, RunRequest, RunRerequest
<1> QED
  BY <1>2, <1>3, <1>4, <1>5, <1>6

\* The answer comes, and it is the one that was waited for.
LEMMA AloneReceives ==
  ASSUME NEW s \in Servers, Servers = {s}, MaxRetry >= 1,
         TypeOK, Alone(s), net = "reliable", NEW m \in toClient, Receive(m)
  PROVE  Alone(s)' /\ (state \in Holding => state' \in Holding)
<1>1. /\ ~ Lossy /\ \A q : Send(q) => toServer' = toServer \cup {q}
      /\ \A q : Without(toClient, q) = {toClient \ {q}}
  BY NothingIsLost
<1>2. /\ sip' = m.from /\ toClient' = toClient \ {m} /\ Switch(m.type, m.from)
      /\ leaseTime' = IF m.type = "NAK" THEN leaseTime ELSE Lease[m.from]
  BY <1>1 DEF Receive, Parse
<1>3. CASE state = "DISCOVER"
  <2>1. m = [type |-> "OFFER", from |-> s] /\ toServer = {} /\ toClient = {m} /\ tick = 0
    BY <1>3 DEF Alone, UnderWay
  <2>2. m.type = "OFFER" /\ m.from = s
    BY <2>1
  <2>3. /\ allocated' = s /\ state' = "REQUEST" /\ Send(Request(s)) /\ UNCHANGED Timer
    BY <1>2, <1>3, <2>2
       DEF Switch, RunInit, RunDiscover, RunRequest, RunLeased, RunRerequest
  <2>4. toServer' = {[type |-> "REQUEST", to |-> s, ip |-> s]} /\ toClient' = {}
    BY <1>1, <1>2, <2>1, <2>2, <2>3 DEF Request
  <2>5. sip' = s /\ leaseTime' = Lease[s] /\ tick' = 0 /\ retry' = 0
    BY <1>2, <2>1, <2>2, <2>3 DEF Timer, Alone
  <2> QED
    BY <1>3, <2>3, <2>4, <2>5 DEF Alone, UnderWay, Asked, Holding
<1>4. CASE state \in {"REQUEST", "REREQUEST"}
  <2>1. /\ m = [type |-> "ACK", from |-> s] /\ toServer = {} /\ toClient = {m}
        /\ allocated = s
    BY <1>4 DEF Alone, UnderWay, Asked, Holding
  <2>2. m.type = "ACK" /\ m.from = s
    BY <2>1
  <2>3. /\ state' = "LEASED" /\ tick' = 0 /\ retry' = 0 /\ toServer' = toServer
        /\ chip' = s /\ allocated' = allocated
    <3>1. CASE state = "REQUEST"
      BY <1>1, <1>2, <2>1, <2>2, <3>1
         DEF Switch, RunInit, RunDiscover, RunRequest, RunLeased, RunRerequest,
             ResetTimeout, SendNothing
    <3>2. CASE state = "REREQUEST"
      <4>1. chip = s
        BY <3>2 DEF Alone, Holding
      <4>2. RunRerequest("ACK")
        BY <1>2, <2>2, <3>2
           DEF Switch, RunInit, RunDiscover, RunRequest, RunLeased
      <4> QED
        BY <2>1, <4>1, <4>2 DEF RunRerequest, ResetTimeout, SendNothing
    <3> QED
      BY <1>4, <3>1, <3>2
  <2>4. sip' = s /\ leaseTime' = Lease[s] /\ toClient' = {}
    BY <1>2, <2>1, <2>2
  <2> QED
    BY <2>1, <2>3, <2>4 DEF Alone, UnderWay, Asked, Holding
<1>5. state \notin {"INIT", "LEASED"} /\ state \in States
  BY DEF Alone, TypeOK
<1> QED
  BY <1>3, <1>4, <1>5 DEF Alone, States

\* The server answers.
LEMMA AloneAnswered ==
  ASSUME NEW s \in Servers, Servers = {s}, TypeOK, Alone(s), net = "reliable", Outside
  PROVE  Alone(s)' /\ (state \in Holding => state' \in Holding)
<1> DEFINE request == [type |-> "REQUEST", to |-> s, ip |-> s]
           ack == [type |-> "ACK", from |-> s]
<1>1. /\ ~ Lossy /\ UNCHANGED client /\ UNCHANGED idle
      /\ \A t, type : Answer(t, type) => toClient' = toClient \cup {[type |-> type, from |-> t]}
  BY NothingIsLost DEF Outside
<1>2. s # None /\ Discover.type = "DISCOVER" /\ request.type = "REQUEST"
  BY DhcpAssumption DEF Discover
<1>3. CASE Offer
  <2>1. Discover \in toServer /\ Discover # request
    BY <1>2, <1>3 DEF Offer
  <2>2. state = "DISCOVER" /\ toServer = {Discover} /\ toClient = {}
    BY <2>1 DEF Alone, UnderWay, Asked, States, TypeOK
  <2>3. toServer' = {} /\ toClient' = [type : {"OFFER"}, from : Servers]
    BY <1>1, <1>3, <2>2 DEF Offer
  <2>4. [type : {"OFFER"}, from : Servers] = {[type |-> "OFFER", from |-> s]}
    <3>1. ASSUME NEW x \in [type : {"OFFER"}, from : Servers]
          PROVE  x = [type |-> "OFFER", from |-> s]
      BY <3>1
    <3>2. [type |-> "OFFER", from |-> s] \in [type : {"OFFER"}, from : Servers]
      OBVIOUS
    <3> QED
      BY <3>1, <3>2
  <2> QED
    BY <1>1, <2>2, <2>3, <2>4 DEF Alone, UnderWay, Asked, client, Holding
<1>4. ASSUME NEW m \in toServer, Reply(m) \/ Declined(m)
      PROVE  Alone(s)' /\ (state \in Holding => state' \in Holding)
  <2>1. m.type \in {"REQUEST", "DECLINE"} /\ m # Discover
    BY <1>2, <1>4 DEF Reply, Declined
  <2>2. state \in {"REQUEST", "REREQUEST"} /\ m = request /\ toServer = {request} /\ toClient = {}
    BY <2>1 DEF Alone, UnderWay, Asked, States, TypeOK
  <2>3. m.type = "REQUEST" /\ m.to = s /\ m.ip = s
    BY <2>2
  <2>4. Reply(m) /\ Answer(s, "ACK") /\ toServer' = toServer \ {m}
    BY <1>1, <1>2, <1>4, <2>3 DEF Reply, Declined
  <2>5. toServer' = {} /\ toClient' = {ack}
    BY <1>1, <2>2, <2>4
  <2> QED
    BY <1>1, <2>2, <2>5 DEF Alone, UnderWay, Asked, client, Holding
<1>5. ~ Lose
  BY <1>1 DEF Lose
<1> QED
  BY <1>3, <1>4, <1>5 DEF Outside

\* A second passes only while the client holds a lease.
LEMMA AloneStep ==
  ASSUME NEW s \in Servers, Servers = {s}, MaxRetry >= 1,
         TypeOK, AloneInv(s), [Next]_vars
  PROVE  /\ AloneInv(s)'
         /\ net = "reliable" /\ state \in Holding => state' \in Holding
<1>1. net' = "reliable" => net = "reliable"
  BY DEF Next, Poll, Deliver, Receive, Stray, Stop, Restart, Tick, Outside, Settle, vars
<1>2. SUFFICES ASSUME net = "reliable"
               PROVE  Alone(s)' /\ (state \in Holding => state' \in Holding)
  BY <1>1 DEF AloneInv
<1>3. Alone(s) /\ ~ Lossy
  BY <1>2 DEF AloneInv, Lossy
<1>4. CASE Tick
  <2>1. /\ idle /\ toServer = {} /\ toClient = {}
        /\ UNCHANGED <<state, allocated, sip, leaseTime, retry, chip, toServer, toClient>>
    BY <1>3, <1>4 DEF Tick
  <2>2. state = "LEASED"
    BY <1>3, <2>1 DEF Alone, UnderWay, Asked, TypeOK, States
  <2> QED
    BY <1>3, <2>1, <2>2 DEF Alone, Holding
<1>5. CASE UNCHANGED vars
  BY <1>3, <1>5 DEF vars, Alone, UnderWay, Asked, Holding
<1>6. ~ Stop /\ ~ Restart /\ ~ Settle /\ \A type \in Types : ~ Stray(type)
  BY <1>3 DEF Stop, Restart, Settle, Stray
<1> QED
  BY <1>2, <1>3, <1>4, <1>5, <1>6, AlonePolls, AloneReceives, AloneAnswered DEF Next, Deliver

\* With one server on a reliable network, and one retry at least, the server
\* and the lease time the client goes by are always those of its grant, and a
\* lease once held is held for good.  It takes a second server to break either.
THEOREM OneServerHolds ==
  ASSUME NEW s \in Servers, Servers = {s}, MaxRetry >= 1
  PROVE  Spec => /\ [](net = "reliable" /\ state \in Holding => chip = s /\ GoesByGrant)
                 /\ [][net = "reliable" /\ state \in Holding => state' \in Holding]_vars
<1>1. Init => AloneInv(s)
  BY DEF Init, AloneInv, Alone, UnderWay, Asked, Holding
<1>2. TypeOK /\ AloneInv(s) /\ [Next]_vars
        => /\ AloneInv(s)'
           /\ [net = "reliable" /\ state \in Holding => state' \in Holding]_vars
  BY AloneStep
<1>3. AloneInv(s) => (net = "reliable" /\ state \in Holding => chip = s /\ GoesByGrant)
  BY DEF AloneInv, Alone, GoesByGrant
<1> QED
  BY <1>1, <1>2, <1>3, DhcpTypeCorrect, PTL DEF Spec

\* So its lease never runs out, whatever it goes by, when it lasts for three
\* seconds at least.
THEOREM OneServerNeverRunsOut ==
  ASSUME NEW s \in Servers, Servers = {s}, LeasesLast
  PROVE  Spec => [](net = "reliable" /\ state \in Holding /\ Lease[s] # Endless
                      => left[s] > 0)
<1>1. MaxRetry >= 1
  BY DhcpAssumption DEF LeasesLast
<1>2. Spec => [](net = "reliable" /\ state \in Holding => chip = s /\ GoesByGrant)
  BY <1>1, OneServerHolds
<1>3. /\ LeaseKept
      /\ (net = "reliable" /\ state \in Holding => chip = s /\ GoesByGrant)
      => (net = "reliable" /\ state \in Holding /\ Lease[s] # Endless => left[s] > 0)
  BY DhcpAssumption DEF LeaseKept, GoesByGrant, Holding
<1> QED
  BY <1>2, <1>3, LeaseNeverRunsOut, PTL

-----------------------------------------------------------------------------
(* The address in use, on any network.                                     *)

InUse ==
    /\ state \in Holding => chip = allocated
    /\ state = "REREQUEST" => old = allocated

LEMMA InUseStep == ASSUME InUse, [Next]_vars PROVE InUse'
<1>1. ASSUME NEW type, NEW yiaddr, Switch(type, yiaddr) PROVE InUse'
  <2>1. ASSUME CheckTimeout, state # "LEASED" PROVE InUse'
    <3>1. UNCHANGED Address /\ state' \in {state, "INIT", "DISCOVER"}
      <4>1. UNCHANGED Address /\ (Retransmit \/ KeepWaiting \/ GiveUp)
        <5>1. CASE MayRetry /\ WaitTime < tick
          BY <2>1, <5>1 DEF CheckTimeout
        <5>2. CASE ~ (MayRetry /\ WaitTime < tick) /\ MayRetry /\ WaitTime >= tick
          BY <2>1, <5>2 DEF CheckTimeout
        <5>3. CASE ~ (MayRetry /\ WaitTime < tick) /\ ~ (MayRetry /\ WaitTime >= tick)
          BY <2>1, <5>3 DEF CheckTimeout
        <5> QED
          BY <5>1, <5>2, <5>3
      <4> QED
        BY <4>1 DEF Retransmit, KeepWaiting, GiveUp
    <3> QED
      BY <3>1 DEF InUse, Address, Holding
  <2>2. CASE RunInit
    BY <2>2 DEF RunInit, InUse, Holding
  <2>3. CASE RunDiscover(type, yiaddr)
    BY <2>1, <2>3 DEF RunDiscover, InUse, Holding
  <2>4. CASE RunRequest(type)
    BY <2>1, <2>4 DEF RunRequest, Refused, InUse, Holding
  <2>5. CASE RunLeased
    BY <2>5 DEF RunLeased, InUse, Holding, Address
  <2>6. CASE RunRerequest(type)
    BY <2>1, <2>6 DEF RunRerequest, Refused, InUse, Holding
  <2> QED
    BY <1>1, <2>2, <2>3, <2>4, <2>5, <2>6 DEF Switch
<1>2. CASE Poll
  BY <1>1, <1>2 DEF Poll
<1>3. CASE Deliver \/ \E type \in Types : Stray(type)
  BY <1>1, <1>3 DEF Deliver, Receive, Stray
<1>4. CASE Stop \/ Restart
  BY <1>4 DEF Stop, Restart, InUse, Holding
<1>5. CASE Tick \/ Outside \/ Settle \/ UNCHANGED vars
  BY <1>5 DEF Tick, Outside, Settle, client, vars, InUse, Holding
<1> QED
  BY <1>2, <1>3, <1>4, <1>5 DEF Next

\* Whatever the network does, late and stray answers included: the W5500 answers
\* to the address the client holds, and an ACK to a renewal never finds it
\* changed, so that the update for that case, DHCP_IP_CHANGED, is dead code.
THEOREM AddressNeverChanges ==
  Spec => []( /\ state \in Holding => chip = allocated
              /\ state = "REREQUEST" => old = allocated )
<1>1. Init => InUse
  BY DEF Init, InUse, Holding
<1>2. InUse /\ [Next]_vars => InUse'
  BY InUseStep
<1> QED
  BY <1>1, <1>2, PTL DEF Spec, InUse
=============================================================================
