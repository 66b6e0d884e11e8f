-------------------------------- MODULE Dhcp --------------------------------
(***************************************************************************)
(* The DHCP client, src/src/Internet/DHCP/dhcp.c: DHCP_run, called over    *)
(* and over by a main loop, the one-second handler that interrupts it, and *)
(* servers behind a network of datagrams.                                  *)
(*                                                                         *)
(* A call of DHCP_run parses at most one datagram and then acts on its     *)
(* type.  Server and address are one here: every server offers one address *)
(* of its own, so a server stands for the address in yiaddr as well as for *)
(* the one in the server identifier option.  The transaction number is     *)
(* left out: it is sent, but never compared.                               *)
(*                                                                         *)
(* The network and the servers are not part of the repository.  While net  *)
(* is "lossy" datagrams are lost, repeated, delayed and overtaken, servers *)
(* refuse, hosts answer the ARP check, time passes as it likes and the     *)
(* application stops and restarts the client.  From "settled" on, and all  *)
(* along when "reliable", none of that happens: a second passes only when  *)
(* every datagram was answered and DHCP_run has nothing left to do.        *)
(***************************************************************************)
EXTENDS Integers, FiniteSets

CONSTANTS
    Servers,        \* DHCP servers, and the address each offers
    Lease,          \* lease time in an OFFER or ACK of each server, in seconds
    MaxRetry,       \* MAX_DHCP_RETRY
    WaitTime,       \* DHCP_WAIT_TIME
    MaxTick,        \* bound: the tick saturates here, beyond all comparisons
    MaxInFlight     \* bound: datagrams under way in each direction while the
                    \* network is lossy

None == "none"
Endless == -1         \* INFINITE_LEASETIME, 0xffffffff

ASSUME DhcpAssumption ==
    /\ None \notin Servers
    /\ Lease \in [Servers -> Nat \cup {Endless}]
    /\ MaxRetry \in Nat /\ WaitTime \in Nat /\ MaxInFlight \in Nat
    /\ MaxTick \in Nat /\ WaitTime < MaxTick
    /\ \A s \in Servers : Lease[s] \div 2 < MaxTick

Addresses == Servers \cup {None}
States == {"INIT", "DISCOVER", "REQUEST", "LEASED", "REREQUEST", "STOP"}

VARIABLES
    state,      \* dhcp_state
    allocated,  \* DHCP_allocated_ip
    old,        \* OLD_allocated_ip
    sip,        \* DHCP_SIP, the server identifier of the last message parsed
    leaseTime,  \* dhcp_lease_time
    tick,       \* dhcp_tick_1s
    retry,      \* dhcp_retry_count
    chip,       \* SIPR, the address the W5500 answers to
    toServer,   \* datagrams on their way to the servers
    toClient,   \* datagrams on their way to the client
    net,        \* what the network and the servers are like
    idle,       \* the last call of DHCP_run found nothing to do
    left,       \* what is left of the lease on each address, in seconds, in
                \* the books of a reliable server
    asked       \* REQUESTs sent in this renewal, 0 outside of one (history)

Timer == <<tick, retry>>
Address == <<allocated, old, chip>>
client == <<state, allocated, old, sip, leaseTime, tick, retry, chip>>
vars == <<state, allocated, old, sip, leaseTime, tick, retry, chip,
          toServer, toClient, net, idle, left, asked>>

Lossy == net = "lossy"

Init ==
    /\ state = "INIT" /\ allocated = None /\ old = None /\ sip = None
    /\ leaseTime = Endless /\ tick = 0 /\ retry = 0 /\ chip = None
    /\ toServer = {} /\ toClient = {}
    /\ net \in {"lossy", "reliable"}
    /\ idle = FALSE
    /\ left = [s \in Servers |-> 0]
    /\ asked = 0

-----------------------------------------------------------------------------
(* Datagrams.                                                              *)

Discover == [type |-> "DISCOVER"]

\* The server asked is the server identifier of a broadcast REQUEST, and the
\* destination of one that renews.
Request(ip) == [type |-> "REQUEST", to |-> sip', ip |-> ip]
Decline(ip) == [type |-> "DECLINE", to |-> sip', ip |-> ip]

\* What a channel may hold after m was put into it.
Carrying(channel, m) ==
    IF Lossy
      THEN {channel} \cup {c \in {channel \cup {m}} : Cardinality(c) <= MaxInFlight}
      ELSE {channel \cup {m}}

\* What a channel may hold after m was taken from it.
Without(channel, m) == {channel \ {m}} \cup (IF Lossy THEN {channel} ELSE {})

Send(m) == toServer' \in Carrying(toServer, m)

SendNothing == UNCHANGED toServer

-----------------------------------------------------------------------------
(* DHCP_run.                                                               *)

\* reset_DHCP_timeout
ResetTimeout == tick' = 0 /\ retry' = 0

\* A retransmission restarts the clock and counts.
Retransmit ==
    /\ tick' = 0
    /\ retry' = retry + 1
    /\ Send(IF state = "DISCOVER" THEN Discover ELSE Request(allocated))
    /\ asked' = IF state = "REREQUEST" THEN asked + 1 ELSE asked
    /\ UNCHANGED state

\* Bug: the count of retries is not reset.
GiveUpForGood ==
    /\ UNCHANGED Timer
    /\ IF state = "DISCOVER"
         THEN state' = "INIT" /\ SendNothing
         ELSE state' = "DISCOVER" /\ Send(Discover)
    /\ asked' = 0

\* After MAX_DHCP_RETRY retransmissions the client starts over.  Whether
\* DHCP_WAIT_TIME has passed is not asked any more.
GiveUp ==
    /\ ResetTimeout
    /\ IF state = "DISCOVER"
         THEN state' = "INIT" /\ SendNothing
         ELSE state' = "DISCOVER" /\ Send(Discover)
    /\ asked' = 0

KeepWaiting == SendNothing /\ UNCHANGED <<state, Timer, asked>>

\* Bug: one retry less, or one more, than MAX_DHCP_RETRY.
OneRetryLess == retry + 1 < MaxRetry
OneRetryMore == retry <= MaxRetry

\* Retries that are left.
MayRetry == retry < MaxRetry

\* check_DHCP_timeout
CheckTimeout ==
    /\ CASE MayRetry /\ WaitTime < tick -> Retransmit
         [] MayRetry /\ WaitTime >= tick -> KeepWaiting
         [] OTHER -> GiveUp
    /\ UNCHANGED Address

\* STATE_DHCP_INIT: the timers are not reset.
RunInit ==
    /\ state = "INIT"
    /\ state' = "DISCOVER"
    /\ allocated' = None
    /\ Send(Discover)
    /\ UNCHANGED <<old, chip, Timer, asked>>

\* STATE_DHCP_DISCOVER: the first OFFER is accepted.  The retries it took are
\* not forgotten.
RunDiscover(type, yiaddr) ==
    /\ state = "DISCOVER"
    /\ IF type = "OFFER"
         THEN /\ allocated' = yiaddr
              /\ state' = "REQUEST"
              /\ Send(Request(yiaddr))
              /\ UNCHANGED <<old, chip, Timer, asked>>
         ELSE CheckTimeout

\* A NAK: back to DISCOVER, where the next message is sent after a timeout.
Refused ==
    /\ ResetTimeout
    /\ state' = "DISCOVER"
    /\ SendNothing
    /\ asked' = 0
    /\ UNCHANGED Address

\* STATE_DHCP_REQUEST.  On an ACK the address is looked up by ARP, and
\* declined if a host answers; which takes two seconds more.
RunRequest(type) ==
    /\ state = "REQUEST"
    /\ CASE type = "ACK" ->
              /\ ResetTimeout
              /\ \/ /\ chip' = allocated
                    /\ state' = "LEASED"
                    /\ SendNothing
                 \/ /\ Lossy
                    /\ chip' = None
                    /\ state' = "INIT"
                    /\ Send(Decline(allocated))
              /\ UNCHANGED <<allocated, old, asked>>
         [] type = "NAK" -> Refused
         [] OTHER -> CheckTimeout

\* Bug: the renewal waits for the end of the lease.
RenewalAtExpiry == leaseTime' # Endless /\ leaseTime' < tick

\* Half of the lease is over.
RenewalDue == leaseTime' # Endless /\ leaseTime' \div 2 < tick

\* STATE_DHCP_LEASED
RunLeased ==
    /\ state = "LEASED"
    /\ IF RenewalDue
         THEN /\ old' = allocated
              /\ Send(Request(allocated))
              /\ ResetTimeout
              /\ state' = "REREQUEST"
              /\ asked' = 1
              /\ UNCHANGED <<allocated, chip>>
         ELSE SendNothing /\ UNCHANGED <<state, Address, Timer, asked>>

\* STATE_DHCP_REREQUEST.  An ACK that renews is not asked for its address, so
\* the update of a changed one never comes.
RunRerequest(type) ==
    /\ state = "REREQUEST"
    /\ CASE type = "ACK" ->
              /\ ResetTimeout
              /\ state' = "LEASED"
              /\ chip' = IF old # allocated THEN allocated ELSE chip
              /\ SendNothing
              /\ asked' = 0
              /\ UNCHANGED <<allocated, old>>
         [] type = "NAK" -> Refused
         [] OTHER -> CheckTimeout

Switch(type, yiaddr) ==
    \/ RunInit
    \/ RunDiscover(type, yiaddr)
    \/ RunRequest(type)
    \/ RunLeased
    \/ RunRerequest(type)

\* DHCP_run finds no datagram.
Poll ==
    /\ UNCHANGED <<sip, leaseTime, toClient, net, left>>
    /\ Switch("none", None)
    /\ idle' = (<<client, toServer>>' = <<client, toServer>>)

\* parseDHCPMSG: the options of any message of a server are taken over,
\* whatever its type, its transaction and the client's state.
Parse(m) ==
    /\ sip' = m.from
    /\ leaseTime' = IF m.type = "NAK" THEN leaseTime ELSE Lease[m.from]

Receive(m) ==
    /\ Parse(m)
    /\ Switch(m.type, m.from)
    /\ toClient' \in Without(toClient, m)
    /\ idle' = FALSE
    /\ UNCHANGED <<net, left>>

\* A datagram that is not from the server's port: parseDHCPMSG returns a type
\* it never assigned.  Its yiaddr is taken to be 0.
Stray(type) ==
    /\ Lossy
    /\ UNCHANGED <<sip, leaseTime>>
    /\ Switch(type, None)
    /\ idle' = FALSE
    /\ UNCHANGED <<toClient, net, left>>

\* DHCP_stop
Stop ==
    /\ Lossy
    /\ state # "STOP"
    /\ state' = "STOP"
    /\ asked' = 0
    /\ UNCHANGED <<allocated, old, sip, leaseTime, Timer, chip,
                   toServer, toClient, net, idle, left>>

\* DHCP_init, which only a stopped client is given.
Restart ==
    /\ Lossy
    /\ state = "STOP"
    /\ state' = "INIT"
    /\ chip' = None
    /\ ResetTimeout
    /\ UNCHANGED <<allocated, old, sip, leaseTime, toServer, toClient,
                   net, idle, left, asked>>

\* DHCP_time_handler
Tick ==
    /\ Lossy \/ (idle /\ toServer = {} /\ toClient = {})
    /\ tick' = IF tick < MaxTick THEN tick + 1 ELSE tick
    /\ left' = [s \in Servers |-> IF left[s] > 0 THEN left[s] - 1 ELSE 0]
    /\ idle' = FALSE
    /\ UNCHANGED <<state, allocated, old, sip, leaseTime, retry, chip,
                   toServer, toClient, net, asked>>

-----------------------------------------------------------------------------
(* The servers.                                                            *)

Answer(s, type) == toClient' \in Carrying(toClient, [type |-> type, from |-> s])

\* Every server answers a DISCOVER.
Offer ==
    /\ Discover \in toServer
    /\ toServer' = toServer \ {Discover}
    /\ IF Lossy
         THEN \E s \in Servers : Answer(s, "OFFER")
         ELSE toClient' = toClient \cup [type : {"OFFER"}, from : Servers]
    /\ UNCHANGED left

\* The server that is asked for its address grants it; it refuses another's,
\* or leaves that without an answer.
Reply(m) ==
    /\ m \in toServer
    /\ m.type = "REQUEST"
    /\ toServer' = toServer \ {m}
    /\ \/ /\ m.to = m.ip /\ m.to \in Servers
          /\ Answer(m.to, "ACK")
          /\ left' = IF net = "reliable" /\ Lease[m.to] # Endless
                       THEN [left EXCEPT ![m.to] = Lease[m.to]] ELSE left
       \/ /\ m.to \in Servers
          /\ m.to # m.ip \/ Lossy
          /\ Answer(m.to, "NAK")
          /\ UNCHANGED left
       \/ /\ m.to # m.ip \/ m.to = None
          /\ UNCHANGED <<toClient, left>>

Declined(m) ==
    /\ m \in toServer
    /\ m.type = "DECLINE"
    /\ toServer' = toServer \ {m}
    /\ UNCHANGED <<toClient, left>>

\* A datagram is lost on its way.
Lose ==
    /\ Lossy
    /\ \/ \E m \in toServer : toServer' = toServer \ {m} /\ UNCHANGED toClient
       \/ \E m \in toClient : toClient' = toClient \ {m} /\ UNCHANGED toServer
    /\ UNCHANGED left

\* The network and the servers behave from now on, and the application lets
\* the client run.
Settle ==
    /\ Lossy
    /\ state # "STOP"
    /\ net' = "settled"
    /\ UNCHANGED <<client, toServer, toClient, idle, left, asked>>

Outside ==
    /\ \/ Offer
       \/ \E m \in toServer : Reply(m) \/ Declined(m)
       \/ Lose
    /\ UNCHANGED <<client, net, idle, asked>>

Types == {"OFFER", "ACK", "NAK"}

Deliver == \E m \in toClient : Receive(m)

Next ==
    \/ Poll
    \/ Deliver
    \/ \E type \in Types : Stray(type)
    \/ Stop
    \/ Restart
    \/ Tick
    \/ Outside
    \/ Settle

Spec == Init /\ [][Next]_vars

\* The main loop calls DHCP_run, the timer ticks, and a network that has
\* settled delivers and answers what was sent.
FairSpec ==
    /\ Spec
    /\ WF_vars(Poll)
    /\ WF_vars(~ Lossy /\ Deliver)
    /\ WF_vars(~ Lossy /\ Outside)
    /\ WF_vars(Tick)

-----------------------------------------------------------------------------

ToServer == {Discover} \cup [type : {"REQUEST", "DECLINE"}, to : Addresses, ip : Addresses]
ToClient == [type : Types, from : Servers]

TypeOK ==
    /\ state \in States
    /\ {allocated, old, sip, chip} \subseteq Addresses
    /\ leaseTime \in {Lease[s] : s \in Servers} \cup {Endless}
    /\ tick \in 0 .. MaxTick
    /\ retry \in 0 .. MaxRetry
    /\ toServer \subseteq ToServer /\ toClient \subseteq ToClient
    /\ net \in {"lossy", "settled", "reliable"}
    /\ idle \in BOOLEAN
    /\ left \in [Servers -> Nat]
    /\ asked \in 0 .. MaxRetry + 1

\* The server and the lease time the client goes by are those of the server
\* that granted its address.  Any later message of another server, the OFFER
\* that came second for one, replaces them.
GoesByGrant == sip = chip /\ leaseTime = Lease[chip]

\* On a reliable network the lease of the address in use never runs out while
\* the client goes by the grant: half of it is over before it asks, and what
\* is left is time enough.
LeaseKept ==
    net = "reliable" /\ state \in {"LEASED", "REREQUEST"}
        /\ chip # None /\ GoesByGrant /\ leaseTime # Endless
      => left[chip] > 0

\* Whatever happened before, once the network has settled the client comes to
\* hold a lease, again and again: no late, repeated or refused answer, no
\* conflict, and no count of retries left over stops it.
GetsLease == []( ~ Lossy => <>(state = "LEASED") )

\* A lease is not given up lightly: unless a NAK came, or a datagram that is
\* taken for one, the request was sent MAX_DHCP_RETRY times more.
KeepsAsking ==
    [][ state = "REREQUEST" /\ state' = "DISCOVER"
          => \/ asked = MaxRetry + 1
             \/ \E m \in toClient : m.type = "NAK"
             \/ Stray("NAK") ]_vars
=============================================================================
