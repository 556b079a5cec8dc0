------------------------------ MODULE Discovery ------------------------------
(***************************************************************************)
(* How a mobile client comes to be connected to node runners: the start-up *)
(* of both programs, their announcement in the DHT, and the client's one   *)
(* lookup (cmd/mobile_client/main.go, cmd/node_runner/main.go, and the     *)
(* calls both make into internal/shared/shared.go).                        *)
(*                                                                         *)
(*   runner   bootstrap relay reserve register announce run                *)
(*   client   bootstrap relay announce register search                     *)
(*                       (connect (direct (probe | relayed)))* run         *)
(*                                                                         *)
(* Bootstrap nodes and the relay are taken to be there; an operation on    *)
(* them, or on a peer that is there, fails only as one of MaxFaults.  The  *)
(* programs ignore what their start-up calls return.  A process may be     *)
(* stopped and started again, under the same key, at any time.             *)
(***************************************************************************)
EXTENDS Integers, FiniteSets

CONSTANTS
    Clients,    \* processes running cmd/mobile_client
    Runners,    \* processes running cmd/node_runner
    FindLimit,  \* how many peers a lookup yields, 100 when it is not told
    MaxFaults,  \* bound: operations that fail for no other reason
    MaxReturned \* bound: processes that come back after a stop

ASSUME LimitAssumption  == FindLimit \in Nat \ {0}
ASSUME RolesAssumption  == Clients \intersect Runners = {}
ASSUME FaultsAssumption == MaxFaults \in Nat /\ MaxReturned \in Nat

VARIABLES
    pc,             \* what the main goroutine of each process is at
    relayAddresses, \* processes whose list of relay addresses is not empty
    dht,            \* processes connected to some DHT server
    reserved,       \* processes with a reservation at the relay
    rend,           \* processes that handle the rendezvous protocol
    registered,     \* processes that ran NewPingProtocol
    expired,        \* runners whose context has ended
    advertising,    \* processes that run a goroutine to advertise themselves
    records,        \* processes with a provider record in the DHT
    due,            \* records there were when the client's lookup began
    seen,           \* peers its channel has yielded
    cur,            \* the peer connectToPeers is at
    connectedPeers, \* the map of that name
    links,          \* connections between processes
    returned,       \* history: processes that were stopped and started again
    steady,         \* history: recorded runners that were up, and announced in this
                    \* life, when the lookup began and have not gone down since
    faults          \* faults so far

netVars == <<dht, reserved, records, links, faults>>
lookupVars == <<due, seen, cur, connectedPeers, steady>>
vars == <<pc, relayAddresses, netVars, rend, registered, expired, advertising, lookupVars,
          returned>>

Peers == Clients \union Runners

Stage == {"off", "dead", "bootstrap", "relay", "reserve", "register", "announce",
          "search", "connect", "direct", "probe", "relayed", "run"}

Up(p) == pc[p] \notin {"off", "dead"}

Linked(p, q) == {p, q} \in links

\* Mutant of After: a runner announces itself before it can be called.
AfterSwapped(p) ==
    IF p \in Runners
    THEN [bootstrap |-> "relay", relay |-> "reserve", reserve |-> "announce",
          announce |-> "register", register |-> "run"][pc[p]]
    ELSE [bootstrap |-> "relay", relay |-> "announce", announce |-> "register",
          register |-> "search"][pc[p]]

\* The order in which the two programs do what both do.
After(p) ==
    IF p \in Runners
    THEN [bootstrap |-> "relay", relay |-> "reserve", reserve |-> "register",
          register |-> "announce", announce |-> "run"][pc[p]]
    ELSE [bootstrap |-> "relay", relay |-> "announce", announce |-> "register",
          register |-> "search"][pc[p]]

-----------------------------------------------------------------------------

Init ==
    /\ pc = [p \in Peers |-> "off"]
    /\ relayAddresses = {} /\ dht = {} /\ reserved = {} /\ rend = {} /\ registered = {}
    /\ expired = {} /\ advertising = {} /\ records = {} /\ links = {} /\ faults = 0
    /\ returned = {}
    /\ due = [c \in Clients |-> {}]
    /\ steady = [c \in Clients |-> {}]
    /\ seen = [c \in Clients |-> {}]
    /\ cur = [c \in Clients |-> c]
    /\ connectedPeers = [c \in Clients |-> [p \in Peers |-> "none"]]

\* An operation fails: because of `why`, or because the network does.
Fault(why) ==
    IF why THEN faults' = faults ELSE faults < MaxFaults /\ faults' = faults + 1

(* Start-up *)

\* No bootstrap address that parses ends the program, and a relay address that
\* does not is a nil pointer in createHost; one without a transport yields no
\* relay addresses.  A runner handles the rendezvous protocol from here on.
Start(p) ==
    /\ pc[p] = "off"
    /\ \E bootstrapPeers \in BOOLEAN, relayInfo \in {"nil", "bare", "full"} :
        IF ~bootstrapPeers \/ relayInfo = "nil"
        THEN /\ pc' = [pc EXCEPT ![p] = "dead"]
             /\ UNCHANGED <<relayAddresses, rend>>
        ELSE /\ pc' = [pc EXCEPT ![p] = "bootstrap"]
             /\ relayAddresses' = IF relayInfo = "full" THEN relayAddresses \union {p}
                                  ELSE relayAddresses
             /\ rend' = IF p \in Runners THEN rend \union {p} ELSE rend
    /\ UNCHANGED <<netVars, registered, expired, advertising, lookupVars, returned>>

\* One bootstrap node that answers is enough to be in the DHT.
ConnectToBootstrapPeers(p) ==
    /\ pc[p] = "bootstrap"
    /\ \/ p \notin expired /\ dht' = dht \union {p} /\ UNCHANGED faults
       \/ Fault(p \in expired) /\ UNCHANGED dht
    /\ pc' = [pc EXCEPT ![p] = After(p)]
    /\ UNCHANGED <<relayAddresses, reserved, records, links, rend, registered, expired,
                   advertising, lookupVars, returned>>

\* The relay is a DHT server as well.  A relay address without a transport is
\* looked up in the DHT first.
ConnectToRelay(p) ==
    /\ pc[p] = "relay"
    /\ \/ /\ p \notin expired /\ p \in relayAddresses \union dht
          /\ dht' = dht \union {p} /\ UNCHANGED faults
       \/ Fault(p \in expired \/ p \notin relayAddresses) /\ UNCHANGED dht
    /\ pc' = [pc EXCEPT ![p] = After(p)]
    /\ rend' = IF p \in Clients THEN rend \union {p} ELSE rend
    /\ UNCHANGED <<relayAddresses, reserved, records, links, registered, expired, advertising,
                   lookupVars, returned>>

ReserveRelay(p) ==
    /\ pc[p] = "reserve"
    /\ \/ /\ p \notin expired /\ p \in relayAddresses \union dht
          /\ reserved' = reserved \union {p} /\ UNCHANGED faults
       \/ Fault(p \in expired \/ p \notin relayAddresses) /\ UNCHANGED reserved
    /\ pc' = [pc EXCEPT ![p] = After(p)]
    /\ UNCHANGED <<relayAddresses, dht, records, links, rend, registered, expired, advertising,
                   lookupVars, returned>>

NewPingProtocol(p) ==
    /\ pc[p] = "register"
    /\ registered' = registered \union {p}
    /\ pc' = [pc EXCEPT ![p] = After(p)]
    /\ UNCHANGED <<relayAddresses, netVars, rend, expired, advertising, lookupVars, returned>>

\* Advertise only starts a goroutine: "successfully announced" is logged now.
AnnounceSelf(p) ==
    /\ pc[p] = "announce"
    /\ advertising' = advertising \union {p}
    /\ pc' = [pc EXCEPT ![p] = After(p)]
    /\ UNCHANGED <<relayAddresses, netVars, rend, registered, expired, lookupVars, returned>>

(* The client's lookup *)

\* In this life of the process.
Announced(p) == Up(p) /\ p \in advertising

SearchForPeers(c) ==
    /\ pc[c] = "search"
    /\ due' = [due EXCEPT ![c] = records]
    /\ steady' = [steady EXCEPT ![c] = {r \in Runners \intersect records : Announced(r)}]
    /\ pc' = [pc EXCEPT ![c] = "connect"]
    /\ UNCHANGED <<relayAddresses, netVars, rend, registered, expired, advertising, seen, cur,
                   connectedPeers, returned>>

\* The channel yields a record, each once; one that appears during the lookup
\* may be among them.
NextPeer(c) ==
    /\ pc[c] = "connect" /\ c \in dht /\ Cardinality(seen[c]) < FindLimit
    /\ \E p \in (due[c] \union records) \ seen[c] :
        /\ seen' = [seen EXCEPT ![c] = @ \union {p}]
        /\ cur' = [cur EXCEPT ![c] = p]
        /\ pc' = [pc EXCEPT ![c] = IF p = c THEN "connect" ELSE "direct"]
    /\ UNCHANGED <<relayAddresses, netVars, rend, registered, expired, advertising, due,
                   connectedPeers, steady, returned>>

\* A direct connection, which the peer's NAT may well prevent.
Direct(c) ==
    LET p == cur[c] IN
    /\ pc[c] = "direct"
    /\ \/ /\ Up(p)
          /\ links' = links \union {{c, p}}
          /\ pc' = [pc EXCEPT ![c] = "probe"]
       \/ /\ ~Linked(c, p)
          /\ pc' = [pc EXCEPT ![c] = "relayed"]
          /\ UNCHANGED links
    /\ UNCHANGED <<relayAddresses, dht, reserved, records, faults, rend, registered, expired,
                   advertising, lookupVars, returned>>

\* The connection of c and p is the other client's, by way of the relay.
Limited(c, p) == p \in Clients /\ connectedPeers[p][c] = "relayed"

\* A stream to the peer, for which the connection is made again if it is gone;
\* when it is refused the peer stays connected but unrecorded.
Probe(c) ==
    LET p == cur[c] IN
    /\ pc[c] = "probe"
    /\ \/ /\ Up(p) /\ p \in rend
          /\ links' = links \union {{c, p}}
          /\ connectedPeers' = [connectedPeers EXCEPT ![c][p] = "direct"]
          /\ UNCHANGED faults
       \/ /\ Fault(p \notin rend \/ ~Linked(c, p) \/ Limited(c, p))
          /\ UNCHANGED <<links, connectedPeers>>
    /\ pc' = [pc EXCEPT ![c] = "connect"]
    /\ UNCHANGED <<relayAddresses, dht, reserved, records, rend, registered, expired, advertising,
                   due, seen, cur, steady, returned>>

\* Mutant of Relayed: a peer that cannot be reached ends connectToPeers.
RelayedReturns(c) ==
    LET p == cur[c]
        reached == c \in relayAddresses /\ Up(p) /\ p \in reserved IN
    /\ pc[c] = "relayed"
    /\ links' = IF reached THEN links \union {{c, p}} ELSE links
    /\ connectedPeers' = IF reached THEN [connectedPeers EXCEPT ![c][p] = "relayed"]
                         ELSE connectedPeers
    /\ pc' = [pc EXCEPT ![c] = IF reached THEN "connect" ELSE "run"]
    /\ UNCHANGED <<relayAddresses, dht, reserved, records, faults, rend, registered,
                   expired, advertising, due, seen, cur, steady, returned>>

\* Mutant of Relayed: a peer that cannot be reached is tried again.
RelayedRetries(c) ==
    LET p == cur[c]
        reached == c \in relayAddresses /\ Up(p) /\ p \in reserved IN
    /\ pc[c] = "relayed" /\ reached
    /\ links' = links \union {{c, p}}
    /\ connectedPeers' = [connectedPeers EXCEPT ![c][p] = "relayed"]
    /\ pc' = [pc EXCEPT ![c] = "connect"]
    /\ UNCHANGED <<relayAddresses, dht, reserved, records, faults, rend, registered,
                   expired, advertising, due, seen, cur, steady, returned>>

\* Mutant of Relayed: a peer that cannot be reached is dialled again at once.
RelayedAgain(c) ==
    LET p == cur[c]
        reached == c \in relayAddresses /\ Up(p) /\ p \in reserved IN
    /\ pc[c] = "relayed"
    /\ links' = IF reached THEN links \union {{c, p}} ELSE links
    /\ connectedPeers' = IF reached THEN [connectedPeers EXCEPT ![c][p] = "relayed"]
                         ELSE connectedPeers
    /\ pc' = [pc EXCEPT ![c] = IF reached THEN "connect" ELSE "direct"]
    /\ UNCHANGED <<relayAddresses, dht, reserved, records, faults, rend, registered,
                   expired, advertising, due, seen, cur, steady, returned>>

\* Through the relay, where the peer needs a reservation.
Relayed(c) ==
    LET p == cur[c] IN
    /\ pc[c] = "relayed"
    /\ \/ /\ c \in relayAddresses
          /\ Linked(c, p) \/ (Up(p) /\ p \in reserved)
          /\ links' = links \union {{c, p}}
          /\ connectedPeers' = [connectedPeers EXCEPT ![c][p] = "relayed"]
          /\ UNCHANGED faults
       \/ /\ c \notin relayAddresses \/ ~Linked(c, p)
          /\ Fault(c \notin relayAddresses \/ ~Up(p) \/ p \notin reserved)
          /\ UNCHANGED <<links, connectedPeers>>
    /\ pc' = [pc EXCEPT ![c] = "connect"]
    /\ UNCHANGED <<relayAddresses, dht, reserved, records, rend, registered, expired, advertising,
                   due, seen, cur, steady, returned>>

\* The channel closes, at its limit at the latest, and the ticker loop begins;
\* nobody looks again.
LookupEnds(c) ==
    /\ pc[c] = "connect"
    /\ \/ /\ due[c] \subseteq seen[c] \/ Cardinality(seen[c]) >= FindLimit
          /\ UNCHANGED faults
       \/ Fault(c \notin dht)
    /\ pc' = [pc EXCEPT ![c] = "run"]
    /\ UNCHANGED <<relayAddresses, dht, reserved, records, links, rend, registered,
                   expired, advertising, lookupVars, returned>>

Main(p) ==
    \/ Start(p) \/ ConnectToBootstrapPeers(p) \/ ConnectToRelay(p) \/ ReserveRelay(p)
    \/ NewPingProtocol(p) \/ AnnounceSelf(p)
    \/ p \in Clients /\ (\/ SearchForPeers(p) \/ NextPeer(p) \/ Direct(p)
                         \/ Probe(p) \/ Relayed(p) \/ LookupEnds(p))

(* Around the main goroutines *)

\* An attempt that fails is repeated, and a record is renewed long before it
\* ages out, until the context ends.
Advertise(p) ==
    /\ Up(p) /\ p \in advertising \ expired /\ p \in dht
    /\ records' = records \union {p}
    /\ UNCHANGED <<pc, relayAddresses, dht, reserved, links, faults, rend, registered,
                   expired, advertising, lookupVars, returned>>

\* A record nobody renews ages out.
Age(p) ==
    /\ p \in records
    /\ ~Up(p) \/ p \in expired
    /\ records' = records \ {p}
    /\ UNCHANGED <<pc, relayAddresses, dht, reserved, links, faults, rend, registered,
                   expired, advertising, lookupVars, returned>>

\* Mutant of Expire: the client's context has a deadline as well.
ExpireAny(p) ==
    /\ p \in Peers \ expired /\ Up(p)
    /\ Fault(pc[p] = "run")
    /\ expired' = expired \union {p}
    /\ UNCHANGED <<pc, relayAddresses, dht, reserved, records, links, rend, registered,
                   advertising, lookupVars, returned>>

\* The thirty seconds of a runner's context are over; its start-up normally is.
Expire(p) ==
    /\ p \in Runners \ expired /\ Up(p)
    /\ Fault(pc[p] = "run")
    /\ expired' = expired \union {p}
    /\ UNCHANGED <<pc, relayAddresses, dht, reserved, records, links, rend, registered, advertising,
                   lookupVars, returned>>

\* The autorelay of both programs may get a reservation by itself.
AutoRelay(p) ==
    /\ Up(p) /\ p \in relayAddresses \ reserved
    /\ reserved' = reserved \union {p}
    /\ UNCHANGED <<pc, relayAddresses, dht, records, links, faults, rend, registered,
                   expired, advertising, lookupVars, returned>>

\* A process is stopped: its connections go, and what it has in memory, but its
\* record stays for a while.
Stop(p) ==
    /\ Up(p)
    /\ pc' = [pc EXCEPT ![p] = "dead"]
    /\ links' = {l \in links : p \notin l}
    /\ relayAddresses' = relayAddresses \ {p} /\ dht' = dht \ {p}
    /\ reserved' = reserved \ {p} /\ rend' = rend \ {p}
    /\ registered' = registered \ {p} /\ expired' = expired \ {p}
    /\ advertising' = advertising \ {p}
    /\ due' = [c \in Clients |-> IF c = p THEN {} ELSE due[c]]
    /\ seen' = [c \in Clients |-> IF c = p THEN {} ELSE seen[c]]
    /\ cur' = [c \in Clients |-> IF c = p THEN c ELSE cur[c]]
    /\ connectedPeers' = [c \in Clients |-> IF c = p THEN [q \in Peers |-> "none"]
                                            ELSE connectedPeers[c]]
    /\ steady' = [c \in Clients |-> IF c = p THEN {} ELSE steady[c] \ {p}]
    /\ UNCHANGED <<records, faults, returned>>

\* Its operator starts it again, under the same key.
Restart(p) ==
    /\ pc[p] = "dead"
    /\ p \in returned \/ Cardinality(returned) < MaxReturned
    /\ pc' = [pc EXCEPT ![p] = "off"]
    /\ returned' = returned \union {p}
    /\ UNCHANGED <<relayAddresses, netVars, rend, registered, expired, advertising, lookupVars>>

\* A connection is lost.  The programs log it and do nothing; with the one to
\* the relay goes the reservation.
Disconnect ==
    /\ \/ \E l \in links : links' = links \ {l} /\ UNCHANGED reserved
       \/ \E p \in reserved : reserved' = reserved \ {p} /\ UNCHANGED links
    /\ Fault(FALSE)
    /\ UNCHANGED <<pc, relayAddresses, dht, records, rend, registered, expired,
                   advertising, lookupVars, returned>>

Around(p) == Advertise(p) \/ Age(p) \/ Expire(p) \/ AutoRelay(p) \/ Stop(p) \/ Restart(p)

Next == Disconnect \/ \E p \in Peers : Main(p) \/ Around(p)

\* A process that was started goes on, and so does its advertising goroutine;
\* when a process is started or stopped is its operator's choice.
Fairness == \A p \in Peers : WF_vars(Up(p) /\ Main(p)) /\ WF_vars(Advertise(p))

Spec == Init /\ [][Next]_vars
FairSpec == Spec /\ Fairness

-----------------------------------------------------------------------------

(***************************************************************************)
(* Every variable has its type.                                            *)
(***************************************************************************)
TypeOK ==
    /\ pc \in [Peers -> Stage]
    /\ relayAddresses \subseteq Peers /\ dht \subseteq Peers /\ reserved \subseteq Peers
    /\ rend \subseteq Peers /\ registered \subseteq Peers /\ expired \subseteq Runners
    /\ advertising \subseteq Peers /\ records \subseteq Peers
    /\ due \in [Clients -> SUBSET Peers]
    /\ seen \in [Clients -> SUBSET Peers]
    /\ cur \in [Clients -> Peers]
    /\ steady \in [Clients -> SUBSET Runners] /\ returned \subseteq Peers
    /\ connectedPeers \in [Clients -> [Peers -> {"none", "direct", "relayed"}]]
    /\ links \subseteq SUBSET Peers
    /\ faults \in 0..MaxFaults

(***************************************************************************)
(* Whoever finds a running runner can call it, although it is started,     *)
(* announces itself and is found at any time: a runner with a record in    *)
(* the DHT, or a connection to a client, has registered its handlers.  The *)
(* one exception is a runner that has come back and not announced itself   *)
(* in this life: its fixed key and the record of an earlier life lead to   *)
(* it before NewPingProtocol.  node_runner/main.go:272, 287-289.           *)
(***************************************************************************)
FoundRunnersServe ==
    \A r \in Runners :
        /\ Up(r)
        /\ r \in records \/ \E c \in Clients : Linked(c, r)
        /\ r \in returned => r \in advertising
        => r \in registered /\ r \in rend

(***************************************************************************)
(* A client's one lookup does its work: a runner that was announced when   *)
(* it began, and has not gone down since, is connected to the client when  *)
(* its ticker loop begins, even with no direct path, and whatever other    *)
(* peers it met were gone or have come back, unless an operation failed or *)
(* the lookup had yielded all the peers it may before it came to that      *)
(* runner.  mobile_client/main.go:242-330, node_runner/main.go:274-289.    *)
(***************************************************************************)
AnnouncedIsConnected ==
    \A c \in Clients : \A r \in steady[c] :
        /\ pc[c] = "run" /\ {c, r} \subseteq relayAddresses /\ faults = 0
        /\ Cardinality(seen[c]) < FindLimit \/ r \in seen[c]
        => Linked(c, r)

(***************************************************************************)
(* No peer, alive or gone, keeps a program from its ticker loop, and a     *)
(* client that advertises itself gets into the DHT, which a runner may     *)
(* not: its context ends.  mobile_client/main.go:249-330, 397-406.         *)
(***************************************************************************)
StartUpEnds ==
    /\ \A p \in Peers : Up(p) ~> pc[p] \in {"run", "dead"}
    /\ \A c \in Clients : c \in advertising /\ c \in dht ~> (c \in records \/ ~Up(c))

(***************************************************************************)
(* A start-up cannot go round in circles: each step of a main goroutine    *)
(* takes it closer to its ticker loop, or a lookup to the end of its       *)
(* channel, which yields no peer twice; nothing else but a stop moves it,  *)
(* and the end of the process is the only way back to its beginning.       *)
(* mobile_client/main.go:249-330, 432-493, node_runner/main.go:238-296.    *)
(***************************************************************************)
Order(p) ==
    [off |-> 0, bootstrap |-> 1, relay |-> 2, reserve |-> 3, register |-> 4,
     announce |-> IF p \in Runners THEN 5 ELSE 3, search |-> 5,
     direct |-> 6, probe |-> 7, relayed |-> 7, connect |-> 8, run |-> 9, dead |-> 10]

StartUpAdvances ==
    [][\A p \in Peers : Main(p) \/ pc'[p] # pc[p] =>
          \/ Order(p)[pc'[p]] > Order(p)[pc[p]]
          \/ pc[p] = "dead" /\ pc'[p] = "off"
          \/ /\ p \in Clients /\ pc[p] = "connect"
             /\ seen[p] \subseteq seen'[p] /\ seen'[p] # seen[p]]_vars

(***************************************************************************)
(* node_runner/main.go:234 logs "successfully announced": a process that   *)
(* gets past it would be in the DHT, and stay there while it runs.         *)
(***************************************************************************)
StaysAnnounced ==
    \A p \in Peers : p \in advertising ~> [](Up(p) /\ p \in dht => p \in records)
=============================================================================
