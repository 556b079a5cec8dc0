------------------------------- MODULE Startup -------------------------------
(***************************************************************************)
(* The four programs from their arguments to the select at the end of      *)
(* main: which identity each of them runs under, whom it gets connected    *)
(* to, and whom its ticker loop takes for a peer.  The errors of the       *)
(* arguments are logged or overwritten and seldom looked at (cmd/relay/    *)
(* main.go:312, cmd/boot/main.go:25, cmd/node_runner/main.go:241-249); a   *)
(* process goes on with what the call returned beside the error.           *)
(*                                                                         *)
(*   bootstrap    parse, host, join                                        *)
(*   relay        parse, host, join, handle                                *)
(*   client       parse, host, join, handle                                *)
(*   runner       parse, host, handle, join                                *)
(*                                                                         *)
(* A stage is named for what comes next.  After `host` a process listens   *)
(* under its identity; `join` connects it to the nodes of its arguments;   *)
(* `handle` registers the rendezvous handler.  The sleeps, the reservation *)
(* and the announcement are Discovery's.                                   *)
(***************************************************************************)
EXTENDS Naturals, FiniteSets

CONSTANTS
    Boots, Relays, Clients, Runners,
    BootstrapPeerIDs,   \* the bootstrap nodes the programs know, by three fixed IDs
    Boot0,              \* the one of them with key 0
    OutOfRange, NotANumber,     \* key indices without a key
    Junk,           \* a bootstrap address that does not parse
    Nobody,         \* a random identity, which no configuration names
    MaxErrors,      \* bound: mistakes in the arguments
    MaxFaults       \* bound: operations that fail, processes that stop

Processes == Boots \union Relays \union Clients \union Runners
Peers     == Clients \union Runners

ASSUME StartupAssumption ==
    /\ BootstrapPeerIDs \subseteq Boots /\ Boot0 \in BootstrapPeerIDs
    /\ {OutOfRange, NotANumber, Junk, Nobody} \intersect Processes = {}
    /\ OutOfRange # NotANumber
    /\ Boots \intersect Relays = {}
    /\ (Boots \union Relays) \intersect Peers = {}
    /\ Clients \intersect Runners = {}
    /\ MaxErrors \in Nat /\ MaxFaults \in Nat

\* What an operator types: an index into the one table of keys that all programs
\* share, which may well be that of another process; the first argument, which is
\* for a peer the address of a relay, maybe without a transport, for a bootstrap
\* node its port, and for a relay nothing; and addresses of bootstrap nodes.
Typed ==
    [index : Processes \union {OutOfRange, NotANumber},
     address : {"good", "bare", "bad"}, relay : Relays \union {Nobody},
     list : SUBSET (Boots \union {Junk})]

Unparsed == [index |-> Boot0, address |-> "bad", relay |-> Nobody, list |-> {}]

VARIABLES
    stage,
    typed,      \* the arguments of a process
    identity,   \* the peer ID a process runs under
    links,      \* who is connected
    errors, faults

vars == <<stage, typed, identity, links, errors, faults>>

Init ==
    /\ stage = [p \in Processes |-> "parse"]
    /\ typed = [p \in Processes |-> [Unparsed EXCEPT !.index = NotANumber]]
    /\ identity = [p \in Processes |-> Nobody]
    /\ links = {}
    /\ errors = 0
    /\ faults = 0

Listening(p) == stage[p] \notin {"parse", "host", "stopped"}

\* The rendezvous handler is registered.
Handling(p) ==
    \/ p \in Runners /\ stage[p] \in {"join", "ready"}
    \/ p \in Relays \union Clients /\ stage[p] = "ready"

Fault == faults < MaxFaults /\ faults' = faults + 1

-----------------------------------------------------------------------------
(* The arguments.                                                            *)

\* Mutant of ParseCmdArgs: a bad index costs the index only.
ParseCmdArgsKept(t) ==
    IF t.index = NotANumber THEN [t EXCEPT !.index = Boot0] ELSE t

\* The callers drop the error and go on with index 0 and no addresses.
ParseCmdArgs(t) == IF t.index = NotANumber THEN Unparsed ELSE t

Args(p) == ParseCmdArgs(typed[p])

\* Any index in the table will do.  The option is nil for another one, which
\* libp2p.New skips.
GetLibp2pIdentity(index) == IF index = OutOfRange THEN Nobody ELSE index

\* What parses is returned beside the error about the rest.
ParseBootstrap(list) == list \ {Junk}

\* Mistakes: an index that is not the own one, a first argument that is not
\* right, a list that has nothing or something else than addresses in it.
Mistakes(p, t) ==
    Cardinality({m \in {"index", "address", "list"} :
        \/ m = "index" /\ t.index # p
        \/ m = "address" /\ t.address # "good"
        \/ m = "list" /\ (Junk \in t.list \/ (p \notin Boots /\ t.list = {}))})

\* A bootstrap node looks at its port, a peer at the length of its list, and a
\* peer dereferences the relay's address.
Fatal(p, a) ==
    \/ p \in Boots \union Peers /\ a.address = "bad"
    \/ p \in Peers /\ ParseBootstrap(a.list) = {}

\* What may be typed for each process, whose program says what its first
\* argument is; its own address in its list would lead it nowhere.
CommandLines ==
    [p \in Processes |->
        {t \in Typed : /\ Mistakes(p, t) <= MaxErrors /\ p \notin t.list
                       /\ p \in Peers <=> t.relay # Nobody
                       /\ t.address # "good" => p \notin Relays
                       /\ t.address = "bare" => p \in Peers}]

Parse(p) ==
    /\ stage[p] = "parse"
    /\ \E t \in CommandLines[p] :
           /\ errors + Mistakes(p, t) <= MaxErrors
           /\ errors' = errors + Mistakes(p, t)
           /\ typed' = [typed EXCEPT ![p] = t]
           /\ stage' = [stage EXCEPT ![p] = IF Fatal(p, ParseCmdArgs(t)) THEN "stopped" ELSE "host"]
    /\ UNCHANGED <<identity, links, faults>>

-----------------------------------------------------------------------------
(* The rest of main.                                                         *)

After(p, at) ==
    CASE at = "host"   -> IF p \in Runners THEN "handle" ELSE "join"
      [] at = "join"   -> IF p \in Boots \union Runners THEN "ready" ELSE "handle"
      [] at = "handle" -> IF p \in Runners THEN "join" ELSE "ready"

\* The host, and with it the relay service of a relay and the DHT; an error of
\* any of them is fatal.
CreateHost(p) ==
    /\ stage[p] = "host"
    /\ \/ /\ stage' = [stage EXCEPT ![p] = After(p, "host")]
          /\ identity' = [identity EXCEPT ![p] = GetLibp2pIdentity(Args(p).index)]
          /\ UNCHANGED faults
       \/ /\ Fault
          /\ stage' = [stage EXCEPT ![p] = "stopped"]
          /\ UNCHANGED identity
    /\ UNCHANGED <<typed, links, errors>>

\* The two run under one and the same key.
Same(p, q) == identity[p] = identity[q] /\ identity[p] # Nobody

\* A dial to one's own peer ID fails, and one to the ID of a peer one is
\* connected to makes no connection.
Dialable(p, q) ==
    /\ Listening(q) /\ p # q /\ {p, q} \notin links
    /\ ~\E m \in Processes : (m = p \/ {p, m} \in links) /\ Same(m, q)

\* A dial proves the other side's identity: an address leads to n or to nobody.
Reachable(p, n) == n \in Processes /\ Dialable(p, n) /\ identity[n] = n

\* The nodes the arguments of p name.
Named(p) ==
    ParseBootstrap(Args(p).list) \union
    (IF p \in Peers THEN {Args(p).relay} ELSE {})

\* The connections that are left when p is gone.
Without(p) == {l \in links : p \notin l}

\* A relay finds out now, with its host up, that it has no bootstrap nodes; a
\* bootstrap node only warns.  Whoever cannot be connected to is skipped, and
\* nobody tries again.
Join(p) ==
    /\ stage[p] = "join"
    /\ IF p \in Relays /\ ParseBootstrap(Args(p).list) = {}
       THEN /\ stage' = [stage EXCEPT ![p] = "stopped"]
            /\ links' = Without(p)
            /\ UNCHANGED faults
       ELSE /\ stage' = [stage EXCEPT ![p] = After(p, "join")]
            /\ \E S \in SUBSET {n \in Named(p) : Reachable(p, n)} :
                   /\ IF S = {n \in Named(p) : Reachable(p, n)} THEN UNCHANGED faults ELSE Fault
                   /\ links' = links \union {{p, n} : n \in S}
    /\ UNCHANGED <<typed, identity, errors>>

SetStreamHandler(p) ==
    /\ stage[p] = "handle"
    /\ stage' = [stage EXCEPT ![p] = After(p, "handle")]
    /\ UNCHANGED <<typed, identity, links, errors, faults>>

-----------------------------------------------------------------------------
(* The network, external.                                                    *)

InDHT(p) == Listening(p) /\ \E l \in links : p \in l

\* A peer meets others that are in the DHT through it.
Introduce(p, q) ==
    /\ p \in Peers /\ InDHT(p) /\ InDHT(q) /\ Dialable(p, q)
    /\ links' = links \union {{p, q}}
    /\ UNCHANGED <<stage, typed, identity, errors, faults>>

Disconnect(l) ==
    /\ Fault
    /\ links' = links \ {l}
    /\ UNCHANGED <<stage, typed, identity, errors>>

Stop(p) ==
    /\ Listening(p) /\ Fault
    /\ stage' = [stage EXCEPT ![p] = "stopped"]
    /\ links' = Without(p)
    /\ UNCHANGED <<typed, identity, errors>>

Next ==
    \/ \E p \in Processes :
           Parse(p) \/ CreateHost(p) \/ Join(p) \/ SetStreamHandler(p) \/ Stop(p)
    \/ \E p, q \in Processes : Introduce(p, q)
    \/ \E l \in links : Disconnect(l)

Spec == Init /\ [][Next]_vars

-----------------------------------------------------------------------------
(* Whom the ticker loop of a client or runner calls.                         *)

\* Mutant of IsBootstrapPeer: no ID has been put into the list.
IsBootstrapPeerUnfilled(id) == FALSE

\* init() fills BootstrapPeerIDs with the IDs of the first three keys; the code
\* would call a bootstrap node with another one.
IsBootstrapPeer(id) == id \in BootstrapPeerIDs

\* ConstructRelayAddresses gives an address for each transport of the relay's,
\* so none for a bare one.
ContainsPeer(p, id) ==
    Args(p).address = "good" /\ Args(p).relay = id

\* Mutant of IsInvalidTarget: the relay is forgotten.
IsInvalidTargetBoots(p, id) == IsBootstrapPeer(id)

IsInvalidTarget(p, id) == IsBootstrapPeer(id) \/ ContainsPeer(p, id)

Targets(p) ==
    {q \in Processes : /\ stage[p] = "ready" /\ {p, q} \in links
                       /\ ~Same(p, q)
                       /\ ~IsInvalidTarget(p, identity[q])}

(***************************************************************************)
(* Every variable has its type.                                            *)
(***************************************************************************)
TypeOK ==
    /\ stage \in [Processes -> {"parse", "host", "join", "handle", "ready", "stopped"}]
    /\ typed \in [Processes -> Typed]
    /\ identity \in [Processes -> Processes \union {Nobody}]
    /\ links \subseteq {{p, q} : p, q \in Processes}
    /\ errors \in 0 .. MaxErrors
    /\ faults \in 0 .. MaxFaults

(***************************************************************************)
(* A loop calls the clients and runners it is connected to and nobody      *)
(* else, as long as everybody's arguments are right.  If it calls a        *)
(* bootstrap node or a relay, which serve none of its protocols, that node *)
(* runs under another key than its own or is not one of the three the      *)
(* programs know, or the relay is not the one in the caller's arguments,   *)
(* or is there without a transport; if it leaves out a client or a runner, *)
(* that one runs under the key of another process.  shared.go:82-102,      *)
(* 282-325, mobile_client/main.go:45-57, 514.                              *)
(***************************************************************************)
CallsExplained ==
    \A p \in Peers :
        /\ \A q \in Targets(p) :
               \/ q \in Peers
               \/ typed[q].index # q
               \/ q \in Boots \ BootstrapPeerIDs
               \/ q \in Relays /\ (typed[p].relay = q => typed[p].address = "bare")
        /\ \A q \in Peers :
               stage[p] = "ready" /\ {p, q} \in links /\ q \notin Targets(p)
                   => typed[q].index \in Processes \ {q}

(***************************************************************************)
(* Whoever is ready or connected runs under the key whose index was typed, *)
(* or under a random one because there is none.  Index 0, which is a       *)
(* bootstrap node's and stands for arguments that do not parse, gets       *)
(* nobody anywhere who did not type it, although no program looks at the   *)
(* error and a relay comes up with it.  shared.go:54-59, 137-156,          *)
(* boot/main.go:25-31, relay/main.go:313-340.                              *)
(***************************************************************************)
NoImpostor ==
    \A p \in Processes :
        stage[p] = "ready" \/ (\E l \in links : p \in l)
            => \/ identity[p] = typed[p].index
               \/ identity[p] = Nobody /\ typed[p].index = OutOfRange
=============================================================================
