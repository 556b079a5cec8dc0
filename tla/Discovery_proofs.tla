-------------------------- MODULE Discovery_proofs --------------------------
(***************************************************************************)
(* Discovery for any clients, runners, limits, faults and returns: a       *)
(* runner that is found can be called, and a lookup connects the client to *)
(* what was announced.                                                     *)
(*                                                                         *)
(* What leads to a runner is a record, and a record comes from an          *)
(* advertisement of this life or of an earlier one (Known, Met): of this   *)
(* life it shows that the runner is past NewPingProtocol (Serving) and,    *)
(* when nothing failed, past the reservation a relayed connection needs    *)
(* (Equipped).  The memory of a process goes with it, and its record does  *)
(* not, which is why Known has to speak of the dead and the returned.      *)
(***************************************************************************)
EXTENDS Discovery, FiniteSetTheorems, TLAPS

(* The stages of one program are not the other's. *)
Stages ==
    /\ \A c \in Clients : pc[c] # "reserve"
    /\ \A r \in Runners : pc[r] \notin {"search", "connect", "direct", "probe", "relayed"}

(* A runner serves from the stage on at which it announces itself. *)
Serving ==
    \A r \in Runners :
        /\ Up(r) => r \in rend
        /\ pc[r] \in {"announce", "run"} => r \in registered
        /\ r \in advertising => pc[r] = "run"

(* What announced itself in some life. *)
WasAnnounced(p) == p \in advertising \/ p \in returned \/ pc[p] = "dead"

(* A client knows what announced itself, and nothing before its lookup; whom   *)
(* it should reach is announced in this life.                                  *)
Known ==
    /\ \A p \in records : WasAnnounced(p)
    /\ \A c \in Clients :
        /\ \A p \in due[c] \union seen[c] : WasAnnounced(p)
        /\ IsFiniteSet(seen[c])
        /\ pc[c] \notin {"connect", "direct", "probe", "relayed", "run"} => seen[c] = {}
        /\ \A r \in steady[c] : Announced(r) /\ r \in due[c]

(* A client is connected to peers its lookup found. *)
Met ==
    \A c \in Clients :
        /\ pc[c] \in {"direct", "probe", "relayed"} => cur[c] \in seen[c] /\ cur[c] # c
        /\ \A r \in Runners : Linked(c, r) => Up(c) /\ Up(r) /\ r \in seen[c]

(* Unless an operation failed, a start-up has got what it asked for ... *)
Equipped ==
    faults = 0 =>
        /\ \A p \in Peers :
            /\ p \in expired => pc[p] = "run"
            /\ Up(p) /\ pc[p] # "bootstrap" => p \in dht
        /\ \A r \in Runners :
            pc[r] \in {"register", "announce", "run"} /\ r \in relayAddresses => r \in reserved

(* ... and so has a lookup, but for the peer it is at. *)
Reached ==
    faults = 0 =>
        \A c \in Clients :
            /\ pc[c] = "run" => due[c] \subseteq seen[c] \/ Cardinality(seen[c]) >= FindLimit
            /\ \A r \in steady[c] \intersect seen[c] :
                {c, r} \subseteq relayAddresses =>
                    \/ Linked(c, r)
                    \/ pc[c] \in {"direct", "relayed"} /\ cur[c] = r

IInv == TypeOK /\ Stages /\ Serving /\ Known /\ Met /\ Equipped /\ Reached

-----------------------------------------------------------------------------

(* A connection is between two processes, whichever comes first. *)
LEMMA PairEq ==
    ASSUME NEW a, NEW b, NEW x, NEW y
    PROVE  {a, b} = {x, y} <=> (a = x /\ b = y) \/ (a = y /\ b = x)
  OBVIOUS

(* Before anything is started nothing is known, connected or announced. *)
LEMMA InitIInv == Init => IInv
<1> SUFFICES ASSUME Init PROVE IInv
  OBVIOUS
<1> USE RolesAssumption, FaultsAssumption DEF Init, Peers
<1>1. TypeOK
  <2>1. connectedPeers \in [Clients -> [Peers -> {"none", "direct", "relayed"}]]
    OBVIOUS
  <2> QED  BY <2>1 DEF TypeOK, Stage
<1>2. Stages /\ Serving
  BY DEF Stages, Serving, Up
<1>3. Known
  BY FS_EmptySet DEF Known
<1>4. Met /\ Equipped /\ Reached
  BY DEF Met, Equipped, Reached, Up, Linked
<1> QED  BY <1>1, <1>2, <1>3, <1>4 DEF IInv

(* The stages, in the order of the programs. *)
LEMMA AfterType ==
    ASSUME TypeOK, Stages, NEW p \in Peers,
           pc[p] \in {"bootstrap", "relay", "reserve", "announce", "register"}
    PROVE  /\ pc[p] = "bootstrap" => After(p) = "relay"
           /\ pc[p] = "relay" => After(p) = IF p \in Runners THEN "reserve" ELSE "announce"
           /\ pc[p] = "reserve" => p \in Runners /\ After(p) = "register"
           /\ pc[p] = "register" => After(p) = IF p \in Runners THEN "announce" ELSE "search"
           /\ pc[p] = "announce" => After(p) = IF p \in Runners THEN "run" ELSE "register"
  BY RolesAssumption DEF Stages, After, Peers

(* A step along the order of a start-up stays within the program's stages. *)
LEMMA StageStep ==
    ASSUME TypeOK, Stages, NEW p \in Peers, pc' = [pc EXCEPT ![p] = After(p)],
           pc[p] \in {"bootstrap", "relay", "reserve", "announce", "register"}
    PROVE  pc' \in [Peers -> Stage] /\ Stages'
<1>1. /\ After(p) \in Stage
      /\ p \in Clients => After(p) # "reserve"
      /\ p \in Runners => After(p) \notin {"search", "connect", "direct", "probe", "relayed"}
  BY AfterType, RolesAssumption DEF Peers, Stage
<1>2. pc \in [Peers -> Stage] /\ p \in Peers
  BY DEF TypeOK
<1>3. \A x \in Peers : pc'[x] = IF x = p THEN After(p) ELSE pc[x]
  BY <1>2
<1>4. pc' \in [Peers -> Stage]
  BY <1>1, <1>2
<1>5. Stages'
  BY <1>1, <1>3 DEF Stages, Peers
<1> QED  BY <1>4, <1>5

(* A process that is not at a stage both programs have goes on to one it has. *)
LEMMA OwnStageStep ==
    ASSUME TypeOK, Stages, NEW p \in Peers, NEW s \in Stage, pc' = [pc EXCEPT ![p] = s],
           p \in Clients => s # "reserve",
           p \in Runners => s \notin {"search", "connect", "direct", "probe", "relayed"}
    PROVE  pc' \in [Peers -> Stage] /\ Stages'
<1>1. pc \in [Peers -> Stage]
  BY DEF TypeOK
<1>2. \A x \in Peers : pc'[x] = IF x = p THEN s ELSE pc[x]
  BY <1>1
<1>3. Stages'
  BY <1>2 DEF Stages, Peers
<1> QED  BY <1>1, <1>3

(* Faults are counted within their bound and never forgotten. *)
LEMMA FaultStep ==
    ASSUME TypeOK, faults' = faults \/ (faults < MaxFaults /\ faults' = faults + 1)
    PROVE  faults' \in 0..MaxFaults /\ (faults' = 0 => faults = 0)
  BY FaultsAssumption DEF TypeOK

(* Types, and whose stages they are, are preserved by every action. *)
LEMMA TypeStep == TypeOK /\ Stages /\ [Next]_vars => TypeOK' /\ Stages'
<1> SUFFICES ASSUME TypeOK, Stages, [Next]_vars PROVE TypeOK' /\ Stages'
  OBVIOUS
<1> USE DEF TypeOK, netVars, lookupVars
<1>1. ASSUME NEW p \in Peers, Start(p) PROVE TypeOK' /\ Stages'
  <2>1. \E s \in {"dead", "bootstrap"} : pc' = [pc EXCEPT ![p] = s]
    BY <1>1 DEF Start
  <2>2. pc' \in [Peers -> Stage] /\ Stages'
    BY <2>1, OwnStageStep DEF Stage
  <2> QED  BY <1>1, <2>2 DEF Start
<1>2. ASSUME NEW p \in Peers, ConnectToBootstrapPeers(p) PROVE TypeOK' /\ Stages'
  <2>1. pc' \in [Peers -> Stage] /\ Stages'
    BY <1>2, StageStep DEF ConnectToBootstrapPeers
  <2>2. faults' \in 0..MaxFaults
    BY <1>2, FaultStep DEF ConnectToBootstrapPeers, Fault
  <2> QED  BY <1>2, <2>1, <2>2 DEF ConnectToBootstrapPeers
<1>3. ASSUME NEW p \in Peers, ConnectToRelay(p) PROVE TypeOK' /\ Stages'
  <2>1. pc' \in [Peers -> Stage] /\ Stages'
    BY <1>3, StageStep DEF ConnectToRelay
  <2>2. faults' \in 0..MaxFaults
    BY <1>3, FaultStep DEF ConnectToRelay, Fault
  <2> QED  BY <1>3, <2>1, <2>2 DEF ConnectToRelay
<1>4. ASSUME NEW p \in Peers, ReserveRelay(p) PROVE TypeOK' /\ Stages'
  <2>1. pc' \in [Peers -> Stage] /\ Stages'
    BY <1>4, StageStep DEF ReserveRelay
  <2>2. faults' \in 0..MaxFaults
    BY <1>4, FaultStep DEF ReserveRelay, Fault
  <2> QED  BY <1>4, <2>1, <2>2 DEF ReserveRelay
<1>5. ASSUME NEW p \in Peers, NewPingProtocol(p) PROVE TypeOK' /\ Stages'
  BY <1>5, StageStep DEF NewPingProtocol
<1>6. ASSUME NEW p \in Peers, AnnounceSelf(p) PROVE TypeOK' /\ Stages'
  BY <1>6, StageStep DEF AnnounceSelf
<1>7. ASSUME NEW c \in Clients, SearchForPeers(c) PROVE TypeOK' /\ Stages'
  <2>1. pc' \in [Peers -> Stage] /\ Stages'
    BY <1>7, OwnStageStep, RolesAssumption DEF SearchForPeers, Stage, Peers
  <2> QED  BY <1>7, <2>1 DEF SearchForPeers
<1>8. ASSUME NEW c \in Clients, NextPeer(c) PROVE TypeOK' /\ Stages'
  <2>1. \E s \in {"connect", "direct"} : pc' = [pc EXCEPT ![c] = s]
    BY <1>8 DEF NextPeer
  <2>2. pc' \in [Peers -> Stage] /\ Stages'
    BY <2>1, OwnStageStep, RolesAssumption DEF Stage, Peers
  <2> QED  BY <1>8, <2>2 DEF NextPeer
<1>9. ASSUME NEW c \in Clients, Direct(c) PROVE TypeOK' /\ Stages'
  <2>1. \E s \in {"probe", "relayed"} : pc' = [pc EXCEPT ![c] = s]
    BY <1>9 DEF Direct
  <2>2. pc' \in [Peers -> Stage] /\ Stages'
    BY <2>1, OwnStageStep, RolesAssumption DEF Stage, Peers
  <2>3. links' \subseteq SUBSET Peers
    BY <1>9 DEF Direct, Peers
  <2> QED  BY <1>9, <2>2, <2>3 DEF Direct
<1>10. ASSUME NEW c \in Clients, Probe(c) \/ Relayed(c) PROVE TypeOK' /\ Stages'
  <2>1. pc' \in [Peers -> Stage] /\ Stages'
    BY <1>10, OwnStageStep, RolesAssumption DEF Probe, Relayed, Stage, Peers
  <2>2. faults' \in 0..MaxFaults
    BY <1>10, FaultStep DEF Probe, Relayed, Fault
  <2>3. links' = links \union {{c, cur[c]}} \/ links' = links
    BY <1>10 DEF Probe, Relayed
  <2>4. {c, cur[c]} \subseteq Peers
    BY DEF Peers
  <2>5. connectedPeers' \in [Clients -> [Peers -> {"none", "direct", "relayed"}]]
    <3>1. \/ UNCHANGED connectedPeers
          \/ \E v \in {"direct", "relayed"} :
                connectedPeers' = [connectedPeers EXCEPT ![c][cur[c]] = v]
      BY <1>10 DEF Probe, Relayed
    <3> QED  BY <2>4, <3>1
  <2> QED  BY <1>10, <2>1, <2>2, <2>3, <2>4, <2>5 DEF Probe, Relayed
<1>11. ASSUME NEW c \in Clients, LookupEnds(c) PROVE TypeOK' /\ Stages'
  <2>1. pc' \in [Peers -> Stage] /\ Stages'
    BY <1>11, OwnStageStep, RolesAssumption DEF LookupEnds, Stage, Peers
  <2>2. faults' \in 0..MaxFaults
    BY <1>11, FaultStep DEF LookupEnds, Fault
  <2> QED  BY <1>11, <2>1, <2>2 DEF LookupEnds
<1>12. ASSUME NEW p \in Peers, Expire(p) PROVE TypeOK' /\ Stages'
  <2>1. faults' \in 0..MaxFaults
    BY <1>12, FaultStep DEF Expire, Fault
  <2> QED  BY <1>12, <2>1 DEF Expire, Stages
<1>13. ASSUME NEW p \in Peers, Stop(p) PROVE TypeOK' /\ Stages'
  <2>1. pc' \in [Peers -> Stage] /\ Stages'
    BY <1>13, OwnStageStep DEF Stop, Stage
  <2>2. /\ due' \in [Clients -> SUBSET Peers] /\ seen' \in [Clients -> SUBSET Peers]
        /\ cur' \in [Clients -> Peers] /\ steady' \in [Clients -> SUBSET Runners]
    BY <1>13 DEF Stop, Peers
  <2>3. connectedPeers' \in [Clients -> [Peers -> {"none", "direct", "relayed"}]]
    BY <1>13 DEF Stop
  <2> QED  BY <1>13, <2>1, <2>2, <2>3 DEF Stop
<1>14. ASSUME NEW p \in Peers, Restart(p) PROVE TypeOK' /\ Stages'
  <2>1. pc' \in [Peers -> Stage] /\ Stages'
    BY <1>14, OwnStageStep DEF Restart, Stage
  <2> QED  BY <1>14, <2>1 DEF Restart
<1>15. ASSUME NEW p \in Peers, Advertise(p) \/ Age(p) \/ AutoRelay(p) PROVE TypeOK' /\ Stages'
  BY <1>15 DEF Advertise, Age, AutoRelay, Stages
<1>16. CASE Disconnect
  <2>1. faults' \in 0..MaxFaults
    BY <1>16, FaultStep DEF Disconnect, Fault
  <2> QED  BY <1>16, <2>1 DEF Disconnect, Stages
<1>17. CASE UNCHANGED vars
  BY <1>17 DEF vars, Stages
<1> QED
  BY <1>1, <1>2, <1>3, <1>4, <1>5, <1>6, <1>7, <1>8, <1>9, <1>10, <1>11, <1>12, <1>13, <1>14,
     <1>15, <1>16, <1>17
  DEF Next, Main, Around

(* A runner's handlers are set and registered before it advertises itself. *)
LEMMA ServingStep == TypeOK /\ Stages /\ Serving /\ [Next]_vars => Serving'
<1> SUFFICES ASSUME TypeOK, Stages, Serving, [Next]_vars PROVE Serving'
  OBVIOUS
<1>1. pc \in [Peers -> Stage] /\ Runners \subseteq Peers
  BY DEF TypeOK, Peers
<1>2. ASSUME NEW p \in Peers, Start(p) PROVE Serving'
  BY <1>1, <1>2 DEF Start, Serving, Up
<1>3. ASSUME NEW p \in Peers,
             ConnectToBootstrapPeers(p) \/ ConnectToRelay(p) \/ ReserveRelay(p)
      PROVE  Serving'
  <2>1. pc[p] \in {"bootstrap", "relay", "reserve"} /\ pc' = [pc EXCEPT ![p] = After(p)]
    BY <1>3 DEF ConnectToBootstrapPeers, ConnectToRelay, ReserveRelay
  <2>2. p \in Runners => After(p) \in {"relay", "reserve", "register"}
    BY <2>1, AfterType
  <2>3. UNCHANGED <<registered, advertising>> /\ rend \subseteq rend'
    BY <1>3 DEF ConnectToBootstrapPeers, ConnectToRelay, ReserveRelay
  <2> QED  BY <1>1, <2>1, <2>2, <2>3 DEF Serving, Up
<1>4. ASSUME NEW p \in Peers, NewPingProtocol(p) PROVE Serving'
  <2>1. p \in Runners => After(p) = "announce"
    BY <1>4, AfterType DEF NewPingProtocol
  <2> QED  BY <1>1, <1>4, <2>1 DEF NewPingProtocol, Serving, Up
<1>5. ASSUME NEW p \in Peers, AnnounceSelf(p) PROVE Serving'
  <2>1. p \in Runners => After(p) = "run"
    BY <1>5, AfterType DEF AnnounceSelf
  <2> QED  BY <1>1, <1>5, <2>1 DEF AnnounceSelf, Serving, Up
<1>6. ASSUME NEW c \in Clients,
             \/ SearchForPeers(c) \/ NextPeer(c) \/ Direct(c) \/ Probe(c) \/ Relayed(c)
             \/ LookupEnds(c)
      PROVE  Serving'
  <2>1. \A r \in Runners : pc'[r] = pc[r]
    BY <1>1, <1>6, RolesAssumption
    DEF SearchForPeers, NextPeer, Direct, Probe, Relayed, LookupEnds
  <2>2. UNCHANGED <<rend, registered, advertising>>
    BY <1>6 DEF SearchForPeers, NextPeer, Direct, Probe, Relayed, LookupEnds, netVars, lookupVars
  <2> QED  BY <2>1, <2>2 DEF Serving, Up
<1>7. ASSUME NEW p \in Peers, Stop(p) \/ Restart(p) PROVE Serving'
  BY <1>1, <1>7 DEF Stop, Restart, Serving, Up
<1>8. ASSUME NEW p \in Peers, Advertise(p) \/ Age(p) \/ Expire(p) \/ AutoRelay(p) PROVE Serving'
  BY <1>8 DEF Advertise, Age, Expire, AutoRelay, Serving, Up
<1>9. CASE Disconnect
  BY <1>9 DEF Disconnect, Serving, Up
<1>10. CASE UNCHANGED vars
  BY <1>10 DEF vars, Serving, Up
<1> QED
  BY <1>2, <1>3, <1>4, <1>5, <1>6, <1>7, <1>8, <1>9, <1>10 DEF Next, Main, Around

(* What the steps of a start-up, and the ends of a lookup, do to the stages. *)
LEMMA StartUpStages ==
    ASSUME TypeOK, Stages, NEW p \in Peers,
           \/ Start(p) \/ ConnectToBootstrapPeers(p) \/ ConnectToRelay(p) \/ ReserveRelay(p)
           \/ NewPingProtocol(p) \/ AnnounceSelf(p)
           \/ p \in Clients /\ (SearchForPeers(p) \/ LookupEnds(p))
    PROVE  /\ UNCHANGED <<links, seen, cur, records, returned>> /\ advertising \subseteq advertising'
           /\ \A x \in Peers : x # p => pc'[x] = pc[x]
           /\ pc[p] \notin {"dead", "direct", "probe", "relayed"}
           /\ pc'[p] \notin {"direct", "probe", "relayed"}
           /\ Up(p) => Up(p)'
           /\ pc'[p] \in {"connect", "run"} /\ p \in Clients => SearchForPeers(p) \/ LookupEnds(p)
<1>1. pc \in [Peers -> Stage]
  BY DEF TypeOK
<1>2. CASE Start(p)
  BY <1>1, <1>2 DEF Start, Up, netVars, lookupVars
<1>3. CASE p \in Clients /\ (SearchForPeers(p) \/ LookupEnds(p))
  BY <1>1, <1>3 DEF SearchForPeers, LookupEnds, Up, netVars, lookupVars
<1>4. CASE ~Start(p) /\ ~(p \in Clients /\ (SearchForPeers(p) \/ LookupEnds(p)))
  <2>1. /\ pc[p] \in {"bootstrap", "relay", "reserve", "announce", "register"}
        /\ pc' = [pc EXCEPT ![p] = After(p)]
        /\ UNCHANGED <<links, seen, cur, records, returned>> /\ advertising \subseteq advertising'
    BY <1>4 DEF ConnectToBootstrapPeers, ConnectToRelay, ReserveRelay, NewPingProtocol,
                AnnounceSelf, netVars, lookupVars
  <2>2. p \in Clients => p \notin Runners
    BY RolesAssumption
  <2> QED  BY <1>1, <2>1, <2>2, AfterType DEF Up
<1> QED  BY <1>2, <1>3, <1>4

(* That a process announced itself is never undone: what ends one life of it is *)
(* a stop, and only a dead process comes back.                                  *)
LEMMA WasAnnouncedStep ==
    ASSUME TypeOK, Stages, [Next]_vars, NEW x \in Peers, WasAnnounced(x)
    PROVE  WasAnnounced(x)'
<1> USE DEF WasAnnounced
<1>1. pc \in [Peers -> Stage] /\ Clients \subseteq Peers
  BY DEF TypeOK, Peers
<1>2. ASSUME NEW p \in Peers,
             \/ Start(p) \/ ConnectToBootstrapPeers(p) \/ ConnectToRelay(p) \/ ReserveRelay(p)
             \/ NewPingProtocol(p) \/ AnnounceSelf(p)
             \/ p \in Clients /\ (SearchForPeers(p) \/ LookupEnds(p))
      PROVE  WasAnnounced(x)'
  <2>1. /\ UNCHANGED returned /\ advertising \subseteq advertising' /\ pc[p] # "dead"
        /\ \A y \in Peers : y # p => pc'[y] = pc[y]
    BY <1>2, StartUpStages
  <2> QED  BY <2>1
<1>3. ASSUME NEW c \in Clients, NextPeer(c) \/ Direct(c) \/ Probe(c) \/ Relayed(c)
      PROVE  WasAnnounced(x)'
  <2>1. /\ UNCHANGED <<returned, advertising>> /\ pc[c] # "dead"
        /\ \A y \in Peers : y # c => pc'[y] = pc[y]
    BY <1>1, <1>3 DEF NextPeer, Direct, Probe, Relayed
  <2> QED  BY <2>1
<1>4. ASSUME NEW p \in Peers, Stop(p) \/ Restart(p) PROVE WasAnnounced(x)'
  BY <1>1, <1>4 DEF Stop, Restart
<1>5. ASSUME NEW p \in Peers, Advertise(p) \/ Age(p) \/ Expire(p) \/ AutoRelay(p)
      PROVE  WasAnnounced(x)'
  BY <1>5 DEF Advertise, Age, Expire, AutoRelay
<1>6. CASE Disconnect \/ UNCHANGED vars
  BY <1>6 DEF Disconnect, vars
<1> QED  BY <1>2, <1>3, <1>4, <1>5, <1>6 DEF Next, Main, Around

(* A process that is announced stays so until it stops. *)
LEMMA AnnouncedStep ==
    ASSUME TypeOK, Stages, [Next]_vars, NEW x \in Peers, Announced(x)
    PROVE  Announced(x)' \/ Stop(x)
<1>1. pc \in [Peers -> Stage] /\ Clients \subseteq Peers
  BY DEF TypeOK, Peers
<1>2. ASSUME NEW p \in Peers,
             \/ Start(p) \/ ConnectToBootstrapPeers(p) \/ ConnectToRelay(p) \/ ReserveRelay(p)
             \/ NewPingProtocol(p) \/ AnnounceSelf(p)
             \/ p \in Clients /\ (SearchForPeers(p) \/ LookupEnds(p))
      PROVE  Announced(x)'
  <2>1. /\ advertising \subseteq advertising'
        /\ Up(p) => Up(p)'
        /\ \A y \in Peers : y # p => pc'[y] = pc[y]
    BY <1>2, StartUpStages
  <2> QED  BY <2>1 DEF Announced, Up
<1>3. ASSUME NEW c \in Clients, NextPeer(c) \/ Direct(c) \/ Probe(c) \/ Relayed(c)
      PROVE  Announced(x)'
  BY <1>1, <1>3 DEF NextPeer, Direct, Probe, Relayed, Announced, Up
<1>4. ASSUME NEW p \in Peers, Stop(p) \/ Restart(p) PROVE Announced(x)' \/ Stop(x)
  BY <1>1, <1>4 DEF Stop, Restart, Announced, Up
<1>5. ASSUME NEW p \in Peers, Advertise(p) \/ Age(p) \/ Expire(p) \/ AutoRelay(p)
      PROVE  Announced(x)'
  BY <1>5 DEF Advertise, Age, Expire, AutoRelay, Announced, Up
<1>6. CASE Disconnect \/ UNCHANGED vars
  BY <1>6 DEF Disconnect, vars, Announced, Up
<1> QED  BY <1>2, <1>3, <1>4, <1>5, <1>6 DEF Next, Main, Around

(* Records, and what a lookup takes from them, come from advertisements. *)
LEMMA KnownStep == TypeOK /\ Stages /\ Known /\ [Next]_vars => Known'
<1> SUFFICES ASSUME TypeOK, Stages, Known, [Next]_vars PROVE Known'
  OBVIOUS
<1> USE DEF Known, netVars, lookupVars
<1>1. /\ pc \in [Peers -> Stage] /\ due \in [Clients -> SUBSET Peers] /\ records \subseteq Peers
      /\ seen \in [Clients -> SUBSET Peers] /\ steady \in [Clients -> SUBSET Runners]
      /\ Clients \subseteq Peers /\ Runners \subseteq Peers
  BY DEF TypeOK, Peers
<1>2. \A p \in Peers : WasAnnounced(p) => WasAnnounced(p)'
  BY WasAnnouncedStep
<1>3. \A p \in Peers : Announced(p) => Announced(p)' \/ Stop(p)
  BY AnnouncedStep
<1>4. ASSUME NEW p \in Peers,
             \/ Start(p) \/ ConnectToBootstrapPeers(p) \/ ConnectToRelay(p) \/ ReserveRelay(p)
             \/ NewPingProtocol(p) \/ AnnounceSelf(p)
             \/ p \in Clients /\ (SearchForPeers(p) \/ LookupEnds(p))
      PROVE  Known'
  <2>1. /\ UNCHANGED <<records, seen>> /\ \A x \in Peers : x # p => pc'[x] = pc[x]
        /\ pc[p] \notin {"direct", "probe", "relayed"}
        /\ pc'[p] \in {"connect", "run"} /\ p \in Clients => SearchForPeers(p) \/ LookupEnds(p)
    BY <1>4, StartUpStages
  <2>2. \A r \in Runners : Announced(r) => Announced(r)'
    BY <1>1, <1>3, <1>4, StartUpStages DEF Stop, Announced, Up
  <2>3. \A c \in Clients :
           /\ pc'[c] \notin {"connect", "direct", "probe", "relayed", "run"} => seen'[c] = {}
           /\ IsFiniteSet(seen'[c])
    <3>1. p \in Clients /\ pc[p] \in {"connect", "run"} => pc'[p] \in {"connect", "run"}
      <4>1. CASE Start(p)
        BY <4>1 DEF Start
      <4>2. CASE p \in Clients /\ (SearchForPeers(p) \/ LookupEnds(p))
        BY <1>1, <4>2 DEF SearchForPeers, LookupEnds
      <4>3. CASE \/ ConnectToBootstrapPeers(p) \/ ConnectToRelay(p) \/ ReserveRelay(p)
                 \/ NewPingProtocol(p) \/ AnnounceSelf(p)
        BY <4>3 DEF ConnectToBootstrapPeers, ConnectToRelay, ReserveRelay, NewPingProtocol,
                    AnnounceSelf
      <4> QED  BY <1>4, <4>1, <4>2, <4>3
    <3> QED  BY <1>1, <2>1, <3>1
  <2>4. CASE p \in Clients /\ SearchForPeers(p)
    <3>1. /\ due' = [due EXCEPT ![p] = records]
          /\ steady' = [steady EXCEPT ![p] = {r \in Runners \intersect records : Announced(r)}]
      BY <2>4 DEF SearchForPeers
    <3> QED  BY <1>1, <1>2, <2>1, <2>2, <2>3, <2>4, <3>1
  <2>5. CASE ~(p \in Clients /\ SearchForPeers(p))
    <3>1. UNCHANGED <<due, steady>>
      BY <1>4, <2>5 DEF Start, ConnectToBootstrapPeers, ConnectToRelay, ReserveRelay,
                        NewPingProtocol, AnnounceSelf, LookupEnds, lookupVars
    <3> QED  BY <1>1, <1>2, <2>1, <2>2, <2>3, <3>1
  <2> QED  BY <2>4, <2>5
<1>5. ASSUME NEW c \in Clients, NextPeer(c) PROVE Known'
  <2>1. PICK p \in (due[c] \union records) \ seen[c] :
            seen' = [seen EXCEPT ![c] = seen[c] \union {p}]
    BY <1>5 DEF NextPeer
  <2>2. /\ UNCHANGED <<records, due, steady>> /\ pc'[c] \in {"connect", "direct"}
        /\ \A x \in Peers : x # c => pc'[x] = pc[x]
    BY <1>1, <1>5 DEF NextPeer, netVars
  <2>3. WasAnnounced(p)' /\ p \in Peers
    BY <1>1, <1>2, <2>1
  <2>4. \A r \in Runners : Announced(r) => Announced(r)'
    BY <1>1, <1>5, RolesAssumption DEF NextPeer, Announced, Up
  <2>5. \A x \in Clients : IsFiniteSet(seen'[x])
    BY <1>1, <2>1, FS_AddElement
  <2> QED  BY <1>1, <1>2, <2>1, <2>2, <2>3, <2>4, <2>5
<1>6. ASSUME NEW c \in Clients, Direct(c) \/ Probe(c) \/ Relayed(c) PROVE Known'
  <2>1. /\ UNCHANGED <<records, due, seen, steady>> /\ pc'[c] \in {"connect", "probe", "relayed"}
        /\ \A x \in Peers : x # c => pc'[x] = pc[x]
    BY <1>1, <1>6 DEF Direct, Probe, Relayed
  <2>2. \A r \in Runners : Announced(r) => Announced(r)'
    BY <1>1, <1>6, RolesAssumption DEF Direct, Probe, Relayed, Announced, Up
  <2> QED  BY <1>1, <1>2, <2>1, <2>2
<1>7. ASSUME NEW p \in Peers, Stop(p) PROVE Known'
  <2>1. /\ UNCHANGED records /\ pc' = [pc EXCEPT ![p] = "dead"]
        /\ \A c \in Clients :
              /\ due'[c] \subseteq due[c] /\ seen'[c] \subseteq seen[c]
              /\ seen'[c] = seen[c] \/ seen'[c] = {}
              /\ c # p => due'[c] = due[c] /\ seen'[c] = seen[c] /\ steady'[c] = steady[c] \ {p}
              /\ c = p => seen'[c] = {} /\ steady'[c] = {}
    BY <1>1, <1>7 DEF Stop
  <2>2. \A r \in Runners : r # p /\ Announced(r) => Announced(r)'
    BY <1>1, <1>7 DEF Stop, Announced, Up
  <2>3. \A c \in Clients : IsFiniteSet(seen'[c])
    BY <2>1, FS_EmptySet
  <2>4. \A c \in Clients :
           pc'[c] \notin {"connect", "direct", "probe", "relayed", "run"} => seen'[c] = {}
    BY <1>1, <2>1
  <2>5. \A c \in Clients : \A r \in steady'[c] : Announced(r)' /\ r \in due'[c]
    BY <1>1, <2>1, <2>2
  <2>6. /\ \A x \in records' : WasAnnounced(x)'
        /\ \A c \in Clients : \A x \in due'[c] \union seen'[c] : WasAnnounced(x)'
    BY <1>1, <1>2, <2>1
  <2> QED  BY <2>3, <2>4, <2>5, <2>6
<1>8. ASSUME NEW p \in Peers, Restart(p) PROVE Known'
  <2>1. /\ UNCHANGED <<records, due, seen, steady>> /\ pc[p] = "dead"
        /\ pc' = [pc EXCEPT ![p] = "off"]
    BY <1>8 DEF Restart, netVars, lookupVars
  <2>2. \A r \in Runners : Announced(r) => Announced(r)'
    BY <1>1, <1>8 DEF Restart, Announced, Up
  <2> QED  BY <1>1, <1>2, <2>1, <2>2
<1>9. ASSUME NEW p \in Peers, Advertise(p) \/ Age(p) \/ Expire(p) \/ AutoRelay(p) PROVE Known'
  <2>1. UNCHANGED <<pc, advertising, due, seen, steady>>
    BY <1>9 DEF Advertise, Age, Expire, AutoRelay, lookupVars
  <2>2. \A x \in records' : x \in records \/ x \in advertising
    BY <1>9 DEF Advertise, Age, Expire, AutoRelay
  <2>3. UNCHANGED returned
    BY <1>9 DEF Advertise, Age, Expire, AutoRelay
  <2> QED  BY <2>1, <2>2, <2>3 DEF WasAnnounced, Announced, Up
<1>10. CASE Disconnect \/ UNCHANGED vars
  BY <1>10 DEF Disconnect, vars, netVars, lookupVars, WasAnnounced, Announced, Up
<1> QED
  BY <1>4, <1>5, <1>6, <1>7, <1>8, <1>9, <1>10 DEF Next, Main, Around

(* A lookup connects its client to the peer it is at, or leaves all as it was. *)
LEMMA LinkedStep ==
    ASSUME TypeOK, NEW c \in Clients, links' = links \/ links' = links \union {{c, cur[c]}},
           NEW x \in Clients, NEW r \in Runners
    PROVE  Linked(x, r)' <=> Linked(x, r) \/ (links' # links /\ x = c /\ r = cur[c])
<1>1. {x, r} = {c, cur[c]} <=> x = c /\ r = cur[c]
  BY PairEq, RolesAssumption
<1> QED  BY <1>1 DEF Linked

(* Connections to runners are made by lookups, between processes that are up. *)
LEMMA MetStep == TypeOK /\ Stages /\ Met /\ [Next]_vars => Met'
<1> SUFFICES ASSUME TypeOK, Stages, Met, [Next]_vars PROVE Met'
  OBVIOUS
<1> USE DEF Met, netVars, lookupVars
<1>1. /\ pc \in [Peers -> Stage] /\ cur \in [Clients -> Peers]
      /\ seen \in [Clients -> SUBSET Peers]
      /\ Clients \subseteq Peers /\ Runners \subseteq Peers
  BY DEF TypeOK, Peers
<1>2. ASSUME NEW p \in Peers,
             \/ Start(p) \/ ConnectToBootstrapPeers(p) \/ ConnectToRelay(p) \/ ReserveRelay(p)
             \/ NewPingProtocol(p) \/ AnnounceSelf(p)
             \/ p \in Clients /\ (SearchForPeers(p) \/ LookupEnds(p))
      PROVE  Met'
  <2>1. /\ UNCHANGED <<links, seen, cur>>
        /\ \A x \in Peers : x # p => pc'[x] = pc[x]
        /\ pc'[p] \notin {"direct", "probe", "relayed"}
        /\ Up(p) => Up(p)'
    BY <1>2, StartUpStages
  <2> QED  BY <1>1, <2>1 DEF Up, Linked
<1>3. ASSUME NEW c \in Clients, NextPeer(c) PROVE Met'
  <2>1. UNCHANGED links /\ \A x \in Peers : Up(x)' <=> Up(x)
    BY <1>1, <1>3 DEF NextPeer, netVars, Up
  <2>2. \A x \in Clients : seen[x] \subseteq seen'[x]
    BY <1>1, <1>3 DEF NextPeer
  <2>3. ASSUME NEW x \in Clients, pc'[x] \in {"direct", "probe", "relayed"}
        PROVE  cur'[x] \in seen'[x] /\ cur'[x] # x
    BY <1>1, <1>3, <2>3 DEF NextPeer
  <2> QED  BY <1>1, <2>1, <2>2, <2>3 DEF Linked
<1>4. ASSUME NEW c \in Clients, Direct(c) \/ Probe(c) \/ Relayed(c) PROVE Met'
  <2>1. /\ UNCHANGED <<seen, cur>> /\ pc[c] \in {"direct", "probe", "relayed"}
        /\ links' = links \/ links' = links \union {{c, cur[c]}}
        /\ links' # links => Up(cur[c]) \/ Linked(c, cur[c])
    BY <1>4 DEF Direct, Probe, Relayed
  <2>2. \E s \in {"connect", "probe", "relayed"} : pc' = [pc EXCEPT ![c] = s]
    BY <1>4 DEF Direct, Probe, Relayed
  <2>3. \A x \in Peers : Up(x) => Up(x)'
    BY <1>1, <2>2 DEF Up
  <2>4. \A x \in Clients :
            pc'[x] \in {"direct", "probe", "relayed"} => pc[x] \in {"direct", "probe", "relayed"}
    BY <1>1, <2>1, <2>2
  <2>5. Up(c) /\ cur[c] \in seen[c]
    BY <2>1 DEF Up
  <2>6. ASSUME NEW x \in Clients, NEW r \in Runners, Linked(x, r)'
        PROVE  Up(x)' /\ Up(r)' /\ r \in seen'[x]
    <3>1. Linked(x, r) \/ (links' # links /\ x = c /\ r = cur[c])
      BY <2>1, <2>6, LinkedStep
    <3>2. Up(x) /\ Up(r) /\ r \in seen[x]
      BY <2>1, <2>5, <3>1
    <3> QED  BY <1>1, <2>1, <2>3, <3>2
  <2>7. ASSUME NEW x \in Clients, pc'[x] \in {"direct", "probe", "relayed"}
        PROVE  cur'[x] \in seen'[x] /\ cur'[x] # x
    BY <2>1, <2>4, <2>7
  <2> QED  BY <2>6, <2>7
<1>5. ASSUME NEW p \in Peers, Stop(p) PROVE Met'
  <2>1. /\ links' = {l \in links : p \notin l} /\ pc' = [pc EXCEPT ![p] = "dead"]
        /\ \A c \in Clients : c # p => seen'[c] = seen[c] /\ cur'[c] = cur[c]
    BY <1>5 DEF Stop
  <2> QED  BY <1>1, <2>1 DEF Up, Linked
<1>6. ASSUME NEW p \in Peers, Restart(p) PROVE Met'
  <2>1. /\ UNCHANGED <<links, seen, cur>> /\ pc[p] = "dead" /\ pc' = [pc EXCEPT ![p] = "off"]
    BY <1>6 DEF Restart, netVars, lookupVars
  <2> QED  BY <1>1, <2>1 DEF Up, Linked
<1>7. ASSUME NEW p \in Peers, Advertise(p) \/ Age(p) \/ Expire(p) \/ AutoRelay(p) PROVE Met'
  BY <1>7 DEF Advertise, Age, Expire, AutoRelay, lookupVars, Up, Linked
<1>8. CASE Disconnect
  <2>1. UNCHANGED <<pc, seen, cur>> /\ links' \subseteq links
    BY <1>8 DEF Disconnect, lookupVars
  <2> QED  BY <2>1 DEF Up, Linked
<1>9. CASE UNCHANGED vars
  BY <1>9 DEF vars, netVars, lookupVars, Up, Linked
<1> QED
  BY <1>1, <1>2, <1>3, <1>4, <1>5, <1>6, <1>7, <1>8, <1>9 DEF Next, Main, Around

(* An operation of a start-up succeeds unless a fault is spent on it. *)
LEMMA EquippedStep == TypeOK /\ Stages /\ Equipped /\ [Next]_vars => Equipped'
<1> SUFFICES ASSUME TypeOK, Stages, Equipped, [Next]_vars, faults' = 0 PROVE Equipped'
  BY DEF Equipped
<1> USE DEF Equipped, netVars, lookupVars
<1>1. /\ pc \in [Peers -> Stage] /\ faults \in Nat /\ MaxFaults \in Nat
      /\ Clients \subseteq Peers /\ Runners \subseteq Peers
  BY FaultsAssumption DEF TypeOK, Peers
<1>2. ASSUME NEW p \in Peers, Start(p) PROVE Equipped'
  <2>1. \E s \in {"dead", "bootstrap"} : pc' = [pc EXCEPT ![p] = s]
    BY <1>2 DEF Start
  <2>2. /\ UNCHANGED <<dht, reserved, expired, faults>> /\ pc[p] = "off"
        /\ \A x \in Peers : x # p => (x \in relayAddresses' <=> x \in relayAddresses)
    BY <1>2 DEF Start
  <2> QED  BY <1>1, <2>1, <2>2 DEF Up
<1>3. ASSUME NEW p \in Peers, ConnectToBootstrapPeers(p) PROVE Equipped'
  <2>1. /\ pc[p] = "bootstrap" /\ pc' = [pc EXCEPT ![p] = "relay"]
        /\ UNCHANGED <<relayAddresses, reserved, expired>>
    BY <1>3, AfterType DEF ConnectToBootstrapPeers
  <2>2. faults = 0
    BY <1>1, <1>3 DEF ConnectToBootstrapPeers, Fault
  <2>3. dht' = dht \union {p}
    BY <1>1, <1>3, <2>1, <2>2 DEF ConnectToBootstrapPeers, Fault
  <2> QED  BY <1>1, <2>1, <2>2, <2>3 DEF Up
<1>4. ASSUME NEW p \in Peers, ConnectToRelay(p) PROVE Equipped'
  <2>1. /\ pc[p] = "relay" /\ pc' = [pc EXCEPT ![p] = IF p \in Runners THEN "reserve" ELSE "announce"]
        /\ UNCHANGED <<relayAddresses, reserved, expired>> /\ dht \subseteq dht'
    BY <1>4, AfterType DEF ConnectToRelay
  <2>2. faults = 0
    BY <1>1, <1>4 DEF ConnectToRelay, Fault
  <2>3. p \in dht
    BY <2>1, <2>2 DEF Up
  <2> QED  BY <1>1, <2>1, <2>2, <2>3 DEF Up
<1>5. ASSUME NEW p \in Peers, ReserveRelay(p) PROVE Equipped'
  <2>1. /\ pc[p] = "reserve" /\ pc' = [pc EXCEPT ![p] = "register"]
        /\ UNCHANGED <<relayAddresses, dht, expired>> /\ reserved \subseteq reserved'
    BY <1>5, AfterType DEF ReserveRelay
  <2>2. faults = 0
    BY <1>1, <1>5 DEF ReserveRelay, Fault
  <2>3. p \in dht /\ p \notin expired
    BY <2>1, <2>2 DEF Up
  <2>4. p \in relayAddresses => p \in reserved'
    BY <1>1, <1>5, <2>2, <2>3 DEF ReserveRelay, Fault
  <2> QED  BY <1>1, <2>1, <2>2, <2>3, <2>4 DEF Up
<1>6. ASSUME NEW p \in Peers, NewPingProtocol(p) \/ AnnounceSelf(p) PROVE Equipped'
  <2>1. /\ pc[p] \in {"register", "announce"} /\ pc' = [pc EXCEPT ![p] = After(p)]
        /\ UNCHANGED <<relayAddresses, dht, reserved, expired, faults>>
    BY <1>6 DEF NewPingProtocol, AnnounceSelf
  <2>2. /\ After(p) \notin {"bootstrap", "off", "dead"}
        /\ p \in Runners /\ pc[p] = "announce" => After(p) = "run"
    BY <2>1, AfterType
  <2>3. p \in dht /\ p \notin expired
    BY <2>1 DEF Up
  <2>4. p \in Runners /\ p \in relayAddresses => p \in reserved
    BY <2>1
  <2> QED  BY <1>1, <2>1, <2>2, <2>3, <2>4 DEF Up
<1>7. ASSUME NEW c \in Clients,
             \/ SearchForPeers(c) \/ NextPeer(c) \/ Direct(c) \/ Probe(c) \/ Relayed(c)
             \/ LookupEnds(c)
      PROVE  Equipped'
  <2>1. /\ pc[c] \in {"search", "connect", "direct", "probe", "relayed"}
        /\ \E s \in {"connect", "direct", "probe", "relayed", "run"} : pc' = [pc EXCEPT ![c] = s]
        /\ UNCHANGED <<relayAddresses, dht, reserved, expired>>
    BY <1>7 DEF SearchForPeers, NextPeer, Direct, Probe, Relayed, LookupEnds
  <2>2. faults = 0
    BY <1>1, <1>7 DEF SearchForPeers, NextPeer, Direct, Probe, Relayed, LookupEnds, Fault
  <2>3. c \in dht /\ c \notin expired
    BY <1>1, <2>1, <2>2 DEF Up
  <2> QED  BY <1>1, <2>1, <2>2, <2>3, RolesAssumption DEF Up
<1>8. ASSUME NEW p \in Peers, Expire(p) PROVE Equipped'
  <2>1. faults = 0 /\ pc[p] = "run"
    BY <1>1, <1>8 DEF Expire, Fault
  <2> QED  BY <1>8, <2>1 DEF Expire, Up
<1>9. ASSUME NEW p \in Peers, Stop(p) \/ Restart(p) PROVE Equipped'
  <2>1. /\ UNCHANGED faults /\ \E s \in {"dead", "off"} : pc' = [pc EXCEPT ![p] = s]
        /\ p \in expired => pc[p] # "run" \/ p \notin expired'
        /\ expired' \subseteq expired /\ relayAddresses' \subseteq relayAddresses
        /\ \A x \in Peers : x # p => (x \in dht' <=> x \in dht) /\ (x \in reserved' <=> x \in reserved)
    BY <1>9 DEF Stop, Restart
  <2> QED  BY <1>1, <2>1 DEF Up
<1>10. ASSUME NEW p \in Peers, Advertise(p) \/ Age(p) \/ AutoRelay(p) PROVE Equipped'
  BY <1>10 DEF Advertise, Age, AutoRelay, Up
<1>11. CASE Disconnect
  BY <1>1, <1>11 DEF Disconnect, Fault
<1>12. CASE UNCHANGED vars
  BY <1>12 DEF vars, Up
<1> QED
  BY <1>2, <1>3, <1>4, <1>5, <1>6, <1>7, <1>8, <1>9, <1>10, <1>11, <1>12 DEF Next, Main, Around

(* What a lookup owes its client: the peer it is at is the only one of those   *)
(* announced all along that it may have seen and not be connected to.          *)
LEMMA ReachedStep == IInv /\ [Next]_vars => Reached'
<1> SUFFICES ASSUME IInv, [Next]_vars, faults' = 0 PROVE Reached'
  BY DEF Reached
<1> USE DEF netVars, lookupVars
<1>1. /\ pc \in [Peers -> Stage] /\ faults \in Nat /\ MaxFaults \in Nat
      /\ cur \in [Clients -> Peers] /\ seen \in [Clients -> SUBSET Peers]
      /\ due \in [Clients -> SUBSET Peers] /\ steady \in [Clients -> SUBSET Runners]
      /\ Clients \subseteq Peers /\ Runners \subseteq Peers
  BY FaultsAssumption DEF IInv, TypeOK, Peers
<1>2. faults = 0
  <2>1. Next => faults' = faults \/ faults' = faults + 1
    BY DEF Next, Main, Around, Start, ConnectToBootstrapPeers, ConnectToRelay, ReserveRelay,
           NewPingProtocol, AnnounceSelf, SearchForPeers, NextPeer, Direct, Probe, Relayed,
           LookupEnds, Advertise, Age, Expire, AutoRelay, Stop, Restart, Disconnect, Fault
  <2> QED  BY <1>1, <2>1 DEF vars
\* Whom a lookup owes its client is up and past its start-up.
<1>3. \A c \in Clients : \A r \in steady[c] : Up(r) /\ pc[r] = "run"
  BY <1>1 DEF IInv, Known, Announced, Serving
\* A client whose lookup has not begun has seen no peer.
<1>4. \A c \in Clients :
         pc[c] \notin {"connect", "direct", "probe", "relayed", "run"} => seen[c] = {}
  BY DEF IInv, Known
<1>5. \A c \in Clients : \A r \in steady[c] \intersect seen[c] :
         {c, r} \subseteq relayAddresses =>
             Linked(c, r) \/ (pc[c] \in {"direct", "relayed"} /\ cur[c] = r)
  BY <1>2 DEF IInv, Reached
<1>6. \A c \in Clients :
         pc[c] = "run" => due[c] \subseteq seen[c] \/ Cardinality(seen[c]) >= FindLimit
  BY <1>2 DEF IInv, Reached
<1>7. ASSUME NEW p \in Peers,
             \/ Start(p) \/ ConnectToBootstrapPeers(p) \/ ConnectToRelay(p) \/ ReserveRelay(p)
             \/ NewPingProtocol(p) \/ AnnounceSelf(p)
             \/ p \in Clients /\ (SearchForPeers(p) \/ LookupEnds(p))
      PROVE  Reached'
  <2>1. /\ UNCHANGED <<links, seen, cur>>
        /\ \A x \in Peers : x # p => pc'[x] = pc[x]
        /\ pc[p] \notin {"dead", "direct", "probe", "relayed"}
        /\ pc'[p] \in {"connect", "run"} /\ p \in Clients => SearchForPeers(p) \/ LookupEnds(p)
    BY <1>7, StartUpStages DEF IInv
  <2>2. /\ \A x \in Peers : x # p => (x \in relayAddresses' <=> x \in relayAddresses)
        /\ pc[p] = "off" \/ UNCHANGED relayAddresses
    BY <1>7 DEF Start, ConnectToBootstrapPeers, ConnectToRelay, ReserveRelay, NewPingProtocol,
                AnnounceSelf, SearchForPeers, LookupEnds
  <2>3. CASE p \in Clients /\ SearchForPeers(p)
    <3>1. /\ seen[p] = {} /\ pc'[p] = "connect" /\ UNCHANGED relayAddresses
          /\ \A x \in Clients : x # p => due'[x] = due[x] /\ steady'[x] = steady[x]
      BY <1>1, <1>4, <2>3 DEF SearchForPeers
    <3> QED  BY <1>1, <1>5, <1>6, <2>1, <3>1 DEF Reached, Linked
  <2>4. CASE ~(p \in Clients /\ SearchForPeers(p))
    <3>1. UNCHANGED <<due, steady>>
      BY <1>7, <2>4 DEF Start, ConnectToBootstrapPeers, ConnectToRelay, ReserveRelay,
                        NewPingProtocol, AnnounceSelf, LookupEnds
    <3>2. \A c \in Clients :
             pc'[c] = "run" => due'[c] \subseteq seen'[c] \/ Cardinality(seen'[c]) >= FindLimit
      <4>1. p \in Clients /\ pc'[p] = "run" => LookupEnds(p)
        BY <2>1, <2>4
      <4>2. p \in Clients /\ LookupEnds(p) => p \in dht
        BY <1>2 DEF LookupEnds, IInv, Equipped, Up, Peers
      <4>3. p \in Clients /\ LookupEnds(p) =>
               due[p] \subseteq seen[p] \/ Cardinality(seen[p]) >= FindLimit
        BY <1>1, <1>2, <4>2 DEF LookupEnds, Fault
      <4> QED  BY <1>1, <1>6, <2>1, <3>1, <4>1, <4>3
    <3>3. ASSUME NEW c \in Clients, NEW r \in steady'[c] \intersect seen'[c],
                 {c, r} \subseteq relayAddresses'
          PROVE  Linked(c, r)' \/ (pc'[c] \in {"direct", "relayed"} /\ cur'[c] = r)
      <4>1. r \in steady[c] \intersect seen[c] /\ r \in Peers /\ c \in Peers
        BY <1>1, <2>1, <3>1, <3>3
      <4>2. pc[c] # "off" /\ pc[r] # "off"
        BY <1>3, <1>4, <4>1
      <4>3. {c, r} \subseteq relayAddresses
        BY <2>2, <3>3, <4>1, <4>2
      <4> QED  BY <1>5, <2>1, <4>1, <4>3 DEF Linked
    <3> QED  BY <3>2, <3>3 DEF Reached
  <2> QED  BY <2>3, <2>4
<1>8. ASSUME NEW c \in Clients, NextPeer(c) PROVE Reached'
  <2>1. /\ UNCHANGED <<links, due, steady, relayAddresses>> /\ pc[c] = "connect"
        /\ \A x \in Clients : x # c => pc'[x] = pc[x] /\ seen'[x] = seen[x] /\ cur'[x] = cur[x]
    BY <1>1, <1>8 DEF NextPeer
  <2>2. pc'[c] # "run"
    BY <1>1, <1>8 DEF NextPeer
  <2>3. \A r \in Runners : r \in seen'[c] => r \in seen[c] \/ (pc'[c] = "direct" /\ cur'[c] = r)
    BY <1>1, <1>8, RolesAssumption DEF NextPeer
  <2>4. ASSUME NEW x \in Clients, NEW r \in steady'[x] \intersect seen'[x],
               {x, r} \subseteq relayAddresses'
        PROVE  Linked(x, r)' \/ (pc'[x] \in {"direct", "relayed"} /\ cur'[x] = r)
    <3>1. r \in Runners
      BY <1>1, <2>1, <2>4
    <3>2. CASE x = c
      BY <1>5, <2>1, <2>3, <2>4, <3>1, <3>2 DEF Linked
    <3>3. CASE x # c
      BY <1>5, <2>1, <2>4, <3>3 DEF Linked
    <3> QED  BY <3>2, <3>3
  <2>5. \A x \in Clients :
           pc'[x] = "run" => due'[x] \subseteq seen'[x] \/ Cardinality(seen'[x]) >= FindLimit
    BY <1>6, <2>1, <2>2
  <2> QED  BY <2>4, <2>5 DEF Reached
<1>9. ASSUME NEW c \in Clients, Direct(c) \/ Probe(c) \/ Relayed(c) PROVE Reached'
  <2>1. /\ UNCHANGED <<due, seen, cur, steady, relayAddresses>>
        /\ pc[c] \in {"direct", "probe", "relayed"}
        /\ links' = links \/ links' = links \union {{c, cur[c]}}
    BY <1>9 DEF Direct, Probe, Relayed
  <2>2. \E s \in {"connect", "probe", "relayed"} : pc' = [pc EXCEPT ![c] = s]
    BY <1>9 DEF Direct, Probe, Relayed
  \* The peer the lookup is at ends up connected, or is tried through the relay.
  <2>3. ASSUME cur[c] \in steady[c] \intersect seen[c], {c, cur[c]} \subseteq relayAddresses
        PROVE  Linked(c, cur[c])' \/ pc'[c] = "relayed"
    <3>1. CASE Direct(c)
      BY <1>1, <3>1 DEF Direct, Linked
    <3>2. CASE Probe(c)
      <4>1. Linked(c, cur[c])
        BY <1>5, <2>3, <3>2 DEF Probe
      <4> QED  BY <2>1, <4>1 DEF Linked
    <3>3. CASE Relayed(c)
      <4>1. Up(cur[c]) /\ cur[c] \in reserved
        BY <1>1, <1>2, <1>3, <2>3 DEF IInv, Equipped
      <4>2. links' = links \union {{c, cur[c]}}
        BY <1>1, <1>2, <2>3, <3>3, <4>1 DEF Relayed, Fault
      <4> QED  BY <2>1, <4>2 DEF Linked
    <3> QED  BY <1>9, <3>1, <3>2, <3>3
  <2>4. ASSUME NEW x \in Clients, NEW r \in steady'[x] \intersect seen'[x],
               {x, r} \subseteq relayAddresses'
        PROVE  Linked(x, r)' \/ (pc'[x] \in {"direct", "relayed"} /\ cur'[x] = r)
    <3>1. r \in steady[x] \intersect seen[x] /\ {x, r} \subseteq relayAddresses
      BY <2>1, <2>4
    <3>2. CASE x = c /\ r = cur[c]
      BY <2>1, <2>3, <3>1, <3>2
    <3>3. CASE x # c \/ r # cur[c]
      <4>1. Linked(x, r) => Linked(x, r)'
        BY <2>1 DEF Linked
      <4> QED  BY <1>1, <1>5, <2>1, <2>2, <3>1, <3>3, <4>1
    <3> QED  BY <3>2, <3>3
  <2>5. \A x \in Clients :
           pc'[x] = "run" => due'[x] \subseteq seen'[x] \/ Cardinality(seen'[x]) >= FindLimit
    BY <1>1, <1>6, <2>1, <2>2
  <2> QED  BY <2>4, <2>5 DEF Reached
<1>10. ASSUME NEW p \in Peers, Stop(p) PROVE Reached'
  <2>1. /\ links' = {l \in links : p \notin l} /\ pc' = [pc EXCEPT ![p] = "dead"]
        /\ relayAddresses' \subseteq relayAddresses
        /\ \A c \in Clients :
              /\ c # p => /\ due'[c] = due[c] /\ seen'[c] = seen[c] /\ cur'[c] = cur[c]
                          /\ steady'[c] = steady[c] \ {p}
              /\ c = p => steady'[c] = {}
    BY <1>10 DEF Stop
  <2>2. ASSUME NEW x \in Clients, NEW r \in steady'[x] \intersect seen'[x],
               {x, r} \subseteq relayAddresses'
        PROVE  Linked(x, r)' \/ (pc'[x] \in {"direct", "relayed"} /\ cur'[x] = r)
    <3>1. x # p /\ r # p /\ r \in steady[x] \intersect seen[x]
      BY <2>1, <2>2
    <3>2. Linked(x, r) => Linked(x, r)'
      BY <2>1, <3>1 DEF Linked
    <3> QED  BY <1>1, <1>5, <2>1, <2>2, <3>1, <3>2
  <2>3. \A x \in Clients :
           pc'[x] = "run" => due'[x] \subseteq seen'[x] \/ Cardinality(seen'[x]) >= FindLimit
    BY <1>1, <1>6, <2>1
  <2> QED  BY <2>2, <2>3 DEF Reached
<1>11. ASSUME NEW p \in Peers, Restart(p) PROVE Reached'
  <2>1. /\ UNCHANGED <<links, due, seen, cur, steady, relayAddresses>>
        /\ pc[p] = "dead" /\ pc' = [pc EXCEPT ![p] = "off"]
    BY <1>11 DEF Restart
  <2>2. \A x \in Clients : x = p => seen[x] = {}
    BY <1>4, <2>1
  <2> QED  BY <1>1, <1>5, <1>6, <2>1, <2>2 DEF Reached, Linked
<1>12. ASSUME NEW p \in Peers, Advertise(p) \/ Age(p) \/ Expire(p) \/ AutoRelay(p)
       PROVE  Reached'
  <2>1. UNCHANGED <<pc, links, due, seen, cur, steady, relayAddresses>>
    BY <1>12 DEF Advertise, Age, Expire, AutoRelay
  <2> QED  BY <1>5, <1>6, <2>1 DEF Reached, Linked
<1>13. CASE Disconnect
  BY <1>1, <1>13 DEF Disconnect, Fault
<1>14. CASE UNCHANGED vars
  BY <1>5, <1>6, <1>14 DEF vars, Reached, Linked
<1> QED
  BY <1>7, <1>8, <1>9, <1>10, <1>11, <1>12, <1>13, <1>14 DEF Next, Main, Around

-----------------------------------------------------------------------------

(* The strengthening holds in every reachable state. *)
THEOREM Inductive == Spec => []IInv
<1>1. IInv /\ [Next]_vars => IInv'
  BY TypeStep, ServingStep, KnownStep, MetStep, EquippedStep, ReachedStep DEF IInv
<1> QED  BY <1>1, InitIInv, PTL DEF Spec

(* TypeOK holds in every reachable state, for any clients, runners and faults. *)
THEOREM TypeCorrect == Spec => []TypeOK
<1>1. IInv => TypeOK
  BY DEF IInv
<1> QED  BY <1>1, Inductive, PTL

(***************************************************************************)
(* Whoever finds a runner, by its record or by a connection, finds its     *)
(* handlers registered (node_runner/main.go:272, 287-289), whatever failed *)
(* and however often processes stop and come back, but for a runner in a   *)
(* later life that its old record leads to before it has announced itself. *)
(***************************************************************************)
THEOREM FoundRunnersServeHolds == Spec => []FoundRunnersServe
<1>1. ASSUME IInv, NEW r \in Runners, Up(r), r \in records \/ \E c \in Clients : Linked(c, r),
             r \in returned => r \in advertising
      PROVE  r \in registered /\ r \in rend
  <2>1. WasAnnounced(r)
    BY <1>1 DEF IInv, Known, Met
  <2>2. r \in advertising
    BY <1>1, <2>1 DEF WasAnnounced, Up
  <2> QED  BY <1>1, <2>2 DEF IInv, Serving
<1>2. IInv => FoundRunnersServe
  BY <1>1 DEF FoundRunnersServe
<1> QED  BY <1>2, Inductive, PTL

(***************************************************************************)
(* A client whose lookup is over is connected to every runner that was     *)
(* announced when it began and has stayed up, unless an operation failed   *)
(* or the lookup was full: whatever other peers have stopped or returned.  *)
(* mobile_client/main.go:242-330.                                          *)
(***************************************************************************)
THEOREM AnnouncedIsConnectedHolds == Spec => []AnnouncedIsConnected
<1>1. ASSUME IInv, NEW c \in Clients, NEW r \in steady[c], pc[c] = "run",
             {c, r} \subseteq relayAddresses, faults = 0,
             Cardinality(seen[c]) < FindLimit \/ r \in seen[c]
      PROVE  Linked(c, r)
  <2>1. r \in due[c] /\ IsFiniteSet(seen[c])
    BY <1>1 DEF IInv, Known
  <2>2. Cardinality(seen[c]) \in Nat
    BY <2>1, FS_CardinalityType
  <2>3. due[c] \subseteq seen[c] \/ Cardinality(seen[c]) >= FindLimit
    BY <1>1 DEF IInv, Reached
  <2>4. r \in seen[c]
    BY <1>1, <2>1, <2>2, <2>3, LimitAssumption
  <2> QED  BY <1>1, <2>4 DEF IInv, Reached
<1>2. IInv => AnnouncedIsConnected
  BY <1>1 DEF AnnouncedIsConnected
<1> QED  BY <1>2, Inductive, PTL

-----------------------------------------------------------------------------

LEMMA Orders ==
    ASSUME NEW p
    PROVE  /\ Order(p)["off"] = 0 /\ Order(p)["bootstrap"] = 1 /\ Order(p)["relay"] = 2
           /\ Order(p)["reserve"] = 3 /\ Order(p)["register"] = 4
           /\ Order(p)["announce"] = IF p \in Runners THEN 5 ELSE 3
           /\ Order(p)["search"] = 5 /\ Order(p)["direct"] = 6
           /\ Order(p)["probe"] = 7 /\ Order(p)["relayed"] = 7
           /\ Order(p)["connect"] = 8 /\ Order(p)["run"] = 9 /\ Order(p)["dead"] = 10
  BY DEF Order

(* A main goroutine moves its own process only, along the order of its         *)
(* program, except that a lookup comes back for another peer.                 *)
LEMMA MainAdvances ==
    ASSUME TypeOK, Stages, NEW p \in Peers, Main(p)
    PROVE  /\ \/ Order(p)[pc'[p]] > Order(p)[pc[p]]
              \/ /\ p \in Clients /\ pc[p] = "connect"
                 /\ seen[p] \subseteq seen'[p] /\ seen'[p] # seen[p]
           /\ \A q \in Peers : q # p => pc'[q] = pc[q]
<1>1. pc \in [Peers -> Stage]
  BY DEF TypeOK
<1>2. CASE Start(p)
  BY <1>1, <1>2, Orders DEF Start
<1>3. CASE \/ ConnectToBootstrapPeers(p) \/ ConnectToRelay(p) \/ ReserveRelay(p)
           \/ NewPingProtocol(p) \/ AnnounceSelf(p)
  <2>1. /\ pc[p] \in {"bootstrap", "relay", "reserve", "announce", "register"}
        /\ pc' = [pc EXCEPT ![p] = After(p)]
    BY <1>3 DEF ConnectToBootstrapPeers, ConnectToRelay, ReserveRelay, NewPingProtocol,
                AnnounceSelf
  <2>2. Order(p)[After(p)] > Order(p)[pc[p]]
    BY <2>1, AfterType, Orders
  <2> QED  BY <1>1, <2>1, <2>2
<1>4. CASE p \in Clients /\ NextPeer(p)
  <2>1. /\ pc[p] = "connect"
        /\ \E s \in {"connect", "direct"} : pc' = [pc EXCEPT ![p] = s]
    BY <1>4 DEF NextPeer
  <2>2. PICK q \in (due[p] \union records) \ seen[p] :
            seen' = [seen EXCEPT ![p] = seen[p] \union {q}]
    BY <1>4 DEF NextPeer
  <2>3. seen'[p] = seen[p] \union {q}
    BY <1>4, <2>2 DEF TypeOK
  <2> QED  BY <1>1, <1>4, <2>1, <2>2, <2>3
<1>5. CASE p \in Clients /\ (SearchForPeers(p) \/ Direct(p) \/ Probe(p) \/ Relayed(p) \/ LookupEnds(p))
  <2>1. \E s, t \in Stage :
            /\ pc[p] = s /\ pc' = [pc EXCEPT ![p] = t]
            /\ <<s, t>> \in {<<"search", "connect">>, <<"direct", "probe">>,
                             <<"direct", "relayed">>, <<"probe", "connect">>,
                             <<"relayed", "connect">>,
                             <<"connect", "run">>}
    BY <1>5 DEF SearchForPeers, Direct, Probe, Relayed, LookupEnds, Stage
  <2> QED  BY <1>1, <2>1, Orders
<1> QED  BY <1>2, <1>3, <1>4, <1>5 DEF Main

(* Nothing around a main goroutine moves it but a stop and a start from anew. *)
LEMMA AroundAdvances ==
    ASSUME TypeOK, NEW p \in Peers, pc'[p] # pc[p],
           Disconnect \/ \E q \in Peers : Around(q)
    PROVE  Order(p)[pc'[p]] > Order(p)[pc[p]] \/ (pc[p] = "dead" /\ pc'[p] = "off")
<1>1. pc \in [Peers -> Stage]
  BY DEF TypeOK
<1>2. PICK q \in Peers : Stop(q) \/ Restart(q)
  BY DEF Disconnect, Around, Advertise, Age, Expire, AutoRelay
<1>3. CASE Stop(q)
  <2>1. pc[p] # "dead" /\ pc'[p] = "dead"
    BY <1>1, <1>3 DEF Stop, Up
  <2>2. pc[p] \in Stage
    BY <1>1
  <2> QED  BY <2>1, <2>2, Orders DEF Stage
<1>4. CASE Restart(q)
  BY <1>1, <1>4 DEF Restart
<1> QED  BY <1>2, <1>3, <1>4

(***************************************************************************)
(* However peers come and go, a start-up does not go round in circles, and *)
(* a lookup meets no peer twice.  mobile_client/main.go:249-330, 432-493,  *)
(* node_runner/main.go:238-296.                                            *)
(***************************************************************************)
THEOREM StartUpAdvancesHolds == Spec => StartUpAdvances
<1>1. ASSUME IInv, [Next]_vars, NEW p \in Peers, Main(p) \/ pc'[p] # pc[p]
      PROVE  \/ Order(p)[pc'[p]] > Order(p)[pc[p]]
             \/ pc[p] = "dead" /\ pc'[p] = "off"
             \/ /\ p \in Clients /\ pc[p] = "connect"
                /\ seen[p] \subseteq seen'[p] /\ seen'[p] # seen[p]
  <2>1. TypeOK /\ Stages
    BY <1>1 DEF IInv
  <2>2. CASE Main(p)
    BY <2>1, <2>2, MainAdvances
  <2>3. CASE ~Main(p)
    <3>1. pc'[p] # pc[p]
      BY <1>1, <2>3
    <3>2. ~ UNCHANGED vars
      BY <3>1 DEF vars
    <3>3. ~ \E q \in Peers : Main(q)
      BY <2>1, <2>3, <3>1, MainAdvances
    <3>4. Disconnect \/ \E q \in Peers : Around(q)
      BY <1>1, <3>2, <3>3 DEF Next
    <3> QED  BY <2>1, <3>1, <3>4, AroundAdvances
  <2> QED  BY <2>2, <2>3
<1>2. IInv /\ [Next]_vars =>
         \A p \in Peers : Main(p) \/ pc'[p] # pc[p] =>
            \/ Order(p)[pc'[p]] > Order(p)[pc[p]]
            \/ pc[p] = "dead" /\ pc'[p] = "off"
            \/ /\ p \in Clients /\ pc[p] = "connect"
               /\ seen[p] \subseteq seen'[p] /\ seen'[p] # seen[p]
  BY <1>1
<1> QED  BY <1>2, Inductive, PTL DEF Spec, StartUpAdvances
=============================================================================
