--------------------------- MODULE Rendezvous_proofs ---------------------------
(***************************************************************************)
(* The safety of Rendezvous for any processes, streams, mistakes and       *)
(* faults.                                                                 *)
(*                                                                         *)
(* What the arguments say bounds how far a process gets (Held), and whoever*)
(* is connected has got past that (Linked) under the identity its key      *)
(* gives it (Identified), and to nobody with the same one (Distinct).      *)
(* Calls and impostors follow.  What is said of the streams is proved of   *)
(* PingPong alone, from Flow, how far the opener and the handler of a      *)
(* stream can be apart; the composition implements it.                     *)
(***************************************************************************)
EXTENDS Rendezvous, FiniteSetTheorems, TLAPS

(* Arguments that do not parse, or not far enough, hold a process back.       *)
Held ==
    \A p \in Processes :
        /\ typed[p].index = NotANumber
               => stage[p] \in {"parse", "host", "join", "stopped"}
        /\ p \in Boots \union Peers /\ Args(p).address = "bad"
               => stage[p] \in {"parse", "stopped"}
        /\ p \in Peers /\ stage[p] \notin {"parse", "stopped"} => typed[p].relay \in Relays

(* Whoever listens does so under the identity of its key.                     *)
Identified ==
    \A p \in Processes :
        Listening(p) => identity[p] = GetLibp2pIdentity(Args(p).index)

(* Whoever is connected listens, and has typed a number.                      *)
Linked ==
    \A l \in links : \A p \in l : Listening(p) /\ typed[p].index # NotANumber

(* Nobody is connected to another process with its own key.                   *)
Distinct ==
    \A p, q \in Processes : {p, q} \in links => ~Same(p, q)

Started == TypeOK /\ Held /\ Identified /\ Linked /\ Distinct

(* How far the two sides of a stream can be apart.                            *)
FlowOf(s) ==
    /\ opener[s] = "idle" => side[s] = "none" /\ handler[s] = "none"
    /\ opener[s] \in {"idle", "write"} =>
           /\ wire[s] = "nothing" /\ back[s] = "nothing" /\ handler[s] # "reply"
           /\ handler[s] = "ended" => side[s] = "reset"
    /\ opener[s] # "returned" => side[s] # "closed" /\ got[s] = "nothing"
    /\ opener[s] \in {"write", "read", "close"} => side[s] # "none"
    /\ opener[s] = "read" => kind[s] = "pingPeer" /\ handler[s] # "none"
    /\ opener[s] = "read" /\ handler[s] = "read" => wire[s] # "nothing"
    /\ handler[s] = "none" => back[s] = "nothing" /\ got[s] \in {"nothing", "error"}
    /\ handler[s] = "reply" => seen[s] = "whole"
    /\ handler[s] \in {"none", "read"} => tries[s] < PP!MaxRetry
    /\ back[s] # "nothing" => handler[s] = "ended" /\ seen[s] = "whole"
    /\ (opener[s] = "read" /\ handler[s] = "ended" /\ back[s] = "nothing")
           => side[s] = "reset" \/ seen[s] = "part"
    /\ got[s] \in {"PONG", "unexpected"} => handler[s] = "ended" /\ seen[s] = "whole"
    /\ got[s] = "EOF" => handler[s] = "ended" /\ seen[s] = "part"

Flow == \A s \in Streams : FlowOf(s)

-----------------------------------------------------------------------------
(* The start-up.                                                             *)

LEMMA Sorts ==
    /\ Boots \subseteq Processes /\ Relays \subseteq Processes /\ Peers \subseteq Processes
    /\ \A p \in Processes : p \in Boots \union Relays \union Peers /\ p # Nobody
    /\ \A p \in Relays : p \notin Boots \union Peers /\ p \notin Runners
    /\ Boot0 \in Processes /\ Boot0 # Nobody
BY StartupAssumption DEF Processes, Peers

(* What the parser returns of a bad index, and of another.                    *)
LEMMA ParseArgs ==
    ASSUME NEW t
    PROVE  IF t.index = NotANumber
           THEN /\ ParseCmdArgs(t).address = "bad" /\ ParseCmdArgs(t).list = {}
                /\ ParseCmdArgs(t).index = Boot0
           ELSE ParseCmdArgs(t) = t
BY DEF ParseCmdArgs, Unparsed

LEMMA Stages ==
    ASSUME NEW p \in Processes, NEW at \in {"host", "join", "handle"}
    PROVE  /\ After(p, at) \in {"join", "handle", "ready"}
           /\ at = "host" /\ p \in Relays => After(p, at) = "join"
BY Sorts DEF After

LEMMA InitStarted == Init => Started
<1> SUFFICES ASSUME Init PROVE Started
  OBVIOUS
<1>1. [Unparsed EXCEPT !.index = NotANumber] \in Typed
  BY DEF Unparsed, Typed
<1>2. TypeOK
  BY <1>1, StartupAssumption DEF Init, TypeOK
<1>3. Held /\ Identified /\ Linked /\ Distinct
  BY DEF Init, Held, Identified, Linked, Listening, Distinct
<1> QED  BY <1>2, <1>3 DEF Started

(* A process that goes on with what it has got, or stops, keeps the rest of   *)
(* the start-up as it is.                                                     *)
LEMMA StepParse ==
    ASSUME Started, NEW p \in Processes, Parse(p)
    PROVE  Started'
<1> USE DEF Started
<1>1. PICK t \in CommandLines[p] :
          /\ errors + Mistakes(p, t) <= MaxErrors
          /\ errors' = errors + Mistakes(p, t)
          /\ typed' = [typed EXCEPT ![p] = t]
          /\ stage' = [stage EXCEPT ![p] = IF Fatal(p, ParseCmdArgs(t)) THEN "stopped" ELSE "host"]
  BY DEF Parse
<1>2. stage[p] = "parse" /\ UNCHANGED <<identity, links, faults>>
  BY DEF Parse
<1> t \in Typed /\ (p \in Peers => t.relay \in Relays)
  BY DEF CommandLines, Typed
<1>3. typed'[p] = t /\ stage'[p] \in {"host", "stopped"}
  BY <1>1 DEF TypeOK
<1>4. p \in Boots \union Peers /\ ParseCmdArgs(t).address = "bad" => stage'[p] = "stopped"
  BY <1>1 DEF Fatal, TypeOK
<1>5. \A q \in Processes \ {p} : stage'[q] = stage[q] /\ typed'[q] = typed[q]
  BY <1>1 DEF TypeOK
<1>6. Mistakes(p, t) \in Nat
  <2> DEFINE M == {m \in {"index", "address", "list"} :
        \/ m = "index" /\ t.index # p
        \/ m = "address" /\ t.address # "good"
        \/ m = "list" /\ (Junk \in t.list \/ (p \notin Boots /\ t.list = {}))}
  <2>1. IsFiniteSet({"index", "address", "list"})
    <3>1. IsFiniteSet({} \union {"index"})
      BY FS_EmptySet, FS_AddElement
    <3>2. IsFiniteSet(({} \union {"index"}) \union {"address"})
      BY <3>1, FS_AddElement
    <3>3. IsFiniteSet((({} \union {"index"}) \union {"address"}) \union {"list"})
      BY <3>2, FS_AddElement
    <3>4. {"index", "address", "list"}
              = (({} \union {"index"}) \union {"address"}) \union {"list"}
      OBVIOUS
    <3> QED  BY <3>3, <3>4
  <2>2. IsFiniteSet(M)
    BY <2>1, FS_Subset
  <2>3. Cardinality(M) \in Nat
    BY <2>2, FS_CardinalityType
  <2> QED  BY <2>3 DEF Mistakes
<1>7. TypeOK'
  BY <1>1, <1>2, <1>6, StartupAssumption DEF TypeOK
<1>8. Held'
  BY <1>3, <1>4, <1>5 DEF Held, Args
<1>9. Identified'
  BY <1>2, <1>3, <1>5 DEF Identified, Listening, Args
<1>10. \A l \in links : p \notin l
  BY <1>2 DEF Linked, Listening
<1>11. \A l \in links : l \subseteq Processes
  BY DEF TypeOK
<1>12. Linked'
  BY <1>2, <1>5, <1>10, <1>11 DEF Linked, Listening
<1>13. Distinct'
  BY <1>2 DEF Distinct, Same
<1> QED  BY <1>7, <1>8, <1>9, <1>12, <1>13

(* A step that leaves the arguments alone and moves p only.                   *)
LEMMA HostStep ==
    ASSUME Started, NEW p \in Processes, CreateHost(p)
    PROVE  Started'
<1> USE DEF Started
<1>1. stage[p] = "host" /\ UNCHANGED <<typed, links, errors>>
  BY DEF CreateHost
<1>2. /\ stage'[p] \in {"join", "handle", "ready", "stopped"}
      /\ p \in Relays => stage'[p] \in {"join", "stopped"}
      /\ \A q \in Processes \ {p} : stage'[q] = stage[q] /\ identity'[q] = identity[q]
      /\ stage' \in [Processes -> {"parse", "host", "join", "handle", "ready", "stopped"}]
  BY Stages DEF CreateHost, TypeOK
<1>3. faults' \in 0 .. MaxFaults
  BY StartupAssumption DEF CreateHost, Fault, TypeOK
<1>4. GetLibp2pIdentity(Args(p).index) \in Processes \union {Nobody}
  <2>1. typed[p].index \in Processes \union {OutOfRange, NotANumber}
    BY DEF TypeOK, Typed
  <2> QED  BY <2>1, ParseArgs, Sorts DEF GetLibp2pIdentity, Args
<1>5. TypeOK'
  <2>1. identity' \in [Processes -> Processes \union {Nobody}]
    BY <1>4 DEF CreateHost, TypeOK
  <2> QED  BY <1>1, <1>2, <1>3, <2>1 DEF TypeOK
<1>6. Held'
  <2>1. typed[p].index = NotANumber => p \in Relays
    BY <1>1, ParseArgs, Sorts DEF Held, Args
  <2>2. p \in Boots \union Peers => Args(p).address # "bad"
    BY <1>1 DEF Held
  <2> QED  BY <1>1, <1>2, <2>1, <2>2 DEF Held, Args
<1>7. Identified'
  <2>1. Listening(p)' => identity'[p] = GetLibp2pIdentity(Args(p).index)
    BY <1>1 DEF CreateHost, TypeOK, Listening
  <2> QED  BY <1>1, <1>2, <2>1 DEF Identified, Listening, Args
<1>8. Linked'
  <2>1. \A l \in links : p \notin l /\ l \subseteq Processes
    BY <1>1 DEF Linked, Listening, TypeOK
  <2> QED  BY <1>1, <1>2, <2>1 DEF Linked, Listening
<1>9. Distinct'
  <2>1. \A l \in links : p \notin l
    BY <1>1 DEF Linked, Listening
  <2>2. \A q, n \in Processes : {q, n} \in links => q # p /\ n # p
    BY <2>1
  <2> QED  BY <1>1, <1>2, <2>2 DEF Distinct, Same
<1> QED  BY <1>5, <1>6, <1>7, <1>8, <1>9

(* Stopping, whatever for, ends the connections.                              *)
LEMMA GoneStep ==
    ASSUME Started, NEW p \in Processes,
           stage' = [stage EXCEPT ![p] = "stopped"], links' = Without(p),
           UNCHANGED <<typed, identity, errors>>, faults' \in 0 .. MaxFaults
    PROVE  Started'
<1> USE DEF Started
<1>1. /\ stage'[p] = "stopped"
      /\ \A q \in Processes \ {p} : stage'[q] = stage[q]
      /\ stage' \in [Processes -> {"parse", "host", "join", "handle", "ready", "stopped"}]
  BY DEF TypeOK
<1>2. \A l \in links' : l \in links /\ p \notin l /\ l \subseteq Processes
  BY DEF Without, TypeOK
<1>3. TypeOK'
  BY <1>1, <1>2 DEF TypeOK
<1>4. Held' /\ Identified'
  <2>1. \A q \in Processes : Args(q)' = Args(q)
    BY DEF Args
  <2>2. Held'
    BY <1>1, <2>1 DEF Held
  <2>3. Identified'
    BY <1>1, <2>1 DEF Identified, Listening
  <2> QED  BY <2>2, <2>3
<1>5. Linked'
  BY <1>1, <1>2 DEF Linked, Listening
<1>6. Distinct'
  BY <1>2 DEF Distinct, Same
<1> QED  BY <1>3, <1>4, <1>5, <1>6

(* A process goes on to a later stage, and gets connected or not.             *)
LEMMA LaterStep ==
    ASSUME Started, NEW p \in Processes, stage[p] \in {"join", "handle", "ready"},
           NEW later \in {"join", "handle", "ready"},
           stage' = [stage EXCEPT ![p] = later],
           typed[p].index # NotANumber,
           NEW S \in SUBSET Processes,
           \A n \in S : /\ Listening(n) /\ typed[n].index # NotANumber
                         /\ ~Same(p, n),
           links' = links \union {{p, n} : n \in S},
           UNCHANGED <<typed, identity, errors>>, faults' \in 0 .. MaxFaults
    PROVE  Started'
<1> USE DEF Started
<1>1. /\ stage'[p] = later
      /\ \A q \in Processes \ {p} : stage'[q] = stage[q]
      /\ stage' \in [Processes -> {"parse", "host", "join", "handle", "ready", "stopped"}]
  BY DEF TypeOK
<1>2. \A q \in Processes : Listening(q)' <=> Listening(q)
  BY <1>1 DEF Listening
<1>3. TypeOK'
  <2>1. \A n \in S : {p, n} \in {{q, r} : q, r \in Processes}
    OBVIOUS
  <2> QED  BY <1>1, <2>1 DEF TypeOK
<1>4. Held'
  BY <1>1 DEF Held, Args
<1>5. Identified'
  BY <1>2 DEF Identified, Args
<1>6. Linked'
  <2>1. \A l \in links : l \subseteq Processes
    BY DEF TypeOK
  <2>2. \A l \in links : \A q \in l : Listening(q)' /\ typed'[q].index # NotANumber
    BY <1>2, <2>1 DEF Linked
  <2>3. Listening(p)
    BY DEF Listening
  <2>4. \A n \in S : \A q \in {p, n} : Listening(q)' /\ typed'[q].index # NotANumber
    BY <1>2, <2>3
  <2> QED  BY <2>2, <2>4 DEF Linked
<1>7. Distinct'
  <2>1. ASSUME NEW q \in Processes, NEW r \in Processes, {q, r} \in links'
        PROVE  ~Same(q, r)
    <3>1. CASE {q, r} \in links
      BY <3>1 DEF Distinct
    <3>2. CASE {q, r} \notin links
      <4>1. PICK n \in S : {q, r} = {p, n}
        BY <2>1, <3>2
      <4>2. (q = p /\ r = n) \/ (q = n /\ r = p)
        BY <4>1
      <4> QED  BY <4>2 DEF Same
    <3> QED  BY <3>1, <3>2
  <2> QED  BY <2>1 DEF Distinct, Same
<1> QED  BY <1>3, <1>4, <1>5, <1>6, <1>7

(* Whoever a dial reaches has a key that it was given, since the bootstrap    *)
(* node that has key 0 does.                                                  *)
LEMMA ReachedKey ==
    ASSUME Started, NEW p \in Processes, NEW n \in Processes, Reachable(p, n)
    PROVE  /\ Listening(n) /\ typed[n].index # NotANumber
           /\ ~Same(p, n)
<1>1. Listening(n) /\ identity[n] = n /\ ~Same(p, n)
  BY DEF Reachable, Dialable
<1>2. typed[n].index = NotANumber => n = Boot0
  BY <1>1, ParseArgs, Sorts, StartupAssumption
     DEF Started, Identified, GetLibp2pIdentity, Args
<1>3. n = Boot0 => Args(n).address # "bad"
  BY <1>1, StartupAssumption DEF Started, Held, Listening
<1>4. typed[n].index = NotANumber => Args(n).address = "bad"
  BY ParseArgs DEF Args
<1> QED  BY <1>1, <1>2, <1>3, <1>4

LEMMA JoinStep ==
    ASSUME Started, NEW p \in Processes, Join(p)
    PROVE  Started'
<1>1. stage[p] = "join" /\ UNCHANGED <<typed, identity, errors>>
  BY DEF Join
<1>2. faults' \in 0 .. MaxFaults
  BY StartupAssumption DEF Join, Fault, Started, TypeOK
<1>3. CASE p \in Relays /\ ParseBootstrap(Args(p).list) = {}
  BY <1>1, <1>2, <1>3, GoneStep DEF Join
<1>4. CASE ~(p \in Relays /\ ParseBootstrap(Args(p).list) = {})
  <2>1. stage' = [stage EXCEPT ![p] = After(p, "join")]
    BY <1>4 DEF Join
  <2>2. PICK S \in SUBSET {n \in Named(p) : Reachable(p, n)} :
            links' = links \union {{p, n} : n \in S}
    BY <1>4 DEF Join
  <2>3. typed[p].index # NotANumber
    BY <1>1, <1>4, ParseArgs, Sorts DEF Started, Held, ParseBootstrap, Args
  <2>4. S \subseteq Processes
    BY <2>2 DEF Reachable
  <2>5. \A n \in S : Listening(n) /\ typed[n].index # NotANumber /\ ~Same(p, n)
    BY <2>2, <2>4, ReachedKey
  <2> QED  BY <1>1, <1>2, <2>1, <2>2, <2>3, <2>4, <2>5, Stages, LaterStep
<1> QED  BY <1>3, <1>4

(* The connections change between processes that listen.                      *)
LEMMA LinkStep ==
    ASSUME Started, UNCHANGED <<stage, typed, identity, errors>>,
           faults' \in 0 .. MaxFaults,
           links' \subseteq {{p, q} : p, q \in Processes},
           \A l \in links' : \A p \in l : Listening(p) /\ typed[p].index # NotANumber,
           \A p, q \in Processes : {p, q} \in links' \ links => ~Same(p, q)
    PROVE  Started'
<1>1. TypeOK' /\ Linked'
  BY DEF Started, TypeOK, Linked, Listening
<1>2. Held' /\ Identified'
  BY DEF Started, Held, Identified, Listening, Args
<1>3. Distinct'
  BY DEF Started, Distinct, Same
<1> QED  BY <1>1, <1>2, <1>3 DEF Started

LEMMA StartedStep == Started /\ [Next]_vars => Started'
<1> SUFFICES ASSUME Started, [Next]_vars PROVE Started'
  OBVIOUS
<1>1. /\ Fault => faults' \in 0 .. MaxFaults
      /\ faults \in 0 .. MaxFaults
      /\ links \subseteq {{p, q} : p, q \in Processes}
  BY StartupAssumption DEF Fault, Started, TypeOK
<1>2. ASSUME NEW p \in Processes, SetStreamHandler(p) PROVE Started'
  <2>1. stage[p] = "handle" /\ UNCHANGED <<typed, identity, links, errors, faults>>
    BY <1>2 DEF SetStreamHandler
  <2>2. typed[p].index # NotANumber
    BY <2>1 DEF Started, Held
  <2>3. stage' = [stage EXCEPT ![p] = After(p, "handle")]
    BY <1>2 DEF SetStreamHandler
  <2>4. links' = links \union {{p, n} : n \in {}}
    BY <2>1
  <2>5. After(p, "handle") \in {"join", "handle", "ready"}
    BY Stages
  <2>6. faults' \in 0 .. MaxFaults
    BY <1>1, <2>1
  <2>7. PICK S \in SUBSET Processes : S = {}
    OBVIOUS
  <2>8. links' = links \union {{p, n} : n \in S}
    BY <2>4, <2>7
  <2>9. \A n \in S : Listening(n) /\ typed[n].index # NotANumber /\ ~Same(p, n)
    BY <2>7
  <2> QED  BY <1>2, <2>1, <2>2, <2>3, <2>5, <2>6, <2>8, <2>9, LaterStep
<1>3. ASSUME NEW p \in Processes, Stop(p) PROVE Started'
  <2>1. /\ stage' = [stage EXCEPT ![p] = "stopped"] /\ links' = Without(p)
        /\ UNCHANGED <<typed, identity, errors>> /\ faults' \in 0 .. MaxFaults
    BY <1>1, <1>3 DEF Stop
  <2> QED  BY <1>3, <2>1, GoneStep
<1>4. ASSUME NEW p \in Processes, NEW q \in Processes, Introduce(p, q) PROVE Started'
  <2>1. \A r \in {p, q} : Listening(r) /\ typed[r].index # NotANumber
    BY <1>4 DEF Introduce, InDHT, Started, Linked
  <2>2. ~Same(p, q)
    BY <1>4 DEF Introduce, Dialable
  <2>3. /\ UNCHANGED <<stage, typed, identity, errors>>
        /\ links' = links \union {{p, q}} /\ faults' = faults
    BY <1>4 DEF Introduce
  <2>4. \A u, v \in Processes : {u, v} \in links' \ links => ~Same(u, v)
    <3> SUFFICES ASSUME NEW u \in Processes, NEW v \in Processes, {u, v} = {p, q}
                 PROVE  ~Same(u, v)
      BY <2>3
    <3>1. (u = p /\ v = q) \/ (u = q /\ v = p)
      OBVIOUS
    <3> QED  BY <2>2, <3>1 DEF Same
  <2>5. \A l \in links' : \A u \in l : Listening(u) /\ typed[u].index # NotANumber
    BY <2>1, <2>3 DEF Started, Linked
  <2>6. links' \subseteq {{u, v} : u, v \in Processes}
    BY <1>1, <2>3
  <2>7. faults' \in 0 .. MaxFaults
    BY <1>1, <2>3
  <2> QED  BY <2>3, <2>4, <2>5, <2>6, <2>7, LinkStep
<1>5. ASSUME NEW l \in links, Disconnect(l) PROVE Started'
  BY <1>1, <1>5, LinkStep DEF Disconnect, Started, Linked
<1>6. CASE UNCHANGED vars
  <2>1. UNCHANGED <<stage, typed, identity, errors>> /\ links' = links /\ faults' = faults
    BY <1>6 DEF vars
  <2>2. /\ faults' \in 0 .. MaxFaults
        /\ links' \subseteq {{p, q} : p, q \in Processes}
    BY <1>1, <2>1
  <2>3. \A l \in links' : \A p \in l : Listening(p) /\ typed[p].index # NotANumber
    BY <2>1 DEF Started, Linked
  <2> QED  BY <2>1, <2>2, <2>3, LinkStep
<1>7. ASSUME NEW p \in Processes, Parse(p) \/ CreateHost(p) \/ Join(p) PROVE Started'
  BY <1>7, StepParse, HostStep, JoinStep
<1>8. CASE \E p \in Processes :
               Parse(p) \/ CreateHost(p) \/ Join(p) \/ SetStreamHandler(p) \/ Stop(p)
  BY <1>2, <1>3, <1>7, <1>8
<1>9. CASE \E p, q \in Processes : Introduce(p, q)
  BY <1>4, <1>9
<1>10. CASE \E l \in links : Disconnect(l)
  BY <1>5, <1>10
<1> QED  BY <1>6, <1>8, <1>9, <1>10 DEF Next

(* Whoever is up with a number for an index runs under its key.               *)
LEMMA KeyOrNobody ==
    ASSUME Started, NEW p \in Processes, Listening(p), typed[p].index # NotANumber
    PROVE  /\ typed[p].index = OutOfRange => identity[p] = Nobody
           /\ typed[p].index # OutOfRange =>
                  identity[p] = typed[p].index /\ typed[p].index \in Processes
<1>1. typed[p].index \in Processes \union {OutOfRange}
  BY DEF Started, TypeOK, Typed
<1>2. identity[p] = GetLibp2pIdentity(typed[p].index)
  BY ParseArgs DEF Started, Identified, Args
<1> QED  BY <1>1, <1>2 DEF GetLibp2pIdentity

LEMMA Impostors == Started => NoImpostor
<1> SUFFICES ASSUME Started, NEW p \in Processes,
                    stage[p] = "ready" \/ (\E l \in links : p \in l)
             PROVE  \/ identity[p] = typed[p].index
                    \/ identity[p] = Nobody /\ typed[p].index = OutOfRange
  BY DEF NoImpostor
<1>1. Listening(p) /\ typed[p].index # NotANumber
  BY DEF Started, Linked, Held, Listening
<1> QED  BY <1>1, KeyOrNobody

LEMMA CallsAre == Started => CallsExplained
<1> SUFFICES ASSUME Started, NEW p \in Peers
             PROVE  /\ \A q \in Targets(p) :
                           \/ q \in Peers
                           \/ typed[q].index # q
                           \/ q \in Boots \ BootstrapPeerIDs
                           \/ q \in Relays /\ (typed[p].relay = q => typed[p].address = "bare")
                    /\ \A q \in Peers :
                           stage[p] = "ready" /\ {p, q} \in links /\ q \notin Targets(p)
                               => typed[q].index \in Processes \ {q}
  BY DEF CallsExplained
<1>1. p \in Processes
  BY Sorts
<1>2. stage[p] = "ready" => /\ Args(p) = typed[p] /\ typed[p].relay \in Relays
                            /\ typed[p].address \in {"good", "bare"}
  <2> SUFFICES ASSUME stage[p] = "ready"
               PROVE  /\ Args(p) = typed[p] /\ typed[p].relay \in Relays
                      /\ typed[p].address \in {"good", "bare"}
    OBVIOUS
  <2>1. typed[p].index # NotANumber
    BY <1>1 DEF Started, Held
  <2>2. Args(p) = typed[p]
    BY <2>1, ParseArgs DEF Args
  <2> QED  BY <1>1, <2>2 DEF Started, Held, TypeOK, Typed
<1>3. \A q \in Processes : {p, q} \in links =>
          Listening(p) /\ Listening(q) /\ typed[p].index # NotANumber /\ typed[q].index # NotANumber
  BY DEF Started, Linked
<1>4. ASSUME NEW q \in Targets(p), q \notin Peers, typed[q].index = q,
             q \notin Boots \ BootstrapPeerIDs
      PROVE  q \in Relays /\ (typed[p].relay = q => typed[p].address = "bare")
  <2>1. q \in Processes /\ {p, q} \in links /\ stage[p] = "ready"
        /\ ~IsInvalidTarget(p, identity[q])
    BY DEF Targets
  <2>2. identity[q] = q
    BY <1>3, <1>4, <2>1, KeyOrNobody, StartupAssumption
  <2>3. q \in Relays
    BY <1>4, <2>1, <2>2, Sorts DEF IsInvalidTarget, IsBootstrapPeer
  <2> QED  BY <1>2, <2>1, <2>2, <2>3 DEF IsInvalidTarget, ContainsPeer
<1>5. ASSUME NEW q \in Peers, stage[p] = "ready", {p, q} \in links, q \notin Targets(p)
      PROVE  typed[q].index \in Processes \ {q}
  <2>1. q \in Processes
    BY Sorts
  <2>2. Same(p, q) \/ IsInvalidTarget(p, identity[q])
    BY <1>5, <2>1 DEF Targets
  <2>3. IsInvalidTarget(p, identity[q]) => identity[q] \in Boots \union Relays
    BY <1>2, <1>5, StartupAssumption DEF IsInvalidTarget, IsBootstrapPeer, ContainsPeer
  <2>4. identity[q] \in Boots \union Relays => typed[q].index \in Processes \ {q}
    BY <1>3, <1>5, <2>1, KeyOrNobody, StartupAssumption, Sorts
  <2>5. ~Same(p, q)
    BY <1>5, <1>1, <2>1 DEF Started, Distinct, Same
  <2> QED  BY <2>2, <2>3, <2>4, <2>5
<1> QED  BY <1>4, <1>5

-----------------------------------------------------------------------------
(* The streams.                                                              *)

LEMMA InitFlow == PP!Init => PP!TypeOK /\ Flow
BY DEF PP!Init, PP!TypeOK, PP!MaxRetry, Flow, FlowOf

(* Steps of one stream leave the others as they are.                          *)
Untouched(s) ==
    /\ kind'[s] = kind[s] /\ opener'[s] = opener[s] /\ side'[s] = side[s]
    /\ wire'[s] = wire[s] /\ handler'[s] = handler[s] /\ tries'[s] = tries[s]
    /\ seen'[s] = seen[s] /\ back'[s] = back[s] /\ got'[s] = got[s]

LEMMA OthersFlow ==
    ASSUME Flow, NEW s \in Streams, FlowOf(s)',
           \A u \in Streams \ {s} : Untouched(u)
    PROVE  Flow'
BY DEF Flow, FlowOf, Untouched

LEMMA OpenerStep ==
    ASSUME PP!TypeOK, Flow, NEW s \in Streams,
           PP!Opened(s) \/ PP!Refused(s) \/ PP!PingPeer(s) \/ PP!Other(s)
    PROVE  PP!TypeOK' /\ Flow'
<1> USE DEF PP!TypeOK
<1>1. FlowOf(s)
  BY DEF Flow
<1>2. CASE PP!Opened(s)
  <2>1. PICK k \in PP!Openers, begun \in BOOLEAN :
            /\ kind' = [kind EXCEPT ![s] = k]
            /\ opener' = [opener EXCEPT ![s] = IF k = "probe" THEN "returned" ELSE "write"]
            /\ handler' = [handler EXCEPT ![s] = IF begun THEN "read" ELSE "none"]
    BY <1>2 DEF PP!Opened
  <2>2. FlowOf(s)'
    BY <1>1, <1>2, <2>1 DEF PP!Opened, FlowOf
  <2>3. \A u \in Streams \ {s} : Untouched(u)
    BY <1>2, <2>1 DEF PP!Opened, Untouched
  <2>4. PP!TypeOK'
    BY <1>2, <2>1 DEF PP!Opened
  <2> QED  BY <2>2, <2>3, <2>4, OthersFlow
<1>3. CASE PP!Refused(s)
  BY <1>1, <1>3, OthersFlow DEF PP!Refused, FlowOf, Untouched
<1>4. CASE PP!WriteMessage(s)
  <2>1. FlowOf(s)'
    BY <1>1, <1>4 DEF PP!WriteMessage, PP!Begun, FlowOf
  <2>2. \A u \in Streams \ {s} : Untouched(u)
    BY <1>4 DEF PP!WriteMessage, PP!Begun, Untouched
  <2>3. PP!TypeOK'
    BY <1>4 DEF PP!WriteMessage, PP!Begun
  <2> QED  BY <2>1, <2>2, <2>3, OthersFlow
<1>5. CASE PP!PingPeer(s) /\ PP!ReadReply(s)
  <2>1. PICK read \in {"PONG", "unexpected", "EOF", "error"} :
            /\ got' = [got EXCEPT ![s] = read]
            /\ read \in {"PONG", "unexpected"} => back[s] = "PONG"
            /\ read = "EOF" => /\ handler[s] = "ended" /\ back[s] = "nothing"
                               /\ side[s] # "reset"
    BY <1>5 DEF PP!ReadReply
  <2>2. FlowOf(s)'
    BY <1>1, <1>5, <2>1 DEF PP!ReadReply, PP!Closed, FlowOf
  <2>3. \A u \in Streams \ {s} : Untouched(u)
    BY <1>5, <2>1 DEF PP!ReadReply, PP!Closed, Untouched
  <2>4. PP!TypeOK'
    BY <1>5, <2>1 DEF PP!ReadReply, PP!Closed
  <2> QED  BY <2>2, <2>3, <2>4, OthersFlow
<1>6. CASE PP!Other(s) /\ PP!CloseStream(s)
  <2>1. FlowOf(s)'
    BY <1>1, <1>6 DEF PP!Other, PP!CloseStream, PP!Closed, PP!Begun, FlowOf
  <2>2. \A u \in Streams \ {s} : Untouched(u)
    BY <1>6 DEF PP!CloseStream, PP!Closed, PP!Begun, Untouched
  <2>3. PP!TypeOK'
    BY <1>6 DEF PP!CloseStream, PP!Closed, PP!Begun
  <2> QED  BY <2>1, <2>2, <2>3, OthersFlow
<1> QED  BY <1>2, <1>3, <1>4, <1>5, <1>6 DEF PP!PingPeer, PP!Other

LEMMA HandlerFlow ==
    ASSUME PP!TypeOK, Flow, NEW s \in Streams, PP!HandlerStep(s)
    PROVE  PP!TypeOK' /\ Flow'
<1> USE DEF PP!TypeOK
<1>1. FlowOf(s)
  BY DEF Flow
<1>2. CASE PP!Receive(s)
  <2>1. kind[s] = "pingPeer" => PP!Message(s) \in PP!Answered(s)
    BY DEF PP!Message, PP!Answered
  <2>2. FlowOf(s)'
    BY <1>1, <1>2, <2>1 DEF PP!Receive, FlowOf
  <2>3. \A u \in Streams \ {s} : Untouched(u)
    BY <1>2 DEF PP!Receive, Untouched
  <2>4. PP!TypeOK'
    BY <1>2 DEF PP!Receive
  <2> QED  BY <2>2, <2>3, <2>4, OthersFlow
<1>3. CASE PP!ReceiveEOF(s)
  <2>1. FlowOf(s)'
    BY <1>1, <1>3 DEF PP!ReceiveEOF, PP!MaxRetry, FlowOf
  <2>2. \A u \in Streams \ {s} : Untouched(u)
    BY <1>3 DEF PP!ReceiveEOF, Untouched
  <2>3. PP!TypeOK'
    BY <1>1, <1>3 DEF PP!ReceiveEOF, PP!MaxRetry, FlowOf
  <2> QED  BY <2>1, <2>2, <2>3, OthersFlow
<1>4. CASE PP!ReceiveError(s)
  BY <1>1, <1>4, OthersFlow DEF PP!ReceiveError, FlowOf, Untouched
<1>5. CASE PP!WritePong(s)
  <2>1. FlowOf(s)'
    BY <1>1, <1>5 DEF PP!WritePong, FlowOf
  <2>2. \A u \in Streams \ {s} : Untouched(u)
    BY <1>5 DEF PP!WritePong, Untouched
  <2>3. PP!TypeOK'
    BY <1>5 DEF PP!WritePong
  <2> QED  BY <2>1, <2>2, <2>3, OthersFlow
<1> QED  BY <1>2, <1>3, <1>4, <1>5 DEF PP!HandlerStep

LEMMA NetworkFlow ==
    ASSUME PP!TypeOK, Flow
    PROVE  /\ \A s \in Streams : PP!Arrive(s) \/ PP!GiveUp(s) => PP!TypeOK' /\ Flow'
           /\ \A gone \in SUBSET Streams : PP!Reset(gone) => PP!TypeOK' /\ Flow'
<1> USE DEF PP!TypeOK
<1>1. ASSUME NEW s \in Streams, PP!Arrive(s) PROVE PP!TypeOK' /\ Flow'
  <2>1. FlowOf(s)'
    BY <1>1 DEF PP!Arrive, Flow, FlowOf
  <2>2. \A u \in Streams \ {s} : Untouched(u)
    BY <1>1 DEF PP!Arrive, Untouched
  <2>3. PP!TypeOK'
    BY <1>1 DEF PP!Arrive
  <2> QED  BY <2>1, <2>2, <2>3, OthersFlow
<1>2. ASSUME NEW s \in Streams, PP!GiveUp(s) PROVE PP!TypeOK' /\ Flow'
  <2>1. FlowOf(s)'
    BY <1>2 DEF PP!GiveUp, Flow, FlowOf
  <2>2. \A u \in Streams \ {s} : Untouched(u)
    BY <1>2 DEF PP!GiveUp, Untouched
  <2>3. PP!TypeOK'
    BY <1>2 DEF PP!GiveUp
  <2> QED  BY <2>1, <2>2, <2>3, OthersFlow
<1>3. ASSUME NEW gone \in SUBSET Streams, PP!Reset(gone) PROVE PP!TypeOK' /\ Flow'
  <2>1. \A s \in Streams : /\ side'[s] \in {side[s], "reset"}
                            /\ side[s] = "none" => side'[s] = "none"
    BY <1>3 DEF PP!Reset
  <2>2. PP!TypeOK'
    BY <1>3 DEF PP!Reset
  <2>3. Flow'
    BY <1>3, <2>1 DEF PP!Reset, Flow, FlowOf
  <2> QED  BY <2>2, <2>3
<1> QED  BY <1>1, <1>2, <1>3

(* Whatever the openers, the handlers and the network do. *)
LEMMA FlowStep ==
    ASSUME PP!TypeOK, Flow, [PP!Next]_(PP!vars)
    PROVE  PP!TypeOK' /\ Flow'
<1>1. ASSUME NEW s \in Streams,
             \/ PP!Opened(s) \/ PP!Refused(s) \/ PP!PingPeer(s) \/ PP!Other(s)
             \/ PP!HandlerStep(s) \/ PP!Arrive(s) \/ PP!GiveUp(s)
      PROVE PP!TypeOK' /\ Flow'
  BY <1>1, OpenerStep, HandlerFlow, NetworkFlow
<1>2. ASSUME NEW gone \in SUBSET Streams, PP!Reset(gone) PROVE PP!TypeOK' /\ Flow'
  BY <1>2, NetworkFlow
<1>3. CASE UNCHANGED PP!vars
  BY <1>3 DEF PP!vars, PP!TypeOK, Flow, FlowOf
<1> QED  BY <1>1, <1>2, <1>3 DEF PP!Next

(***************************************************************************)
(* Of PingPong by itself: types, and how far the two ends can be apart.    *)
(***************************************************************************)
THEOREM PingPongFlow == PP!Spec => [](PP!TypeOK /\ Flow)
  BY InitFlow, FlowStep, PTL DEF PP!Spec

LEMMA Replies == Flow => ReplyExplained
BY DEF Flow, FlowOf, ReplyExplained, PP!ReplyExplained

LEMMA NobodyWaits == PP!TypeOK /\ Flow => NoMutualWait
BY DEF PP!TypeOK, Flow, FlowOf, NoMutualWait, PP!NoMutualWait

-----------------------------------------------------------------------------
(* The composition implements PingPong.                                      *)

(* What the start-up, the connections and the streams do to the streams is    *)
(* a step of PingPong, or nothing.                                            *)
LEMMA StreamsStep == [RNext]_allVars => [PP!Next]_(PP!vars)
<1> SUFFICES ASSUME [RNext]_allVars PROVE [PP!Next]_(PP!vars)
  OBVIOUS
<1>1. CASE StartupSteps
  <2>1. {s \in Streams : Conn(s) \in links \ links'} \in SUBSET Streams
    OBVIOUS
  <2>2. PP!Reset({s \in Streams : Conn(s) \in links \ links'})
    BY <1>1 DEF StartupSteps
  <2> QED  BY <2>1, <2>2 DEF PP!Next
<1>2. ASSUME NEW s \in Streams, NewStream(s) PROVE PP!Next
  <2>1. PP!Opened(s) \/ PP!Refused(s)
    BY <1>2 DEF NewStream
  <2> QED  BY <2>1 DEF PP!Next
<1>3. ASSUME NEW s \in Streams,
             \/ StreamStep(PP!PingPeer(s)) \/ StreamStep(PP!Other(s))
             \/ StreamStep(PP!HandlerStep(s))
             \/ StreamStep(PP!Arrive(s)) \/ StreamStep(PP!GiveUp(s))
      PROVE PP!Next
  BY <1>3 DEF StreamStep, PP!Next
<1>4. CASE UNCHANGED allVars
  <2>1. UNCHANGED streamVars
    BY <1>4 DEF allVars
  <2> QED  BY <2>1 DEF streamVars, PP!vars
<1> QED  BY <1>1, <1>2, <1>3, <1>4 DEF RNext

(* So what holds of PingPong holds of the composition.                        *)
LEMMA StreamsArePingPong == RSpec => PP!Spec
<1>1. RInit => PP!Init
  BY DEF RInit
<1> QED  BY <1>1, StreamsStep, PTL DEF RSpec, PP!Spec

LEMMA AlwaysFlow == RSpec => [](PP!TypeOK /\ Flow)
  BY StreamsArePingPong, PingPongFlow, PTL

-----------------------------------------------------------------------------
(* The two together.                                                         *)

(* The streams leave the start-up alone, but for its faults. *)
LEMMA Inductive == Started /\ [RNext]_allVars => Started'
<1> SUFFICES ASSUME Started, [RNext]_allVars PROVE Started'
  OBVIOUS
<1>1. CASE StartupSteps
  BY <1>1, StartedStep DEF StartupSteps
<1>2. ASSUME NEW s \in Streams, NewStream(s) PROVE Started'
  <2>1. faults' \in 0 .. MaxFaults
    BY <1>2, StartupAssumption DEF NewStream, Fault, Started, TypeOK
  <2>2. UNCHANGED <<stage, typed, identity, links, errors>>
    BY <1>2 DEF NewStream
  <2> QED  BY <2>1, <2>2, LinkStep DEF Started, TypeOK, Linked
<1>3. ASSUME UNCHANGED vars PROVE Started'
  BY <1>3, StartedStep
<1>4. ASSUME NEW s \in Streams,
             \/ StreamStep(PP!PingPeer(s)) \/ StreamStep(PP!Other(s))
             \/ StreamStep(PP!HandlerStep(s))
             \/ StreamStep(PP!Arrive(s)) \/ StreamStep(PP!GiveUp(s))
      PROVE Started'
  BY <1>3, <1>4 DEF StreamStep
<1>5. CASE UNCHANGED allVars
  BY <1>3, <1>5 DEF allVars
<1> QED  BY <1>1, <1>2, <1>4, <1>5 DEF RNext

LEMMA AlwaysStarted == RSpec => []Started
<1>1. RInit => Started
  BY InitStarted DEF RInit
<1> QED  BY <1>1, Inductive, PTL DEF RSpec

(***************************************************************************)
(* Every variable has its type.                                            *)
(***************************************************************************)
THEOREM RTypeCorrect == RSpec => []RTypeOK
<1>1. Started /\ PP!TypeOK => RTypeOK
  BY DEF Started, RTypeOK
<1> QED  BY <1>1, AlwaysStarted, AlwaysFlow, PTL

(***************************************************************************)
(* Whoever gets anywhere runs under the key it asked for, be it another's, *)
(* or under a random one: key 0, which bad arguments stand for, gets nobody*)
(* into the network.  shared.go:54-59, 137-156, relay/main.go:313-340.     *)
(***************************************************************************)
THEOREM NoImpostorHolds == RSpec => []NoImpostor
  BY Impostors, AlwaysStarted, PTL

(***************************************************************************)
(* A loop that calls a bootstrap node or a relay was given wrong arguments,*)
(* or the node was, or is not one the programs know, or the relay is       *)
(* another; a loop that leaves out a client or a runner has met one with   *)
(* the key of another process.  mobile_client/main.go:45-57, 514,          *)
(* shared.go:82-102, 285-322.                                              *)
(***************************************************************************)
THEOREM CallsExplainedHolds == RSpec => []CallsExplained
  BY CallsAre, AlwaysStarted, PTL

(***************************************************************************)
(* What pingPeer reads says what became of its PING, whatever happens to   *)
(* the connection.  mobile_client/main.go:84-121, 140-172.                 *)
(***************************************************************************)
THEOREM ReplyExplainedHolds == RSpec => []ReplyExplained
  BY Replies, AlwaysFlow, PTL

(***************************************************************************)
(* The two ends of a stream never wait for each other, whatever connections*)
(* and processes do.  mobile_client/main.go:95-121, 140-172.               *)
(***************************************************************************)
THEOREM NoMutualWaitHolds == RSpec => []NoMutualWait
  BY NobodyWaits, AlwaysFlow, PTL
=============================================================================
