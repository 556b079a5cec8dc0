------------------------------ MODULE Rendezvous ------------------------------
(***************************************************************************)
(* The rendezvous streams between the four programs: PingPong on the       *)
(* connections of Startup.  A stream is opened on a connection, by a       *)
(* process that has started, and is refused unless the other side has      *)
(* registered handleStream; it goes away with the connection.              *)
(***************************************************************************)
EXTENDS Startup

CONSTANTS
    Streams,
    From, To    \* between which processes

ASSUME EndsAssumption ==
    /\ From \in [Streams -> Peers]
    /\ To \in [Streams -> Relays \union Peers]

VARIABLES kind, opener, side, wire, handler, tries, seen, back, got

streamVars == <<kind, opener, side, wire, handler, tries, seen, back, got>>

Program == [s \in Streams |-> IF To[s] \in Clients THEN "client"
                              ELSE IF To[s] \in Runners THEN "runner" ELSE "relay"]

PP == INSTANCE PingPong

\* The connection a stream runs on.
Conn(s) == {From[s], To[s]}

RInit == Init /\ PP!Init

\* NewStream: the other side knows the protocol, or does not, or fails.
NewStream(s) ==
    /\ stage[From[s]] = "ready"
    /\ UNCHANGED <<stage, typed, identity, links, errors>>
    /\ \/ Conn(s) \in links /\ Handling(To[s]) /\ PP!Opened(s) /\ UNCHANGED faults
       \/ /\ PP!Refused(s)
          /\ IF Conn(s) \in links /\ Handling(To[s]) THEN Fault ELSE UNCHANGED faults

\* The steps of Startup; a lost connection takes its streams with it, and a
\* process that stops takes the ends of its streams.
StartupSteps ==
    /\ Next
    /\ PP!Reset({s \in Streams : Conn(s) \in links \ links'})

StreamStep(A) == A /\ UNCHANGED vars

RNext ==
    \/ StartupSteps
    \/ \E s \in Streams :
           \/ NewStream(s)
           \/ StreamStep(PP!PingPeer(s))
           \/ StreamStep(PP!Other(s))
           \/ StreamStep(PP!HandlerStep(s))
           \/ StreamStep(PP!Arrive(s))
           \/ StreamStep(PP!GiveUp(s))

allVars == <<vars, streamVars>>

RSpec == RInit /\ [][RNext]_allVars

\* The functions that read go on.  Nothing is assumed of the start-up, of the
\* others or of the network.
RFairSpec ==
    /\ RSpec
    /\ \A s \in Streams :
           /\ WF_allVars(StreamStep(PP!PingPeer(s)))
           /\ WF_allVars(StreamStep(PP!HandlerStep(s)))

-----------------------------------------------------------------------------

(***************************************************************************)
(* Every variable has its type.                                            *)
(***************************************************************************)
RTypeOK == TypeOK /\ PP!TypeOK

(***************************************************************************)
(* PingPong's promises, on connections that come and go.                   *)
(***************************************************************************)
ReplyExplained == PP!ReplyExplained
NoMutualWait   == PP!NoMutualWait
ReadsReturn    == PP!ReadsReturn
=============================================================================
