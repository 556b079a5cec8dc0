---------------------------- MODULE StreamSession ----------------------------
(***************************************************************************)
(* The stream of one runner as its clients use it.  Every client visits    *)
(* the runner over and over (cmd/mobile_client/main.go:522-528): it asks   *)
(* for the status, starts the stream, sleeps, asks again and stops it, and *)
(* looks at none of the answers.  The runner has one flag for everybody,   *)
(* in memory only.                                                         *)
(*                                                                         *)
(* The module builds on two others.  A call goes through the phases of     *)
(* Exchange, which PingProtocol implements: it is refused, or it is sent   *)
(* and then served or lost.  A request that is served runs a handler of    *)
(* StreamFlag.  The requests of one client travel on streams of their own  *)
(* and each handler has its goroutine, so they may be served in any order  *)
(* and at once.                                                            *)
(*                                                                         *)
(* What does not touch the flag is left out: Ping and Info, and how a      *)
(* handler builds and sends its response and the client logs it, which     *)
(* StreamFlag and PingProtocol have.                                       *)
(***************************************************************************)
EXTENDS Naturals

CONSTANTS
    Clients,
    Runner,
    MaxVisit,       \* bound: the visits of each client
    Attempted,      \* bound: the calls that reach the network
    MaxFaults,      \* bound: calls refused, requests lost, clients going down
    MaxCrashes      \* bound: times the runner goes down

ASSUME SessionAssumption ==
    /\ Runner \notin Clients
    /\ MaxVisit \in Nat
    /\ MaxFaults \in Nat
    /\ MaxCrashes \in Nat

\* Where Status, StartStream, the second Status and StopStream are in a visit.
Positions == {2, 4, 5, 6}

Calls == [client : Clients, visit : 1 .. MaxVisit, at : Positions]

KindOf == [h \in Calls |-> CASE h.at = 4 -> "start"
                             [] h.at = 6 -> "stop"
                             [] OTHER    -> "status"]

VARIABLES
    isStreaming, pc, statusMessage, reply, window,  \* the runner: StreamFlag
    phase,      \* of every call: Exchange, as far as the request handler
    up,         \* the processes that are running
    lost,       \* requests that will not be served, or whose handler died
    life,       \* history: which life of the runner served a call
    owner,      \* history: the start whose write made the stream run
    faults, crashes

flagVars == <<isStreaming, pc, statusMessage, reply, window>>
vars == <<flagVars, phase, up, lost, life, owner, faults, crashes>>

Flag == INSTANCE StreamFlag WITH Handlers <- Calls, Kind <- KindOf

Init ==
    /\ Flag!Init
    /\ phase = [h \in Calls |-> "idle"]
    /\ up = Clients \union {Runner}
    /\ lost = {}
    /\ life = [h \in Calls |-> 0]
    /\ owner = {}
    /\ faults = 0
    /\ crashes = 0

-----------------------------------------------------------------------------
(* The client's loop.                                                        *)

\* Something of the network fails: for free if the process at the other end is
\* down, as one of the faults otherwise.
Failing(peer) ==
    IF peer \in up THEN faults < MaxFaults /\ faults' = faults + 1
                   ELSE UNCHANGED faults

\* g comes before h in the loop of their client.
Earlier(g, h) ==
    /\ g.client = h.client
    /\ \/ g.visit < h.visit
       \/ g.visit = h.visit /\ g.at < h.at

\* Mutant of Turn: the loop gives up when the second Status returns false.
TurnIfStatusSent(h) ==
    /\ h.client \in up /\ phase[h] = "idle"
    /\ \A g \in Calls : Earlier(g, h) => phase[g] # "idle"
    /\ h.at = 6 => phase[[h EXCEPT !.at = 5]] # "refused"

Turn(h) ==
    /\ h.client \in up /\ phase[h] = "idle"
    /\ \A g \in Calls : Earlier(g, h) => phase[g] # "idle"

CallSent(h) ==
    /\ Turn(h) /\ h \in Attempted /\ Runner \in up
    /\ phase' = [phase EXCEPT ![h] = "sent"]
    /\ UNCHANGED faults

\* The call returns false, and the loop does not look.
CallRefused(h) ==
    /\ Turn(h)
    /\ IF h \in Attempted THEN Failing(Runner) ELSE UNCHANGED faults
    /\ phase' = [phase EXCEPT ![h] = "refused"]

Loop(c) ==
    /\ \E h \in Calls : h.client = c /\ (CallSent(h) \/ CallRefused(h))
    /\ UNCHANGED <<flagVars, up, lost, life, owner, crashes>>

-----------------------------------------------------------------------------
(* The runner's handlers.                                                    *)

\* The request was read to its end: its handler runs, first to look at the flag.
Serve(h) ==
    /\ phase[h] = "sent" /\ h \notin lost /\ Runner \in up
    /\ Flag!CheckStreaming(h)
    /\ phase' = [phase EXCEPT ![h] = "served"]
    /\ life' = [life EXCEPT ![h] = crashes]
    /\ UNCHANGED <<up, lost, owner, faults, crashes>>

\* The start that turns the flag on owns the stream until the flag is off.
Write(h) ==
    /\ h \notin lost
    /\ Flag!SetStreaming(h)
    /\ owner' = IF ~Flag!Wanted(h) THEN {} ELSE IF isStreaming THEN owner ELSE {h}
    /\ UNCHANGED <<phase, up, lost, life, faults, crashes>>

HandleRequests == \E h \in Calls : Serve(h) \/ Write(h)

-----------------------------------------------------------------------------
(* The network and the processes, external.                                  *)

\* The connection goes away before the target has read the request to its end.
Lose(h) ==
    /\ phase[h] = "sent" /\ h \notin lost
    /\ Failing(h.client)
    /\ lost' = lost \union {h}
    /\ UNCHANGED <<flagVars, phase, up, life, owner, crashes>>

\* Requests on their way to the runner, and handlers that are running in it.
InRunner ==
    {h \in Calls : \/ phase[h] = "sent"
                   \/ phase[h] = "served" /\ pc[h] = "set"}

\* Mutant of CrashRunner: the flag is kept across restarts.
CrashRunnerKeeps ==
    /\ Runner \in up /\ crashes < MaxCrashes
    /\ up' = up \ {Runner}
    /\ lost' = lost \union InRunner
    /\ crashes' = crashes + 1
    /\ UNCHANGED <<isStreaming, owner, pc, statusMessage, reply, window, phase, life, faults>>

\* What the runner had in memory is gone, its goroutines and streams included.
CrashRunner ==
    /\ Runner \in up /\ crashes < MaxCrashes
    /\ up' = up \ {Runner}
    /\ lost' = lost \union InRunner
    /\ isStreaming' = FALSE
    /\ owner' = {}
    /\ crashes' = crashes + 1
    /\ UNCHANGED <<pc, statusMessage, reply, window, phase, life, faults>>

\* A client that comes back begins like another member of Clients.
CrashClient(c) ==
    /\ c \in up /\ faults < MaxFaults
    /\ up' = up \ {c}
    /\ faults' = faults + 1
    /\ UNCHANGED <<flagVars, phase, lost, life, owner, crashes>>

\* An operator starts the runner again, under the same key: the variable is
\* false, as ping.go:25 declares it.
Restart ==
    /\ Runner \notin up
    /\ up' = up \union {Runner}
    /\ UNCHANGED <<flagVars, phase, lost, life, owner, faults, crashes>>

Next ==
    \/ \E c \in Clients : Loop(c)
    \/ HandleRequests
    \/ \E h \in Calls : Lose(h)
    \/ CrashRunner
    \/ \E c \in Clients : CrashClient(c)
    \/ Restart

Spec == Init /\ [][Next]_vars

\* The clients' loops go on, and so do the handlers, whichever runs next.
FairSpec ==
    /\ Spec
    /\ \A c \in Clients : WF_vars(Loop(c))
    /\ WF_vars(HandleRequests)

-----------------------------------------------------------------------------

StartOf(h)  == [h EXCEPT !.at = 4]
StopOf(h)   == [h EXCEPT !.at = 6]
Served(h)   == phase[h] = "served"
Settled(h)  == Served(h) /\ Flag!Settled(h)

(***************************************************************************)
(* Every variable has its type.                                            *)
(***************************************************************************)
TypeOK ==
    /\ Flag!TypeOK
    /\ phase \in [Calls -> {"idle", "sent", "refused", "served"}]
    /\ up \subseteq Clients \union {Runner}
    /\ lost \subseteq Calls
    /\ life \in [Calls -> 0 .. MaxCrashes]
    /\ owner \subseteq Calls
    /\ faults \in 0 .. MaxFaults
    /\ crashes \in 0 .. MaxCrashes

(***************************************************************************)
(* A stream runs for somebody: while the flag is on, the runner is up, and *)
(* the visit that turned it on has not had its StopStream handled (it was  *)
(* not called yet, refused, lost or is on its way), or its StartStream     *)
(* wrote after its StopStream had looked.  No interleaving with another    *)
(* client's starts and stops makes a runner forget a StopStream.           *)
(* mobile_client/main.go:525-528, startstream.go:31, stopstream.go:31.     *)
(***************************************************************************)
NoOrphan ==
    isStreaming =>
        \E s \in owner :
            /\ Runner \in up
            /\ \/ ~Settled(StopOf(s))
               \/ s \in window[StopOf(s)]

(***************************************************************************)
(* A restart ends every stream, and no request of before it, handled or    *)
(* half handled, starts one after it: a stream that runs was started by a  *)
(* StartStream this life of the runner has served.  ping.go:25,            *)
(* startstream.go:31-34.                                                   *)
(***************************************************************************)
NoGhost ==
    isStreaming => owner # {} /\ \A s \in owner : Served(s) /\ life[s] = crashes

(***************************************************************************)
(* What a start or a stop asked for stays so for as long as this life of   *)
(* the runner lasts, unless a request of the other kind wrote after it had *)
(* looked: no refusal, loss or crash of a client undoes it, nor does any   *)
(* number of requests that found nothing to do.  startstream.go:31-39,     *)
(* stopstream.go:31-38.                                                    *)
(***************************************************************************)
Obeyed ==
    \A h \in Calls :
        (/\ KindOf[h] # "status" /\ Settled(h) /\ life[h] = crashes
         /\ isStreaming # Flag!Wanted(h))
        => \E k \in window[h] : KindOf[k] \notin {KindOf[h], "status"}

(***************************************************************************)
(* One flag serves all clients.  If a visit's StartStream was handled and  *)
(* a status of the same life of the runner still says "inactive", then a   *)
(* start came after the status, or somebody stopped the stream after the   *)
(* start: the same client in a request of another visit or out of order,   *)
(* or any other client.  startstream.go:31, status.go:31.                  *)
(***************************************************************************)
InactiveExplained ==
    \A q \in Calls :
        LET s == StartOf(q) IN
        (/\ q.at = 5 /\ Served(q) /\ Settled(s) /\ life[q] = life[s]
         /\ statusMessage[q] = "Stream is inactive")
        => \/ \E g \in window[q] : KindOf[g] = "start"
           \/ \E k \in window[s] : KindOf[k] = "stop"

(***************************************************************************)
(* Every stream ends, although no client looks at what StartStream,        *)
(* Status or StopStream return: the flag goes off, unless the client's     *)
(* process goes down, or its StopStream is refused, lost, or overtaken by  *)
(* its own StartStream.  mobile_client/main.go:525-528.                    *)
(***************************************************************************)
StreamEnds ==
    \A s \in Calls :
        (owner = {s}) ~>
            \/ owner # {s}
            \/ s.client \notin up
            \/ phase[StopOf(s)] = "refused"
            \/ StopOf(s) \in lost
            \/ s \in window[StopOf(s)]
=============================================================================
