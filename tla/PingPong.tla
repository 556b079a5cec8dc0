------------------------------- MODULE PingPong -------------------------------
(***************************************************************************)
(* Streams of the rendezvous protocol, /customprotocol/1.0.0, from the     *)
(* NewStream of whoever opens them to the end of the handleStream at the   *)
(* other side.  Clients, runners and relays have one handleStream each;    *)
(* they differ in what they answer.  A stream is opened by                 *)
(*                                                                         *)
(*   pingPeer  which writes PING, reads one reply and closes,              *)
(*   a probe   of connectToPeers, which neither writes nor closes, or      *)
(*   others    who write TEST, as manualStream does, or nothing, and close *)
(*             or do not.                                                  *)
(*                                                                         *)
(* Today's loops open probes only: the calls of pingPeer and manualStream  *)
(* are commented out (mobile_client/main.go:536, node_runner/main.go:317). *)
(*                                                                         *)
(* libp2p asks the other side for the protocol when the stream is opened,  *)
(* or, if it knows the answer, along with the first bytes: a handler may   *)
(* start late, and for a probe not at all.                                 *)
(*                                                                         *)
(* Both sides read once, into five bytes, what there is: a message may     *)
(* have arrived in part.  "noder", which the runner leaves in a buffer it  *)
(* never flushes, never gets on the stream and is left out.                *)
(***************************************************************************)
EXTENDS Naturals

CONSTANTS
    Streams,
    Program     \* of the process at the other side of a stream

MaxRetry == 5

Openers == {"pingPeer", "probe", "other"}

VARIABLES
    kind,       \* who opens the stream
    opener,     \* where the function that opens the stream is
    side,       \* the stream as the opener leaves it
    wire,       \* how much of the message can be read
    handler,    \* where handleStream is
    tries,      \* its reads
    seen,       \* history: what its read has got
    back,       \* the reply that can be read
    got         \* what the read of pingPeer has returned

vars == <<kind, opener, side, wire, handler, tries, seen, back, got>>

Message(s) == IF kind[s] = "pingPeer" THEN "PING" ELSE "TEST"

Answered(s) == IF Program[s] = "runner" THEN {"PING", "TEST"} ELSE {"PING"}

Init ==
    /\ kind     = [s \in Streams |-> "none"]
    /\ opener   = [s \in Streams |-> "idle"]
    /\ side     = [s \in Streams |-> "none"]
    /\ wire     = [s \in Streams |-> "nothing"]
    /\ handler  = [s \in Streams |-> "none"]
    /\ tries    = [s \in Streams |-> 0]
    /\ seen     = [s \in Streams |-> "nothing"]
    /\ back     = [s \in Streams |-> "nothing"]
    /\ got      = [s \in Streams |-> "nothing"]

-----------------------------------------------------------------------------
(* The opener.                                                               *)

Opened(s) ==
    /\ opener[s] = "idle"
    /\ \E k \in Openers, begun \in BOOLEAN :
           /\ kind' = [kind EXCEPT ![s] = k]
           /\ opener' = [opener EXCEPT ![s] = IF k = "probe" THEN "returned" ELSE "write"]
           /\ handler' = [handler EXCEPT ![s] = IF begun THEN "read" ELSE "none"]
    /\ side' = [side EXCEPT ![s] = "open"]
    /\ UNCHANGED <<wire, tries, seen, back, got>>

Refused(s) ==
    /\ opener[s] = "idle"
    /\ opener' = [opener EXCEPT ![s] = "returned"]
    /\ UNCHANGED <<kind, side, wire, handler, tries, seen, back, got>>

\* The handler has started, now or before.
Begun(s) == [handler EXCEPT ![s] = IF @ = "none" THEN "read" ELSE @]

\* On a stream that is gone the write fails, and the opener returns.
WriteMessage(s) ==
    /\ opener[s] = "write"
    /\ IF side[s] = "open"
       THEN /\ \E much \in {"part", "whole"} : wire' = [wire EXCEPT ![s] = much]
            /\ opener' = [opener EXCEPT ![s] = IF kind[s] = "pingPeer" THEN "read" ELSE "close"]
            /\ handler' = Begun(s)
       ELSE /\ opener' = [opener EXCEPT ![s] = "returned"]
            /\ UNCHANGED <<wire, handler>>
    /\ UNCHANGED <<kind, side, tries, seen, back, got>>

Closed(s) == [side EXCEPT ![s] = IF @ = "open" THEN "closed" ELSE @]

\* The one read of pingPeer, and its deferred Close.
ReadReply(s) ==
    /\ opener[s] = "read"
    /\ \E read \in {"PONG", "unexpected", "EOF", "error"} :
           /\ CASE read \in {"PONG", "unexpected"} -> back[s] = "PONG"
                [] read = "EOF"   -> /\ handler[s] = "ended" /\ back[s] = "nothing"
                                     /\ side[s] # "reset"
                [] read = "error" -> side[s] = "reset"
           /\ got' = [got EXCEPT ![s] = read]
    /\ opener' = [opener EXCEPT ![s] = "returned"]
    /\ side' = Closed(s)
    /\ UNCHANGED <<kind, wire, handler, tries, seen, back>>

PingPeer(s) == kind[s] = "pingPeer" /\ (WriteMessage(s) \/ ReadReply(s))

\* Others may close without a message, and nothing says that they ever do.
CloseStream(s) ==
    /\ opener[s] \in {"write", "close"}
    /\ opener' = [opener EXCEPT ![s] = "returned"]
    /\ side' = Closed(s)
    /\ handler' = IF side[s] = "open" THEN Begun(s) ELSE handler
    /\ UNCHANGED <<kind, wire, tries, seen, back, got>>

Other(s) == kind[s] = "other" /\ (WriteMessage(s) \/ CloseStream(s))

-----------------------------------------------------------------------------
(* handleStream.                                                             *)

\* Mutant of Receive: what is no PING is skipped, and the loop reads on.
ReceiveAgain(s) ==
    /\ handler[s] = "read" /\ side[s] # "reset" /\ wire[s] # "nothing"
    /\ seen' = [seen EXCEPT ![s] = wire[s]]
    /\ wire' = [wire EXCEPT ![s] = "nothing"]
    /\ handler' = [handler EXCEPT ![s] =
           IF wire[s] = "whole" /\ Message(s) \in Answered(s) THEN "reply" ELSE "read"]
    /\ UNCHANGED <<kind, opener, side, tries, back, got>>

\* Mutant of Receive: whatever has come is taken for a PING.
ReceiveAny(s) ==
    /\ handler[s] = "read" /\ side[s] # "reset" /\ wire[s] # "nothing"
    /\ seen' = [seen EXCEPT ![s] = wire[s]]
    /\ wire' = [wire EXCEPT ![s] = "nothing"]
    /\ handler' = [handler EXCEPT ![s] = "reply"]
    /\ UNCHANGED <<kind, opener, side, tries, back, got>>

\* The first read that returns something ends the loop, whatever it returns.
Receive(s) ==
    /\ handler[s] = "read" /\ side[s] # "reset" /\ wire[s] # "nothing"
    /\ seen' = [seen EXCEPT ![s] = wire[s]]
    /\ wire' = [wire EXCEPT ![s] = "nothing"]
    /\ handler' = [handler EXCEPT ![s] =
           IF wire[s] = "whole" /\ Message(s) \in Answered(s) THEN "reply" ELSE "ended"]
    /\ UNCHANGED <<kind, opener, side, tries, back, got>>

\* Mutant of ReceiveEOF: the loop goes round once more.
ReceiveEOFMore(s) ==
    /\ handler[s] = "read" /\ side[s] = "closed" /\ wire[s] = "nothing"
    /\ tries' = [tries EXCEPT ![s] = @ + 1]
    /\ handler' = [handler EXCEPT ![s] = IF tries'[s] > MaxRetry THEN "ended" ELSE "read"]
    /\ UNCHANGED <<kind, opener, side, wire, seen, back, got>>

\* The end of the stream is retried after a second, and is still the end.
ReceiveEOF(s) ==
    /\ handler[s] = "read" /\ side[s] = "closed" /\ wire[s] = "nothing"
    /\ tries' = [tries EXCEPT ![s] = @ + 1]
    /\ handler' = [handler EXCEPT ![s] = IF tries'[s] = MaxRetry THEN "ended" ELSE "read"]
    /\ UNCHANGED <<kind, opener, side, wire, seen, back, got>>

ReceiveError(s) ==
    /\ handler[s] = "read" /\ side[s] = "reset"
    /\ handler' = [handler EXCEPT ![s] = "ended"]
    /\ UNCHANGED <<kind, opener, side, wire, tries, seen, back, got>>

\* The write may fail once the opener no longer reads, and then nothing is sent.
WritePong(s) ==
    /\ handler[s] = "reply"
    /\ \E ok \in BOOLEAN :
           /\ ok => side[s] # "reset"
           /\ ~ok => side[s] # "open"
           /\ back' = [back EXCEPT ![s] = IF ok THEN "PONG" ELSE @]
    /\ handler' = [handler EXCEPT ![s] = "ended"]
    /\ UNCHANGED <<kind, opener, side, wire, tries, seen, got>>

HandlerStep(s) == Receive(s) \/ ReceiveEOF(s) \/ ReceiveError(s) \/ WritePong(s)

-----------------------------------------------------------------------------
(* The network, external.                                                    *)

Arrive(s) ==
    /\ wire[s] = "part"
    /\ wire' = [wire EXCEPT ![s] = "whole"]
    /\ UNCHANGED <<kind, opener, side, handler, tries, seen, back, got>>

\* The connection under some streams goes away.
Reset(gone) ==
    /\ side' = [s \in Streams |-> IF s \in gone /\ side[s] # "none" THEN "reset" ELSE side[s]]
    /\ UNCHANGED <<kind, opener, wire, handler, tries, seen, back, got>>

\* The other side does not wait for the name of the protocol for ever.
GiveUp(s) ==
    /\ handler[s] = "none" /\ side[s] = "open"
    /\ side' = [side EXCEPT ![s] = "reset"]
    /\ UNCHANGED <<kind, opener, wire, handler, tries, seen, back, got>>

Next ==
    \/ \E s \in Streams :
           \/ Opened(s) \/ Refused(s) \/ PingPeer(s) \/ Other(s)
           \/ HandlerStep(s)
           \/ Arrive(s) \/ GiveUp(s)
    \/ \E gone \in SUBSET Streams : Reset(gone)

Spec == Init /\ [][Next]_vars

-----------------------------------------------------------------------------

(***************************************************************************)
(* Every variable has its type.                                            *)
(***************************************************************************)
TypeOK ==
    /\ kind     \in [Streams -> Openers \union {"none"}]
    /\ opener   \in [Streams -> {"idle", "write", "read", "close", "returned"}]
    /\ side     \in [Streams -> {"none", "open", "closed", "reset"}]
    /\ wire     \in [Streams -> {"nothing", "part", "whole"}]
    /\ handler  \in [Streams -> {"none", "read", "reply", "ended"}]
    /\ tries    \in [Streams -> 0 .. MaxRetry]
    /\ seen     \in [Streams -> {"nothing", "part", "whole"}]
    /\ back     \in [Streams -> {"nothing", "PONG"}]
    /\ got      \in [Streams -> {"nothing", "PONG", "unexpected", "EOF", "error"}]

(***************************************************************************)
(* What pingPeer reads says what became of its PING: a PONG that it came   *)
(* whole, and the end of the stream that it came in pieces.  It is never   *)
(* dropped for another reason: while pingPeer waits, the handler cannot    *)
(* run out of its five reads, nor does its reply fail unnoticed.           *)
(* mobile_client/main.go:95, 145-168, and their likes.                     *)
(***************************************************************************)
ReplyExplained ==
    \A s \in Streams :
        /\ got[s] \in {"PONG", "unexpected"} => seen[s] = "whole"
        /\ got[s] = "EOF" => seen[s] = "part"

(***************************************************************************)
(* The two ends never wait for each other: while pingPeer is in its read,  *)
(* there is something for it to read, or the handler has yet to take the   *)
(* PING or to answer it.  mobile_client/main.go:95-121, 140-172.           *)
(***************************************************************************)
NoMutualWait ==
    \A s \in Streams : opener[s] = "read" =>
        \/ back[s] # "nothing" \/ handler[s] = "ended" \/ side[s] = "reset"
        \/ handler[s] = "reply"
        \/ handler[s] = "read" /\ wire[s] # "nothing"

(***************************************************************************)
(* Nobody waits for ever at either end: pingPeer gets out of its read,     *)
(* although the handler reads at the same time, and a handler ends unless  *)
(* its stream is and stays open and silent, as that of a probe does.       *)
(* mobile_client/main.go:95, 145, 316.                                     *)
(***************************************************************************)
ReadsReturn ==
    \A s \in Streams :
        /\ opener[s] = "read" ~> opener[s] = "returned"
        /\ handler[s] = "read" /\ (wire[s] # "nothing" \/ side[s] # "open")
               ~> handler[s] = "ended"
=============================================================================
