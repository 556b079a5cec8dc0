------------------------------ MODULE StreamFlag ------------------------------
(***************************************************************************)
(* The streaming flag of one process (internal/ping/ping.go:25) and the    *)
(* handlers that read and write it: StartStream, StopStream and Status.    *)
(*                                                                         *)
(* libp2p runs every incoming stream in a goroutine of its own, and the    *)
(* package variable isStreaming has no lock (the protocol's field mu is    *)
(* never taken).  A handler is therefore split where the shared variable   *)
(* is touched:                                                             *)
(*                                                                         *)
(*   check   if !isStreaming ...               chooses the branch          *)
(*   set     isStreaming = true | false        only on one branch          *)
(*   build   IsStreaming: isStreaming          the reply reads it again    *)
(*   send    sendProtoMessage                  then done, or an error      *)
(*                                                                         *)
(* The race is undefined as to what the second read returns: the build may *)
(* load the variable again or keep the value the goroutine already has in  *)
(* a register.  Both are outcomes of BuildResponse.                        *)
(***************************************************************************)

CONSTANTS
    Handlers,   \* the request handlers running in this process
    Kind        \* which of the three requests each of them serves

ASSUME KindAssumption == Kind \in [Handlers -> {"start", "stop", "status"}]

VARIABLES
    isStreaming,    \* the package variable
    pc,             \* where each handler is
    statusMessage,  \* the local of the same name
    reply,          \* the IsStreaming field of the response
    window          \* history: who else wrote isStreaming since a handler's check

vars == <<isStreaming, pc, statusMessage, reply, window>>

Starts == {h \in Handlers : Kind[h] = "start"}
Stops  == {h \in Handlers : Kind[h] = "stop"}

\* The value a start or a stop is there to give the flag.
Wanted(h) == Kind[h] = "start"

\* The text of a reply and a value of the flag say the same of the stream.
Agrees(flag, message) ==
    flag <=> message \in {"SUCCESS", "ALREADY_STREAMING", "Stream is active"}

\* Mutant of Answer: a second start is not told that a stream is running.
AnswerAlwaysSuccess(kind, flag) ==
    CASE kind = "start"  -> "SUCCESS"
      [] kind = "stop"   -> IF flag THEN "STREAM_STOPPED" ELSE "NOT_STREAMING_PREVIOUSLY"
      [] kind = "status" -> IF flag THEN "Stream is active" ELSE "Stream is inactive"

\* Mutant of Answer: a text of a stop is misspelt.
AnswerMisspelt(kind, flag) ==
    CASE kind = "start"  -> IF flag THEN "ALREADY_STREAMING" ELSE "SUCCESS"
      [] kind = "stop"   -> IF flag THEN "STREAM_STOPPED" ELSE "NOT_STREAMING"
      [] kind = "status" -> IF flag THEN "Stream is active" ELSE "Stream is inactive"

\* The text a handler settles on when its check reads `flag`.
Answer(kind, flag) ==
    CASE kind = "start"  -> IF flag THEN "ALREADY_STREAMING" ELSE "SUCCESS"
      [] kind = "stop"   -> IF flag THEN "STREAM_STOPPED" ELSE "NOT_STREAMING_PREVIOUSLY"
      [] kind = "status" -> IF flag THEN "Stream is active" ELSE "Stream is inactive"

\* Mutant of MustWrite: a stop reports that it stopped the stream, and does not.
MustWriteStartOnly(h, flag) == Kind[h] = "start" /\ ~flag

\* Mutant of MustWrite: a start reports SUCCESS, and streams nothing.
MustWriteStopOnly(h, flag) == Kind[h] = "stop" /\ flag

\* A start or a stop writes only when its check found the other value.
MustWrite(h, flag) == Kind[h] # "status" /\ flag # Wanted(h)

\* StopStreamResponse carries an Id only, so a stop has nothing to build.
Decided(h) == IF Kind[h] = "stop" THEN "send" ELSE "build"

-----------------------------------------------------------------------------

Init ==
    /\ isStreaming = FALSE
    /\ pc = [h \in Handlers |-> "check"]
    /\ statusMessage = [h \in Handlers |-> "unknown"]
    /\ reply = [h \in Handlers |-> FALSE]
    /\ window = [h \in Handlers |-> {}]

CheckStreaming(h) ==
    /\ pc[h] = "check"
    /\ statusMessage' = [statusMessage EXCEPT ![h] = Answer(Kind[h], isStreaming)]
    /\ pc' = [pc EXCEPT ![h] = IF MustWrite(h, isStreaming) THEN "set" ELSE Decided(h)]
    /\ UNCHANGED <<isStreaming, reply, window>>

SetStreaming(h) ==
    /\ pc[h] = "set"
    /\ isStreaming' = Wanted(h)
    /\ pc' = [pc EXCEPT ![h] = Decided(h)]
    /\ window' = [g \in Handlers |->
                    IF g = h \/ pc[g] = "check" THEN window[g] ELSE window[g] \union {h}]
    /\ UNCHANGED <<statusMessage, reply>>

\* Mutant of BuildResponse: IsStreaming is not assigned and stays false.
BuildResponseZero(h) ==
    /\ pc[h] = "build"
    /\ pc' = [pc EXCEPT ![h] = "send"]
    /\ UNCHANGED <<isStreaming, statusMessage, reply, window>>

BuildResponse(h) ==
    /\ pc[h] = "build"
    /\ \E reread \in BOOLEAN :
           /\ reread = isStreaming \/ Agrees(reread, statusMessage[h])
           /\ reply' = [reply EXCEPT ![h] = reread]
    /\ pc' = [pc EXCEPT ![h] = "send"]
    /\ UNCHANGED <<isStreaming, statusMessage, window>>

\* A response that cannot be sent ends in an error; nothing undoes the write.
SendResponse(h) ==
    /\ pc[h] = "send"
    /\ \E ok \in BOOLEAN : pc' = [pc EXCEPT ![h] = IF ok THEN "replied" ELSE "failed"]
    /\ UNCHANGED <<isStreaming, statusMessage, reply, window>>

Handle(h) == CheckStreaming(h) \/ SetStreaming(h) \/ BuildResponse(h) \/ SendResponse(h)

Next == \E h \in Handlers : Handle(h)

Spec == Init /\ [][Next]_vars

-----------------------------------------------------------------------------

Checked(h) == pc[h] # "check"
Settled(h) == pc[h] \notin {"check", "set"}
Built(h)   == pc[h] \in {"send", "replied", "failed"}

\* The handler found the other value and is the one that changes the flag.
Flips(h) == statusMessage[h] \in {"SUCCESS", "STREAM_STOPPED"}

(***************************************************************************)
(* Every variable has its type; a handler is never in its own window.      *)
(***************************************************************************)
TypeOK ==
    /\ isStreaming \in BOOLEAN
    /\ pc \in [Handlers -> {"check", "set", "build", "send", "replied", "failed"}]
    /\ statusMessage \in [Handlers ->
            {"unknown", "SUCCESS", "ALREADY_STREAMING", "STREAM_STOPPED",
             "NOT_STREAMING_PREVIOUSLY", "Stream is active", "Stream is inactive"}]
    /\ reply \in [Handlers -> BOOLEAN]
    /\ window \in [Handlers -> SUBSET Handlers]
    /\ \A h \in Handlers : h \notin window[h]

(***************************************************************************)
(* A request is obeyed unless another one is to blame: once a start (stop) *)
(* has settled, the flag can only differ from what it asked for if a stop  *)
(* (start) wrote after its check.  This covers the handlers that answered  *)
(* ALREADY_STREAMING or NOT_STREAMING_PREVIOUSLY and wrote nothing.        *)
(* startstream.go:31-39, stopstream.go:31-38.                              *)
(***************************************************************************)
LastWord ==
    \A h \in Starts \union Stops :
        Settled(h) /\ isStreaming # Wanted(h) =>
            \E g \in window[h] : Kind[g] # Kind[h]

(***************************************************************************)
(* A reply whose IsStreaming field contradicts its status text is the      *)
(* doing of a concurrent writer of that value: with no handler in between  *)
(* the two agree.  startstream.go:31-45, status.go:31-40.                  *)
(***************************************************************************)
TornReplyHasWriter ==
    \A h \in Handlers :
        Built(h) /\ Kind[h] # "stop" /\ ~Agrees(reply[h], statusMessage[h]) =>
            \E g \in window[h] : Kind[g] = IF reply[h] THEN "start" ELSE "stop"

(***************************************************************************)
(* Two handlers of one kind may both claim to have changed the flag only   *)
(* if the second checked before the first wrote, or a handler of the other *)
(* kind wrote in between.  startstream.go:31-34, stopstream.go:34-37.      *)
(***************************************************************************)
OneFlipAtATime ==
    \A g, h \in Starts \union Stops :
        g # h /\ Kind[g] = Kind[h] /\ Flips(g) /\ Flips(h) /\ Settled(g) /\ Checked(h) =>
            g \in window[h] \/ \E k \in window[g] : Kind[k] # Kind[g]

(***************************************************************************)
(* What ping.go:248 says a Status is for: it tells whether the target      *)
(* streams.  The two answers of one reply would then agree; they need not. *)
(***************************************************************************)
StatusReplyConsistent ==
    \A h \in Handlers :
        pc[h] = "replied" /\ Kind[h] = "status" =>
            Agrees(reply[h], statusMessage[h])
=============================================================================
