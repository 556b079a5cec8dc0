----------------------------- MODULE PingProtocol -----------------------------
(***************************************************************************)
(* The request/response protocol of internal/ping between mobile clients   *)
(* and node runners, and the two ticker loops that drive it.               *)
(*                                                                         *)
(* A request and its response travel on streams of their own: the sender   *)
(* opens one, writes the whole message and closes it, and the receiver     *)
(* handles the message only when it has read to the end.  A write that     *)
(* fails resets the stream and is tried once more on a second one.  So an  *)
(* exchange has up to four streams <<x, dir, try>>:                        *)
(*                                                                         *)
(*   none -> eof      written and closed, on its way                       *)
(*        -> reset    broken; the receiver, if it looks, drops it          *)
(*   eof  -> send     (request) handled, about to send the response        *)
(*        -> done      handler blocked on  done <- true                    *)
(*   send -> retry    the response's first write broke                     *)
(*        -> failed   no response sent: Handle returned an error           *)
(*   done -> closed   somebody received from done: the handler returns     *)
(*                                                                         *)
(* Every handler runs in a goroutine of its own, at any speed.  The        *)
(* channel done of a process is unbuffered, and Go does not say which of   *)
(* several blocked senders a receive takes.                                *)
(***************************************************************************)
EXTENDS Integers

CONSTANTS
    Clients,    \* processes running cmd/mobile_client
    Runners,    \* processes running cmd/node_runner
    Attempted,  \* bound: the client calls that may reach the network, by position
    MaxRound,   \* bound: ticks of each loop
    MaxFaults   \* bound: network operations that fail for no other reason

ASSUME RolesAssumption  == Clients \intersect Runners = {}
ASSUME BoundsAssumption == MaxRound \in Nat /\ MaxFaults \in Nat

VARIABLES
    up,         \* processes that have not panicked
    at,         \* where the ticker goroutine of each process is
    todo,       \* the rest of its snapshot of Network().Peers()
    target,     \* the peer it is visiting
    call,       \* the position of the current call in the visit
    round,      \* ticks so far
    told,       \* what each call returned
    stream,     \* the state of every stream
    completions,\* history: the visits that ended in "exchange completed"
    faults      \* faults so far

loopVars == <<at, todo, target, call, round>>
vars == <<up, loopVars, told, stream, completions, faults>>

Peers == Clients \union Runners

ClientCalls == <<"ping", "status", "info", "start", "status", "stop">>
RunnerCalls == <<"info">>
Calls(p) == IF p \in Clients THEN ClientCalls ELSE RunnerCalls

Exchanges == {x \in [from : Peers, to : Peers, round : 1..MaxRound, call : 1..6] :
                 x.from # x.to /\ x.call \in DOMAIN Calls(x.from)}
Streams == Exchanges \X {"request", "response"} \X {1, 2}

\* The first and the second attempt at sending the messages of exchange x.
Request(x, try)  == <<x, "request", try>>
Response(x, try) == <<x, "response", try>>

Sender(s)   == IF s[2] = "request" THEN s[1].from ELSE s[1].to
Receiver(s) == IF s[2] = "request" THEN s[1].to ELSE s[1].from

\* The receiver's handler has been given the whole message.
Handled(s) == stream[s] \in {"send", "retry", "done", "failed", "closed"}

\* Handlers of process p that sit on  done <- true.
Blocked(p) == {s \in Streams : Receiver(s) = p /\ stream[s] = "done"}

\* The exchange process p is in the middle of.
Current(p) == [from |-> p, to |-> target[p], round |-> round[p], call |-> call[p]]

-----------------------------------------------------------------------------

Init ==
    /\ up = Peers
    /\ at = [p \in Peers |-> "loop"]
    /\ todo = [p \in Peers |-> {}]
    /\ target = [p \in Peers |-> p]
    /\ call = [p \in Peers |-> 1]
    /\ round = [p \in Peers |-> 0]
    /\ told = [x \in Exchanges |-> "nothing"]
    /\ stream = [s \in Streams |-> "none"]
    /\ completions = {}
    /\ faults = 0

\* A network operation fails: because of `why`, or because the network does.
Fault(why) ==
    IF why THEN faults' = faults ELSE faults < MaxFaults /\ faults' = faults + 1

\* Mutant of Admits: a limit on the streams a process has open.
AdmitsOne(p) ==
    ~\E s \in Streams : Receiver(s) = p /\ stream[s] \in {"send", "retry", "done"}

\* Streams are never refused for their number: the resource manager of both
\* programs is built with infinite limits.
Admits(p) == TRUE

(* The ticker loops *)

\* The tick takes a snapshot of the connected peers; with none it only warns.
Tick(p) ==
    /\ p \in up /\ at[p] = "loop" /\ todo[p] = {} /\ round[p] < MaxRound
    /\ round' = [round EXCEPT ![p] = @ + 1]
    /\ \E peers \in SUBSET (Peers \ {p}) : todo' = [todo EXCEPT ![p] = peers]
    /\ UNCHANGED <<up, at, target, call, told, stream, completions, faults>>

Visit(p) ==
    /\ p \in up /\ at[p] = "loop"
    /\ \E q \in todo[p] :
        /\ target' = [target EXCEPT ![p] = q]
        /\ todo' = [todo EXCEPT ![p] = @ \ {q}]
    /\ at' = [at EXCEPT ![p] = "call"]
    /\ call' = [call EXCEPT ![p] = 1]
    /\ UNCHANGED <<up, round, told, stream, completions, faults>>

\* Mutant of Return: one call too many.
ReturnLate(p, result) ==
    /\ told' = [told EXCEPT ![Current(p)] = result]
    /\ IF call[p] \in DOMAIN Calls(p)
       THEN /\ call' = [call EXCEPT ![p] = @ + 1]
            /\ at' = [at EXCEPT ![p] = "call"]
       ELSE /\ at' = [at EXCEPT ![p] = IF p \in Clients THEN "select" ELSE "loop"]
            /\ UNCHANGED call

\* Mutant of Return: a call that returned false is made again.
ReturnAgain(p, result) ==
    /\ told' = [told EXCEPT ![Current(p)] = result]
    /\ IF result = "true" => call[p] + 1 \in DOMAIN Calls(p)
       THEN /\ call' = [call EXCEPT ![p] = IF result = "true" THEN @ + 1 ELSE @]
            /\ at' = [at EXCEPT ![p] = "call"]
       ELSE /\ at' = [at EXCEPT ![p] = IF p \in Clients THEN "select" ELSE "loop"]
            /\ UNCHANGED call

\* A call has returned: the loop ignores its result and makes the next one.
\* After the last, a client selects on done; a runner goes to the next peer.
Return(p, result) ==
    /\ told' = [told EXCEPT ![Current(p)] = result]
    /\ IF call[p] + 1 \in DOMAIN Calls(p)
       THEN /\ call' = [call EXCEPT ![p] = @ + 1]
            /\ at' = [at EXCEPT ![p] = "call"]
       ELSE /\ at' = [at EXCEPT ![p] = IF p \in Clients THEN "select" ELSE "loop"]
            /\ UNCHANGED call

\* A call this instance keeps off the network is one NewStream refuses.
MayCall(p) == p \in Clients => call[p] \in Attempted

CallSent(p) ==
    /\ MayCall(p)
    /\ stream' = [stream EXCEPT ![Request(Current(p), 1)] = "eof"]
    /\ Return(p, "true")
    /\ UNCHANGED faults

CallRefused(p) ==
    /\ Fault(~MayCall(p) \/ target[p] \notin up)
    /\ Return(p, "false")
    /\ UNCHANGED stream

\* Mutant of CallBroken: the first stream is not reset, so Close ends it in EOF.
CallBrokenNoReset(p) ==
    /\ MayCall(p)
    /\ Fault(target[p] \notin up)
    /\ stream' = [stream EXCEPT ![Request(Current(p), 1)] = "eof"]
    /\ at' = [at EXCEPT ![p] = "retry"]
    /\ UNCHANGED <<call, told>>

CallBroken(p) ==
    /\ MayCall(p)
    /\ Fault(target[p] \notin up)
    /\ stream' = [stream EXCEPT ![Request(Current(p), 1)] = "reset"]
    /\ at' = [at EXCEPT ![p] = "retry"]
    /\ UNCHANGED <<call, told>>

\* Mutant of Call: no return after the error of the first NewStream.
CallNilStream(p) ==
    /\ p \in up /\ at[p] = "call"
    /\ \/ (CallSent(p) \/ CallBroken(p)) /\ UNCHANGED up
       \/ CallRefused(p) /\ up' = up \ {p}
    /\ UNCHANGED <<todo, target, round, completions>>

Call(p) ==
    /\ p \in up /\ at[p] = "call"
    /\ CallSent(p) \/ CallRefused(p) \/ CallBroken(p)
    /\ UNCHANGED <<up, todo, target, round, completions>>

RetrySent(p) ==
    /\ stream' = [stream EXCEPT ![Request(Current(p), 2)] = "eof"]
    /\ Return(p, "true")
    /\ UNCHANGED <<up, faults>>

\* Mutant of RetryBroken: the second stream is not reset.
RetryBrokenNoReset(p) ==
    /\ Fault(target[p] \notin up)
    /\ stream' = [stream EXCEPT ![Request(Current(p), 2)] = "eof"]
    /\ Return(p, "false")
    /\ UNCHANGED up

RetryBroken(p) ==
    /\ Fault(target[p] \notin up)
    /\ stream' = [stream EXCEPT ![Request(Current(p), 2)] = "reset"]
    /\ Return(p, "false")
    /\ UNCHANGED up

\* The second NewStream fails, which is logged, and the nil stream is used.
RetryRefused(p) ==
    /\ Fault(target[p] \notin up)
    /\ up' = up \ {p}
    /\ UNCHANGED <<at, call, told, stream>>

Retry(p) ==
    /\ p \in up /\ at[p] = "retry"
    /\ RetrySent(p) \/ RetryBroken(p) \/ RetryRefused(p)
    /\ UNCHANGED <<todo, target, round, completions>>

\* Mutant of Receive: the visit drains the channel, so everybody goes on.
ReceiveAll(p) ==
    /\ p \in up /\ at[p] = "select"
    /\ \E s \in Blocked(p) :
        /\ stream' = [t \in Streams |-> IF t \in Blocked(p) THEN "closed" ELSE stream[t]]
        /\ completions' = completions \union
              {[peer |-> p, target |-> target[p], round |-> round[p], by |-> s]}
    /\ at' = [at EXCEPT ![p] = "loop"]
    /\ UNCHANGED <<up, todo, target, call, round, told, faults>>

\* <-done: any one blocked handler returns and closes its stream.
Receive(p) ==
    /\ p \in up /\ at[p] = "select"
    /\ \E s \in Blocked(p) :
        /\ stream' = [stream EXCEPT ![s] = "closed"]
        /\ completions' = completions \union
              {[peer |-> p, target |-> target[p], round |-> round[p], by |-> s]}
    /\ at' = [at EXCEPT ![p] = "loop"]
    /\ UNCHANGED <<up, todo, target, call, round, told, faults>>

\* Mutant of Timeout: the select has no second case.
TimeoutNever(p) == FALSE /\ UNCHANGED vars /\ p \in up

\* The five seconds pass with nobody on the channel.
Timeout(p) ==
    /\ p \in up /\ at[p] = "select" /\ Blocked(p) = {}
    /\ at' = [at EXCEPT ![p] = "loop"]
    /\ UNCHANGED <<up, todo, target, call, round, told, stream, completions, faults>>

LoopStep(p) == Tick(p) \/ Visit(p) \/ Call(p) \/ Retry(p) \/ Receive(p) \/ Timeout(p)

(* The stream handlers *)

\* Mutant of ReadAll: the error of io.ReadAll is not looked at.
ReadAllUnchecked(s) ==
    /\ Receiver(s) \in up /\ stream[s] \in {"eof", "reset"} /\ Admits(Receiver(s))
    /\ stream' = [stream EXCEPT ![s] = IF s[2] = "request" THEN "send" ELSE "done"]
    /\ UNCHANGED <<up, loopVars, told, completions, faults>>

\* Mutant of ReadAll: a handler signals done before it responds.
ReadAllSignals(s) ==
    /\ Receiver(s) \in up /\ stream[s] = "eof" /\ Admits(Receiver(s))
    /\ stream' = [stream EXCEPT ![s] = "done"]
    /\ UNCHANGED <<up, loopVars, told, completions, faults>>

\* onProtocolRequest and onProtocolResponse: a message is handled at EOF.  A
\* response handler has nothing left but done.
ReadAll(s) ==
    /\ Receiver(s) \in up /\ stream[s] = "eof" /\ Admits(Receiver(s))
    /\ stream' = [stream EXCEPT ![s] = IF s[2] = "request" THEN "send" ELSE "done"]
    /\ UNCHANGED <<up, loopVars, told, completions, faults>>

\* ... and dropped when the stream was reset before that.
ReadFails(s) ==
    /\ Receiver(s) \in up /\ stream[s] = "reset"
    /\ stream' = [stream EXCEPT ![s] = "dropped"]
    /\ UNCHANGED <<up, loopVars, told, completions, faults>>

\* Only the Ping handler goes on to done when its response could not be sent.
Unsent(x) == IF Calls(x.from)[x.call] = "ping" THEN "done" ELSE "failed"

\* The request of x was read from stream s; its handler sends the response.
Respond(s) ==
    LET x == s[1] IN
    /\ s[2] = "request" /\ x.to \in up /\ stream[s] = "send"
    /\ \/ /\ stream' = [stream EXCEPT ![Response(x, 1)] = "eof", ![s] = "done"]
          /\ UNCHANGED faults
       \/ /\ Fault(x.from \notin up)
          /\ stream' = [stream EXCEPT ![s] = Unsent(x)]
       \/ /\ Fault(x.from \notin up)
          /\ stream' = [stream EXCEPT ![Response(x, 1)] = "reset", ![s] = "retry"]
    /\ UNCHANGED <<up, loopVars, told, completions>>

RespondRetry(s) ==
    LET x == s[1] IN
    /\ s[2] = "request" /\ x.to \in up /\ stream[s] = "retry"
    /\ \/ /\ stream' = [stream EXCEPT ![Response(x, 2)] = "eof", ![s] = "done"]
          /\ UNCHANGED <<up, faults>>
       \/ /\ Fault(x.from \notin up)
          /\ stream' = [stream EXCEPT ![Response(x, 2)] = "reset", ![s] = Unsent(x)]
          /\ UNCHANGED up
       \/ /\ Fault(x.from \notin up)
          /\ up' = up \ {x.to}
          /\ UNCHANGED stream
    /\ UNCHANGED <<loopVars, told, completions>>

\* Streams with a message some handler still has to deal with.
Pending == {s \in Streams : stream[s] \in {"eof", "reset", "send", "retry"}}

HandlerStep(s) == ReadAll(s) \/ ReadFails(s) \/ Respond(s) \/ RespondRetry(s)

\* Some handler of process p is scheduled.
Handlers(p) == \E s \in Pending : Receiver(s) = p /\ HandlerStep(s)

\* The connection goes away before the receiver has read to the end.
Lose(s) ==
    /\ stream[s] = "eof"
    /\ Fault(Sender(s) \notin up)
    /\ stream' = [stream EXCEPT ![s] = "reset"]
    /\ UNCHANGED <<up, loopVars, told, completions>>

Next ==
    \/ \E p \in Peers : LoopStep(p) \/ Handlers(p)
    \/ \E s \in Pending : Lose(s)

\* Timers fire, and a process that has runnable handlers runs one of them;
\* nothing obliges a tick's snapshot to hold anyone, nor the network to fail.
Fairness == \A p \in Peers : WF_vars(LoopStep(p)) /\ WF_vars(Handlers(p))

Spec == Init /\ [][Next]_vars
FairSpec == Spec /\ Fairness

-----------------------------------------------------------------------------

(***************************************************************************)
(* Every variable has its type.                                            *)
(***************************************************************************)
TypeOK ==
    /\ up \in SUBSET Peers
    /\ at \in [Peers -> {"loop", "call", "retry", "select"}]
    /\ todo \in [Peers -> SUBSET Peers]
    /\ target \in [Peers -> Peers]
    /\ call \in [Peers -> 1..6]
    /\ round \in [Peers -> 0..MaxRound]
    /\ told \in [Exchanges -> {"nothing", "true", "false"}]
    /\ stream \in [Streams -> {"none", "eof", "reset", "dropped", "send",
                               "retry", "done", "failed", "closed"}]
    /\ completions \subseteq
          [peer : Peers, target : Peers, round : 0..MaxRound, by : Streams]
    /\ faults \in 0..MaxFaults

(***************************************************************************)
(* The retry of sendProtoMessage duplicates nothing: of the two streams of *)
(* a message at most one reaches a handler, since the first was reset and  *)
(* a handler runs at EOF only.  ping.go:305-326, 135-142, 165-172.         *)
(***************************************************************************)
AtMostOnce ==
    \A x \in Exchanges : \A dir \in {"request", "response"} :
        ~(Handled(<<x, dir, 1>>) /\ Handled(<<x, dir, 2>>))

(***************************************************************************)
(* A failure that was reported is final: a call that returned false is     *)
(* never served, and a request handler that returned an error has not had  *)
(* its response handled.  ping.go:293-296, 320-326, startstream.go:47-54.  *)
(***************************************************************************)
FailureIsFinal ==
    \A x \in Exchanges : \A i, j \in {1, 2} :
        /\ told[x] = "false" => ~Handled(Request(x, i))
        /\ stream[Request(x, i)] = "failed" => ~Handled(Response(x, j))

(***************************************************************************)
(* A process goes down only when a write breaks and the second NewStream   *)
(* fails too: no single network operation can take any process down.       *)
(* ping.go:291-296, 305-320.                                               *)
(***************************************************************************)
SingleFaultSurvived == up # Peers => faults >= 2

(***************************************************************************)
(* A handler returns only because a visit of a client received from done,  *)
(* and a visit lets at most one return, although it makes six requests:    *)
(* all others, and every handler of a runner, stay blocked with their      *)
(* streams open.  mobile_client/main.go:530-536, node_runner/main.go:332.  *)
(***************************************************************************)
OneReleasePerVisit ==
    /\ \A s \in Streams : stream[s] = "closed" =>
          \E c \in completions :
              c.by = s /\ c.peer = Receiver(s) /\ c.peer \in Clients
    /\ \A c, d \in completions :
          \/ c.by = d.by
          \/ <<c.peer, c.target, c.round>> = <<d.peer, d.target, d.round>>
          => c = d

(***************************************************************************)
(* The protocol keeps what Exchange promises a caller: never served after  *)
(* a false, never answered before served, no step taken back.              *)
(***************************************************************************)
HandledIn(x, dir) == \E i \in {1, 2} : Handled(<<x, dir, i>>)

Phase(x) ==
    IF HandledIn(x, "response") THEN "answered"
    ELSE IF HandledIn(x, "request") THEN "served"
    ELSE [nothing |-> "idle", true |-> "sent", false |-> "refused"][told[x]]

Promise(x) == INSTANCE Exchange WITH phase <- Phase(x)
KeepsPromise ==
    /\ \A x \in Exchanges : Promise(x)!Init
    /\ [][\A x \in Exchanges : [Promise(x)!Next]_(Phase(x))]_vars

(***************************************************************************)
(* No message is lost without a trace: an exchange whose call returned     *)
(* true is answered, or a message of it is still to be dealt with, or one  *)
(* of its own streams shows that an operation failed: what happens to      *)
(* another exchange does not lose it.  ping.go:120-178, 305-331.           *)
(***************************************************************************)
LastOf(x, dir) == <<x, dir, IF stream[<<x, dir, 2>>] = "none" THEN 1 ELSE 2>>

LossExplained ==
    \A x \in Exchanges : told[x] = "true" =>
        LET request  == stream[LastOf(x, "request")]
            response == stream[LastOf(x, "response")] IN
        \/ HandledIn(x, "response")
        \/ {request, response} \intersect {"eof", "reset", "send", "retry"} # {}
        \/ /\ faults > 0
           /\ \/ request \in {"dropped", "failed"}
              \/ response = "dropped"
              \/ response = "none" /\ Unsent(x) = "done"

(***************************************************************************)
(* No stream is used twice or handled again: it only moves along the       *)
(* diagram above, although calls, retries, handlers, losses and the loop   *)
(* of either side all write it.  ping.go:291-331, 135-178.                 *)
(***************************************************************************)
Moves ==
    ({"none"} \X {"eof", "reset"}) \union
    ({"eof"} \X {"send", "done", "reset"}) \union
    ({"send"} \X {"retry", "done", "failed"}) \union
    ({"retry"} \X {"done", "failed"}) \union
    {<<"reset", "dropped">>, <<"done", "closed">>}

StreamsAdvance ==
    [][\A s \in Streams :
          stream'[s] # stream[s] => <<stream[s], stream'[s]>> \in Moves]_vars

(***************************************************************************)
(* A loop cannot go round in circles: whatever its calls return, each step *)
(* takes it closer to the end of its visit, or of its tick, or begins the  *)
(* next tick when all peers of the last one have been visited, or is the   *)
(* panic of its process.  mobile_client/main.go:498-541,                   *)
(* node_runner/main.go:298-341.                                            *)
(***************************************************************************)
Left(p) ==
    CASE at[p] = "call"   -> 15 - 2 * call[p]
      [] at[p] = "retry"  -> 14 - 2 * call[p]
      [] at[p] = "select" -> 1
      [] at[p] = "loop"   -> 0

TickAdvances ==
    [][\A p \in Peers : LoopStep(p) =>
          \/ p \notin up'
          \/ round'[p] = round[p] + 1 /\ at[p] = "loop" /\ todo[p] = {}
          \/ /\ round'[p] = round[p]
             /\ \/ todo'[p] \subseteq todo[p] /\ todo'[p] # todo[p]
                \/ todo'[p] = todo[p] /\ Left(p)' < Left(p)]_vars

(***************************************************************************)
(* A ticker loop never hangs: whatever it is at, it is back for its next   *)
(* peer or tick, unless its process went down.  No handler that is stuck   *)
(* on done, and no lost response, stops it.  mobile_client/main.go:498-541 *)
(***************************************************************************)
LoopReturns == \A p \in Peers : at[p] # "loop" ~> (at[p] = "loop" \/ p \notin up)

(***************************************************************************)
(* Unless the network fails an operation, every request sent is handled    *)
(* and its response is handled by the caller, however many handlers are    *)
(* stuck on done in both processes.  ping.go:120-178, node_runner/         *)
(* main.go:195.                                                            *)
(***************************************************************************)
RequestAnswered ==
    \A x \in Exchanges : told[x] = "true" ~> (HandledIn(x, "response") \/ faults > 0)

(***************************************************************************)
(* done is there "to stop main from terminating" (ping.go:60): it would    *)
(* not keep a runner's handlers, and their streams, from ending.           *)
(***************************************************************************)
RunnerHandlersReturn ==
    \A s \in Streams :
        Receiver(s) \in Runners /\ stream[s] = "done" ~> stream[s] = "closed"

(***************************************************************************)
(* mobile_client/main.go:532 logs "exchange completed" after a visit: the  *)
(* handler that let it go on would be one of this visit's responses.       *)
(***************************************************************************)
CompletedIsThisVisit ==
    \A c \in completions :
        /\ c.by[2] = "response"
        /\ c.by[1].to = c.target /\ c.by[1].round = c.round

(***************************************************************************)
(* ping.go:312 announces "trying to stream again" and 317-319 handles the  *)
(* error of the second NewStream by logging it: a process would survive.   *)
(***************************************************************************)
NobodyPanics == up = Peers
=============================================================================
