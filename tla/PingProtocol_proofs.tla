------------------------- MODULE PingProtocol_proofs -------------------------
(***************************************************************************)
(* The safety of PingProtocol for any clients, runners, rounds and faults. *)
(***************************************************************************)
EXTENDS PingProtocol, TLAPS

USE RolesAssumption, BoundsAssumption

(* A stream is a triple; its exchange names two peers. *)
LEMMA StreamParts ==
    ASSUME NEW s \in Streams
    PROVE  /\ s = <<s[1], s[2], s[3]>>
           /\ s[1] \in Exchanges /\ s[2] \in {"request", "response"} /\ s[3] \in {1, 2}
           /\ s[1].from \in Peers /\ s[1].to \in Peers
           /\ Receiver(s) \in Peers /\ Sender(s) \in Peers
  BY DEF Streams, Exchanges, Receiver, Sender

LEMMA CallsLength ==
    ASSUME NEW p
    PROVE  DOMAIN Calls(p) = IF p \in Clients THEN 1..6 ELSE 1..1
<1>1. DOMAIN ClientCalls = 1..6
  BY DEF ClientCalls
<1>2. DOMAIN RunnerCalls = 1..1
  BY DEF RunnerCalls
<1> QED  BY <1>1, <1>2 DEF Calls

LEMMA FaultType == ASSUME NEW why, faults \in 0..MaxFaults, Fault(why)
                   PROVE  faults' \in 0..MaxFaults
  BY DEF Fault

LEMMA InitType == Init => TypeOK
  BY DEF Init, TypeOK, Peers

(* What Return leaves well typed. *)
LEMMA ReturnType ==
    ASSUME TypeOK, NEW p \in Peers, NEW result \in {"true", "false"}, Return(p, result)
    PROVE  /\ told' \in [Exchanges -> {"nothing", "true", "false"}]
           /\ at' \in [Peers -> {"loop", "call", "retry", "select"}]
           /\ call' \in [Peers -> 1..6]
<1>1. call[p] + 1 \in DOMAIN Calls(p) => call[p] + 1 \in 1..6
  BY CallsLength
<1>2. CASE call[p] + 1 \in DOMAIN Calls(p)
  <2>1. /\ told' = [told EXCEPT ![Current(p)] = result]
        /\ call' = [call EXCEPT ![p] = call[p] + 1]
        /\ at' = [at EXCEPT ![p] = "call"]
    BY <1>2 DEF Return
  <2> QED  BY <1>1, <1>2, <2>1 DEF TypeOK
<1>3. CASE call[p] + 1 \notin DOMAIN Calls(p)
  BY <1>3 DEF Return, TypeOK
<1> QED  BY <1>2, <1>3

(* Types are preserved by every step of the loops, the handlers and the network. *)
LEMMA TypeStep == TypeOK /\ [Next]_vars => TypeOK'
<1> SUFFICES ASSUME TypeOK, [Next]_vars PROVE TypeOK'
  OBVIOUS
<1>1. ASSUME NEW p \in Peers, Tick(p) PROVE TypeOK'
  BY <1>1 DEF Tick, TypeOK
<1>2. ASSUME NEW p \in Peers, Visit(p) PROVE TypeOK'
  BY <1>2 DEF Visit, TypeOK
<1>3. ASSUME NEW p \in Peers, Call(p) PROVE TypeOK'
  <2>1. CASE CallSent(p)
    BY <1>3, <2>1, ReturnType DEF Call, CallSent, TypeOK
  <2>2. CASE CallRefused(p)
    BY <1>3, <2>2, ReturnType, FaultType DEF Call, CallRefused, TypeOK
  <2>3. CASE CallBroken(p)
    BY <1>3, <2>3, FaultType DEF Call, CallBroken, TypeOK
  <2> QED  BY <1>3, <2>1, <2>2, <2>3 DEF Call
<1>4. ASSUME NEW p \in Peers, Retry(p) PROVE TypeOK'
  <2>1. CASE RetrySent(p)
    BY <1>4, <2>1, ReturnType DEF Retry, RetrySent, TypeOK
  <2>2. CASE RetryBroken(p)
    BY <1>4, <2>2, ReturnType, FaultType DEF Retry, RetryBroken, TypeOK
  <2>3. CASE RetryRefused(p)
    BY <1>4, <2>3, FaultType DEF Retry, RetryRefused, TypeOK
  <2> QED  BY <1>4, <2>1, <2>2, <2>3 DEF Retry
<1>5. ASSUME NEW p \in Peers, Receive(p) PROVE TypeOK'
  BY <1>5 DEF Receive, Blocked, TypeOK
<1>6. ASSUME NEW p \in Peers, Timeout(p) PROVE TypeOK'
  BY <1>6 DEF Timeout, TypeOK
<1>7. ASSUME NEW s \in Streams, ReadAll(s) PROVE TypeOK'
  BY <1>7 DEF ReadAll, loopVars, TypeOK
<1>8. ASSUME NEW s \in Streams, ReadFails(s) PROVE TypeOK'
  BY <1>8 DEF ReadFails, loopVars, TypeOK
<1>9. ASSUME NEW s \in Streams, Respond(s) PROVE TypeOK'
  <2>1. faults' \in 0..MaxFaults
    BY <1>9, FaultType DEF Respond, TypeOK
  <2> QED  BY <1>9, <2>1 DEF Respond, Unsent, loopVars, TypeOK
<1>10. ASSUME NEW s \in Streams, RespondRetry(s) PROVE TypeOK'
  <2>1. faults' \in 0..MaxFaults
    BY <1>10, FaultType DEF RespondRetry, TypeOK
  <2> QED  BY <1>10, <2>1 DEF RespondRetry, Unsent, loopVars, TypeOK
<1>11. ASSUME NEW s \in Streams, Lose(s) PROVE TypeOK'
  BY <1>11, FaultType DEF Lose, loopVars, TypeOK
<1>12. CASE UNCHANGED vars
  BY <1>12 DEF vars, loopVars, TypeOK
<1> QED
  BY <1>1, <1>2, <1>3, <1>4, <1>5, <1>6, <1>7, <1>8, <1>9, <1>10, <1>11, <1>12
     DEF Next, LoopStep, Handlers, HandlerStep, Pending

(* TypeOK holds in every reachable state, for all clients, runners and bounds. *)
THEOREM TypeCorrect == Spec => []TypeOK
  BY InitType, TypeStep, PTL DEF Spec

-----------------------------------------------------------------------------

(* A loop in a visit is visiting another peer, one it has taken off its       *)
(* snapshot, in a tick that has begun.                                        *)
LoopOK ==
    \A p \in Peers :
        /\ p \notin todo[p]
        /\ todo[p] # {} \/ at[p] # "loop" => round[p] >= 1
        /\ at[p] # "loop" => /\ target[p] # p /\ target[p] \notin todo[p]
                             /\ call[p] \in DOMAIN Calls(p)
        /\ at[p] = "select" => p \in Clients

(* The loop of x.from has still to begin the call of exchange x. *)
Ahead(x) ==
    \/ x.round > round[x.from]
    \/ /\ x.round = round[x.from]
       /\ \/ x.to \in todo[x.from]
          \/ /\ x.to = target[x.from]
             /\ \/ at[x.from] = "call" /\ x.call >= call[x.from]
                \/ at[x.from] = "retry" /\ x.call > call[x.from]

Untouched(x) ==
    told[x] = "nothing" /\ \A s \in Streams : s[1] = x => stream[s] = "none"

AheadUntouched == \A x \in Exchanges : Ahead(x) => Untouched(x)

(* The states of a stream nobody will ever handle. *)
Void == {"none", "reset", "dropped"}

(* The second attempt is made after the first was reset, never twice.         *)
OneAttempt ==
    \A x \in Exchanges :
        /\ stream[Request(x, 2)] # "none" => stream[Request(x, 1)] \in {"reset", "dropped"}
        /\ stream[Response(x, 2)] # "none" => stream[Response(x, 1)] \in {"reset", "dropped"}

(* A loop in a retry has one broken stream and has not been told yet; only a  *)
(* call that returned true has a request that can be handled.                 *)
RequestsTold ==
    /\ \A p \in Peers : at[p] = "retry" =>
          /\ told[Current(p)] = "nothing"
          /\ stream[Request(Current(p), 1)] \in {"reset", "dropped"}
          /\ stream[Request(Current(p), 2)] = "none"
    /\ \A x \in Exchanges : \A i \in {1, 2} :
          stream[Request(x, i)] \notin Void => told[x] = "true"

(* What a request's handler has sent: nothing before it responds, a broken    *)
(* stream in its retry, and nothing that can be handled if it failed.         *)
Follows(x) ==
    /\ \A i \in {1, 2} :
          /\ stream[Response(x, i)] \notin {"send", "retry", "failed"}
          /\ stream[Request(x, i)] = "send" =>
                stream[Response(x, 1)] = "none" /\ stream[Response(x, 2)] = "none"
          /\ stream[Request(x, i)] = "retry" =>
                stream[Response(x, 1)] \in {"reset", "dropped"} /\ stream[Response(x, 2)] = "none"
          /\ stream[Request(x, i)] = "failed" =>
                stream[Response(x, 1)] \in Void /\ stream[Response(x, 2)] \in Void
    /\ ~HandledIn(x, "request") =>
          stream[Response(x, 1)] = "none" /\ stream[Response(x, 2)] = "none"

ResponseFollows == \A x \in Exchanges : Follows(x)

(* A sender in its retry has met one fault, a process that is down met two.   *)
FaultsCounted ==
    /\ up # Peers => faults >= 2
    /\ \A p \in Peers : at[p] = "retry" => faults >= 1
    /\ \A s \in Streams : stream[s] = "retry" => faults >= 1

(* The handlers that returned are those a completion names, and the visits of *)
(* the completions are over.                                                  *)
Released ==
    /\ \A s \in Streams : stream[s] = "closed" =>
          \E c \in completions : c.by = s
    /\ \A c \in completions :
          /\ stream[c.by] = "closed" /\ c.peer = Receiver(c.by) /\ c.peer \in Clients
          /\ c.round <= round[c.peer]
          /\ c.round = round[c.peer] =>
                /\ c.target \notin todo[c.peer]
                /\ at[c.peer] # "loop" => c.target # target[c.peer]
    /\ \A c, d \in completions :
          c.by = d.by \/ <<c.peer, c.target, c.round>> = <<d.peer, d.target, d.round>> => c = d

IInv == /\ TypeOK /\ LoopOK /\ AheadUntouched /\ OneAttempt /\ RequestsTold
        /\ ResponseFollows /\ FaultsCounted /\ Released

-----------------------------------------------------------------------------

(* Handlers and the network leave the loops alone. *)
LEMMA HandlersLeaveLoops ==
    ASSUME NEW s, HandlerStep(s) \/ Lose(s)
    PROVE  loopVars' = loopVars /\ told' = told /\ completions' = completions
  BY DEF HandlerStep, ReadAll, ReadFails, Respond, RespondRetry, Lose

(* A call that returns leaves its loop at the next call, or past the visit.   *)
LEMMA ReturnMoves ==
    ASSUME TypeOK, NEW p \in Peers, NEW result, Return(p, result)
    PROVE  /\ \A q \in Peers : q # p => at'[q] = at[q] /\ call'[q] = call[q]
           /\ told' = [told EXCEPT ![Current(p)] = result]
           /\ \/ /\ at'[p] = "call" /\ call'[p] = call[p] + 1
                 /\ call'[p] \in DOMAIN Calls(p)
              \/ at'[p] = "select" /\ p \in Clients /\ call'[p] = call[p]
              \/ at'[p] = "loop" /\ call'[p] = call[p]
<1>1. CASE call[p] + 1 \in DOMAIN Calls(p)
  BY <1>1 DEF Return, TypeOK
<1>2. CASE call[p] + 1 \notin DOMAIN Calls(p)
  BY <1>2 DEF Return, TypeOK
<1> QED  BY <1>1, <1>2

(* What a call or a retry can do: return, or go into the retry, or panic.     *)
LEMMA CallMoves ==
    ASSUME TypeOK, NEW p \in Peers, Call(p) \/ Retry(p)
    PROVE  /\ at[p] \in {"call", "retry"}
           /\ todo' = todo /\ target' = target /\ round' = round /\ completions' = completions
           /\ \/ \E result \in {"true", "false"} : Return(p, result)
              \/ at[p] = "call" /\ CallBroken(p)
              \/ at[p] = "retry" /\ RetryRefused(p)
  BY DEF Call, Retry, CallSent, CallRefused, RetrySent, RetryBroken

LEMMA LoopOKStep == TypeOK /\ LoopOK /\ [Next]_vars => LoopOK'
<1> SUFFICES ASSUME TypeOK, LoopOK, [Next]_vars PROVE LoopOK'
  OBVIOUS
<1>1. ASSUME NEW p \in Peers, Tick(p) PROVE LoopOK'
  BY <1>1 DEF Tick, TypeOK, LoopOK
<1>2. ASSUME NEW p \in Peers, Visit(p) PROVE LoopOK'
  BY <1>2, CallsLength DEF Visit, TypeOK, LoopOK
<1>3. ASSUME NEW p \in Peers, Timeout(p) PROVE LoopOK'
  BY <1>3 DEF Timeout, TypeOK, LoopOK
<1>4. ASSUME NEW p \in Peers, Call(p) \/ Retry(p) PROVE LoopOK'
  <2>1. /\ at[p] \in {"call", "retry"}
        /\ todo' = todo /\ target' = target /\ round' = round
    BY <1>4, CallMoves
  <2>2. ASSUME NEW result \in {"true", "false"}, Return(p, result) PROVE LoopOK'
    BY <2>1, <2>2, ReturnMoves DEF TypeOK, LoopOK
  <2>3. CASE CallBroken(p)
    BY <2>1, <2>3 DEF CallBroken, TypeOK, LoopOK
  <2>4. CASE RetryRefused(p)
    BY <2>1, <2>4 DEF RetryRefused, TypeOK, LoopOK
  <2> QED  BY <1>4, <2>2, <2>3, <2>4, CallMoves
<1>5. ASSUME NEW p \in Peers, Receive(p) PROVE LoopOK'
  BY <1>5 DEF Receive, TypeOK, LoopOK
<1>6. ASSUME NEW s \in Streams, HandlerStep(s) \/ Lose(s) PROVE LoopOK'
  BY <1>6, HandlersLeaveLoops DEF loopVars, LoopOK
<1>7. CASE UNCHANGED vars
  BY <1>7 DEF vars, loopVars, LoopOK
<1> QED  BY <1>1, <1>2, <1>3, <1>4, <1>5, <1>6, <1>7 DEF Next, LoopStep, Handlers, Pending

-----------------------------------------------------------------------------

(* The exchange a call is about is one of the system's, and a new one. *)
LEMMA CurrentExchange ==
    ASSUME TypeOK, LoopOK, NEW p \in Peers, at[p] \in {"call", "retry"}
    PROVE  /\ Current(p) \in Exchanges /\ Current(p).from = p /\ Current(p).to = target[p]
           /\ Current(p).round = round[p] /\ Current(p).call = call[p]
           /\ at[p] = "call" => Ahead(Current(p))
<1>1. /\ target[p] # p /\ round[p] \in 1..MaxRound /\ call[p] \in 1..6
      /\ call[p] \in DOMAIN Calls(p) /\ target[p] \in Peers
  BY DEF TypeOK, LoopOK
<1> QED  BY <1>1 DEF Current, Exchanges, Ahead

(* A call or a retry touches the streams of its own exchange only. *)
LEMMA CallFrame ==
    ASSUME TypeOK, NEW p \in Peers, Call(p) \/ Retry(p)
    PROVE  /\ \A x \in Exchanges : x # Current(p) => told'[x] = told[x]
           /\ \A s \in Streams : s[1] # Current(p) => stream'[s] = stream[s]
<1>1. told' = told \/ \E result : told' = [told EXCEPT ![Current(p)] = result]
  BY DEF Call, Retry, CallSent, CallRefused, CallBroken, RetrySent, RetryBroken, RetryRefused, Return
<1>2. \/ stream' = stream
      \/ \E i, v : stream' = [stream EXCEPT ![Request(Current(p), i)] = v]
  BY DEF Call, Retry, CallSent, CallRefused, CallBroken, RetrySent, RetryBroken, RetryRefused
<1>3. \A i : Request(Current(p), i)[1] = Current(p)
  BY DEF Request
<1> QED  BY <1>1, <1>2, <1>3 DEF TypeOK

(* A handler or a loss touches the streams of one exchange, which was begun.  *)
LEMMA HandlerFrame ==
    ASSUME TypeOK, NEW s \in Streams, HandlerStep(s) \/ Lose(s)
    PROVE  /\ stream[s] # "none"
           /\ \A t \in Streams : t[1] # s[1] => stream'[t] = stream[t]
<1>1. stream[s] \in {"eof", "reset", "send", "retry"}
  BY DEF HandlerStep, ReadAll, ReadFails, Respond, RespondRetry, Lose
<1>2. CASE ReadAll(s) \/ ReadFails(s) \/ Lose(s)
  BY <1>1, <1>2 DEF ReadAll, ReadFails, Lose, TypeOK
<1>3. CASE Respond(s) \/ RespondRetry(s)
  <2>1. \/ stream' = stream
        \/ \E v : stream' = [stream EXCEPT ![s] = v]
        \/ \E i, v, w : stream' = [stream EXCEPT ![Response(s[1], i)] = v, ![s] = w]
    BY <1>3 DEF Respond, RespondRetry
  <2>2. \A i : Response(s[1], i)[1] = s[1]
    BY DEF Response
  <2> QED  BY <1>1, <2>1, <2>2 DEF TypeOK
<1> QED  BY <1>2, <1>3 DEF HandlerStep

(* The exchanges ahead only get fewer, and nobody touches one that stays.     *)
LEMMA AheadStep == TypeOK /\ LoopOK /\ AheadUntouched /\ [Next]_vars => AheadUntouched'
<1> SUFFICES ASSUME TypeOK, LoopOK, AheadUntouched, [Next]_vars,
                    NEW x \in Exchanges, Ahead(x)'
             PROVE  Untouched(x)'
  BY DEF AheadUntouched
<1>a. x.from \in Peers /\ x.to \in Peers /\ x.round \in Nat /\ x.call \in Nat
  BY DEF Exchanges
<1>b. \A p \in Peers : round[p] \in Nat /\ call[p] \in Nat
  BY DEF TypeOK
<1>1. ASSUME NEW p \in Peers, Tick(p) PROVE Untouched(x)'
  <2>1. Ahead(x)
    BY <1>1, <1>a, <1>b DEF Tick, TypeOK, LoopOK, Ahead
  <2> QED  BY <1>1, <2>1 DEF Tick, AheadUntouched, Untouched
<1>2. ASSUME NEW p \in Peers, Visit(p) PROVE Untouched(x)'
  <2>1. Ahead(x)
    BY <1>2, <1>a, <1>b DEF Visit, TypeOK, LoopOK, Ahead
  <2> QED  BY <1>2, <2>1 DEF Visit, AheadUntouched, Untouched
<1>3. ASSUME NEW p \in Peers, Timeout(p) PROVE Untouched(x)'
  <2>1. Ahead(x)
    BY <1>3, <1>a, <1>b DEF Timeout, TypeOK, LoopOK, Ahead
  <2> QED  BY <1>3, <2>1 DEF Timeout, AheadUntouched, Untouched
<1>4. ASSUME NEW p \in Peers, Call(p) \/ Retry(p) PROVE Untouched(x)'
  <2>1. /\ at[p] \in {"call", "retry"} /\ todo' = todo /\ target' = target /\ round' = round
    BY <1>4, CallMoves
  <2>2. Current(p).from = p /\ Current(p).to = target[p] /\ Current(p).round = round[p]
        /\ Current(p).call = call[p] /\ target[p] \notin todo[p]
    BY <2>1, CurrentExchange DEF LoopOK
  <2>3. Ahead(x) /\ x # Current(p)
    <3>1. ASSUME NEW result \in {"true", "false"}, Return(p, result)
          PROVE  Ahead(x) /\ x # Current(p)
      <4>1. \A q \in Peers : q # p => at'[q] = at[q] /\ call'[q] = call[q]
        BY <3>1, ReturnMoves
      <4>2. \/ at'[p] = "call" /\ call'[p] = call[p] + 1
            \/ at'[p] \in {"select", "loop"}
        BY <3>1, ReturnMoves
      <4> QED  BY <1>a, <1>b, <2>1, <2>2, <4>1, <4>2 DEF Ahead
    <3>2. CASE at[p] = "call" /\ CallBroken(p)
      BY <1>a, <1>b, <2>1, <2>2, <3>2 DEF CallBroken, Ahead, TypeOK
    <3>3. CASE at[p] = "retry" /\ RetryRefused(p)
      BY <1>a, <1>b, <2>1, <2>2, <3>3 DEF RetryRefused, Ahead
    <3> QED  BY <1>4, <3>1, <3>2, <3>3, CallMoves
  <2> QED  BY <1>4, <2>3, CallFrame DEF AheadUntouched, Untouched
<1>5. ASSUME NEW p \in Peers, Receive(p) PROVE Untouched(x)'
  <2>1. Ahead(x)
    BY <1>5, <1>a, <1>b DEF Receive, TypeOK, LoopOK, Ahead
  <2>2. told' = told /\ \A s \in Streams : stream[s] = "none" => stream'[s] = "none"
    BY <1>5 DEF Receive, Blocked, TypeOK
  <2> QED  BY <2>1, <2>2 DEF AheadUntouched, Untouched
<1>6. ASSUME NEW s \in Streams, HandlerStep(s) \/ Lose(s) PROVE Untouched(x)'
  <2>1. Ahead(x) /\ told' = told
    BY <1>6, HandlersLeaveLoops DEF loopVars, Ahead
  <2>2. s[1] # x
    BY <1>6, <2>1, HandlerFrame DEF AheadUntouched, Untouched
  <2> QED  BY <1>6, <2>1, <2>2, HandlerFrame DEF AheadUntouched, Untouched
<1>7. CASE UNCHANGED vars
  BY <1>7 DEF vars, loopVars, AheadUntouched, Ahead, Untouched
<1> QED  BY <1>1, <1>2, <1>3, <1>4, <1>5, <1>6, <1>7 DEF Next, LoopStep, Handlers, Pending

-----------------------------------------------------------------------------

(* The four streams of an exchange are distinct, and are all it has. *)
LEMMA FourStreams ==
    ASSUME NEW x \in Exchanges
    PROVE  /\ \A i \in {1, 2} : Request(x, i) \in Streams /\ Response(x, i) \in Streams
           /\ \A i \in {1, 2} : Request(x, i)[1] = x /\ Response(x, i)[1] = x
           /\ \A i, j \in {1, 2} : Request(x, i) # Response(x, j)
           /\ Request(x, 1) # Request(x, 2) /\ Response(x, 1) # Response(x, 2)
  BY DEF Request, Response, Streams

LEMMA StreamIsOne ==
    ASSUME NEW s \in Streams
    PROVE  /\ s[1] \in Exchanges
           /\ s[2] = "request" => s = Request(s[1], s[3])
           /\ s[2] # "request" => s = Response(s[1], s[3])
           /\ s[3] \in {1, 2}
  BY StreamParts DEF Request, Response

(* What a call or a retry does to its exchange. *)
LEMMA CallEffect ==
    ASSUME TypeOK, LoopOK, NEW p \in Peers, Call(p) \/ Retry(p),
           NEW x, x = Current(p)
    PROVE  /\ \A i \in {1, 2} : stream'[Response(x, i)] = stream[Response(x, i)]
           /\ \/ /\ at[p] = "call" /\ stream'[Request(x, 2)] = stream[Request(x, 2)]
                 /\ \/ /\ stream'[Request(x, 1)] = "eof"
                       /\ told'[x] = "true" /\ at'[p] # "retry"
                    \/ /\ stream'[Request(x, 1)] = stream[Request(x, 1)]
                       /\ told'[x] = "false" /\ at'[p] # "retry"
                    \/ /\ stream'[Request(x, 1)] = "reset"
                       /\ told'[x] = told[x] /\ at'[p] = "retry"
              \/ /\ at[p] = "retry" /\ stream'[Request(x, 1)] = stream[Request(x, 1)]
                 /\ \/ /\ stream'[Request(x, 2)] = "eof"
                       /\ told'[x] = "true" /\ at'[p] # "retry"
                    \/ /\ stream'[Request(x, 2)] = "reset"
                       /\ told'[x] = "false" /\ at'[p] # "retry"
                    \/ /\ stream'[Request(x, 2)] = stream[Request(x, 2)]
                       /\ told'[x] = told[x] /\ at'[p] = "retry"
           /\ \A q \in Peers : q # p => at'[q] = at[q]
<1>1. at[p] \in {"call", "retry"}
  BY CallMoves
<1>2. x \in Exchanges
  BY <1>1, CurrentExchange
<1>3. ASSUME NEW result, Return(p, result)
      PROVE  /\ told'[x] = result /\ at'[p] # "retry"
             /\ \A q \in Peers : q # p => at'[q] = at[q]
  BY <1>2, <1>3, ReturnMoves DEF TypeOK
<1>4. CASE Call(p)
  <2>1. at[p] = "call"
    BY <1>4 DEF Call
  <2>2. CASE CallSent(p)
    BY <1>2, <1>3, <2>1, <2>2, FourStreams DEF CallSent, TypeOK
  <2>3. CASE CallRefused(p)
    BY <1>2, <1>3, <2>1, <2>3 DEF CallRefused, TypeOK
  <2>4. CASE CallBroken(p)
    BY <1>2, <2>1, <2>4, FourStreams DEF CallBroken, TypeOK
  <2> QED  BY <1>4, <2>2, <2>3, <2>4 DEF Call
<1>5. CASE Retry(p)
  <2>1. at[p] = "retry"
    BY <1>5 DEF Retry
  <2>2. CASE RetrySent(p)
    BY <1>2, <1>3, <2>1, <2>2, FourStreams DEF RetrySent, TypeOK
  <2>3. CASE RetryBroken(p)
    BY <1>2, <1>3, <2>1, <2>3, FourStreams DEF RetryBroken, TypeOK
  <2>4. CASE RetryRefused(p)
    BY <1>2, <2>1, <2>4 DEF RetryRefused, TypeOK
  <2> QED  BY <1>5, <2>2, <2>3, <2>4 DEF Retry
<1> QED  BY <1>4, <1>5

(* What a handler or a loss does to a request, and to its responses. *)
LEMMA RequestEffect ==
    ASSUME TypeOK, NEW x \in Exchanges, NEW i \in {1, 2}, NEW s, s = Request(x, i),
           HandlerStep(s) \/ Lose(s)
    PROVE  /\ \A t \in Streams : t # s /\ t # Response(x, 1) /\ t # Response(x, 2)
                  => stream'[t] = stream[t]
           /\ \/ /\ stream'[Response(x, 1)] = stream[Response(x, 1)]
                 /\ stream'[Response(x, 2)] = stream[Response(x, 2)]
                 /\ \/ stream[s] = "eof" /\ stream'[s] \in {"send", "reset"}
                    \/ stream[s] = "reset" /\ stream'[s] = "dropped"
                    \/ stream[s] = "send" /\ stream'[s] \in {"done", "failed"}
                    \/ stream[s] = "retry" /\ stream'[s] = "retry"
              \/ /\ stream[s] = "send" /\ stream'[Response(x, 2)] = stream[Response(x, 2)]
                 /\ \/ stream'[s] = "done" /\ stream'[Response(x, 1)] = "eof"
                    \/ stream'[s] = "retry" /\ stream'[Response(x, 1)] = "reset"
              \/ /\ stream[s] = "retry" /\ stream'[Response(x, 1)] = stream[Response(x, 1)]
                 /\ \/ stream'[s] = "done" /\ stream'[Response(x, 2)] = "eof"
                    \/ stream'[s] \in {"done", "failed"} /\ stream'[Response(x, 2)] = "reset"
<1>1. s \in Streams /\ s[1] = x /\ s[2] = "request"
      /\ s # Response(x, 1) /\ s # Response(x, 2) /\ Response(x, 1) # Response(x, 2)
      /\ Response(x, 1) \in Streams /\ Response(x, 2) \in Streams
  BY FourStreams DEF Request
<1>2. Unsent(x) \in {"done", "failed"}
  BY DEF Unsent
<1>3. CASE ReadAll(s) \/ ReadFails(s) \/ Lose(s)
  BY <1>1, <1>3 DEF ReadAll, ReadFails, Lose, TypeOK
<1>4. CASE Respond(s)
  BY <1>1, <1>2, <1>4 DEF Respond, TypeOK
<1>5. CASE RespondRetry(s)
  BY <1>1, <1>2, <1>5 DEF RespondRetry, TypeOK
<1> QED  BY <1>3, <1>4, <1>5 DEF HandlerStep

(* ... and to a response. *)
LEMMA ResponseEffect ==
    ASSUME TypeOK, NEW x \in Exchanges, NEW i \in {1, 2}, NEW s, s = Response(x, i),
           HandlerStep(s) \/ Lose(s)
    PROVE  /\ \A t \in Streams : t # s => stream'[t] = stream[t]
           /\ \/ stream[s] = "eof" /\ stream'[s] \in {"done", "reset"}
              \/ stream[s] = "reset" /\ stream'[s] = "dropped"
<1>1. s \in Streams /\ s[1] = x /\ s[2] = "response"
  BY FourStreams DEF Response
<1> QED  BY <1>1 DEF HandlerStep, ReadAll, ReadFails, Respond, RespondRetry, Lose, TypeOK

(* A release closes a handler that was blocked, and touches nothing else. *)
LEMMA ReceiveEffect ==
    ASSUME TypeOK, NEW p \in Peers, Receive(p)
    PROVE  /\ told' = told /\ faults' = faults /\ up' = up
           /\ at'[p] = "loop" /\ \A q \in Peers : q # p => at'[q] = at[q]
           /\ \E s \in Streams :
                  /\ stream[s] = "done" /\ stream'[s] = "closed" /\ Receiver(s) = p
                  /\ \A t \in Streams : t # s => stream'[t] = stream[t]
                  /\ completions' = completions \union
                       {[peer |-> p, target |-> target[p], round |-> round[p], by |-> s]}
  BY DEF Receive, Blocked, TypeOK

-----------------------------------------------------------------------------

(* The loops' other steps leave every stream and every answer as they are.    *)
LEMMA QuietSteps ==
    ASSUME NEW p \in Peers, TypeOK, Tick(p) \/ Visit(p) \/ Timeout(p)
    PROVE  /\ stream' = stream /\ told' = told /\ up' = up /\ faults' = faults
           /\ completions' = completions
           /\ at[p] # "retry" /\ at'[p] # "retry"
           /\ \A q \in Peers : q # p =>
                 at'[q] = at[q] /\ target'[q] = target[q] /\ round'[q] = round[q] /\ call'[q] = call[q]
  BY DEF Tick, Visit, Timeout, TypeOK

(* The second stream of a message follows a first one that was reset. *)
LEMMA OneAttemptStep ==
    /\ TypeOK /\ LoopOK /\ AheadUntouched /\ OneAttempt /\ RequestsTold /\ ResponseFollows
    /\ [Next]_vars
    => OneAttempt'
<1> SUFFICES ASSUME TypeOK, LoopOK, AheadUntouched, OneAttempt, RequestsTold, ResponseFollows,
                    [Next]_vars, NEW x \in Exchanges
             PROVE  /\ stream'[Request(x, 2)] # "none" =>
                           stream'[Request(x, 1)] \in {"reset", "dropped"}
                    /\ stream'[Response(x, 2)] # "none" =>
                           stream'[Response(x, 1)] \in {"reset", "dropped"}
  BY DEF OneAttempt, Request, Response
<1> DEFINE Goal == /\ stream'[Request(x, 2)] # "none" =>
                           stream'[Request(x, 1)] \in {"reset", "dropped"}
                   /\ stream'[Response(x, 2)] # "none" =>
                           stream'[Response(x, 1)] \in {"reset", "dropped"}
<1>a. /\ stream[Request(x, 2)] # "none" => stream[Request(x, 1)] \in {"reset", "dropped"}
      /\ stream[Response(x, 2)] # "none" => stream[Response(x, 1)] \in {"reset", "dropped"}
  BY DEF OneAttempt
<1>1. ASSUME NEW p \in Peers, Tick(p) \/ Visit(p) \/ Timeout(p) PROVE Goal
  BY <1>a, <1>1, QuietSteps
<1>2. ASSUME NEW p \in Peers, Call(p) \/ Retry(p) PROVE Goal
  <2>1. CASE x # Current(p)
    BY <1>a, <1>2, <2>1, CallFrame, FourStreams
  <2>2. CASE x = Current(p)
    <3>1. at[p] = "call" => stream[Request(x, 2)] = "none"
      BY <2>2, CurrentExchange, FourStreams DEF AheadUntouched, Untouched
    <3>2. at[p] = "retry" => stream[Request(x, 1)] \in {"reset", "dropped"}
      BY <2>2 DEF RequestsTold
    <3> QED  BY <1>a, <1>2, <2>2, <3>1, <3>2, CallEffect
  <2> QED  BY <2>1, <2>2
<1>3. ASSUME NEW p \in Peers, Receive(p) PROVE Goal
  BY <1>a, <1>3, ReceiveEffect, FourStreams
<1>4. ASSUME NEW s \in Streams, HandlerStep(s) \/ Lose(s) PROVE Goal
  <2>1. CASE s[1] # x
    BY <1>a, <1>4, <2>1, HandlerFrame, FourStreams
  <2>2. CASE s[1] = x /\ s[2] = "request"
    <3>1. PICK i \in {1, 2} : s = Request(x, i)
      BY <2>2, StreamIsOne
    <3>2. stream[s] = "send" => stream[Response(x, 1)] = "none" /\ stream[Response(x, 2)] = "none"
      BY <3>1 DEF ResponseFollows, Follows
    <3>3. stream[s] = "retry" => stream[Response(x, 1)] \in {"reset", "dropped"}
      BY <3>1 DEF ResponseFollows, Follows
    <3>4. /\ stream[Request(x, 3 - i)] = stream'[Request(x, 3 - i)]
          /\ stream[s] = "reset" => stream'[s] = "dropped"
          /\ stream[s] \notin {"none", "dropped"}
      BY <1>4, <3>1, RequestEffect, FourStreams
    <3>5. /\ stream'[Request(x, 2)] # "none" =>
                 stream'[Request(x, 1)] \in {"reset", "dropped"}
      BY <1>a, <3>1, <3>4
    <3> QED  BY <1>4, <1>a, <3>1, <3>2, <3>3, <3>5, RequestEffect
  <2>3. CASE s[1] = x /\ s[2] # "request"
    <3>1. PICK i \in {1, 2} : s = Response(x, i)
      BY <2>3, StreamIsOne
    <3> QED  BY <1>4, <1>a, <3>1, ResponseEffect, FourStreams
  <2> QED  BY <2>1, <2>2, <2>3
<1>5. CASE UNCHANGED vars
  BY <1>a, <1>5 DEF vars
<1> QED  BY <1>1, <1>2, <1>3, <1>4, <1>5 DEF Next, LoopStep, Handlers, Pending

(* A request that can be handled is one whose call returned true. *)
LEMMA RequestsToldStep ==
    /\ TypeOK /\ LoopOK /\ AheadUntouched /\ OneAttempt /\ RequestsTold /\ ResponseFollows
    /\ [Next]_vars
    => RequestsTold'
<1> SUFFICES ASSUME TypeOK, LoopOK, AheadUntouched, OneAttempt, RequestsTold, ResponseFollows,
                    [Next]_vars
             PROVE  RequestsTold'
  OBVIOUS
<1>1. ASSUME NEW p \in Peers, at'[p] = "retry"
      PROVE  /\ told'[Current(p)'] = "nothing"
             /\ stream'[Request(Current(p)', 1)] \in {"reset", "dropped"}
             /\ stream'[Request(Current(p)', 2)] = "none"
  <2> DEFINE x == Current(p)
             Broken == /\ told'[x] = "nothing"
                       /\ stream'[Request(x, 1)] \in {"reset", "dropped"}
                       /\ stream'[Request(x, 2)] = "none"
             Still  == target'[p] = target[p] /\ round'[p] = round[p] /\ call'[p] = call[p]
  <2>1. SUFFICES Still /\ Broken
    BY DEF Current
  <2>2. ASSUME at[p] = "retry"
        PROVE  /\ x \in Exchanges /\ x.from = p
               /\ told[x] = "nothing" /\ stream[Request(x, 1)] \in {"reset", "dropped"}
               /\ stream[Request(x, 2)] = "none"
    BY <2>2, CurrentExchange DEF RequestsTold
  <2>3. ASSUME NEW q \in Peers, Tick(q) \/ Visit(q) \/ Timeout(q) PROVE Still /\ Broken
    <3>1. q # p
      BY <1>1, <2>3, QuietSteps
    <3> QED  BY <1>1, <2>2, <2>3, <3>1, QuietSteps
  <2>4. ASSUME NEW q \in Peers, Call(q) \/ Retry(q) PROVE Still /\ Broken
    <3>1. target' = target /\ round' = round /\ at[q] \in {"call", "retry"}
      BY <2>4, CallMoves
    <3>2. CASE q # p
      <4>1. at[p] = "retry" /\ call'[p] = call[p]
        <5>1. ASSUME NEW result \in {"true", "false"}, Return(q, result)
              PROVE  at'[p] = at[p] /\ call'[p] = call[p]
          BY <3>2, <5>1, ReturnMoves
        <5>2. CASE CallBroken(q) \/ RetryRefused(q)
          BY <1>1, <3>2, <5>2 DEF CallBroken, RetryRefused, TypeOK
        <5> QED  BY <1>1, <2>4, <5>1, <5>2, CallMoves
      <4>2. x # Current(q)
        BY <2>2, <3>1, <3>2, <4>1, CurrentExchange
      <4> QED  BY <2>2, <2>4, <3>1, <4>1, <4>2, CallFrame, FourStreams
    <3>3. CASE q = p
      <4>1. at[p] = "call" => x \in Exchanges /\ told[x] = "nothing" /\ stream[Request(x, 2)] = "none"
        BY CurrentExchange, FourStreams DEF AheadUntouched, Untouched
      <4>2. Broken
        BY <1>1, <2>2, <2>4, <3>3, <4>1, CallEffect
      <4>3. call'[p] = call[p]
        <5>1. ~ \E result \in {"true", "false"} : Return(p, result)
          BY <1>1, ReturnMoves
        <5> QED  BY <2>4, <3>3, <5>1, CallMoves DEF CallBroken, RetryRefused
      <4> QED  BY <3>1, <4>2, <4>3
    <3> QED  BY <3>2, <3>3
  <2>5. ASSUME NEW q \in Peers, Receive(q) PROVE Still /\ Broken
    <3>1. Still
      BY <2>5 DEF Receive
    <3> QED  BY <1>1, <2>2, <2>5, <3>1, ReceiveEffect, FourStreams
  <2>6. ASSUME NEW s \in Streams, HandlerStep(s) \/ Lose(s) PROVE Still /\ Broken
    <3>1. Still /\ at[p] = "retry" /\ told' = told
      BY <1>1, <2>6, HandlersLeaveLoops DEF loopVars
    <3>2. CASE s[1] # x
      BY <2>2, <2>6, <3>1, <3>2, HandlerFrame, FourStreams
    <3>3. CASE s[1] = x /\ s[2] = "request"
      <4>1. PICK i \in {1, 2} : s = Request(x, i)
        BY <3>3, StreamIsOne
      <4> QED  BY <2>2, <2>6, <3>1, <4>1, RequestEffect, FourStreams
    <3>4. CASE s[1] = x /\ s[2] # "request"
      <4>1. PICK i \in {1, 2} : s = Response(x, i)
        BY <3>4, StreamIsOne
      <4> QED  BY <2>2, <2>6, <3>1, <4>1, ResponseEffect, FourStreams
    <3> QED  BY <3>2, <3>3, <3>4
  <2>7. CASE UNCHANGED vars
    BY <1>1, <2>2, <2>7 DEF vars, loopVars
  <2> QED  BY <2>3, <2>4, <2>5, <2>6, <2>7 DEF Next, LoopStep, Handlers, Pending
<1>2. ASSUME NEW x \in Exchanges, NEW i \in {1, 2}, stream'[Request(x, i)] \notin Void
      PROVE  told'[x] = "true"
  <2>a. stream[Request(x, i)] \notin Void => told[x] = "true"
    BY DEF RequestsTold
  <2>1. ASSUME NEW p \in Peers, Tick(p) \/ Visit(p) \/ Timeout(p) PROVE told'[x] = "true"
    BY <1>2, <2>a, <2>1, QuietSteps
  <2>2. ASSUME NEW p \in Peers, Call(p) \/ Retry(p) PROVE told'[x] = "true"
    <3>1. CASE x # Current(p)
      BY <1>2, <2>a, <2>2, <3>1, CallFrame, FourStreams
    <3>2. CASE x = Current(p)
      <4>1. at[p] = "call" => stream[Request(x, 1)] = "none" /\ stream[Request(x, 2)] = "none"
        BY <3>2, CurrentExchange, FourStreams DEF AheadUntouched, Untouched
      <4>2. at[p] = "retry" => stream[Request(x, 1)] \in {"reset", "dropped"}
                              /\ stream[Request(x, 2)] = "none"
        BY <3>2 DEF RequestsTold
      <4> QED  BY <1>2, <2>2, <3>2, <4>1, <4>2, CallEffect DEF Void
    <3> QED  BY <3>1, <3>2
  <2>3. ASSUME NEW p \in Peers, Receive(p) PROVE told'[x] = "true"
    BY <1>2, <2>a, <2>3, ReceiveEffect, FourStreams DEF Void
  <2>4. ASSUME NEW s \in Streams, HandlerStep(s) \/ Lose(s) PROVE told'[x] = "true"
    <3>1. told' = told
      BY <2>4, HandlersLeaveLoops
    <3>2. CASE s[1] # x
      BY <1>2, <2>a, <2>4, <3>1, <3>2, HandlerFrame, FourStreams
    <3>3. CASE s[1] = x /\ s[2] = "request"
      <4>1. PICK j \in {1, 2} : s = Request(x, j)
        BY <3>3, StreamIsOne
      <4> QED  BY <1>2, <2>a, <2>4, <3>1, <4>1, RequestEffect, FourStreams DEF Void
    <3>4. CASE s[1] = x /\ s[2] # "request"
      <4>1. PICK j \in {1, 2} : s = Response(x, j)
        BY <3>4, StreamIsOne
      <4> QED  BY <1>2, <2>a, <2>4, <3>1, <4>1, ResponseEffect, FourStreams
    <3> QED  BY <3>2, <3>3, <3>4
  <2>5. CASE UNCHANGED vars
    BY <1>2, <2>a, <2>5 DEF vars
  <2> QED  BY <2>1, <2>2, <2>3, <2>4, <2>5 DEF Next, LoopStep, Handlers, Pending
<1> QED  BY <1>1, <1>2 DEF RequestsTold, Request

(* A response is sent by a handler of its request, once, unless that failed.  *)
LEMMA ResponseFollowsStep ==
    /\ TypeOK /\ LoopOK /\ AheadUntouched /\ OneAttempt /\ RequestsTold /\ ResponseFollows
    /\ [Next]_vars
    => ResponseFollows'
<1> SUFFICES ASSUME TypeOK, LoopOK, AheadUntouched, OneAttempt, RequestsTold, ResponseFollows,
                    [Next]_vars, NEW x \in Exchanges
             PROVE  Follows(x)'
  BY DEF ResponseFollows
<1>a. Follows(x)
  BY DEF ResponseFollows
<1>b. /\ HandledIn(x, "request") <=> Handled(Request(x, 1)) \/ Handled(Request(x, 2))
      /\ HandledIn(x, "request")' <=> Handled(Request(x, 1))' \/ Handled(Request(x, 2))'
  BY DEF HandledIn, Handled, Request
<1>1. ASSUME NEW p \in Peers, Tick(p) \/ Visit(p) \/ Timeout(p) PROVE Follows(x)'
  BY <1>a, <1>1, QuietSteps DEF Follows, HandledIn, Handled, Request, Response
<1>2. ASSUME NEW p \in Peers, Call(p) \/ Retry(p) PROVE Follows(x)'
  <2>1. \A i \in {1, 2} : stream'[Response(x, i)] = stream[Response(x, i)]
    BY <1>2, CallFrame, CallEffect, FourStreams
  <2>2. CASE x # Current(p)
    <3>1. \A i \in {1, 2} : stream'[Request(x, i)] = stream[Request(x, i)]
      BY <1>2, <2>2, CallFrame, FourStreams
    <3> QED  BY <1>a, <1>b, <2>1, <3>1 DEF Follows, Handled, Request, Response
  <2>3. CASE x = Current(p)
    <3>1. at[p] = "call" => stream[Request(x, 1)] = "none" /\ stream[Request(x, 2)] = "none"
      BY <2>3, CurrentExchange, FourStreams DEF AheadUntouched, Untouched
    <3>2. at[p] = "retry" => stream[Request(x, 1)] \in {"reset", "dropped"}
                            /\ stream[Request(x, 2)] = "none"
      BY <2>3 DEF RequestsTold
    <3>3. ~Handled(Request(x, 1)) /\ ~Handled(Request(x, 2))
      BY <1>2, <3>1, <3>2, CallMoves DEF Handled
    <3>4. \A i \in {1, 2} : stream'[Request(x, i)] \in {"none", "reset", "dropped", "eof"}
      BY <1>2, <2>3, <3>1, <3>2, CallEffect
    <3> QED  BY <1>a, <1>b, <2>1, <3>3, <3>4 DEF Follows, Handled, Request, Response
  <2> QED  BY <2>2, <2>3
<1>3. ASSUME NEW p \in Peers, Receive(p) PROVE Follows(x)'
  <2>1. PICK s \in Streams : /\ stream[s] = "done" /\ stream'[s] = "closed"
                             /\ \A t \in Streams : t # s => stream'[t] = stream[t]
    BY <1>3, ReceiveEffect
  <2>2. \A i \in {1, 2} : Handled(Request(x, i))' <=> Handled(Request(x, i))
    BY <2>1, FourStreams DEF Handled, Request
  <2> QED  BY <1>a, <1>b, <2>1, <2>2, FourStreams DEF Follows, Void, Request, Response
<1>4. ASSUME NEW s \in Streams, HandlerStep(s) \/ Lose(s) PROVE Follows(x)'
  <2>1. CASE s[1] # x
    <3>1. \A i \in {1, 2} : /\ stream'[Request(x, i)] = stream[Request(x, i)]
                            /\ stream'[Response(x, i)] = stream[Response(x, i)]
      BY <1>4, <2>1, HandlerFrame, FourStreams
    <3> QED  BY <1>a, <1>b, <3>1 DEF Follows, Handled, Request, Response
  <2>2. CASE s[1] = x /\ s[2] = "request"
    <3>1. PICK i \in {1, 2} : s = Request(x, i)
      BY <2>2, StreamIsOne
    <3>2. PICK j \in {1, 2} : j # i
      OBVIOUS
    <3>3. stream'[Request(x, j)] = stream[Request(x, j)]
      BY <1>4, <3>1, <3>2, RequestEffect, FourStreams
    <3>4. stream[s] \notin {"none", "reset", "dropped"} => stream[Request(x, j)] \in Void
      BY <3>1, <3>2 DEF OneAttempt, Void
    <3>5. HandledIn(x, "request") <=> Handled(Request(x, i)) \/ Handled(Request(x, j))
      BY <1>b, <3>2
    <3>6. HandledIn(x, "request")' <=> Handled(Request(x, i))' \/ Handled(Request(x, j))'
      BY <1>b, <3>2
    <3> QED
      BY <1>4, <1>a, <3>1, <3>2, <3>3, <3>4, <3>5, <3>6, RequestEffect, FourStreams
         DEF Follows, Handled, Void, Request, Response
  <2>3. CASE s[1] = x /\ s[2] # "request"
    <3>1. PICK i \in {1, 2} : s = Response(x, i)
      BY <2>3, StreamIsOne
    <3>2. \A j \in {1, 2} : stream'[Request(x, j)] = stream[Request(x, j)]
      BY <1>4, <3>1, ResponseEffect, FourStreams
    <3> QED
      BY <1>4, <1>a, <1>b, <3>1, <3>2, ResponseEffect, FourStreams
         DEF Follows, Handled, Void, Request, Response
  <2> QED  BY <2>1, <2>2, <2>3
<1>5. CASE UNCHANGED vars
  BY <1>a, <1>5 DEF vars, Follows, HandledIn, Handled, Request, Response
<1> QED  BY <1>1, <1>2, <1>3, <1>4, <1>5 DEF Next, LoopStep, Handlers, Pending

-----------------------------------------------------------------------------

(* A failure without a cause is counted. *)
LEMMA FaultCounts ==
    ASSUME NEW q, faults \in Nat, Fault(q \notin up)
    PROVE  /\ faults' \in Nat /\ faults' >= faults
           /\ q \in up => faults' = faults + 1
  BY DEF Fault

(* It takes a fault to get into a retry, and another one to panic in it. *)
LEMMA FaultsCountedStep ==
    TypeOK /\ LoopOK /\ ResponseFollows /\ FaultsCounted /\ [Next]_vars => FaultsCounted'
<1> SUFFICES ASSUME TypeOK, LoopOK, ResponseFollows, FaultsCounted, [Next]_vars
             PROVE  FaultsCounted'
  OBVIOUS
<1>a. faults \in Nat
  BY DEF TypeOK
<1>1. ASSUME NEW p \in Peers, Tick(p) \/ Visit(p) \/ Timeout(p) PROVE FaultsCounted'
  BY <1>1, QuietSteps DEF FaultsCounted
<1>2. ASSUME NEW p \in Peers, Call(p) \/ Retry(p) PROVE FaultsCounted'
  <2>1. /\ at[p] \in {"call", "retry"} /\ target[p] \in Peers
        /\ \A q \in Peers : q # p => at'[q] = at[q]
    BY <1>2, CallMoves, CallEffect DEF TypeOK
  <2>2. \A s \in Streams : stream'[s] = "retry" => stream[s] = "retry"
    <3>1. \/ stream' = stream
          \/ \E i : \E v \in {"eof", "reset"} :
                stream' = [stream EXCEPT ![Request(Current(p), i)] = v]
      BY <1>2 DEF Call, Retry, CallSent, CallRefused, CallBroken, RetrySent, RetryBroken, RetryRefused
    <3> QED  BY <3>1 DEF TypeOK
  <2>3. /\ faults' \in Nat /\ faults' >= faults
        /\ at[p] = "call" /\ at'[p] = "retry" /\ target[p] \in up => faults' >= 1
        /\ at[p] = "call" => up' = up
        /\ at[p] = "retry" /\ up' # up /\ target[p] \in up => faults' = faults + 1
    <3>1. CASE Call(p)
      <4>1. at[p] = "call" /\ up' = up
        BY <3>1 DEF Call
      <4>2. CASE CallSent(p)
        BY <1>a, <4>1, <4>2, ReturnMoves DEF CallSent
      <4>3. CASE CallRefused(p)
        BY <1>a, <4>1, <4>3, ReturnMoves DEF CallRefused, Fault
      <4>4. CASE CallBroken(p)
        BY <1>a, <4>1, <4>4, FaultCounts DEF CallBroken
      <4> QED  BY <3>1, <4>2, <4>3, <4>4 DEF Call
    <3>2. CASE Retry(p)
      <4>1. at[p] = "retry"
        BY <3>2 DEF Retry
      <4>2. CASE RetrySent(p)
        BY <1>a, <4>1, <4>2 DEF RetrySent
      <4>3. CASE RetryBroken(p)
        BY <1>a, <4>1, <4>3, FaultCounts DEF RetryBroken
      <4>4. CASE RetryRefused(p)
        BY <1>a, <4>1, <4>4, FaultCounts DEF RetryRefused
      <4> QED  BY <3>2, <4>2, <4>3, <4>4 DEF Retry
    <3> QED  BY <1>2, <3>1, <3>2
  <2>4. up' # Peers => faults' >= 2
    <3>1. CASE up # Peers
      BY <1>a, <2>3, <3>1 DEF FaultsCounted
    <3>2. CASE up = Peers
      BY <1>a, <2>1, <2>3, <3>2 DEF FaultsCounted
    <3> QED  BY <3>1, <3>2
  <2>5. \A q \in Peers : at'[q] = "retry" => faults' >= 1
    <3>1. at[p] = "call" /\ at'[p] = "retry" => faults' >= 1
      BY <1>a, <2>1, <2>3 DEF FaultsCounted
    <3> QED  BY <1>a, <2>1, <2>3, <3>1 DEF FaultsCounted
  <2> QED  BY <1>a, <2>2, <2>3, <2>4, <2>5 DEF FaultsCounted
<1>3. ASSUME NEW p \in Peers, Receive(p) PROVE FaultsCounted'
  BY <1>3, ReceiveEffect DEF FaultsCounted
<1>4. ASSUME NEW s \in Streams, HandlerStep(s) \/ Lose(s) PROVE FaultsCounted'
  <2>1. at' = at /\ Receiver(s) \in Peers /\ Sender(s) \in Peers /\ s[1].from \in Peers
    BY <1>4, HandlersLeaveLoops, StreamParts DEF loopVars
  <2>2. CASE ReadAll(s) \/ ReadFails(s) \/ Lose(s)
    <3>1. up' = up /\ \A t \in Streams : stream'[t] = "retry" => stream[t] = "retry"
      BY <2>2 DEF ReadAll, ReadFails, Lose, TypeOK
    <3>2. faults' \in Nat /\ faults' >= faults
      BY <1>a, <2>2, FaultCounts DEF ReadAll, ReadFails, Lose
    <3> QED  BY <1>a, <2>1, <3>1, <3>2 DEF FaultsCounted
  <2>3. CASE Respond(s)
    <3>1. /\ up' = up /\ faults' \in Nat /\ faults' >= faults
          /\ stream'[s] = "retry" /\ s[1].from \in up => faults' >= 1
      <4>1. Unsent(s[1]) # "retry" /\ s # Response(s[1], 1) /\ s[2] = "request"
        BY <2>3 DEF Unsent, Response, Respond
      <4> QED  BY <1>a, <2>3, <4>1, FaultCounts DEF Respond, TypeOK
    <3>2. \A t \in Streams : t # s /\ stream'[t] = "retry" => stream[t] = "retry"
      BY <2>3 DEF Respond, TypeOK
    <3>3. stream'[s] = "retry" => faults' >= 1
      BY <1>a, <2>1, <3>1 DEF FaultsCounted
    <3> QED  BY <1>a, <2>1, <3>1, <3>2, <3>3 DEF FaultsCounted
  <2>4. CASE RespondRetry(s)
    <3>1. stream[s] = "retry" /\ faults >= 1
      BY <2>4 DEF RespondRetry, FaultsCounted
    <3>2. /\ faults' \in Nat /\ faults' >= faults
          /\ up' # up /\ s[1].from \in up => faults' = faults + 1
      BY <1>a, <2>4, FaultCounts DEF RespondRetry
    <3>3. up' # Peers => faults' >= 2
      BY <1>a, <2>1, <3>1, <3>2 DEF FaultsCounted
    <3> QED  BY <1>a, <2>1, <3>1, <3>2, <3>3 DEF FaultsCounted
  <2> QED  BY <1>4, <2>2, <2>3, <2>4 DEF HandlerStep
<1>5. CASE UNCHANGED vars
  BY <1>5 DEF vars, loopVars, FaultsCounted
<1> QED  BY <1>1, <1>2, <1>3, <1>4, <1>5 DEF Next, LoopStep, Handlers, Pending

(* A completion takes one blocked handler and ends one visit. *)
LEMMA ReleasedStep ==
    TypeOK /\ LoopOK /\ AheadUntouched /\ RequestsTold /\ ResponseFollows /\ Released
      /\ [Next]_vars => Released'
<1> SUFFICES ASSUME TypeOK, LoopOK, AheadUntouched, RequestsTold, ResponseFollows,
                    Released, [Next]_vars
             PROVE  Released'
  OBVIOUS
<1> DEFINE Over(c, rd, td, a, tg) ==
              /\ c.round <= rd[c.peer]
              /\ c.round = rd[c.peer] =>
                    /\ c.target \notin td[c.peer]
                    /\ a[c.peer] # "loop" => c.target # tg[c.peer]
<1>a. \A c \in completions :
         /\ c.peer \in Peers /\ c.target \in Peers /\ c.round \in Nat /\ c.by \in Streams
         /\ stream[c.by] = "closed" /\ Over(c, round, todo, at, target)
  BY DEF TypeOK, Released
<1>b. \A p \in Peers : round[p] \in Nat
  BY DEF TypeOK
<1>c. ASSUME completions' = completions,
             \A s \in Streams : stream'[s] = "closed" <=> stream[s] = "closed",
             \A c \in completions : Over(c, round', todo', at', target')
      PROVE  Released'
  BY <1>a, <1>c DEF Released, Receiver
<1>1. ASSUME NEW p \in Peers, Tick(p) PROVE Released'
  <2>1. \A c \in completions : Over(c, round', todo', at', target')
    BY <1>1, <1>a, <1>b DEF Tick, TypeOK
  <2> QED  BY <1>1, <1>c, <2>1 DEF Tick
<1>2. ASSUME NEW p \in Peers, Visit(p) PROVE Released'
  <2>1. \A c \in completions : Over(c, round', todo', at', target')
    BY <1>2, <1>a, <1>b DEF Visit, TypeOK
  <2> QED  BY <1>2, <1>c, <2>1 DEF Visit
<1>3. ASSUME NEW p \in Peers, Timeout(p) PROVE Released'
  <2>1. \A c \in completions : Over(c, round', todo', at', target')
    BY <1>3, <1>a, <1>b DEF Timeout, TypeOK
  <2> QED  BY <1>3, <1>c, <2>1 DEF Timeout
<1>4. ASSUME NEW p \in Peers, Call(p) \/ Retry(p) PROVE Released'
  <2>1. /\ at[p] # "loop" /\ todo' = todo /\ target' = target /\ round' = round
        /\ completions' = completions
        /\ \A q \in Peers : q # p => at'[q] = at[q]
    BY <1>4, CallMoves, CallEffect
  <2>2. \A c \in completions : Over(c, round', todo', at', target')
    BY <1>a, <1>b, <2>1
  <2>3. \A s \in Streams : stream'[s] = "closed" <=> stream[s] = "closed"
    <3>1. CASE at[p] = "call"
      <4>1. Current(p) \in Exchanges /\ Untouched(Current(p))
        BY <3>1, CurrentExchange DEF AheadUntouched
      <4>2. \/ stream' = stream
            \/ \E v \in {"eof", "reset"} : stream' = [stream EXCEPT ![Request(Current(p), 1)] = v]
        BY <1>4, <3>1 DEF Call, Retry, CallSent, CallRefused, CallBroken
      <4> QED  BY <4>1, <4>2, FourStreams DEF Untouched, TypeOK
    <3>2. CASE at[p] = "retry"
      <4>1. Current(p) \in Exchanges /\ stream[Request(Current(p), 2)] = "none"
        BY <3>2, CurrentExchange DEF RequestsTold
      <4>2. \/ stream' = stream
            \/ \E v \in {"eof", "reset"} : stream' = [stream EXCEPT ![Request(Current(p), 2)] = v]
        BY <1>4, <3>2 DEF Call, Retry, RetrySent, RetryBroken, RetryRefused
      <4> QED  BY <4>1, <4>2, FourStreams DEF TypeOK
    <3> QED  BY <1>4, <3>1, <3>2, CallMoves
  <2> QED  BY <1>c, <2>1, <2>2, <2>3
<1>5. ASSUME NEW p \in Peers, Receive(p) PROVE Released'
  <2>1. PICK s \in Streams :
           /\ stream[s] = "done" /\ stream'[s] = "closed" /\ Receiver(s) = p
           /\ \A t \in Streams : t # s => stream'[t] = stream[t]
           /\ completions' = completions \union
                {[peer |-> p, target |-> target[p], round |-> round[p], by |-> s]}
    BY <1>5, ReceiveEffect
  <2>2. /\ at[p] = "select" /\ at' = [at EXCEPT ![p] = "loop"]
        /\ todo' = todo /\ target' = target /\ round' = round
    BY <1>5 DEF Receive
  <2> DEFINE new == [peer |-> p, target |-> target[p], round |-> round[p], by |-> s]
  <2>3. p \in Clients /\ target[p] \notin todo[p]
    BY <2>2 DEF LoopOK
  <2>4. \A c \in completions : c.by # s
    BY <1>a, <2>1
  <2>5. \A c \in completions :
           <<c.peer, c.target, c.round>> # <<new.peer, new.target, new.round>>
    BY <1>a, <2>2
  <2>6. \A c \in completions' : Over(c, round', todo', at', target')
    BY <1>a, <1>b, <2>1, <2>2, <2>3 DEF TypeOK
  <2>7. \A c \in completions' : /\ stream'[c.by] = "closed" /\ c.peer = Receiver(c.by)
                                /\ c.peer \in Clients
    BY <1>a, <2>1, <2>3 DEF Released
  <2>8. \A t \in Streams : stream'[t] = "closed" => \E c \in completions' : c.by = t
    <3>1. completions' = completions \union {new} /\ new.by = s
      BY <2>1
    <3>2. \A t \in Streams : stream[t] = "closed" => \E c \in completions : c.by = t
      BY DEF Released
    <3> QED  BY <2>1, <3>1, <3>2
  <2>9. \A c, d \in completions' :
           c.by = d.by \/ <<c.peer, c.target, c.round>> = <<d.peer, d.target, d.round>> => c = d
    <3>1. \A c, d \in completions :
             c.by = d.by \/ <<c.peer, c.target, c.round>> = <<d.peer, d.target, d.round>> => c = d
      BY DEF Released
    <3>2. completions' = completions \union {new} /\ new.by = s
      BY <2>1
    <3> QED  BY <2>4, <2>5, <3>1, <3>2
  <2> QED  BY <2>6, <2>7, <2>8, <2>9 DEF Released, Receiver
<1>6. ASSUME NEW s \in Streams, HandlerStep(s) \/ Lose(s) PROVE Released'
  <2>1. loopVars' = loopVars /\ completions' = completions
    BY <1>6, HandlersLeaveLoops
  <2>2. ASSUME NEW t \in Streams PROVE stream'[t] = "closed" <=> stream[t] = "closed"
    <3>1. CASE ReadAll(s) \/ ReadFails(s) \/ Lose(s)
      BY <3>1 DEF ReadAll, ReadFails, Lose, TypeOK
    <3>2. CASE Respond(s) \/ RespondRetry(s)
      <4>1. s[2] = "request"
        BY <3>2 DEF Respond, RespondRetry
      <4>2. s[1] \in Exchanges /\ s = Request(s[1], s[3]) /\ s[3] \in {1, 2}
        BY <4>1, StreamIsOne
      <4>3. /\ stream[s] = "send" => stream[Response(s[1], 1)] = "none"
            /\ stream[s] = "retry" => stream[Response(s[1], 2)] = "none"
        BY <4>2 DEF ResponseFollows, Follows
      <4>4. HandlerStep(s)
        BY <3>2 DEF HandlerStep
      <4> QED  BY <4>2, <4>3, <4>4, RequestEffect
    <3> QED  BY <1>6, <3>1, <3>2 DEF HandlerStep
  <2> QED  BY <1>a, <1>c, <2>1, <2>2 DEF loopVars
<1>7. CASE UNCHANGED vars
  BY <1>7, <1>a, <1>c DEF vars, loopVars
<1> QED  BY <1>1, <1>2, <1>3, <1>4, <1>5, <1>6, <1>7 DEF Next, LoopStep, Handlers, Pending

-----------------------------------------------------------------------------

LEMMA InitIInv == Init => IInv
<1> SUFFICES ASSUME Init PROVE IInv
  OBVIOUS
<1>1. TypeOK
  BY InitType
<1>2. LoopOK
  BY DEF Init, LoopOK
<1>3. \A x \in Exchanges : \A i \in {1, 2} :
         stream[Request(x, i)] = "none" /\ stream[Response(x, i)] = "none"
  BY FourStreams DEF Init
<1>4. AheadUntouched
  BY DEF Init, AheadUntouched, Untouched
<1>5. OneAttempt /\ RequestsTold /\ ResponseFollows
  BY <1>3 DEF Init, OneAttempt, RequestsTold, ResponseFollows, Follows, Void
<1>6. FaultsCounted /\ Released
  BY DEF Init, FaultsCounted, Released
<1> QED  BY <1>1, <1>2, <1>4, <1>5, <1>6 DEF IInv

LEMMA NextIInv == IInv /\ [Next]_vars => IInv'
  BY TypeStep, LoopOKStep, AheadStep, OneAttemptStep, RequestsToldStep, ResponseFollowsStep,
     FaultsCountedStep, ReleasedStep
     DEF IInv

(* Every reachable state satisfies the inductive invariant. *)
THEOREM Inductive == Spec => []IInv
  BY InitIInv, NextIInv, PTL DEF Spec

(* Of the two attempts at a message at most one is ever handled. *)
THEOREM AtMostOnceHolds == Spec => []AtMostOnce
<1>1. IInv => AtMostOnce
  BY DEF IInv, OneAttempt, AtMostOnce, Handled, Request, Response
<1> QED  BY <1>1, Inductive, PTL

(* A call that returned false is never served, and a handler that returned an *)
(* error has not been answered for.                                           *)
THEOREM FailureIsFinalHolds == Spec => []FailureIsFinal
<1>1. IInv => FailureIsFinal
  BY DEF IInv, RequestsTold, ResponseFollows, Follows, FailureIsFinal, Handled, Void
<1> QED  BY <1>1, Inductive, PTL

(* No process goes down before two network operations have failed. *)
THEOREM SingleFaultSurvivedHolds == Spec => []SingleFaultSurvived
<1>1. IInv => SingleFaultSurvived
  BY DEF IInv, FaultsCounted, SingleFaultSurvived
<1> QED  BY <1>1, Inductive, PTL

(* Handlers return only through a client's visit, one for a visit. *)
THEOREM OneReleasePerVisitHolds == Spec => []OneReleasePerVisit
<1>1. IInv => OneReleasePerVisit
  BY DEF IInv, Released, OneReleasePerVisit
<1> QED  BY <1>1, Inductive, PTL

-----------------------------------------------------------------------------

(* A step of the system is a step of the promise of every exchange, or none.  *)
LEMMA PromiseStep ==
    ASSUME IInv, [Next]_vars, NEW x \in Exchanges
    PROVE  Promise(x)!Next \/ UNCHANGED Phase(x)
<1> USE DEF IInv
<1> DEFINE Same == /\ told'[x] = told[x]
                   /\ \A i \in {1, 2} : /\ stream'[Request(x, i)] = stream[Request(x, i)]
                                        /\ stream'[Response(x, i)] = stream[Response(x, i)]
<1>a. ASSUME Same PROVE UNCHANGED Phase(x)
  BY <1>a DEF Phase, HandledIn, Handled, Request, Response
<1>1. ASSUME NEW p \in Peers, Tick(p) \/ Visit(p) \/ Timeout(p)
      PROVE  Promise(x)!Next \/ UNCHANGED Phase(x)
  BY <1>1, <1>a, QuietSteps
<1>2. ASSUME NEW p \in Peers, Call(p) \/ Retry(p)
      PROVE  Promise(x)!Next \/ UNCHANGED Phase(x)
  <2>1. CASE x # Current(p)
    BY <1>2, <1>a, <2>1, CallFrame, FourStreams
  <2>2. CASE x = Current(p)
    <3>1. at[p] = "call" =>
             /\ told[x] = "nothing"
             /\ \A i \in {1, 2} : stream[Request(x, i)] = "none" /\ stream[Response(x, i)] = "none"
      BY <2>2, CurrentExchange, FourStreams DEF AheadUntouched, Untouched
    <3>2. at[p] = "retry" =>
             /\ told[x] = "nothing"
             /\ stream[Request(x, 1)] \in {"reset", "dropped"} /\ stream[Request(x, 2)] = "none"
             /\ \A i \in {1, 2} : stream[Response(x, i)] = "none"
      BY <2>2 DEF RequestsTold, ResponseFollows, Follows, HandledIn, Handled, Request
    <3>3. at[p] \in {"call", "retry"}
      BY <1>2, CallMoves
    <3>4. \A i \in {1, 2} : ~Handled(Request(x, i)) /\ ~Handled(Response(x, i))
      BY <3>1, <3>2, <3>3 DEF Handled
    <3>5. \A i \in {1, 2} : ~Handled(Request(x, i))' /\ ~Handled(Response(x, i))'
      BY <1>2, <2>2, <3>1, <3>2, CallEffect DEF Handled, Request, Response
    <3>6. told[x] = "nothing" /\ told'[x] \in {"nothing", "true", "false"}
      BY <1>2, <2>2, <3>1, <3>2, <3>3, CallEffect
    <3>7. Phase(x) = "idle" /\ Phase(x)' \in {"idle", "sent", "refused"}
      BY <3>4, <3>5, <3>6 DEF Phase, HandledIn, Request, Response
    <3> QED  BY <3>7 DEF Promise!Next, Promise!Send, Promise!Refuse, Promise!Step
  <2> QED  BY <2>1, <2>2
<1>b. ASSUME told'[x] = told[x],
             \A i \in {1, 2} : /\ Handled(Request(x, i))' <=> Handled(Request(x, i))
                               /\ Handled(Response(x, i))' <=> Handled(Response(x, i))
      PROVE  UNCHANGED Phase(x)
  BY <1>b DEF Phase, HandledIn, Request, Response
<1>3. ASSUME NEW p \in Peers, Receive(p) PROVE Promise(x)!Next \/ UNCHANGED Phase(x)
  <2>1. PICK s \in Streams : /\ stream[s] = "done" /\ stream'[s] = "closed"
                             /\ \A t \in Streams : t # s => stream'[t] = stream[t]
    BY <1>3, ReceiveEffect
  <2>2. \A t \in Streams : stream'[t] = stream[t] \/ (stream[t] = "done" /\ stream'[t] = "closed")
    BY <2>1
  <2> QED  BY <1>3, <1>b, <2>2, ReceiveEffect, FourStreams DEF Handled, Request, Response
<1>4. ASSUME NEW s \in Streams, HandlerStep(s) \/ Lose(s)
      PROVE  Promise(x)!Next \/ UNCHANGED Phase(x)
  <2>1. told' = told
    BY <1>4, HandlersLeaveLoops
  <2>2. CASE s[1] # x
    BY <1>4, <1>a, <2>1, <2>2, HandlerFrame, FourStreams
  <2>3. CASE s[1] = x /\ s[2] = "request"
    <3>1. PICK i \in {1, 2} : s = Request(x, i)
      BY <2>3, StreamIsOne
    <3>2. PICK j \in {1, 2} : j # i
      OBVIOUS
    <3>3. stream'[Request(x, j)] = stream[Request(x, j)]
      BY <1>4, <3>1, <3>2, RequestEffect, FourStreams
    <3>4. \A k \in {1, 2} : Handled(Response(x, k))' <=> Handled(Response(x, k))
      <4>1. /\ stream[s] = "send" => stream[Response(x, 1)] = "none" /\ stream[Response(x, 2)] = "none"
            /\ stream[s] = "retry" => stream[Response(x, 1)] \in {"reset", "dropped"}
                                      /\ stream[Response(x, 2)] = "none"
        BY <3>1 DEF ResponseFollows, Follows
      <4> QED  BY <1>4, <3>1, <4>1, RequestEffect DEF Handled, Response
    <3>5. CASE stream[s] = "eof" /\ stream'[s] = "send"
      <4>1. ~Handled(Request(x, i)) /\ ~Handled(Request(x, j)) /\ Handled(Request(x, i))'
        BY <3>1, <3>2, <3>5 DEF OneAttempt, Handled, Request
      <4>2. told[x] = "true"
        BY <3>1, <3>5 DEF RequestsTold, Void
      <4>3. ~HandledIn(x, "request") /\ HandledIn(x, "request")'
        BY <3>2, <4>1 DEF HandledIn, Request
      <4>4. ~HandledIn(x, "response") /\ ~HandledIn(x, "response")'
        BY <3>4, <4>3 DEF ResponseFollows, Follows, HandledIn, Handled, Response
      <4>5. Phase(x) = "sent" /\ Phase(x)' = "served"
        BY <4>2, <4>3, <4>4 DEF Phase
      <4> QED  BY <4>5 DEF Promise!Next, Promise!Serve, Promise!Step
    <3>6. CASE ~(stream[s] = "eof" /\ stream'[s] = "send")
      <4>1. Handled(s)' <=> Handled(s)
        BY <1>4, <3>1, <3>6, RequestEffect DEF Handled
      <4>2. Handled(Request(x, j))' <=> Handled(Request(x, j))
        BY <3>3 DEF Handled, Request
      <4>3. \A k \in {1, 2} : Handled(Request(x, k))' <=> Handled(Request(x, k))
        BY <3>1, <3>2, <4>1, <4>2 DEF Handled, Request
      <4> QED  BY <1>b, <2>1, <3>4, <4>3
    <3> QED  BY <3>5, <3>6
  <2>4. CASE s[1] = x /\ s[2] # "request"
    <3>1. PICK i \in {1, 2} : s = Response(x, i)
      BY <2>4, StreamIsOne
    <3>2. PICK j \in {1, 2} : j # i
      OBVIOUS
    <3>3. /\ stream'[Response(x, j)] = stream[Response(x, j)]
          /\ \A k \in {1, 2} : stream'[Request(x, k)] = stream[Request(x, k)]
      BY <1>4, <3>1, <3>2, ResponseEffect, FourStreams
    <3>4. \A k \in {1, 2} : Handled(Request(x, k))' <=> Handled(Request(x, k))
      BY <3>3 DEF Handled, Request
    <3>5. CASE stream[s] = "eof" /\ stream'[s] = "done"
      <4>1. HandledIn(x, "request") /\ HandledIn(x, "request")'
        BY <3>1, <3>4, <3>5 DEF ResponseFollows, Follows, HandledIn, Request
      <4>2. ~HandledIn(x, "response") /\ HandledIn(x, "response")'
        BY <3>1, <3>2, <3>5 DEF OneAttempt, HandledIn, Handled, Response
      <4>3. Phase(x) = "served" /\ Phase(x)' = "answered"
        BY <4>1, <4>2 DEF Phase
      <4> QED  BY <4>3 DEF Promise!Next, Promise!Answer, Promise!Step
    <3>6. CASE ~(stream[s] = "eof" /\ stream'[s] = "done")
      <4>1. Handled(s)' <=> Handled(s)
        BY <1>4, <3>1, <3>6, ResponseEffect DEF Handled
      <4>2. Handled(Response(x, j))' <=> Handled(Response(x, j))
        BY <3>3 DEF Handled, Response
      <4>3. \A k \in {1, 2} : Handled(Response(x, k))' <=> Handled(Response(x, k))
        BY <3>1, <3>2, <4>1, <4>2 DEF Handled, Response
      <4> QED  BY <1>b, <2>1, <3>4, <4>3
    <3> QED  BY <3>5, <3>6
  <2> QED  BY <2>2, <2>3, <2>4
<1>5. CASE UNCHANGED vars
  BY <1>5, <1>a DEF vars
<1> QED  BY <1>1, <1>2, <1>3, <1>4, <1>5 DEF Next, LoopStep, Handlers, Pending

LEMMA PromiseInit == Init => \A x \in Exchanges : Promise(x)!Init
<1> SUFFICES ASSUME Init, NEW x \in Exchanges PROVE Promise(x)!Init
  OBVIOUS
<1>1. ~HandledIn(x, "request") /\ ~HandledIn(x, "response")
  BY FourStreams DEF Init, HandledIn, Handled, Request, Response
<1>2. told[x] = "nothing"
  BY DEF Init
<1> QED  BY <1>1, <1>2 DEF Promise!Init, Phase

(* The protocol implements the abstract Exchange, for every exchange at once. *)
THEOREM KeepsPromiseHolds == Spec => KeepsPromise
<1>1. Init => \A x \in Exchanges : Promise(x)!Init
  BY PromiseInit
<1>2. IInv /\ [Next]_vars => \A x \in Exchanges : [Promise(x)!Next]_(Phase(x))
  BY PromiseStep
<1> QED  BY <1>1, <1>2, Inductive, PTL DEF Spec, KeepsPromise

-----------------------------------------------------------------------------

(* Faults are never forgotten. *)
LEMMA FaultsGrow ==
    ASSUME IInv, [Next]_vars
    PROVE  faults \in Nat /\ faults' \in Nat /\ faults' >= faults
<1> USE DEF IInv
<1>1. faults \in Nat
  BY DEF TypeOK
<1>2. \A why : Fault(why) => faults' \in Nat /\ faults' >= faults
  BY <1>1 DEF Fault
<1>3. ASSUME NEW p \in Peers, LoopStep(p) PROVE faults' \in Nat /\ faults' >= faults
  BY <1>1, <1>2, <1>3
     DEF LoopStep, Tick, Visit, Receive, Timeout, Call, CallSent, CallRefused, CallBroken,
         Retry, RetrySent, RetryBroken, RetryRefused
<1>4. ASSUME NEW s, HandlerStep(s) \/ Lose(s) PROVE faults' \in Nat /\ faults' >= faults
  BY <1>1, <1>2, <1>4 DEF HandlerStep, ReadAll, ReadFails, Respond, RespondRetry, Lose
<1>5. CASE UNCHANGED vars
  BY <1>1, <1>5 DEF vars
<1> QED  BY <1>1, <1>3, <1>4, <1>5 DEF Next, Handlers

(* A loop moves one stream of the exchange it is at, or releases a handler.   *)
LEMMA LoopMoves ==
    ASSUME IInv, NEW p \in Peers, LoopStep(p), NEW s \in Streams, stream'[s] # stream[s]
    PROVE  \/ /\ stream[s] = "none" /\ stream'[s] \in {"eof", "reset"}
              /\ Call(p) \/ Retry(p)
              /\ stream'[s] = "reset" => at[p] = "retry" \/ at'[p] = "retry"
           \/ stream[s] = "done" /\ stream'[s] = "closed"
<1> USE DEF IInv
<1>1. CASE Tick(p) \/ Visit(p) \/ Timeout(p)
  BY <1>1, QuietSteps
<1>2. CASE Call(p) \/ Retry(p)
  <2> DEFINE x == Current(p)
  <2>1. x \in Exchanges /\ at[p] \in {"call", "retry"}
    BY <1>2, CallMoves, CurrentExchange
  <2>2. s[1] = x
    BY <1>2, CallFrame
  <2>3. \E i \in {1, 2} : s = Request(x, i) \/ s = Response(x, i)
    BY <2>2, StreamIsOne
  <2>4. at[p] = "call" => stream[Request(x, 1)] = "none" /\ stream[Request(x, 2)] = "none"
    BY <2>1, CurrentExchange, FourStreams DEF AheadUntouched, Untouched
  <2>5. at[p] = "retry" => stream[Request(x, 2)] = "none"
    BY DEF RequestsTold
  <2>6. \A i \in {1, 2} : s # Response(x, i)
    BY <1>2, CallEffect
  <2> QED  BY <1>2, <2>1, <2>3, <2>4, <2>5, <2>6, CallEffect
<1>3. CASE Receive(p)
  BY <1>3, ReceiveEffect
<1> QED  BY <1>1, <1>2, <1>3 DEF LoopStep

(* A handler or the network moves a stream that is begun, or begins a response. *)
LEMMA HandlerMoves ==
    ASSUME IInv, NEW t \in Streams, HandlerStep(t) \/ Lose(t),
           NEW s \in Streams, stream'[s] # stream[s]
    PROVE  \/ /\ s = t
              /\ \/ stream[s] = "eof" /\ stream'[s] \in {"send", "done", "reset"}
                 \/ stream[s] = "reset" /\ stream'[s] = "dropped"
                 \/ stream[s] = "send" /\ stream'[s] \in {"retry", "done", "failed"}
                 \/ stream[s] = "retry" /\ stream'[s] \in {"done", "failed"}
           \/ /\ t[2] = "request" /\ s \in {Response(t[1], 1), Response(t[1], 2)}
              /\ stream[s] = "none" /\ stream'[s] \in {"eof", "reset"}
<1> USE DEF IInv
<1>1. CASE t[2] = "request"
  <2>1. PICK i \in {1, 2} : t = Request(t[1], i) /\ t[1] \in Exchanges
    BY <1>1, StreamIsOne
  <2> DEFINE x == t[1]
  <2>2. /\ stream[t] = "send" => stream[Response(x, 1)] = "none" /\ stream[Response(x, 2)] = "none"
        /\ stream[t] = "retry" => stream[Response(x, 2)] = "none"
    BY <2>1 DEF ResponseFollows, Follows
  <2> QED  BY <1>1, <2>1, <2>2, RequestEffect
<1>2. CASE t[2] # "request"
  <2>1. PICK i \in {1, 2} : t = Response(t[1], i) /\ t[1] \in Exchanges
    BY <1>2, StreamIsOne
  <2> QED  BY <2>1, ResponseEffect
<1> QED  BY <1>1, <1>2

(* A stream moves along its diagram. *)
LEMMA MoveStep ==
    ASSUME IInv, [Next]_vars, NEW s \in Streams, stream'[s] # stream[s]
    PROVE  <<stream[s], stream'[s]>> \in Moves
<1>1. ASSUME NEW p \in Peers, LoopStep(p) PROVE <<stream[s], stream'[s]>> \in Moves
  BY <1>1, LoopMoves DEF Moves
<1>2. ASSUME NEW t \in Streams, HandlerStep(t) \/ Lose(t)
      PROVE  <<stream[s], stream'[s]>> \in Moves
  BY <1>2, HandlerMoves DEF Moves
<1>3. CASE UNCHANGED vars
  BY <1>3 DEF vars
<1> QED  BY <1>1, <1>2, <1>3 DEF Next, Handlers, Pending

(* No stream is used twice, or handled again, by any number of calls, retries *)
(* and handlers.                                                              *)
THEOREM StreamsAdvanceHolds == Spec => StreamsAdvance
<1>1. IInv /\ [Next]_vars =>
         \A s \in Streams : stream'[s] # stream[s] => <<stream[s], stream'[s]>> \in Moves
  BY MoveStep
<1> QED  BY <1>1, Inductive, PTL DEF Spec, StreamsAdvance

-----------------------------------------------------------------------------

(* What the streams remember: a broken one, of a fault; a call that returned  *)
(* true, in its first stream; a request handled to the end, in a response, or *)
(* in a fault that only a Ping handler gets past.                             *)
Broken == {"reset", "dropped", "retry", "failed"}

BreaksCounted == \A s \in Streams : stream[s] \in Broken => faults >= 1

SentBegun == \A x \in Exchanges : told[x] = "true" => stream[Request(x, 1)] # "none"

Responded ==
    \A x \in Exchanges : \A i \in {1, 2} :
        stream[Request(x, i)] \in {"done", "closed"} =>
            stream[Response(x, 1)] # "none" \/ (faults >= 1 /\ Unsent(x) = "done")

Traced == BreaksCounted /\ SentBegun /\ Responded

(* A handler breaks a stream, or ends without a response, at a fault only.    *)
LEMMA HandlerFails ==
    ASSUME IInv, NEW t \in Streams, HandlerStep(t) \/ Lose(t)
    PROVE  \/ faults' >= 1
           \/ \A s \in Streams :
                 /\ stream'[s] \in Broken => stream[s] \in Broken
                 /\ s[2] = "request" /\ stream'[s] = "done" /\ stream[s] # "done" =>
                       stream'[Response(s[1], 1)] = "eof"
<1> USE DEF IInv
<1>1. /\ faults \in Nat /\ Receiver(t) \in Peers /\ Sender(t) \in Peers
      /\ t[1].from \in Peers /\ t[1].to \in Peers
  BY StreamParts DEF TypeOK
<1>2. ASSUME NEW q \in Peers, Fault(q \notin up) PROVE faults' >= 1
  BY <1>1, <1>2, FaultCounts DEF FaultsCounted
<1>3. CASE ReadAll(t)
  BY <1>3 DEF ReadAll, Broken, TypeOK
<1>4. CASE ReadFails(t)
  BY <1>4 DEF ReadFails, Broken, TypeOK
<1>5. CASE Lose(t)
  BY <1>1, <1>2, <1>5 DEF Lose
<1>6. CASE Respond(t)
  <2>1. CASE Fault(t[1].from \notin up)
    BY <1>1, <1>2, <2>1
  <2>2. CASE stream' = [stream EXCEPT ![Response(t[1], 1)] = "eof", ![t] = "done"]
    <3>1. t # Response(t[1], 1) /\ Response(t[1], 1) \in Streams
      BY <1>6, StreamParts, FourStreams DEF Respond, Response
    <3>2. /\ stream'[Response(t[1], 1)] = "eof" /\ stream'[t] = "done"
          /\ \A s \in Streams : s # t /\ s # Response(t[1], 1) => stream'[s] = stream[s]
      BY <2>2, <3>1 DEF TypeOK
    <3> QED  BY <3>1, <3>2 DEF Broken
  <2> QED  BY <1>6, <2>1, <2>2 DEF Respond
<1>7. CASE RespondRetry(t)
  <2>1. faults >= 1
    BY <1>7 DEF RespondRetry, FaultsCounted
  <2>2. faults' = faults \/ Fault(t[1].from \notin up)
    BY <1>7 DEF RespondRetry
  <2> QED  BY <1>1, <1>2, <2>1, <2>2
<1> QED  BY <1>3, <1>4, <1>5, <1>6, <1>7 DEF HandlerStep

(* Only a Ping handler goes on to done when it cannot respond. *)
LEMMA HandlerEnds ==
    ASSUME IInv, NEW x \in Exchanges, NEW i \in {1, 2}, NEW t, t = Request(x, i),
           HandlerStep(t), stream'[t] = "done"
    PROVE  stream'[Response(x, 1)] # "none" \/ Unsent(x) = "done"
<1> USE DEF IInv
<1>1. t \in Streams /\ t[1] = x /\ t[2] = "request"
      /\ t # Response(x, 1) /\ t # Response(x, 2) /\ Response(x, 1) # Response(x, 2)
      /\ Response(x, 1) \in Streams /\ Response(x, 2) \in Streams
  BY FourStreams DEF Request
<1>2. CASE ReadAll(t) \/ ReadFails(t)
  BY <1>1, <1>2 DEF ReadAll, ReadFails, TypeOK
<1>3. CASE Respond(t)
  BY <1>1, <1>3 DEF Respond, TypeOK
<1>4. CASE RespondRetry(t)
  <2>1. stream[Response(x, 1)] \in {"reset", "dropped"} /\ stream[t] = "retry"
    BY <1>1, <1>4 DEF RespondRetry, ResponseFollows, Follows
  <2> QED  BY <1>1, <1>4, <2>1 DEF RespondRetry, TypeOK
<1> QED  BY <1>2, <1>3, <1>4 DEF HandlerStep

LEMMA BreaksCountedStep == IInv /\ IInv' /\ BreaksCounted /\ [Next]_vars => BreaksCounted'
<1> SUFFICES ASSUME IInv, IInv', BreaksCounted, [Next]_vars,
                    NEW s \in Streams, stream'[s] \in Broken
             PROVE  faults' >= 1
  BY DEF BreaksCounted
<1>1. faults \in Nat /\ faults' \in Nat /\ faults' >= faults
  BY FaultsGrow
<1>2. CASE stream[s] \in Broken
  BY <1>1, <1>2 DEF BreaksCounted
<1>3. CASE stream[s] \notin Broken
  <2>1. stream'[s] # stream[s]
    BY <1>3
  <2>2. ASSUME NEW p \in Peers, LoopStep(p) PROVE faults' >= 1
    <3>1. at[p] = "retry" \/ at'[p] = "retry"
      BY <2>1, <2>2, LoopMoves DEF Broken
    <3> QED  BY <1>1, <3>1 DEF IInv, FaultsCounted
  <2>3. ASSUME NEW t \in Streams, HandlerStep(t) \/ Lose(t) PROVE faults' >= 1
    BY <1>3, <2>3, HandlerFails
  <2>4. CASE UNCHANGED vars
    BY <2>1, <2>4 DEF vars
  <2> QED  BY <2>2, <2>3, <2>4 DEF Next, Handlers, Pending
<1> QED  BY <1>2, <1>3

LEMMA SentBegunStep == IInv /\ SentBegun /\ [Next]_vars => SentBegun'
<1> SUFFICES ASSUME IInv, SentBegun, [Next]_vars, NEW x \in Exchanges, told'[x] = "true"
             PROVE  stream'[Request(x, 1)] # "none"
  BY DEF SentBegun, Request
<1> USE DEF IInv
<1>1. Request(x, 1) \in Streams
  BY FourStreams
<1>2. stream'[Request(x, 1)] = "none" => stream[Request(x, 1)] = "none"
  BY <1>1, MoveStep DEF Moves
<1>3. CASE told[x] = "true"
  BY <1>2, <1>3 DEF SentBegun
<1>4. CASE told[x] # "true"
  <2>1. ASSUME NEW p \in Peers, LoopStep(p) PROVE stream'[Request(x, 1)] # "none"
    <3>1. CASE Tick(p) \/ Visit(p) \/ Timeout(p)
      BY <1>4, <3>1, QuietSteps
    <3>2. CASE Receive(p)
      BY <1>4, <3>2, ReceiveEffect
    <3>3. CASE Call(p) \/ Retry(p)
      <4>1. x = Current(p)
        BY <1>4, <3>3, CallFrame
      <4>2. at[p] = "retry" => stream[Request(x, 1)] \in {"reset", "dropped"}
        BY <4>1 DEF RequestsTold
      <4> QED  BY <1>4, <3>3, <4>1, <4>2, CallEffect
    <3> QED  BY <2>1, <3>1, <3>2, <3>3 DEF LoopStep
  <2>2. ASSUME NEW t \in Streams, HandlerStep(t) \/ Lose(t) PROVE told' = told
    BY <2>2, HandlersLeaveLoops
  <2>3. CASE UNCHANGED vars
    BY <1>4, <2>3 DEF vars
  <2> QED  BY <1>4, <2>1, <2>2, <2>3 DEF Next, Handlers, Pending
<1> QED  BY <1>3, <1>4

LEMMA RespondedStep == IInv /\ Responded /\ [Next]_vars => Responded'
<1> SUFFICES ASSUME IInv, Responded, [Next]_vars, NEW x \in Exchanges, NEW i \in {1, 2},
                    stream'[Request(x, i)] \in {"done", "closed"}
             PROVE  stream'[Response(x, 1)] # "none" \/ (faults' >= 1 /\ Unsent(x) = "done")
  BY DEF Responded, Request, Response, Unsent
<1> DEFINE s == Request(x, i)
<1>1. s \in Streams /\ Response(x, 1) \in Streams /\ s[2] = "request" /\ s[1] = x
      /\ s # Response(x, 1) /\ s # Response(x, 2)
  BY FourStreams DEF Request
<1>2. stream'[Response(x, 1)] = "none" => stream[Response(x, 1)] = "none"
  BY <1>1, MoveStep DEF Moves
<1>3. faults \in Nat /\ faults' \in Nat /\ faults' >= faults
  BY FaultsGrow
<1>4. CASE stream[s] \in {"done", "closed"}
  BY <1>2, <1>3, <1>4 DEF Responded
<1>5. CASE stream[s] \notin {"done", "closed"}
  <2>1. stream'[s] # stream[s]
    BY <1>5
  <2>2. ~ \E p \in Peers : LoopStep(p)
    BY <1>1, <1>5, <2>1, LoopMoves
  <2>3. ~ UNCHANGED vars
    BY <2>1 DEF vars
  <2>4. PICK t \in Streams : HandlerStep(t) \/ Lose(t)
    BY <2>2, <2>3 DEF Next, Handlers, Pending
  <2>5. s = t /\ stream'[s] = "done"
    BY <1>1, <1>5, <2>1, <2>4, HandlerMoves
  <2>6. HandlerStep(t)
    BY <1>1, <2>4, <2>5 DEF Lose, IInv, TypeOK
  <2>7. stream'[Response(x, 1)] # "none" \/ Unsent(x) = "done"
    BY <2>5, <2>6, HandlerEnds
  <2>8. faults' >= 1 \/ stream'[Response(x, 1)] = "eof"
    BY <1>1, <1>5, <2>4, <2>5, HandlerFails
  <2> QED  BY <2>7, <2>8
<1> QED  BY <1>4, <1>5

LEMMA TracedExplains == IInv /\ Traced => LossExplained
<1> SUFFICES ASSUME IInv, Traced, NEW x \in Exchanges, told[x] = "true"
             PROVE  LET request  == stream[LastOf(x, "request")]
                        response == stream[LastOf(x, "response")] IN
                    \/ HandledIn(x, "response")
                    \/ {request, response} \intersect {"eof", "reset", "send", "retry"} # {}
                    \/ /\ faults > 0
                       /\ \/ request \in {"dropped", "failed"}
                          \/ response = "dropped"
                          \/ response = "none" /\ Unsent(x) = "done"
  BY DEF LossExplained
<1> DEFINE request  == stream[LastOf(x, "request")]
           response == stream[LastOf(x, "response")]
<1> USE DEF IInv, Traced
<1>1. faults \in Nat
  BY DEF TypeOK
<1>2. PICK i \in {1, 2} : /\ request = stream[Request(x, i)]
                          /\ request # "none"
  <2>1. LastOf(x, "request") = IF stream[Request(x, 2)] = "none" THEN Request(x, 1) ELSE Request(x, 2)
    BY DEF LastOf, Request
  <2> QED  BY <2>1 DEF SentBegun
<1>3. PICK j \in {1, 2} : /\ response = stream[Response(x, j)]
                          /\ response = "none" => stream[Response(x, 1)] = "none"
  <2>1. LastOf(x, "response") = IF stream[Response(x, 2)] = "none" THEN Response(x, 1) ELSE Response(x, 2)
    BY DEF LastOf, Response
  <2> QED  BY <2>1
<1>4. Request(x, i) \in Streams /\ Response(x, j) \in Streams
  BY FourStreams
<1>5. /\ request \in {"dropped", "failed"} => faults > 0
      /\ response = "dropped" => faults > 0
  BY <1>1, <1>2, <1>3, <1>4 DEF BreaksCounted, Broken
<1>6. response \in {"done", "closed"} => HandledIn(x, "response")
  BY <1>3 DEF HandledIn, Handled, Response
<1>7. response \notin {"send", "retry", "failed"}
  BY <1>3 DEF ResponseFollows, Follows
<1>8. /\ request \in {"none", "eof", "reset", "dropped", "send", "retry", "done", "failed", "closed"}
      /\ response \in {"none", "eof", "reset", "dropped", "send", "retry", "done", "failed", "closed"}
  BY <1>2, <1>3, <1>4 DEF TypeOK
<1>9. request \in {"done", "closed"} /\ response = "none" => faults > 0 /\ Unsent(x) = "done"
  BY <1>1, <1>2, <1>3 DEF Responded
<1> QED  BY <1>2, <1>5, <1>6, <1>7, <1>8, <1>9

(* Whatever happens to the other exchanges, one whose call returned true is   *)
(* answered, still being dealt with, or shows the failure that ended it.      *)
THEOREM LossExplainedHolds == Spec => []LossExplained
<1>1. Init => Traced
  BY FourStreams DEF Init, Traced, BreaksCounted, SentBegun, Responded, Broken
<1>2. IInv /\ IInv' /\ Traced /\ [Next]_vars => Traced'
  BY BreaksCountedStep, SentBegunStep, RespondedStep DEF Traced
<1>3. IInv /\ Traced => LossExplained
  BY TracedExplains
<1> QED  BY <1>1, <1>2, <1>3, Inductive, PTL DEF Spec

-----------------------------------------------------------------------------

(* What a loop still has before it in a visit is a natural number. *)
LEMMA LeftIsNat ==
    ASSUME TypeOK, NEW p \in Peers
    PROVE  /\ at[p] = "loop"   => Left(p) = 0
           /\ at[p] = "select" => Left(p) = 1
           /\ at[p] = "retry"  => Left(p) = 14 - 2 * call[p]
           /\ at[p] = "call"   => Left(p) = 15 - 2 * call[p]
           /\ call[p] \in 1..6 /\ Left(p) \in Nat
<1>1. at[p] \in {"loop", "call", "retry", "select"} /\ call[p] \in 1..6
  BY DEF TypeOK
<1> QED  BY <1>1 DEF Left

(* A step of a loop takes it closer to the end of its visit or of its tick.   *)
LEMMA AdvanceStep ==
    ASSUME IInv, IInv', NEW p \in Peers, LoopStep(p)
    PROVE  \/ p \notin up'
           \/ round'[p] = round[p] + 1 /\ at[p] = "loop" /\ todo[p] = {}
           \/ /\ round'[p] = round[p]
              /\ \/ todo'[p] \subseteq todo[p] /\ todo'[p] # todo[p]
                 \/ todo'[p] = todo[p] /\ Left(p)' < Left(p)
<1> USE DEF IInv
<1>a. /\ at[p] = "loop"   => Left(p) = 0
      /\ at[p] = "select" => Left(p) = 1
      /\ at[p] = "retry"  => Left(p) = 14 - 2 * call[p]
      /\ at[p] = "call"   => Left(p) = 15 - 2 * call[p]
      /\ call[p] \in 1..6 /\ Left(p) \in Nat
  BY LeftIsNat
<1>b. /\ at'[p] = "loop"   => Left(p)' = 0
      /\ at'[p] = "select" => Left(p)' = 1
      /\ at'[p] = "retry"  => Left(p)' = 14 - 2 * call'[p]
      /\ at'[p] = "call"   => Left(p)' = 15 - 2 * call'[p]
      /\ call'[p] \in 1..6 /\ Left(p)' \in Nat
  <2>1. at'[p] \in {"loop", "call", "retry", "select"} /\ call'[p] \in 1..6
    BY DEF TypeOK
  <2> QED  BY <2>1 DEF Left
<1>1. CASE Tick(p)
  BY <1>1 DEF Tick, TypeOK
<1>2. CASE Visit(p)
  BY <1>2 DEF Visit, TypeOK
<1>3. CASE Call(p) \/ Retry(p)
  <2>1. /\ at[p] \in {"call", "retry"}
        /\ todo' = todo /\ round' = round
    BY <1>3, CallMoves
  <2>2. ASSUME NEW result \in {"true", "false"}, Return(p, result) PROVE Left(p)' < Left(p)
    <3>1. \/ at'[p] = "call" /\ call'[p] = call[p] + 1
          \/ at'[p] \in {"select", "loop"}
      BY <2>2, ReturnMoves
    <3> QED  BY <1>a, <1>b, <2>1, <3>1
  <2>3. CASE at[p] = "call" /\ CallBroken(p)
    <3>1. at'[p] = "retry" /\ call'[p] = call[p]
      BY <2>3 DEF CallBroken, TypeOK
    <3> QED  BY <1>a, <1>b, <2>1, <2>3, <3>1
  <2>4. CASE at[p] = "retry" /\ RetryRefused(p)
    BY <2>4 DEF RetryRefused
  <2> QED  BY <1>3, <2>1, <2>2, <2>3, <2>4, CallMoves
<1>4. CASE Receive(p) \/ Timeout(p)
  <2>1. /\ at[p] = "select" /\ at'[p] = "loop"
        /\ todo' = todo /\ round' = round
    BY <1>4 DEF Receive, Timeout, TypeOK
  <2> QED  BY <1>a, <1>b, <2>1
<1> QED  BY <1>1, <1>2, <1>3, <1>4 DEF LoopStep

(* A loop never goes round in circles: between two ticks a number falls.      *)
THEOREM TickAdvancesHolds == Spec => TickAdvances
<1>1. IInv /\ IInv' /\ [Next]_vars =>
         \A p \in Peers : LoopStep(p) =>
            \/ p \notin up'
            \/ round'[p] = round[p] + 1 /\ at[p] = "loop" /\ todo[p] = {}
            \/ /\ round'[p] = round[p]
               /\ \/ todo'[p] \subseteq todo[p] /\ todo'[p] # todo[p]
                  \/ todo'[p] = todo[p] /\ Left(p)' < Left(p)
  BY AdvanceStep
<1> QED  BY <1>1, Inductive, PTL DEF Spec, TickAdvances

-----------------------------------------------------------------------------

(* How many steps a stream has left, at most. *)
StepsLeft ==
    [none |-> 5, eof |-> 4, send |-> 3, reset |-> 3, retry |-> 2, done |-> 1,
     dropped |-> 0, failed |-> 0, closed |-> 0]

LEMMA MovesRunOut ==
    ASSUME NEW move \in Moves
    PROVE  StepsLeft[move[2]] < StepsLeft[move[1]]
<1>1. /\ StepsLeft["none"] = 5 /\ StepsLeft["eof"] = 4 /\ StepsLeft["send"] = 3
      /\ StepsLeft["reset"] = 3 /\ StepsLeft["retry"] = 2 /\ StepsLeft["done"] = 1
      /\ StepsLeft["dropped"] = 0 /\ StepsLeft["failed"] = 0 /\ StepsLeft["closed"] = 0
  BY DEF StepsLeft
<1>2. PICK from, to : move = <<from, to>>
  BY DEF Moves
<1> QED  BY <1>1, <1>2 DEF Moves

(* A message is done with after five steps, whatever its sender, its receiver *)
(* and the network do: what a peer can make another's handlers work is        *)
(* bounded by the calls it makes.                                             *)
THEOREM StreamsRunOut ==
    Spec => [][\A s \in Streams : stream'[s] # stream[s] =>
                  StepsLeft[stream'[s]] < StepsLeft[stream[s]]]_vars
<1>1. ASSUME IInv, [Next]_vars, NEW s \in Streams, stream'[s] # stream[s]
      PROVE  StepsLeft[stream'[s]] < StepsLeft[stream[s]]
  <2>1. <<stream[s], stream'[s]>> \in Moves
    BY <1>1, MoveStep
  <2> QED  BY <2>1, MovesRunOut
<1>2. IInv /\ [Next]_vars =>
         \A s \in Streams : stream'[s] # stream[s] =>
            StepsLeft[stream'[s]] < StepsLeft[stream[s]]
  BY <1>1
<1> QED  BY <1>2, Inductive, PTL DEF Spec
=============================================================================
