# P2P-Relay in TLA+

Models, model-checking runs and machine-checked proofs for P2P-Relay: mobile
clients that find node runners through a relay and a DHT, ask them for a
stream, and talk to them in protobuf messages over libp2p streams.

## The system

| Part | Source | State | Operations |
|---|---|---|---|
| request/response protocol | `internal/ping/*.go` | handler tables, the channel `done` | Ping, Status, Info, StartStream, StopStream; ten handlers; `sendProtoMessage` |
| streaming flag | `ping.go:25`, `startstream.go`, `stopstream.go`, `status.go` | the package variable `isStreaming` | read and written by three request handlers |
| client ticker loop | `cmd/mobile_client/main.go:495-541` | snapshot of peers, position in the visit | six calls per peer, then a select on `done` |
| runner ticker loop | `cmd/node_runner/main.go:298-341` | snapshot of peers | one Info per peer |
| discovery, connection | `cmd/mobile_client/main.go:239-330` | `connectedPeers` | search the DHT, connect directly or through the relay |
| rendezvous stream | `handleStream` of three programs | an open stream | PING or TEST answered by PONG |
| start-up | the four `main`s | host, DHT, relay addresses | parse, create, connect, reserve, announce |
| shared helpers | `internal/shared/shared.go` | none | parsing, relay addresses, invalid targets |
| relay, bootstrap, key generator | `cmd/relay`, `cmd/boot`, `cmd/key_gen` | kept by the library | start-up only |

**Interaction.** Every process has one ticker goroutine, and libp2p starts a
goroutine for every incoming stream. A call (`Ping` ...) opens a stream, writes
one message and closes it; it does not wait for the response. The target reads
the stream to its end, runs the request handler of the stream's protocol, and
sends the response on a stream of its own, with the same `sendProtoMessage`;
the caller's response handler reads that. Every handler ends in
`done <- true` on the one unbuffered channel of its process; a client receives
from it once at the end of a visit, a runner never.

**What is hard.** Handlers of one process race for `isStreaming` without a
lock; a broken write is retried on a second stream; a caller cannot tell a
delivered request from a lost one; the receive from `done` takes any blocked
handler; a nil stream is used when the retry cannot open one.
`PROJECT.json` lists each hazard at its line.

**What correctness means, part by part.**

- *Protocol*: a message is handled at most once; a call that returned false is
  never served; responses follow requests; the loop never hangs; what was sent
  is answered unless the network fails; a process survives a failing network.
- *Flag*: a request is obeyed unless a later one overrides it; a reply does not
  contradict itself; two requests do not both claim the same change.
- *Discovery*: a lookup connects its client to every announced runner; a runner
  that is found can be called; an announcement lasts; no peer holds up a
  start-up. All this while processes stop and come back.
- *Session*: a stream that runs has a client that will stop it, and ends unless
  that stop went wrong; clients that share a runner explain each other.
- *Rendezvous*: a reply tells what became of the PING, and reading ends at both
  sides.
- *Start-up*: handlers are registered before requests arrive; an identity is
  the one the operator typed, even if it is another process's, and never the
  one that stands for an error; no loop calls the relay or a bootstrap node, or
  leaves out a peer, without a reason in somebody's arguments.

## Modules

| Module | Models |
|---|---|
| `StreamFlag` | the handlers of one process against `isStreaming` |
| `StreamFlag_proofs` | its theorems |
| `Exchange` | what one call promises its caller: the abstract specification |
| `PingProtocol` | clients, runners, streams, retries, `done`, the two loops |
| `PingProtocol_proofs` | its theorems, and that it implements `Exchange` |
| `Discovery` | start-up of clients and runners, announcement, the client's lookup |
| `Discovery_proofs` | its theorems |
| `StreamSession` | clients that visit a runner which may go down: `StreamFlag` served through `Exchange` |
| `StreamSession_proofs` | its theorems |
| `Startup` | the four programs from their arguments to the end of `main` |
| `PingPong` | the streams of the rendezvous protocol |
| `Rendezvous` | `PingPong` on the connections of `Startup` |
| `Rendezvous_proofs` | their theorems |
| `MCStreamFlag`, `MCPingProtocol`, `MCDiscovery`, `MCStreamSession`, `MCStartup`, `MCRendezvous` | instances for TLC |

### StreamFlag

A handler goes through *check*, *set*, *build* and *send*, split where it
touches `isStreaming`. `CheckStreaming` is the `if` (`startstream.go:31`,
`stopstream.go:31`, `status.go:31`) and fixes the text of the reply;
`SetStreaming` is the assignment, which only the branch that found the other
value makes; `BuildResponse` reads the variable again for the reply
(`startstream.go:43`, `status.go:38`; a StopStreamResponse has no such field);
`SendResponse` succeeds or fails, and nothing undoes the write.

The accesses are a data race. On the platforms the program is built for, a
`bool` is one byte and cannot be torn, but the compiler need not read it again:
`BuildResponse` returns the variable's value or the one the handler's branch
implies. The history variable `window[h]` holds the handlers that wrote the
flag since `h` checked it.

### PingProtocol

An exchange is one call: caller, target, tick and position in the visit. Its
request and its response have two streams each, the first attempt and the
retry, and `stream` gives the state of each of them (the module's header draws
the transitions).

| Code | Model |
|---|---|
| `Network().Peers()` at a tick | `Tick` takes any set of other processes |
| `for _, peerID := range peers` | `Visit` takes any one of them |
| `pingprotocol.Ping(...)` and the other calls | `Call`: sent, refused by `NewStream`, or broken in `Write` |
| lines 310-331 of `sendProtoMessage` | `Retry`: sent, broken again, or refused, which panics |
| `onProtocolRequest/Response` | `ReadAll` at the end of the stream, `ReadFails` on a reset one |
| a request handler's `sendProtoMessage` | `Respond`, `RespondRetry` |
| `done <- true` | state `done` of the handler's stream |
| `<-done` | `Receive`: any one stream in state `done` of that process |
| `time.After(5 * time.Second)` | `Timeout` |
| `InfiniteLimits` | `Admits` |
| a connection that goes away | `Lose` |

`Timeout` needs that nobody is blocked: the timer is set when the select
begins, five seconds before it can fire, so a sender that is already there is
taken first, and one that comes later than the timer finds the select over.

A panic in any goroutine ends its process, and no service of
`docker-compose.yml` is restarted by itself, so a process that left `up` takes
no further step here (`StreamSession` and `Discovery` have an operator who
starts it again); operations on its peer's side then fail for free. Every other failure of
`NewStream`, `Write` or a connection uses up one of `MaxFaults`; that covers a
limited relay connection, which `NewStream` refuses. A call outside
`Attempted` is one `NewStream` refuses: this bounds an instance to some of the
six calls without changing the loop.

Both programs skip themselves, the bootstrap nodes and the relay before they
call, and only clients and runners register these protocols, so no other
process appears. Message fields do not decide anything in the protocol and are
left out; unmarshalling a message this program marshalled does not fail. The
external parts are `Fault` (the outcome of a libp2p operation) and `Lose`.

`Exchange` has five phases: idle, sent or refused, served, answered.
`Phase(x)` computes the phase of exchange `x` from its streams, and
`KeepsPromise` states that every step of the protocol is, for every exchange,
a step of `Exchange` or a stutter.

`LossExplained` is what a caller can conclude from true: the exchange is
answered, or a message of it is still to be read or handled, or one of its own
streams shows where an operation failed. `StreamsAdvance` and `TickAdvances` say that streams
and loops only move on, which is what every argument for an end rests on.

### Discovery

A process goes through the stages of its `main`; `After` is the order, which
differs between the programs: a runner reserves, registers its handlers and
then announces itself, a client announces itself first and has no reservation
call. What the start-up calls return is ignored, so a failed one moves on too.

| Code | Model |
|---|---|
| arguments (`shared.go:104-176`), `log.Fatal`, the dereference in `createHost` | `Start`: the program ends, or has relay addresses, or an empty list of them |
| `ConnectToBootstrapPeers`, `ConnectToRelay` | success puts the process into the DHT |
| `ReserveRelay` | `reserved`; only a runner calls it, `AutoRelay` may do it for either |
| `dutil.Advertise` | `AnnounceSelf` starts the goroutine, `Advertise` puts a record |
| `context.WithTimeout(30 s)` | `Expire` |
| `FindPeers` and its channel | `SearchForPeers` notes the records there are, `NextPeer` yields each of them once, and of later ones any, up to `FindLimit` (100, as the call has no options) |
| `host.Connect` of `connectToPeers` | `Direct`: connected, or on to the relay |
| the awaited `NewStream` and the map | `Probe`, a step of its own: recorded, or refused and connected but unrecorded; the peer or the connection may go in between |
| the loop over the relay addresses | `Relayed`: it has at most one address, as one multiaddress was parsed |
| the end of the channel | `LookupEnds`; there is no second lookup |
| an operator who stops a process, and starts it again | `Stop` clears its memory, not its record; `Restart`, under the same key |

A direct connection may fail without a fault: both programs force private
reachability, and a NAT prevents it. Through the relay the peer needs a
reservation, and the client a relay address. The runner's thirty seconds are
over before its start-up only as a fault: the start-up sleeps ten seconds and
makes short calls. The relay, the bootstrap nodes and the DHT are external: they
are there, `Age` drops records nobody renews, an operation on them fails as one
of `MaxFaults`. `Disconnect` changes
nothing but the network, as the programs only log it.

A key is fixed, so the record of a stopped runner leads to its next life, and
may do so in the ten seconds before `NewPingProtocol`: that is the exception
`FoundRunnersServe` names, and the only one. `connectedPeers` is written by two
actions, never cleaned, and read by one log line, so no property is about it.

`due`, the records there were when a lookup began, `seen`, `steady` (the runners
that were announced then and have not gone down since) and `returned` are
history; the code has only the channel.

### StreamSession

Every visit of a client calls Status, StartStream, Status and StopStream
(`mobile_client/main.go:522-528`) and looks at none of the results. A call is
an `Exchange` up to the request handler: idle, sent or refused, served. A
request that is served runs a handler of `StreamFlag`, of which the module is an
instance; requests travel on streams of their own, so they are served in any
order and at once. What does not touch the flag, Ping and Info and the
responses, is left to the modules that have it.

| Code | Model |
|---|---|
| the loop over the calls | `Loop`: the next call in order, `CallSent` or `CallRefused` |
| `io.ReadAll` and the handler's look at the flag | `Serve` |
| the handler's assignment | `Write` |
| a connection that goes away before the request was read | `Lose` |
| a process that goes down | `CrashClient`, `CrashRunner`: the flag, the goroutines and the streams of the runner are gone |
| an operator who starts the runner again | `Restart`, with `isStreaming` false |

`owner` (the start that turned the flag on), `life` (which life of the runner
served a call) and `window` are history. A client that comes back is another
member of `Clients`.

### Startup, PingPong and Rendezvous

`Startup` follows each process through its `main`. Almost no error of the
arguments is looked at where it occurs, so what a call returns beside the error
decides: `ParseCmdArgs` returns index 0, a valid key; `RelayIdentity` returns a
nil option, with which libp2p makes a random identity; `ParseBootstrap` returns
what parsed. All programs share one table of keys (`shared.go:28-52`), and any
index in it is accepted: a runner that is started with 0 is the first bootstrap
node to everybody. What an operator types as index is therefore any process's.
The programs know three bootstrap IDs (`mobile_client/main.go:45-57`); a
bootstrap node need not be one of them (`BootstrapPeerIDs`).

| Code | Model |
|---|---|
| the arguments | `Typed`, `CommandLines`; `Mistakes` counts what is wrong with them |
| `ParseCmdArgs`, `RelayIdentity`, `ParseBootstrap`, `ParseRelayAddress` | operators of these names, `Named` for the relay's address |
| `log.Fatal` and the dereference in `createHost` | `Fatal`; for a relay, later, in `Join` |
| `libp2p.New`, relay service, DHT | `CreateHost` |
| `ConnectToBootstrapPeers`, `ConnectToRelay` | `Join`, once; a dial proves the identity of whom it reaches (`Reachable`), and two processes under one key are one peer to everybody (`Dialable`) |
| `ConstructRelayAddresses`, `IsInvalidTarget` | `ContainsPeer`, `IsInvalidTarget`, `Targets` |

`PingPong` has the stream of a probe, of `pingPeer` or of anybody else. Today
only `connectToPeers` opens such streams, and writes nothing on them; the calls
of `pingPeer` and `manualStream` are commented out, but their handlers are
registered in three programs, and the module says what they would do. A read
returns what has arrived, which may be part of the five bytes. libp2p asks for the
protocol when a stream is opened or, if it knows the answer, with the first
bytes, so a handler begins at either time (`Begun`) and for a silent stream
perhaps never (`GiveUp`).

`Rendezvous` opens streams on connections only, to processes that have
registered the handler, and resets them with their connection. A connection may
carry many streams, so `PingPong` has `Reset(gone)` for any set of them: to a
stream, whatever start-up, stops and connections do is a stutter or a reset.

## Runs

| Run | Instance | Result |
|---|---|---|
| `stream_flag` | two starts, two stops, a status | `TypeOK`, `LastWord`, `TornReplyHasWriter`, `OneFlipAtATime` hold |
| `status_torn` | the same | a status reply that contradicts itself |
| `ping_faults` | a client and a runner, first and last call of the visit, one tick, two faults, fair | `TypeOK`, `AtMostOnce`, `FailureIsFinal`, `SingleFaultSurvived`, `LossExplained`, `OneReleasePerVisit`, `KeepsPromise`, `StreamsAdvance`, `TickAdvances`, `LoopReturns`, `RequestAnswered` hold |
| `runner_handlers` | as `ping_faults`, fair, no fault | a runner's handlers never return |
| `completed` | a client and a runner, all six calls | the handler that completes a visit is not of this visit |
| `panic` | as `ping_faults` | a process goes down |
| `discovery` | a client and two runners, one restart, no faults | `AnnouncedIsConnected` holds |
| `discovery_live` | a client and a runner, one restart, two faults, fair | `TypeOK`, `FoundRunnersServe`, `StartUpAdvances`, `StartUpEnds` hold |
| `stays_announced` | a client and a runner, no faults, fair | a runner that "successfully announced" is not in the DHT |
| `session` | two clients, one visit each, two faults, one crash of the runner, fair | `TypeOK`, `NoOrphan`, `NoGhost`, `Obeyed`, `InactiveExplained`, `StreamEnds` hold |
| `startup` | two bootstrap nodes that are up, one of them known, two relays, a client, the right arguments, one failure | `CallsExplained` holds |
| `rendezvous` | one process of each program, one mistake, one failure, a stream, fair | `RTypeOK`, `CallsExplained`, `NoImpostor`, `ReplyExplained`, `NoMutualWait`, `ReadsReturn` hold |

**Bounds.** Two faults break a write and its retry, or a write and the second
`NewStream`, or one message of each direction. Ping and StopStream are the two kinds of
request handler there are: Ping goes on to `done` without a response, the
others return an error. The runner's Info meets the client's calls, so both
processes are caller and target at once, and a visit may find a handler of the
runner's request beside its own. Two faults can also take a response away, so that the
timer is needed; without faults each process still has two handlers blocked at
once, one of its own exchange and one of its peer's.
In `stream_flag` two handlers
of each writing kind are the fewest for which two claims of one change, with or
without a writer of the other kind between, can happen. In `discovery` a second runner is the peer behind one that cannot be
reached. Its properties say what holds while no operation failed, so it has no
faults; `discovery_live` has two, enough to break a runner's way into the DHT
twice, or its start-up's deadline and its reservation. `FindLimit` is two, so
that the client itself or a runner that is gone can use the lookup up before the
other runner is yielded, and `MaxReturned` one: one process comes back, as often as it likes, and the
others meet the record of its earlier life. In `session` the first Status is
left out (a refused call is one outside `Attempted`), and so is the second one
of the second client: one status between a start and a stop, and a start and a
stop of somebody else, are what `InactiveExplained` speaks of; two faults lose
one client's stop and take the other down, and one crash makes two lives of the
runner. In `rendezvous` one mistake is enough for each of the cases the code
does not look at, a foreign index among them, and one failure stops a process,
its connection or a dial;
the stream is of the client to the runner and of any of the three kinds.
`startup` has what one process of each program leaves out, a second relay and a
bootstrap node the programs do not know; both exceptions of `CallsExplained`
that need no mistake are met there. The theorems below need
none of these bounds. Deadlock is not checked: the ticks are bounded, every
handler ends, and every process may be stopped.

**Fairness.** `FairSpec` assumes weak fairness of each ticker goroutine and of
the handlers of each process: Go's scheduler is preemptive, timers fire, and
libp2p's `NewStream` and `Write` of a short message end on their own timeouts.
Nothing is assumed about which handler runs, which peers a snapshot holds,
which blocked sender is received from, or the network. In `Discovery` the main
goroutine of a started process and its advertising goroutine are fair; starting,
stopping, expiry and everything of the network are not. In `StreamSession` the
clients' loops and the runner's handlers are fair, crashes and restarts are not;
in `Rendezvous` `pingPeer` and `handleStream` go on, and nothing says that
others close what they have opened.

**Mutants.** Each checked property has a plausible bug of the code in its
module, marked *Mutant of*, that breaks it: a dropped `Reset`, a missing
`return` after the first `NewStream`, an unchecked error of `io.ReadAll`, a
limit on open streams, a select without its timer, a `return` for the `continue`
of an unreachable peer, an announcement before the handlers are registered,
a loop that leaves out StopStream after a refused Status, a handler that reads
on after a message it does not know or answers whatever it reads, a parser that
keeps the arguments beside a bad index, a relay that is not excluded from the
calls, a handler that signals `done` before it has sent its response, a visit or
a start-up step that begins again, a refused call that is repeated, a flag that
outlives the runner, a lost connection that looks to its streams like a close.

## Findings

1. A status reply may say "Stream is inactive" and `IsStreaming: true`
   (`status.go:31,38`): run `status_torn`.
2. Every request a runner serves leaves a goroutine and a stream behind
   (`startstream.go:57` and its siblings): run `runner_handlers`.
3. "exchange completed" (`mobile_client/main.go:532`) may be about another
   exchange: run `completed`.
4. A broken write and a refused second `NewStream` panic (`ping.go:317-320`):
   run `panic`. `SingleFaultSurvived` shows that it takes both.
5. A runner logs "successfully announced" (`node_runner/main.go:234`) before
   anything is announced, and its context of 30 seconds (`:238`) ends what
   would renew the record: run `stays_announced`.

## Proofs

Everything is proved for any sets of processes or handlers, with
`KindAssumption` (each handler is of one kind), `RolesAssumption` (no process
is both client and runner), `BoundsAssumption` and `FaultsAssumption` (the
bounds are naturals), `SessionAssumption` (the runner is no client) and
`StartupAssumption` (the four programs are different processes, the known
bootstrap nodes are among them and one has key 0, and the random identity, the
indices without a key and the bad address are nobody's), `LimitAssumption` (a
lookup yields something).

- `StreamFlag_proofs`: `TypeCorrect`, `LastWordHolds`, `TornReplyExplained`,
  `FlipsExplained`. The invariant adds that a handler that has not checked has
  no text (`Fresh`), that the text is one its branch gives (`Belief`), and that
  a handler about to build whose text no longer fits the flag has a writer in
  its window (`DriftHasWriter`): the first read happened earlier, so what was
  true then must be carried to the second one.
- `PingProtocol_proofs`: `TypeCorrect`, `AtMostOnceHolds`,
  `FailureIsFinalHolds`, `SingleFaultSurvivedHolds`, `OneReleasePerVisitHolds`,
  `KeepsPromiseHolds`. None of these is inductive. `IInv` adds that calls ahead
  of a loop have untouched streams (`AheadUntouched`), which makes a call's
  streams fresh; that a second attempt follows a reset first one
  (`OneAttempt`); that what can be handled was reported as sent
  (`RequestsTold`); what a handler has sent at each of its steps
  (`ResponseFollows`); that a retry has met a fault (`FaultsCounted`); and that
  completions belong to visits that are over (`Released`). The refinement uses
  the same invariant: one step lemma shows which phases an action may move.
  `LossExplainedHolds` needs a second tier on top of `IInv`, `Traced`: a broken
  stream has cost a fault, a call that returned true has begun its first
  stream, and a request whose handler is past its response has one, or stands
  where the response failed. `StreamsAdvanceHolds` is a lemma for loop steps and
  one for handler steps; `StreamsRunOut` turns the diagram into a count that
  falls with every move. `TickAdvancesHolds` gives the loop's variant: peers
  left, then calls left.
- `Discovery_proofs`: `TypeCorrect`, `FoundRunnersServeHolds`,
  `AnnouncedIsConnectedHolds`, `StartUpAdvancesHolds`. What a client knows of a
  runner goes back to an advertisement, of this life or, if the runner is dead
  or has returned, of an earlier one (`Known`, `Met`, `WasAnnouncedStep`). An
  advertisement of this life puts the runner past the stages before it
  (`Serving`, and `Equipped` while nothing failed), and stays true until a stop
  (`AnnouncedStep`), so it holds of whom a lookup found `steady`. `Reached` lets
  a lookup owe those a connection only for the peer it is at, which turns into
  the property when the channel closes. The variant of a start-up is
  its stage and, within a lookup, the records it has not seen.
- `StreamSession_proofs`: `TypeCorrect`, `NoOrphanHolds`, `NoGhostHolds`,
  `ObeyedHolds`, `InactiveExplainedHolds`, `QuietStream`.
  `Stage` and `Writers` tie the handlers of
  `StreamFlag` to the exchanges they serve and to the life of the runner they
  die with; that a writer belongs to the present life is what keeps a restarted
  runner from streaming for an earlier one (`NoGhost`). `NoOrphan` is inductive
  with these, as a stop that has not looked
  will find the flag on. For `InactiveExplained` the present flag must be known
  as well: `Obeyed` and `InactiveSeen` say who has written since a request
  was handled and since a status was.
- `Rendezvous_proofs`: `RTypeCorrect`, `NoImpostorHolds`,
  `CallsExplainedHolds`, `PingPongFlow`, `ReplyExplainedHolds`,
  `NoMutualWaitHolds`. Arguments that stand for an
  error hold a process back (`Held`), who listens has the identity of its key
  (`Identified`), who is connected listens under a key that was typed
  (`Linked`), and two that are connected run under different keys (`Distinct`):
  key 0 of a process with bad arguments never gets into a connection, and whom a
  loop leaves out it leaves out for a key. The streams are proved about once, in
  `PingPong` alone; a lemma, `StreamsArePingPong`, says that the actions of the
  composition are built from `PingPong`'s, which carries the results over to
  connections that come and go.
  `Flow` lists how far opener and handler of a stream can be apart;
  that an opener which still reads has not closed its side is what rules out
  that its PING was dropped for another reason than coming in pieces, and that
  a handler which reads beside it still has bytes on the wire is what rules out
  that both wait.

**Only model-checked**: the five liveness properties, `LoopReturns`,
`RequestAnswered`, `StartUpEnds`, `StreamEnds` and `ReadsReturn`, which need
fairness and `ENABLED`. What they rest on besides fairness is proved:

| Liveness | Its safety half |
|---|---|
| `LoopReturns` | `TickAdvances`: each step of a loop brings it closer to its end |
| `RequestAnswered` | `LossExplained`, `StreamsAdvance`, `StreamsRunOut`: a request without a failure is answered or has a message on its way, and a message takes at most five steps |
| `StartUpEnds` | `StartUpAdvances`: no step leads back |
| `StreamEnds` | `QuietStream`: once nothing is left to do, a stream that runs has what `StreamEnds` allows it |
| `ReadsReturn` | `NoMutualWait`: while `pingPeer` reads, something is there or somebody else's turn |

Deadlock and fairness of the library are outside.

## Not modelled

- The relay service, the DHT, AutoRelay, hole punching and address selection of
  go-libp2p are external: the models say what the code can observe of them.
- `AssembleRelay`, `Addresses` and `hostGetAddrInfo` put addresses together;
  which address is written how decides nothing in these models. `AssembleRelay`
  is the outcome "through the relay or not" of `Discovery`'s `Relayed`.
- "noder", which the runner writes into a `bufio.Writer` it never flushes
  (`node_runner/main.go:149-154`), never gets anywhere.
- `manualStream` repeats a refused `NewStream` up to five times; nothing calls
  it, and each repetition is the `Refused` or `Opened` of another stream.
- `parseCommandLineArgs`, `getRelayIdentity`, `connectToBootstrapPeers` and the
  second key table of `cmd/relay/main.go` are dead code.
- The generated `p2p.pb.go`, the key generator (a one-shot tool), the container
  files and the tests have no behaviour of their own; the last two were read as
  documentation.
- `Startup` and `Discovery` are two views of one `main`, with the same stages
  where both have them. They are not composed: `Discovery` takes what a mistake
  leaves (no relay address, no connection) as an outcome, and its announcement
  and lookup do not depend on which identity a process has.
