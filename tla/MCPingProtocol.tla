---------------------------- MODULE MCPingProtocol ----------------------------
(* Instances of PingProtocol: who runs, and which calls reach the network.    *)
EXTENDS PingProtocol

CONSTANTS c, r

MCPair   == {c}
MCRunner == {r}

\* Ping and StopStream: the call whose handler survives a failed response, and
\* the last of the round, whose handler does not.
MCEnds == {1, 6}
MCAll  == 1..6
=============================================================================
