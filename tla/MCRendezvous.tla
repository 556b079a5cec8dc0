----------------------------- MODULE MCRendezvous -----------------------------
(* One process of each program, and a stream of the client to the runner.     *)
EXTENDS Rendezvous

CONSTANTS b, y, c, r, out, nan, junk, nobody, s

MCBoots   == {b}
MCRelays  == {y}
MCClients == {c}
MCRunners == {r}
MCStreams == {s}
MCFrom == [x \in MCStreams |-> c]
MCTo   == [x \in MCStreams |-> r]
=============================================================================
