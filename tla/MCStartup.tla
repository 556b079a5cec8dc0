------------------------------ MODULE MCStartup ------------------------------
(* A bootstrap node the programs know and one they do not, two relays, and a  *)
(* peer of each kind.                                                         *)
EXTENDS Startup, TLC

CONSTANTS b, a, y, z, c, r, out, nan, junk, nobody

MCBoots   == {b, a}
MCKnown   == {b}
MCRelays  == {y, z}
MCClients == {c}
MCRunners == {}

\* Two relays run the same program.
MCSymmetry == Permutations({y, z})

\* The bootstrap nodes have been started, and a may have found b; what the others
\* meet does not depend on how.
MCInit ==
    /\ stage = [p \in Processes |-> IF p \in Boots THEN "ready" ELSE "parse"]
    /\ typed = [p \in Processes |->
          IF p \in Boots
          THEN [index |-> p, address |-> "good", relay |-> Nobody, list |-> {b} \ {p}]
          ELSE [Unparsed EXCEPT !.index = NotANumber]]
    /\ identity = [p \in Processes |-> IF p \in Boots THEN p ELSE Nobody]
    /\ links \in {{}, {MCBoots}}
    /\ errors = 0 /\ faults = 0

MCSpec == MCInit /\ [][Next]_vars
=============================================================================
