----------------------------- MODULE MCDiscovery -----------------------------
(* Instances of Discovery.                                                    *)
EXTENDS Discovery, TLC

CONSTANTS c, r, q

MCClient    == {c}
MCRunners   == {r, q}
MCOneRunner == {r}

\* Two runners run the same program.
MCSymmetry == Permutations({r, q})
=============================================================================
