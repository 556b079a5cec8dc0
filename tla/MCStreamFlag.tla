----------------------------- MODULE MCStreamFlag -----------------------------
(* Two clients start, stop and ask for the status of one runner's stream.     *)
EXTENDS StreamFlag, TLC

CONSTANTS a1, a2, o1, o2, q

MCHandlers == {a1, a2, o1, o2, q}
MCKind == [h \in MCHandlers |->
             IF h \in {a1, a2} THEN "start" ELSE IF h \in {o1, o2} THEN "stop" ELSE "status"]

\* The two starts are interchangeable, and so are the two stops.
MCSymmetry == Permutations({a1, a2}) \union Permutations({o1, o2})
=============================================================================
