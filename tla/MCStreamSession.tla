--------------------------- MODULE MCStreamSession ---------------------------
(* Two clients visit one runner.                                              *)
EXTENDS StreamSession

CONSTANTS c, d, r

MCTwo  == {c, d}
MCRunner == r

\* StartStream, the second Status and StopStream of c; StartStream and
\* StopStream of d.
MCStream == {h \in Calls : h.at \in IF h.client = c THEN {4, 5, 6} ELSE {4, 6}}
=============================================================================
