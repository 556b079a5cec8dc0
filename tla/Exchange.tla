------------------------------- MODULE Exchange -------------------------------
(***************************************************************************)
(* What the caller of Ping, Status, Info, StartStream or StopStream is     *)
(* promised (internal/ping/ping.go:183-284), whatever streams, retries and *)
(* goroutines one call takes.  It either returns false, and then the       *)
(* target never sees the request, or it returns true, and then the target  *)
(* may serve the request, and the caller's response handler may afterwards *)
(* run.  Nothing promises that a request that was sent is served, or that  *)
(* one that was served is answered.                                        *)
(***************************************************************************)
VARIABLE phase

Init == phase = "idle"

Step(from, to) == phase = from /\ phase' = to

\* The call returns.
Send   == Step("idle", "sent")
Refuse == Step("idle", "refused")

\* The target's request handler has the whole request.
Serve  == Step("sent", "served")

\* The caller's response handler has the whole response.
Answer == Step("served", "answered")

Next == Send \/ Refuse \/ Serve \/ Answer

Spec == Init /\ [][Next]_phase
=============================================================================
