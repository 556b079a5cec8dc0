------------------------- MODULE StreamSession_proofs -------------------------
(***************************************************************************)
(* The safety of StreamSession for any clients, visits, faults and crashes *)
(* of the runner.                                                          *)
(*                                                                         *)
(* NoOrphan is inductive with Stage: whoever turns the flag on enters the  *)
(* window of a StopStream that has looked already, and one that has not    *)
(* will find the flag on.  NoGhost needs Writers: a handler that may still *)
(* write was served in this life.  InactiveExplained needs to know of the  *)
(* present: Obeyed ties an "off" to the starts of this life of the runner, *)
(* InactiveSeen ties an "on" to the statuses that said "inactive".         *)
(***************************************************************************)
EXTENDS StreamSession, TLAPS

(* A handler has looked at the flag exactly if its request is served, and was *)
(* served in this life of the runner or an earlier one.                       *)
Stage ==
    \A h \in Calls :
        /\ Served(h) <=> pc[h] # "check"
        /\ life[h] <= crashes

(* A handler about to write is a start's or a stop's, and was served in this  *)
(* life of the runner, unless it died with an earlier one.                    *)
Writers ==
    \A h \in Calls :
        pc[h] = "set" => /\ KindOf[h] # "status"
                         /\ h \in lost \/ (Runner \in up /\ life[h] = crashes)

(* A status that said "inactive" has in its window who has turned the flag on *)
(* since.                                                                     *)
InactiveSeen ==
    \A q \in Calls :
        (/\ KindOf[q] = "status" /\ Served(q)
         /\ statusMessage[q] = "Stream is inactive" /\ isStreaming)
        => \E g \in window[q] : KindOf[g] = "start"

Claims == Stage /\ Writers /\ NoOrphan /\ NoGhost /\ Obeyed /\ InactiveSeen
                /\ InactiveExplained

IInv == TypeOK /\ Claims

-----------------------------------------------------------------------------

LEMMA Kinds ==
    /\ \A h \in Calls : KindOf[h] \in {"start", "stop", "status"}
    /\ \A h \in Calls : /\ KindOf[h] = "start" <=> h.at = 4
                        /\ KindOf[h] = "stop" <=> h.at = 6
                        /\ KindOf[h] = "status" <=> h.at \in {2, 5}
    /\ \A h \in Calls : /\ StartOf(h) \in Calls /\ StartOf(h).at = 4
                        /\ StopOf(h) \in Calls /\ StopOf(h).at = 6
<1>1. ASSUME NEW h \in Calls
      PROVE  /\ h.at \in {2, 4, 5, 6} /\ h.client \in Clients
             /\ h.visit \in 1 .. MaxVisit
  BY DEF Calls, Positions
<1>2. ASSUME NEW h \in Calls
      PROVE  KindOf[h] = CASE h.at = 4 -> "start"
                           [] h.at = 6 -> "stop"
                           [] OTHER    -> "status"
  BY DEF KindOf
<1>3. ASSUME NEW h \in Calls
      PROVE  /\ StartOf(h) \in Calls /\ StartOf(h).at = 4
             /\ StopOf(h) \in Calls /\ StopOf(h).at = 6
  BY DEF StartOf, StopOf, Calls, Positions
<1> QED  BY <1>1, <1>2, <1>3

LEMMA InitIInv == Init => IInv
<1> SUFFICES ASSUME Init PROVE IInv
  OBVIOUS
<1> USE DEF Init, Flag!Init
<1>1. TypeOK
  <2>1. Flag!TypeOK
    BY DEF Flag!TypeOK
  <2>2. 0 \in 0 .. MaxFaults /\ 0 \in 0 .. MaxCrashes
    BY SessionAssumption
  <2> QED  BY <2>1, <2>2 DEF TypeOK
<1>2. Stage /\ Writers /\ Obeyed /\ InactiveSeen /\ InactiveExplained
  BY SessionAssumption, Kinds
  DEF Stage, Writers, Obeyed, InactiveSeen, InactiveExplained, Served, Settled
<1>3. NoOrphan /\ NoGhost
  BY DEF NoOrphan, NoGhost
<1> QED  BY <1>1, <1>2, <1>3 DEF IInv, Claims

-----------------------------------------------------------------------------
(* Types.                                                                    *)

LEMMA TypeStep == TypeOK /\ [Next]_vars => TypeOK'
<1> SUFFICES ASSUME TypeOK, [Next]_vars PROVE TypeOK'
  OBVIOUS
<1> USE DEF TypeOK
<1>1. /\ \A p : Failing(p) => faults' \in 0 .. MaxFaults
      /\ faults < MaxFaults => faults + 1 \in 0 .. MaxFaults
      /\ crashes < MaxCrashes => crashes + 1 \in 0 .. MaxCrashes
  BY SessionAssumption DEF Failing
<1>2. ASSUME UNCHANGED flagVars PROVE Flag!TypeOK'
  BY <1>2 DEF flagVars, Flag!TypeOK
<1>3. ASSUME NEW c \in Clients, Loop(c) PROVE TypeOK'
  <2>1. PICK h \in Calls : CallSent(h) \/ CallRefused(h)
    BY <1>3 DEF Loop
  <2>2. faults' \in 0 .. MaxFaults
    BY <2>1, <1>1 DEF CallSent, CallRefused
  <2>3. phase' \in [Calls -> {"idle", "sent", "refused", "served"}]
    BY <2>1 DEF CallSent, CallRefused
  <2> QED  BY <1>2, <1>3, <2>2, <2>3 DEF Loop
<1>4. ASSUME NEW h \in Calls, Serve(h) PROVE TypeOK'
  <2>1. Flag!Answer(KindOf[h], isStreaming) \in
            {"unknown", "SUCCESS", "ALREADY_STREAMING", "STREAM_STOPPED",
             "NOT_STREAMING_PREVIOUSLY", "Stream is active", "Stream is inactive"}
    BY Kinds DEF Flag!Answer
  <2>2. Flag!TypeOK'
    BY <1>4, <2>1 DEF Serve, Flag!CheckStreaming, Flag!Decided, Flag!TypeOK
  <2>3. phase' \in [Calls -> {"idle", "sent", "refused", "served"}]
    BY <1>4 DEF Serve
  <2>4. life' \in [Calls -> 0 .. MaxCrashes]
    BY <1>4 DEF Serve
  <2> QED  BY <1>4, <2>2, <2>3, <2>4 DEF Serve
<1>5. ASSUME NEW h \in Calls, Write(h) PROVE TypeOK'
  <2>1. Flag!TypeOK'
    BY <1>5 DEF Write, Flag!SetStreaming, Flag!Decided, Flag!Wanted, Flag!TypeOK
  <2>2. owner' \subseteq Calls
    BY <1>5 DEF Write
  <2> QED  BY <1>5, <2>1, <2>2 DEF Write
<1>6. ASSUME NEW h \in Calls, Lose(h) PROVE TypeOK'
  BY <1>1, <1>2, <1>6 DEF Lose
<1>7. CASE CrashRunner
  <2>1. Flag!TypeOK'
    BY <1>7 DEF CrashRunner, Flag!TypeOK
  <2> QED  BY <1>1, <1>7, <2>1 DEF CrashRunner, InRunner
<1>8. ASSUME NEW c \in Clients, CrashClient(c) PROVE TypeOK'
  BY <1>1, <1>2, <1>8 DEF CrashClient
<1>9. CASE Restart
  BY <1>2, <1>9 DEF Restart
<1>10. CASE UNCHANGED vars
  BY <1>2, <1>10 DEF vars
<1> QED  BY <1>3, <1>4, <1>5, <1>6, <1>7, <1>8, <1>9, <1>10 DEF Next, HandleRequests

-----------------------------------------------------------------------------
(* The invariant, action by action.                                          *)

(* What every action that serves nothing and writes nothing leaves alone. *)
Calm ==
    /\ UNCHANGED <<pc, statusMessage, reply, window, life>>
    /\ \A h \in Calls : Served(h)' <=> Served(h)
    /\ lost \subseteq lost'

(* The runner is not the one that goes down. *)
Alive ==
    /\ UNCHANGED <<isStreaming, owner, crashes>>
    /\ Runner \in up => Runner \in up'

(* It does, and takes the handlers that are about to write with it. *)
Down ==
    /\ isStreaming' = FALSE /\ crashes' = crashes + 1
    /\ \A h \in Calls : Served(h) /\ pc[h] = "set" => h \in lost'

LEMMA ActionKinds ==
    ASSUME TypeOK, Next
    PROVE  \/ Calm /\ (Alive \/ Down)
           \/ \E h \in Calls : Serve(h) \/ Write(h)
<1> USE DEF Calm, Alive, Down
<1>1. ASSUME NEW c \in Clients, Loop(c)
      PROVE  Calm /\ Alive
  <2>1. PICK h \in Calls : CallSent(h) \/ CallRefused(h)
    BY <1>1 DEF Loop
  <2>2. phase[h] = "idle" /\ \E p \in {"sent", "refused"} : phase' = [phase EXCEPT ![h] = p]
    BY <2>1 DEF CallSent, CallRefused, Turn
  <2>3. \A g \in Calls : Served(g)' <=> Served(g)
    BY <2>2 DEF Served, TypeOK
  <2> QED  BY <1>1, <2>3 DEF Loop, flagVars
<1>2. ASSUME NEW h \in Calls, Lose(h)
      PROVE  Calm /\ Alive
  BY <1>2 DEF Lose, flagVars, Served
<1>3. ASSUME CrashRunner PROVE Calm /\ Down
  BY <1>3 DEF CrashRunner, Served, InRunner
<1>4. ASSUME NEW c \in Clients, CrashClient(c)
      PROVE  Calm /\ Alive
  BY <1>4, SessionAssumption DEF CrashClient, flagVars, Served
<1>5. ASSUME Restart
      PROVE  Calm /\ Alive
  BY <1>5 DEF Restart, flagVars, Served
<1> QED  BY <1>1, <1>2, <1>3, <1>4, <1>5 DEF Next, HandleRequests

(* Nothing the invariant talks of moves. *)
LEMMA CalmStep ==
    ASSUME IInv, Calm, Alive
    PROVE  Claims'
<1>1. \A h \in Calls : Settled(h)' <=> Settled(h)
  BY DEF Calm, Settled, Flag!Settled
<1>2. Stage' /\ Writers' /\ NoGhost'
  BY DEF IInv, Claims, Calm, Alive, Stage, Writers, NoGhost, TypeOK
<1>3. NoOrphan'
  BY <1>1, Kinds DEF IInv, Claims, Calm, Alive, Down, NoOrphan, TypeOK
<1>4. Obeyed'
  BY <1>1 DEF IInv, Claims, Calm, Alive, Down, Obeyed, Flag!Wanted
<1>5. InactiveSeen'
  BY DEF IInv, Claims, Calm, Alive, Down, InactiveSeen
<1>6. InactiveExplained'
  BY <1>1, Kinds DEF IInv, Claims, Calm, Alive, Down, InactiveExplained
<1> QED  BY <1>2, <1>3, <1>4, <1>5, <1>6 DEF Claims

(* After a crash no request is of the present life, and the flag is off. *)
LEMMA CrashStep ==
    ASSUME IInv, Calm, Down
    PROVE  Claims'
<1>1. \A h \in Calls : Settled(h)' <=> Settled(h)
  BY DEF Calm, Settled, Flag!Settled
<1>2. \A h \in Calls : life[h] \in Nat /\ life[h] <= crashes /\ crashes \in Nat
  BY SessionAssumption DEF IInv, Claims, Stage, TypeOK
<1>3. Stage' /\ Writers'
  BY <1>2 DEF IInv, Claims, Calm, Down, Stage, Writers
<1>4. Obeyed'
  BY <1>2 DEF Calm, Down, Obeyed
<1>5. NoOrphan' /\ NoGhost' /\ InactiveSeen'
  BY DEF Down, NoOrphan, NoGhost, InactiveSeen
<1>6. InactiveExplained'
  BY <1>1, Kinds DEF IInv, Claims, Calm, Alive, Down, InactiveExplained
<1> QED  BY <1>3, <1>4, <1>5, <1>6 DEF Claims

(* A start of the present life is disobeyed only by a stop after its check.   *)
LEMMA StartsObeyed ==
    ASSUME TypeOK, Obeyed, NEW s \in Calls, KindOf[s] = "start", Settled(s),
           life[s] = crashes, ~isStreaming
    PROVE  \E k \in window[s] : KindOf[k] = "stop"
<1>1. PICK k \in window[s] : KindOf[k] \notin {"start", "status"}
  BY DEF Obeyed, Flag!Wanted
<1>2. k \in Calls
  BY DEF TypeOK, Flag!TypeOK
<1> QED  BY <1>1, <1>2, Kinds

(* A request is served: a start or stop that finds the other value is not     *)
(* settled yet, and one that finds its own has nothing to do.                 *)
LEMMA ServeStep ==
    ASSUME IInv, NEW h \in Calls, Serve(h)
    PROVE  Claims'
<1> USE DEF IInv, Claims
<1>1. /\ UNCHANGED <<isStreaming, window, owner, crashes, up>>
      /\ ~Served(h) /\ Served(h)' /\ life'[h] = crashes
      /\ statusMessage'[h] = Flag!Answer(KindOf[h], isStreaming)
      /\ pc'[h] # "check"
      /\ Settled(h)' <=> ~Flag!MustWrite(h, isStreaming)
  BY DEF Serve, Flag!CheckStreaming, Served, TypeOK, Flag!TypeOK, Flag!Decided,
         Settled, Flag!Settled
<1>2. \A g \in Calls \ {h} :
          /\ pc'[g] = pc[g] /\ statusMessage'[g] = statusMessage[g]
          /\ life'[g] = life[g]
          /\ Served(g)' <=> Served(g)
          /\ Settled(g)' <=> Settled(g)
  BY DEF Serve, Flag!CheckStreaming, Served, TypeOK, Flag!TypeOK,
         Settled, Flag!Settled
<1>3. /\ statusMessage'[h] = "Stream is inactive" <=> KindOf[h] = "status" /\ ~isStreaming
      /\ KindOf[h] = "start" => (Settled(h)' <=> isStreaming)
      /\ KindOf[h] = "stop" => (Settled(h)' <=> ~isStreaming)
  BY <1>1, Kinds DEF Flag!Answer, Flag!MustWrite, Flag!Wanted, TypeOK, Flag!TypeOK
<1>4. Stage' /\ Writers'
  <2>1. pc'[h] = "set" => KindOf[h] # "status" /\ Runner \in up
    BY DEF Serve, Flag!CheckStreaming, Flag!MustWrite, Flag!Decided, TypeOK, Flag!TypeOK
  <2>2. UNCHANGED <<lost, up>>
    BY DEF Serve
  <2> QED  BY <1>1, <1>2, <2>1, <2>2, SessionAssumption DEF Stage, Writers, TypeOK
<1>5. NoOrphan'
  <2> SUFFICES ASSUME isStreaming
               PROVE  \E s \in owner : /\ Runner \in up
                                       /\ \/ ~Settled(StopOf(s))'
                                          \/ s \in window[StopOf(s)]
    BY <1>1 DEF NoOrphan
  <2>1. PICK s \in owner : /\ Runner \in up
                           /\ ~Settled(StopOf(s)) \/ s \in window[StopOf(s)]
    BY DEF NoOrphan
  <2>2. s \in Calls /\ StopOf(s) \in Calls /\ KindOf[StopOf(s)] = "stop"
    BY Kinds DEF TypeOK
  <2> QED  BY <1>2, <1>3, <2>1, <2>2
<1>6. Obeyed'
  <2> SUFFICES ASSUME NEW g \in Calls, KindOf[g] # "status", Settled(g)',
                      life'[g] = crashes, isStreaming # (KindOf[g] = "start")
               PROVE  \E k \in window[g] : KindOf[k] \notin {KindOf[g], "status"}
    BY <1>1 DEF Obeyed, Flag!Wanted
  <2>1. isStreaming \in BOOLEAN /\ KindOf[h] \in {"start", "stop", "status"}
    BY Kinds DEF TypeOK, Flag!TypeOK
  <2>2. g # h
    BY <1>3, <2>1
  <2> QED  BY <1>2, <2>2 DEF Obeyed, Flag!Wanted
<1>7. InactiveSeen'
  BY <1>1, <1>2, <1>3 DEF InactiveSeen
<1>9. NoGhost'
  BY <1>1, <1>2 DEF NoGhost, TypeOK
<1>8. InactiveExplained'
  <2> SUFFICES ASSUME NEW q \in Calls, q.at = 5, Served(q)', Settled(StartOf(q))',
                      life'[q] = life'[StartOf(q)],
                      statusMessage'[q] = "Stream is inactive"
               PROVE  \/ \E g \in window[q] : KindOf[g] = "start"
                      \/ \E k \in window[StartOf(q)] : KindOf[k] = "stop"
    BY <1>1 DEF InactiveExplained
  <2> DEFINE s == StartOf(q)
  <2>1. s \in Calls /\ s # q /\ KindOf[s] = "start"
    BY Kinds
  <2>2. CASE h = q
    BY <1>1, <1>2, <1>3, <2>1, <2>2, StartsObeyed
  <2>3. CASE h = s
    <3>1. isStreaming /\ Served(q) /\ statusMessage[q] = "Stream is inactive"
      BY <1>2, <1>3, <2>1, <2>3
    <3> QED  BY <3>1, Kinds DEF InactiveSeen
  <2>4. CASE h # q /\ h # s
    BY <1>2, <2>1, <2>4 DEF InactiveExplained
  <2> QED  BY <2>2, <2>3, <2>4
<1> QED  BY <1>4, <1>5, <1>6, <1>7, <1>8, <1>9

(* The flag is written: the writer is in the window of all who have looked. *)
LEMMA WriteStep ==
    ASSUME IInv, NEW h \in Calls, Write(h)
    PROVE  Claims'
<1> USE DEF IInv, Claims
<1>1. /\ UNCHANGED <<statusMessage, life, crashes, up, phase>>
      /\ Served(h) /\ ~Settled(h) /\ Settled(h)'
      /\ isStreaming' = (KindOf[h] = "start")
      /\ pc'[h] # "check"
  BY DEF Write, Flag!SetStreaming, Served, TypeOK, Flag!TypeOK, Flag!Decided,
         Settled, Flag!Settled, Flag!Wanted, Stage
<1>2. \A g \in Calls \ {h} : /\ pc'[g] = pc[g]
                             /\ Settled(g)' <=> Settled(g)
  BY DEF Write, Flag!SetStreaming, TypeOK, Flag!TypeOK, Settled, Flag!Settled, Served
<1>3. /\ \A g \in Calls : Served(g)' <=> Served(g)
      /\ \A g \in Calls : window[g] \subseteq window'[g]
      /\ \A g \in Calls \ {h} : Served(g) => h \in window'[g]
  BY <1>1 DEF Write, Flag!SetStreaming, TypeOK, Flag!TypeOK, Served, Stage
<1>4. Stage' /\ Writers'
  <2>1. UNCHANGED <<lost, up>> /\ pc'[h] # "set"
    BY DEF Write, Flag!SetStreaming, Flag!Decided, TypeOK, Flag!TypeOK
  <2> QED  BY <1>1, <1>2, <1>3, <2>1 DEF Stage, Writers
<1>5. NoOrphan'
  <2> SUFFICES ASSUME KindOf[h] = "start"
               PROVE  \E s \in owner' : /\ Runner \in up
                                        /\ \/ ~Settled(StopOf(s))'
                                           \/ s \in window'[StopOf(s)]
    BY <1>1 DEF NoOrphan
  <2>1. CASE isStreaming
    <3>1. PICK s \in owner : /\ Runner \in up
                             /\ ~Settled(StopOf(s)) \/ s \in window[StopOf(s)]
      BY <2>1 DEF NoOrphan
    <3>2. owner' = owner
      BY <2>1 DEF Write, Flag!Wanted
    <3>3. s \in Calls /\ StopOf(s) \in Calls /\ StopOf(s) # h
      BY Kinds DEF TypeOK
    <3> QED  BY <1>2, <1>3, <3>1, <3>2, <3>3
  <2>2. CASE ~isStreaming
    <3>1. owner' = {h}
      BY <2>2 DEF Write, Flag!Wanted
    <3>2. StopOf(h) \in Calls /\ StopOf(h) # h
      BY Kinds
    <3>3. Settled(StopOf(h))' => h \in window'[StopOf(h)]
      BY <1>2, <1>3, <3>2 DEF Settled
    <3>4. Runner \in up
      BY DEF Write, Flag!SetStreaming, Writers
    <3> QED  BY <3>1, <3>3, <3>4
  <2> QED  BY <2>1, <2>2
<1>9. h \notin lost /\ pc[h] = "set" /\ KindOf[h] # "status" /\ life[h] = crashes
  BY DEF Write, Flag!SetStreaming, Writers
<1>6. Obeyed'
  <2> SUFFICES ASSUME NEW g \in Calls, KindOf[g] # "status", Settled(g)',
                      isStreaming' # (KindOf[g] = "start")
               PROVE  \E k \in window'[g] : KindOf[k] \notin {KindOf[g], "status"}
    BY DEF Obeyed, Flag!Wanted
  <2>1. g # h /\ Served(g) /\ KindOf[h] # KindOf[g]
    BY <1>1, <1>2, <1>3 DEF Settled
  <2> QED  BY <1>3, <1>9, <2>1
<1>10. NoGhost'
  <2>1. CASE KindOf[h] # "start"
    BY <1>1, <2>1 DEF NoGhost
  <2>2. CASE KindOf[h] = "start" /\ isStreaming
    <3>1. owner' = owner
      BY <2>2 DEF Write, Flag!Wanted
    <3> QED  BY <1>1, <1>3, <2>2, <3>1 DEF NoGhost, TypeOK
  <2>3. CASE KindOf[h] = "start" /\ ~isStreaming
    <3>1. owner' = {h}
      BY <2>3 DEF Write, Flag!Wanted
    <3> QED  BY <1>1, <1>3, <1>9, <3>1 DEF NoGhost
  <2> QED  BY <2>1, <2>2, <2>3
<1>7. InactiveSeen'
  <2> SUFFICES ASSUME NEW q \in Calls, KindOf[q] = "status", Served(q),
                      KindOf[h] = "start"
               PROVE  \E g \in window'[q] : KindOf[g] = "start"
    BY <1>1, <1>3 DEF InactiveSeen
  <2> QED  BY <1>3
<1>8. InactiveExplained'
  <2> SUFFICES ASSUME NEW q \in Calls, q.at = 5, Served(q)', Settled(StartOf(q))',
                      life'[q] = life'[StartOf(q)],
                      statusMessage'[q] = "Stream is inactive"
               PROVE  \/ \E g \in window'[q] : KindOf[g] = "start"
                      \/ \E k \in window'[StartOf(q)] : KindOf[k] = "stop"
    BY DEF InactiveExplained
  <2> DEFINE s == StartOf(q)
  <2>1. s \in Calls /\ s # q /\ KindOf[s] = "start" /\ KindOf[q] = "status"
    BY Kinds
  <2>2. CASE h = s
    BY <1>3, <2>1, <2>2
  <2>3. CASE h # s
    BY <1>1, <1>2, <1>3, <2>1, <2>3 DEF InactiveExplained
  <2> QED  BY <2>2, <2>3
<1> QED  BY <1>4, <1>5, <1>6, <1>7, <1>8, <1>10

-----------------------------------------------------------------------------

LEMMA Inductive == IInv /\ [Next]_vars => IInv'
<1> SUFFICES ASSUME IInv, [Next]_vars PROVE IInv'
  OBVIOUS
<1>1. TypeOK /\ TypeOK'
  BY TypeStep DEF IInv
<1>2. CASE Next
  <2>1. Claims'
    BY <1>1, <1>2, ActionKinds, CalmStep, CrashStep, ServeStep, WriteStep
  <2> QED  BY <1>1, <2>1 DEF IInv
<1>3. CASE UNCHANGED vars
  <2>1. Calm /\ Alive
    BY <1>3 DEF vars, flagVars, Calm, Alive, Served
  <2> QED  BY <1>1, <2>1, CalmStep DEF IInv
<1> QED  BY <1>2, <1>3

LEMMA AlwaysIInv == Spec => []IInv
<1> QED  BY InitIInv, Inductive, PTL DEF Spec

(***************************************************************************)
(* The variables of the session have their types, for any clients, visits, *)
(* faults and crashes.  ping.go:25, mobile_client/main.go:495-536.         *)
(***************************************************************************)
THEOREM TypeCorrect == Spec => []TypeOK
<1>1. IInv => TypeOK
  BY DEF IInv
<1> QED  BY <1>1, AlwaysIInv, PTL

(***************************************************************************)
(* However many clients race for the flag, and whatever fails, a stream    *)
(* runs only for a visit whose StopStream was not handled or was overtaken *)
(* by its StartStream.  startstream.go:31-34, stopstream.go:31-37.         *)
(***************************************************************************)
THEOREM NoOrphanHolds == Spec => []NoOrphan
<1>1. IInv => NoOrphan
  BY DEF IInv, Claims
<1> QED  BY <1>1, AlwaysIInv, PTL

(***************************************************************************)
(* However many clients there are, a status that finds the stream of its   *)
(* visit gone was overtaken by a start or somebody has stopped the stream  *)
(* since, or the runner has been restarted.  startstream.go:31,            *)
(* status.go:31.                                                           *)
(***************************************************************************)
THEOREM InactiveExplainedHolds == Spec => []InactiveExplained
<1>1. IInv => InactiveExplained
  BY DEF IInv, Claims
<1> QED  BY <1>1, AlwaysIInv, PTL

(***************************************************************************)
(* However often the runner goes down, and whatever was on its way to it   *)
(* or half handled then: a stream that runs was started by a StartStream   *)
(* that the present life has served.  ping.go:25, startstream.go:31-34.    *)
(***************************************************************************)
THEOREM NoGhostHolds == Spec => []NoGhost
<1>1. IInv => NoGhost
  BY DEF IInv, Claims
<1> QED  BY <1>1, AlwaysIInv, PTL

(***************************************************************************)
(* Whatever is refused, lost or crashed, what a start or a stop has done   *)
(* is undone only by a request of the other kind that wrote after it had   *)
(* looked, or by a restart.  startstream.go:31-39, stopstream.go:31-38.    *)
(***************************************************************************)
THEOREM ObeyedHolds == Spec => []Obeyed
<1>1. IInv => Obeyed
  BY DEF IInv, Claims
<1> QED  BY <1>1, AlwaysIInv, PTL

-----------------------------------------------------------------------------
(* What is left of a stream when nobody has anything more to do.             *)

(* Every client that is up has made its calls, and no request is on its way   *)
(* or half handled.                                                           *)
Quiet ==
    \A h \in Calls :
        /\ phase[h] = "idle" => h.client \notin up
        /\ h \in InRunner => h \in lost

(***************************************************************************)
(* The safety half of StreamEnds: a stream that still runs then is that of *)
(* a visit whose client went down, or whose StopStream was refused, lost   *)
(* or overtaken.  mobile_client/main.go:525-528.                           *)
(***************************************************************************)
THEOREM QuietStream ==
    Spec => [](Quiet /\ isStreaming =>
                  \E s \in owner : \/ s.client \notin up
                                   \/ phase[StopOf(s)] = "refused"
                                   \/ StopOf(s) \in lost
                                   \/ s \in window[StopOf(s)])
<1>1. ASSUME IInv, Quiet, isStreaming
      PROVE  \E s \in owner : \/ s.client \notin up
                              \/ phase[StopOf(s)] = "refused"
                              \/ StopOf(s) \in lost
                              \/ s \in window[StopOf(s)]
  <2>1. PICK s \in owner : ~Settled(StopOf(s)) \/ s \in window[StopOf(s)]
    BY <1>1 DEF IInv, Claims, NoOrphan
  <2>2. s \in Calls /\ StopOf(s) \in Calls
    BY <1>1, <2>1, Kinds DEF IInv, TypeOK
  <2>3. StopOf(s).client = s.client
    BY <2>2 DEF StopOf, Calls
  <2>4. phase[StopOf(s)] \in {"idle", "sent", "refused", "served"}
    BY <1>1, <2>2 DEF IInv, TypeOK
  <2>5. CASE Served(StopOf(s)) /\ ~Settled(StopOf(s))
    <3>1. pc[StopOf(s)] = "set"
      BY <1>1, <2>2, <2>5 DEF IInv, Claims, Stage, Settled, Flag!Settled
    <3> QED  BY <1>1, <2>1, <2>2, <2>5, <3>1 DEF Quiet, InRunner, Served
  <2>6. CASE phase[StopOf(s)] = "sent"
    BY <1>1, <2>1, <2>2, <2>6 DEF Quiet, InRunner
  <2>7. CASE phase[StopOf(s)] = "idle"
    BY <1>1, <2>1, <2>2, <2>3, <2>7 DEF Quiet
  <2> QED  BY <2>1, <2>4, <2>5, <2>6, <2>7 DEF Served
<1> QED  BY <1>1, AlwaysIInv, PTL
=============================================================================
