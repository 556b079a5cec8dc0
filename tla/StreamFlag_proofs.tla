-------------------------- MODULE StreamFlag_proofs --------------------------
(***************************************************************************)
(* The invariants of StreamFlag for any number of handlers of any kinds.   *)
(*                                                                         *)
(* LastWord is inductive once the types are known: whoever moves the flag  *)
(* away from what h asked for enters h's window.  The other two follow the *)
(* history of the check: Belief ties the text a handler settled on to the  *)
(* value it read, and OneFlip is carried by LastWord at the second check.  *)
(***************************************************************************)
EXTENDS StreamFlag, TLAPS

(* The text of every handler that has checked is one its kind can give, and a *)
(* handler about to write is one that found the other value.                  *)
Belief ==
    \A h \in Handlers : Checked(h) =>
        /\ \E flag \in BOOLEAN : statusMessage[h] = Answer(Kind[h], flag)
        /\ pc[h] = "set" => /\ Kind[h] # "status"
                            /\ statusMessage[h] = Answer(Kind[h], ~Wanted(h))
        /\ pc[h] = "build" => Kind[h] # "stop"

(* A start or status that has checked but not built: if the flag now differs  *)
(* from what its text says, a writer of the flag's value is in its window.    *)
DriftHasWriter ==
    \A h \in Handlers :
        pc[h] = "build" /\ ~Agrees(isStreaming, statusMessage[h]) =>
            \E g \in window[h] : Kind[g] = IF isStreaming THEN "start" ELSE "stop"

(* A handler that has not checked has no text yet and no one in its window.   *)
Fresh == \A h \in Handlers : pc[h] = "check" => statusMessage[h] = "unknown"

IInv == TypeOK /\ Fresh /\ Belief /\ LastWord /\ DriftHasWriter
               /\ TornReplyHasWriter /\ OneFlipAtATime

-----------------------------------------------------------------------------

LEMMA InitIInv == Init => IInv
  BY KindAssumption
  DEF Init, IInv, TypeOK, Fresh, Belief, LastWord, DriftHasWriter,
      TornReplyHasWriter, OneFlipAtATime, Checked, Settled, Built, Starts, Stops

(* Types are preserved by every step of every handler. *)
LEMMA TypeStep == TypeOK /\ [Next]_vars => TypeOK'
<1> SUFFICES ASSUME TypeOK, [Next]_vars PROVE TypeOK'
  OBVIOUS
<1> USE KindAssumption DEF TypeOK
<1>1. ASSUME NEW h \in Handlers, CheckStreaming(h) PROVE TypeOK'
  <2>1. Answer(Kind[h], isStreaming) \in
            {"SUCCESS", "ALREADY_STREAMING", "STREAM_STOPPED",
             "NOT_STREAMING_PREVIOUSLY", "Stream is active", "Stream is inactive"}
    BY DEF Answer
  <2> QED  BY <1>1, <2>1 DEF CheckStreaming, Decided
<1>2. ASSUME NEW h \in Handlers, SetStreaming(h) PROVE TypeOK'
  BY <1>2 DEF SetStreaming, Decided, Wanted
<1>3. ASSUME NEW h \in Handlers, BuildResponse(h) PROVE TypeOK'
  BY <1>3 DEF BuildResponse
<1>4. ASSUME NEW h \in Handlers, SendResponse(h) PROVE TypeOK'
  BY <1>4 DEF SendResponse
<1>5. CASE UNCHANGED vars
  BY <1>5 DEF vars
<1> QED  BY <1>1, <1>2, <1>3, <1>4, <1>5 DEF Next, Handle

(* TypeOK holds in every reachable state, for every set of handlers. *)
THEOREM TypeCorrect == Spec => []TypeOK
<1>1. Init => TypeOK
  BY InitIInv DEF IInv
<1> QED  BY <1>1, TypeStep, PTL DEF Spec

-----------------------------------------------------------------------------

(* The conjuncts of IInv that say what a single handler knows. *)
LEMMA LocalStep == TypeOK /\ Fresh /\ Belief /\ [Next]_vars => Fresh' /\ Belief'
<1> SUFFICES ASSUME TypeOK, Fresh, Belief, [Next]_vars PROVE Fresh' /\ Belief'
  OBVIOUS
<1> USE KindAssumption DEF TypeOK
<1>1. ASSUME NEW h \in Handlers, CheckStreaming(h) PROVE Fresh' /\ Belief'
  <2>1. statusMessage'[h] = Answer(Kind[h], isStreaming)
    BY <1>1 DEF CheckStreaming
  <2>2. pc'[h] = IF MustWrite(h, isStreaming) THEN "set" ELSE Decided(h)
    BY <1>1 DEF CheckStreaming
  <2>3. MustWrite(h, isStreaming) => Kind[h] # "status" /\ isStreaming = ~Wanted(h)
    BY DEF MustWrite, Wanted
  <2>4. \A g \in Handlers : g # h => pc'[g] = pc[g] /\ statusMessage'[g] = statusMessage[g]
    BY <1>1 DEF CheckStreaming
  <2>5. pc'[h] # "check" /\ (pc'[h] = "build" => Kind[h] # "stop")
    BY <2>2 DEF Decided
  <2>6. pc'[h] = "set" => Kind[h] # "status" /\ statusMessage'[h] = Answer(Kind[h], ~Wanted(h))
    BY <2>1, <2>2, <2>3 DEF Decided
  <2> QED  BY <2>1, <2>4, <2>5, <2>6 DEF Fresh, Belief, Checked
<1>2. ASSUME NEW h \in Handlers, SetStreaming(h) PROVE Fresh' /\ Belief'
  BY <1>2 DEF SetStreaming, Fresh, Belief, Checked, Decided
<1>3. ASSUME NEW h \in Handlers, BuildResponse(h) PROVE Fresh' /\ Belief'
  BY <1>3 DEF BuildResponse, Fresh, Belief, Checked
<1>4. ASSUME NEW h \in Handlers, SendResponse(h) PROVE Fresh' /\ Belief'
  <2>1. pc[h] = "send" /\ statusMessage' = statusMessage
    BY <1>4 DEF SendResponse
  <2>2. PICK ok \in BOOLEAN : pc' = [pc EXCEPT ![h] = IF ok THEN "replied" ELSE "failed"]
    BY <1>4 DEF SendResponse
  <2> QED  BY <2>1, <2>2 DEF Fresh, Belief, Checked
<1>5. CASE UNCHANGED vars
  BY <1>5 DEF vars, Fresh, Belief, Checked
<1> QED  BY <1>1, <1>2, <1>3, <1>4, <1>5 DEF Next, Handle

(* A write moves the writer into the window of everyone who has checked, and  *)
(* takes nobody out of a window.                                              *)
LEMMA WindowStep ==
    ASSUME TypeOK, NEW w \in Handlers, SetStreaming(w), NEW h \in Handlers
    PROVE  /\ window[h] \subseteq window'[h]
           /\ h # w /\ Checked(h) => w \in window'[h]
  BY DEF TypeOK, SetStreaming, Checked

(* The claims about the flag against the windows. *)
LEMMA FlagStep ==
    TypeOK /\ Belief /\ LastWord /\ DriftHasWriter /\ [Next]_vars => LastWord' /\ DriftHasWriter'
<1> SUFFICES ASSUME TypeOK, Belief, LastWord, DriftHasWriter, [Next]_vars
             PROVE  LastWord' /\ DriftHasWriter'
  OBVIOUS
<1> USE KindAssumption DEF TypeOK
<1>1. ASSUME NEW h \in Handlers, CheckStreaming(h) PROVE LastWord' /\ DriftHasWriter'
  <2>1. isStreaming' = isStreaming /\ window' = window
    BY <1>1 DEF CheckStreaming
  <2>2. \A g \in Handlers : g # h => pc'[g] = pc[g] /\ statusMessage'[g] = statusMessage[g]
    BY <1>1 DEF CheckStreaming
  <2>3. pc'[h] = IF MustWrite(h, isStreaming) THEN "set" ELSE Decided(h)
    BY <1>1 DEF CheckStreaming
  <2>4. Kind[h] # "status" /\ isStreaming # Wanted(h) => pc'[h] = "set"
    BY <2>3 DEF MustWrite
  <2>5. LastWord'
    BY <2>1, <2>2, <2>4 DEF LastWord, Settled, Starts, Stops, Wanted
  <2>6. statusMessage'[h] = Answer(Kind[h], isStreaming)
    BY <1>1 DEF CheckStreaming
  <2>7. pc'[h] = "build" => Agrees(isStreaming, statusMessage'[h])
    BY <2>3, <2>4, <2>6 DEF Decided, Answer, Agrees, Wanted
  <2>8. DriftHasWriter'
    BY <2>1, <2>2, <2>7 DEF DriftHasWriter
  <2> QED  BY <2>5, <2>8
<1>2. ASSUME NEW w \in Handlers, SetStreaming(w) PROVE LastWord' /\ DriftHasWriter'
  <2>1. /\ isStreaming' = Wanted(w)
        /\ statusMessage' = statusMessage
        /\ pc[w] = "set"
        /\ pc'[w] = Decided(w)
        /\ \A g \in Handlers : g # w => pc'[g] = pc[g]
    BY <1>2 DEF SetStreaming
  <2>2. Kind[w] # "status" /\ statusMessage[w] = Answer(Kind[w], ~Wanted(w))
    BY <2>1 DEF Belief, Checked
  <2>3. ASSUME NEW h \in Starts \union Stops, Settled(h)', isStreaming' # Wanted(h)
        PROVE  \E g \in window'[h] : Kind[g] # Kind[h]
    <3>1. h # w /\ Checked(h)
      BY <2>1, <2>3 DEF Settled, Checked, Starts, Stops
    <3>2. w \in window'[h]
      BY <1>2, <3>1, WindowStep DEF Starts, Stops
    <3>3. Kind[w] # Kind[h]
      BY <2>1, <2>3 DEF Wanted
    <3> QED  BY <3>2, <3>3
  <2>4. ASSUME NEW h \in Handlers, pc'[h] = "build",
               ~Agrees(isStreaming', statusMessage[h])
        PROVE  \E g \in window'[h] : Kind[g] = IF isStreaming' THEN "start" ELSE "stop"
    <3>1. CASE h = w
      BY <2>1, <2>2, <2>4, <3>1 DEF Answer, Agrees, Decided, Wanted
    <3>2. CASE h # w
      <4>1. w \in window'[h]
        BY <1>2, <2>1, <2>4, <3>2, WindowStep DEF Checked
      <4>2. Kind[w] = IF isStreaming' THEN "start" ELSE "stop"
        BY <2>1, <2>2 DEF Wanted
      <4> QED  BY <4>1, <4>2
    <3> QED  BY <3>1, <3>2
  <2>5. LastWord'
    BY <2>3 DEF LastWord, Settled, Starts, Stops, Wanted
  <2>6. DriftHasWriter'
    BY <2>1, <2>4 DEF DriftHasWriter
  <2> QED  BY <2>5, <2>6
<1>3. ASSUME NEW h \in Handlers, BuildResponse(h) PROVE LastWord' /\ DriftHasWriter'
  <2>1. /\ isStreaming' = isStreaming /\ window' = window /\ statusMessage' = statusMessage
        /\ pc[h] = "build" /\ pc' = [pc EXCEPT ![h] = "send"]
    BY <1>3 DEF BuildResponse
  <2>2. LastWord'
    BY <2>1 DEF LastWord, Settled, Starts, Stops, Wanted
  <2>3. DriftHasWriter'
    BY <2>1 DEF DriftHasWriter
  <2> QED  BY <2>2, <2>3
<1>4. ASSUME NEW h \in Handlers, SendResponse(h) PROVE LastWord' /\ DriftHasWriter'
  <2>1. /\ pc[h] = "send" /\ statusMessage' = statusMessage
        /\ isStreaming' = isStreaming /\ window' = window
    BY <1>4 DEF SendResponse
  <2>2. PICK ok \in BOOLEAN : pc' = [pc EXCEPT ![h] = IF ok THEN "replied" ELSE "failed"]
    BY <1>4 DEF SendResponse
  <2> QED  BY <2>1, <2>2 DEF LastWord, DriftHasWriter, Settled, Starts, Stops, Wanted
<1>5. CASE UNCHANGED vars
  BY <1>5 DEF vars, LastWord, DriftHasWriter, Settled, Starts, Stops, Wanted
<1> QED  BY <1>1, <1>2, <1>3, <1>4, <1>5 DEF Next, Handle

(* The claim about torn replies: a build that drifts has its writer already.  *)
LEMMA TornStep ==
    TypeOK /\ DriftHasWriter /\ TornReplyHasWriter /\ [Next]_vars => TornReplyHasWriter'
<1> SUFFICES ASSUME TypeOK, DriftHasWriter, TornReplyHasWriter, [Next]_vars
             PROVE  TornReplyHasWriter'
  OBVIOUS
<1> USE KindAssumption DEF TypeOK
<1>1. ASSUME NEW h \in Handlers, CheckStreaming(h) PROVE TornReplyHasWriter'
  <2>1. Built(h)' => Kind[h] = "stop"
    BY <1>1 DEF CheckStreaming, Built, Decided
  <2>2. \A g \in Handlers : g # h => pc'[g] = pc[g] /\ statusMessage'[g] = statusMessage[g]
    BY <1>1 DEF CheckStreaming
  <2>3. reply' = reply /\ window' = window
    BY <1>1 DEF CheckStreaming
  <2> QED  BY <2>1, <2>2, <2>3 DEF TornReplyHasWriter, Built
<1>2. ASSUME NEW w \in Handlers, SetStreaming(w) PROVE TornReplyHasWriter'
  <2>1. reply' = reply /\ statusMessage' = statusMessage
    BY <1>2 DEF SetStreaming
  <2>2. Built(w)' => Kind[w] = "stop"
    BY <1>2 DEF SetStreaming, Built, Decided
  <2>3. \A g \in Handlers : g # w => pc'[g] = pc[g]
    BY <1>2 DEF SetStreaming
  <2> QED  BY <1>2, <2>1, <2>2, <2>3, WindowStep DEF TornReplyHasWriter, Built
<1>3. ASSUME NEW h \in Handlers, BuildResponse(h) PROVE TornReplyHasWriter'
  <2>1. /\ pc[h] = "build" /\ pc' = [pc EXCEPT ![h] = "send"]
        /\ isStreaming' = isStreaming /\ window' = window /\ statusMessage' = statusMessage
    BY <1>3 DEF BuildResponse
  <2>2. PICK reread \in BOOLEAN :
            /\ reread = isStreaming \/ Agrees(reread, statusMessage[h])
            /\ reply' = [reply EXCEPT ![h] = reread]
    BY <1>3 DEF BuildResponse
  <2>3. ASSUME ~Agrees(reread, statusMessage[h])
        PROVE  \E g \in window[h] : Kind[g] = IF reread THEN "start" ELSE "stop"
    <3>1. reread = isStreaming
      BY <2>2, <2>3
    <3>2. ~Agrees(isStreaming, statusMessage[h])
      BY <2>3, <3>1
    <3>3. \E g \in window[h] : Kind[g] = IF isStreaming THEN "start" ELSE "stop"
      BY <2>1, <3>2 DEF DriftHasWriter
    <3> QED  BY <3>1, <3>3
  <2> QED  BY <2>1, <2>2, <2>3 DEF TornReplyHasWriter, Built
<1>4. ASSUME NEW h \in Handlers, SendResponse(h) PROVE TornReplyHasWriter'
  <2>1. /\ pc[h] = "send" /\ statusMessage' = statusMessage
        /\ reply' = reply /\ window' = window
    BY <1>4 DEF SendResponse
  <2>2. PICK ok \in BOOLEAN : pc' = [pc EXCEPT ![h] = IF ok THEN "replied" ELSE "failed"]
    BY <1>4 DEF SendResponse
  <2> QED  BY <2>1, <2>2 DEF TornReplyHasWriter, Built
<1>5. CASE UNCHANGED vars
  BY <1>5 DEF vars, TornReplyHasWriter, Built
<1> QED  BY <1>1, <1>2, <1>3, <1>4, <1>5 DEF Next, Handle

(* The claim about two flips: at the second check LastWord names the stop (or *)
(* start) in between; at the first write the second handler is already past   *)
(* its check, so the writer enters its window.                                *)
LEMMA FlipStep ==
    TypeOK /\ Fresh /\ Belief /\ LastWord /\ OneFlipAtATime /\ [Next]_vars => OneFlipAtATime'
<1> SUFFICES ASSUME TypeOK, Fresh, Belief, LastWord, OneFlipAtATime, [Next]_vars
             PROVE  OneFlipAtATime'
  OBVIOUS
<1> USE KindAssumption DEF TypeOK
<1>1. ASSUME NEW c \in Handlers, CheckStreaming(c) PROVE OneFlipAtATime'
  <2>1. /\ statusMessage'[c] = Answer(Kind[c], isStreaming)
        /\ pc'[c] = IF MustWrite(c, isStreaming) THEN "set" ELSE Decided(c)
        /\ isStreaming' = isStreaming /\ window' = window
        /\ \A g \in Handlers : g # c => pc'[g] = pc[g] /\ statusMessage'[g] = statusMessage[g]
    BY <1>1 DEF CheckStreaming
  <2>2. c \in Starts \union Stops /\ Flips(c)' => isStreaming # Wanted(c) /\ ~Settled(c)'
    BY <2>1 DEF Starts, Stops, Flips, Answer, MustWrite, Wanted, Settled
  <2>3. SUFFICES ASSUME NEW g \in Starts \union Stops, NEW h \in Starts \union Stops,
                        g # h, Kind[g] = Kind[h], Flips(g)', Flips(h)', Settled(g)', Checked(h)'
                 PROVE  g \in window'[h] \/ \E k \in window'[g] : Kind[k] # Kind[g]
    BY DEF OneFlipAtATime
  <2>4. g # c
    BY <2>2, <2>3
  <2>5. Flips(g) /\ Settled(g)
    BY <2>1, <2>3, <2>4 DEF Flips, Settled, Starts, Stops
  <2>6. CASE h = c
    <3>1. isStreaming # Wanted(g)
      BY <2>2, <2>3, <2>6 DEF Wanted
    <3> QED  BY <2>1, <2>5, <3>1 DEF LastWord
  <2>7. CASE h # c
    BY <2>1, <2>3, <2>5, <2>7 DEF OneFlipAtATime, Flips, Checked, Starts, Stops
  <2> QED  BY <2>6, <2>7
<1>2. ASSUME NEW w \in Handlers, SetStreaming(w) PROVE OneFlipAtATime'
  <2>1. statusMessage' = statusMessage /\ \A g \in Handlers : g # w => pc'[g] = pc[g]
    BY <1>2 DEF SetStreaming
  <2>2. Checked(w)
    BY <1>2 DEF SetStreaming, Checked
  <2>3. SUFFICES ASSUME NEW g \in Starts \union Stops, NEW h \in Starts \union Stops,
                        g # h, Kind[g] = Kind[h], Flips(g), Flips(h), Settled(g)', Checked(h)'
                 PROVE  g \in window'[h] \/ \E k \in window'[g] : Kind[k] # Kind[g]
    BY <2>1 DEF OneFlipAtATime, Flips
  <2>4. Checked(h)
    BY <2>1, <2>2, <2>3 DEF Checked, Starts, Stops
  <2>5. g \in Handlers /\ h \in Handlers
    BY DEF Starts, Stops
  <2>6. CASE g = w
    BY <1>2, <2>3, <2>4, <2>5, <2>6, WindowStep
  <2>7. CASE g # w
    <3>1. Settled(g)
      BY <2>1, <2>3, <2>5, <2>7 DEF Settled
    <3>2. g \in window[h] \/ \E k \in window[g] : Kind[k] # Kind[g]
      BY <2>3, <2>4, <3>1 DEF OneFlipAtATime
    <3> QED  BY <1>2, <2>5, <3>2, WindowStep
  <2> QED  BY <2>6, <2>7
<1>3. ASSUME NEW h \in Handlers, BuildResponse(h) PROVE OneFlipAtATime'
  BY <1>3 DEF BuildResponse, OneFlipAtATime, Flips, Settled, Checked, Starts, Stops
<1>4. ASSUME NEW h \in Handlers, SendResponse(h) PROVE OneFlipAtATime'
  <2>1. pc[h] = "send" /\ statusMessage' = statusMessage /\ window' = window
    BY <1>4 DEF SendResponse
  <2>2. PICK ok \in BOOLEAN : pc' = [pc EXCEPT ![h] = IF ok THEN "replied" ELSE "failed"]
    BY <1>4 DEF SendResponse
  <2> QED  BY <2>1, <2>2 DEF OneFlipAtATime, Flips, Settled, Checked, Starts, Stops
<1>5. CASE UNCHANGED vars
  BY <1>5 DEF vars, OneFlipAtATime, Flips, Settled, Checked
<1> QED  BY <1>1, <1>2, <1>3, <1>4, <1>5 DEF Next, Handle

-----------------------------------------------------------------------------

(* IInv is inductive. *)
LEMMA NextIInv == IInv /\ [Next]_vars => IInv'
  BY TypeStep, LocalStep, FlagStep, TornStep, FlipStep DEF IInv

(* Every reachable state satisfies the inductive invariant. *)
THEOREM Inductive == Spec => []IInv
  BY InitIInv, NextIInv, PTL DEF Spec

(* A start or a stop that has settled is obeyed until a handler of the other  *)
(* kind writes after its check.                                               *)
THEOREM LastWordHolds == Spec => []LastWord
<1>1. IInv => LastWord
  BY DEF IInv
<1> QED  BY <1>1, Inductive, PTL

(* A reply that contradicts itself always has a concurrent writer to blame.   *)
THEOREM TornReplyExplained == Spec => []TornReplyHasWriter
<1>1. IInv => TornReplyHasWriter
  BY DEF IInv
<1> QED  BY <1>1, Inductive, PTL

(* Two handlers of a kind both change the flag only by overlapping or with a  *)
(* handler of the other kind between them.                                    *)
THEOREM FlipsExplained == Spec => []OneFlipAtATime
<1>1. IInv => OneFlipAtATime
  BY DEF IInv
<1> QED  BY <1>1, Inductive, PTL
=============================================================================
