------------------------ MODULE InboundMessagesProofs ------------------------
(***************************************************************************)
(* Theorems of inbound messages, for every number of channels, messages,   *)
(* events, deliveries and faults, and every limit.                         *)
(*                                                                         *)
(* The invariants come in layers, each inductive on top of the first:      *)
(* Shape (types, and a delivery that runs has an event), OneReader (the    *)
(* lock of the periods, and the room its holder has read), Answering       *)
(* (what a delivery answers is settled), GoneMeansEmpty itself, Kept       *)
(* (what is billed is stored until it is erased), Single and Told (one     *)
(* transaction at a time works on an event, and what its row says of the   *)
(* message), and Tellings (what was announced and is about to be, against  *)
(* what was billed).                                                       *)
(***************************************************************************)
EXTENDS InboundMessages, FiniteSetTheorems, TLAPS

-----------------------------------------------------------------------------
(* Types. *)

Busy(h) == ~At(h, "idle") => call[h].event \in Events
Shape == TypeOK /\ \A h \in Handlers : Busy(h)

\* Moving a delivery leaves a delivery with the same event.
LEMMA Moved ==
    ASSUME Shape, NEW h \in Handlers, NEW s \in Steps
    PROVE  /\ [call[h] EXCEPT !.step = s] \in Call
           /\ [call[h] EXCEPT !.step = s].event = call[h].event
           /\ [call[h] EXCEPT !.step = s].waiting = call[h].waiting
           /\ [call[h] EXCEPT !.step = s].step = s
  BY DEF Shape, TypeOK, Call

\* Go keeps the shape of the deliveries, from a step that has an event.
LEMMA Going ==
    ASSUME Shape, NEW h \in Handlers, NEW s \in Steps, ~At(h, "idle"), Go(h, s)
    PROVE  call' \in [Handlers -> Call] /\ \A g \in Handlers : Busy(g)'
<1>1. call' \in [Handlers -> Call]
  BY Moved DEF Go, Shape, TypeOK
<1>2. ASSUME NEW g \in Handlers PROVE Busy(g)'
  <2>1. CASE g = h
    BY <2>1, Moved DEF Go, Busy, At, Shape, TypeOK
  <2>2. CASE g # h
    BY <2>2 DEF Go, Busy, At, Shape, TypeOK
  <2>3. QED
    BY <2>1, <2>2
<1>3. QED
  BY <1>1, <1>2

LEMMA Ending ==
    ASSUME Shape, NEW h \in Handlers, End(h)
    PROVE  call' \in [Handlers -> Call] /\ \A g \in Handlers : Busy(g)'
<1>1. Idle \in Call
  BY DEF Idle, Call, Steps
<1>2. call' \in [Handlers -> Call]
  BY <1>1 DEF End, Shape, TypeOK
<1>3. ASSUME NEW g \in Handlers PROVE Busy(g)'
  <2>1. CASE g = h
    BY <2>1 DEF End, Busy, At, Shape, TypeOK, Idle
  <2>2. CASE g # h
    BY <2>2 DEF End, Busy, At, Shape, TypeOK
  <2>3. QED
    BY <2>1, <2>2
<1>4. QED
  BY <1>2, <1>3

\* A delivery that runs has an event, whose message has a channel.
LEMMA Running ==
    ASSUME Shape, NEW h \in Handlers, ~At(h, "idle")
    PROVE  /\ call[h].event \in Events /\ Message(h) \in Messages
           /\ Route(call[h].event) = On[Message(h)] /\ On[Message(h)] \in Channels
  BY InboundAssumption DEF Shape, Busy, Message, Route

LEMMA Failing ==
    ASSUME Shape, NEW e \in Events, Failed(e)
    PROVE  /\ tries' \in [Events -> 0..MaxTries] /\ letter' \in [Events -> Letters]
           /\ \A f \in Events : letter'[f] = "delivered" => letter[f] = "delivered"
  BY InboundAssumption DEF Shape, TypeOK, Failed, Letters

LEMMA ShapeInit == Init => Shape
<1> SUFFICES ASSUME Init PROVE Shape
  OBVIOUS
<1>1. Idle \in Call
  BY DEF Idle, Call, Steps
<1>2. << >> \in Seq(Messages)
  OBVIOUS
<1>3. TypeOK
  BY <1>1, <1>2, InboundAssumption DEF Init, TypeOK, States, Statuses, Letters, Statements, Erasures
<1>4. ASSUME NEW h \in Handlers PROVE Busy(h)
  BY DEF Init, Busy, At, Idle
<1>5. QED
  BY <1>3, <1>4 DEF Shape

LEMMA ShapeNext == Shape /\ [Next]_vars => Shape'
<1> SUFFICES ASSUME Shape, [Next]_vars PROVE Shape'
  OBVIOUS
<1> USE InboundAssumption
<1>1. CASE Grant
  BY <1>1 DEF Grant, Shape, TypeOK, Busy, At
<1>2. ASSUME NEW e \in Events, Send(e) PROVE Shape'
  BY <1>2 DEF Send, Shape, TypeOK, Busy, At, Letters
<1>3. ASSUME NEW h \in Handlers, NEW e \in Events, Deliver(h, e) PROVE Shape'
  <2>1. PICK k \in Call : k.event = e /\ call' = [call EXCEPT ![h] = k]
    <3> DEFINE k == [step |-> IF Refuses(Route(e)) THEN "refused" ELSE "loaded",
                     event |-> e, waiting |-> channel[Route(e)] = "awaiting"]
    <3>1. k \in Call /\ k.event = e
      BY DEF Call, Steps
    <3>2. call' = [call EXCEPT ![h] = k]
      BY <1>3 DEF Deliver
    <3>3. QED
      BY <3>1, <3>2
  <2>2. call' \in [Handlers -> Call]
    BY <2>1 DEF Shape, TypeOK
  <2>3. ASSUME NEW g \in Handlers PROVE Busy(g)'
    BY <2>1 DEF Shape, TypeOK, Busy, At
  <2>4. QED
    BY <1>3, <2>2, <2>3 DEF Deliver, Shape, TypeOK
<1>4. ASSUME NEW h \in Handlers, Insert(h) PROVE Shape'
  <2>1. Found(call[h].event) \in Steps /\ ~At(h, "idle")
    BY <1>4 DEF Insert, Found, Steps, At
  <2>2. QED
    BY <1>4, <2>1, Going DEF Insert, Shape, TypeOK
<1>5. ASSUME NEW h \in Handlers, Permit(h) PROVE Shape'
  <2>1. "permitted" \in Steps /\ ~At(h, "idle")
    BY <1>5 DEF Permit, Steps, At
  <2>2. QED
    BY <1>5, <2>1, Going DEF Permit, Shape, TypeOK
<1>6. ASSUME NEW h \in Handlers, Exhaust(h) PROVE Shape'
  <2>1. "accepted" \in Steps /\ ~At(h, "idle")
    BY <1>6 DEF Exhaust, Steps, At
  <2>2. row' \in [Events -> Statuses]
    BY <1>6 DEF Exhaust, Reject, Statuses, Shape, TypeOK
  <2>3. QED
    BY <1>6, <2>1, <2>2, Going DEF Exhaust, Shape, TypeOK
<1>7. ASSUME NEW h \in Handlers, Store(h) PROVE Shape'
  <2>1. ~At(h, "idle") /\ \A s \in {"stored", "accepted"} : s \in Steps
    BY <1>7 DEF Store, Steps, At
  <2>2. Message(h) \in Messages
    BY <2>1, Running
  <2>3. usage' \in Seq(Messages)
    BY <1>7, <2>2 DEF Store, Shape, TypeOK
  <2>4. /\ stored' \subseteq Messages /\ row' \in [Events -> Statuses]
        /\ channel' \in [Channels -> States]
    BY <1>7, <2>2 DEF Store, Shape, TypeOK, Statuses, States
  <2>5. call' \in [Handlers -> Call] /\ \A g \in Handlers : Busy(g)'
    <3>1. PICK s \in {"stored", "accepted"} : Go(h, s)
      BY <1>7 DEF Store
    <3>2. QED
      BY <2>1, <3>1, Going
  <2>6. QED
    BY <1>7, <2>3, <2>4, <2>5 DEF Store, Shape, TypeOK
<1>8. ASSUME NEW h \in Handlers, Announce(h) PROVE Shape'
  <2>1. "accepted" \in Steps /\ ~At(h, "idle")
    BY <1>8 DEF Announce, Steps, At
  <2>2. announced' \in [Messages -> Nat]
    <3>1. Message(h) \in Messages
      BY <2>1, Running
    <3>2. announced[Message(h)] + 1 \in Nat
      BY <3>1 DEF Shape, TypeOK
    <3>3. QED
      BY <1>8, <3>1, <3>2 DEF Announce, Shape, TypeOK
  <2>3. QED
    BY <1>8, <2>1, <2>2, Going DEF Announce, Shape, TypeOK
<1>9. ASSUME NEW h \in Handlers, Accept(h) PROVE Shape'
  <2>1. letter' \in [Events -> Letters]
    BY <1>9 DEF Accept, Shape, TypeOK, Letters
  <2>2. QED
    BY <1>9, <2>1, Ending DEF Accept, Shape, TypeOK
<1>10. ASSUME NEW h \in Handlers, Refuse(h) PROVE Shape'
  <2>1. call[h].event \in Events
    BY <1>10, Running DEF Refuse, At
  <2>2. QED
    BY <1>10, <2>1, Ending, Failing DEF Refuse, Shape, TypeOK
<1>11. ASSUME NEW h \in Handlers, CutOff(h) PROVE Shape'
  <2>1. call[h].event \in Events
    BY <1>11, Running DEF CutOff
  <2>2. QED
    BY <1>11, <2>1, Ending, Failing DEF CutOff, Shape, TypeOK
<1>12. ASSUME NEW c \in Channels, Disconnect(c) \/ Connect(c) PROVE Shape'
  BY <1>12 DEF Disconnect, Connect, Shape, TypeOK, Busy, At, States
<1>13. ASSUME NEW c \in Channels, BeginRemoval(c) \/ EraseThreads(c) \/ BreakOff(c) PROVE Shape'
  <2>1. faults' \in 0..MaxFaults
    BY <1>13 DEF BeginRemoval, EraseThreads, BreakOff, Shape, TypeOK
  <2>2. PICK s \in Statements : removal' = [removal EXCEPT ![c] = s]
    BY <1>13 DEF BeginRemoval, EraseThreads, BreakOff, Statements
  <2>3. QED
    BY <1>13, <2>1, <2>2 DEF BeginRemoval, EraseThreads, BreakOff, Shape, TypeOK, Busy, At
<1>14. ASSUME NEW c \in Channels, EraseEvents(c) PROVE Shape'
  BY <1>14 DEF EraseEvents, Shape, TypeOK, Busy, At, Statements, Erasures, Statuses
<1>15. ASSUME NEW c \in Channels, EraseMessages(c) PROVE Shape'
  BY <1>15 DEF EraseMessages, Shape, TypeOK, Busy, At, Statements, Erasures
<1>16. ASSUME NEW c \in Channels, Remove(c) PROVE Shape'
  BY <1>16 DEF Remove, Shape, TypeOK, Busy, At, Statements, States
<1>17. CASE UNCHANGED vars
  BY <1>17 DEF vars, Shape, TypeOK, Busy, At
<1>18. QED
  BY <1>1, <1>2, <1>3, <1>4, <1>5, <1>6, <1>7, <1>8, <1>9, <1>10, <1>11, <1>12, <1>13, <1>14,
     <1>15, <1>16, <1>17 DEF Next, Continue, RemovalStep

LEMMA AlwaysShape == Spec => []Shape
  BY ShapeInit, ShapeNext, PTL DEF Spec

\* Every variable keeps its shape, in every behaviour.
THEOREM TypeCorrect == Spec => []TypeOK
<1>1. Shape => TypeOK
  BY DEF Shape
<1>2. QED
  BY <1>1, AlwaysShape, PTL

-----------------------------------------------------------------------------
(* The quota. *)

\* Who holds the lock of the periods is alone, and what it has read still holds.
OneReader ==
    /\ \A g, h \in Handlers : At(g, "permitted") /\ At(h, "permitted") => g = h
    /\ \A h \in Handlers : At(h, "permitted") => Len(usage) + 1 <= limit
    /\ QuotaIsRespected

\* The step of each delivery after one of them moved, or ended.
LEMMA StepsAfter ==
    ASSUME Shape, NEW h \in Handlers, NEW s \in Steps, Go(h, s)
    PROVE  /\ \A g \in Handlers : call'[g].step = IF g = h THEN s ELSE call[g].step
           /\ \A g \in Handlers : call'[g].event = call[g].event
           /\ \A g \in Handlers : call'[g].waiting = call[g].waiting
  BY Moved DEF Go, Shape, TypeOK

LEMMA StepsAfterEnd ==
    ASSUME Shape, NEW h \in Handlers, End(h)
    PROVE  \A g \in Handlers : call'[g] = IF g = h THEN Idle ELSE call[g]
  BY DEF End, Shape, TypeOK

LEMMA StepsAfterDelivery ==
    ASSUME Shape, NEW h \in Handlers, NEW e \in Events, Deliver(h, e)
    PROVE  /\ \A g \in Handlers \ {h} : call'[g] = call[g]
           /\ call'[h].step \in {"refused", "loaded"} /\ call'[h].event = e
  BY DEF Deliver, Shape, TypeOK

LEMMA QuotaNext == Shape /\ OneReader /\ [Next]_vars => OneReader'
<1> SUFFICES ASSUME Shape, OneReader, [Next]_vars PROVE OneReader'
  OBVIOUS
<1> USE DEF QuotaIsRespected
<1>1. CASE Grant
  <2>1. limit \in Nat /\ Len(usage) \in Nat
    BY InboundAssumption DEF Shape, TypeOK
  <2>2. QED
    BY <1>1, <2>1 DEF Grant, OneReader, At
<1>2. ASSUME NEW h \in Handlers, NEW e \in Events, Deliver(h, e) PROVE OneReader'
  <2>1. UNCHANGED <<usage, limit>>
    BY <1>2 DEF Deliver
  <2>2. QED
    BY <1>2, <2>1, StepsAfterDelivery DEF OneReader, At
<1>3. ASSUME NEW h \in Handlers, Insert(h) PROVE OneReader'
  <2>1. Found(call[h].event) \in Steps /\ Found(call[h].event) # "permitted"
    BY DEF Found, Steps
  <2>2. QED
    BY <1>3, <2>1, StepsAfter DEF Insert, OneReader, At
<1>4. ASSUME NEW h \in Handlers, Permit(h) PROVE OneReader'
  <2>1. "permitted" \in Steps
    BY DEF Steps
  <2>2. QED
    BY <1>4, <2>1, StepsAfter DEF Permit, Unlocked, OneReader, At
<1>5. ASSUME NEW h \in Handlers, Exhaust(h) \/ Announce(h) PROVE OneReader'
  <2>1. "accepted" \in Steps /\ Go(h, "accepted") /\ UNCHANGED <<usage, limit>>
    BY <1>5 DEF Steps, Exhaust, Announce
  <2>2. QED
    BY <2>1, StepsAfter DEF OneReader, At
<1>6. ASSUME NEW h \in Handlers, Store(h) PROVE OneReader'
  <2>1. PICK s \in {"stored", "accepted"} : Go(h, s)
    BY <1>6 DEF Store
  <2>2. s \in Steps
    BY DEF Steps
  <2>3. At(h, "permitted") /\ limit' = limit
    BY <1>6 DEF Store
  <2>4. \A g \in Handlers : call'[g].step # "permitted"
    BY <2>1, <2>2, <2>3, StepsAfter DEF OneReader, At
  <2>5. Len(usage') <= limit
    <3>1. Message(h) \in Messages
      BY <2>3, Running DEF At
    <3>2. usage' = usage \/ usage' = Append(usage, Message(h))
      BY <1>6 DEF Store
    <3>3. Len(usage) + 1 <= limit /\ Len(usage) <= limit /\ usage \in Seq(Messages)
      BY <2>3 DEF OneReader, Shape, TypeOK
    <3>4. QED
      BY <3>1, <3>2, <3>3
  <2>6. QED
    BY <2>3, <2>4, <2>5 DEF OneReader, At
<1>7. ASSUME NEW h \in Handlers, Accept(h) \/ Refuse(h) \/ CutOff(h) PROVE OneReader'
  <2>1. End(h) /\ UNCHANGED <<usage, limit>>
    BY <1>7 DEF Accept, Refuse, CutOff
  <2>2. QED
    BY <2>1, StepsAfterEnd DEF OneReader, At, Idle
<1>8. CASE UNCHANGED <<usage, limit, call>>
  BY <1>8 DEF OneReader, At
<1>9. QED
  BY <1>1, <1>2, <1>3, <1>4, <1>5, <1>6, <1>7, <1>8
     DEF Next, Continue, RemovalStep, Send, Disconnect, Connect, BeginRemoval, EraseEvents,
         EraseMessages, EraseThreads, Remove, BreakOff, vars

\* No number of deliveries bills more messages than the period allows: the
\* locked read is the only thing between two of them and the last message.
THEOREM QuotaHolds == Spec => []QuotaIsRespected
<1>1. Init => OneReader
  BY InboundAssumption DEF Init, OneReader, QuotaIsRespected, At, Idle
<1>2. OneReader => QuotaIsRespected
  BY DEF OneReader
<1>3. QED
  BY <1>1, <1>2, AlwaysShape, QuotaNext, PTL DEF Spec
-----------------------------------------------------------------------------
(* What is answered, and what is removed. *)

\* The channel of an event's message, in one word.
Wiped(e) == erased[Route(e)] # "nothing"
Settled(e) == row[e] # "none" \/ Wiped(e)

\* A delivery about to answer 2xx has settled its event.
Answering ==
    /\ \A h \in Handlers : At(h, "stored") \/ At(h, "accepted") => Settled(call[h].event)
    /\ DeliveredIsSettled

\* No step but a removal of the channel, which is recorded, unsettles an event.
LEMMA StaysSettled ==
    ASSUME Shape, [Next]_vars, NEW e \in Events, Settled(e)
    PROVE  Settled(e)'
<1> USE DEF Settled, Wiped, Route
<1>1. ASSUME NEW h \in Handlers, Exhaust(h) \/ Store(h) PROVE Settled(e)'
  BY <1>1 DEF Exhaust, Store, Reject, Shape, TypeOK
<1>2. ASSUME NEW c \in Channels, EraseEvents(c) \/ EraseMessages(c) PROVE Settled(e)'
  BY <1>2, InboundAssumption DEF EraseEvents, EraseMessages, Shape, TypeOK
<1>3. CASE UNCHANGED <<row, erased>>
  BY <1>3
<1>4. QED
  BY <1>1, <1>2, <1>3
     DEF Next, Continue, RemovalStep, Grant, Send, Deliver, Insert, Permit, Announce, Accept, Refuse,
         CutOff, Disconnect, Connect, BeginRemoval, EraseThreads, Remove, BreakOff, vars

LEMMA AnsweringNext == Shape /\ Answering /\ [Next]_vars => Answering'
<1> SUFFICES ASSUME Shape, Answering, [Next]_vars PROVE Answering'
  OBVIOUS
<1> USE StaysSettled DEF DeliveredIsSettled
<1>a. \A e \in Events : letter[e] = "delivered" => Settled(e)
  BY DEF Answering, Settled, Wiped
<1>b. ASSUME \A e \in Events : letter'[e] = "delivered" => Settled(e)' PROVE DeliveredIsSettled'
  BY <1>b DEF Settled, Wiped
<1>1. ASSUME NEW e \in Events, Send(e) PROVE Answering'
  <2>1. \A f \in Events : letter'[f] = "delivered" => letter[f] = "delivered"
    BY <1>1 DEF Send, Shape, TypeOK
  <2>2. \A h \in Handlers : ~At(h, "idle") => call[h].event \in Events
    BY Running
  <2>3. UNCHANGED call
    BY <1>1 DEF Send
  <2>4. QED
    BY <1>a, <1>b, <2>1, <2>2, <2>3 DEF Answering, At
<1>2. ASSUME NEW h \in Handlers, NEW e \in Events, Deliver(h, e) PROVE Answering'
  <2>1. UNCHANGED letter
    BY <1>2 DEF Deliver
  <2>2. \A g \in Handlers : ~At(g, "idle") => call[g].event \in Events
    BY Running
  <2>3. QED
    BY <1>2, <1>a, <1>b, <2>1, <2>2, StepsAfterDelivery DEF Answering, At
<1>3. ASSUME NEW h \in Handlers, Insert(h) \/ Permit(h) \/ Exhaust(h) \/ Store(h) \/ Announce(h)
      PROVE  Answering'
  <2>1. PICK s \in Steps : Go(h, s)
    BY <1>3 DEF Insert, Found, Permit, Exhaust, Store, Announce, Steps
  <2>2. UNCHANGED letter
    BY <1>3 DEF Insert, Permit, Exhaust, Store, Announce
  <2>3. ~At(h, "idle")
    BY <1>3 DEF Insert, Permit, Exhaust, Store, Announce, At
  <2>4. call[h].event \in Events
    BY <2>3, Running
  <2>5. ASSUME s \in {"stored", "accepted"} PROVE Settled(call[h].event)'
    <3> DEFINE e == call[h].event
    <3>e. e \in Events /\ call'[h].event = e
      BY <2>1, <2>4, StepsAfter
    <3>1. CASE Insert(h)
      <4>1. s = Found(call[h].event)
        <5>1. call'[h].step = s
          BY <2>1, StepsAfter
        <5>2. Found(call[h].event) \in Steps /\ Go(h, Found(call[h].event))
          BY <3>1 DEF Insert, Found, Steps
        <5>3. call'[h].step = Found(call[h].event)
          BY <5>2, StepsAfter
        <5>4. QED
          BY <5>1, <5>3
      <4>2. row[call[h].event] # "none"
        BY <2>5, <4>1 DEF Found
      <4>3. QED
        BY <3>e, <4>2, StaysSettled DEF Settled
    <3>2. CASE Permit(h)
      BY <2>1, <2>5, <3>2, StepsAfter DEF Permit, Steps
    <3>3. CASE Exhaust(h)
      BY <3>e, <3>3 DEF Exhaust, Reject, Settled, Shape, TypeOK
    <3>4. CASE Store(h)
      BY <3>e, <3>4 DEF Store, Settled, Shape, TypeOK
    <3>5. CASE Announce(h)
      BY <3>e, <3>5, StaysSettled DEF Announce, Answering, At
    <3>6. QED
      BY <1>3, <3>1, <3>2, <3>3, <3>4, <3>5
  <2>6. \A g \in Handlers : ~At(g, "idle") => call[g].event \in Events
    BY Running
  <2>7. QED
    BY <1>a, <1>b, <2>1, <2>2, <2>4, <2>5, <2>6, StepsAfter DEF Answering, At
<1>4. ASSUME NEW h \in Handlers, Accept(h) \/ Refuse(h) \/ CutOff(h) PROVE Answering'
  <2>1. End(h)
    BY <1>4 DEF Accept, Refuse, CutOff
  <2>2. \A g \in Handlers : ~At(g, "idle") => call[g].event \in Events
    BY Running
  <2>3. ASSUME NEW e \in Events, letter'[e] = "delivered" PROVE Settled(e)
    <3>1. CASE Accept(h)
      BY <1>a, <2>3, <3>1 DEF Accept, Answering, Shape, TypeOK
    <3>2. CASE Refuse(h) \/ CutOff(h)
      <4>1. Failed(call[h].event) /\ call[h].event \in Events
        BY <2>2, <3>2 DEF Refuse, CutOff, At
      <4>2. QED
        BY <1>a, <2>3, <4>1, Failing
    <3>3. QED
      BY <1>4, <3>1, <3>2
  <2>4. \A g \in Handlers : (At(g, "stored") \/ At(g, "accepted"))' => Settled(call[g].event)
    BY <2>1, StepsAfterEnd DEF Answering, At, Idle
  <2>5. \A g \in Handlers : At(g, "stored")' \/ At(g, "accepted")' => call'[g] = call[g]
    BY <2>1, StepsAfterEnd DEF At, Idle
  <2>6. QED
    BY <1>b, <2>2, <2>3, <2>4, <2>5 DEF Answering, At
<1>5. CASE UNCHANGED <<letter, call>>
  <2>1. \A g \in Handlers : ~At(g, "idle") => call[g].event \in Events
    BY Running
  <2>2. QED
    BY <1>5, <1>a, <1>b, <2>1 DEF Answering, At
<1>6. QED
  BY <1>1, <1>2, <1>3, <1>4, <1>5
     DEF Next, Continue, RemovalStep, Grant, Disconnect, Connect, BeginRemoval, EraseEvents,
         EraseMessages, EraseThreads, Remove, BreakOff, vars

\* An event answered with 2xx is stored, a duplicate or refused by the quota,
\* whatever is cut off, unless its channel's history was erased.
THEOREM NothingAnsweredIsLost == Spec => []DeliveredIsSettled
<1>1. Init => Answering
  BY DEF Init, Answering, DeliveredIsSettled, At, Idle
<1>2. Answering => DeliveredIsSettled
  BY DEF Answering
<1>3. QED
  BY <1>1, <1>2, AlwaysShape, AnsweringNext, PTL DEF Spec
-----------------------------------------------------------------------------
(* The removal of a channel against deliveries. *)

\* A delivery that goes on to a step, in the form the next proofs use.
LEMMA Stepping ==
    ASSUME Shape, NEW h \in Handlers,
           Insert(h) \/ Permit(h) \/ Exhaust(h) \/ Store(h) \/ Announce(h)
    PROVE  /\ \A g \in Handlers \ {h} : call'[g] = call[g]
           /\ call'[h].event = call[h].event /\ call[h].event \in Events
           /\ call'[h].step =
                IF Insert(h) THEN Found(call[h].event)
                ELSE IF Permit(h) THEN "permitted"
                ELSE IF Store(h) /\ Message(h) \notin stored THEN "stored" ELSE "accepted"
<1>1. ~At(h, "idle") /\ call[h].event \in Events
  BY Running DEF Insert, Permit, Exhaust, Store, Announce, At
<1>2. PICK s \in Steps : /\ Go(h, s)
                         /\ s = IF Insert(h) THEN Found(call[h].event)
                                ELSE IF Permit(h) THEN "permitted"
                                ELSE IF Store(h) /\ Message(h) \notin stored THEN "stored" ELSE "accepted"
  <2>1. CASE At(h, "loaded")
    BY <2>1 DEF Insert, Found, Permit, Exhaust, Store, Announce, Steps, At
  <2>2. CASE At(h, "inserted")
    BY <2>2 DEF Insert, Permit, Exhaust, Store, Announce, Steps, At
  <2>3. CASE At(h, "permitted")
    BY <2>3 DEF Insert, Permit, Exhaust, Store, Announce, Steps, At
  <2>4. CASE At(h, "stored")
    BY <2>4 DEF Insert, Permit, Exhaust, Store, Announce, Steps, At
  <2>5. QED
    BY <2>1, <2>2, <2>3, <2>4 DEF Insert, Permit, Exhaust, Store, Announce
<1>3. \A g \in Handlers \ {h} : call'[g] = call[g]
  BY <1>2 DEF Go, Shape, TypeOK
<1>4. QED
  BY <1>1, <1>2, <1>3, StepsAfter

\* Deliveries in a transaction after a step: those that were, and one more after
\* an insert that found no row and a channel that is there.
LEMMA TransactionsAfter ==
    ASSUME Shape, [Next]_vars, NEW g \in Handlers, InTransaction(g)'
    PROVE  /\ call'[g].event = call[g].event /\ call[g].event \in Events
           /\ \/ InTransaction(g)
              \/ Insert(g) /\ Found(call[g].event) = "inserted"
<1>1. ASSUME NEW h \in Handlers, NEW e \in Events, Deliver(h, e)
      PROVE  call'[g] = call[g]
  BY <1>1, StepsAfterDelivery DEF InTransaction, At
<1>2. ASSUME NEW h \in Handlers, Insert(h) \/ Permit(h) \/ Exhaust(h) \/ Store(h) \/ Announce(h)
      PROVE  \/ call'[g] = call[g]
             \/ /\ call'[g].event = call[g].event
                /\ InTransaction(g) \/ (Insert(g) /\ Found(call[g].event) = "inserted")
  <2>1. CASE g = h
    <3>1. call'[g].step \in {"inserted", "permitted"} /\ call'[g].event = call[g].event
      BY <1>2, <2>1, Stepping DEF InTransaction, At
    <3>2. CASE Insert(h)
      <4>1. call'[g].step = Found(call[g].event)
        BY <2>1, <3>2, Stepping
      <4>2. QED
        BY <2>1, <3>1, <3>2, <4>1 DEF Found
    <3>3. CASE ~Insert(h) /\ Permit(h)
      <4>1. At(h, "inserted")
        BY <3>3 DEF Permit
      <4>2. QED
        BY <2>1, <3>1, <4>1 DEF InTransaction, At
    <3>4. CASE ~Insert(h) /\ ~Permit(h)
      <4>1. call'[h].step \in {"stored", "accepted"}
        BY <1>2, <3>4, Stepping
      <4>2. QED
        BY <2>1, <3>1, <4>1
    <3>5. QED
      BY <3>2, <3>3, <3>4
  <2>2. CASE g # h
    BY <1>2, <2>2, Stepping
  <2>3. QED
    BY <2>1, <2>2
<1>3. ASSUME NEW h \in Handlers, Accept(h) \/ Refuse(h) \/ CutOff(h)
      PROVE  call'[g] = call[g]
  <2>1. End(h)
    BY <1>3 DEF Accept, Refuse, CutOff
  <2>2. QED
    BY <2>1, StepsAfterEnd DEF InTransaction, At, Idle
<1>4. ASSUME UNCHANGED call PROVE call'[g] = call[g]
  BY <1>4
<1>5. \/ call'[g] = call[g]
      \/ /\ call'[g].event = call[g].event
         /\ InTransaction(g) \/ (Insert(g) /\ Found(call[g].event) = "inserted")
  BY <1>1, <1>2, <1>3, <1>4
     DEF Next, Continue, RemovalStep, Grant, Send, Disconnect, Connect, BeginRemoval, EraseEvents,
         EraseMessages, EraseThreads, Remove, BreakOff, vars
<1>6. call'[g] = call[g] => InTransaction(g)
  BY DEF InTransaction, At
<1>7. call[g].event \in Events
  BY <1>5, <1>6, Running DEF InTransaction, Insert, At
<1>8. QED
  BY <1>5, <1>6, <1>7

LEMMA EmptyNext == Shape /\ GoneMeansEmpty /\ [Next]_vars => GoneMeansEmpty'
<1> SUFFICES ASSUME Shape, GoneMeansEmpty, [Next]_vars, NEW c \in Channels, channel'[c] = "absent"
             PROVE  /\ \A m \in stored' : On[m] # c
                    /\ \A e \in Events : Route(e) = c => row'[e] = "none"
                    /\ \A h \in Handlers : InTransaction(h)' => On[Of[call'[h].event]] # c
  BY DEF GoneMeansEmpty, Message, Route
<1> USE DEF Route
<1>1. CASE Remove(c)
  <2>1. ~Referred(c)
    BY <1>1 DEF Remove, Shape, TypeOK, GoneMeansEmpty, Referred
  <2>2. UNCHANGED <<stored, row, call>>
    BY <1>1 DEF Remove
  <2>3. \A h \in Handlers : InTransaction(h) => On[Message(h)] # c
    BY <1>1 DEF Remove
  <2>4. QED
    BY <2>1, <2>2, <2>3 DEF Referred, InTransaction, At, Message
<1>2. CASE ~Remove(c)
  <2>1. channel[c] = "absent"
    BY <1>2 DEF Next, Continue, RemovalStep, Grant, Send, Deliver, Insert, Permit, Exhaust, Store,
         Announce, Accept, Refuse, CutOff, Disconnect, Connect, BeginRemoval, EraseEvents,
         EraseMessages, EraseThreads, Remove, BreakOff, vars, Shape, TypeOK
  <2>2. /\ \A m \in stored : On[m] # c
        /\ \A e \in Events : On[Of[e]] = c => row[e] = "none"
        /\ \A h \in Handlers : InTransaction(h) => On[Message(h)] # c
    BY <2>1 DEF GoneMeansEmpty
  <2>3. \A h \in Handlers : InTransaction(h)' => On[Of[call'[h].event]] # c
    BY <2>1, <2>2, TransactionsAfter DEF Found, Message
  <2>4. ASSUME NEW h \in Handlers, Store(h) \/ Exhaust(h)
        PROVE  /\ \A m \in stored' : On[m] # c
               /\ \A e \in Events : On[Of[e]] = c => row'[e] = "none"
    <3>1. InTransaction(h)
      BY <2>4 DEF Store, Exhaust, InTransaction
    <3>2. QED
      BY <2>2, <2>4, <3>1 DEF Store, Exhaust, Reject, Message, Shape, TypeOK
  <2>5. CASE UNCHANGED <<stored, row>>
    BY <2>2, <2>3, <2>5
  <2>6. ASSUME NEW d \in Channels, EraseEvents(d) \/ EraseMessages(d)
        PROVE  /\ \A m \in stored' : On[m] # c
               /\ \A e \in Events : On[Of[e]] = c => row'[e] = "none"
    BY <2>2, <2>6 DEF EraseEvents, EraseMessages
  <2>7. QED
    BY <2>2, <2>3, <2>4, <2>5, <2>6
       DEF Next, Continue, RemovalStep, Grant, Send, Deliver, Insert, Permit, Announce, Accept,
           Refuse, CutOff, Disconnect, Connect, BeginRemoval, EraseThreads, Remove, BreakOff, vars
<1>3. QED
  BY <1>1, <1>2

\* A removal that succeeds leaves no message, no event and no delivery behind,
\* though nothing holds its statements together.
THEOREM RemovedIsEmpty == Spec => []GoneMeansEmpty
<1>1. Init => GoneMeansEmpty
  BY DEF Init, GoneMeansEmpty
<1>2. QED
  BY <1>1, AlwaysShape, EmptyNext, PTL DEF Spec
-----------------------------------------------------------------------------
(* What is billed. *)

Gone(m) == erased[On[m]] = "messages"

\* What is billed is stored, and is billed once, until it is erased.
Kept ==
    /\ \A i \in DOMAIN usage : Gone(usage[i]) \/ usage[i] \in stored
    /\ \A i, j \in DOMAIN usage : usage[i] = usage[j] => i = j \/ Gone(usage[i])

\* Only a removal takes a message away, and it is recorded.
LEMMA StaysGone ==
    ASSUME Shape, [Next]_vars, NEW m \in Messages
    PROVE  /\ Gone(m) => Gone(m)'
           /\ m \in stored => Gone(m)' \/ m \in stored'
<1>1. ASSUME NEW h \in Handlers, Store(h) PROVE UNCHANGED erased /\ stored \subseteq stored'
  BY <1>1 DEF Store
<1>2. ASSUME NEW c \in Channels, EraseEvents(c) PROVE UNCHANGED stored /\ (Gone(m) => Gone(m)')
  BY <1>2, InboundAssumption DEF EraseEvents, Gone, Shape, TypeOK
<1>3. ASSUME NEW c \in Channels, EraseMessages(c)
      PROVE  (Gone(m) => Gone(m)') /\ (m \in stored => Gone(m)' \/ m \in stored')
  BY <1>3, InboundAssumption DEF EraseMessages, Gone, Shape, TypeOK
<1>4. CASE UNCHANGED <<stored, erased>>
  BY <1>4 DEF Gone
<1>5. QED
  BY <1>1, <1>2, <1>3, <1>4
     DEF Next, Continue, RemovalStep, Grant, Send, Deliver, Insert, Permit, Exhaust, Announce,
         Accept, Refuse, CutOff, Disconnect, Connect, BeginRemoval, EraseThreads, Remove, BreakOff,
         vars, Gone

LEMMA KeptNext == Shape /\ Kept /\ [Next]_vars => Kept'
<1> SUFFICES ASSUME Shape, Kept, [Next]_vars PROVE Kept'
  OBVIOUS
<1>1. usage \in Seq(Messages)
  BY DEF Shape, TypeOK
<1>2. ASSUME UNCHANGED usage PROVE Kept'
  <2>1. \A i \in DOMAIN usage : usage[i] \in Messages
    BY <1>1
  <2>2. QED
    BY <1>2, <2>1, StaysGone DEF Kept, Gone
<1>3. ASSUME NEW h \in Handlers, Store(h), Message(h) \notin stored PROVE Kept'
  <2> DEFINE m == Message(h)
  <2>1. m \in Messages /\ usage' = Append(usage, m) /\ m \in stored'
    BY <1>3, Running DEF Store, Bills, At
  <2>2. UNCHANGED erased /\ stored \subseteq stored'
    BY <1>3 DEF Store
  <2>3. /\ DOMAIN usage' = DOMAIN usage \cup {Len(usage) + 1}
        /\ \A i \in DOMAIN usage : usage'[i] = usage[i]
        /\ usage'[Len(usage) + 1] = m
    BY <1>1, <2>1
  <2>4. \A i \in DOMAIN usage : usage[i] = m => Gone(m)
    BY <1>3 DEF Kept
  <2>5. \A n : Gone(n)' <=> Gone(n)
    BY <2>2 DEF Gone
  <2>6. \A i \in DOMAIN usage' : Gone(usage'[i]) \/ usage'[i] \in stored'
    BY <2>1, <2>2, <2>3 DEF Kept
  <2>7. \A i, j \in DOMAIN usage' : usage'[i] = usage'[j] => i = j \/ Gone(usage'[i])
    BY <2>3, <2>4 DEF Kept
  <2>8. QED
    BY <2>2, <2>6, <2>7 DEF Kept, Gone
<1>4. QED
  BY <1>2, <1>3
     DEF Next, Continue, RemovalStep, Grant, Send, Deliver, Insert, Permit, Exhaust, Store, Bills,
         Announce, Accept, Refuse, CutOff, Disconnect, Connect, BeginRemoval, EraseEvents,
         EraseMessages, EraseThreads, Remove, BreakOff, vars

\* More than one row in a set means two of them.
LEMMA TwoRows ==
    ASSUME NEW S, IsFiniteSet(S), Cardinality(S) > 1
    PROVE  \E i, j \in S : i # j
<1> SUFFICES ASSUME \A i, j \in S : i = j PROVE FALSE
  OBVIOUS
<1>1. S # {}
  BY FS_EmptySet
<1>2. PICK i : S = {i}
  BY <1>1
<1>3. QED
  BY <1>2, FS_Singleton

LEMMA Rows ==
    ASSUME Shape, NEW m \in Messages
    PROVE  /\ IsFiniteSet({i \in DOMAIN usage : usage[i] = m})
           /\ Billed(m) \in Nat
           /\ Billed(m) > 0 <=> \E i \in DOMAIN usage : usage[i] = m
<1> DEFINE S == {i \in DOMAIN usage : usage[i] = m}
<1>1. DOMAIN usage = 1..Len(usage) /\ Len(usage) \in Nat
  BY DEF Shape, TypeOK
<1>2. IsFiniteSet(S)
  <2>1. IsFiniteSet(1..Len(usage))
    BY <1>1, FS_Interval
  <2>2. S \subseteq 1..Len(usage)
    BY <1>1
  <2>3. QED
    BY <2>1, <2>2, FS_Subset
<1>3. Cardinality(S) \in Nat /\ (Cardinality(S) = 0 <=> S = {})
  BY <1>2, FS_CardinalityType, FS_EmptySet
<1>4. QED
  BY <1>2, <1>3 DEF Billed

\* A message is billed again only after a removal has erased it: redeliveries,
\* edits, retries and lost answers bill nothing twice, however they interleave.
THEOREM NeverBilledTwice == Spec => []BilledOnce
<1>1. Init => Kept
  BY DEF Init, Kept
<1>2. Shape /\ Kept => BilledOnce
  <2> SUFFICES ASSUME Shape, Kept, NEW m \in Messages, Billed(m) > 1 PROVE Gone(m)
    BY DEF BilledOnce, Gone
  <2>1. \E i, j \in {k \in DOMAIN usage : usage[k] = m} : i # j
    BY Rows, TwoRows DEF Billed
  <2>2. QED
    BY <2>1 DEF Kept
<1>3. QED
  BY <1>1, <1>2, AlwaysShape, KeptNext, PTL DEF Spec
-----------------------------------------------------------------------------
(* Message, usage and event. *)

\* One transaction at a time works on an event, and finds it without a row.
Single ==
    /\ \A g, h \in Handlers : InTransaction(g) /\ InTransaction(h)
          /\ call[g].event = call[h].event => g = h
    /\ \A h \in Handlers : InTransaction(h) =>
          row[call[h].event] = "none" \/ Wiped(call[h].event)

\* What a row says of its message.
Told ==
    /\ \A m \in stored : \E i \in DOMAIN usage : usage[i] = m
    /\ \A e \in Events : row[e] \in {"processed", "duplicate"} => Of[e] \in stored \/ Wiped(e)
    /\ \A m \in stored : \/ erased[On[m]] # "nothing"
                         \/ \E e \in Events : Of[e] = m /\ row[e] = "processed"
    /\ \A e, f \in Events : Of[e] = Of[f] /\ row[e] = "processed" /\ row[f] = "processed" =>
          e = f \/ Wiped(e)

\* The row of an event changes when its transaction commits or a removal erases it.
LEMMA RowsChange ==
    ASSUME Shape, [Next]_vars, NEW e \in Events, row'[e] # row[e]
    PROVE  \/ \E h \in Handlers : call[h].event = e /\ (Store(h) \/ Exhaust(h))
           \/ \E c \in Channels : EraseEvents(c) /\ row'[e] = "none"
<1>1. ASSUME NEW h \in Handlers, Store(h) \/ Exhaust(h) PROVE call[h].event = e
  BY <1>1 DEF Store, Exhaust, Reject, Shape, TypeOK
<1>2. ASSUME NEW c \in Channels, EraseEvents(c) PROVE row'[e] = "none"
  BY <1>2 DEF EraseEvents
<1>3. \/ \E h \in Handlers : Store(h) \/ Exhaust(h)
      \/ \E c \in Channels : EraseEvents(c)
  BY DEF Next, Continue, RemovalStep, Grant, Send, Deliver, Insert, Permit, Announce, Accept, Refuse,
         CutOff, Disconnect, Connect, BeginRemoval, EraseMessages, EraseThreads, Remove, BreakOff, vars
<1>4. QED
  BY <1>1, <1>2, <1>3

\* A transaction that commits is over.
LEMMA Committed ==
    ASSUME Shape, NEW h \in Handlers, Store(h) \/ Exhaust(h)
    PROVE  ~InTransaction(h)' /\ InTransaction(h)
<1>1. InTransaction(h)
  BY DEF Store, Exhaust, InTransaction
<1>2. \E s \in {"stored", "accepted"} : s \in Steps /\ Go(h, s)
  BY DEF Store, Exhaust, Steps
<1>3. call'[h].step \in {"stored", "accepted"}
  BY <1>2, StepsAfter
<1>4. QED
  BY <1>1, <1>3 DEF InTransaction, At

LEMMA SingleNext == Shape /\ Single /\ [Next]_vars => Single'
<1> SUFFICES ASSUME Shape, Single, [Next]_vars PROVE Single'
  OBVIOUS
<1>1. ASSUME NEW g \in Handlers, NEW h \in Handlers, InTransaction(g)', InTransaction(h)',
             call'[g].event = call'[h].event, g # h
      PROVE  FALSE
  <2>1. call[g].event = call[h].event
    BY <1>1, TransactionsAfter
  <2>2. CASE InTransaction(g) /\ InTransaction(h)
    BY <1>1, <2>1, <2>2 DEF Single
  <2>3. ASSUME NEW a \in {g, h}, NEW b \in {g, h}, a # b, Insert(a) PROVE FALSE
    <3>1. ~InTransaction(b)
      BY <2>1, <2>3 DEF Insert
    <3>2. Insert(b)
      BY <1>1, <2>3, <3>1, TransactionsAfter
    <3>3. call'[b] = call[b] /\ At(b, "loaded")
      BY <2>3, <3>2, Stepping DEF Insert
    <3>4. QED
      BY <1>1, <2>3, <3>3 DEF InTransaction, At
  <2>4. QED
    BY <1>1, <2>2, <2>3, TransactionsAfter
<1>2. ASSUME NEW h \in Handlers, InTransaction(h)' PROVE (row[call[h].event] = "none" \/ Wiped(call[h].event))'
  <2> DEFINE e == call[h].event
  <2>1. call'[h].event = e /\ e \in Events
    BY <1>2, TransactionsAfter
  <2>2. row[e] = "none" \/ Wiped(e)
    BY <1>2, TransactionsAfter DEF Single, Found
  <2>3. Wiped(e) => Wiped(e)'
    BY InboundAssumption, <2>1 DEF Next, Continue, RemovalStep, Grant, Send, Deliver, Insert, Permit,
       Exhaust, Store, Announce, Accept, Refuse, CutOff, Disconnect, Connect, BeginRemoval,
       EraseEvents, EraseMessages, EraseThreads, Remove, BreakOff, vars, Wiped, Route, Shape, TypeOK
  <2>4. row'[e] = row[e] \/ row'[e] = "none"
    <3>1. SUFFICES ASSUME NEW g \in Handlers, call[g].event = e, Store(g) \/ Exhaust(g)
                   PROVE  FALSE
      BY <2>1, RowsChange
    <3>2. InTransaction(g) /\ ~InTransaction(g)' /\ ~At(g, "loaded")
      BY <3>1, Committed DEF InTransaction, At
    <3>3. g # h
      BY <1>2, <3>2
    <3>4. CASE InTransaction(h)
      BY <3>1, <3>2, <3>3, <3>4 DEF Single
    <3>5. CASE Insert(h)
      BY <3>1, <3>2, <3>5 DEF Insert
    <3>6. QED
      BY <1>2, <3>4, <3>5, TransactionsAfter
  <2>5. QED
    BY <2>1, <2>2, <2>3, <2>4 DEF Wiped
<1>3. QED
  BY <1>1, <1>2 DEF Single
LEMMA ToldNext == Shape /\ Single /\ Told /\ [Next]_vars => Told'
<1> SUFFICES ASSUME Shape, Single, Told, [Next]_vars PROVE Told'
  OBVIOUS
<1>1. ASSUME NEW h \in Handlers, Store(h) PROVE Told'
  <2> DEFINE e0 == call[h].event  m == Message(h)
  <2>1. /\ e0 \in Events /\ m = Of[e0] /\ m \in Messages
        /\ row[e0] = "none" \/ Wiped(e0)
    BY <1>1, Committed, Running DEF Single, Message, Store, At
  <2>2. UNCHANGED erased /\ stored' = stored \cup {m}
    BY <1>1 DEF Store
  <2>3. row' = [row EXCEPT ![e0] = IF m \notin stored THEN "processed" ELSE "duplicate"]
    BY <1>1 DEF Store
  <2>4. \A n \in stored' : \E i \in DOMAIN usage' : usage'[i] = n
    <3>1. usage \in Seq(Messages) /\ usage' = IF m \notin stored THEN Append(usage, m) ELSE usage
      BY <1>1 DEF Store, Bills, Shape, TypeOK
    <3>2. CASE m \in stored
      BY <2>2, <3>1, <3>2 DEF Told
    <3>3. CASE m \notin stored
      <4>1. usage' = Append(usage, m)
        BY <3>1, <3>3
      <4>2. /\ DOMAIN usage' = DOMAIN usage \cup {Len(usage) + 1}
            /\ \A i \in DOMAIN usage : usage'[i] = usage[i]
            /\ usage'[Len(usage) + 1] = m
        BY <2>1, <3>1, <4>1
      <4>3. QED
        BY <2>2, <4>2 DEF Told
    <3>4. QED
      BY <3>2, <3>3
  <2>5. \A e \in Events : Wiped(e)' <=> Wiped(e)
    BY <2>2 DEF Wiped
  <2>6. \A e \in Events : /\ e # e0 => row'[e] = row[e]
                         /\ row'[e0] = IF m \notin stored THEN "processed" ELSE "duplicate"
    BY <2>1, <2>3 DEF Shape, TypeOK
  <2>7. \A e \in Events : row'[e] \in {"processed", "duplicate"} => Of[e] \in stored' \/ Wiped(e)'
    BY <2>1, <2>2, <2>5, <2>6 DEF Told
  <2>8. ASSUME NEW n \in stored', erased'[On[n]] = "nothing"
        PROVE  \E e \in Events : Of[e] = n /\ row'[e] = "processed"
    <3>1. CASE n \in stored
      <4>1. PICK e \in Events : Of[e] = n /\ row[e] = "processed"
        BY <2>2, <2>8, <3>1 DEF Told
      <4>2. ~Wiped(e)
        BY <2>2, <2>8, <4>1 DEF Wiped, Route
      <4>3. e # e0
        BY <2>1, <4>1, <4>2
      <4>4. QED
        BY <2>6, <4>1, <4>3
    <3>2. CASE n \notin stored
      BY <2>1, <2>2, <2>6, <3>2
    <3>3. QED
      BY <3>1, <3>2
  <2>9. ASSUME NEW e \in Events, NEW f \in Events, Of[e] = Of[f], e # f,
               row'[e] = "processed", row'[f] = "processed"
        PROVE  Wiped(e)
    <3>1. Wiped(e) <=> Wiped(f)
      BY <2>9 DEF Wiped, Route
    <3>2. CASE e # e0 /\ f # e0
      BY <2>6, <2>9, <3>2 DEF Told
    <3>3. CASE e = e0 \/ f = e0
      BY <2>1, <2>6, <2>9, <3>1, <3>3 DEF Told
    <3>4. QED
      BY <3>2, <3>3
  <2>10. QED
    BY <2>4, <2>5, <2>7, <2>8, <2>9 DEF Told
<1>2. ASSUME NEW h \in Handlers, Exhaust(h) PROVE Told'
  <2> DEFINE e0 == call[h].event
  <2>1. e0 \in Events /\ (row[e0] = "none" \/ Wiped(e0))
    BY <1>2, Committed, Running DEF Single, Exhaust, At
  <2>2. UNCHANGED <<stored, usage, erased>>
    BY <1>2 DEF Exhaust
  <2>3. \A e \in Events : IF e = e0 THEN row'[e] = "failed_terminal" ELSE row'[e] = row[e]
    BY <1>2 DEF Exhaust, Reject, Shape, TypeOK
  <2>4. ASSUME NEW n \in stored, erased[On[n]] = "nothing"
        PROVE  \E e \in Events : Of[e] = n /\ row'[e] = "processed"
    <3>1. PICK e \in Events : Of[e] = n /\ row[e] = "processed"
      BY <2>4 DEF Told
    <3>2. e # e0
      BY <2>1, <2>4, <3>1 DEF Wiped, Route
    <3>3. QED
      BY <2>3, <3>1, <3>2
  <2>5. QED
    BY <2>2, <2>3, <2>4 DEF Told, Wiped
<1>3. ASSUME NEW c \in Channels, EraseEvents(c) PROVE Told'
  <2>1. UNCHANGED <<stored, usage>> /\ stored \subseteq Messages
    BY <1>3 DEF EraseEvents, Shape, TypeOK
  <2>2. \A e \in Events : IF Route(e) = c THEN row'[e] = "none" ELSE row'[e] = row[e]
    BY <1>3 DEF EraseEvents
  <2>3. /\ erased'[c] # "nothing"
        /\ \A d \in Channels \ {c} : erased'[d] = erased[d]
    BY <1>3 DEF EraseEvents, Shape, TypeOK
  <2>4. \A e \in Events : Route(e) \in Channels
    BY InboundAssumption DEF Route
  <2>5. \A m \in Messages : On[m] \in Channels
    BY InboundAssumption
  <2>6. \A e \in Events : Route(e) # c => (Wiped(e)' <=> Wiped(e))
    BY <2>3, <2>4 DEF Wiped
  <2>7. ASSUME NEW n \in stored, erased'[On[n]] = "nothing"
        PROVE  \E e \in Events : Of[e] = n /\ row'[e] = "processed"
    <3>1. On[n] # c /\ erased[On[n]] = "nothing"
      BY <2>1, <2>3, <2>5, <2>7
    <3>2. PICK e \in Events : Of[e] = n /\ row[e] = "processed"
      BY <3>1 DEF Told
    <3>3. QED
      BY <2>2, <3>1, <3>2 DEF Route
  <2>8. \A e \in Events : row'[e] \in {"processed", "duplicate"} => Of[e] \in stored \/ Wiped(e)'
    BY <2>2, <2>6 DEF Told
  <2>9. \A e, f \in Events : Of[e] = Of[f] /\ row'[e] = "processed" /\ row'[f] = "processed" =>
            e = f \/ Wiped(e)'
    BY <2>2, <2>6 DEF Told
  <2>10. QED
    BY <2>1, <2>7, <2>8, <2>9 DEF Told
<1>4. ASSUME NEW c \in Channels, EraseMessages(c) PROVE Told'
  <2>1. UNCHANGED <<row, usage>> /\ stored' = {m \in stored : On[m] # c} /\ stored \subseteq Messages
    BY <1>4 DEF EraseMessages, Shape, TypeOK
  <2>2. /\ erased'[c] = "messages"
        /\ \A d \in Channels \ {c} : erased'[d] = erased[d]
    BY <1>4 DEF EraseMessages, Shape, TypeOK
  <2>3. /\ \A e \in Events : Route(e) \in Channels
        /\ \A m \in Messages : On[m] \in Channels
    BY InboundAssumption DEF Route
  <2>4. \A e \in Events : Wiped(e) => Wiped(e)'
    BY <2>2, <2>3 DEF Wiped
  <2>5. \A e \in Events : Of[e] \in stored => Of[e] \in stored' \/ Wiped(e)'
    BY <2>1, <2>2 DEF Wiped, Route
  <2>6. \A m \in stored' : erased'[On[m]] = erased[On[m]]
    BY <2>1, <2>2, <2>3
  <2>7. QED
    BY <2>1, <2>4, <2>5, <2>6 DEF Told
<1>5. CASE UNCHANGED <<stored, usage, row, erased>>
  BY <1>5 DEF Told, Wiped
<1>6. QED
  BY <1>1, <1>2, <1>3, <1>4, <1>5
     DEF Next, Continue, RemovalStep, Grant, Send, Deliver, Insert, Permit, Announce, Accept,
         Refuse, CutOff, Disconnect, Connect, BeginRemoval, EraseThreads, Remove, BreakOff, vars

LEMMA AgreementHolds == Shape /\ Kept /\ Told => RowsAgree
<1> SUFFICES ASSUME Shape, Kept, Told, NEW m \in Messages
             PROVE  /\ m \in stored => Billed(m) > 0
                    /\ erased[On[m]] # "messages" /\ Billed(m) > 0 => m \in stored
                    /\ erased[On[m]] = "nothing" =>
                         /\ m \in stored <=> \E e \in Events : Of[e] = m /\ row[e] = "processed"
                         /\ \A e, f \in Events : Of[e] = m /\ Of[f] = m /\ row[e] = "processed"
                               /\ row[f] = "processed" => e = f
                         /\ \A e \in Events : Of[e] = m /\ row[e] = "duplicate" => m \in stored
  BY DEF RowsAgree
<1>1. m \in stored => Billed(m) > 0
  BY Rows DEF Told
<1>2. erased[On[m]] # "messages" /\ Billed(m) > 0 => m \in stored
  <2>1. Billed(m) > 0 => \E i \in DOMAIN usage : usage[i] = m
    BY Rows
  <2>2. \A i \in DOMAIN usage : usage[i] = m /\ m \notin stored => erased[On[m]] = "messages"
    BY DEF Kept, Gone
  <2>3. QED
    BY <2>1, <2>2
<1>3. ASSUME erased[On[m]] = "nothing"
      PROVE  /\ m \in stored <=> \E e \in Events : Of[e] = m /\ row[e] = "processed"
             /\ \A e, f \in Events : Of[e] = m /\ Of[f] = m /\ row[e] = "processed"
                   /\ row[f] = "processed" => e = f
             /\ \A e \in Events : Of[e] = m /\ row[e] = "duplicate" => m \in stored
  <2>1. \A e \in Events : Of[e] = m => ~Wiped(e)
    BY <1>3 DEF Wiped, Route
  <2>2. QED
    BY <1>3, <2>1 DEF Told
<1>4. QED
  BY <1>1, <1>2, <1>3

\* Message, usage and event always agree: of the deliveries of an event and of
\* its edits one stores and bills the message, and the others find it.
THEOREM AgreementIsKept == Spec => []RowsAgree
<1>1. Init => Kept /\ Single /\ Told
  <2>1. Init => Kept
    BY DEF Init, Kept
  <2>2. Init => Single
    BY DEF Init, Single, InTransaction, At, Idle
  <2>3. Init => Told
    BY DEF Init, Told
  <2>4. QED
    BY <2>1, <2>2, <2>3
<1>2. Spec => []Kept
  BY <1>1, AlwaysShape, KeptNext, PTL DEF Spec
<1>3. Spec => []Single
  BY <1>1, AlwaysShape, SingleNext, PTL DEF Spec
<1>4. Spec => []Told
  BY <1>1, <1>3, AlwaysShape, ToldNext, PTL DEF Spec
<1>5. QED
  BY <1>2, <1>4, AlwaysShape, AgreementHolds, PTL
-----------------------------------------------------------------------------
(* What staff are told. *)

\* Deliveries that have committed a message and not announced it yet.
Coming(m) == {h \in Handlers : At(h, "stored") /\ Message(h) = m}

\* What was announced of a message and is about to be is never more than what was
\* billed, and is all of it while nothing failed or was erased.
Telling(m) ==
    /\ IsFiniteSet(Coming(m)) /\ announced[m] + Cardinality(Coming(m)) <= Billed(m)
    /\ faults = 0 /\ erased[On[m]] = "nothing" =>
         announced[m] + Cardinality(Coming(m)) = Billed(m)
Tellings == \A m \in Messages : Telling(m)

\* A message stored anew is billed once more, and no other is.
LEMMA BilledOnceMore ==
    ASSUME Shape, NEW m \in Messages, usage' = Append(usage, m), Shape'
    PROVE  /\ Billed(m)' = Billed(m) + 1
           /\ \A n \in Messages : n # m => Billed(n)' = Billed(n)
<1>1. usage \in Seq(Messages)
  BY DEF Shape, TypeOK
<1>2. /\ DOMAIN usage' = DOMAIN usage \cup {Len(usage) + 1}
      /\ Len(usage) + 1 \notin DOMAIN usage
      /\ \A i \in DOMAIN usage : usage'[i] = usage[i]
      /\ usage'[Len(usage) + 1] = m
  BY <1>1
<1>3. {i \in DOMAIN usage' : usage'[i] = m} = {i \in DOMAIN usage : usage[i] = m} \cup {Len(usage) + 1}
  BY <1>2
<1>4. Billed(m)' = Billed(m) + 1
  <2> DEFINE S == {i \in DOMAIN usage : usage[i] = m}
  <2>1. IsFiniteSet(S) /\ Len(usage) + 1 \notin S
    BY <1>2, Rows
  <2>2. Cardinality(S \cup {Len(usage) + 1}) = Cardinality(S) + 1
    BY <2>1, FS_AddElement
  <2>3. QED
    BY <1>3, <2>2 DEF Billed
<1>5. ASSUME NEW n \in Messages, n # m PROVE Billed(n)' = Billed(n)
  <2>1. {i \in DOMAIN usage' : usage'[i] = n} = {i \in DOMAIN usage : usage[i] = n}
    BY <1>2, <1>5
  <2>2. QED
    BY <2>1 DEF Billed
<1>6. QED
  BY <1>4, <1>5

\* Steps that bill and announce nothing, and in which no delivery comes to or
\* leaves its announcement unless a fault is counted.
LEMMA TellingsStay ==
    ASSUME Shape, Tellings, UNCHANGED <<usage, announced>>, faults' \in Nat, faults <= faults',
           \A m \in Messages : erased'[On[m]] = "nothing" => erased[On[m]] = "nothing",
           \A m \in Messages : \/ Coming(m)' = Coming(m)
                               \/ Coming(m)' \subseteq Coming(m) /\ faults' > 0
    PROVE  Tellings'
<1> SUFFICES ASSUME NEW m \in Messages
             PROVE  /\ IsFiniteSet(Coming(m)')
                    /\ announced[m] + Cardinality(Coming(m)') <= Billed(m)
                    /\ faults' = 0 /\ erased'[On[m]] = "nothing" =>
                         announced[m] + Cardinality(Coming(m)') = Billed(m)
  BY DEF Telling, Tellings, Billed
<1>1. /\ IsFiniteSet(Coming(m)) /\ announced[m] + Cardinality(Coming(m)) <= Billed(m)
      /\ announced[m] \in Nat /\ Billed(m) \in Nat /\ Cardinality(Coming(m)) \in Nat
      /\ faults \in Nat
  <2>1. announced[m] \in Nat /\ faults \in Nat
    BY InboundAssumption DEF Shape, TypeOK
  <2>2. IsFiniteSet(Coming(m)) /\ announced[m] + Cardinality(Coming(m)) <= Billed(m)
    BY DEF Telling, Tellings
  <2>3. QED
    BY <2>1, <2>2, Rows, FS_CardinalityType
<1>2. CASE Coming(m)' = Coming(m)
  BY <1>1, <1>2 DEF Telling, Tellings
<1>3. CASE Coming(m)' \subseteq Coming(m) /\ faults' > 0
  <2>1. IsFiniteSet(Coming(m)') /\ Cardinality(Coming(m)') <= Cardinality(Coming(m))
        /\ Cardinality(Coming(m)') \in Nat
    BY <1>1, <1>3, FS_Subset, FS_CardinalityType
  <2>2. QED
    BY <1>1, <1>3, <2>1
<1>4. QED
  BY <1>2, <1>3

LEMMA TellingsNext ==
    Shape /\ Shape' /\ RowsAgree /\ Tellings /\ [Next]_vars => Tellings'
<1> SUFFICES ASSUME Shape, Shape', RowsAgree, Tellings, [Next]_vars PROVE Tellings'
  OBVIOUS
<1>0. /\ announced \in [Messages -> Nat] /\ faults \in Nat /\ faults' \in Nat
      /\ \A m \in Messages : /\ IsFiniteSet(Coming(m)) /\ Cardinality(Coming(m)) \in Nat
                             /\ Billed(m) \in Nat
  <2>1. announced \in [Messages -> Nat] /\ faults \in Nat /\ faults' \in Nat
    BY InboundAssumption DEF Shape, TypeOK
  <2>2. \A m \in Messages : IsFiniteSet(Coming(m))
    BY DEF Telling, Tellings
  <2>3. QED
    BY <2>1, <2>2, Rows, FS_CardinalityType
<1>1. ASSUME NEW h \in Handlers, Store(h), Message(h) \notin stored PROVE Tellings'
  <2> DEFINE m == Message(h)
  <2>1. PICK n \in Messages : n = m
    BY <1>1, Running DEF Store, At, Message
  <2>2. /\ usage' = Append(usage, n) /\ UNCHANGED <<announced, erased, faults>>
        /\ At(h, "permitted") /\ Go(h, "stored")
    BY <1>1, <2>1 DEF Store, Bills
  <2>3. \A g \in Handlers : /\ call'[g].step = (IF g = h THEN "stored" ELSE call[g].step)
                            /\ call'[g].event = call[g].event
    BY <2>2, StepsAfter DEF Steps
  <2>4. Coming(n)' = Coming(n) \cup {h} /\ h \notin Coming(n)
    BY <2>1, <2>2, <2>3 DEF Coming, At, Message
  <2>5. \A k \in Messages : k # n => Coming(k)' = Coming(k)
    BY <2>1, <2>2, <2>3 DEF Coming, At, Message
  <2>6. IsFiniteSet(Coming(n)') /\ Cardinality(Coming(n)') = Cardinality(Coming(n)) + 1
    BY <1>0, <2>4, FS_AddElement
  <2>7. Billed(n)' = Billed(n) + 1 /\ \A k \in Messages : k # n => Billed(k)' = Billed(k)
    BY <2>2, BilledOnceMore
  <2>8. ASSUME NEW k \in Messages, k # n PROVE Telling(k)'
    <3>1. Telling(k) /\ Coming(k)' = Coming(k) /\ Billed(k)' = Billed(k)
      BY <2>5, <2>7, <2>8 DEF Tellings
    <3>2. QED
      BY <2>2, <3>1 DEF Telling
  <2>9. Telling(n)'
    <3>1. Telling(n)
      BY DEF Tellings
    <3>2. announced[n] \in Nat /\ Cardinality(Coming(n)) \in Nat /\ Billed(n) \in Nat
      BY <1>0
    <3>3. QED
      BY <2>2, <2>6, <2>7, <3>1, <3>2 DEF Telling
  <2>10. QED
    BY <2>8, <2>9 DEF Tellings
<1>2. ASSUME NEW h \in Handlers, Announce(h) PROVE Tellings'
  <2> DEFINE m == Message(h)
  <2>1. PICK n \in Messages : n = m
    BY <1>2, Running DEF Announce, At, Message
  <2>2. /\ UNCHANGED <<usage, erased, faults, stored>> /\ At(h, "stored") /\ Go(h, "accepted")
        /\ announced'[n] = (IF n \in stored THEN announced[n] + 1 ELSE announced[n])
        /\ \A k \in Messages : k # n => announced'[k] = announced[k]
    BY <1>0, <1>2, <2>1 DEF Announce
  <2>3. \A g \in Handlers : /\ call'[g].step = (IF g = h THEN "accepted" ELSE call[g].step)
                            /\ call'[g].event = call[g].event
    BY <2>2, StepsAfter DEF Steps
  <2>4. Coming(n)' = Coming(n) \ {h} /\ h \in Coming(n)
    BY <2>1, <2>2, <2>3 DEF Coming, At, Message
  <2>5. \A k \in Messages : k # n => Coming(k)' = Coming(k)
    BY <2>1, <2>2, <2>3 DEF Coming, At, Message
  <2>6. IsFiniteSet(Coming(n)') /\ Cardinality(Coming(n)') = Cardinality(Coming(n)) - 1
    BY <1>0, <2>4, FS_RemoveElement
  <2>7. \A k \in Messages : Billed(k)' = Billed(k)
    BY <2>2 DEF Billed
  <2>8. Cardinality(Coming(n)) > 0
    BY <1>0, <2>4, FS_EmptySet
  <2>9. faults = 0 /\ erased[On[n]] = "nothing" => n \in stored
    <3>1. announced[n] + Cardinality(Coming(n)) <= Billed(n)
      BY DEF Telling, Tellings
    <3>2. Billed(n) > 0
      BY <1>0, <2>8, <3>1
    <3>3. QED
      BY <3>2 DEF RowsAgree
  <2>10. ASSUME NEW k \in Messages, k # n PROVE Telling(k)'
    <3>1. Telling(k) /\ Coming(k)' = Coming(k) /\ Billed(k)' = Billed(k)
      BY <2>5, <2>7, <2>10 DEF Tellings
    <3>2. QED
      BY <2>2, <2>10, <3>1 DEF Telling
  <2>11. Telling(n)'
    <3>1. Telling(n)
      BY DEF Tellings
    <3>2. announced[n] \in Nat /\ Cardinality(Coming(n)) \in Nat /\ Billed(n) \in Nat
      BY <1>0
    <3>3. QED
      BY <2>2, <2>6, <2>7, <2>9, <3>1, <3>2 DEF Telling
  <2>12. QED
    BY <2>10, <2>11 DEF Tellings
\* The other steps of a delivery.
<1>3. ASSUME NEW h \in Handlers, \A g \in Handlers \ {h} : call'[g] = call[g],
             ~At(h, "stored"), call'[h].step # "stored"
      PROVE  \A m \in Messages : Coming(m)' = Coming(m)
  BY <1>3 DEF Coming, At, Message
<1>4. ASSUME NEW h \in Handlers, NEW e \in Events, Deliver(h, e) PROVE Tellings'
  <2>1. \A m \in Messages : Coming(m)' = Coming(m)
    BY <1>3, <1>4, StepsAfterDelivery DEF Deliver, At
  <2>2. QED
    BY <1>0, <1>4, <2>1, TellingsStay DEF Deliver
<1>5. ASSUME NEW h \in Handlers, Insert(h) \/ Permit(h) \/ Exhaust(h)
                                   \/ (Store(h) /\ Message(h) \in stored)
      PROVE  Tellings'
  <2>1. ~At(h, "stored") /\ call'[h].step # "stored" /\ \A g \in Handlers \ {h} : call'[g] = call[g]
    BY <1>5, Stepping DEF Insert, Permit, Exhaust, Store, At, Found
  <2>2. UNCHANGED <<usage, announced, erased, faults>>
    BY <1>5 DEF Insert, Permit, Exhaust, Store, Bills
  <2>3. QED
    BY <1>0, <1>3, <2>1, <2>2, TellingsStay
<1>6. ASSUME NEW h \in Handlers, Accept(h) \/ Refuse(h) PROVE Tellings'
  <2>1. End(h) /\ ~At(h, "stored") /\ UNCHANGED <<usage, announced, erased, faults>>
    BY <1>6 DEF Accept, Refuse, At
  <2>2. \A m \in Messages : Coming(m)' = Coming(m)
    BY <1>3, <2>1, StepsAfterEnd DEF Idle
  <2>3. QED
    BY <1>0, <2>1, <2>2, TellingsStay
<1>7. ASSUME NEW h \in Handlers, CutOff(h) PROVE Tellings'
  <2>1. End(h) /\ UNCHANGED <<usage, announced, erased>> /\ faults' = faults + 1
    BY <1>7 DEF CutOff
  <2>2. \A m \in Messages : Coming(m)' \subseteq Coming(m)
    BY <2>1, StepsAfterEnd DEF Idle, Coming, At, Message
  <2>3. QED
    BY <1>0, <2>1, <2>2, TellingsStay
<1>8. ASSUME UNCHANGED <<usage, announced, call>>, faults <= faults',
             \A m \in Messages : erased'[On[m]] = "nothing" => erased[On[m]] = "nothing"
      PROVE  Tellings'
  <2>1. \A m \in Messages : Coming(m)' = Coming(m)
    BY <1>8 DEF Coming, At, Message
  <2>2. QED
    BY <1>0, <1>8, <2>1, TellingsStay
<1>9. ASSUME NEW c \in Channels, EraseEvents(c) \/ EraseMessages(c) PROVE Tellings'
  <2>1. \A m \in Messages : erased'[On[m]] = "nothing" => erased[On[m]] = "nothing"
    BY <1>9, InboundAssumption DEF EraseEvents, EraseMessages, Shape, TypeOK
  <2>2. UNCHANGED <<usage, announced, call, faults>>
    BY <1>9 DEF EraseEvents, EraseMessages
  <2>3. QED
    BY <1>0, <1>8, <2>1, <2>2
<1>10. ASSUME NEW c \in Channels, BreakOff(c) PROVE Tellings'
  BY <1>0, <1>8, <1>10 DEF BreakOff
<1>11. ASSUME UNCHANGED <<usage, announced, call, erased, faults>> PROVE Tellings'
  BY <1>0, <1>8, <1>11
<1>12. QED
  BY <1>1, <1>2, <1>4, <1>5, <1>6, <1>7, <1>9, <1>10, <1>11
     DEF Next, Continue, RemovalStep, Grant, Send, Disconnect, Connect, BeginRemoval,
         EraseThreads, Remove, vars

\* Staff are told of a message at most once for each time it is billed, and where
\* no delivery was cut off and nothing erased, exactly once, whoever stores it.
THEOREM StaffAreToldOnce == Spec => []AnnouncedOnce
<1>1. Init => Tellings
  <2> SUFFICES ASSUME Init, NEW m \in Messages
               PROVE  /\ IsFiniteSet(Coming(m))
                      /\ announced[m] + Cardinality(Coming(m)) = 0 /\ Billed(m) = 0
    BY DEF Telling, Tellings
  <2>1. Coming(m) = {} /\ announced[m] = 0
    BY DEF Init, Coming, At, Idle
  <2>2. {i \in DOMAIN usage : usage[i] = m} = {}
    BY DEF Init
  <2>3. Billed(m) = 0
    BY <2>2, FS_EmptySet DEF Billed
  <2>4. QED
    BY <2>1, <2>3, FS_EmptySet
<1>2. Tellings => AnnouncedOnce
  BY DEF Telling, Tellings, AnnouncedOnce, Coming
<1>3. QED
  BY <1>1, <1>2, AlwaysShape, AgreementIsKept, TellingsNext, PTL DEF Spec
=============================================================================
