------------------------- MODULE WebhookQueueProofs -------------------------
(***************************************************************************)
(* Theorems of the webhook queue, for every set of events, workers and     *)
(* calls and every limit.                                                  *)
(*                                                                         *)
(* QInv, the inductive invariant the others rest on, says besides the type *)
(* that whoever holds an event works on one that has its row. KInv adds    *)
(* where an accepted event is, KeyInv what a live key stands for, OnceInv  *)
(* that an event's work is in one place, PaidInv that an event given back  *)
(* has an attempt left, and DepthInv what calls and worker owe the lists.  *)
(***************************************************************************)
EXTENDS WebhookQueue, FiniteSetTheorems, TLAPS

-----------------------------------------------------------------------------
(* The inductive invariant. *)

\* A call in flight has an event, and once it has stored it the event's row.
CallInv ==
    \A c \in Calls :
        call[c].step # "idle" =>
            /\ call[c].event \in Events
            /\ call[c].step \in {"push", "drain"} => Exists(call[c].event)

\* A worker with an entry in hand has its row, and one that records a success
\* has seen chat ingestion take the event.
DrainInv ==
    \A w \in Workers :
        drain[w].step \in {"load", "save", "forward", "drop", "push"} =>
            /\ drain[w].event \in Events
            /\ Exists(drain[w].event)
            /\ drain[w].step \in {"save", "drop", "push"} /\ drain[w].as = "completed"
                 => drain[w].event \in delivered

QInv == TypeOK /\ ListedHasRow /\ CallInv /\ DrainInv

-----------------------------------------------------------------------------
(* The commands. *)

\* HSET writes a row and takes none away.
LEMMA HSetRow ==
    ASSUME row \in [Events -> Row], now \in Nat,
           NEW e \in Events, NEW s \in QueueState, NEW n \in Nat,
           HSet(e, s, n)
    PROVE  /\ row' \in [Events -> Row]
           /\ Exists(e)'
           /\ \A x \in Events : Exists(x) => Exists(x)'
<1>1. [state |-> s, attempts |-> n, updatedAt |-> now] \in Row
  BY DEF Row
<1>2. s # "none"
  BY DEF QueueState
<1>3. QED
  BY <1>1, <1>2 DEF HSet, Exists

\* A push adds at most its own entry to a list, a removal adds none.
LEMMA ListCommands ==
    ASSUME NEW list \in [Events -> Nat], NEW e \in Events
    PROVE  /\ RPush(list, e) \in [Events -> Nat]
           /\ RPush(list, e)[e] > 0
           /\ \A x \in Events : x # e => RPush(list, e)[x] = list[x]
           /\ \A x \in Events : RPush(list, e)[x] >= list[x]
           /\ LRem(list, e) \in [Events -> Nat]
           /\ \A x \in Events : LRem(list, e)[x] <= list[x]
           /\ \A x \in Events : x # e => LRem(list, e)[x] = list[x]
BY DEF RPush, LRem

LEMMA StepOrder ==
    /\ AfterStep("measure") = "store" /\ AfterStep("take") = "store"
    /\ AfterStep("store") = "push" /\ AfterStep("push") = "drain"
BY DEF AfterStep

LEMMA Dispositions ==
    ASSUME NEW outcome, NEW n
    PROVE  /\ Disposition(outcome, n) \in QueueState
           /\ Disposition(outcome, n) = "completed" <=> outcome = "accepted"
BY DEF Disposition, QueueState

\* A worker's record stays one through the updates its steps make.
LEMMA DrainRecords ==
    ASSUME NEW d \in Drain, NEW s \in QueueState, NEW n \in Nat
    PROVE  /\ NoDrain \in Drain
           /\ \A e \in Events : [d EXCEPT !.step = "load", !.event = e] \in Drain
           /\ [d EXCEPT !.step = "save", !.as = s] \in Drain
           /\ [d EXCEPT !.step = "save", !.as = s, !.attempts = n] \in Drain
<1>1. NoDrain \in Drain
  BY DEF NoDrain, Drain, QueueState
<1>2. \A e \in Events : [d EXCEPT !.step = "load", !.event = e] \in Drain
  BY DEF Drain
<1>3. [d EXCEPT !.step = "save", !.as = s] \in Drain
  BY DEF Drain
<1>4. [d EXCEPT !.step = "save", !.as = s, !.attempts = n] \in Drain
  BY DEF Drain
<1>5. QED
  BY <1>1, <1>2, <1>3, <1>4

\* A call's record stays one when it moves to another step or ends.
LEMMA CallRecords ==
    ASSUME NEW k \in Call
    PROVE  /\ NoCall \in Call
           /\ \A s \in {"measure", "store", "push", "release", "drain", "take"} :
                 [k EXCEPT !.step = s] \in Call
BY DEF Call, NoCall

LEMMA CallMoves ==
    ASSUME call \in [Calls -> Call], NEW c \in Calls
    PROVE  /\ EndCall(c) => call' \in [Calls -> Call]
           /\ \A s \in {"measure", "store", "push", "release", "drain", "take"} :
                 Move(c, s) => call' \in [Calls -> Call]
<1>1. call[c] \in Call
  OBVIOUS
<1>2. EndCall(c) => call' \in [Calls -> Call]
  BY <1>1, CallRecords DEF EndCall
<1>3. ASSUME NEW s \in {"measure", "store", "push", "release", "drain", "take"}, Move(c, s)
      PROVE  call' \in [Calls -> Call]
  <2>1. [call[c] EXCEPT !.step = s] \in Call
    BY <1>1, CallRecords
  <2>2. QED
    BY <1>3, <2>1 DEF Move
<1>4. QED
  BY <1>2, <1>3

\* Listed is positive exactly when one of the two lists holds the event.
LEMMA ListedSum ==
    ASSUME pending \in [Events -> Nat], processing \in [Events -> Nat], NEW e \in Events
    PROVE  Listed(e) > 0 <=> pending[e] > 0 \/ processing[e] > 0
BY DEF Listed

-----------------------------------------------------------------------------
(* Every step keeps the invariant. *)

LEMMA QInit == Init => QInv
<1> SUFFICES ASSUME Init PROVE QInv
  OBVIOUS
<1>1. TypeOK
  BY QueueAssumption DEF Init, TypeOK, Row, Drain, Call, NoDrain, NoCall, QueueState
<1>2. ListedHasRow
  BY DEF Init, ListedHasRow, Listed
<1>3. CallInv /\ DrainInv
  BY DEF Init, CallInv, DrainInv, NoDrain, NoCall
<1>4. QED
  BY <1>1, <1>2, <1>3 DEF QInv

LEMMA QCalls ==
    ASSUME QInv, NEW c \in Calls, CallStep(c)
    PROVE  QInv'
<1> USE DEF QInv
<1>1. CASE Measure(c)
  <2>1. TypeOK'
    <3>1. Move(c, "store") \/ Move(c, "release")
      BY <1>1, StepOrder DEF Measure
    <3>2. call' \in [Calls -> Call]
      BY <3>1, CallMoves DEF TypeOK
    <3>3. QED
      BY <1>1, <3>2 DEF Measure, TypeOK, redis, history
  <2>2. ListedHasRow' /\ DrainInv'
    BY <1>1 DEF Measure, redis, history, ListedHasRow, Listed, DrainInv, Exists
  <2>3. CallInv'
    BY <1>1, StepOrder DEF Measure, TypeOK, Call, At, Move, redis, history, CallInv, Exists
  <2>4. QED
    BY <2>1, <2>2, <2>3
<1>2. CASE Release(c)
  <2>1. TypeOK'
    BY <1>2 DEF Release, TypeOK, Call, At, EndCall, NoCall, redis, history
  <2>2. ListedHasRow' /\ DrainInv'
    BY <1>2 DEF Release, redis, history, ListedHasRow, Listed, DrainInv, Exists
  <2>3. CallInv'
    BY <1>2 DEF Release, TypeOK, Call, At, EndCall, NoCall, redis, history, CallInv, Exists
  <2>4. QED
    BY <2>1, <2>2, <2>3
<1>3. CASE Store(c)
  <2>0. call[c].event \in Events
    BY <1>3 DEF Store, At, CallInv
  <2>1. /\ row' \in [Events -> Row] /\ Exists(call[c].event)'
        /\ \A x \in Events : Exists(x) => Exists(x)'
    <3>1. call'[c].event = call[c].event
      BY <1>3 DEF Store, Move, TypeOK, Call
    <3>2. QED
      BY <1>3, <2>0, <3>1, HSetRow DEF Store, TypeOK, QueueState, Exists
  <2>2. TypeOK'
    <3>1. call' \in [Calls -> Call]
      BY <1>3, StepOrder, CallMoves DEF Store, TypeOK
    <3>2. QED
      BY <1>3, <2>1, <3>1 DEF Store, TypeOK, history
  <2>3. ListedHasRow' /\ DrainInv'
    BY <1>3, <2>1 DEF Store, history, ListedHasRow, Listed, DrainInv, Exists
  <2>4. CallInv'
    BY <1>3, <2>0, <2>1, StepOrder DEF Store, TypeOK, Call, At, Move, history, CallInv, Exists
  <2>5. QED
    BY <2>2, <2>3, <2>4
<1>4. CASE Push(c)
  <2>0. call[c].event \in Events /\ Exists(call[c].event)
    BY <1>4 DEF Push, At, CallInv
  <2>1. pending' \in [Events -> Nat]
        /\ \A x \in Events : pending'[x] > 0 => pending[x] > 0 \/ x = call[c].event
    <3>1. pending \in [Events -> Nat] /\ pending' = RPush(pending, call[c].event)
      BY <1>4 DEF Push, TypeOK
    <3>2. QED
      BY <2>0, <3>1, ListCommands
  <2>2. TypeOK'
    <3>1. call' \in [Calls -> Call]
      BY <1>4, StepOrder, CallMoves DEF Push, TypeOK
    <3>2. QED
      BY <1>4, <2>0, <2>1, <3>1 DEF Push, TypeOK
  <2>3. ListedHasRow'
    BY <1>4, <2>0, <2>1 DEF Push, ListedHasRow, Listed, Exists, TypeOK
  <2>4. DrainInv'
    BY <1>4 DEF Push, DrainInv, Exists
  <2>5. CallInv'
    BY <1>4, <2>0, StepOrder DEF Push, TypeOK, Call, At, Move, CallInv, Exists
  <2>6. QED
    BY <2>2, <2>3, <2>4, <2>5
<1>5. CASE StartDrain(c)
  <2>0. call[c].event \in Events
    BY <1>5 DEF StartDrain, At, CallInv
  <2>1. TypeOK'
    <3>1. drain' \in [Workers -> Drain]
      <4>1. \A x \in Drain : [x EXCEPT !.step = "scan"] \in Drain
        BY DEF Drain
      <4>2. QED
        BY <1>5, <4>1 DEF StartDrain, TypeOK
    <3>2. call' \in [Calls -> Call]
      BY <1>5 DEF StartDrain, TypeOK, EndCall, NoCall, Call
    <3>3. QED
      BY <1>5, <3>1, <3>2 DEF StartDrain, TypeOK, redis, history
  <2>2. ListedHasRow'
    BY <1>5 DEF StartDrain, redis, ListedHasRow, Listed, Exists
  <2>3. DrainInv'
    BY <1>5 DEF StartDrain, redis, history, DrainInv, Exists, TypeOK, Drain
  <2>4. CallInv'
    BY <1>5 DEF StartDrain, EndCall, NoCall, redis, CallInv, Exists, TypeOK, Call
  <2>5. QED
    BY <2>1, <2>2, <2>3, <2>4
<1>6. CASE TakeLetter(c)
  <2>0. call[c].event \in Events
    BY <1>6 DEF TakeLetter, At, CallInv
  <2>1. TypeOK'
    <3>1. deadLetters' \in [Events -> SUBSET Nat] /\ deleted' \subseteq Events
      BY <1>6, <2>0 DEF TakeLetter, TypeOK
    <3>2. call' \in [Calls -> Call]
      BY <1>6, StepOrder DEF TakeLetter, TypeOK, Call, Move, EndCall, NoCall
    <3>3. QED
      BY <1>6, <3>1, <3>2 DEF TakeLetter, TypeOK
  <2>2. ListedHasRow' /\ DrainInv'
    BY <1>6 DEF TakeLetter, ListedHasRow, Listed, DrainInv, Exists
  <2>3. CallInv'
    BY <1>6, <2>0, StepOrder DEF TakeLetter, Move, EndCall, NoCall, CallInv, Exists, TypeOK, Call
  <2>4. QED
    BY <2>1, <2>2, <2>3
<1>7. QED
  BY <1>1, <1>2, <1>3, <1>4, <1>5, <1>6 DEF CallStep

LEMMA QDrains ==
    ASSUME QInv, NEW w \in Workers, DrainStep(w)
    PROVE  QInv'
<1> USE DEF QInv
<1> DEFINE d == drain[w]
<1>0. /\ d \in Drain /\ now \in Nat
      /\ Timeout \in Nat
  BY QueueAssumption DEF TypeOK
<1>1. CASE Scan(w)
  <2>1. drain' \in [Workers -> Drain]
    <3>1. [NoDrain EXCEPT !.step = "next", !.before = now - Timeout,
                          !.stale = {e \in Events : processing[e] > 0}] \in Drain
      <4>1. {e \in Events : processing[e] > 0} \in SUBSET Events /\ now - Timeout \in Int
        BY <1>0
      <4>2. QED
        BY <4>1 DEF NoDrain, Drain, QueueState
    <3>2. QED
      BY <1>1, <3>1 DEF Scan, Set, TypeOK
  <2>2. TypeOK' /\ ListedHasRow' /\ CallInv'
    BY <1>1, <2>1 DEF Scan, redis, history, TypeOK, ListedHasRow, Listed, CallInv, Exists
  <2>3. DrainInv'
    BY <1>1 DEF Scan, Set, NoDrain, redis, history, DrainInv, Exists, TypeOK, Drain
  <2>4. QED
    BY <2>2, <2>3
<1>2. CASE CheckStale(w)
  <2>1. PICK e \in d.stale :
          LET rest == d.stale \ {e} IN
          /\ processing' = IF Exists(e) THEN processing ELSE LRem(processing, e)
          /\ Set(w, IF IsStale(e, d.before)
                    THEN [d EXCEPT !.step = "save", !.event = e, !.as = "failed",
                                   !.attempts = row[e].attempts, !.stale = rest]
                    ELSE [d EXCEPT !.stale = rest])
    BY <1>2 DEF CheckStale
  <2>2. e \in Events
    BY <1>0, <2>1 DEF Drain
  <2>3. row[e] \in Row /\ IsStale(e, d.before) => Exists(e)
    BY <2>2 DEF TypeOK, IsStale, Exists
  <2>4. drain' \in [Workers -> Drain]
    BY <1>0, <2>1, <2>2, <2>3 DEF Set, TypeOK, Drain, Row, QueueState
  <2>5. processing' \in [Events -> Nat] /\ \A x \in Events : processing'[x] <= processing[x]
    BY <2>1, <2>2, ListCommands DEF TypeOK
  <2>6. TypeOK' /\ CallInv'
    BY <1>2, <2>4, <2>5 DEF CheckStale, history, TypeOK, CallInv, Exists
  <2>7. ListedHasRow'
    BY <1>2, <2>5 DEF CheckStale, ListedHasRow, Listed, Exists, TypeOK
  <2>8. DrainInv'
    BY <1>0, <1>2, <2>1, <2>2, <2>3 DEF CheckStale, Set, history, DrainInv, Exists, TypeOK, Drain
  <2>9. QED
    BY <2>6, <2>7, <2>8
<1>3. CASE ClaimNext(w)
  <2>1. PICK e \in Events :
          /\ pending[e] > 0
          /\ pending' = LRem(pending, e)
          /\ processing' = RPush(processing, e)
          /\ Set(w, [NoDrain EXCEPT !.step = "load", !.event = e])
    BY <1>3 DEF ClaimNext
  <2>2. Exists(e)
    BY <2>1, ListedSum DEF TypeOK, ListedHasRow
  <2>3. /\ pending' \in [Events -> Nat] /\ processing' \in [Events -> Nat]
        /\ \A x \in Events : pending'[x] <= pending[x]
        /\ \A x \in Events : x # e => processing'[x] = processing[x]
    BY <2>1, ListCommands DEF TypeOK
  <2>4. drain' \in [Workers -> Drain]
    <3>1. [NoDrain EXCEPT !.step = "load", !.event = e] \in Drain
      <4>1. NoDrain \in Drain
        BY DEF NoDrain, Drain, QueueState
      <4>2. \A x \in Drain : [x EXCEPT !.step = "load", !.event = e] \in Drain
        BY DEF Drain
      <4>3. QED
        BY <4>1, <4>2
    <3>2. QED
      BY <2>1, <3>1 DEF Set, TypeOK
  <2>5. TypeOK' /\ CallInv'
    BY <1>3, <2>3, <2>4 DEF ClaimNext, history, TypeOK, CallInv, Exists
  <2>6. ListedHasRow'
    BY <1>3, <2>2, <2>3 DEF ClaimNext, ListedHasRow, Listed, Exists, TypeOK
  <2>7. DrainInv'
    BY <1>3, <2>1, <2>2 DEF ClaimNext, Set, NoDrain, history, DrainInv, Exists, TypeOK, Drain
  <2>8. QED
    BY <2>5, <2>6, <2>7
<1>4. CASE EndDrain(w)
  <2>1. drain' \in [Workers -> Drain]
    BY <1>4 DEF EndDrain, Set, NoDrain, TypeOK, Drain, QueueState
  <2>2. TypeOK' /\ ListedHasRow' /\ CallInv'
    BY <1>4, <2>1 DEF EndDrain, redis, history, TypeOK, ListedHasRow, Listed, CallInv, Exists
  <2>3. DrainInv'
    BY <1>4 DEF EndDrain, Set, NoDrain, redis, history, DrainInv, Exists, TypeOK, Drain
  <2>4. QED
    BY <2>2, <2>3
<1>5. CASE Load(w)
  <2>1. d.event \in Events /\ Exists(d.event)
    BY <1>5 DEF Load, In, DrainInv
  <2>2. processing' = processing
        /\ Set(w, [d EXCEPT !.step = "save", !.as = "processing",
                            !.attempts = row[d.event].attempts + 1])
    BY <1>5, <2>1 DEF Load
  <2>3. row[d.event].attempts \in Nat
    BY <2>1 DEF TypeOK, Row
  <2>4. drain' \in [Workers -> Drain]
    <3>1. [d EXCEPT !.step = "save", !.as = "processing",
                    !.attempts = row[d.event].attempts + 1] \in Drain
      <4>1. row[d.event].attempts + 1 \in Nat /\ "processing" \in QueueState
        BY <2>3 DEF QueueState
      <4>2. QED
        BY <1>0, <4>1, DrainRecords
    <3>2. QED
      BY <2>2, <3>1 DEF Set, TypeOK
  <2>5. TypeOK' /\ ListedHasRow' /\ CallInv'
    BY <1>5, <2>2, <2>4 DEF Load, history, TypeOK, ListedHasRow, Listed, CallInv, Exists
  <2>6. DrainInv'
    BY <1>0, <1>5, <2>1, <2>2 DEF Load, Set, history, DrainInv, Exists, TypeOK, Drain
  <2>7. QED
    BY <2>5, <2>6
<1>6. CASE Save(w)
  <2>1. d.event \in Events /\ d.as \in QueueState /\ d.attempts \in Nat
    BY <1>0, <1>6 DEF Save, In, DrainInv, Drain
  <2>2. /\ row' \in [Events -> Row]
        /\ \A x \in Events : Exists(x) => Exists(x)'
    BY <1>0, <1>6, <2>1, HSetRow DEF Save, TypeOK
  <2>3. drain' \in [Workers -> Drain]
    BY <1>0, <1>6 DEF Save, Set, TypeOK, Drain
  <2>4. TypeOK' /\ ListedHasRow' /\ CallInv'
    BY <1>6, <2>2, <2>3 DEF Save, history, TypeOK, ListedHasRow, Listed, CallInv, Exists
  <2>5. DrainInv'
    BY <1>0, <1>6, <2>2 DEF Save, In, Set, history, DrainInv, Exists, TypeOK, Drain
  <2>6. QED
    BY <2>4, <2>5
<1>7. CASE Forward(w)
  <2>1. PICK outcome \in {"accepted", "terminal", "retryable"} :
          /\ Set(w, [d EXCEPT !.step = "save", !.as = Disposition(outcome, d.attempts)])
          /\ \/ outcome # "terminal" /\ delivered' = delivered \cup {d.event}
             \/ outcome # "accepted" /\ UNCHANGED delivered
    BY <1>7 DEF Forward
  <2>2. d.event \in Events /\ Exists(d.event)
    BY <1>7 DEF Forward, In, DrainInv
  <2>3. /\ Disposition(outcome, d.attempts) \in QueueState
        /\ Disposition(outcome, d.attempts) = "completed" => d.event \in delivered'
        /\ delivered \subseteq delivered' /\ delivered' \subseteq Events
    BY <2>1, <2>2, Dispositions DEF TypeOK
  <2>4. drain' \in [Workers -> Drain]
    BY <1>0, <2>1, <2>3 DEF Set, TypeOK, Drain
  <2>5. TypeOK' /\ ListedHasRow' /\ CallInv'
    BY <1>7, <2>3, <2>4 DEF Forward, redis, TypeOK, ListedHasRow, Listed, CallInv, Exists
  <2>6. DrainInv'
    BY <1>0, <1>7, <2>1, <2>2, <2>3 DEF Forward, Set, redis, DrainInv, Exists, TypeOK, Drain
  <2>7. QED
    BY <2>5, <2>6
<1>8. CASE Drop(w)
  <2>1. d.event \in Events
    BY <1>8 DEF Drop, In, DrainInv
  <2>2. processing' \in [Events -> Nat] /\ \A x \in Events : processing'[x] <= processing[x]
    BY <1>8, <2>1, ListCommands DEF Drop, TypeOK
  <2>3. drain' \in [Workers -> Drain]
    BY <1>0, <1>8 DEF Drop, Set, TypeOK, Drain
  <2>4. TypeOK' /\ ListedHasRow' /\ CallInv'
    BY <1>8, <2>2, <2>3 DEF Drop, history, TypeOK, ListedHasRow, Listed, CallInv, Exists
  <2>5. DrainInv'
    BY <1>0, <1>8 DEF Drop, In, Set, history, DrainInv, Exists, TypeOK, Drain
  <2>6. QED
    BY <2>4, <2>5
<1>9. CASE Place(w)
  <2>1. d.event \in Events /\ Exists(d.event)
    BY <1>9 DEF Place, In, DrainInv
  <2>2. /\ pending' \in [Events -> Nat]
        /\ \A x \in Events : pending'[x] > 0 => pending[x] > 0 \/ x = d.event
    BY <1>9, <2>1, ListCommands DEF Place, TypeOK
  <2>3. drain' \in [Workers -> Drain]
    BY <1>0, <1>9 DEF Place, Set, NoDrain, AfterEntry, TypeOK, Drain, QueueState
  <2>4. /\ completed' \subseteq Events
        /\ deadLetters' \in [Events -> SUBSET Nat]
        /\ lettered' \in [Events -> Nat]
    BY <1>9, <2>1 DEF Place, TypeOK
  <2>5. TypeOK' /\ CallInv'
    BY <1>9, <2>2, <2>3, <2>4 DEF Place, TypeOK, CallInv, Exists
  <2>6. ListedHasRow'
    BY <1>9, <2>1, <2>2 DEF Place, ListedHasRow, Listed, Exists, TypeOK
  <2>7. DrainInv'
    BY <1>0, <1>9 DEF Place, Set, NoDrain, AfterEntry, DrainInv, Exists, TypeOK, Drain
  <2>8. QED
    BY <2>5, <2>6, <2>7
<1>10. QED
  BY <1>1, <1>2, <1>3, <1>4, <1>5, <1>6, <1>7, <1>8, <1>9 DEF DrainStep

LEMMA QEnvironment ==
    ASSUME QInv,
           \/ \E c \in Calls, w \in Workers, e \in Events : Receive(c, w, e)
           \/ \E c \in Calls, w \in Workers, e \in Events, op \in {"replay", "delete"} :
                 FindLetter(c, w, e, op)
           \/ \E c \in Calls : CallError(c)
           \/ \E w \in Workers : Crash(w) \/ DrainError(w)
           \/ Tick
    PROVE  QInv'
<1> USE DEF QInv
<1>1. ASSUME NEW c \in Calls, NEW w \in Workers, NEW e \in Events, Receive(c, w, e)
      PROVE  QInv'
  <2>1. claimedUntil' \in [Events -> Nat]
    BY <1>1, QueueAssumption DEF Receive, TypeOK
  <2>2. call' \in [Calls -> Call]
    BY <1>1 DEF Receive, TypeOK, Call
  <2>3. TypeOK' /\ ListedHasRow' /\ DrainInv'
    BY <1>1, <2>1, <2>2 DEF Receive, TypeOK, ListedHasRow, Listed, DrainInv, Exists, history
  <2>4. CallInv'
    BY <1>1 DEF Receive, CallInv, Exists, TypeOK, Call
  <2>5. QED
    BY <2>3, <2>4
<1>2. ASSUME NEW c \in Calls, NEW w \in Workers, NEW e \in Events,
             NEW op \in {"replay", "delete"}, FindLetter(c, w, e, op)
      PROVE  QInv'
  <2>1. call' \in [Calls -> Call]
    BY <1>2 DEF FindLetter, TypeOK, Call
  <2>2. TypeOK' /\ ListedHasRow' /\ DrainInv'
    BY <1>2, <2>1 DEF FindLetter, redis, history, TypeOK, ListedHasRow, Listed, DrainInv, Exists
  <2>3. CallInv'
    BY <1>2 DEF FindLetter, redis, CallInv, Exists, TypeOK, Call
  <2>4. QED
    BY <2>2, <2>3
<1>3. ASSUME NEW c \in Calls, CallError(c)
      PROVE  QInv'
  <2>1. call' \in [Calls -> Call]
    BY <1>3, CallMoves DEF CallError, TypeOK
  <2>2. TypeOK' /\ ListedHasRow' /\ DrainInv'
    BY <1>3, <2>1 DEF CallError, redis, history, TypeOK, ListedHasRow, Listed, DrainInv, Exists
  <2>3. CallInv'
    <3>1. /\ row' = row
          /\ \A b \in Calls : b # c => call'[b] = call[b]
      BY <1>3 DEF CallError, Move, EndCall, redis, TypeOK, Call
    <3>2. call'[c].step # "idle" => call'[c].event = call[c].event
      BY <1>3 DEF CallError, Move, EndCall, NoCall, TypeOK, Call
    <3>3. QED
      BY <1>3, <3>1, <3>2 DEF CallError, At, Move, EndCall, NoCall, CallInv, Exists, TypeOK, Call
  <2>4. QED
    BY <2>2, <2>3
<1>4. ASSUME NEW w \in Workers, Crash(w)
      PROVE  QInv'
  <2>1. drain' \in [Workers -> Drain] /\ call' \in [Calls -> Call]
    BY <1>4 DEF Crash, Set, NoDrain, NoCall, TypeOK, Drain, Call, QueueState
  <2>2. TypeOK' /\ ListedHasRow'
    BY <1>4, <2>1 DEF Crash, redis, history, TypeOK, ListedHasRow, Listed, Exists
  <2>3. DrainInv' /\ CallInv'
    BY <1>4 DEF Crash, Set, NoDrain, NoCall, redis, history, DrainInv, CallInv, Exists, TypeOK
  <2>4. QED
    BY <2>2, <2>3
<1>5. ASSUME NEW w \in Workers, DrainError(w)
      PROVE  QInv'
  <2>1. /\ Disposition("retryable", drain[w].attempts) \in QueueState
        /\ Disposition("retryable", drain[w].attempts) # "completed"
    BY Dispositions
  <2>2. drain[w] \in Drain
    BY DEF TypeOK
  <2>3. drain' \in [Workers -> Drain]
    <3>1. /\ NoDrain \in Drain
          /\ \A q \in QueueState : [drain[w] EXCEPT !.step = "save", !.as = q] \in Drain
      BY <2>2, DrainRecords DEF QueueState
    <3>2. QED
      BY <1>5, <2>1, <3>1 DEF DrainError, Set, TypeOK
  <2>4. /\ UNCHANGED <<now, redis, call, accepted, delivered, deleted, lettered, replays>>
        /\ faults' = faults + 1 /\ errors' = errors + 1
    BY <1>5 DEF DrainError
  <2>5. TypeOK' /\ ListedHasRow' /\ CallInv'
    BY <2>3, <2>4 DEF redis, history, TypeOK, ListedHasRow, Listed, CallInv, Exists
  <2>6. DrainInv'
    <3>1. SUFFICES ASSUME NEW v \in Workers,
                          drain'[v].step \in {"load", "save", "forward", "drop", "push"}
                   PROVE  /\ drain'[v].event \in Events
                          /\ Exists(drain[v].event)
                          /\ drain'[v].event = drain[v].event
                          /\ drain'[v].step \in {"save", "drop", "push"} /\ drain'[v].as = "completed"
                               => drain'[v].event \in delivered
      BY <2>4 DEF DrainInv, Exists, redis, history
    <3>2. CASE v # w
      BY <1>5, <3>1, <3>2 DEF DrainError, Set, DrainInv, TypeOK
    <3>3. CASE v = w /\ drain[w].as = "completed"
                    /\ drain[w].step \in {"save", "drop", "push"}
      <4>1. drain'[w] = [drain[w] EXCEPT !.step = "save",
                                         !.as = Disposition("retryable", drain[w].attempts)]
        BY <1>5, <3>3 DEF DrainError, Set, TypeOK
      <4>2. drain'[w].event = drain[w].event /\ drain'[w].as # "completed"
        BY <2>1, <2>2, <4>1 DEF Drain
      <4>3. QED
        BY <3>3, <4>2 DEF DrainInv
    <3>4. CASE v = w /\ ~(drain[w].as = "completed"
                         /\ drain[w].step \in {"save", "drop", "push"})
      BY <1>5, <3>1, <3>4 DEF DrainError, Set, NoDrain, TypeOK
    <3>5. QED
      BY <3>2, <3>3, <3>4
  <2>7. QED
    BY <2>5, <2>6
<1>6. CASE Tick
  BY <1>6 DEF Tick, redis, history, TypeOK, ListedHasRow, Listed, DrainInv, CallInv, Exists
<1>7. QED
  BY <1>1, <1>2, <1>3, <1>4, <1>5, <1>6

LEMMA QStep == QInv /\ [Next]_vars => QInv'
<1> SUFFICES ASSUME QInv, [Next]_vars PROVE QInv'
  OBVIOUS
<1>1. CASE UNCHANGED vars
  BY <1>1 DEF vars, redis, history, QInv, TypeOK, ListedHasRow, Listed, DrainInv, CallInv, Exists
<1>2. ASSUME NEW c \in Calls, CallStep(c) PROVE QInv'
  BY <1>2, QCalls
<1>3. ASSUME NEW w \in Workers, DrainStep(w) PROVE QInv'
  BY <1>3, QDrains
<1>4. QED
  BY <1>1, <1>2, <1>3, QEnvironment DEF Next

LEMMA QInvariant == Spec => []QInv
BY QInit, QStep, PTL DEF Spec

-----------------------------------------------------------------------------
(* Nothing is lost where nothing fails. *)

\* What a worker is about to place is settled one way or the other.
PlaceInv ==
    \A w \in Workers :
        /\ drain[w].step = "save" => drain[w].as # "queued"
        /\ drain[w].step \in {"drop", "push"} =>
              drain[w].as \in {"completed", "dead_lettered", "failed"}

\* Where an event that was accepted may be.
Safe(e) ==
    e \in delivered \cup deleted \/ Listed(e) > 0 \/ deadLetters[e] # {} \/ Carried(e)

KInv == PlaceInv /\ \A e \in accepted : Safe(e)

LEMMA KeptIsSafe == AcceptedIsKept <=> \A e \in accepted : Safe(e)
BY DEF AcceptedIsKept, Safe

LEMMA KInit == Init => KInv
BY DEF Init, KInv, PlaceInv, NoDrain

\* A call that stores or lists an event carries a replayed one to its place.
LEMMA KCalls ==
    ASSUME QInv, KInv, NEW c \in Calls, CallStep(c)
    PROVE  KInv'
<1> USE DEF QInv, KInv
<1>0. /\ call \in [Calls -> Call] /\ pending \in [Events -> Nat]
      /\ processing \in [Events -> Nat] /\ deadLetters \in [Events -> SUBSET Nat]
      /\ accepted \subseteq Events /\ drain \in [Workers -> Drain]
  BY DEF TypeOK
<1>1. CASE Measure(c)
  BY <1>0, <1>1, StepOrder DEF Measure, At, Move, redis, history, Call, PlaceInv, Safe, Listed, Carried
<1>2. CASE Release(c)
  BY <1>0, <1>2 DEF Release, At, EndCall, NoCall, history, Call, PlaceInv, Safe, Listed, Carried
<1>3. CASE Store(c)
  BY <1>0, <1>3, StepOrder DEF Store, At, Move, history, Call, PlaceInv, Safe, Listed, Carried
<1>4. CASE Push(c)
  <2>1. call[c].event \in Events
    BY <1>4 DEF Push, At, CallInv
  <2>2. /\ pending'[call[c].event] > 0
        /\ \A x \in Events : pending'[x] >= pending[x] /\ pending'[x] \in Nat
    BY <1>0, <1>4, <2>1, ListCommands DEF Push
  <2>3. PlaceInv'
    BY <1>4 DEF Push, PlaceInv
  <2>4. ASSUME NEW e \in accepted' PROVE Safe(e)'
    <3>1. CASE e = call[c].event
      <4>1. processing'[e] \in Nat /\ pending'[e] > 0 /\ pending'[e] \in Nat
        BY <1>0, <1>4, <2>1, <2>2, <3>1 DEF Push
      <4>2. QED
        BY <4>1 DEF Safe, Listed
    <3>2. CASE e # call[c].event
      <4>1. e \in accepted /\ Safe(e)
        BY <1>4, <2>4, <3>2 DEF Push
      <4>2. QED
        BY <1>0, <1>4, <2>2, <3>2, <4>1 DEF Push, Move, Call, Safe, Listed, Carried
    <3>3. QED
      BY <3>1, <3>2
  <2>5. QED
    BY <2>3, <2>4
<1>5. CASE StartDrain(c)
  <2>1. PlaceInv'
    BY <1>0, <1>5 DEF StartDrain, Drain, PlaceInv
  <2>2. ASSUME NEW e \in accepted PROVE Safe(e)'
    BY <1>0, <1>5 DEF StartDrain, At, EndCall, NoCall, redis, history, Call, Drain, Safe, Listed, Carried
  <2>3. QED
    BY <1>5, <2>1, <2>2 DEF StartDrain, history
<1>6. CASE TakeLetter(c)
  <2>1. PlaceInv'
    BY <1>6 DEF TakeLetter, PlaceInv
  <2>2. ASSUME NEW e \in accepted PROVE Safe(e)'
    <3>1. CASE e = call[c].event /\ call[c].op = "replay"
      BY <1>0, <1>6, <3>1, StepOrder DEF TakeLetter, Move, Call, Safe, Carried
    <3>2. CASE e = call[c].event /\ call[c].op # "replay"
      BY <1>6, <3>2 DEF TakeLetter, Safe
    <3>3. CASE e # call[c].event
      <4>1. deadLetters'[e] = deadLetters[e]
        BY <1>0, <1>6, <3>3 DEF TakeLetter
      <4>2. QED
        BY <1>0, <1>6, <3>3, <4>1 DEF TakeLetter, At, Move, EndCall, NoCall, Call, Safe, Listed, Carried
    <3>4. QED
      BY <3>1, <3>2, <3>3
  <2>3. QED
    BY <1>6, <2>1, <2>2 DEF TakeLetter
<1>7. QED
  BY <1>1, <1>2, <1>3, <1>4, <1>5, <1>6 DEF CallStep

\* A worker takes an entry from one place only on its way to the next.
LEMMA KDrains ==
    ASSUME QInv, KInv, NEW w \in Workers, DrainStep(w)
    PROVE  KInv'
<1> USE DEF QInv, KInv
<1> DEFINE d == drain[w]
<1>0. /\ pending \in [Events -> Nat] /\ processing \in [Events -> Nat]
      /\ deadLetters \in [Events -> SUBSET Nat]
      /\ accepted \subseteq Events /\ drain \in [Workers -> Drain] /\ d \in Drain
      /\ \A e \in accepted : Safe(e)
  BY DEF TypeOK
<1>1. CASE Scan(w)
  BY <1>0, <1>1 DEF Scan, In, Set, NoDrain, redis, history, PlaceInv, Safe, Listed, Carried
<1>2. CASE CheckStale(w)
  <2>1. PICK e \in d.stale :
          /\ processing' = IF Exists(e) THEN processing ELSE LRem(processing, e)
          /\ \/ drain' = [drain EXCEPT ![w] =
                           [d EXCEPT !.step = "save", !.event = e, !.as = "failed",
                                     !.attempts = row[e].attempts, !.stale = d.stale \ {e}]]
             \/ drain' = [drain EXCEPT ![w] = [d EXCEPT !.stale = d.stale \ {e}]]
    BY <1>2 DEF CheckStale, Set
  <2>2. e \in Events
    BY <1>0, <2>1 DEF Drain
  <2>3. processing' = processing
    <3>1. Exists(e) \/ processing[e] = 0
      BY <1>0, <2>2, ListedSum DEF ListedHasRow
    <3>2. processing[e] = 0 => LRem(processing, e) = processing
      BY <1>0, <2>2 DEF LRem
    <3>3. QED
      BY <2>1, <3>1, <3>2
  <2>4. PlaceInv'
    <3>1. /\ drain'[w].step = "next" \/ (drain'[w].step = "save" /\ drain'[w].as = "failed")
          /\ \A v \in Workers : v # w => drain'[v] = drain[v]
      BY <1>0, <1>2, <2>1 DEF CheckStale, In, Drain
    <3>2. QED
      BY <3>1 DEF PlaceInv
  <2>5. ASSUME NEW x \in accepted PROVE Safe(x)'
    BY <1>0, <1>2, <2>1, <2>3 DEF CheckStale, In, history, Drain, Safe, Listed, Carried
  <2>6. QED
    BY <1>2, <2>4, <2>5 DEF CheckStale, history
<1>3. CASE ClaimNext(w)
  <2>1. PICK e \in Events :
          /\ pending' = LRem(pending, e)
          /\ processing' = RPush(processing, e)
          /\ drain' = [drain EXCEPT ![w] = [NoDrain EXCEPT !.step = "load", !.event = e]]
    BY <1>3 DEF ClaimNext, Set
  <2>2. /\ processing'[e] > 0
        /\ \A x \in Events : processing'[x] \in Nat /\ pending'[x] \in Nat
        /\ \A x \in Events : x # e => processing'[x] = processing[x] /\ pending'[x] = pending[x]
    BY <1>0, <2>1, ListCommands
  <2>3. PlaceInv'
    BY <1>0, <2>1 DEF NoDrain, PlaceInv
  <2>4. ASSUME NEW x \in accepted PROVE Safe(x)'
    <3>1. CASE x = e
      BY <2>2, <3>1 DEF Safe, Listed
    <3>2. CASE x # e
      BY <1>0, <1>3, <2>1, <2>2, <3>2 DEF ClaimNext, In, NoDrain, history, Safe, Listed, Carried
    <3>3. QED
      BY <3>1, <3>2
  <2>5. QED
    BY <1>3, <2>3, <2>4 DEF ClaimNext, history
<1>4. CASE EndDrain(w)
  BY <1>0, <1>4 DEF EndDrain, In, Set, NoDrain, redis, history, PlaceInv, Safe, Listed, Carried
<1>5. CASE Load(w)
  <2>1. Exists(d.event)
    BY <1>5 DEF Load, In, DrainInv
  <2>2. /\ processing' = processing
        /\ drain' = [drain EXCEPT ![w] =
                       [d EXCEPT !.step = "save", !.as = "processing",
                                 !.attempts = row[d.event].attempts + 1]]
    BY <1>5, <2>1 DEF Load, Set
  <2>3. PlaceInv'
    BY <1>0, <2>2 DEF Drain, PlaceInv
  <2>4. ASSUME NEW x \in accepted PROVE Safe(x)'
    BY <1>0, <1>5, <2>2 DEF Load, In, history, Drain, Safe, Listed, Carried
  <2>5. QED
    BY <1>5, <2>3, <2>4 DEF Load, history
<1>6. CASE Save(w)
  <2>1. drain' = [drain EXCEPT ![w] =
                    [d EXCEPT !.step = IF d.as = "processing" THEN "forward" ELSE "drop"]]
    BY <1>6 DEF Save, Set
  <2>2. PlaceInv'
    BY <1>0, <1>6, <2>1 DEF Save, In, Drain, QueueState, PlaceInv
  <2>3. ASSUME NEW x \in accepted PROVE Safe(x)'
    BY <1>0, <1>6, <2>1 DEF Save, In, history, Drain, Safe, Listed, Carried
  <2>4. QED
    BY <1>6, <2>2, <2>3 DEF Save, history
<1>7. CASE Forward(w)
  <2>1. PICK s :
          /\ s # "queued"
          /\ drain' = [drain EXCEPT ![w] = [d EXCEPT !.step = "save", !.as = s]]
          /\ delivered \subseteq delivered'
    BY <1>7 DEF Forward, Set, Disposition
  <2>2. PlaceInv'
    BY <1>0, <2>1 DEF Drain, PlaceInv
  <2>3. ASSUME NEW x \in accepted PROVE Safe(x)'
    BY <1>0, <1>7, <2>1 DEF Forward, In, redis, Drain, Safe, Listed, Carried
  <2>4. QED
    BY <1>7, <2>2, <2>3 DEF Forward
<1>8. CASE Drop(w)
  <2>0. d.event \in Events
    BY <1>8 DEF Drop, In, DrainInv
  <2>1. /\ drain' = [drain EXCEPT ![w] = [d EXCEPT !.step = "push"]]
        /\ \A x \in Events : x # d.event => processing'[x] = processing[x]
    BY <1>0, <1>8, <2>0, ListCommands DEF Drop, Set
  <2>2. PlaceInv'
    BY <1>0, <1>8, <2>1 DEF Drop, In, Drain, PlaceInv
  <2>3. ASSUME NEW x \in accepted PROVE Safe(x)'
    <3>1. CASE x = d.event
      BY <1>0, <2>1, <3>1 DEF Drain, Safe, Carried
    <3>2. CASE x # d.event
      BY <1>0, <1>8, <2>1, <3>2 DEF Drop, In, history, Drain, Safe, Listed, Carried
    <3>3. QED
      BY <3>1, <3>2
  <2>4. QED
    BY <1>8, <2>2, <2>3 DEF Drop, history
<1>9. CASE Place(w)
  <2>0. d.event \in Events /\ d.as \in {"completed", "dead_lettered", "failed"}
    BY <1>9 DEF Place, In, DrainInv, PlaceInv
  <2>1. \A x \in Events : /\ pending'[x] >= pending[x] /\ pending'[x] \in Nat
                          /\ deadLetters[x] \subseteq deadLetters'[x]
    BY <1>0, <1>9, <2>0, ListCommands DEF Place
  <2>2. PlaceInv'
    BY <1>0, <1>9 DEF Place, Set, NoDrain, AfterEntry, PlaceInv
  <2>3. ASSUME NEW x \in accepted PROVE Safe(x)'
    <3>1. CASE x = d.event /\ d.as = "completed"
      BY <1>9, <3>1 DEF Place, In, DrainInv, Safe
    <3>2. CASE x = d.event /\ d.as = "failed"
      <4>1. pending'[x] > 0 /\ processing'[x] \in Nat
        BY <1>0, <1>9, <2>0, <3>2, ListCommands DEF Place
      <4>2. QED
        BY <2>1, <4>1, <1>0 DEF Safe, Listed
    <3>3. CASE x = d.event /\ d.as = "dead_lettered"
      <4>1. lettered[x] + 1 \in deadLetters'[x]
        BY <1>0, <1>9, <2>0, <3>3 DEF Place
      <4>2. QED
        BY <4>1 DEF Safe
    <3>4. CASE x # d.event
      BY <1>0, <1>9, <2>1, <3>4 DEF Place, In, Set, NoDrain, AfterEntry, Safe, Listed, Carried
    <3>5. QED
      BY <2>0, <3>1, <3>2, <3>3, <3>4
  <2>4. QED
    BY <1>9, <2>2, <2>3 DEF Place
<1>10. QED
  BY <1>1, <1>2, <1>3, <1>4, <1>5, <1>6, <1>7, <1>8, <1>9 DEF DrainStep

LEMMA KStep ==
    ASSUME MaxFaults = 0
    PROVE  QInv /\ KInv /\ [Next]_vars => KInv'
<1> SUFFICES ASSUME QInv, KInv, [Next]_vars PROVE KInv'
  OBVIOUS
<1>0. \A kind : ~MayFail(kind)
  BY DEF MayFail, QInv, TypeOK
<1>1. CASE UNCHANGED vars
  BY <1>1 DEF vars, redis, history, KInv, PlaceInv, Safe, Listed, Carried
<1>2. ASSUME NEW c \in Calls, NEW w \in Workers, NEW e \in Events, Receive(c, w, e)
      PROVE  KInv'
  <2>1. \A k \in Calls : k # c => call'[k] = call[k]
    BY <1>2 DEF Receive, QInv, TypeOK
  <2>2. call[c].step = "idle" /\ call'[c].step = "measure"
    BY <1>2 DEF Receive, At, QInv, TypeOK
  <2>3. \A x : Carried(x) => Carried(x)'
    BY <1>2, <2>1, <2>2 DEF Receive, Carried
  <2>4. QED
    BY <1>2, <2>3 DEF Receive, history, KInv, PlaceInv, Safe, Listed
<1>3. ASSUME NEW c \in Calls, NEW w \in Workers, NEW e \in Events,
             NEW op \in {"replay", "delete"}, FindLetter(c, w, e, op)
      PROVE  KInv'
  BY <1>3 DEF FindLetter, At, redis, history, QInv, TypeOK, Call, KInv, PlaceInv, Safe, Listed, Carried
<1>4. CASE Tick
  BY <1>4 DEF Tick, redis, history, KInv, PlaceInv, Safe, Listed, Carried
<1>5. ASSUME NEW c \in Calls, CallStep(c) PROVE KInv'
  BY <1>5, KCalls
<1>6. ASSUME NEW w \in Workers, DrainStep(w) PROVE KInv'
  BY <1>6, KDrains
<1>7. QED
  BY <1>0, <1>1, <1>2, <1>3, <1>4, <1>5, <1>6 DEF Next, Crash, DrainError, CallError

-----------------------------------------------------------------------------
(* What the calls do. *)

\* A call's kind of work suits its step; only an operator's is no delivery.
KindInv ==
    \A c \in Calls :
        /\ call[c].step = "take" => call[c].op # "receive"
        /\ call[c].step \in {"measure", "release"} => call[c].op = "receive"
        /\ call[c].step \in {"store", "push", "drain"} => call[c].op # "delete"
        /\ call[c].step # "idle" /\ call[c].op # "receive" => c \in Operators

\* The next record of a call, by the command it has carried out.
LEMMA CallChanges ==
    ASSUME QInv, NEW c \in Calls
    PROVE  /\ \A s \in {"measure", "store", "push", "release", "drain", "take"} :
                 Move(c, s) =>
                    /\ call'[c].step = s /\ call'[c].op = call[c].op
                    /\ call'[c].event = call[c].event /\ call'[c].copy = call[c].copy
                    /\ \A k \in Calls : k # c => call'[k] = call[k]
           /\ EndCall(c) => /\ call'[c].step = "idle" /\ call'[c].event = None
                            /\ \A k \in Calls : k # c => call'[k] = call[k]
<1>1. call \in [Calls -> Call] /\ call[c] \in Call
  BY DEF QInv, TypeOK
<1>2. QED
  BY <1>1 DEF Move, EndCall, NoCall, Call

LEMMA KindInit == Init => KindInv
BY DEF Init, KindInv, NoCall

LEMMA KindNext == QInv /\ KindInv /\ [Next]_vars => KindInv'
<1> SUFFICES ASSUME QInv, KindInv, [Next]_vars PROVE KindInv'
  OBVIOUS
<1>1. CASE UNCHANGED call
  BY <1>1 DEF KindInv
<1>2. ASSUME NEW c \in Calls, NEW w \in Workers, NEW e \in Events, Receive(c, w, e)
      PROVE  KindInv'
  <2>1. call'[c].step = "measure" /\ call'[c].op = "receive"
        /\ \A k \in Calls : k # c => call'[k] = call[k]
    BY <1>2 DEF Receive, QInv, TypeOK
  <2>2. QED
    BY <2>1 DEF KindInv
<1>3. ASSUME NEW c \in Calls, NEW w \in Workers, NEW e \in Events,
             NEW op \in {"replay", "delete"}, FindLetter(c, w, e, op)
      PROVE  KindInv'
  <2>1. call'[c].step = "take" /\ call'[c].op = op /\ c \in Operators
        /\ \A k \in Calls : k # c => call'[k] = call[k]
    BY <1>3 DEF FindLetter, QInv, TypeOK
  <2>2. QED
    BY <2>1 DEF KindInv
<1>4. ASSUME NEW c \in Calls, CallStep(c) PROVE KindInv'
  <2>1. \/ EndCall(c)
        \/ /\ call[c].step # "idle"
           /\ \/ At(c, "measure") /\ (Move(c, "store") \/ Move(c, "release"))
              \/ At(c, "store") /\ Move(c, "push")
              \/ At(c, "push") /\ Move(c, "drain")
              \/ At(c, "take") /\ call[c].op = "replay" /\ Move(c, "store")
    BY <1>4, StepOrder DEF CallStep, Measure, Release, Store, Push, StartDrain, TakeLetter, At
  <2>2. QED
    BY <2>1, CallChanges DEF At, KindInv
<1>5. ASSUME NEW c \in Calls, CallError(c) PROVE KindInv'
  <2>1. \/ EndCall(c)
        \/ call[c].step # "idle" /\ call[c].op = "receive" /\ Move(c, "release")
    BY <1>5 DEF CallError, At
  <2>2. QED
    BY <2>1, CallChanges DEF KindInv
<1>6. ASSUME NEW w \in Workers, Crash(w) PROVE KindInv'
  <2>1. \A c \in Calls : call'[c] = call[c] \/ call'[c].step = "idle"
    BY <1>6 DEF Crash, NoCall
  <2>2. QED
    BY <2>1 DEF KindInv
<1>7. ASSUME NEW w \in Workers, DrainStep(w) \/ DrainError(w) PROVE UNCHANGED call
  BY <1>7 DEF DrainStep, DrainError, Scan, CheckStale, ClaimNext, EndDrain, Load, Save,
              Forward, Drop, Place
<1>8. Tick \/ UNCHANGED vars => UNCHANGED call
  BY DEF Tick, vars
<1>9. QED
  BY <1>1, <1>2, <1>3, <1>4, <1>5, <1>6, <1>7, <1>8 DEF Next

-----------------------------------------------------------------------------
(* Keys. *)

\* Until something fails, a live key's event was queued or is being; a delivery
\* that only has to drain has queued its event.
KeyInv ==
    faults = 0 =>
        /\ \A e \in Events : claimedUntil[e] > now => e \in accepted \/ Receiving(e)
        /\ \A c \in Calls : call[c].step = "drain" /\ call[c].op = "receive" =>
                              call[c].event \in accepted

LEMMA KeyInit == Init => KeyInv
BY DEF Init, KeyInv, NoCall

LEMMA KeyCalls ==
    ASSUME QInv, KindInv, KeyInv, faults = 0, NEW c \in Calls, CallStep(c)
    PROVE  KeyInv'
<1> DEFINE k == call[c]
<1>1. CASE Measure(c)
  <2>1. k.step = "measure" /\ (Move(c, "store") \/ Move(c, "release"))
    BY <1>1, StepOrder DEF Measure, At
  <2>2. call'[c].event = k.event /\ call'[c].op = k.op /\ call'[c].step \in {"store", "release"}
        /\ \A d \in Calls : d # c => call'[d] = call[d]
    BY <2>1, CallChanges
  <2>3. \A e : Receiving(e) => Receiving(e)'
    BY <2>1, <2>2 DEF Receiving
  <2>4. QED
    BY <1>1, <2>2, <2>3 DEF Measure, redis, history, KeyInv
<1>2. CASE Release(c)
  <2>1. k.event \in Events /\ k.step = "release"
    BY <1>2 DEF Release, At, QInv, CallInv
  <2>2. call'[c].step = "idle" /\ \A d \in Calls : d # c => call'[d] = call[d]
    BY <1>2, CallChanges DEF Release
  <2>3. \A e \in Events : e # k.event => /\ claimedUntil'[e] = claimedUntil[e]
                                         /\ Receiving(e) => Receiving(e)'
    BY <1>2, <2>1, <2>2 DEF Release, Receiving, QInv, TypeOK
  <2>4. claimedUntil'[k.event] = 0 /\ now \in Nat
    BY <1>2, <2>1 DEF Release, QInv, TypeOK
  <2>5. QED
    BY <1>2, <2>2, <2>3, <2>4 DEF Release, history, KeyInv
<1>3. CASE Store(c)
  <2>1. k.step = "store" /\ Move(c, "push")
    BY <1>3, StepOrder DEF Store, At
  <2>2. call'[c].event = k.event /\ call'[c].op = k.op /\ call'[c].step = "push"
        /\ \A d \in Calls : d # c => call'[d] = call[d]
    BY <2>1, CallChanges
  <2>3. \A e : Receiving(e) => Receiving(e)'
    BY <2>1, <2>2 DEF Receiving
  <2>4. QED
    BY <1>3, <2>2, <2>3 DEF Store, history, KeyInv
<1>4. CASE Push(c)
  <2>1. k.step = "push" /\ Move(c, "drain")
    BY <1>4, StepOrder DEF Push, At
  <2>2. call'[c].event = k.event /\ call'[c].op = k.op /\ call'[c].step = "drain"
        /\ \A d \in Calls : d # c => call'[d] = call[d]
    BY <2>1, CallChanges
  <2>3. \A e : Receiving(e) => Receiving(e)'
    BY <2>1, <2>2 DEF Receiving
  <2>4. QED
    BY <1>4, <2>2, <2>3 DEF Push, KeyInv
<1>5. CASE StartDrain(c)
  <2>1. k.step = "drain" /\ call'[c].step = "idle"
        /\ \A d \in Calls : d # c => call'[d] = call[d]
    BY <1>5, CallChanges DEF StartDrain, At
  <2>2. \A e : Receiving(e) => Receiving(e)' \/ e \in accepted
    BY <2>1 DEF Receiving, KeyInv
  <2>3. QED
    BY <1>5, <2>1, <2>2 DEF StartDrain, redis, history, KeyInv
<1>6. CASE TakeLetter(c)
  <2>1. k.step = "take" /\ k.op # "receive"
    BY <1>6 DEF TakeLetter, At, KindInv
  <2>2. /\ call'[c].step = "idle" \/ (call'[c].step = "store" /\ call'[c].op = k.op)
        /\ \A d \in Calls : d # c => call'[d] = call[d]
    BY <1>6, StepOrder, CallChanges DEF TakeLetter
  <2>3. \A e : Receiving(e) => Receiving(e)'
    BY <2>1, <2>2 DEF Receiving
  <2>4. QED
    BY <1>6, <2>2, <2>3 DEF TakeLetter, KeyInv
<1>7. QED
  BY <1>1, <1>2, <1>3, <1>4, <1>5, <1>6 DEF CallStep

LEMMA KeyNext == QInv /\ KindInv /\ KeyInv /\ [Next]_vars => KeyInv'
<1> SUFFICES ASSUME QInv, KindInv, KeyInv, [Next]_vars, faults' = 0 PROVE KeyInv'
  BY DEF KeyInv
<1>0. faults \in Nat /\ now \in Nat /\ claimedUntil \in [Events -> Nat]
      /\ call \in [Calls -> Call]
  BY DEF QInv, TypeOK
<1>1. ASSUME NEW c \in Calls, NEW w \in Workers, NEW e \in Events, Receive(c, w, e)
      PROVE  KeyInv'
  <2>1. call'[c].step = "measure" /\ call'[c].op = "receive" /\ call'[c].event = e
        /\ call[c].step = "idle" /\ \A d \in Calls : d # c => call'[d] = call[d]
    BY <1>0, <1>1 DEF Receive, At
  <2>2. Receiving(e)' /\ \A x : Receiving(x) => Receiving(x)'
    BY <2>1 DEF Receiving
  <2>3. \A x \in Events : x # e => claimedUntil'[x] = claimedUntil[x]
    BY <1>0, <1>1 DEF Receive
  <2>4. QED
    BY <1>1, <2>1, <2>2, <2>3 DEF Receive, history, KeyInv
<1>2. ASSUME NEW c \in Calls, NEW w \in Workers, NEW e \in Events,
             NEW op \in {"replay", "delete"}, FindLetter(c, w, e, op)
      PROVE  KeyInv'
  <2>1. call'[c].step = "take" /\ call[c].step = "idle"
        /\ \A d \in Calls : d # c => call'[d] = call[d]
    BY <1>0, <1>2 DEF FindLetter, At
  <2>2. \A x : Receiving(x) => Receiving(x)'
    BY <2>1 DEF Receiving
  <2>3. QED
    BY <1>2, <2>1, <2>2 DEF FindLetter, redis, history, KeyInv
<1>3. ASSUME NEW c \in Calls, CallStep(c) PROVE KeyInv'
  <2>1. UNCHANGED faults
    BY <1>3 DEF CallStep, Measure, Release, Store, Push, StartDrain, TakeLetter
  <2>2. QED
    BY <1>3, <2>1, KeyCalls
<1>4. ASSUME NEW w \in Workers, DrainStep(w) PROVE KeyInv'
  <2>1. UNCHANGED <<now, claimedUntil, call, faults, accepted>>
    BY <1>4 DEF DrainStep, Scan, CheckStale, ClaimNext, EndDrain, Load, Save, Forward, Drop,
                Place, redis, history
  <2>2. QED
    BY <2>1 DEF KeyInv, Receiving
<1>5. ASSUME NEW c \in Calls, CallError(c) PROVE FALSE
  BY <1>0, <1>5 DEF CallError
<1>6. ASSUME NEW w \in Workers, Crash(w) \/ DrainError(w) PROVE FALSE
  BY <1>0, <1>6 DEF Crash, DrainError
<1>7. CASE Tick
  BY <1>0, <1>7 DEF Tick, redis, history, KeyInv, Receiving
<1>8. CASE UNCHANGED vars
  BY <1>8 DEF vars, redis, history, KeyInv, Receiving
<1>9. QED
  BY <1>1, <1>2, <1>3, <1>4, <1>5, <1>6, <1>7, <1>8 DEF Next

-----------------------------------------------------------------------------
(* One piece of work per event. *)

\* No two operators' calls are in flight at once.
OneOperator == \A c, d \in Operators : c = d

\* No worker takes another's entry for a stale one: there is no other, or the
\* processing timeout has not passed since the start.
NoTheft == Timeout > MaxTime \/ \A v, w \in Workers : v = w

\* A call has an event's work in hand and is about to list it.
Brings(c, e) == call[c].event = e /\ call[c].step \in {"measure", "store", "push", "release"}

\* A worker works on an event in the processing list, or has just taken it off.
Holds(w, e) == drain[w].event = e /\ drain[w].step \in {"load", "save", "forward", "drop"}
Moves(w, e) == drain[w].event = e /\ drain[w].step = "push"

\* An event's work is in one place: brought by one call, in one list, moved by one
\* worker, or a dead letter. Without a live key it is nowhere, and a key lives on.
Alone(e) ==
    /\ Listed(e) <= 1
    /\ \A m, n \in deadLetters[e] : m = n
    /\ Listed(e) > 0 => deadLetters[e] = {}
    /\ \A c \in Calls : Brings(c, e) =>
          /\ Listed(e) = 0 /\ deadLetters[e] = {}
          /\ \A w \in Workers : ~Moves(w, e)
          /\ \A d \in Calls : Brings(d, e) => d = c
    /\ \A w \in Workers : Moves(w, e) =>
          /\ Listed(e) = 0 /\ deadLetters[e] = {}
          /\ \A v \in Workers : Moves(v, e) => v = w
    /\ \A w \in Workers : Holds(w, e) =>
          processing[e] > 0 /\ \A v \in Workers : Holds(v, e) => v = w
    /\ claimedUntil[e] <= now =>
          /\ Listed(e) = 0 /\ deadLetters[e] = {}
          /\ \A c \in Calls : ~Brings(c, e)
          /\ \A w \in Workers : ~Moves(w, e)
    /\ claimedUntil[e] # 0 => claimedUntil[e] > MaxTime

\* An entry a worker may find stale is nobody's, and there is one only where the
\* worker is the only one.
StaleInv ==
    \/ Timeout > MaxTime /\ \A w \in Workers : drain[w].stale # {} => drain[w].before < 0
    \/ /\ \A v, w \in Workers : v = w
       /\ \A w \in Workers : \A e \in drain[w].stale :
             processing[e] > 0 /\ ~Holds(w, e) /\ ~Moves(w, e)

\* A copy an operator is about to remove is still there.
TakeInv ==
    \A c \in Calls : call[c].step = "take" => call[c].copy \in deadLetters[call[c].event]

OnceInv ==
    errors = 0 =>
        /\ now <= MaxTime
        /\ \A e \in Events : Alone(e)
        /\ TakeInv
        /\ StaleInv

\* An event's work stays in one place when the lists, its letters and its key do
\* not change and nobody takes it into their hands.
LEMMA AloneStays ==
    ASSUME NEW e \in Events, Alone(e), now' = now,
           pending'[e] = pending[e], processing'[e] = processing[e],
           deadLetters'[e] = deadLetters[e], claimedUntil'[e] = claimedUntil[e],
           \A c \in Calls : Brings(c, e)' => Brings(c, e),
           \A w \in Workers : Moves(w, e)' => Moves(w, e),
           \A w \in Workers : Holds(w, e)' => Holds(w, e)
    PROVE  Alone(e)'
<1>1. Listed(e)' = Listed(e)
  BY DEF Listed
<1>2. QED
  BY <1>1 DEF Alone

\* The next record of a worker.
LEMMA DrainChanges ==
    ASSUME QInv, NEW w \in Workers, NEW d, Set(w, d)
    PROVE  drain'[w] = d /\ \A v \in Workers : v # w => drain'[v] = drain[v]
BY DEF QInv, TypeOK, Set

\* A list loses or gains one entry of its own event only.
LEMMA ListCounts ==
    ASSUME NEW list \in [Events -> Nat], NEW e \in Events
    PROVE  /\ RPush(list, e)[e] = list[e] + 1
           /\ LRem(list, e)[e] = (IF list[e] > 0 THEN list[e] - 1 ELSE 0)
           /\ \A x \in Events : x # e => RPush(list, e)[x] = list[x] /\ LRem(list, e)[x] = list[x]
BY DEF RPush, LRem

LEMMA OnceInit == NoTheft /\ Init => OnceInv
<1> SUFFICES ASSUME NoTheft, Init PROVE OnceInv
  OBVIOUS
<1>1. now <= MaxTime
  BY QueueAssumption DEF Init
<1>2. \A e \in Events : Alone(e)
  BY DEF Init, Alone, Listed, Brings, Moves, Holds, NoCall, NoDrain
<1>3. TakeInv
  BY DEF Init, TakeInv, NoCall
<1>4. StaleInv
  BY DEF Init, StaleInv, NoTheft, NoDrain
<1>5. QED
  BY <1>1, <1>2, <1>3, <1>4 DEF OnceInv

LEMMA OnceCalls ==
    ASSUME OneOperator, QInv, KindInv, OnceInv, errors = 0, NEW c \in Calls, CallStep(c)
    PROVE  OnceInv'
<1> DEFINE k == call[c]
<1>0. /\ now <= MaxTime /\ (\A e \in Events : Alone(e)) /\ TakeInv /\ StaleInv
      /\ pending \in [Events -> Nat] /\ processing \in [Events -> Nat] /\ now \in Nat
      /\ claimedUntil \in [Events -> Nat] /\ deadLetters \in [Events -> SUBSET Nat]
      /\ drain \in [Workers -> Drain]
  BY DEF OnceInv, QInv, TypeOK
<1>1. ASSUME UNCHANGED <<now, claimedUntil, pending, processing, deadLetters, drain>>,
             \A d \in Calls : d # c => call'[d] = call[d],
             \/ call'[c].step = "idle"
             \/ call'[c].step = "drain"
             \/ /\ call'[c].event = k.event /\ call'[c].step \in {"store", "push", "release"}
                /\ k.step \in {"measure", "store", "push", "release"}
      PROVE  OnceInv'
  <2>1. \A e \in Events : \A d \in Calls : Brings(d, e)' => Brings(d, e)
    BY <1>1 DEF Brings
  <2>2. \A e \in Events : \A w \in Workers :
          (Moves(w, e)' <=> Moves(w, e)) /\ (Holds(w, e)' <=> Holds(w, e))
    BY <1>1 DEF Moves, Holds
  <2>3. \A e \in Events : Alone(e)'
    BY <1>0, <1>1, <2>1, <2>2, AloneStays
  <2>4. TakeInv'
    BY <1>0, <1>1 DEF TakeInv
  <2>5. StaleInv'
    BY <1>0, <1>1 DEF StaleInv, Moves, Holds
  <2>6. QED
    BY <1>0, <1>1, <2>3, <2>4, <2>5 DEF OnceInv
<1>2. CASE Measure(c)
  <2>1. k.step = "measure" /\ (Move(c, "store") \/ Move(c, "release"))
    BY <1>2, StepOrder DEF Measure, At
  <2>2. QED
    BY <1>1, <1>2, <2>1, CallChanges DEF Measure, redis
<1>3. CASE Store(c)
  <2>1. k.step = "store" /\ Move(c, "push")
    BY <1>3, StepOrder DEF Store, At
  <2>2. QED
    BY <1>1, <1>3, <2>1, CallChanges DEF Store
<1>4. CASE Release(c)
  <2>0. PICK x \in Events : x = k.event
    BY <1>4 DEF Release, At, QInv, CallInv
  <2>1. k.step = "release" /\ Brings(c, x)
    BY <2>0, <1>4 DEF Release, At, Brings
  <2>2. call'[c].step = "idle" /\ \A d \in Calls : d # c => call'[d] = call[d]
    BY <1>4, CallChanges DEF Release
  <2>3. /\ claimedUntil'[x] = 0
        /\ \A e \in Events : e # x => claimedUntil'[e] = claimedUntil[e]
        /\ UNCHANGED <<now, pending, processing, deadLetters, drain>>
    BY <1>0, <1>4, <2>0, <2>1 DEF Release
  <2>4. \A e \in Events : \A d \in Calls : Brings(d, e)' => d # c /\ Brings(d, e)
    BY <2>2 DEF Brings
  <2>5. \A e \in Events : \A w \in Workers :
          (Moves(w, e)' <=> Moves(w, e)) /\ (Holds(w, e)' <=> Holds(w, e))
    BY <2>3 DEF Moves, Holds
  <2>6. ASSUME NEW e \in Events, e # x PROVE Alone(e)'
    BY <1>0, <2>3, <2>4, <2>5, <2>6, AloneStays
  <2>7. Alone(x)'
    <3>1. Alone(x) /\ Listed(x)' = Listed(x)
      BY <1>0, <2>1, <2>3 DEF Listed
    <3>2. \A d \in Calls : ~Brings(d, x)'
      BY <2>1, <2>4, <3>1 DEF Alone
    <3>3. QED
      BY <2>1, <2>3, <2>5, <3>1, <3>2 DEF Alone
  <2>8. TakeInv' /\ StaleInv'
    BY <1>0, <2>2, <2>3 DEF TakeInv, StaleInv, Moves, Holds
  <2>9. QED
    BY <1>0, <2>3, <2>6, <2>7, <2>8 DEF OnceInv
<1>5. CASE Push(c)
  <2>0. PICK x \in Events : x = k.event
    BY <1>5 DEF Push, At, QInv, CallInv
  <2>1. k.step = "push" /\ Brings(c, x)
    BY <2>0, <1>5 DEF Push, At, Brings
  <2>2. call'[c].step = "drain" /\ \A d \in Calls : d # c => call'[d] = call[d]
    BY <1>5, CallChanges, StepOrder DEF Push
  <2>3. /\ pending'[x] = pending[x] + 1
        /\ \A e \in Events : e # x => pending'[e] = pending[e]
        /\ UNCHANGED <<now, claimedUntil, processing, deadLetters, drain>>
    BY <1>0, <1>5, <2>0, <2>1, ListCounts DEF Push
  <2>4. \A e \in Events : \A d \in Calls : Brings(d, e)' => d # c /\ Brings(d, e)
    BY <2>2 DEF Brings
  <2>5. \A e \in Events : \A w \in Workers :
          (Moves(w, e)' <=> Moves(w, e)) /\ (Holds(w, e)' <=> Holds(w, e))
    BY <2>3 DEF Moves, Holds
  <2>6. ASSUME NEW e \in Events, e # x PROVE Alone(e)'
    BY <1>0, <2>3, <2>4, <2>5, <2>6, AloneStays
  <2>7. Alone(x)'
    <3>1. Alone(x) /\ Listed(x) = 0 /\ Listed(x)' = 1
      BY <1>0, <2>1, <2>3 DEF Listed, Alone
    <3>2. \A d \in Calls : ~Brings(d, x)'
      BY <2>1, <2>4, <3>1 DEF Alone
    <3>3. \A w \in Workers : ~Moves(w, x) /\ ~Holds(w, x)
      BY <1>0, <2>1, <3>1 DEF Alone, Listed
    <3>4. deadLetters[x] = {} /\ claimedUntil[x] > now
      BY <1>0, <2>1, <3>1 DEF Alone
    <3>5. QED
      BY <1>0, <2>1, <2>3, <2>5, <3>1, <3>2, <3>3, <3>4 DEF Alone
  <2>8. TakeInv' /\ StaleInv'
    BY <1>0, <2>2, <2>3 DEF TakeInv, StaleInv, Moves, Holds
  <2>9. QED
    BY <1>0, <2>3, <2>6, <2>7, <2>8 DEF OnceInv
<1>6. CASE StartDrain(c)
  <2>1. call'[c].step = "idle" /\ \A d \in Calls : d # c => call'[d] = call[d]
    BY <1>6, CallChanges DEF StartDrain
  <2>2. UNCHANGED <<now, claimedUntil, pending, processing, deadLetters>>
    BY <1>6 DEF StartDrain, redis
  <2>3. \A w \in Workers :
          /\ drain'[w].stale = drain[w].stale /\ drain'[w].before = drain[w].before
          /\ drain'[w].event = drain[w].event
          /\ drain'[w].step = drain[w].step \/ drain'[w].step = "scan"
    BY <1>0, <1>6 DEF StartDrain, Drain
  <2>4. \A e \in Events : \A d \in Calls : Brings(d, e)' => Brings(d, e)
    BY <2>1 DEF Brings
  <2>5. \A e \in Events : \A w \in Workers :
          (Moves(w, e)' => Moves(w, e)) /\ (Holds(w, e)' => Holds(w, e))
    BY <2>3 DEF Moves, Holds
  <2>6. \A e \in Events : Alone(e)'
    BY <1>0, <2>2, <2>4, <2>5, AloneStays
  <2>7. TakeInv'
    BY <1>0, <2>1, <2>2 DEF TakeInv
  <2>8. StaleInv'
    BY <1>0, <2>2, <2>3 DEF StaleInv, Moves, Holds
  <2>9. QED
    BY <1>0, <2>2, <2>6, <2>7, <2>8 DEF OnceInv
<1>7. CASE TakeLetter(c)
  <2>0. PICK x \in Events : x = k.event
    BY <1>7 DEF TakeLetter, At, QInv, CallInv
  <2>1. k.step = "take" /\ k.copy \in deadLetters[x]
    BY <2>0, <1>0, <1>7 DEF TakeLetter, At, TakeInv
  <2>2. /\ call'[c].step = "idle" \/ (call'[c].step = "store" /\ call'[c].event = k.event)
        /\ \A d \in Calls : d # c => call'[d] = call[d]
    BY <1>7, CallChanges, StepOrder DEF TakeLetter
  <2>3. /\ deadLetters'[x] = deadLetters[x] \ {k.copy}
        /\ \A e \in Events : e # x => deadLetters'[e] = deadLetters[e]
        /\ UNCHANGED <<now, claimedUntil, pending, processing, drain>>
    BY <1>0, <1>7, <2>0, <2>1 DEF TakeLetter
  <2>4. \A e \in Events : \A d \in Calls : Brings(d, e)' => Brings(d, e) \/ (d = c /\ e = x)
    BY <2>0, <2>2 DEF Brings
  <2>5. \A e \in Events : \A w \in Workers :
          (Moves(w, e)' <=> Moves(w, e)) /\ (Holds(w, e)' <=> Holds(w, e))
    BY <2>3 DEF Moves, Holds
  <2>6. ASSUME NEW e \in Events, e # x PROVE Alone(e)'
    BY <1>0, <2>3, <2>4, <2>5, <2>6, AloneStays
  <2>7. Alone(x)'
    <3>1. Alone(x) /\ Listed(x)' = Listed(x)
      BY <1>0, <2>1, <2>3 DEF Listed
    <3>2. deadLetters[x] # {} /\ deadLetters'[x] = {}
      BY <2>1, <2>3, <3>1 DEF Alone
    <3>3. /\ Listed(x) = 0 /\ claimedUntil[x] > now
          /\ \A w \in Workers : ~Moves(w, x)
          /\ \A d \in Calls : ~Brings(d, x)
      BY <1>0, <2>1, <3>1, <3>2 DEF Alone, Listed
    <3>4. QED
      BY <1>0, <2>1, <2>3, <2>4, <2>5, <3>1, <3>2, <3>3 DEF Alone
  <2>8. TakeInv'
    <3>1. \A d \in Calls : call[d].step = "take" => d = c
      BY <2>1 DEF KindInv, OneOperator
    <3>2. \A d \in Calls : call'[d].step # "take"
      BY <2>2, <3>1
    <3>3. QED
      BY <3>2 DEF TakeInv
  <2>9. StaleInv'
    BY <1>0, <2>3 DEF StaleInv, Moves, Holds
  <2>10. QED
    BY <1>0, <2>3, <2>6, <2>7, <2>8, <2>9 DEF OnceInv
<1>8. QED
  BY <1>2, <1>3, <1>4, <1>5, <1>6, <1>7 DEF CallStep

LEMMA OnceDrains ==
    ASSUME QInv, OnceInv, errors = 0, NEW w \in Workers, DrainStep(w)
    PROVE  OnceInv'
<1> DEFINE d == drain[w]
<1>0. /\ now <= MaxTime /\ (\A e \in Events : Alone(e)) /\ TakeInv /\ StaleInv
      /\ pending \in [Events -> Nat] /\ processing \in [Events -> Nat] /\ now \in Nat
      /\ claimedUntil \in [Events -> Nat] /\ deadLetters \in [Events -> SUBSET Nat]
      /\ drain \in [Workers -> Drain] /\ d \in Drain
  BY DEF OnceInv, QInv, TypeOK
\* A step that leaves the lists alone and takes nothing new in hand.
<1>1. ASSUME UNCHANGED <<now, claimedUntil, pending, processing, deadLetters, call>>,
             \A v \in Workers : v # w => drain'[v] = drain[v],
             \A e \in Events : (Moves(w, e)' => Moves(w, e)) /\ (Holds(w, e)' => Holds(w, e)),
             StaleInv'
      PROVE  OnceInv'
  <2>1. \A e \in Events : \A c \in Calls : Brings(c, e)' => Brings(c, e)
    BY <1>1 DEF Brings
  <2>2. \A e \in Events : \A v \in Workers :
          (Moves(v, e)' => Moves(v, e)) /\ (Holds(v, e)' => Holds(v, e))
    BY <1>1 DEF Moves, Holds
  <2>3. \A e \in Events : Alone(e)'
    BY <1>0, <1>1, <2>1, <2>2, AloneStays
  <2>4. TakeInv'
    BY <1>0, <1>1 DEF TakeInv
  <2>5. QED
    BY <1>0, <1>1, <2>3, <2>4 DEF OnceInv
\* What is left to look at does not grow, and what is looked at stays listed.
<1>2. ASSUME \A v \in Workers : v # w => drain'[v] = drain[v],
             drain'[w].stale \subseteq d.stale, drain'[w].before = d.before \/ drain'[w].stale = {},
             \A e \in drain'[w].stale : /\ processing[e] > 0 => processing'[e] > 0
                                        /\ Holds(w, e) \/ Moves(w, e) \/ drain'[w].event # e
      PROVE  StaleInv'
  <2>1. CASE Timeout > MaxTime /\ \A v \in Workers : drain[v].stale # {} => drain[v].before < 0
    BY <1>2, <2>1 DEF StaleInv
  <2>2. CASE /\ \A u, v \in Workers : u = v
             /\ \A v \in Workers : \A e \in drain[v].stale :
                   processing[e] > 0 /\ ~Holds(v, e) /\ ~Moves(v, e)
    <3>1. \A e \in drain'[w].stale : processing'[e] > 0 /\ ~Holds(w, e)' /\ ~Moves(w, e)'
      BY <1>2, <2>2 DEF Holds, Moves
    <3>2. QED
      BY <2>2, <3>1 DEF StaleInv
  <2>3. QED
    BY <1>0, <2>1, <2>2 DEF StaleInv
<1>3. CASE Scan(w)
  <2>1. /\ drain'[w].step = "next" /\ drain'[w].before = now - Timeout
        /\ drain'[w].stale = {e \in Events : processing[e] > 0}
        /\ \A v \in Workers : v # w => drain'[v] = drain[v]
    <3>1. Set(w, [NoDrain EXCEPT !.step = "next", !.before = now - Timeout,
                                 !.stale = {e \in Events : processing[e] > 0}])
      BY <1>3 DEF Scan
    <3>2. /\ drain'[w] = [NoDrain EXCEPT !.step = "next", !.before = now - Timeout,
                                         !.stale = {e \in Events : processing[e] > 0}]
          /\ \A v \in Workers : v # w => drain'[v] = drain[v]
      BY <3>1, DrainChanges
    <3>3. QED
      BY <3>2 DEF NoDrain
  <2>2. \A e : ~Moves(w, e)' /\ ~Holds(w, e)'
    BY <2>1 DEF Moves, Holds
  <2>3. StaleInv'
    <3>1. CASE Timeout > MaxTime /\ \A v \in Workers : drain[v].stale # {} => drain[v].before < 0
      <4>1. drain'[w].before < 0
        BY <1>0, <2>1, <3>1, QueueAssumption
      <4>2. QED
        BY <2>1, <3>1, <4>1 DEF StaleInv
    <3>2. CASE \A u, v \in Workers : u = v
      <4>1. processing' = processing
        BY <1>3 DEF Scan, redis
      <4>2. \A e \in drain'[w].stale : processing'[e] > 0
        BY <2>1, <4>1
      <4>3. QED
        BY <2>2, <3>2, <4>2 DEF StaleInv
    <3>3. QED
      BY <1>0, <3>1, <3>2 DEF StaleInv
  <2>4. QED
    BY <1>1, <1>3, <2>1, <2>2, <2>3 DEF Scan, redis
<1>4. CASE EndDrain(w)
  <2>1. drain'[w] = NoDrain /\ \A v \in Workers : v # w => drain'[v] = drain[v]
    BY <1>4, DrainChanges DEF EndDrain
  <2>2. drain'[w].stale = {} /\ \A e : ~Moves(w, e)' /\ ~Holds(w, e)'
    BY <2>1 DEF NoDrain, Moves, Holds
  <2>3. UNCHANGED <<now, claimedUntil, pending, processing, deadLetters, call>>
    BY <1>4 DEF EndDrain, redis
  <2>4. QED
    BY <1>1, <1>2, <2>1, <2>2, <2>3
<1>5. CASE Load(w)
  <2>1. d.event \in Events /\ Exists(d.event) /\ d.step = "load"
    BY <1>5 DEF Load, In, QInv, DrainInv
  <2>2. processing' = processing
        /\ Set(w, [d EXCEPT !.step = "save", !.as = "processing",
                            !.attempts = row[d.event].attempts + 1])
    BY <1>5, <2>1 DEF Load
  <2>3. /\ drain'[w].step = "save" /\ drain'[w].event = d.event
        /\ drain'[w].stale = d.stale /\ drain'[w].before = d.before
        /\ \A v \in Workers : v # w => drain'[v] = drain[v]
    <3>1. /\ drain'[w] = [d EXCEPT !.step = "save", !.as = "processing",
                                   !.attempts = row[d.event].attempts + 1]
          /\ \A v \in Workers : v # w => drain'[v] = drain[v]
      BY <2>2, DrainChanges
    <3>2. QED
      BY <1>0, <3>1 DEF Drain
  <2>4. \A e : ~Moves(w, e)' /\ (Holds(w, e)' => Holds(w, e))
    BY <2>1, <2>3 DEF Moves, Holds
  <2>5. StaleInv'
    BY <1>2, <2>1, <2>2, <2>3 DEF Holds
  <2>6. QED
    BY <1>1, <1>5, <2>2, <2>3, <2>4, <2>5 DEF Load
<1>6. CASE Save(w)
  <2>1. d.step = "save" /\ Set(w, [d EXCEPT !.step = IF d.as = "processing" THEN "forward" ELSE "drop"])
    BY <1>6 DEF Save, In
  <2>2. /\ drain'[w].step \in {"forward", "drop"} /\ drain'[w].event = d.event
        /\ drain'[w].stale = d.stale /\ drain'[w].before = d.before
        /\ \A v \in Workers : v # w => drain'[v] = drain[v]
    BY <1>0, <2>1, DrainChanges DEF Drain
  <2>3. UNCHANGED <<now, claimedUntil, pending, processing, deadLetters, call>>
    BY <1>6 DEF Save
  <2>4. \A e : ~Moves(w, e)' /\ (Holds(w, e)' => Holds(w, e))
    BY <2>1, <2>2 DEF Moves, Holds
  <2>5. StaleInv'
    BY <1>2, <2>1, <2>2, <2>3 DEF Holds
  <2>6. QED
    BY <1>1, <2>2, <2>3, <2>4, <2>5
<1>7. CASE Forward(w)
  <2>1. PICK outcome \in {"accepted", "terminal", "retryable"} :
          Set(w, [d EXCEPT !.step = "save", !.as = Disposition(outcome, d.attempts)])
    BY <1>7 DEF Forward
  <2>2. /\ drain'[w].step = "save" /\ drain'[w].event = d.event /\ d.step = "forward"
        /\ drain'[w].stale = d.stale /\ drain'[w].before = d.before
        /\ \A v \in Workers : v # w => drain'[v] = drain[v]
    <3>1. /\ drain'[w] = [d EXCEPT !.step = "save", !.as = Disposition(outcome, d.attempts)]
          /\ \A v \in Workers : v # w => drain'[v] = drain[v]
      BY <2>1, DrainChanges
    <3>2. QED
      BY <1>0, <1>7, <3>1 DEF Drain, Forward, In
  <2>3. UNCHANGED <<now, claimedUntil, pending, processing, deadLetters, call>>
    BY <1>7 DEF Forward, redis
  <2>4. \A e : ~Moves(w, e)' /\ (Holds(w, e)' => Holds(w, e))
    BY <2>2 DEF Moves, Holds
  <2>5. StaleInv'
    BY <1>2, <2>2, <2>3 DEF Holds
  <2>6. QED
    BY <1>1, <2>2, <2>3, <2>4, <2>5
<1>8. CASE CheckStale(w)
  <2>1. PICK x \in d.stale :
          LET rest == d.stale \ {x} IN
          /\ processing' = IF Exists(x) THEN processing ELSE LRem(processing, x)
          /\ Set(w, IF IsStale(x, d.before)
                    THEN [d EXCEPT !.step = "save", !.event = x, !.as = "failed",
                                   !.attempts = row[x].attempts, !.stale = rest]
                    ELSE [d EXCEPT !.stale = rest])
    BY <1>8 DEF CheckStale
  <2>2. x \in Events /\ d.step = "next"
    BY <1>0, <1>8, <2>1 DEF Drain, CheckStale, In
  <2>3. \A e \in Events : processing'[e] = processing[e]
    <3>1. ~Exists(x) => processing[x] = 0
      BY <1>0, <2>2 DEF QInv, ListedHasRow, Listed
    <3>2. QED
      BY <1>0, <2>1, <2>2, <3>1, ListCounts
  <2>4. UNCHANGED <<now, claimedUntil, pending, deadLetters, call>>
    BY <1>8 DEF CheckStale
  <2>5. \A e \in Events : \A c \in Calls : Brings(c, e)' => Brings(c, e)
    BY <2>4 DEF Brings
  <2>6. /\ drain'[w].stale = d.stale \ {x} /\ drain'[w].before = d.before
        /\ \/ drain'[w].step = "next"
           \/ drain'[w].step = "save" /\ drain'[w].event = x /\ IsStale(x, d.before)
        /\ \A v \in Workers : v # w => drain'[v] = drain[v]
    <3>1. /\ drain'[w] = IF IsStale(x, d.before)
                         THEN [d EXCEPT !.step = "save", !.event = x, !.as = "failed",
                                        !.attempts = row[x].attempts, !.stale = d.stale \ {x}]
                         ELSE [d EXCEPT !.stale = d.stale \ {x}]
          /\ \A v \in Workers : v # w => drain'[v] = drain[v]
      BY <2>1, DrainChanges
    <3>2. QED
      BY <1>0, <2>2, <3>1 DEF Drain
  <2>7. \A e \in Events : \A v \in Workers :
          /\ Moves(v, e)' => Moves(v, e)
          /\ Holds(v, e)' => Holds(v, e) \/ (v = w /\ e = x /\ IsStale(x, d.before))
    BY <2>6 DEF Moves, Holds
  <2>8. IsStale(x, d.before) => processing[x] > 0 /\ \A u, v \in Workers : u = v
    <3>1. row[x].updatedAt \in Nat /\ d.before \in Int
      BY <1>0, <2>2 DEF QInv, TypeOK, Row, Drain
    <3>2. QED
      BY <1>0, <2>1, <3>1 DEF StaleInv, IsStale
  <2>9. ASSUME NEW e \in Events PROVE Alone(e)'
    <3>1. CASE e # x \/ ~IsStale(x, d.before)
      BY <1>0, <2>3, <2>4, <2>5, <2>7, <3>1, AloneStays
    <3>2. CASE e = x /\ IsStale(x, d.before)
      <4>1. Alone(e) /\ Listed(e)' = Listed(e) /\ processing'[e] > 0 /\ \A u, v \in Workers : u = v
        BY <1>0, <2>3, <2>4, <2>8, <3>2 DEF Listed
      <4>2. QED
        BY <2>4, <2>5, <2>7, <4>1 DEF Alone
    <3>3. QED
      BY <3>1, <3>2
  <2>10. StaleInv'
    <3>1. \A e \in drain'[w].stale : processing'[e] = processing[e] /\ e # x
      BY <1>0, <2>3, <2>6 DEF Drain
    <3>2. CASE Timeout > MaxTime /\ \A v \in Workers : drain[v].stale # {} => drain[v].before < 0
      BY <2>1, <2>6, <3>2 DEF StaleInv
    <3>3. CASE /\ \A u, v \in Workers : u = v
               /\ \A v \in Workers : \A e \in drain[v].stale :
                     processing[e] > 0 /\ ~Holds(v, e) /\ ~Moves(v, e)
      <4>1. \A e \in drain'[w].stale : processing'[e] > 0 /\ ~Holds(w, e)' /\ ~Moves(w, e)'
        BY <2>6, <3>1, <3>3 DEF Holds, Moves
      <4>2. QED
        BY <3>3, <4>1 DEF StaleInv
    <3>4. QED
      BY <1>0, <3>2, <3>3 DEF StaleInv
  <2>11. QED
    BY <1>0, <2>4, <2>9, <2>10 DEF OnceInv, TakeInv
<1>9. CASE ClaimNext(w)
  <2>1. PICK x \in Events :
          /\ pending[x] > 0
          /\ pending' = LRem(pending, x)
          /\ processing' = RPush(processing, x)
          /\ Set(w, [NoDrain EXCEPT !.step = "load", !.event = x])
    BY <1>9 DEF ClaimNext
  <2>2. /\ pending'[x] = pending[x] - 1 /\ processing'[x] = processing[x] + 1
        /\ \A e \in Events : e # x => pending'[e] = pending[e] /\ processing'[e] = processing[e]
        /\ UNCHANGED <<now, claimedUntil, deadLetters, call>>
    BY <1>0, <1>9, <2>1, ListCounts DEF ClaimNext
  <2>3. /\ drain'[w].step = "load" /\ drain'[w].event = x /\ drain'[w].stale = {}
        /\ \A v \in Workers : v # w => drain'[v] = drain[v]
    <3>1. [NoDrain EXCEPT !.step = "load", !.event = x].step = "load"
          /\ [NoDrain EXCEPT !.step = "load", !.event = x].event = x
          /\ [NoDrain EXCEPT !.step = "load", !.event = x].stale = {}
      BY DEF NoDrain
    <3>2. QED
      BY <2>1, <3>1, DrainChanges
  <2>4. \A e \in Events : \A c \in Calls : Brings(c, e)' => Brings(c, e)
    BY <2>2 DEF Brings
  <2>5. \A e \in Events : \A v \in Workers :
          /\ Moves(v, e)' => Moves(v, e)
          /\ Holds(v, e)' => Holds(v, e) \/ (v = w /\ e = x)
    BY <2>3 DEF Moves, Holds
  <2>6. ASSUME NEW e \in Events, e # x PROVE Alone(e)'
    BY <1>0, <2>2, <2>4, <2>5, <2>6, AloneStays
  <2>7. Alone(x)'
    <3>1. Alone(x) /\ Listed(x)' = Listed(x) /\ Listed(x) > 0 /\ processing[x] = 0
      BY <1>0, <2>1, <2>2 DEF Listed, Alone
    <3>2. \A v \in Workers : ~Holds(v, x)
      BY <3>1 DEF Alone
    <3>3. processing'[x] > 0
      BY <1>0, <2>2
    <3>4. QED
      BY <2>2, <2>4, <2>5, <3>1, <3>2, <3>3 DEF Alone
  <2>8. StaleInv'
    BY <1>2, <2>3
  <2>9. QED
    BY <1>0, <2>2, <2>6, <2>7, <2>8 DEF OnceInv, TakeInv
<1>10. CASE Drop(w)
  <2>0. PICK x \in Events : x = d.event
    BY <1>10 DEF Drop, In, QInv, DrainInv
  <2>1. d.step = "drop" /\ Holds(w, x) /\ ~Moves(w, x)
    BY <1>10, <2>0 DEF Drop, In, Holds, Moves
  <2>2. /\ processing'[x] = IF processing[x] > 0 THEN processing[x] - 1 ELSE 0
        /\ \A e \in Events : e # x => processing'[e] = processing[e]
        /\ UNCHANGED <<now, claimedUntil, pending, deadLetters, call>>
    BY <1>0, <1>10, <2>0, ListCounts DEF Drop
  <2>3. /\ drain'[w].step = "push" /\ drain'[w].event = x
        /\ drain'[w].stale = d.stale /\ drain'[w].before = d.before
        /\ \A v \in Workers : v # w => drain'[v] = drain[v]
    BY <1>0, <1>10, <2>0, DrainChanges DEF Drop, Drain
  <2>4. \A e \in Events : \A c \in Calls : Brings(c, e)' => Brings(c, e)
    BY <2>2 DEF Brings
  <2>5. \A e \in Events : \A v \in Workers :
          /\ Moves(v, e)' => Moves(v, e) \/ (v = w /\ e = x)
          /\ Holds(v, e)' => Holds(v, e) /\ v # w
    BY <2>3 DEF Moves, Holds
  <2>6. ASSUME NEW e \in Events, e # x PROVE Alone(e)'
    BY <1>0, <2>2, <2>4, <2>5, <2>6, AloneStays
  <2>7. Alone(x)'
    <3>1. Alone(x) /\ processing[x] = 1 /\ Listed(x) = 1 /\ Listed(x)' = 0
      BY <1>0, <2>1, <2>2 DEF Listed, Alone
    <3>2. deadLetters[x] = {} /\ claimedUntil[x] > now
          /\ (\A c \in Calls : ~Brings(c, x)) /\ \A v \in Workers : ~Moves(v, x)
      BY <1>0, <3>1 DEF Alone
    <3>3. \A v \in Workers : ~Holds(v, x)'
      BY <2>1, <2>5, <3>1 DEF Alone
    <3>4. QED
      BY <1>0, <2>2, <2>4, <2>5, <3>1, <3>2, <3>3 DEF Alone
  <2>8. StaleInv'
    <3>1. \A e \in d.stale : e # x => processing'[e] = processing[e]
      BY <1>0, <2>2 DEF Drain
    <3>2. CASE Timeout > MaxTime /\ \A v \in Workers : drain[v].stale # {} => drain[v].before < 0
      BY <2>3, <3>2 DEF StaleInv
    <3>3. CASE /\ \A u, v \in Workers : u = v
               /\ \A v \in Workers : \A e \in drain[v].stale :
                     processing[e] > 0 /\ ~Holds(v, e) /\ ~Moves(v, e)
      <4>1. \A e \in drain'[w].stale : processing'[e] > 0 /\ ~Holds(w, e)' /\ ~Moves(w, e)'
        BY <2>1, <2>3, <3>1, <3>3 DEF Holds, Moves
      <4>2. QED
        BY <3>3, <4>1 DEF StaleInv
    <3>4. QED
      BY <1>0, <3>2, <3>3 DEF StaleInv
  <2>9. QED
    BY <1>0, <2>2, <2>6, <2>7, <2>8 DEF OnceInv, TakeInv
<1>11. CASE Place(w)
  <2>0. PICK x \in Events : x = d.event
    BY <1>11 DEF Place, In, QInv, DrainInv
  <2>1. d.step = "push" /\ Moves(w, x)
    BY <1>11, <2>0 DEF Place, In, Moves
  <2>2. /\ pending'[x] = pending[x] \/ (pending'[x] = pending[x] + 1 /\ deadLetters'[x] = deadLetters[x])
        /\ deadLetters'[x] = deadLetters[x] \/ \E n : deadLetters'[x] = deadLetters[x] \cup {n}
        /\ \A e \in Events : e # x => pending'[e] = pending[e] /\ deadLetters'[e] = deadLetters[e]
        /\ \A e \in Events : deadLetters[e] \subseteq deadLetters'[e]
        /\ UNCHANGED <<now, claimedUntil, processing, call>>
    <3>1. /\ pending' = pending \/ (pending' = RPush(pending, x) /\ deadLetters' = deadLetters)
          /\ \/ deadLetters' = deadLetters
             \/ deadLetters' = [deadLetters EXCEPT ![x] = @ \cup {lettered[x] + 1}]
      <4>1. CASE d.as = "failed"
        BY <1>11, <2>0, <4>1 DEF Place
      <4>2. CASE d.as # "failed"
        BY <1>11, <2>0, <4>2 DEF Place
      <4>3. QED
        BY <4>1, <4>2
    <3>2. QED
      BY <1>0, <1>11, <2>0, <3>1, ListCounts DEF Place
  <2>3. /\ drain'[w].step = "next" /\ drain'[w].event = None
        /\ drain'[w].stale = d.stale /\ drain'[w].before = d.before
        /\ \A v \in Workers : v # w => drain'[v] = drain[v]
    <3>1. Set(w, [NoDrain EXCEPT !.step = "next", !.stale = d.stale, !.before = d.before])
      BY <1>11 DEF Place, AfterEntry
    <3>2. /\ drain'[w] = [NoDrain EXCEPT !.step = "next", !.stale = d.stale, !.before = d.before]
          /\ \A v \in Workers : v # w => drain'[v] = drain[v]
      BY <3>1, DrainChanges
    <3>3. QED
      BY <3>2 DEF NoDrain
  <2>4. \A e \in Events : \A c \in Calls : Brings(c, e)' => Brings(c, e)
    BY <2>2 DEF Brings
  <2>5. \A e \in Events : \A v \in Workers :
          /\ Moves(v, e)' => Moves(v, e) /\ v # w
          /\ Holds(v, e)' => Holds(v, e)
    BY <2>3 DEF Moves, Holds
  <2>6. ASSUME NEW e \in Events, e # x PROVE Alone(e)'
    BY <1>0, <2>2, <2>4, <2>5, <2>6, AloneStays
  <2>7. Alone(x)'
    <3>1. /\ Alone(x) /\ Listed(x) = 0 /\ deadLetters[x] = {} /\ claimedUntil[x] > now
          /\ pending[x] = 0 /\ processing[x] = 0
          /\ (\A c \in Calls : ~Brings(c, x)) /\ \A v \in Workers : ~Holds(v, x)
      BY <1>0, <2>1 DEF Alone, Listed
    <3>2. \A v \in Workers : ~Moves(v, x)'
      BY <2>1, <2>5, <3>1 DEF Alone
    <3>3. /\ \A m, n \in deadLetters'[x] : m = n
          /\ Listed(x)' = 0 \/ (Listed(x)' = 1 /\ deadLetters'[x] = {})
      BY <2>2, <3>1 DEF Listed
    <3>4. QED
      BY <1>0, <2>2, <2>4, <2>5, <3>1, <3>2, <3>3 DEF Alone
  <2>8. StaleInv'
    <3>1. \A e \in drain'[w].stale : e # None
      BY <1>0, <2>3, QueueAssumption DEF Drain
    <3>2. QED
      BY <1>2, <2>2, <2>3, <3>1
  <2>9. TakeInv'
    <3>1. \A c \in Calls : call[c].step = "take" => call[c].event \in Events
      BY DEF QInv, CallInv
    <3>2. QED
      BY <1>0, <2>2, <3>1 DEF TakeInv
  <2>10. QED
    BY <1>0, <2>2, <2>6, <2>7, <2>8, <2>9 DEF OnceInv
<1>12. QED
  BY <1>3, <1>4, <1>5, <1>6, <1>7, <1>8, <1>9, <1>10, <1>11 DEF DrainStep

LEMMA OnceNext ==
    ASSUME OneOperator, KeyLife > MaxTime
    PROVE  QInv /\ KindInv /\ OnceInv /\ [Next]_vars => OnceInv'
<1> SUFFICES ASSUME QInv, KindInv, OnceInv, [Next]_vars, errors' = 0 PROVE OnceInv'
  BY DEF OnceInv
<1>0. /\ pending \in [Events -> Nat] /\ processing \in [Events -> Nat] /\ now \in Nat
      /\ claimedUntil \in [Events -> Nat] /\ errors \in Nat /\ call \in [Calls -> Call]
      /\ drain \in [Workers -> Drain]
  BY DEF QInv, TypeOK
<1> DEFINE Once == /\ now <= MaxTime /\ (\A e \in Events : Alone(e)) /\ TakeInv /\ StaleInv
<1>1. ASSUME NEW c \in Calls, NEW w \in Workers, NEW x \in Events, Receive(c, w, x)
      PROVE  OnceInv'
  <2>0. Once
    BY <1>1 DEF Receive, history, OnceInv
  <2>1. /\ call'[c].step = "measure" /\ call'[c].event = x
        /\ \A d \in Calls : d # c => call'[d] = call[d]
    BY <1>0, <1>1 DEF Receive
  <2>2. /\ claimedUntil[x] <= now /\ claimedUntil'[x] = now + KeyLife
        /\ \A e \in Events : e # x => claimedUntil'[e] = claimedUntil[e]
        /\ UNCHANGED <<now, pending, processing, deadLetters, drain>>
    BY <1>0, <1>1 DEF Receive, Claimable
  <2>3. \A e \in Events : \A d \in Calls : Brings(d, e)' => Brings(d, e) \/ (d = c /\ e = x)
    BY <2>1 DEF Brings
  <2>4. \A e \in Events : \A v \in Workers :
          (Moves(v, e)' <=> Moves(v, e)) /\ (Holds(v, e)' <=> Holds(v, e))
    BY <2>2 DEF Moves, Holds
  <2>5. ASSUME NEW e \in Events, e # x PROVE Alone(e)'
    BY <2>0, <2>2, <2>3, <2>4, <2>5, AloneStays
  <2>6. Alone(x)'
    <3>1. /\ Alone(x) /\ Listed(x)' = 0 /\ deadLetters'[x] = {} /\ processing[x] = 0
          /\ (\A d \in Calls : ~Brings(d, x)) /\ \A v \in Workers : ~Moves(v, x)
      BY <1>0, <2>0, <2>2 DEF Alone, Listed
    <3>2. claimedUntil'[x] > MaxTime /\ ~(claimedUntil'[x] <= now')
      BY <1>0, <2>0, <2>2, QueueAssumption
    <3>3. \A v \in Workers : ~Holds(v, x)' /\ ~Moves(v, x)'
      BY <2>4, <3>1 DEF Alone
    <3>4. \A d \in Calls : Brings(d, x)' => d = c
      BY <2>3, <3>1
    <3>5. 0 <= 1 /\ ~(0 > 0)
      OBVIOUS
    <3>6. QED
      BY <3>1, <3>2, <3>3, <3>4, <3>5 DEF Alone
  <2>7. TakeInv' /\ StaleInv'
    BY <2>0, <2>1, <2>2 DEF TakeInv, StaleInv, Moves, Holds
  <2>8. QED
    BY <2>0, <2>2, <2>5, <2>6, <2>7 DEF OnceInv
\* Nothing is taken in hand, the lists and keys stay.
<1>2. ASSUME Once, UNCHANGED <<now, claimedUntil, pending, processing, deadLetters>>,
             \A e \in Events : \A c \in Calls : Brings(c, e)' => Brings(c, e),
             \A w \in Workers : drain'[w] = drain[w] \/ drain'[w] = NoDrain,
             TakeInv'
      PROVE  OnceInv'
  <2>1. \A e \in Events : \A w \in Workers :
          (Moves(w, e)' => Moves(w, e)) /\ (Holds(w, e)' => Holds(w, e))
    BY <1>2 DEF Moves, Holds, NoDrain
  <2>2. \A e \in Events : Alone(e)'
    BY <1>2, <2>1, AloneStays
  <2>3. StaleInv'
    BY <1>2 DEF StaleInv, Moves, Holds, NoDrain
  <2>4. QED
    BY <1>2, <2>2, <2>3 DEF OnceInv
<1>3. ASSUME NEW c \in Calls, NEW w \in Workers, NEW e \in Events,
             NEW op \in {"replay", "delete"}, FindLetter(c, w, e, op)
      PROVE  OnceInv'
  <2>1. /\ call'[c].step = "take" /\ call'[c].event = e /\ call'[c].copy \in deadLetters[e]
        /\ \A d \in Calls : d # c => call'[d] = call[d]
    BY <1>0, <1>3 DEF FindLetter
  <2>2. Once /\ UNCHANGED <<now, claimedUntil, pending, processing, deadLetters, drain>>
    BY <1>3 DEF FindLetter, redis, history, OnceInv
  <2>3. TakeInv' /\ \A x \in Events : \A d \in Calls : Brings(d, x)' => Brings(d, x)
    BY <2>1, <2>2 DEF TakeInv, Brings
  <2>4. QED
    BY <1>2, <2>2, <2>3
<1>4. ASSUME NEW c \in Calls, CallStep(c) PROVE OnceInv'
  <2>1. UNCHANGED errors
    BY <1>4 DEF CallStep, Measure, Release, Store, Push, StartDrain, TakeLetter, history
  <2>2. QED
    BY <1>4, <2>1, OnceCalls
<1>5. ASSUME NEW w \in Workers, DrainStep(w) PROVE OnceInv'
  <2>1. UNCHANGED errors
    BY <1>5 DEF DrainStep, Scan, CheckStale, ClaimNext, EndDrain, Load, Save, Forward, Drop,
                Place, history
  <2>2. QED
    BY <1>5, <2>1, OnceDrains
<1>6. ASSUME NEW w \in Workers, Crash(w) PROVE OnceInv'
  <2>1. /\ Once /\ UNCHANGED <<now, claimedUntil, pending, processing, deadLetters>>
        /\ Set(w, NoDrain) /\ \A c \in Calls : call'[c] = call[c] \/ call'[c] = NoCall
    BY <1>6 DEF Crash, redis, history, OnceInv
  <2>2. TakeInv' /\ \A e \in Events : \A c \in Calls : Brings(c, e)' => Brings(c, e)
    BY <2>1 DEF TakeInv, Brings, NoCall
  <2>3. \A v \in Workers : drain'[v] = drain[v] \/ drain'[v] = NoDrain
    BY <2>1, DrainChanges
  <2>4. QED
    BY <1>2, <2>1, <2>2, <2>3
<1>7. ASSUME NEW c \in Calls, CallError(c) PROVE FALSE
  BY <1>0, <1>7 DEF CallError
<1>8. ASSUME NEW w \in Workers, DrainError(w) PROVE FALSE
  BY <1>0, <1>8 DEF DrainError
<1>9. CASE Tick
  <2>1. /\ Once /\ now < MaxTime /\ now' = now + 1
        /\ UNCHANGED <<claimedUntil, pending, processing, deadLetters, drain, call>>
    BY <1>9 DEF Tick, redis, history, OnceInv
  <2>2. ASSUME NEW e \in Events PROVE Alone(e)'
    <3>1. claimedUntil[e] <= now + 1 => claimedUntil[e] <= now
      BY <1>0, <2>1, QueueAssumption DEF Alone
    <3>2. QED
      BY <2>1, <3>1 DEF Alone, Listed, Brings, Moves, Holds
  <2>3. TakeInv' /\ StaleInv'
    BY <2>1 DEF TakeInv, StaleInv, Moves, Holds
  <2>4. now' <= MaxTime
    BY <1>0, <2>1, QueueAssumption
  <2>5. QED
    BY <2>2, <2>3, <2>4 DEF OnceInv
<1>10. CASE UNCHANGED vars
  <2>1. Once /\ UNCHANGED <<now, claimedUntil, pending, processing, deadLetters, drain, call>>
    BY <1>10 DEF vars, redis, history, OnceInv
  <2>2. QED
    BY <1>2, <2>1 DEF TakeInv, Brings
<1>11. QED
  BY <1>1, <1>3, <1>4, <1>5, <1>6, <1>7, <1>8, <1>9, <1>10 DEF Next

\* The work of an event that is in one place is in the lists at most once.
LEMMA AloneIsOnce ==
    ASSUME QInv, KindInv, NEW e \in Events, Alone(e)
    PROVE  Listed(e) + (IF Carried(e) THEN 1 ELSE 0) <= 1
<1>1. Listed(e) \in Nat
  BY DEF QInv, TypeOK, Listed
<1>2. Carried(e) => Listed(e) = 0
  BY DEF Carried, Alone, Brings, Moves
<1>3. QED
  BY <1>1, <1>2 DEF Alone

-----------------------------------------------------------------------------
(* Attempts. *)

\* The most attempts an event can have on its row.
Limit == MaxAttempts + faults

\* A worker counts no attempt beyond the limit, and gives back for another one
\* only an event that has one left.
WorkerPaid(w, e) ==
    drain[w].event = e =>
        /\ drain[w].step = "load" => row[e].attempts < Limit
        /\ drain[w].step \in {"save", "forward"} => drain[w].attempts <= Limit
        /\ drain[w].as = "failed" =>
              /\ drain[w].step = "save" => drain[w].attempts < Limit
              /\ drain[w].step \in {"drop", "push"} => row[e].attempts < Limit

\* An event that waits for an attempt has one left.
Paid(e) ==
    /\ row[e].attempts <= Limit
    /\ pending[e] > 0 => row[e].attempts < Limit
    /\ processing[e] > 0 => row[e].attempts < Limit \/ \E w \in Workers : Holds(w, e)
    /\ \A c \in Calls : call[c].event = e /\ call[c].step = "push" => row[e].attempts < Limit
    /\ \A w \in Workers : WorkerPaid(w, e)

PaidInv == errors = 0 => \A e \in Events : Paid(e)

LEMMA LimitIsPositive ==
    ASSUME QInv
    PROVE  /\ Limit \in Nat /\ 0 < Limit /\ MaxAttempts <= Limit
           /\ \A e \in Events : row[e].attempts \in Nat
           /\ \A w \in Workers : drain[w].attempts \in Nat
<1>1. faults \in Nat /\ MaxAttempts \in Nat /\ MaxAttempts > 0
  BY QueueAssumption DEF QInv, TypeOK
<1>2. \A e \in Events : row[e].attempts \in Nat
  BY DEF QInv, TypeOK, Row
<1>3. \A w \in Workers : drain[w].attempts \in Nat
  BY DEF QInv, TypeOK, Drain
<1>4. QED
  BY <1>1, <1>2, <1>3 DEF Limit

\* Nothing changes for an event whose row and places stay, whose holders stay and
\* whose workers keep to the limit.
LEMMA PaidStays ==
    ASSUME NEW e \in Events, Paid(e), row'[e] = row[e], faults' = faults,
           pending'[e] = pending[e], processing'[e] = processing[e],
           \A c \in Calls : call'[c].event = e /\ call'[c].step = "push" =>
                              call[c].event = e /\ call[c].step = "push",
           \A w \in Workers : Holds(w, e) => Holds(w, e)',
           \A w \in Workers : drain'[w] = drain[w] \/ WorkerPaid(w, e)'
    PROVE  Paid(e)'
<1>1. Limit' = Limit
  BY DEF Limit
<1>2. \A w \in Workers : drain'[w] = drain[w] => WorkerPaid(w, e)'
  BY <1>1 DEF Paid, WorkerPaid
<1>3. QED
  BY <1>1, <1>2 DEF Paid

LEMMA PaidInit == Init => PaidInv
<1> SUFFICES ASSUME Init, NEW e \in Events PROVE Paid(e)
  BY DEF PaidInv
<1>1. QInv
  BY QInit
<1>2. \A w \in Workers : WorkerPaid(w, e)
  BY DEF Init, WorkerPaid, NoDrain
<1>3. QED
  BY <1>1, <1>2, LimitIsPositive DEF Init, Paid, NoCall

LEMMA PaidCalls ==
    ASSUME QInv, OnceInv, PaidInv, errors = 0, NEW c \in Calls, CallStep(c)
    PROVE  PaidInv'
<1> DEFINE k == call[c]
<1>0. (\A e \in Events : Paid(e)) /\ pending \in [Events -> Nat] /\ drain \in [Workers -> Drain]
      /\ row \in [Events -> Row]
  BY DEF PaidInv, QInv, TypeOK
\* A call that does not write the row and comes to no push.
<1>1. ASSUME UNCHANGED <<row, faults, pending, processing>>,
             \A d \in Calls : call'[d] = call[d] \/ call'[d].step # "push",
             \A w \in Workers : \/ drain'[w] = drain[w]
                                \/ drain[w].step = "idle" /\ drain'[w].step = "scan"
      PROVE  PaidInv'
  <2>1. \A e \in Events : \A w \in Workers :
          /\ Holds(w, e) => Holds(w, e)'
          /\ drain'[w] = drain[w] \/ WorkerPaid(w, e)'
    BY <1>1 DEF Holds, WorkerPaid
  <2>2. \A e \in Events : Paid(e)'
    BY <1>0, <1>1, <2>1, PaidStays
  <2>3. QED
    BY <2>2 DEF PaidInv
<1>2. CASE Measure(c)
  <2>1. Move(c, "store") \/ Move(c, "release")
    BY <1>2, StepOrder DEF Measure
  <2>2. QED
    BY <1>1, <1>2, <2>1, CallChanges DEF Measure, redis
<1>3. CASE Release(c)
  BY <1>1, <1>3, CallChanges DEF Release
<1>4. CASE StartDrain(c)
  <2>1. \A w \in Workers : \/ drain'[w] = drain[w]
                           \/ drain[w].step = "idle" /\ drain'[w].step = "scan"
    BY <1>0, <1>4 DEF StartDrain, Drain
  <2>2. QED
    BY <1>1, <1>4, <2>1, CallChanges DEF StartDrain, redis
<1>5. CASE TakeLetter(c)
  BY <1>1, <1>5, CallChanges, StepOrder DEF TakeLetter
<1>6. CASE Store(c)
  <2>0. PICK x \in Events : x = k.event
    BY <1>6 DEF Store, At, QInv, CallInv
  <2>1. /\ call'[c].step = "push" /\ call'[c].event = x
        /\ \A d \in Calls : d # c => call'[d] = call[d]
    BY <1>6, <2>0, CallChanges, StepOrder DEF Store
  <2>2. /\ row'[x].attempts = 0
        /\ \A e \in Events : e # x => row'[e] = row[e]
        /\ UNCHANGED <<pending, processing, drain, faults>>
    BY <1>0, <1>6, <2>0 DEF Store, HSet
  <2>3. \A e \in Events : \A w \in Workers : Holds(w, e) => Holds(w, e)'
    BY <2>2 DEF Holds
  <2>4. ASSUME NEW e \in Events, e # x PROVE Paid(e)'
    BY <1>0, <2>1, <2>2, <2>3, <2>4, PaidStays
  <2>5. Paid(x)'
    <3>1. Limit' = Limit /\ row'[x].attempts < Limit
      BY <2>2, LimitIsPositive DEF Limit
    <3>2. \A w \in Workers : WorkerPaid(w, x)'
      BY <1>0, <2>2, <3>1 DEF Paid, WorkerPaid
    <3>3. row'[x].attempts <= Limit'
      BY <2>2, <3>1, LimitIsPositive
    <3>4. QED
      BY <3>1, <3>2, <3>3 DEF Paid
  <2>6. QED
    BY <2>4, <2>5 DEF PaidInv
<1>7. CASE Push(c)
  <2>0. PICK x \in Events : x = k.event
    BY <1>7 DEF Push, At, QInv, CallInv
  <2>1. /\ k.step = "push" /\ call'[c].step = "drain"
        /\ \A d \in Calls : d # c => call'[d] = call[d]
    BY <1>7, CallChanges, StepOrder DEF Push, At
  <2>2. /\ \A e \in Events : e # x => pending'[e] = pending[e]
        /\ UNCHANGED <<row, processing, drain, faults>>
    BY <1>0, <1>7, <2>0, ListCounts DEF Push
  <2>3. \A e \in Events : \A w \in Workers : Holds(w, e) <=> Holds(w, e)'
    BY <2>2 DEF Holds
  <2>4. ASSUME NEW e \in Events, e # x PROVE Paid(e)'
    BY <1>0, <2>1, <2>2, <2>3, <2>4, PaidStays
  <2>5. Paid(x)'
    <3>1. Limit' = Limit /\ row[x].attempts < Limit
      BY <1>0, <2>0, <2>1, <2>2 DEF Limit, Paid
    <3>2. \A w \in Workers : WorkerPaid(w, x)'
      BY <1>0, <2>2, <3>1 DEF Paid, WorkerPaid
    <3>3. row[x].attempts <= Limit
      BY <1>0 DEF Paid
    <3>4. QED
      BY <2>2, <3>1, <3>2, <3>3 DEF Paid
  <2>6. QED
    BY <2>4, <2>5 DEF PaidInv
<1>8. QED
  BY <1>2, <1>3, <1>4, <1>5, <1>6, <1>7 DEF CallStep

LEMMA PaidDrains ==
    ASSUME QInv, OnceInv, PaidInv, errors = 0, NEW w \in Workers, DrainStep(w)
    PROVE  PaidInv'
<1> DEFINE d == drain[w]
<1>0. /\ (\A e \in Events : Paid(e)) /\ (\A e \in Events : Alone(e)) /\ StaleInv
      /\ pending \in [Events -> Nat] /\ processing \in [Events -> Nat]
      /\ drain \in [Workers -> Drain] /\ d \in Drain /\ row \in [Events -> Row]
  BY DEF PaidInv, OnceInv, QInv, TypeOK
\* The worker gives up no entry and keeps to the limit, rows and lists stay.
<1>1. ASSUME UNCHANGED <<row, faults, pending, call>>,
             \A e \in Events : processing'[e] = processing[e],
             \A v \in Workers : v # w => drain'[v] = drain[v],
             \A e \in Events : (Holds(w, e) => Holds(w, e)') /\ WorkerPaid(w, e)'
      PROVE  PaidInv'
  <2>1. \A e \in Events : \A v \in Workers :
          (Holds(v, e) => Holds(v, e)') /\ (drain'[v] = drain[v] \/ WorkerPaid(v, e)')
    BY <1>1 DEF Holds
  <2>2. \A e \in Events : Paid(e)'
    BY <1>0, <1>1, <2>1, PaidStays
  <2>3. QED
    BY <2>2 DEF PaidInv
<1>2. CASE Scan(w) \/ EndDrain(w)
  <2>1. d.step \in {"scan", "next"}
    BY <1>2 DEF Scan, EndDrain, In
  <2>2. drain'[w].step \in {"next", "idle"} /\ \A v \in Workers : v # w => drain'[v] = drain[v]
    <3> DEFINE r == [NoDrain EXCEPT !.step = "next", !.before = now - Timeout,
                                    !.stale = {e \in Events : processing[e] > 0}]
    <3>1. Set(w, NoDrain) \/ Set(w, r)
      BY <1>2 DEF Scan, EndDrain
    <3>2. NoDrain.step = "idle" /\ r.step = "next"
      BY DEF NoDrain
    <3> HIDE DEF r
    <3>3. QED
      BY <3>1, <3>2, DrainChanges
  <2>3. \A e \in Events : ~Holds(w, e) /\ WorkerPaid(w, e)'
    BY <2>1, <2>2 DEF Holds, WorkerPaid
  <2>4. QED
    BY <1>1, <1>2, <2>2, <2>3 DEF Scan, EndDrain, redis
<1>3. CASE CheckStale(w)
  <2>1. PICK x \in d.stale :
          LET rest == d.stale \ {x} IN
          /\ processing' = IF Exists(x) THEN processing ELSE LRem(processing, x)
          /\ Set(w, IF IsStale(x, d.before)
                    THEN [d EXCEPT !.step = "save", !.event = x, !.as = "failed",
                                   !.attempts = row[x].attempts, !.stale = rest]
                    ELSE [d EXCEPT !.stale = rest])
    BY <1>3 DEF CheckStale
  <2>2. x \in Events /\ d.step = "next"
    BY <1>0, <1>3, <2>1 DEF Drain, CheckStale, In
  <2>3. \A e \in Events : processing'[e] = processing[e]
    <3>1. ~Exists(x) => processing[x] = 0
      BY <1>0, <2>2 DEF QInv, ListedHasRow, Listed
    <3>2. QED
      BY <1>0, <2>1, <2>2, <3>1, ListCounts
  <2>4. /\ \/ drain'[w].step = "next"
           \/ /\ drain'[w].step = "save" /\ drain'[w].event = x /\ IsStale(x, d.before)
              /\ drain'[w].attempts = row[x].attempts
        /\ \A v \in Workers : v # w => drain'[v] = drain[v]
    <3>1. /\ drain'[w] = IF IsStale(x, d.before)
                         THEN [d EXCEPT !.step = "save", !.event = x, !.as = "failed",
                                        !.attempts = row[x].attempts, !.stale = d.stale \ {x}]
                         ELSE [d EXCEPT !.stale = d.stale \ {x}]
          /\ \A v \in Workers : v # w => drain'[v] = drain[v]
      BY <2>1, DrainChanges
    <3>2. QED
      BY <1>0, <2>2, <3>1 DEF Drain
  <2>5. IsStale(x, d.before) => row[x].attempts < Limit
    <3>1. row[x].updatedAt \in Nat /\ d.before \in Int
      BY <1>0, <2>2 DEF Row, Drain
    <3>2. IsStale(x, d.before) => processing[x] > 0 /\ \A v \in Workers : ~Holds(v, x)
      BY <1>0, <2>1, <3>1 DEF StaleInv, IsStale
    <3>3. QED
      BY <1>0, <2>2, <3>2 DEF Paid
  <2>6. UNCHANGED <<row, faults, pending, call>> /\ Limit' = Limit
    BY <1>3 DEF CheckStale, Limit
  <2>7. ASSUME NEW e \in Events PROVE ~Holds(w, e) /\ WorkerPaid(w, e)'
    <3>1. ~Holds(w, e)
      BY <2>2 DEF Holds
    <3>2. row[x].attempts < Limit => row[x].attempts <= Limit
      BY <2>2, LimitIsPositive
    <3>3. QED
      BY <2>4, <2>5, <2>6, <3>1, <3>2 DEF WorkerPaid
  <2>8. QED
    BY <1>1, <2>3, <2>4, <2>6, <2>7
<1>4. CASE Load(w)
  <2>0. PICK x \in Events : x = d.event
    BY <1>4 DEF Load, In, QInv, DrainInv
  <2>1. Exists(x) /\ d.step = "load"
    BY <1>4, <2>0 DEF Load, In, QInv, DrainInv
  <2>2. processing' = processing
        /\ Set(w, [d EXCEPT !.step = "save", !.as = "processing",
                            !.attempts = row[x].attempts + 1])
    BY <1>4, <2>0, <2>1 DEF Load
  <2>3. /\ drain'[w].step = "save" /\ drain'[w].event = x /\ drain'[w].as = "processing"
        /\ drain'[w].attempts = row[x].attempts + 1
        /\ \A v \in Workers : v # w => drain'[v] = drain[v]
    <3>1. /\ drain'[w] = [d EXCEPT !.step = "save", !.as = "processing",
                                   !.attempts = row[x].attempts + 1]
          /\ \A v \in Workers : v # w => drain'[v] = drain[v]
      BY <2>2, DrainChanges
    <3>2. QED
      BY <1>0, <2>0, <3>1 DEF Drain
  <2>4. row[x].attempts < Limit
    BY <1>0, <2>0, <2>1 DEF Paid, WorkerPaid
  <2>5. UNCHANGED <<row, faults, pending, call>> /\ Limit' = Limit
    BY <1>4 DEF Load, Limit
  <2>6. ASSUME NEW e \in Events PROVE (Holds(w, e) => Holds(w, e)') /\ WorkerPaid(w, e)'
    <3>1. row[x].attempts + 1 <= Limit
      BY <2>4, LimitIsPositive
    <3>2. QED
      BY <2>0, <2>1, <2>3, <2>5, <3>1 DEF WorkerPaid, Holds
  <2>7. QED
    BY <1>1, <2>2, <2>3, <2>5, <2>6
<1>5. CASE Forward(w)
  <2>1. PICK outcome \in {"accepted", "terminal", "retryable"} :
          Set(w, [d EXCEPT !.step = "save", !.as = Disposition(outcome, d.attempts)])
    BY <1>5 DEF Forward
  <2>2. /\ drain'[w].step = "save" /\ drain'[w].event = d.event /\ d.step = "forward"
        /\ drain'[w].attempts = d.attempts /\ drain'[w].as = Disposition(outcome, d.attempts)
        /\ \A v \in Workers : v # w => drain'[v] = drain[v]
    <3>1. /\ drain'[w] = [d EXCEPT !.step = "save", !.as = Disposition(outcome, d.attempts)]
          /\ \A v \in Workers : v # w => drain'[v] = drain[v]
      BY <2>1, DrainChanges
    <3>2. QED
      BY <1>0, <1>5, <3>1 DEF Drain, Forward, In
  <2>3. drain'[w].as = "failed" => d.attempts < Limit
    <3>1. drain'[w].as = "failed" => ~(d.attempts >= MaxAttempts)
      BY <2>2 DEF Disposition
    <3>2. QED
      BY <1>0, <3>1, LimitIsPositive, QueueAssumption
  <2>4. UNCHANGED <<row, faults, pending, processing, call>> /\ Limit' = Limit
    BY <1>5 DEF Forward, redis, Limit
  <2>5. \A e \in Events : (Holds(w, e) => Holds(w, e)') /\ WorkerPaid(w, e)'
    BY <1>0, <2>2, <2>3, <2>4 DEF Paid, WorkerPaid, Holds
  <2>6. QED
    BY <1>1, <2>2, <2>4, <2>5
<1>6. CASE ClaimNext(w)
  <2>1. PICK x \in Events :
          /\ pending[x] > 0
          /\ pending' = LRem(pending, x)
          /\ processing' = RPush(processing, x)
          /\ Set(w, [NoDrain EXCEPT !.step = "load", !.event = x])
    BY <1>6 DEF ClaimNext
  <2>2. /\ pending'[x] = pending[x] - 1
        /\ \A e \in Events : e # x => pending'[e] = pending[e] /\ processing'[e] = processing[e]
        /\ UNCHANGED <<row, faults, call>>
    BY <1>0, <1>6, <2>1, ListCounts DEF ClaimNext
  <2>3. /\ drain'[w].step = "load" /\ drain'[w].event = x /\ drain'[w].as = "queued"
        /\ \A v \in Workers : v # w => drain'[v] = drain[v]
    <3>1. /\ drain'[w] = [NoDrain EXCEPT !.step = "load", !.event = x]
          /\ \A v \in Workers : v # w => drain'[v] = drain[v]
      BY <2>1, DrainChanges
    <3>2. QED
      BY <3>1 DEF NoDrain
  <2>4. d.step = "next"
    BY <1>6 DEF ClaimNext, In
  <2>5. row[x].attempts < Limit /\ Limit' = Limit
    BY <1>0, <2>1, <2>2 DEF Paid, Limit
  <2>6. \A e \in Events : WorkerPaid(w, e)'
    BY <2>2, <2>3, <2>5 DEF WorkerPaid
  <2>7. \A e \in Events : \A v \in Workers : Holds(v, e) => Holds(v, e)'
    BY <2>3, <2>4 DEF Holds
  <2>8. ASSUME NEW e \in Events, e # x PROVE Paid(e)'
    BY <1>0, <2>2, <2>3, <2>6, <2>7, <2>8, PaidStays
  <2>9. Paid(x)'
    <3>1. \A v \in Workers : WorkerPaid(v, x)'
      BY <1>0, <2>2, <2>3, <2>5, <2>6 DEF Paid, WorkerPaid
    <3>2. row[x].attempts <= Limit
      BY <1>0 DEF Paid
    <3>3. QED
      BY <2>2, <2>5, <3>1, <3>2 DEF Paid
  <2>10. QED
    BY <2>8, <2>9 DEF PaidInv
<1>7. CASE Save(w)
  <2>0. PICK x \in Events : x = d.event
    BY <1>7 DEF Save, In, QInv, DrainInv
  <2>1. d.step = "save" /\ Set(w, [d EXCEPT !.step = IF d.as = "processing" THEN "forward" ELSE "drop"])
    BY <1>7 DEF Save, In
  <2>2. /\ drain'[w].step = (IF d.as = "processing" THEN "forward" ELSE "drop")
        /\ drain'[w].event = x /\ drain'[w].as = d.as /\ drain'[w].attempts = d.attempts
        /\ \A v \in Workers : v # w => drain'[v] = drain[v]
    <3>1. /\ drain'[w] = [d EXCEPT !.step = IF d.as = "processing" THEN "forward" ELSE "drop"]
          /\ \A v \in Workers : v # w => drain'[v] = drain[v]
      BY <2>1, DrainChanges
    <3>2. QED
      BY <1>0, <2>0, <3>1 DEF Drain
  <2>3. /\ row'[x].attempts = d.attempts
        /\ \A e \in Events : e # x => row'[e] = row[e]
        /\ UNCHANGED <<pending, processing, call, faults>>
    BY <1>0, <1>7, <2>0 DEF Save, HSet
  <2>4. Limit' = Limit /\ d.attempts <= Limit /\ (d.as = "failed" => d.attempts < Limit)
    BY <1>0, <2>0, <2>1, <2>3 DEF Paid, WorkerPaid, Limit
  <2>5. \A e \in Events : WorkerPaid(w, e)'
    BY <2>2, <2>3, <2>4 DEF WorkerPaid
  <2>6. \A e \in Events : \A v \in Workers : Holds(v, e) => Holds(v, e)'
    BY <2>0, <2>1, <2>2 DEF Holds
  <2>7. ASSUME NEW e \in Events, e # x PROVE Paid(e)'
    BY <1>0, <2>2, <2>3, <2>5, <2>6, <2>7, PaidStays
  <2>8. Paid(x)'
    <3>1. Holds(w, x) /\ Holds(w, x)'
      BY <2>0, <2>1, <2>6 DEF Holds
    <3>2. pending[x] = 0 /\ Listed(x) # 0
      <4>1. processing[x] > 0 /\ Listed(x) <= 1
        BY <1>0, <3>1 DEF Alone
      <4>2. QED
        BY <1>0, <4>1 DEF Listed
    <3>3. \A c \in Calls : ~(call[c].event = x /\ call[c].step = "push")
      BY <1>0, <3>2 DEF Alone, Brings
    <3>4. \A v \in Workers : v # w => ~Holds(v, x) /\ ~Moves(v, x)
      BY <1>0, <3>1, <3>2 DEF Alone
    <3>5. \A v \in Workers : WorkerPaid(v, x)'
      BY <2>2, <2>5, <3>4 DEF WorkerPaid, Holds, Moves
    <3>6. QED
      BY <2>3, <2>4, <3>1, <3>2, <3>3, <3>5 DEF Paid
  <2>9. QED
    BY <2>7, <2>8 DEF PaidInv
<1>8. CASE Drop(w)
  <2>0. PICK x \in Events : x = d.event
    BY <1>8 DEF Drop, In, QInv, DrainInv
  <2>1. d.step = "drop" /\ Holds(w, x)
    BY <1>8, <2>0 DEF Drop, In, Holds
  <2>2. /\ processing'[x] = IF processing[x] > 0 THEN processing[x] - 1 ELSE 0
        /\ \A e \in Events : e # x => processing'[e] = processing[e]
        /\ UNCHANGED <<row, pending, call, faults>>
    BY <1>0, <1>8, <2>0, ListCounts DEF Drop
  <2>3. /\ drain'[w].step = "push" /\ drain'[w].event = x /\ drain'[w].as = d.as
        /\ \A v \in Workers : v # w => drain'[v] = drain[v]
    <3>1. /\ drain'[w] = [d EXCEPT !.step = "push"]
          /\ \A v \in Workers : v # w => drain'[v] = drain[v]
      BY <1>8, DrainChanges DEF Drop
    <3>2. QED
      BY <1>0, <2>0, <3>1 DEF Drain
  <2>4. Limit' = Limit /\ (d.as = "failed" => row[x].attempts < Limit)
    BY <1>0, <2>0, <2>1, <2>2 DEF Paid, WorkerPaid, Limit
  <2>5. \A e \in Events : WorkerPaid(w, e)'
    BY <2>2, <2>3, <2>4 DEF WorkerPaid
  <2>6. \A e \in Events : e # x => \A v \in Workers : Holds(v, e) => Holds(v, e)'
    BY <2>0, <2>3 DEF Holds
  <2>7. ASSUME NEW e \in Events, e # x PROVE Paid(e)'
    BY <1>0, <2>2, <2>3, <2>5, <2>6, <2>7, PaidStays
  <2>8. Paid(x)'
    <3>1. pending[x] = 0 /\ processing'[x] = 0
      BY <1>0, <2>1, <2>2 DEF Alone, Listed
    <3>2. \A v \in Workers : WorkerPaid(v, x)'
      BY <1>0, <2>2, <2>3, <2>4, <2>5 DEF Paid, WorkerPaid
    <3>3. QED
      BY <1>0, <2>2, <2>4, <3>1, <3>2 DEF Paid
  <2>9. QED
    BY <2>7, <2>8 DEF PaidInv
<1>9. CASE Place(w)
  <2>0. PICK x \in Events : x = d.event
    BY <1>9 DEF Place, In, QInv, DrainInv
  <2>1. d.step = "push"
    BY <1>9 DEF Place, In
  <2>2. /\ pending'[x] = pending[x] \/ d.as = "failed"
        /\ \A e \in Events : e # x => pending'[e] = pending[e]
        /\ UNCHANGED <<row, processing, call, faults>>
    BY <1>0, <1>9, <2>0, ListCounts DEF Place
  <2>3. drain'[w].step = "next" /\ \A v \in Workers : v # w => drain'[v] = drain[v]
    <3>1. /\ drain'[w] = [NoDrain EXCEPT !.step = "next", !.stale = d.stale, !.before = d.before]
          /\ \A v \in Workers : v # w => drain'[v] = drain[v]
      BY <1>9, DrainChanges DEF Place, AfterEntry
    <3>2. QED
      BY <3>1 DEF NoDrain
  <2>4. Limit' = Limit /\ (d.as = "failed" => row[x].attempts < Limit)
    BY <1>0, <2>0, <2>1, <2>2 DEF Paid, WorkerPaid, Limit
  <2>5. \A e \in Events : WorkerPaid(w, e)'
    BY <2>3 DEF WorkerPaid
  <2>6. \A e \in Events : \A v \in Workers : Holds(v, e) => Holds(v, e)'
    BY <2>1, <2>3 DEF Holds
  <2>7. ASSUME NEW e \in Events, e # x PROVE Paid(e)'
    BY <1>0, <2>2, <2>3, <2>5, <2>6, <2>7, PaidStays
  <2>8. Paid(x)'
    <3>1. \A v \in Workers : WorkerPaid(v, x)'
      BY <1>0, <2>2, <2>3, <2>4, <2>5 DEF Paid, WorkerPaid
    <3>2. processing[x] > 0 => row[x].attempts < Limit \/ \E v \in Workers : Holds(v, x)'
      BY <1>0, <2>6 DEF Paid
    <3>3. QED
      BY <1>0, <2>2, <2>4, <3>1, <3>2 DEF Paid
  <2>9. QED
    BY <2>7, <2>8 DEF PaidInv
<1>10. QED
  BY <1>2, <1>3, <1>4, <1>5, <1>6, <1>7, <1>8, <1>9 DEF DrainStep

LEMMA PaidNext == QInv /\ OnceInv /\ PaidInv /\ [Next]_vars => PaidInv'
<1> SUFFICES ASSUME QInv, OnceInv, PaidInv, [Next]_vars, errors' = 0 PROVE PaidInv'
  BY DEF PaidInv
<1>0. call \in [Calls -> Call] /\ errors \in Nat /\ faults \in Nat
  BY DEF QInv, TypeOK
\* Nothing but the clock, and a call that comes to no push.
<1>1. ASSUME errors = 0, UNCHANGED <<row, faults, pending, processing, drain>>,
             \A c \in Calls : call'[c] = call[c] \/ call'[c].step # "push"
      PROVE  PaidInv'
  <2>1. \A e \in Events : \A w \in Workers : Holds(w, e) => Holds(w, e)'
    BY <1>1 DEF Holds
  <2>2. \A e \in Events : Paid(e)'
    BY <1>1, <2>1, PaidStays DEF PaidInv
  <2>3. QED
    BY <2>2 DEF PaidInv
<1>2. ASSUME NEW c \in Calls, NEW w \in Workers, NEW e \in Events, Receive(c, w, e)
      PROVE  PaidInv'
  <2>1. call'[c].step = "measure" /\ \A k \in Calls : k # c => call'[k] = call[k]
    BY <1>0, <1>2 DEF Receive
  <2>2. QED
    BY <1>1, <1>2, <2>1 DEF Receive, history
<1>3. ASSUME NEW c \in Calls, NEW w \in Workers, NEW e \in Events,
             NEW op \in {"replay", "delete"}, FindLetter(c, w, e, op)
      PROVE  PaidInv'
  <2>1. call'[c].step = "take" /\ \A k \in Calls : k # c => call'[k] = call[k]
    BY <1>0, <1>3 DEF FindLetter
  <2>2. QED
    BY <1>1, <1>3, <2>1 DEF FindLetter, redis, history
<1>4. CASE Tick \/ UNCHANGED vars
  BY <1>1, <1>4 DEF Tick, vars, redis, history
<1>5. ASSUME NEW c \in Calls, CallStep(c) PROVE PaidInv'
  <2>1. UNCHANGED errors
    BY <1>5 DEF CallStep, Measure, Release, Store, Push, StartDrain, TakeLetter, history
  <2>2. QED
    BY <1>5, <2>1, PaidCalls
<1>6. ASSUME NEW w \in Workers, DrainStep(w) PROVE PaidInv'
  <2>1. UNCHANGED errors
    BY <1>6 DEF DrainStep, Scan, CheckStale, ClaimNext, EndDrain, Load, Save, Forward, Drop,
                Place, history
  <2>2. QED
    BY <1>6, <2>1, PaidDrains
<1>7. ASSUME NEW w \in Workers, Crash(w) PROVE PaidInv'
  <2>1. /\ UNCHANGED <<row, pending, processing, errors>> /\ Limit' = Limit + 1
        /\ \A c \in Calls : call'[c] = call[c] \/ call'[c] = NoCall
    BY <1>0, <1>7, QueueAssumption DEF Crash, redis, history, Limit
  <2>2. drain'[w] = NoDrain /\ \A v \in Workers : v # w => drain'[v] = drain[v]
    BY <1>7, DrainChanges DEF Crash
  <2>3. ASSUME NEW e \in Events PROVE Paid(e)'
    <3>1. Paid(e) /\ row[e].attempts < Limit' /\ row[e].attempts <= Limit'
      BY <2>1, LimitIsPositive DEF PaidInv, Paid
    <3>2. ASSUME NEW v \in Workers PROVE WorkerPaid(v, e)'
      <4>1. CASE v = w
        BY <2>2, <4>1 DEF WorkerPaid, NoDrain
      <4>2. CASE v # w
        <5>1. drain'[v] = drain[v] /\ drain[v].attempts \in Nat /\ WorkerPaid(v, e)
          BY <2>2, <3>1, <4>2, LimitIsPositive DEF Paid
        <5>2. /\ drain[v].attempts < Limit => drain[v].attempts < Limit'
              /\ drain[v].attempts <= Limit => drain[v].attempts <= Limit'
          BY <2>1, <5>1, LimitIsPositive
        <5>3. QED
          BY <2>1, <3>1, <5>1, <5>2 DEF WorkerPaid
      <4>3. QED
        BY <4>1, <4>2
    <3>3. QED
      BY <2>1, <3>1, <3>2 DEF Paid
  <2>4. QED
    BY <2>3 DEF PaidInv
<1>8. ASSUME NEW c \in Calls, CallError(c) PROVE FALSE
  BY <1>0, <1>8 DEF CallError
<1>9. ASSUME NEW w \in Workers, DrainError(w) PROVE FALSE
  BY <1>0, <1>9 DEF DrainError
<1>10. QED
  BY <1>2, <1>3, <1>4, <1>5, <1>6, <1>7, <1>8, <1>9 DEF Next

-----------------------------------------------------------------------------
(* The depth of the queue. *)

\* The entries of the two lists, and the deliveries past their depth check.
Entries == UNION {{e} \X (1..Listed(e)) : e \in Events}
Measured == {c \in Calls : call[c].op = "receive" /\ call[c].step \in {"store", "push"}}

\* A worker that owes the lists the entry it has taken off them.
Owes(w) ==
    \/ drain[w].step = "push"
    \/ /\ drain[w].step \in {"save", "drop"} /\ drain[w].as # "processing"
       /\ processing[drain[w].event] = 0
Owed(w) == IF Owes(w) THEN 1 ELSE 0

\* The queue's only worker works on an entry in the processing list until it has
\* settled how the attempt ended, and finds stale only entries still in it.
OnlyInv(w) ==
    /\ drain[w].step \in {"load", "forward"} => processing[drain[w].event] > 0
    /\ drain[w].as = "processing" =>
          drain[w].step # "drop" /\ (drain[w].step = "save" => processing[drain[w].event] > 0)
    /\ \A e \in drain[w].stale : processing[e] > 0 /\ ~Holds(w, e) /\ ~Moves(w, e)

DepthInv(w) ==
    /\ IsFiniteSet(Entries)
    /\ Depth + Cardinality(Measured) + Owed(w) < MaxDepth + Cardinality(Calls) + 1 + replays

LEMMA Measuring ==
    /\ IsFiniteSet(Measured) /\ Cardinality(Measured) \in Nat
    /\ Cardinality(Calls) \in Nat /\ Cardinality(Measured) <= Cardinality(Calls)
<1>1. Measured \subseteq Calls
  BY DEF Measured
<1>2. QED
  BY <1>1, QueueAssumption, FS_Subset, FS_CardinalityType

LEMMA FewerMeasured ==
    ASSUME NEW c, Measured' \subseteq Measured
    PROVE  /\ Cardinality(Measured)' <= Cardinality(Measured) /\ Cardinality(Measured)' \in Nat
           /\ c \in Measured /\ c \notin Measured' =>
                 Cardinality(Measured)' <= Cardinality(Measured) - 1
<1>1. IsFiniteSet(Measured) /\ IsFiniteSet(Measured')
  BY Measuring, FS_Subset
<1>2. Cardinality(Measured') <= Cardinality(Measured) /\ Cardinality(Measured') \in Nat
  BY <1>1, FS_Subset, FS_CardinalityType
<1>3. ASSUME c \in Measured, c \notin Measured'
      PROVE  Cardinality(Measured') <= Cardinality(Measured) - 1
  <2>1. Measured' \subseteq Measured \ {c}
    BY <1>3
  <2>2. IsFiniteSet(Measured \ {c}) /\ Cardinality(Measured \ {c}) = Cardinality(Measured) - 1
    BY <1>1, <1>3, FS_RemoveElement
  <2>3. QED
    BY <2>1, <2>2, FS_Subset
<1>4. QED
  BY <1>2, <1>3

\* The depth when one event's count changes by one, or none does.
LEMMA DepthSame ==
    ASSUME \A e \in Events : Listed(e)' = Listed(e)
    PROVE  Entries' = Entries /\ Depth' = Depth
BY DEF Entries, Depth

LEMMA DepthGrows ==
    ASSUME NEW x \in Events, Listed(x) \in Nat, Listed(x)' = Listed(x) + 1,
           \A e \in Events : e # x => Listed(e)' = Listed(e), IsFiniteSet(Entries)
    PROVE  IsFiniteSet(Entries)' /\ Depth' = Depth + 1
<1> DEFINE new == <<x, Listed(x) + 1>>
<1>1. {x} \X (1..Listed(x)') = ({x} \X (1..Listed(x))) \cup {new}
  OBVIOUS
<1>2. ASSUME NEW p PROVE p \in Entries' <=> p \in Entries \cup {new}
  BY <1>1 DEF Entries
<1>3. Entries' = Entries \cup {new}
  BY <1>2
<1>4. new \notin Entries
  BY DEF Entries
<1>5. QED
  BY <1>3, <1>4, FS_AddElement DEF Entries, Depth

LEMMA DepthShrinks ==
    ASSUME NEW x \in Events, Listed(x)' \in Nat, Listed(x) = Listed(x)' + 1,
           \A e \in Events : e # x => Listed(e)' = Listed(e), IsFiniteSet(Entries)
    PROVE  IsFiniteSet(Entries)' /\ Depth' = Depth - 1
<1> DEFINE old == <<x, Listed(x)>>
<1>1. {x} \X (1..Listed(x)') = ({x} \X (1..Listed(x))) \ {old}
  OBVIOUS
<1>2. ASSUME NEW p PROVE p \in Entries' <=> p \in Entries \ {old}
  BY <1>1 DEF Entries
<1>3. Entries' = Entries \ {old}
  BY <1>2
<1>4. old \in Entries
  BY DEF Entries
<1>5. Depth = Cardinality(Entries) /\ Depth' = Cardinality(Entries')
  BY DEF Depth, Entries
<1>6. IsFiniteSet(Entries \ {old}) /\ Cardinality(Entries \ {old}) = Cardinality(Entries) - 1
  BY <1>4, FS_RemoveElement
<1>7. QED
  BY <1>3, <1>5, <1>6

LEMMA OnlyInit ==
    ASSUME Init, NEW w \in Workers
    PROVE  OnlyInv(w) /\ DepthInv(w)
<1>1. OnlyInv(w)
  BY DEF Init, OnlyInv, NoDrain
<1>2. Entries = {}
  BY DEF Init, Entries, Listed
<1>3. Measured = {} /\ Owed(w) = 0
  BY DEF Init, Measured, NoCall, Owed, Owes, NoDrain
<1>4. Depth = 0 /\ Cardinality(Measured) = 0 /\ IsFiniteSet(Entries)
  BY <1>2, <1>3, FS_EmptySet DEF Depth, Entries
<1>5. QED
  BY <1>1, <1>3, <1>4, Measuring, QueueAssumption DEF DepthInv, Init

\* The numbers of the bound.
LEMMA DepthNumbers ==
    ASSUME QInv, NEW w \in Workers, DepthInv(w)
    PROVE  /\ IsFiniteSet(Entries) /\ Depth \in Nat /\ Owed(w) \in {0, 1} /\ replays \in Nat
           /\ MaxDepth \in Nat /\ Cardinality(Calls) \in Nat /\ Cardinality(Measured) \in Nat
           /\ Depth + Cardinality(Measured) + Owed(w) < MaxDepth + Cardinality(Calls) + 1 + replays
<1>1. IsFiniteSet(Entries) /\ Depth = Cardinality(Entries)
  BY DEF DepthInv, Depth, Entries
<1>2. QED
  BY <1>1, Measuring, FS_CardinalityType, QueueAssumption DEF DepthInv, Owed, QInv, TypeOK

\* Steps that list nothing more and let no delivery past the check.
LEMMA DepthStays ==
    ASSUME QInv, NEW w \in Workers, DepthInv(w), Measured' \subseteq Measured,
           IsFiniteSet(Entries)', Depth' \in Nat, Owed(w)' \in {0, 1}, replays' = replays,
           Depth' + Owed(w)' <= Depth + Owed(w)
    PROVE  DepthInv(w)'
<1>1. Cardinality(Measured)' <= Cardinality(Measured) /\ Cardinality(Measured)' \in Nat
  BY FewerMeasured
<1>2. QED
  BY <1>1, DepthNumbers DEF DepthInv

LEMMA OnlyCalls ==
    ASSUME QInv, KindInv, NEW w \in Workers, \A v \in Workers : v = w,
           OnlyInv(w), DepthInv(w), NEW c \in Calls, CallStep(c)
    PROVE  OnlyInv(w)' /\ DepthInv(w)'
<1> DEFINE k == call[c]
<1>0. /\ pending \in [Events -> Nat] /\ processing \in [Events -> Nat]
      /\ drain \in [Workers -> Drain] /\ \A e \in Events : Listed(e) \in Nat
  BY DEF QInv, TypeOK, Listed
<1>1. ASSUME processing' = processing, drain' = drain
      PROVE  OnlyInv(w)' /\ Owed(w)' = Owed(w) /\ Owed(w)' \in {0, 1}
  BY <1>1 DEF OnlyInv, Holds, Moves, Owed, Owes
<1>2. ASSUME Measured' \subseteq Measured, pending' = pending, processing' = processing,
             drain' = drain, replays' = replays
      PROVE  OnlyInv(w)' /\ DepthInv(w)'
  <2>1. Entries' = Entries /\ Depth' = Depth
    BY <1>2, DepthSame DEF Listed
  <2>2. QED
    BY <1>1, <1>2, <2>1, DepthNumbers, DepthStays
<1>3. CASE Measure(c)
  <2>1. /\ k.step = "measure"
        /\ (HasRoom /\ Move(c, "store")) \/ (~HasRoom /\ Move(c, "release"))
        /\ UNCHANGED <<pending, processing, drain, replays>>
    BY <1>3, StepOrder DEF Measure, At, redis, history
  <2>2. CASE ~HasRoom
    <3>1. Measured' \subseteq Measured
      BY <2>1, <2>2, CallChanges DEF Measured
    <3>2. QED
      BY <1>2, <2>1, <3>1
  <2>3. CASE HasRoom
    <3>1. Entries' = Entries /\ Depth' = Depth
      BY <2>1, DepthSame DEF Listed
    <3>2. Depth < MaxDepth
      BY <2>3 DEF HasRoom
    <3>3. Measured' \subseteq Calls
      BY DEF Measured
    <3>4. Cardinality(Measured') <= Cardinality(Calls) /\ Cardinality(Measured') \in Nat
      BY <3>3, QueueAssumption, FS_Subset, FS_CardinalityType
    <3>5. OnlyInv(w)' /\ Owed(w)' \in {0, 1}
      BY <1>1, <2>1
    <3>6. IsFiniteSet(Entries)'
      BY <3>1, DepthNumbers
    <3>7. QED
      BY <2>1, <3>1, <3>2, <3>4, <3>5, <3>6, DepthNumbers DEF DepthInv
  <2>4. QED
    BY <2>2, <2>3
<1>4. CASE Release(c) \/ TakeLetter(c)
  <2>1. Measured' \subseteq Measured
    BY <1>4, CallChanges, StepOrder DEF Release, TakeLetter, Measured
  <2>2. UNCHANGED <<pending, processing, drain, replays>>
    <3>1. CASE Release(c)
      BY <3>1 DEF Release, history
    <3>2. CASE TakeLetter(c)
      BY <3>2 DEF TakeLetter
    <3>3. QED
      BY <1>4, <3>1, <3>2
  <2>3. QED
    BY <1>2, <2>1, <2>2
<1>5. CASE Store(c)
  <2>1. k.step = "store" /\ Move(c, "push")
    BY <1>5, StepOrder DEF Store, At
  <2>2. Measured' \subseteq Measured
    BY <2>1, CallChanges DEF Measured
  <2>3. QED
    BY <1>2, <1>5, <2>2 DEF Store, history
<1>6. CASE Push(c)
  <2>0. PICK x \in Events : x = k.event
    BY <1>6 DEF Push, At, QInv, CallInv
  <2>1. /\ pending'[x] = pending[x] + 1 /\ (\A e \in Events : e # x => pending'[e] = pending[e])
        /\ processing' = processing /\ drain' = drain
    BY <1>0, <1>6, <2>0, ListCounts DEF Push
  <2>2. Listed(x)' = Listed(x) + 1 /\ \A e \in Events : e # x => Listed(e)' = Listed(e)
    BY <1>0, <2>1 DEF Listed
  <2>3. IsFiniteSet(Entries)' /\ Depth' = Depth + 1
    BY <1>0, <2>2, DepthGrows DEF DepthInv
  <2>4. k.step = "push" /\ call'[c].step = "drain" /\ \A d \in Calls : d # c => call'[d] = call[d]
    BY <1>6, StepOrder, CallChanges DEF Push, At
  <2>5. Measured' \subseteq Measured /\ c \notin Measured'
    BY <2>4 DEF Measured
  <2>6. k.op = "receive" \/ k.op = "replay"
    BY <2>4 DEF KindInv, QInv, TypeOK, Call
  <2>7. CASE k.op = "receive"
    <3>1. c \in Measured /\ replays' = replays
      BY <1>6, <2>4, <2>7 DEF Measured, Push
    <3>2. Cardinality(Measured)' <= Cardinality(Measured) - 1 /\ Cardinality(Measured)' \in Nat
      BY <2>5, <3>1, FewerMeasured
    <3>3. QED
      BY <1>1, <2>1, <2>3, <3>1, <3>2, DepthNumbers DEF DepthInv
  <2>8. CASE k.op = "replay"
    <3>1. replays' = replays + 1
      BY <1>6, <2>8 DEF Push
    <3>2. Cardinality(Measured)' <= Cardinality(Measured) /\ Cardinality(Measured)' \in Nat
      BY <2>5, FewerMeasured
    <3>3. QED
      BY <1>1, <2>1, <2>3, <3>1, <3>2, DepthNumbers DEF DepthInv
  <2>9. QED
    BY <2>6, <2>7, <2>8
<1>7. CASE StartDrain(c)
  <2>1. UNCHANGED <<pending, processing, replays>> /\ EndCall(c)
    BY <1>7 DEF StartDrain, redis, history
  <2>2. Measured' \subseteq Measured
    BY <2>1, CallChanges DEF Measured
  <2>3. Entries' = Entries /\ Depth' = Depth
    BY <2>1, DepthSame DEF Listed
  <2>4. /\ drain'[w].event = drain[w].event /\ drain'[w].stale = drain[w].stale
        /\ drain'[w].as = drain[w].as
        /\ drain'[w].step = drain[w].step \/ drain'[w].step = "scan"
    BY <1>0, <1>7 DEF StartDrain, Drain
  <2>5. OnlyInv(w)' /\ Owed(w)' \in {0, 1} /\ Owed(w)' <= Owed(w)
    BY <2>1, <2>4 DEF OnlyInv, Holds, Moves, Owed, Owes
  <2>6. QED
    BY <2>1, <2>2, <2>3, <2>5, DepthNumbers, DepthStays
<1>8. QED
  BY <1>3, <1>4, <1>5, <1>6, <1>7 DEF CallStep

LEMMA OnlyDrains ==
    ASSUME QInv, NEW w \in Workers, OnlyInv(w), DepthInv(w), DrainStep(w)
    PROVE  OnlyInv(w)' /\ DepthInv(w)'
<1> DEFINE d == drain[w]
<1>0. /\ pending \in [Events -> Nat] /\ processing \in [Events -> Nat]
      /\ drain \in [Workers -> Drain] /\ d \in Drain /\ \A e \in Events : Listed(e) \in Nat
  BY DEF QInv, TypeOK, Listed
<1>1. Measured' \subseteq Measured /\ replays' = replays
  BY DEF DrainStep, Scan, CheckStale, ClaimNext, EndDrain, Load, Save, Forward, Drop, Place,
         Measured, history
\* Steps that keep the number of every event's entries.
<1>2. ASSUME \A e \in Events : Listed(e)' = Listed(e), Owed(w)' \in {0, 1}, Owed(w)' <= Owed(w)
      PROVE  DepthInv(w)'
  <2>1. Entries' = Entries /\ Depth' = Depth
    BY <1>2, DepthSame
  <2>2. QED
    BY <1>1, <1>2, <2>1, DepthNumbers, DepthStays
<1>3. CASE Scan(w)
  <2>1. /\ drain'[w] = [NoDrain EXCEPT !.step = "next", !.before = now - Timeout,
                                       !.stale = {e \in Events : processing[e] > 0}]
        /\ pending' = pending /\ processing' = processing
    BY <1>3, DrainChanges DEF Scan, redis
  <2>2. drain'[w].step = "next" /\ drain'[w].stale = {e \in Events : processing[e] > 0}
    BY <2>1 DEF NoDrain
  <2>3. OnlyInv(w)' /\ Owed(w)' = 0
    BY <2>1, <2>2 DEF OnlyInv, Holds, Moves, Owed, Owes
  <2>4. QED
    BY <1>2, <2>1, <2>3, DepthNumbers DEF Listed
<1>4. CASE EndDrain(w)
  <2>1. drain'[w] = NoDrain /\ pending' = pending /\ processing' = processing
    BY <1>4, DrainChanges DEF EndDrain, redis
  <2>2. OnlyInv(w)' /\ Owed(w)' = 0
    BY <2>1 DEF NoDrain, OnlyInv, Owed, Owes
  <2>3. QED
    BY <1>2, <2>1, <2>2, DepthNumbers DEF Listed
<1>5. CASE CheckStale(w)
  <2>1. PICK x \in d.stale :
          LET rest == d.stale \ {x} IN
          /\ processing' = IF Exists(x) THEN processing ELSE LRem(processing, x)
          /\ Set(w, IF IsStale(x, d.before)
                    THEN [d EXCEPT !.step = "save", !.event = x, !.as = "failed",
                                   !.attempts = row[x].attempts, !.stale = rest]
                    ELSE [d EXCEPT !.stale = rest])
    BY <1>5 DEF CheckStale
  <2>2. x \in Events /\ d.step = "next" /\ processing[x] > 0
    BY <1>0, <1>5, <2>1 DEF Drain, CheckStale, In, OnlyInv
  <2>3. processing' = processing /\ pending' = pending
    BY <1>0, <1>5, <2>1, <2>2 DEF QInv, ListedHasRow, Listed, CheckStale
  <2>4. drain'[w] = IF IsStale(x, d.before)
                    THEN [d EXCEPT !.step = "save", !.event = x, !.as = "failed",
                                   !.attempts = row[x].attempts, !.stale = d.stale \ {x}]
                    ELSE [d EXCEPT !.stale = d.stale \ {x}]
    BY <2>1, DrainChanges
  <2>5. /\ drain'[w].stale = d.stale \ {x}
        /\ \/ drain'[w].step = "next"
           \/ drain'[w].step = "save" /\ drain'[w].event = x /\ drain'[w].as = "failed"
    BY <1>0, <2>2, <2>4 DEF Drain
  <2>6. OnlyInv(w)' /\ Owed(w)' = 0
    BY <2>2, <2>3, <2>5 DEF OnlyInv, Holds, Moves, Owed, Owes
  <2>7. QED
    BY <1>2, <2>3, <2>6, DepthNumbers DEF Listed
<1>6. CASE ClaimNext(w)
  <2>1. PICK x \in Events :
          /\ pending[x] > 0
          /\ pending' = LRem(pending, x)
          /\ processing' = RPush(processing, x)
          /\ Set(w, [NoDrain EXCEPT !.step = "load", !.event = x])
    BY <1>6 DEF ClaimNext
  <2>2. \A e \in Events : Listed(e)' = Listed(e)
    <3>1. /\ pending'[x] = pending[x] - 1 /\ processing'[x] = processing[x] + 1
          /\ \A e \in Events : e # x => pending'[e] = pending[e] /\ processing'[e] = processing[e]
      BY <1>0, <2>1, ListCounts
    <3>2. QED
      BY <1>0, <3>1 DEF Listed
  <2>3. drain'[w].step = "load" /\ drain'[w].event = x /\ drain'[w].stale = {}
    <3>1. drain'[w] = [NoDrain EXCEPT !.step = "load", !.event = x]
      BY <2>1, DrainChanges
    <3>2. QED
      BY <3>1 DEF NoDrain
  <2>4. processing'[x] > 0
    BY <1>0, <2>1, ListCommands
  <2>5. OnlyInv(w)' /\ Owed(w)' = 0
    BY <2>3, <2>4 DEF OnlyInv, Owed, Owes
  <2>6. QED
    BY <1>2, <2>2, <2>5, DepthNumbers
<1>7. CASE Load(w)
  <2>1. d.event \in Events /\ Exists(d.event) /\ d.step = "load"
    BY <1>7 DEF Load, In, QInv, DrainInv
  <2>2. /\ processing' = processing /\ pending' = pending
        /\ Set(w, [d EXCEPT !.step = "save", !.as = "processing",
                            !.attempts = row[d.event].attempts + 1])
    BY <1>7, <2>1 DEF Load
  <2>3. drain'[w] = [d EXCEPT !.step = "save", !.as = "processing",
                              !.attempts = row[d.event].attempts + 1]
    BY <2>2, DrainChanges
  <2>4. /\ drain'[w].step = "save" /\ drain'[w].event = d.event /\ drain'[w].as = "processing"
        /\ drain'[w].stale = d.stale
    BY <1>0, <2>3 DEF Drain
  <2>5. OnlyInv(w)' /\ Owed(w)' = 0
    BY <2>1, <2>2, <2>4 DEF OnlyInv, Holds, Moves, Owed, Owes
  <2>6. QED
    BY <1>2, <2>2, <2>5, DepthNumbers DEF Listed
<1>8. CASE Save(w)
  <2>1. d.step = "save" /\ processing' = processing /\ pending' = pending
    BY <1>8 DEF Save, In
  <2>2. drain'[w] = [d EXCEPT !.step = IF d.as = "processing" THEN "forward" ELSE "drop"]
    BY <1>8, DrainChanges DEF Save
  <2>3. /\ drain'[w].step = (IF d.as = "processing" THEN "forward" ELSE "drop")
        /\ drain'[w].event = d.event /\ drain'[w].as = d.as /\ drain'[w].stale = d.stale
    BY <1>0, <2>2 DEF Drain
  <2>4. OnlyInv(w)' /\ Owed(w)' = Owed(w)
    BY <2>1, <2>3 DEF OnlyInv, Holds, Moves, Owed, Owes
  <2>5. QED
    BY <1>2, <2>1, <2>4, DepthNumbers DEF Listed
<1>9. CASE Forward(w)
  <2>1. PICK outcome \in {"accepted", "terminal", "retryable"} :
          Set(w, [d EXCEPT !.step = "save", !.as = Disposition(outcome, d.attempts)])
    BY <1>9 DEF Forward
  <2>2. drain'[w] = [d EXCEPT !.step = "save", !.as = Disposition(outcome, d.attempts)]
    BY <2>1, DrainChanges
  <2>3. /\ drain'[w].step = "save" /\ drain'[w].event = d.event /\ drain'[w].stale = d.stale
        /\ drain'[w].as = Disposition(outcome, d.attempts)
    BY <1>0, <2>2 DEF Drain
  <2>4. d.step = "forward" /\ processing' = processing /\ pending' = pending
    BY <1>9 DEF Forward, In, redis
  <2>5. Disposition(outcome, d.attempts) # "processing"
    BY DEF Disposition
  <2>6. OnlyInv(w)' /\ Owed(w)' = 0
    BY <2>3, <2>4, <2>5 DEF OnlyInv, Holds, Moves, Owed, Owes
  <2>7. QED
    BY <1>2, <2>4, <2>6, DepthNumbers DEF Listed
<1>10. CASE Drop(w)
  <2>0. PICK x \in Events : x = d.event
    BY <1>10 DEF Drop, In, QInv, DrainInv
  <2>1. d.step = "drop" /\ pending' = pending /\ processing' = LRem(processing, x)
    BY <1>10, <2>0 DEF Drop, In
  <2>2. /\ processing'[x] = IF processing[x] > 0 THEN processing[x] - 1 ELSE 0
        /\ \A e \in Events : e # x => processing'[e] = processing[e]
    BY <1>0, <2>1, ListCounts
  <2>3. drain'[w] = [d EXCEPT !.step = "push"]
    BY <1>10, DrainChanges DEF Drop
  <2>4. drain'[w].step = "push" /\ drain'[w].event = x /\ drain'[w].stale = d.stale
    BY <1>0, <2>0, <2>3 DEF Drain
  <2>5. Owed(w)' = 1
    BY <2>4 DEF Owed, Owes
  <2>6. OnlyInv(w)'
    <3>1. \A e \in d.stale : e # x /\ processing'[e] > 0
      BY <1>0, <2>0, <2>1, <2>2 DEF OnlyInv, Holds, Drain
    <3>2. QED
      BY <2>4, <3>1 DEF OnlyInv, Holds, Moves
  <2>7. CASE processing[x] = 0
    <3>1. d.as # "processing" => Owed(w) = 1
      BY <2>0, <2>1, <2>7 DEF Owed, Owes
    <3>2. \A e \in Events : Listed(e)' = Listed(e)
      BY <1>0, <2>1, <2>2, <2>7 DEF Listed
    <3>3. d.as # "processing"
      BY <2>1 DEF OnlyInv
    <3>4. QED
      BY <1>2, <2>5, <2>6, <3>1, <3>2, <3>3
  <2>8. CASE processing[x] > 0
    <3>1. /\ Listed(x) = Listed(x)' + 1 /\ Listed(x)' \in Nat
          /\ \A e \in Events : e # x => Listed(e)' = Listed(e)
      BY <1>0, <2>1, <2>2, <2>8 DEF Listed
    <3>2. IsFiniteSet(Entries)' /\ Depth' = Depth - 1
      BY <3>1, DepthShrinks, DepthNumbers
    <3>3. Depth' \in Nat
      BY <3>2, FS_CardinalityType DEF Depth, Entries
    <3>4. QED
      BY <1>1, <2>5, <2>6, <3>2, <3>3, DepthNumbers, DepthStays
  <2>9. QED
    BY <1>0, <2>7, <2>8
<1>11. CASE Place(w)
  <2>0. PICK x \in Events : x = d.event
    BY <1>11 DEF Place, In, QInv, DrainInv
  <2>1. d.step = "push" /\ Owed(w) = 1
    BY <1>11 DEF Place, In, Owed, Owes
  <2>2. drain'[w] = [NoDrain EXCEPT !.step = "next", !.stale = d.stale, !.before = d.before]
        /\ processing' = processing
    BY <1>11, DrainChanges DEF Place, AfterEntry
  <2>3. drain'[w].step = "next" /\ drain'[w].stale = d.stale
    BY <2>2 DEF NoDrain
  <2>4. OnlyInv(w)' /\ Owed(w)' = 0
    BY <2>2, <2>3 DEF OnlyInv, Holds, Moves, Owed, Owes
  <2>5. CASE d.as # "failed"
    <3>1. \A e \in Events : Listed(e)' = Listed(e)
      BY <1>11, <2>2, <2>5 DEF Place, Listed
    <3>2. QED
      BY <1>2, <2>1, <2>4, <3>1
  <2>6. CASE d.as = "failed"
    <3>1. /\ Listed(x)' = Listed(x) + 1
          /\ \A e \in Events : e # x => Listed(e)' = Listed(e)
      <4>1. pending' = RPush(pending, x)
        BY <1>11, <2>0, <2>6 DEF Place
      <4>2. QED
        BY <1>0, <2>2, <4>1, ListCounts DEF Listed
    <3>2. IsFiniteSet(Entries)' /\ Depth' = Depth + 1
      BY <1>0, <3>1, DepthGrows, DepthNumbers
    <3>3. QED
      BY <1>1, <2>1, <2>4, <3>2, DepthNumbers, DepthStays
  <2>7. QED
    BY <2>5, <2>6
<1>12. QED
  BY <1>3, <1>4, <1>5, <1>6, <1>7, <1>8, <1>9, <1>10, <1>11 DEF DrainStep

LEMMA OnlyNext ==
    ASSUME NEW w \in Workers, \A v \in Workers : v = w
    PROVE  QInv /\ KindInv /\ OnlyInv(w) /\ DepthInv(w) /\ [Next]_vars
             => OnlyInv(w)' /\ DepthInv(w)'
<1> SUFFICES ASSUME QInv, KindInv, OnlyInv(w), DepthInv(w), [Next]_vars
             PROVE  OnlyInv(w)' /\ DepthInv(w)'
  OBVIOUS
<1>0. /\ drain \in [Workers -> Drain] /\ call \in [Calls -> Call]
      /\ \A e \in Events : Listed(e) \in Nat
  BY DEF QInv, TypeOK, Listed
\* Steps that list nothing, and in which no delivery passes the check.
<1>1. ASSUME UNCHANGED <<pending, processing, replays>>,
             \A c \in Calls : call'[c] = call[c] \/ call'[c].step \notin {"store", "push"},
             OnlyInv(w)', Owed(w)' <= Owed(w)
      PROVE  OnlyInv(w)' /\ DepthInv(w)'
  <2>1. Measured' \subseteq Measured
    BY <1>1 DEF Measured
  <2>2. Entries' = Entries /\ Depth' = Depth
    BY <1>1, DepthSame DEF Listed
  <2>3. Owed(w)' \in {0, 1}
    BY DEF Owed
  <2>4. QED
    BY <1>1, <2>1, <2>2, <2>3, DepthNumbers, DepthStays
<1>2. ASSUME UNCHANGED <<pending, processing, replays, drain>>,
             \A c \in Calls : call'[c] = call[c] \/ call'[c].step \notin {"store", "push"}
      PROVE  OnlyInv(w)' /\ DepthInv(w)'
  <2>1. OnlyInv(w)' /\ Owed(w)' = Owed(w)
    BY <1>2 DEF OnlyInv, Holds, Moves, Owed, Owes
  <2>2. QED
    BY <1>1, <1>2, <2>1, DepthNumbers
<1>3. ASSUME NEW c \in Calls, NEW v \in Workers, NEW e \in Events, Receive(c, v, e)
      PROVE  OnlyInv(w)' /\ DepthInv(w)'
  <2>1. call'[c].step = "measure" /\ \A k \in Calls : k # c => call'[k] = call[k]
    BY <1>0, <1>3 DEF Receive
  <2>2. QED
    BY <1>2, <1>3, <2>1 DEF Receive, history
<1>4. ASSUME NEW c \in Calls, NEW v \in Workers, NEW e \in Events,
             NEW op \in {"replay", "delete"}, FindLetter(c, v, e, op)
      PROVE  OnlyInv(w)' /\ DepthInv(w)'
  <2>1. call'[c].step = "take" /\ \A k \in Calls : k # c => call'[k] = call[k]
    BY <1>0, <1>4 DEF FindLetter
  <2>2. QED
    BY <1>2, <1>4, <2>1 DEF FindLetter, redis, history
<1>5. ASSUME NEW c \in Calls, CallStep(c) PROVE OnlyInv(w)' /\ DepthInv(w)'
  BY <1>5, OnlyCalls
<1>6. ASSUME NEW c \in Calls, CallError(c) PROVE OnlyInv(w)' /\ DepthInv(w)'
  <2>1. Move(c, "release") \/ EndCall(c)
    BY <1>6 DEF CallError
  <2>2. \A k \in Calls : call'[k] = call[k] \/ call'[k].step \notin {"store", "push"}
    BY <2>1, CallChanges
  <2>3. QED
    BY <1>2, <1>6, <2>2 DEF CallError, redis
<1>7. ASSUME NEW v \in Workers, DrainStep(v) PROVE OnlyInv(w)' /\ DepthInv(w)'
  BY <1>7, OnlyDrains
<1>8. ASSUME drain'[w] = NoDrain PROVE OnlyInv(w)' /\ Owed(w)' = 0
  BY <1>8 DEF NoDrain, OnlyInv, Owed, Owes
<1>9. ASSUME NEW v \in Workers, Crash(v) PROVE OnlyInv(w)' /\ DepthInv(w)'
  <2>1. drain'[w] = NoDrain
    BY <1>9, DrainChanges DEF Crash
  <2>2. \A c \in Calls : call'[c] = call[c] \/ call'[c].step = "idle"
    BY <1>9 DEF Crash, NoCall
  <2>3. QED
    BY <1>1, <1>8, <1>9, <2>1, <2>2, DepthNumbers DEF Crash, redis, history
<1>10. ASSUME NEW v \in Workers, DrainError(v) PROVE OnlyInv(w)' /\ DepthInv(w)'
  <2>1. /\ UNCHANGED <<pending, processing, replays, call>>
        /\ \/ Set(w, NoDrain)
           \/ /\ drain[w].as = "completed" /\ drain[w].step \in {"save", "drop", "push"}
              /\ Set(w, [drain[w] EXCEPT !.step = "save",
                                         !.as = Disposition("retryable", drain[w].attempts)])
    BY <1>10 DEF DrainError, redis
  <2>2. CASE Set(w, NoDrain)
    BY <1>1, <1>8, <2>1, <2>2, DrainChanges, DepthNumbers
  <2>3. CASE ~Set(w, NoDrain)
    <3>1. drain'[w] = [drain[w] EXCEPT !.step = "save",
                                       !.as = Disposition("retryable", drain[w].attempts)]
      BY <2>1, <2>3, DrainChanges
    <3>2. /\ drain'[w].step = "save" /\ drain'[w].event = drain[w].event
          /\ drain'[w].stale = drain[w].stale
          /\ drain'[w].as = Disposition("retryable", drain[w].attempts)
      BY <1>0, <3>1 DEF Drain
    <3>3. drain'[w].as # "processing"
      BY <3>2 DEF Disposition
    <3>4. OnlyInv(w)' /\ Owed(w)' <= Owed(w)
      BY <2>1, <2>3, <3>2, <3>3 DEF OnlyInv, Holds, Moves, Owed, Owes
    <3>5. QED
      BY <1>1, <2>1, <3>4
  <2>4. QED
    BY <2>2, <2>3
<1>11. CASE Tick \/ UNCHANGED vars
  BY <1>2, <1>11 DEF Tick, vars, redis, history
<1>12. QED
  BY <1>3, <1>4, <1>5, <1>6, <1>7, <1>9, <1>10, <1>11 DEF Next

-----------------------------------------------------------------------------
(* The theorems. *)

\* Every reachable state of the queue is well typed.
THEOREM QueueTypeCorrect == Spec => []TypeOK
<1>1. QInv => TypeOK
  BY DEF QInv
<1>2. QED
  BY <1>1, QInvariant, PTL

\* An event in a list has its row, whatever crashes and whatever fails: no
\* drain drops an entry as one without an event.
THEOREM ListedEventsHaveRows == Spec => []ListedHasRow
<1>1. QInv => ListedHasRow
  BY DEF QInv
<1>2. QED
  BY <1>1, QInvariant, PTL

\* Where nothing fails no accepted event is lost, however many workers share
\* the queue, however slow they are and however often they take each other's
\* entries for stale.
THEOREM AcceptedEventsAreKept ==
    ASSUME MaxFaults = 0
    PROVE  Spec => []AcceptedIsKept
<1>1. QInv /\ KInv /\ [Next]_vars => KInv'
  BY KStep
<1>2. KInv => AcceptedIsKept
  BY KeptIsSafe DEF KInv
<1>3. QED
  BY <1>1, <1>2, KInit, QInvariant, PTL DEF Spec

\* Until something fails, an idempotency key that holds off deliveries stands for
\* an event that was queued or is being, however deliveries, refusals and expiries
\* interleave: giving back a key somebody else claimed since leaves none behind.
THEOREM LiveKeysMeanWork == Spec => []KeyMeansWork
<1>1. KeyInv => KeyMeansWork
  BY DEF KeyInv, KeyMeansWork
<1>2. QED
  BY <1>1, QInvariant, KindInit, KindNext, KeyInit, KeyNext, PTL DEF Spec

\* An event's work is in the lists at most once, and in neither while a worker or a
\* replay carries it, whatever crashes, for any number of events and calls: where a
\* key outlives the run, operators act one at a time and no worker takes another's
\* entry for stale. Redis errors void the second part, as they do in the code.
THEOREM EventsAreWorkedOnOnce ==
    ASSUME OneOperator, NoTheft, KeyLife > MaxTime
    PROVE  Spec => []WorkIsListedOnce
<1>1. Init => OnceInv
  BY OnceInit
<1>2. QInv /\ KindInv /\ OnceInv /\ [Next]_vars => OnceInv'
  BY OnceNext
<1>3. QInv /\ KindInv /\ OnceInv => WorkIsListedOnce
  BY AloneIsOnce DEF QInv, OnceInv, WorkIsListedOnce
<1>4. QED
  BY <1>1, <1>2, <1>3, QInvariant, KindInit, KindNext, PTL DEF Spec

\* Where an event is worked on once, its attempts beyond the maximum are attempts
\* a crash cut short, whichever worker died and wherever its entry was found.
THEOREM EventsGetTheirAttempts ==
    ASSUME OneOperator, NoTheft, KeyLife > MaxTime
    PROVE  Spec => []AttemptsArePaidFor
<1>1. Init => OnceInv /\ PaidInv
  BY OnceInit, PaidInit
<1>2. QInv /\ KindInv /\ OnceInv /\ [Next]_vars => OnceInv'
  BY OnceNext
<1>3. PaidInv => AttemptsArePaidFor
  BY DEF PaidInv, AttemptsArePaidFor, Paid, Limit
<1>4. QED
  BY <1>1, <1>2, <1>3, PaidNext, QInvariant, KindInit, KindNext, PTL DEF Spec

\* With one worker the lists pass the depth limit by less than the calls in flight
\* and one, and a replay, which asks for no room, by one more each time: whatever
\* crashes, whichever command fails, and however often an event is listed twice.
THEOREM DepthPassesItsLimitByOne ==
    ASSUME NEW w, Workers = {w}
    PROVE  Spec => []DepthIsBounded
<1>1. Init => OnlyInv(w) /\ DepthInv(w)
  BY OnlyInit
<1>2. QInv /\ KindInv /\ OnlyInv(w) /\ DepthInv(w) /\ [Next]_vars => OnlyInv(w)' /\ DepthInv(w)'
  BY OnlyNext
<1>3. QInv /\ DepthInv(w) => DepthIsBounded
  <2>1. Cardinality(Workers) = 1
    BY FS_Singleton
  <2>2. QED
    BY <2>1, DepthNumbers DEF DepthIsBounded
<1>4. QED
  BY <1>1, <1>2, <1>3, QInvariant, KindInit, KindNext, PTL DEF Spec
=============================================================================
