---------------------------- MODULE WebhookQueue ----------------------------
(***************************************************************************)
(* The webhook handler with its Redis backend: a provider's event is       *)
(* claimed by an idempotency key, stored and listed as pending, moved to   *)
(* the processing list by a draining worker, forwarded to chat ingestion,  *)
(* and completed, retried or dead-lettered; an operator replays or deletes *)
(* dead letters.                                                           *)
(*                                                                         *)
(* Every Redis command is a step of its own, so calls, drains and workers  *)
(* interleave between any two of them and a crash may fall there too. A    *)
(* Redis list is the bag of its entries: which entry a pop returns matters *)
(* to no property here, so the model pops any of them. A worker finds the  *)
(* pending list empty and lowers its flag in one step: both replies come   *)
(* on the worker's one connection, before that of any later push.          *)
(***************************************************************************)
EXTENDS Integers, FiniteSets

CONSTANTS
    Events,         \* provider events, named by their idempotency key
    Workers,        \* webhook-handler processes sharing one Redis
    Calls,          \* HTTP calls that may be in flight at once
    Operators,      \* the calls that may be an operator's instead
    None,           \* neither an event nor a worker
    MaxDepth,       \* WEBHOOK_QUEUE_MAX_DEPTH
    MaxAttempts,    \* WEBHOOK_QUEUE_MAX_ATTEMPTS
    Timeout,        \* WEBHOOK_QUEUE_PROCESSING_TIMEOUT_MS, in ticks
    KeyLife,        \* WEBHOOK_IDEMPOTENCY_TTL_MS, in ticks
    MaxTime,        \* bound: the last tick
    MaxLetters,     \* bound: dead-letterings after which none is replayed
    MaxFaults,      \* bound: crashes and Redis errors together
    Faults          \* the kinds of fault of this instance

ASSUME QueueAssumption ==
    /\ IsFiniteSet(Events) /\ IsFiniteSet(Workers) /\ IsFiniteSet(Calls)
    /\ None \notin Events \cup Workers
    /\ Operators \subseteq Calls
    /\ {MaxDepth, MaxAttempts, KeyLife} \subseteq Nat \ {0}
    /\ {Timeout, MaxTime, MaxLetters, MaxFaults} \subseteq Nat
    /\ Faults \subseteq {"crash", "redis"}

VARIABLES
    now,            \* the clock
    claimedUntil,   \* idempotency keys: the tick at which each expires
    row,            \* the events hash
    pending,        \* the pending list: how often each event is in it
    processing,     \* the processing list, likewise
    completed,      \* the completed set
    deadLetters,    \* the dead-letter list: copies, told apart by a number
    drain,          \* per worker: its processing flag and where its drain is
    call,           \* calls in flight
    faults,         \* failed commands and crashes so far
    accepted,       \* history: events whose push to pending was done
    delivered,      \* history: events chat ingestion took
    deleted,        \* history: events an operator deleted as dead letters
    lettered,       \* history: how often each event was dead-lettered
    replays,        \* history: dead letters pushed to pending again
    errors          \* history: Redis commands that failed

redis == <<claimedUntil, row, pending, processing, completed, deadLetters>>
history == <<accepted, delivered, deleted, lettered, replays, errors>>
vars == <<now, redis, drain, call, faults, history>>
-----------------------------------------------------------------------------
QueueState == {"queued", "processing", "completed", "failed", "dead_lettered"}

\* What the events hash holds for an event: nothing, or the event's JSON.
Row == [state : QueueState \cup {"none"}, attempts : Nat, updatedAt : Nat]

NoDrain == [step |-> "idle", event |-> None, as |-> "queued", attempts |-> 0,
            stale |-> {}, before |-> 0]
NoCall == [step |-> "idle", op |-> "receive", worker |-> None, event |-> None, copy |-> 0]

Drain == [step : {"idle", "scan", "next", "load", "save", "forward", "drop", "push"},
          event : Events \cup {None}, as : QueueState, attempts : Nat,
          stale : SUBSET Events, before : Int]
Call == [step : {"idle", "measure", "store", "push", "release", "drain", "take"},
         op : {"receive", "replay", "delete"}, worker : Workers \cup {None},
         event : Events \cup {None}, copy : Nat]

Init ==
    /\ now = 0 /\ faults = 0
    /\ claimedUntil = [e \in Events |-> 0]
    /\ row = [e \in Events |-> [state |-> "none", attempts |-> 0, updatedAt |-> 0]]
    /\ pending = [e \in Events |-> 0]
    /\ processing = [e \in Events |-> 0]
    /\ completed = {}
    /\ deadLetters = [e \in Events |-> {}]
    /\ drain = [w \in Workers |-> NoDrain]
    /\ call = [c \in Calls |-> NoCall]
    /\ accepted = {} /\ delivered = {} /\ deleted = {}
    /\ lettered = [e \in Events |-> 0] /\ replays = 0 /\ errors = 0
-----------------------------------------------------------------------------
\* The Redis commands, each the next value of the key it writes.
HSet(e, state, attempts) ==
    row' = [row EXCEPT ![e] = [state |-> state, attempts |-> attempts, updatedAt |-> now]]
RPush(list, e) == [list EXCEPT ![e] = @ + 1]
LRem(list, e) == [list EXCEPT ![e] = IF @ > 0 THEN @ - 1 ELSE 0]
Exists(e) == row[e].state # "none"

\* SET NX PX: an expired key is no key.
ClaimableWithoutNX(e) == e \in Events
Claimable(e) == claimedUntil[e] <= now

\* The depth check of enqueue, on both list lengths: the entries of both lists,
\* those of one event numbered.
Listed(e) == pending[e] + processing[e]
Depth == Cardinality(UNION {{e} \X (1..Listed(e)) : e \in Events})
HasRoomForOneMore == Depth <= MaxDepth
HasRoom == Depth < MaxDepth

\* enqueue and replayDeadLetter store the event, then list it, then drain.
AfterStep(step) ==
    CASE step = "measure" -> "store"
      [] step = "take" -> "store"
      [] step = "store" -> "push"
      [] step = "push" -> "drain"

\* process: how one attempt ends, the given one counted.
DispositionOneMore(outcome, attempts) ==
    IF outcome = "accepted" THEN "completed"
    ELSE IF outcome = "terminal" \/ attempts > MaxAttempts THEN "dead_lettered"
    ELSE "failed"
DispositionGivesUp(outcome, attempts) ==
    IF outcome # "retryable" \/ attempts >= MaxAttempts THEN "completed" ELSE "failed"
Disposition(outcome, attempts) ==
    IF outcome = "accepted" THEN "completed"
    ELSE IF outcome = "terminal" \/ attempts >= MaxAttempts THEN "dead_lettered"
    ELSE "failed"

\* drain: where its loop goes when an entry is settled.
AfterEntryStop == "idle"
AfterEntry == "next"

\* requeueStaleProcessing: rows it takes for those of dead workers.
IsStale(e, before) == row[e].state = "processing" /\ row[e].updatedAt <= before
-----------------------------------------------------------------------------
At(c, step) == call[c].step = step
Move(c, step) == call' = [call EXCEPT ![c].step = step]
EndCall(c) == call' = [call EXCEPT ![c] = NoCall]

\* receiveWebhook: the idempotency key decides. A duplicate is answered as
\* accepted at once, which changes nothing here.
Receive(c, w, e) ==
    /\ At(c, "idle")
    /\ Claimable(e)
    /\ claimedUntil' = [claimedUntil EXCEPT ![e] = now + KeyLife]
    /\ call' = [call EXCEPT ![c] = [step |-> "measure", op |-> "receive",
                                    worker |-> w, event |-> e, copy |-> 0]]
    /\ UNCHANGED <<now, row, pending, processing, completed, deadLetters, drain, faults, history>>

\* enqueue refuses a full queue; enqueueClaimedWebhook then gives the key back.
Measure(c) ==
    /\ At(c, "measure")
    /\ Move(c, IF HasRoom THEN AfterStep("measure") ELSE "release")
    /\ UNCHANGED <<now, redis, drain, faults, history>>

ReleaseNothing(c) ==
    /\ At(c, "release")
    /\ EndCall(c)
    /\ UNCHANGED <<now, redis, drain, faults, history>>
Release(c) ==
    /\ At(c, "release")
    /\ claimedUntil' = [claimedUntil EXCEPT ![call[c].event] = 0]
    /\ EndCall(c)
    /\ UNCHANGED <<now, row, pending, processing, completed, deadLetters, drain, faults, history>>

\* The event's row is written anew, by enqueue as by a replay.
Store(c) ==
    /\ At(c, "store")
    /\ HSet(call[c].event, "queued", 0)
    /\ Move(c, AfterStep("store"))
    /\ UNCHANGED <<now, claimedUntil, pending, processing, completed, deadLetters, drain,
                   faults, history>>

Push(c) ==
    /\ At(c, "push")
    /\ pending' = RPush(pending, call[c].event)
    /\ accepted' = accepted \cup {call[c].event}
    /\ Move(c, AfterStep("push"))
    /\ replays' = IF call[c].op = "replay" THEN replays + 1 ELSE replays
    /\ UNCHANGED <<now, claimedUntil, row, processing, completed, deadLetters, drain, faults,
                   delivered, deleted, lettered, errors>>

\* The call drains the queue unless its worker is draining already.
StartDrain(c) ==
    LET w == call[c].worker IN
    /\ At(c, "drain")
    /\ drain' = IF drain[w].step = "idle" THEN [drain EXCEPT ![w].step = "scan"] ELSE drain
    /\ EndCall(c)
    /\ UNCHANGED <<now, redis, faults, history>>

\* An operator's call reads the dead letters and picks the event's copy...
FindLetter(c, w, e, op) ==
    /\ c \in Operators
    /\ At(c, "idle")
    /\ op = "replay" => lettered[e] < MaxLetters
    /\ \E n \in deadLetters[e] :
          call' = [call EXCEPT ![c] = [step |-> "take", op |-> op, worker |-> w,
                                       event |-> e, copy |-> n]]
    /\ UNCHANGED <<now, redis, drain, faults, history>>

\* ... removes that copy, without looking whether it was still there, and goes on.
TakeLetter(c) ==
    LET e == call[c].event IN
    /\ At(c, "take")
    /\ deadLetters' = [deadLetters EXCEPT ![e] = @ \ {call[c].copy}]
    /\ IF call[c].op = "replay"
       THEN Move(c, AfterStep("take")) /\ UNCHANGED deleted
       ELSE EndCall(c) /\ deleted' = deleted \cup {e}
    /\ UNCHANGED <<now, claimedUntil, row, pending, processing, completed, drain, faults,
                   accepted, delivered, lettered, replays, errors>>
-----------------------------------------------------------------------------
In(w, step) == drain[w].step = step
Set(w, d) == drain' = [drain EXCEPT ![w] = d]

\* requeueStaleProcessing reads the processing list and the clock once.
Scan(w) ==
    /\ In(w, "scan")
    /\ Set(w, [NoDrain EXCEPT !.step = "next", !.before = now - Timeout,
                              !.stale = {e \in Events : processing[e] > 0}])
    /\ UNCHANGED <<now, redis, call, faults, history>>

\* One entry of that list: without a row it is dropped, stale it is requeued,
\* else it is left alone.
CheckStale(w) ==
    /\ In(w, "next")
    /\ \E e \in drain[w].stale :
         LET rest == drain[w].stale \ {e} IN
         /\ processing' = IF Exists(e) THEN processing ELSE LRem(processing, e)
         /\ Set(w, IF IsStale(e, drain[w].before)
                   THEN [drain[w] EXCEPT !.step = "save", !.event = e, !.as = "failed",
                                         !.attempts = row[e].attempts, !.stale = rest]
                   ELSE [drain[w] EXCEPT !.stale = rest])
    /\ UNCHANGED <<now, claimedUntil, row, pending, completed, deadLetters, call, faults, history>>

\* claimNextPending: LMOVE, or the end of the drain.
ClaimNext(w) ==
    /\ In(w, "next") /\ drain[w].stale = {}
    /\ \E e \in Events :
         /\ pending[e] > 0
         /\ pending' = LRem(pending, e)
         /\ processing' = RPush(processing, e)
         /\ Set(w, [NoDrain EXCEPT !.step = "load", !.event = e])
    /\ UNCHANGED <<now, claimedUntil, row, completed, deadLetters, call, faults, history>>

EndDrain(w) ==
    /\ In(w, "next") /\ drain[w].stale = {}
    /\ \A e \in Events : pending[e] = 0
    /\ Set(w, NoDrain)
    /\ UNCHANGED <<now, redis, call, faults, history>>

Load(w) ==
    LET e == drain[w].event IN
    /\ In(w, "load")
    /\ processing' = IF Exists(e) THEN processing ELSE LRem(processing, e)
    /\ Set(w, IF Exists(e)
              THEN [drain[w] EXCEPT !.step = "save", !.as = "processing",
                                    !.attempts = row[e].attempts + 1]
              ELSE [NoDrain EXCEPT !.step = AfterEntry])
    /\ UNCHANGED <<now, claimedUntil, row, pending, completed, deadLetters, call, faults, history>>

\* The worker writes back the copy it holds, in the state it has come to.
Save(w) ==
    LET d == drain[w] IN
    /\ In(w, "save")
    /\ HSet(d.event, d.as, d.attempts)
    /\ Set(w, [d EXCEPT !.step = IF d.as = "processing" THEN "forward" ELSE "drop"])
    /\ UNCHANGED <<now, claimedUntil, pending, processing, completed, deadLetters, call, faults, history>>

\* forwardToChatIngestion: accepted, refused for good, or failed in a way
\* that leaves open whether chat ingestion took the event.
Forward(w) ==
    /\ In(w, "forward")
    /\ \E outcome \in {"accepted", "terminal", "retryable"} :
         /\ Set(w, [drain[w] EXCEPT !.step = "save",
                                    !.as = Disposition(outcome, drain[w].attempts)])
         /\ \/ outcome # "terminal" /\ delivered' = delivered \cup {drain[w].event}
            \/ outcome # "accepted" /\ UNCHANGED delivered
    /\ UNCHANGED <<now, redis, call, faults, accepted, deleted, lettered, replays, errors>>

Drop(w) ==
    /\ In(w, "drop")
    /\ processing' = LRem(processing, drain[w].event)
    /\ Set(w, [drain[w] EXCEPT !.step = "push"])
    /\ UNCHANGED <<now, claimedUntil, row, pending, completed, deadLetters, call, faults, history>>

\* The entry's new place: the completed set, the dead letters or, after a
\* failed attempt or a stale one, the pending list again.
Place(w) ==
    LET e == drain[w].event
        as == drain[w].as
    IN
    /\ In(w, "push")
    /\ completed' = IF as = "completed" THEN completed \cup {e} ELSE completed
    /\ deadLetters' = IF as = "dead_lettered"
                      THEN [deadLetters EXCEPT ![e] = @ \cup {lettered[e] + 1}]
                      ELSE deadLetters
    /\ lettered' = IF as = "dead_lettered" THEN [lettered EXCEPT ![e] = @ + 1] ELSE lettered
    /\ pending' = IF as = "failed" THEN RPush(pending, e) ELSE pending
    /\ Set(w, [NoDrain EXCEPT !.step = AfterEntry, !.stale = drain[w].stale,
                              !.before = drain[w].before])
    /\ UNCHANGED <<now, claimedUntil, row, processing, call, faults, accepted,
                   delivered, deleted, replays, errors>>
-----------------------------------------------------------------------------
MayFail(kind) == kind \in Faults /\ faults < MaxFaults

\* A process dies and is started again: its calls and its drain are gone.
Crash(w) ==
    /\ MayFail("crash")
    /\ Set(w, NoDrain)
    /\ call' = [c \in Calls |-> IF call[c].worker = w THEN NoCall ELSE call[c]]
    /\ faults' = faults + 1
    /\ UNCHANGED <<now, redis, history>>

\* A Redis command of a drain fails. Inside process's try (the bookkeeping of
\* a success) the error counts as a failed attempt; elsewhere it ends the drain.
DrainError(w) ==
    /\ MayFail("redis")
    /\ drain[w].step \notin {"idle", "forward"}
    /\ Set(w, IF drain[w].as = "completed" /\ drain[w].step \in {"save", "drop", "push"}
              THEN [drain[w] EXCEPT !.step = "save",
                                    !.as = Disposition("retryable", drain[w].attempts)]
              ELSE NoDrain)
    /\ faults' = faults + 1 /\ errors' = errors + 1
    /\ UNCHANGED <<now, redis, call, accepted, delivered, deleted, lettered, replays>>

\* A Redis command of a call fails, or its reply is lost: enqueue's error
\* gives the key back, any other error only ends the call.
CallError(c) ==
    /\ MayFail("redis")
    /\ ~At(c, "idle")
    /\ \/ /\ call[c].op = "receive" /\ call[c].step # "release"
          /\ Move(c, "release")
       \/ /\ call[c].op # "receive" \/ call[c].step \in {"measure", "release", "drain"}
          /\ EndCall(c)
    /\ faults' = faults + 1 /\ errors' = errors + 1
    /\ UNCHANGED <<now, redis, drain, accepted, delivered, deleted, lettered, replays>>

Tick ==
    /\ now < MaxTime
    /\ now' = now + 1
    /\ UNCHANGED <<redis, drain, call, faults, history>>

CallStep(c) ==
    \/ Measure(c) \/ Release(c) \/ Store(c) \/ Push(c) \/ StartDrain(c) \/ TakeLetter(c)
DrainStep(w) ==
    \/ Scan(w) \/ CheckStale(w) \/ ClaimNext(w) \/ EndDrain(w) \/ Load(w)
    \/ Save(w) \/ Forward(w) \/ Drop(w) \/ Place(w)

Next ==
    \/ \E c \in Calls, w \in Workers, e \in Events : Receive(c, w, e)
    \/ \E c \in Calls, w \in Workers, e \in Events, op \in {"replay", "delete"} :
          FindLetter(c, w, e, op)
    \/ \E c \in Calls : CallStep(c) \/ CallError(c)
    \/ \E w \in Workers : DrainStep(w) \/ Crash(w) \/ DrainError(w)
    \/ Tick

Spec == Init /\ [][Next]_vars

\* A process runs the steps of the calls and of the drain it has begun; no
\* provider has to deliver, no operator to act.
Fairness == /\ \A c \in Calls : WF_vars(CallStep(c))
            /\ \A w \in Workers : WF_vars(DrainStep(w))
FairSpec == Spec /\ Fairness
-----------------------------------------------------------------------------
TypeOK ==
    /\ now \in Nat /\ faults \in Nat /\ errors \in Nat /\ replays \in Nat
    /\ claimedUntil \in [Events -> Nat]
    /\ row \in [Events -> Row]
    /\ pending \in [Events -> Nat]
    /\ processing \in [Events -> Nat]
    /\ completed \subseteq Events
    /\ deadLetters \in [Events -> SUBSET Nat]
    /\ drain \in [Workers -> Drain]
    /\ call \in [Calls -> Call]
    /\ {accepted, delivered, deleted} \subseteq SUBSET Events
    /\ lettered \in [Events -> Nat]

Receiving(e) == \E c \in Calls : call[c].step # "idle" /\ call[c].op = "receive"
                                 /\ call[c].event = e
\* Someone is between two commands with the event in neither list.
Carried(e) ==
    \/ \E w \in Workers : drain[w].step = "push" /\ drain[w].event = e
    \/ \E c \in Calls : call[c].step \in {"store", "push"} /\ call[c].op = "replay"
                        /\ call[c].event = e

\* An event in a list has its row: enqueue writes the row first, so no drain
\* ever drops an entry for want of one.
ListedHasRow == \A e \in Events : Listed(e) > 0 => Exists(e)

\* One piece of work per event: whatever fails, a listed event has its row; it is
\* in the lists at most once, and in neither while a worker or a replay carries it
\* from one to the other. The idempotency key, LMOVE and removal before the next
\* push keep it so, crashes included; a push whose reply is lost gives the key back
\* and may list its event again.
WorkIsListedOnce ==
    /\ ListedHasRow
    /\ errors = 0 =>
        \A e \in Events : Listed(e) + (IF Carried(e) THEN 1 ELSE 0) <= 1

\* process counts the attempt before it forwards, and dead-letters a failed
\* last one: attempts beyond MaxAttempts are attempts a crash cut short. (A push
\* whose reply is lost lists an event twice, and the copies count in one row.)
AttemptsArePaidFor ==
    errors = 0 => \A e \in Events : row[e].attempts <= MaxAttempts + faults

\* What was listed is never lost: it is in a list, in the dead letters, in
\* someone's hands, taken by chat ingestion or deleted by an operator.
AcceptedIsKept ==
    \A e \in accepted \ (delivered \cup deleted) :
       Listed(e) > 0 \/ deadLetters[e] # {} \/ Carried(e)

\* The depth limit is checked apart from the push: each call and each worker
\* carrying an entry can pass it by one, a replay, which asks for no room, by one
\* each time, and nothing by more.
DepthIsBounded == Depth < MaxDepth + Cardinality(Calls) + Cardinality(Workers) + replays

\* Until something fails, a key that holds off deliveries stands for an event
\* that was queued or is being: a refused enqueue gives its key back.
KeyMeansWork ==
    faults = 0 =>
        \A e \in Events : claimedUntil[e] > now => e \in accepted \/ Receiving(e)

\* What was queued is forwarded, dead-lettered or deleted in the end.
AcceptedIsSettled ==
    \A e \in Events : e \in accepted ~> e \in delivered \cup deleted \/ lettered[e] > 0
=============================================================================
