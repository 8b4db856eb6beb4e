--------------------------- MODULE InboundMessages ---------------------------
(***************************************************************************)
(* Provider messages on their way into core: ingestProviderMessage         *)
(* (conversation.service.ts) with the inbound quota of the subscription    *)
(* period (usage-limit.service.ts) and the removal of the channel they     *)
(* arrive on (tenant.service.ts). The webhook handler delivers an event    *)
(* through chat ingestion until core answers 2xx or the attempts are used  *)
(* up, and may deliver it twice at once.                                   *)
(*                                                                         *)
(* One tenant with one operational period. A delivery runs one             *)
(* transaction: the row of the event (unique per channel and event), the   *)
(* quota under a lock of the tenant's periods, then message, usage and     *)
(* event together; what it writes is visible when it commits. The removal  *)
(* of a channel is a sequence of statements with no transaction around it. *)
(***************************************************************************)
EXTENDS Integers, Sequences, FiniteSets

CONSTANTS
    Channels, Messages, Events,
    On,             \* [Messages -> Channels]: the channel of a message
    Of,             \* [Events -> Messages]: an edit is a second event of a message
    Handlers,       \* deliveries core runs at once
    MaxLimit,       \* bound: inbound messages the period allows
    MaxSends,       \* bound: events sent, by the provider or by a replay
    MaxTries,       \* MAX_ATTEMPTS of the webhook handler
    MaxFaults       \* bound: deliveries and removals cut off

ASSUME InboundAssumption ==
    /\ On \in [Messages -> Channels] /\ Of \in [Events -> Messages]
    /\ MaxLimit \in Nat /\ MaxSends \in Nat /\ MaxTries \in Nat \ {0} /\ MaxFaults \in Nat

VARIABLES
    channel,        \* per channel: its state
    row,            \* inbound_provider_events: processing_status per event
    stored,         \* the messages in the table
    usage,          \* tenant_usage_events: the messages billed, in order
    limit,          \* the period's inbound limit, top-ups included
    letter,         \* per event: what the webhook handler still does with it
    tries,          \* per event: failed deliveries
    sends,          \* events sent
    call,           \* per delivery: its step and what it has loaded
    announced,      \* per message: notifications and websocket events
    removal,        \* per channel: the next statement of its removal
    erased,         \* per channel: what a removal has erased
    faults          \* deliveries and removals cut off

vars == <<channel, row, stored, usage, limit, letter, tries, sends, call, announced,
          removal, erased, faults>>
-----------------------------------------------------------------------------
\* A channel by what ingestion asks of it: "awaiting" (credentials_verified,
\* webhook_registering, awaiting_first_event), "connected" (open otherwise),
\* "disabled" (inactive or disabled).
States == {"absent", "awaiting", "connected", "disabled"}
Statuses == {"none", "processed", "duplicate", "failed_terminal"}
Letters == {"unsent", "due", "delivered", "dead"}

Steps == {"idle", "loaded", "inserted", "permitted", "stored", "accepted", "refused"}
Call == [step : Steps, event : Events \cup {0}, waiting : BOOLEAN]
Idle == [step |-> "idle", event |-> 0, waiting |-> FALSE]

Statements == {"none", "events", "messages", "threads", "channel"}
Erasures == {"nothing", "events", "messages"}

Init ==
    /\ channel = [c \in Channels |-> "awaiting"]
    /\ row = [e \in Events |-> "none"]
    /\ stored = {}
    /\ usage = << >>
    /\ limit \in 0..MaxLimit
    /\ letter = [e \in Events |-> "unsent"]
    /\ tries = [e \in Events |-> 0]
    /\ sends = 0
    /\ call = [h \in Handlers |-> Idle]
    /\ announced = [m \in Messages |-> 0]
    /\ removal = [c \in Channels |-> "none"]
    /\ erased = [c \in Channels |-> "nothing"]
    /\ faults = 0
-----------------------------------------------------------------------------
At(h, step) == call[h].step = step
Go(h, step) == call' = [call EXCEPT ![h].step = step]
End(h) == call' = [call EXCEPT ![h] = Idle]
Message(h) == Of[call[h].event]
Route(e) == On[Of[e]]

\* A delivery whose transaction has inserted the row of its event.
InTransactionWhenPermitted(h) == At(h, "permitted")
InTransaction(h) == At(h, "inserted") \/ At(h, "permitted")
Reject(e) == row' = [row EXCEPT ![e] = "failed_terminal"]

\* The webhook handler's reaction to an answer that is not 2xx, or to none.
FailedAsDelivered(e) ==
    /\ tries' = tries
    /\ letter' = [letter EXCEPT ![e] = IF @ = "due" THEN "delivered" ELSE @]
Failed(e) ==
    /\ tries' = [tries EXCEPT ![e] = IF @ < MaxTries THEN @ + 1 ELSE @]
    /\ letter' = [letter EXCEPT ![e] = IF @ = "due" /\ tries[e] + 1 >= MaxTries THEN "dead" ELSE @]
-----------------------------------------------------------------------------
\* The provider sends an event, sends it again, or a dead letter is replayed.
Send(e) ==
    /\ sends < MaxSends /\ letter[e] # "due"
    /\ sends' = sends + 1
    /\ letter' = [letter EXCEPT ![e] = "due"]
    /\ tries' = [tries EXCEPT ![e] = 0]
    /\ UNCHANGED <<channel, row, stored, usage, limit, call, announced, removal, erased, faults>>

\* The channel is loaded; a missing or a disabled one is refused.
Refuses(c) == channel[c] \in {"absent", "disabled"}
Deliver(h, e) == LET c == Route(e) IN
    /\ At(h, "idle") /\ letter[e] = "due"
    /\ call' = [call EXCEPT ![h] =
          [step |-> IF Refuses(c) THEN "refused" ELSE "loaded",
           event |-> e, waiting |-> channel[c] = "awaiting"]]
    /\ UNCHANGED <<channel, row, stored, usage, limit, letter, tries, sends, announced, removal,
                   erased, faults>>

\* The row of the event. An insert of the same event waits for the transaction
\* that has one uncommitted; an event with a row is answered as a duplicate; the
\* foreign key refuses a channel that is gone.
FoundAgain(e) ==
    IF channel[Route(e)] = "absent" THEN "refused" ELSE IF row[e] # "none" THEN "stored" ELSE "inserted"
Found(e) ==
    IF row[e] # "none" THEN "accepted"
    ELSE IF channel[Route(e)] = "absent" THEN "refused" ELSE "inserted"
Insert(h) == LET e == call[h].event IN
    /\ At(h, "loaded")
    /\ \A g \in Handlers : InTransaction(g) => call[g].event # e
    /\ Go(h, Found(e))
    /\ UNCHANGED <<channel, row, stored, usage, limit, letter, tries, sends, announced, removal,
                   erased, faults>>

\* assertPeriodUsageAvailable: the periods are locked, then the usage is summed.
UnlockedAlways == TRUE
Unlocked == \A g \in Handlers : ~At(g, "permitted")
Permit(h) ==
    /\ At(h, "inserted") /\ Unlocked
    /\ Len(usage) + 1 <= limit
    /\ Go(h, "permitted")
    /\ UNCHANGED <<channel, row, stored, usage, limit, letter, tries, sends, announced, removal,
                   erased, faults>>

\* The quota refuses: the event is settled, and answered as accepted.
Exhaust(h) ==
    /\ At(h, "inserted") /\ Unlocked
    /\ Len(usage) + 1 > limit
    /\ Reject(call[h].event)
    /\ Go(h, "accepted")
    /\ UNCHANGED <<channel, stored, usage, limit, letter, tries, sends, announced, removal,
                   erased, faults>>

\* Customer, conversation, message, usage, event and channel, and the commit. A
\* message that is stored already is neither billed nor announced. A channel
\* that awaited its first event when it was loaded becomes active.
BillsEveryEvent(h) == TRUE
Bills(h) == Message(h) \notin stored
Store(h) == LET m == Message(h)  new == m \notin stored IN
    /\ At(h, "permitted")
    /\ stored' = stored \cup {m}
    /\ usage' = IF Bills(h) THEN Append(usage, m) ELSE usage
    /\ row' = [row EXCEPT ![call[h].event] = IF new THEN "processed" ELSE "duplicate"]
    /\ channel' = [channel EXCEPT ![On[m]] = IF call[h].waiting THEN "connected" ELSE @]
    /\ Go(h, IF new THEN "stored" ELSE "accepted")
    /\ UNCHANGED <<limit, letter, tries, sends, announced, removal, erased, faults>>

\* After the commit: what is read again is notified and emitted.
Announce(h) == LET m == Message(h) IN
    /\ At(h, "stored")
    /\ announced' = [announced EXCEPT ![m] = IF m \in stored THEN @ + 1 ELSE @]
    /\ Go(h, "accepted")
    /\ UNCHANGED <<channel, row, stored, usage, limit, letter, tries, sends, removal, erased, faults>>

\* Answer 201, and the webhook handler is done with the event.
Accept(h) == LET e == call[h].event IN
    /\ At(h, "accepted")
    /\ letter' = [letter EXCEPT ![e] = IF @ = "due" THEN "delivered" ELSE @]
    /\ End(h)
    /\ UNCHANGED <<channel, row, stored, usage, limit, tries, sends, announced, removal, erased, faults>>

\* Answer 404, 409 or 500; chat ingestion turns each into a 500.
Refuse(h) ==
    /\ At(h, "refused")
    /\ Failed(call[h].event)
    /\ End(h)
    /\ UNCHANGED <<channel, row, stored, usage, limit, sends, announced, removal, erased, faults>>

\* A delivery ends in the middle, or its answer is lost: an open transaction
\* leaves nothing, a committed one stays.
CutOff(h) ==
    /\ ~At(h, "idle") /\ faults < MaxFaults
    /\ faults' = faults + 1
    /\ Failed(call[h].event)
    /\ End(h)
    /\ UNCHANGED <<channel, row, stored, usage, limit, sends, announced, removal, erased>>
-----------------------------------------------------------------------------
\* A top-up is approved, or a period becomes operational.
Grant ==
    /\ limit < MaxLimit
    /\ limit' = limit + 1
    /\ UNCHANGED <<channel, row, stored, usage, letter, tries, sends, call, announced, removal,
                   erased, faults>>

\* disconnectChannel.
Disconnect(c) ==
    /\ channel[c] \in {"awaiting", "connected"}
    /\ channel' = [channel EXCEPT ![c] = "disabled"]
    /\ UNCHANGED <<row, stored, usage, limit, letter, tries, sends, call, announced, removal,
                   erased, faults>>

\* testChannelConnection, or the end of a webhook registration.
Connect(c) ==
    /\ channel[c] \in {"awaiting", "disabled"}
    /\ channel' = [channel EXCEPT ![c] = "connected"]
    /\ UNCHANGED <<row, stored, usage, limit, letter, tries, sends, call, announced, removal,
                   erased, faults>>

\* deleteChannel, statement by statement: the events, the messages,
\* the conversations and their customers, and the channel itself.
BeginRemoval(c) ==
    /\ channel[c] # "absent" /\ removal[c] = "none"
    /\ removal' = [removal EXCEPT ![c] = "events"]
    /\ UNCHANGED <<channel, row, stored, usage, limit, letter, tries, sends, call, announced,
                   erased, faults>>

EraseEvents(c) ==
    /\ removal[c] = "events"
    /\ row' = [e \in Events |-> IF Route(e) = c THEN "none" ELSE row[e]]
    /\ erased' = [erased EXCEPT ![c] = IF @ = "nothing" THEN "events" ELSE @]
    /\ removal' = [removal EXCEPT ![c] = "messages"]
    /\ UNCHANGED <<channel, stored, usage, limit, letter, tries, sends, call, announced, faults>>

EraseMessages(c) ==
    /\ removal[c] = "messages"
    /\ stored' = {m \in stored : On[m] # c}
    /\ erased' = [erased EXCEPT ![c] = "messages"]
    /\ removal' = [removal EXCEPT ![c] = "threads"]
    /\ UNCHANGED <<channel, row, usage, limit, letter, tries, sends, call, announced, faults>>

\* A message stored meanwhile refers to its conversation, an order to its
\* customer: the statement fails, and the rest is not done.
EraseThreads(c) ==
    /\ removal[c] = "threads"
    /\ \E done \in BOOLEAN :
        /\ done => \A m \in stored : On[m] # c
        /\ removal' = [removal EXCEPT ![c] = IF done THEN "channel" ELSE "none"]
    /\ UNCHANGED <<channel, row, stored, usage, limit, letter, tries, sends, call, announced,
                   erased, faults>>

\* The row of the channel: an event inserted and not committed holds it, what
\* refers to it keeps it.
ReferredByMessages(c) == \E m \in stored : On[m] = c
Referred(c) ==
    \/ \E m \in stored : On[m] = c
    \/ \E e \in Events : Route(e) = c /\ row[e] # "none"
Remove(c) ==
    /\ removal[c] = "channel"
    /\ \A h \in Handlers : InTransaction(h) => On[Message(h)] # c
    /\ channel' = [channel EXCEPT ![c] = IF Referred(c) THEN @ ELSE "absent"]
    /\ removal' = [removal EXCEPT ![c] = "none"]
    /\ UNCHANGED <<row, stored, usage, limit, letter, tries, sends, call, announced, erased, faults>>

\* A removal ends in the middle.
BreakOff(c) ==
    /\ removal[c] # "none" /\ faults < MaxFaults
    /\ faults' = faults + 1
    /\ removal' = [removal EXCEPT ![c] = "none"]
    /\ UNCHANGED <<channel, row, stored, usage, limit, letter, tries, sends, call, announced, erased>>
-----------------------------------------------------------------------------
Continue(h) ==
    \/ Insert(h) \/ Permit(h) \/ Exhaust(h) \/ Store(h) \/ Announce(h) \/ Accept(h) \/ Refuse(h)
RemovalStep(c) == EraseEvents(c) \/ EraseMessages(c) \/ EraseThreads(c) \/ Remove(c)

Next ==
    \/ Grant
    \/ \E e \in Events : Send(e)
    \/ \E h \in Handlers, e \in Events : Deliver(h, e)
    \/ \E h \in Handlers : Continue(h) \/ CutOff(h)
    \/ \E c \in Channels :
        Disconnect(c) \/ Connect(c) \/ BeginRemoval(c) \/ RemovalStep(c) \/ BreakOff(c)

Spec == Init /\ [][Next]_vars
-----------------------------------------------------------------------------
\* Every variable keeps its shape.
TypeOK ==
    /\ channel \in [Channels -> States] /\ row \in [Events -> Statuses]
    /\ stored \subseteq Messages /\ usage \in Seq(Messages)
    /\ limit \in 0..MaxLimit
    /\ letter \in [Events -> Letters] /\ tries \in [Events -> 0..MaxTries]
    /\ sends \in 0..MaxSends /\ faults \in 0..MaxFaults
    /\ call \in [Handlers -> Call]
    /\ announced \in [Messages -> Nat]
    /\ removal \in [Channels -> Statements] /\ erased \in [Channels -> Erasures]

Billed(m) == Cardinality({i \in DOMAIN usage : usage[i] = m})

\* However many deliveries ask for the last message of the period at once, no
\* more are billed than the period allows.
QuotaIsRespected == Len(usage) <= limit

\* A message is billed a second time only after the removal of its channel has
\* erased it: no redelivery, edit, retry or lost answer bills it again.
BilledOnce == \A m \in Messages : Billed(m) > 1 => erased[On[m]] = "messages"

\* Message, usage and event tell the same story: what is stored is billed, and
\* while nothing is erased what is billed is stored, by exactly one event, and
\* every event answered as processed or duplicate has its message.
RowsAgree ==
    \A m \in Messages :
        /\ m \in stored => Billed(m) > 0
        /\ erased[On[m]] # "messages" /\ Billed(m) > 0 => m \in stored
        /\ erased[On[m]] = "nothing" =>
             /\ m \in stored <=> \E e \in Events : Of[e] = m /\ row[e] = "processed"
             /\ \A e, f \in Events :
                  Of[e] = m /\ Of[f] = m /\ row[e] = "processed" /\ row[f] = "processed" => e = f
             /\ \A e \in Events : Of[e] = m /\ row[e] = "duplicate" => m \in stored

\* Staff are told of a message once for each time it is stored; unless a
\* delivery was cut off or the message erased, they are told of every message.
AnnouncedOnce ==
    \A m \in Messages :
        LET coming == {h \in Handlers : At(h, "stored") /\ Message(h) = m} IN
        /\ announced[m] + Cardinality(coming) <= Billed(m)
        /\ faults = 0 /\ erased[On[m]] = "nothing" =>
             announced[m] + Cardinality(coming) = Billed(m)

\* A channel that is gone has left nothing behind, and no delivery can add to it.
GoneMeansEmpty ==
    \A c \in Channels : channel[c] = "absent" =>
        /\ \A m \in stored : On[m] # c
        /\ \A e \in Events : Route(e) = c => row[e] = "none"
        /\ \A h \in Handlers : InTransaction(h) => On[Message(h)] # c

\* What was answered 2xx is settled: stored, found stored, or refused by the
\* quota. No fault and no race makes the sender stop before that.
DeliveredIsSettled ==
    \A e \in Events : letter[e] = "delivered" =>
        row[e] # "none" \/ erased[Route(e)] # "nothing"
=============================================================================
