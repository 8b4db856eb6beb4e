-------------------------- MODULE OutboundMessages --------------------------
(***************************************************************************)
(* Replies of a tenant's staff on one conversation: a request accepts the  *)
(* message, its command and its usage row in one transaction, posts the    *)
(* message to the integration service, which asks the provider and reports *)
(* the outcome to core before it answers, and saves the answer. Meanwhile  *)
(* the provider's delivery and read callbacks reach core.                  *)
(*                                                                         *)
(* Nothing but the first transaction is locked: a request and a callback   *)
(* load rows in one step and save them in another, and a save writes every *)
(* column of the loaded copy that differs from the row. A message is       *)
(* reduced to its status and whether its external id is known.             *)
(***************************************************************************)
EXTENDS Integers, FiniteSets

CONSTANTS
    MaxMessages,    \* bound: the messages sent, numbered as they are created
    Limit,          \* effectiveLimits.outbound_messages of the active period
    Handlers,       \* provider callbacks core may be handling at once
    Callbacks       \* what a provider of this instance says of messages it took

ASSUME OutboundAssumption ==
    /\ MaxMessages \in Nat /\ Limit \in Nat /\ IsFiniteSet(Handlers)
    /\ Callbacks \subseteq {"sent", "delivered", "read"}

Messages == 1..MaxMessages

VARIABLES
    channel,        \* the conversation's channel: ready or disabled
    row,            \* the messages
    command,        \* status of each outbound_message_commands row
    billed,         \* the messages whose usage row counts
    request,        \* per message: the sendMessage call that sends it
    relay,          \* per message: the integration service's part of that call
    fate,           \* per message: what became of it at the provider
    handler         \* per callback handler: the rows it is about to save

vars == <<channel, row, command, billed, request, relay, fate, handler>>
-----------------------------------------------------------------------------
Status == {"absent", "sending", "sent", "delivered", "read", "failed", "delivery_unknown"}
Row == [status : Status, ext : BOOLEAN]
Absent == [status |-> "absent", ext |-> FALSE]
Sending == [status |-> "sending", ext |-> FALSE]
Pending == UNION {[S -> Row] : S \in SUBSET Messages}
NoRows == [m \in {} |-> Absent]

Answers == {"sent", "failed", "delivery_unknown"}
Request == [pc : {"new", "accepted", "blocked", "unbilled", "dispatching", "waiting",
                  "answered", "saved", "ended", "dead"},
            copy : Row, answer : Answers]
Relay == [pc : {"idle", "called", "answered", "reporting", "reported"},
          accepted : BOOLEAN, write : Row]

Init ==
    /\ channel = "ready"
    /\ row = [m \in Messages |-> Absent]
    /\ command = [m \in Messages |-> "none"]
    /\ billed = {}
    /\ request = [m \in Messages |->
                    [pc |-> "new", copy |-> Absent, answer |-> "delivery_unknown"]]
    /\ relay = [m \in Messages |-> [pc |-> "idle", accepted |-> FALSE, write |-> Absent]]
    /\ fate = [m \in Messages |-> "unseen"]
    /\ handler = [h \in Handlers |-> NoRows]
-----------------------------------------------------------------------------
\* The quota check, under the locks of the tenant's period rows.
WithinQuotaUntilPassed == Cardinality(billed) <= Limit
WithinQuota == Cardinality(billed) + 1 <= Limit

\* ProviderChannelAdapter.sendMessage: the status of an answer, and of none.
AnswerStatusOfAnyReply(accepted) == "sent"
AnswerStatus(accepted) == IF accepted THEN "sent" ELSE "failed"
UnknownStatusSending == "sending"
UnknownStatus == "delivery_unknown"

\* shouldApplyProviderStatus.
ShouldApply(current, next) ==
    \/ current = next
    \/ current \notin {"read", "failed"} /\ ~(current = "delivered" /\ next = "sent")

\* updateProviderMessageStatus: the row a status report that names the message
\* makes of row r; an accepted send and a callback by id bring the external id.
Applied(r, status, ext) ==
    [status |-> IF ShouldApply(r.status, status) THEN status ELSE r.status,
     ext |-> r.ext \/ ext]

-----------------------------------------------------------------------------
At(m, pc) == request[m].pc = pc
Move(m, pc) == request' = [request EXCEPT ![m].pc = pc]
Finish(m, pc) ==
    request' = [request EXCEPT ![m] = [pc |-> pc, copy |-> Absent, answer |-> "delivery_unknown"]]

\* sendMessage: message, usage row and command, all "sending", in one
\* transaction that holds the channel's row.
Accept(m) ==
    /\ At(m, "new") /\ \A k \in 1..m - 1 : row[k] # Absent
    /\ channel = "ready" /\ WithinQuota
    /\ row' = [row EXCEPT ![m] = Sending]
    /\ command' = [command EXCEPT ![m] = "sending"]
    /\ billed' = billed \cup {m}
    /\ Move(m, "accepted")
    /\ UNCHANGED <<channel, relay, fate, handler>>

\* processOutboundMessageCommand loads command, message and channel.
Load(m) ==
    /\ At(m, "accepted")
    /\ request' = [request EXCEPT ![m].copy = row[m],
                                  ![m].pc = IF channel = "ready" THEN "dispatching"
                                            ELSE "blocked"]
    /\ UNCHANGED <<channel, row, command, billed, relay, fate, handler>>

\* markProviderMessageNonBillable, for a channel disabled before the dispatch.
UnbillFailed(m) ==
    /\ At(m, "blocked") \/ (At(m, "answered") /\ request[m].answer = "failed")
    /\ billed' = billed \ {m}
    /\ IF At(m, "blocked") THEN Move(m, "unbilled") ELSE UNCHANGED request
    /\ UNCHANGED <<channel, row, command, relay, fate, handler>>
Unbill(m) ==
    /\ At(m, "blocked")
    /\ billed' = billed \ {m}
    /\ Move(m, "unbilled")
    /\ UNCHANGED <<channel, row, command, relay, fate, handler>>

\* Both rows are saved at once, but the command's new status violates the
\* table's CHECK constraint: the message fails and the command stays "sending".
SaveBlocked(m) ==
    /\ At(m, "unbilled")
    /\ row' = [row EXCEPT ![m] = [request[m].copy EXCEPT !.status = "failed"]]
    /\ Finish(m, "ended")
    /\ UNCHANGED <<channel, command, billed, relay, fate, handler>>

\* The post to the integration service, which it may never reach.
Post(m) ==
    /\ At(m, "dispatching")
    /\ \E pc \in {"called", "idle"} : relay' = [relay EXCEPT ![m].pc = pc]
    /\ Move(m, "waiting")
    /\ UNCHANGED <<channel, row, command, billed, fate, handler>>

Reply(m) ==
    /\ At(m, "waiting") /\ relay[m].pc = "reported"
    /\ request' = [request EXCEPT ![m].pc = "answered",
                                  ![m].answer = AnswerStatus(relay[m].accepted)]
    /\ UNCHANGED <<channel, row, command, billed, relay, fate, handler>>

\* An answer that is not ok or cannot be read counts as "failed", whatever the
\* integration service has done by then and goes on to do.
ReplyUnusable(m) ==
    /\ At(m, "waiting")
    /\ request' = [request EXCEPT ![m].pc = "answered", ![m].answer = AnswerStatus(FALSE)]
    /\ UNCHANGED <<channel, row, command, billed, relay, fate, handler>>

\* A transport error or a timeout between core and the integration service,
\* which goes on with its part.
LoseReply(m) ==
    /\ At(m, "waiting")
    /\ request' = [request EXCEPT ![m].pc = "answered", ![m].answer = UnknownStatus]
    /\ UNCHANGED <<channel, row, command, billed, relay, fate, handler>>

SaveMessage(m) ==
    /\ At(m, "answered")
    /\ row' = [row EXCEPT ![m] =
                 [status |-> request[m].answer,
                  ext |-> request[m].copy.ext \/ request[m].answer = "sent"]]
    /\ Move(m, "saved")
    /\ UNCHANGED <<channel, command, billed, relay, fate, handler>>

SaveCommand(m) ==
    /\ At(m, "saved")
    /\ command' = [command EXCEPT ![m] = request[m].answer]
    /\ Finish(m, "ended")
    /\ UNCHANGED <<channel, row, billed, relay, fate, handler>>

\* The process dies, or a statement fails and the call throws. The outbound
\* worker looks for commands still "queued", which no transaction leaves behind.
Die(m) ==
    /\ request[m].pc \notin {"new", "ended", "dead"}
    /\ Finish(m, "dead")
    /\ UNCHANGED <<channel, row, command, billed, relay, fate, handler>>
-----------------------------------------------------------------------------
\* The provider's client: the provider has the message when it says so, and may
\* have it when its answer is an error, a timeout or unreadable.
Contact(m) ==
    /\ relay[m].pc = "called"
    /\ \E seen, accepted \in BOOLEAN :
          /\ accepted => seen
          /\ fate' = [fate EXCEPT ![m] = IF seen THEN "taken" ELSE "unseen"]
          /\ relay' = [relay EXCEPT ![m].pc = "answered", ![m].accepted = accepted]
    /\ UNCHANGED <<channel, row, command, billed, request, handler>>

\* reportProviderStatus: core loads the row ...
ReportLoad(m) ==
    /\ relay[m].pc = "answered"
    /\ LET accepted == relay[m].accepted IN
       relay' = [relay EXCEPT
          ![m].pc = "reporting",
          ![m].write = Applied(row[m], AnswerStatus(accepted), accepted)]
    /\ UNCHANGED <<channel, row, command, billed, request, fate, handler>>

\* ... and saves it,
ReportSave(m) ==
    /\ relay[m].pc = "reporting"
    /\ row' = [row EXCEPT ![m] = relay[m].write]
    /\ relay' = [relay EXCEPT ![m].pc = "reported", ![m].write = Absent]
    /\ UNCHANGED <<channel, command, billed, request, fate, handler>>

\* or does not: the answer to the request is the same.
ReportFails(m) ==
    /\ relay[m].pc \in {"answered", "reporting"}
    /\ relay' = [relay EXCEPT ![m].pc = "reported", ![m].write = Absent]
    /\ UNCHANGED <<channel, row, command, billed, request, fate, handler>>

\* The provider gives up on a message it took.
ProviderDrops(m) ==
    /\ fate[m] = "taken"
    /\ fate' = [fate EXCEPT ![m] = "dropped"]
    /\ UNCHANGED <<channel, row, command, billed, request, relay, handler>>
-----------------------------------------------------------------------------
\* A callback about one message, found by its external id; until that is saved
\* the callback is refused. Callbacks come in any order and any number of times.
CallbackOfOne(h, m, status) ==
    /\ handler[h] = NoRows /\ row[m].ext
    /\ \/ fate[m] = "taken" /\ status \in Callbacks
       \/ fate[m] = "dropped" /\ status = "failed"
    /\ handler' = [handler EXCEPT ![h] = [k \in {m} |-> Applied(row[m], status, TRUE)]]
    /\ UNCHANGED <<channel, row, command, billed, request, relay, fate>>

\* updateProviderConversationMessageStatuses: a watermark is about every message
\* created up to it, handed to the provider or not: the customer read older ones.
CallbackUpTo(h, last, status) ==
    /\ handler[h] = NoRows /\ row[last] # Absent
    /\ LET matching == {m \in 1..last : ShouldApply(row[m].status, status)} IN
       /\ matching # {}
       /\ handler' = [handler EXCEPT ![h] =
                        [m \in matching |-> [row[m] EXCEPT !.status = status]]]
    /\ UNCHANGED <<channel, row, command, billed, request, relay, fate>>

SaveStatuses(h) ==
    /\ handler[h] # NoRows
    /\ row' = [m \in Messages |-> IF m \in DOMAIN handler[h] THEN handler[h][m] ELSE row[m]]
    /\ handler' = [handler EXCEPT ![h] = NoRows]
    /\ UNCHANGED <<channel, command, billed, request, relay, fate>>

\* disconnectChannel; a channel whose webhook is found registered is active again.
Disconnect ==
    /\ channel = "ready" /\ channel' = "disabled"
    /\ UNCHANGED <<row, command, billed, request, relay, fate, handler>>
Reconnect ==
    /\ channel = "disabled" /\ channel' = "ready"
    /\ UNCHANGED <<row, command, billed, request, relay, fate, handler>>
-----------------------------------------------------------------------------
RequestStep(m) ==
    \/ Load(m) \/ Unbill(m) \/ SaveBlocked(m) \/ Post(m)
    \/ Reply(m) \/ ReplyUnusable(m) \/ LoseReply(m) \/ SaveMessage(m) \/ SaveCommand(m)

RelayStep(m) == Contact(m) \/ ReportLoad(m) \/ ReportSave(m) \/ ReportFails(m)

Callback(h) ==
    \/ \E m \in Messages, s \in Callbacks \cup {"failed"} : CallbackOfOne(h, m, s)
    \/ \E m \in Messages, s \in Callbacks \ {"sent"} : CallbackUpTo(h, m, s)
    \/ SaveStatuses(h)

Next ==
    \/ \E m \in Messages :
          \/ Accept(m) \/ RequestStep(m) \/ Die(m)
          \/ RelayStep(m) \/ ProviderDrops(m)
    \/ \E h \in Handlers : Callback(h)
    \/ Disconnect \/ Reconnect

Spec == Init /\ [][Next]_vars

\* A call that is not cut off goes on; one that waits is answered or gives up.
FairSpec == Spec /\ \A m \in Messages : WF_vars(RequestStep(m))
-----------------------------------------------------------------------------
\* Every variable has its type.
TypeOK ==
    /\ channel \in {"ready", "disabled"}
    /\ row \in [Messages -> Row]
    /\ command \in [Messages -> {"none", "sending"} \cup Answers]
    /\ billed \subseteq Messages
    /\ request \in [Messages -> Request]
    /\ relay \in [Messages -> Relay]
    /\ fate \in [Messages -> {"unseen", "taken", "dropped"}]
    /\ handler \in [Handlers -> Pending]

\* A message the provider took is one the tenant pays for: a usage row is only
\* written off for a message no request, however late, hands to the provider.
TakenIsBilled == \A m \in Messages : fate[m] # "unseen" => m \in billed

\* The provider is never given more messages than the period's limit, although
\* the usage of blocked messages is handed back while others are in flight.
TakenWithinQuota == Cardinality({m \in Messages : fate[m] # "unseen"}) <= Limit

\* A command that says "sent" is about a message the provider accepted, and the
\* message says so too, whatever stale copies were saved over it since: it says
\* "failed" only if the provider gave the message up.
SentMeansAccepted ==
    \A m \in Messages : command[m] = "sent" =>
       \/ fate[m] = "taken" /\ row[m].status \in {"sent", "delivered", "read"}
       \/ fate[m] = "dropped" /\ row[m].status \in {"sent", "delivered", "read", "failed"}

\* A message does not stay "sending", unless the call that sends it is cut off.
MessageLeavesSending ==
    \A m \in Messages : row[m].status = "sending" ~> (row[m].status # "sending" \/ At(m, "dead"))
=============================================================================
