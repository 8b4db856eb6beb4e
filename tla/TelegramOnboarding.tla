------------------------- MODULE TelegramOnboarding -------------------------
(***************************************************************************)
(* Telegram channels of core: bots created through the manager bot         *)
(* (telegram-managed-bot.service.ts) and bots connected by their token     *)
(* (tenant.service.ts), with what Telegram itself remembers of each bot's  *)
(* webhook. A person opens a setup link, starts the manager bot with it    *)
(* and creates a bot; Telegram reports the bot, twice and again after an   *)
(* error; core binds it to the request, writes the channel, registers the  *)
(* webhook and marks the request connected.                                *)
(*                                                                         *)
(* No handler locks a row. It loads, awaits and saves the whole loaded     *)
(* record; only the unique indexes of the two tables refuse a save. One    *)
(* member of staff opens links in a workspace, so a workspace stands for   *)
(* its (workspace, user) pair. Setups (created callbacks and connections   *)
(* by token) are numbered: setup n generates webhook secret n and, when    *)
(* it inserts a channel, channel n.                                        *)
(***************************************************************************)
EXTENDS Integers, FiniteSets

CONSTANTS
    Workspaces, Bots,
    Accounts,       \* Telegram accounts of people
    Creator,        \* [Bots -> Accounts]: who creates the bot in Telegram
    Console,        \* channel operations staff use in this instance
    Calls,          \* handlers core runs at once
    MaxRequests,    \* bound: setup links opened
    MaxSetups,      \* bound: created callbacks and connections by token
    MaxOperations,  \* bound: tests and removals of channels
    MaxCrashes,     \* bound: handlers cut off
    NoOne           \* no workspace, account or bot

ASSUME TelegramAssumption ==
    /\ Creator \in [Bots -> Accounts]
    /\ Console \subseteq {"connect", "test", "disconnect", "delete"}
    /\ MaxRequests \in Nat /\ MaxSetups \in Nat
    /\ MaxOperations \in Nat /\ MaxCrashes \in Nat
    /\ NoOne \notin Workspaces \cup Accounts \cup Bots

Requests == 1..MaxRequests
Channels == 1..MaxSetups

VARIABLES
    request,        \* the onboarding requests
    lapsed,         \* requests whose state_expires_at has passed
    recent,         \* pairs <<r, s>>: request r was updated after s
    channel,        \* the Telegram channels of all workspaces
    hook,           \* per bot: channel and secret registered at Telegram
    setups,         \* setups begun
    operations,     \* tests and removals begun
    call,           \* per handler: its step and what it has loaded
    crashes,        \* handlers cut off
    disturbed       \* bots two handlers worked on at once, or with a channel
                    \* that lost its provider_account_id to a failed test

vars == <<request, lapsed, recent, channel, hook, setups, operations, call, crashes, disturbed>>
-----------------------------------------------------------------------------
\* A request before the account started it is "pending".
Open == {"pending", "awaiting", "provisioning"}
Statuses == Open \cup {"absent", "connected", "failed", "expired", "cancelled"}
Request == [status : Statuses, owner : Workspaces \cup {NoOne}, account : Accounts \cup {NoOne},
            bot : Bots \cup {NoOne}, channel : Channels \cup {0}]
NoRequest == [status |-> "absent", owner |-> NoOne, account |-> NoOne, bot |-> NoOne,
              channel |-> 0]

\* A channel by status and connection_status: "registering" (pending,
\* webhook_registering), "verified" (pending, credentials_verified), "connected"
\* (active, connected), "error" (pending, error), "disabled" (inactive, disabled).
\* "linked": provider_account_id holds the bot, else NULL.
States == {"absent", "registering", "verified", "connected", "error", "disabled"}
Channel == [state : States, bot : Bots \cup {NoOne}, linked : BOOLEAN,
            owner : Workspaces \cup {NoOne}, secret : Channels \cup {0}]
NoChannel == [state |-> "absent", bot |-> NoOne, linked |-> FALSE, owner |-> NoOne, secret |-> 0]
Unset == [channel |-> 0, secret |-> 0]

Steps == {"idle", "starting", "started", "created", "binding", "checking",
          "writing", "hooking", "activating", "marking", "finishing", "failing", "cancelling",
          "registering", "completing", "testing", "retrying", "tested",
          "disconnecting", "disconnected", "deleting", "deleted"}
Call == [step : Steps, r : Requests \cup {0}, copy : Request, i : Channels \cup {0},
         chan : Channel, who : Accounts \cup {NoOne},
         bot : Bots \cup {NoOne}, n : 0..MaxSetups]
Idle == [step |-> "idle", r |-> 0, copy |-> NoRequest, i |-> 0, chan |-> NoChannel,
         who |-> NoOne, bot |-> NoOne, n |-> 0]

Init ==
    /\ request = [r \in Requests |-> NoRequest]
    /\ lapsed = {}
    /\ recent = {}
    /\ channel = [i \in Channels |-> NoChannel]
    /\ hook = [b \in Bots |-> Unset]
    /\ setups = 0
    /\ operations = 0
    /\ call = [c \in Calls |-> Idle]
    /\ crashes = 0
    /\ disturbed = {}
-----------------------------------------------------------------------------
\* The unique indexes of the requests: a bot in one request of any status, one
\* open request per requester, one started request per account.
Unique(q) ==
    \A r, s \in Requests : r # s =>
        /\ q[r].bot # NoOne => q[r].bot # q[s].bot
        /\ {q[r].status, q[s].status} \subseteq Open => q[r].owner # q[s].owner
        /\ ({q[r].status, q[s].status} \subseteq Open \ {"pending"} /\ q[r].account # NoOne)
                => q[r].account # q[s].account

Saved(r, q) == [request EXCEPT ![r] = q]
Accepted(r, q) == Unique(Saved(r, q))
Updated(r) == {p \in recent : r \notin {p[1], p[2]}} \cup ({r} \X (Requests \ {r}))
SaveRequest(r, q) ==
    /\ request' = Saved(r, q)
    /\ recent' = Updated(r)

\* A telegram channel counts for the unique index, and for
\* assertTelegramBotAvailable, unless it is disconnected.
Live(ch) == ch.linked /\ ch.state \notin {"absent", "disabled"}
AvailableToAll(b, i) == TRUE
Available(b, i) == \A j \in Channels \ {i} : Live(channel[j]) => channel[j].bot # b
Storable(i, ch) == Live(ch) => Available(ch.bot, i)
SaveChannel(i, ch) == channel' = [channel EXCEPT ![i] = ch]

\* expireRequests: provisioning is not covered.
Expired == [r \in Requests |->
    IF request[r].status \in {"pending", "awaiting"} /\ r \in lapsed
    THEN [request[r] EXCEPT !.status = "expired"] ELSE request[r]]

At(c, step) == call[c].step = step
Go(c, step) == call' = [call EXCEPT ![c].step = step]
End(c) == call' = [call EXCEPT ![c] = Idle]
Begin(c, step, k) ==
    /\ At(c, "idle")
    /\ call' = [call EXCEPT ![c] = [k EXCEPT !.step = step]]
NextSetup == setups < MaxSetups /\ setups' = setups + 1
-----------------------------------------------------------------------------
\* initiate: the requester's open requests give way to a new one.
OpenLink ==
    /\ \E r \in Requests, w \in Workspaces :
        /\ request[r] = NoRequest /\ \A s \in 1..r - 1 : request[s] # NoRequest
        /\ request' = [s \in Requests |->
              IF s = r THEN [NoRequest EXCEPT !.status = "pending", !.owner = w]
              ELSE IF Expired[s].owner = w /\ Expired[s].status \in Open
                   THEN [request[s] EXCEPT !.status = "cancelled"] ELSE Expired[s]]
        /\ recent' = Updated(r)
    /\ UNCHANGED <<lapsed, channel, hook, setups, operations, call, crashes>>

\* getRequestStatus.
ReadStatus ==
    /\ request' = Expired
    /\ UNCHANGED <<lapsed, recent, channel, hook, setups, operations, call, crashes>>

\* handleManagerStart: an account follows the link of request r.
BeginStart(c) ==
    /\ \E a \in Accounts, r \in Requests :
        Begin(c, "starting", [Idle EXCEPT !.who = a, !.r = r])
    /\ request' = Expired
    /\ UNCHANGED <<lapsed, recent, channel, hook, setups, operations, crashes>>

FindStart(c) == LET r == call[c].r IN
    /\ At(c, "starting")
    /\ IF request[r].status = "pending" /\ r \notin lapsed
       THEN call' = [call EXCEPT ![c].step = "started", ![c].copy = request[r]]
       ELSE End(c)
    /\ UNCHANGED <<request, lapsed, recent, channel, hook, setups, operations, crashes>>

\* A save the indexes refuse changes nothing, and the handler throws.
SaveStart(c) ==
    LET r == call[c].r
        q == [call[c].copy EXCEPT !.account = call[c].who, !.status = "awaiting"] IN
    /\ At(c, "started")
    /\ IF Accepted(r, q) THEN SaveRequest(r, q)
       ELSE UNCHANGED <<request, recent>>
    /\ End(c)
    /\ UNCHANGED <<lapsed, channel, hook, setups, operations, crashes>>

\* cancel.
Cancel(c) ==
    /\ \E r \in Requests :
        /\ request[r].status \in Open
        /\ Begin(c, "cancelling", [Idle EXCEPT !.r = r, !.copy = request[r]])
    /\ UNCHANGED <<request, lapsed, recent, channel, hook, setups, operations, crashes>>

\* The save that ends cancel, and failRequest.
SettledCopy(c) ==
    [call[c].copy EXCEPT !.status = IF At(c, "failing") THEN "failed" ELSE "cancelled"]
Settle(c) == LET r == call[c].r IN
    /\ At(c, "cancelling") \/ At(c, "failing")
    /\ IF Accepted(r, SettledCopy(c)) THEN SaveRequest(r, SettledCopy(c))
       ELSE UNCHANGED <<request, recent>>
    /\ End(c)
    /\ UNCHANGED <<lapsed, channel, hook, setups, operations, crashes>>
-----------------------------------------------------------------------------
\* handleManagedBotCreated: Telegram reports the bot once the manager bot showed
\* the account its button, and any number of times after that.
BeginCreated(c) ==
    /\ NextSetup
    /\ \E b \in Bots :
        /\ \E r \in Requests : request[r].account = Creator[b]
        /\ Begin(c, "created", [Idle EXCEPT !.bot = b, !.n = setups + 1])
    /\ request' = Expired
    /\ UNCHANGED <<lapsed, recent, channel, hook, operations, crashes>>

\* The account's requests; the one updated last counts.
Matching(a) == {r \in Requests :
    request[r].account = a /\ request[r].status \in {"awaiting", "provisioning", "connected"}}
Latest(r, found) == \A s \in found \ {r} : <<r, s>> \in recent

\* A report that finds the setup done, or under way for this bot, ends here.
HandledWhileSettingUp(q, b) == q.status = "provisioning" /\ q.bot = b
Handled(q, b) ==
    \/ q.status = "connected" /\ q.channel # 0
    \/ q.status # "awaiting" /\ q.bot = b

Late(r) == r \in lapsed /\ request[r].status # "connected"
Load(c, step, r) ==
    call' = [call EXCEPT ![c].step = step, ![c].r = r, ![c].copy = request[r]]
FindCreated(c) == LET b == call[c].bot found == Matching(Creator[b]) IN
    /\ At(c, "created")
    /\ \/ found = {} /\ End(c)
       \/ \E r \in found :
            /\ Latest(r, found)
            /\ \/ Late(r) /\ Load(c, "failing", r)
               \/ ~Late(r) /\ Handled(request[r], b) /\ End(c)
               \/ ~Late(r) /\ ~Handled(request[r], b) /\ Load(c, "binding", r)
    /\ UNCHANGED <<request, lapsed, recent, channel, hook, setups, operations, crashes>>

Bind(c) ==
    LET r == call[c].r
        q == [call[c].copy EXCEPT !.status = "provisioning", !.bot = call[c].bot] IN
    /\ At(c, "binding")
    /\ IF Accepted(r, q)
       THEN /\ SaveRequest(r, q)
            /\ call' = [call EXCEPT ![c].step = "checking", ![c].copy = q]
       ELSE UNCHANGED <<request, recent>> /\ End(c)
    /\ UNCHANGED <<lapsed, channel, hook, setups, operations, crashes>>

\* provision: the plan, the bot, its token and its identity; any error fails
\* the request.
Check(c) ==
    /\ At(c, "checking")
    /\ \/ Available(call[c].bot, call[c].copy.channel) /\ Go(c, "writing")
       \/ Go(c, "failing")
    /\ UNCHANGED <<request, lapsed, recent, channel, hook, setups, operations, crashes>>

\* provision, the transaction: the bot's channel is written, or taken over with
\* a new secret, and the request is saved with it.
Existing(b) == {i \in Channels : channel[i].state # "absent" /\ channel[i].linked
                                 /\ channel[i].bot = b}
Chosen(b, n) == IF Existing(b) = {} THEN {n} ELSE Existing(b)
Foreign(ch, w) == ch.state # "absent" /\ ch.owner # w
WriteChannel(c) ==
    LET k == call[c] IN
    /\ At(c, "writing")
    /\ \E i \in Chosen(k.bot, k.n) :
        LET ch == [state |-> "registering", bot |-> k.bot, linked |-> TRUE,
                   owner |-> k.copy.owner, secret |-> k.n]
            q == [k.copy EXCEPT !.channel = i] IN
        IF Foreign(channel[i], k.copy.owner)
        THEN Go(c, "failing") /\ UNCHANGED <<request, recent, channel>>
        ELSE IF Storable(i, ch) /\ Accepted(k.r, q)
        THEN /\ SaveChannel(i, ch) /\ SaveRequest(k.r, q)
             /\ call' = [call EXCEPT ![c].step = "hooking", ![c].copy = q, ![c].i = i,
                                     ![c].chan = ch]
        ELSE /\ call' = [call EXCEPT ![c].step = "failing",
                            ![c].copy = IF Storable(i, ch) THEN q ELSE k.copy]
             /\ UNCHANGED <<request, recent, channel>>
    /\ UNCHANGED <<lapsed, hook, setups, operations, crashes>>

\* setWebhook reaches Telegram or not, and its answer comes back or not.
Registered(c) == [hook EXCEPT ![call[c].chan.bot] = [channel |-> call[c].i,
                                                     secret |-> call[c].chan.secret]]
SetHook(c) ==
    /\ At(c, "hooking")
    /\ \/ hook' = Registered(c) /\ \E s \in {"activating", "marking"} : Go(c, s)
       \/ UNCHANGED hook /\ Go(c, "marking")
    /\ UNCHANGED <<request, lapsed, recent, channel, setups, operations, crashes>>

Activate(c) == LET ch == [call[c].chan EXCEPT !.state = "connected"] IN
    /\ At(c, "activating")
    /\ IF Storable(call[c].i, ch) THEN SaveChannel(call[c].i, ch) /\ Go(c, "finishing")
       ELSE UNCHANGED channel /\ Go(c, "marking")
    /\ UNCHANGED <<request, lapsed, recent, hook, setups, operations, crashes>>

MarkError(c) == LET ch == [call[c].chan EXCEPT !.state = "error"] IN
    /\ At(c, "marking")
    /\ IF Storable(call[c].i, ch) THEN SaveChannel(call[c].i, ch) ELSE UNCHANGED channel
    /\ Go(c, "failing")
    /\ UNCHANGED <<request, lapsed, recent, hook, setups, operations, crashes>>

FinishCopyReloaded(c) == [request[call[c].r] EXCEPT !.status = "connected"]
FinishCopyProvisioning(c) == call[c].copy
FinishCopy(c) == [call[c].copy EXCEPT !.status = "connected"]
Finish(c) == LET r == call[c].r IN
    /\ At(c, "finishing")
    /\ IF Accepted(r, FinishCopy(c)) THEN SaveRequest(r, FinishCopy(c)) /\ End(c)
       ELSE UNCHANGED <<request, recent>> /\ Go(c, "failing")
    /\ UNCHANGED <<lapsed, channel, hook, setups, operations, crashes>>
-----------------------------------------------------------------------------
\* createChannel with a bot's token: validated with Telegram, then inserted, and
\* registered after that if Telegram knew the bot.
Connect(c) ==
    /\ "connect" \in Console /\ NextSetup
    /\ \E w \in Workspaces, b \in Bots, valid \in BOOLEAN :
        LET i == setups + 1
            ch == [state |-> IF valid THEN "verified" ELSE "error", bot |-> b,
                   linked |-> valid, owner |-> w, secret |-> i] IN
        /\ valid => Available(b, 0) /\ \A j \in Existing(b) : channel[j].owner # w
        /\ SaveChannel(i, ch)
        /\ IF valid THEN Begin(c, "registering", [Idle EXCEPT !.i = i, !.chan = ch])
           ELSE UNCHANGED call
    /\ UNCHANGED <<request, lapsed, recent, hook, operations, crashes>>

\* registerTelegramWebhook, for a new channel: no answer counts as an error.
Register(c) ==
    /\ At(c, "registering")
    /\ \E state \in {"connected", "error"}, reached \in BOOLEAN :
        /\ state = "connected" => reached
        /\ hook' = IF reached THEN Registered(c) ELSE hook
        /\ call' = [call EXCEPT ![c].step = "completing", ![c].chan.state = state]
    /\ UNCHANGED <<request, lapsed, recent, channel, setups, operations, crashes>>

\* completeTelegramWebhookRegistration: the outcome goes to the latest row, and
\* to a new row of that id when it is gone.
Complete(c) ==
    LET k == call[c]
        ch == IF channel[k.i] = NoChannel THEN k.chan
              ELSE [channel[k.i] EXCEPT !.state = k.chan.state] IN
    /\ At(c, "completing")
    /\ IF Storable(k.i, ch) THEN SaveChannel(k.i, ch) ELSE UNCHANGED channel
    /\ End(c)
    /\ UNCHANGED <<request, lapsed, recent, hook, setups, operations, crashes>>

BeginOn(c, operation, step) ==
    /\ operation \in Console /\ operations < MaxOperations
    /\ operations' = operations + 1
    /\ \E i \in Channels :
        /\ channel[i] # NoChannel
        /\ Begin(c, step, [Idle EXCEPT !.i = i, !.chan = channel[i]])
    /\ UNCHANGED <<request, lapsed, recent, channel, hook, setups, crashes>>
BeginTest(c) == BeginOn(c, "test", "testing")
BeginDisconnect(c) == BeginOn(c, "disconnect", "disconnecting")
BeginDelete(c) == BeginOn(c, "delete", "deleting")

\* testChannelConnection: a failed validation clears provider_account_id and
\* leaves a connected channel connected; a connected channel is not registered
\* again, any other keeps its secret.
Test(c) == LET ch == call[c].chan IN
    /\ At(c, "testing")
    /\ \/ call' = [call EXCEPT ![c].step = "tested", ![c].chan =
             [ch EXCEPT !.linked = FALSE,
                        !.state = IF ch.state = "connected" THEN "connected" ELSE "error"]]
       \/ /\ Available(ch.bot, call[c].i)
          /\ call' = [call EXCEPT
                 ![c].step = IF ch.state = "connected" THEN "tested" ELSE "retrying",
                 ![c].chan.linked = TRUE]
       \/ ~Available(ch.bot, call[c].i) /\ End(c)
    /\ UNCHANGED <<request, lapsed, recent, channel, hook, setups, operations, crashes>>

\* An answer that does not come throws, and nothing is saved.
Retry(c) ==
    /\ At(c, "retrying")
    /\ \E reached \in BOOLEAN :
        /\ hook' = IF reached THEN Registered(c) ELSE hook
        /\ \/ \E state \in {"connected", "error"} :
                /\ state = "connected" => reached
                /\ call' = [call EXCEPT ![c].step = "tested", ![c].chan.state = state]
           \/ End(c)
    /\ UNCHANGED <<request, lapsed, recent, channel, setups, operations, crashes>>

SaveTest(c) ==
    /\ At(c, "tested")
    /\ IF Storable(call[c].i, call[c].chan) THEN SaveChannel(call[c].i, call[c].chan)
       ELSE UNCHANGED channel
    /\ End(c)
    /\ UNCHANGED <<request, lapsed, recent, hook, setups, operations, crashes>>

\* cleanupProviderWebhookOnRemove: best effort, by the bot's token.
CleanUp(c) ==
    /\ \/ At(c, "disconnecting") /\ Go(c, "disconnected")
       \/ At(c, "deleting") /\ Go(c, "deleted")
    /\ \/ hook' = [hook EXCEPT ![call[c].chan.bot] = Unset]
       \/ UNCHANGED hook
    /\ UNCHANGED <<request, lapsed, recent, channel, setups, operations, crashes>>

Disconnect(c) ==
    /\ At(c, "disconnected")
    /\ SaveChannel(call[c].i, [call[c].chan EXCEPT !.state = "disabled"])
    /\ End(c)
    /\ UNCHANGED <<request, lapsed, recent, hook, setups, operations, crashes>>

Delete(c) ==
    /\ At(c, "deleted")
    /\ SaveChannel(call[c].i, NoChannel)
    /\ End(c)
    /\ UNCHANGED <<request, lapsed, recent, hook, setups, operations, crashes>>
-----------------------------------------------------------------------------
Lapse ==
    /\ \E r \in Requests : request[r] # NoRequest /\ lapsed' = lapsed \cup {r}
    /\ UNCHANGED <<request, recent, channel, hook, setups, operations, call, crashes>>

\* Core stops in the middle of a handler.
Crash(c) ==
    /\ crashes < MaxCrashes /\ ~At(c, "idle")
    /\ crashes' = crashes + 1
    /\ End(c)
    /\ UNCHANGED <<request, lapsed, recent, channel, hook, setups, operations>>

\* What a handler does once it has begun.
Continue(c) ==
    \/ FindStart(c) \/ SaveStart(c) \/ Settle(c)
    \/ FindCreated(c) \/ Bind(c) \/ Check(c) \/ WriteChannel(c) \/ SetHook(c)
    \/ Activate(c) \/ MarkError(c) \/ Finish(c)
    \/ Register(c) \/ Complete(c)
    \/ Test(c) \/ Retry(c) \/ SaveTest(c) \/ CleanUp(c) \/ Disconnect(c) \/ Delete(c)

Enter(c) ==
    \/ BeginStart(c) \/ Cancel(c) \/ BeginCreated(c) \/ Connect(c)
    \/ BeginTest(c) \/ BeginDisconnect(c) \/ BeginDelete(c)

\* The channel a handler has loaded or written and will save, is its bot's.
WorksOn(c, b) ==
    /\ call[c].chan.bot = b
    /\ ~At(c, "finishing") /\ ~At(c, "failing")
Disturbed ==
    disturbed \cup {b \in Bots :
        \/ \E c, d \in Calls : c # d /\ WorksOn(c, b)' /\ WorksOn(d, b)'
        \/ \E i \in Channels : channel'[i].bot = b /\ ~channel'[i].linked
                                /\ channel'[i].state = "connected"}

Next ==
    /\ \/ ReadStatus \/ Lapse \/ OpenLink
       \/ \E c \in Calls : Enter(c) \/ Continue(c) \/ Crash(c)
    /\ disturbed' = Disturbed

Spec == Init /\ [][Next]_vars
-----------------------------------------------------------------------------
\* The types of the variables.
TypeOK ==
    /\ request \in [Requests -> Request]
    /\ lapsed \subseteq Requests
    /\ recent \subseteq Requests \X Requests
    /\ channel \in [Channels -> Channel]
    /\ hook \in [Bots -> [channel : Channels \cup {0}, secret : Channels \cup {0}]]
    /\ setups \in 0..MaxSetups
    /\ operations \in 0..MaxOperations
    /\ call \in [Calls -> Call]
    /\ crashes \in 0..MaxCrashes
    /\ disturbed \subseteq Bots

\* Telegram sends a connected channel's updates to that channel, with the secret
\* the channel checks, or nowhere: no setup, test or removal, whatever failed in
\* it, leaves the bot's webhook to another channel or with another secret, as
\* long as no two handlers worked on the bot at once and no test took its id.
HookLeadsToItsChannel ==
    \A i \in Channels :
        (/\ channel[i].state = "connected" /\ channel[i].bot \notin disturbed
         /\ \A c \in Calls : ~WorksOn(c, channel[i].bot))
        => hook[channel[i].bot] \in {Unset, [channel |-> i, secret |-> channel[i].secret]}

\* Whatever stale copies were saved over it, a connected request names a bot its
\* own account created and a channel that, while it exists, is that bot's in
\* the requester's workspace.
RequestTellsTheTruth ==
    \A r \in Requests : request[r].status = "connected" =>
        LET q == request[r] IN
        /\ q.bot # NoOne /\ q.account = Creator[q.bot] /\ q.channel # 0
        /\ channel[q.channel] # NoChannel =>
               channel[q.channel].bot = q.bot /\ channel[q.channel].owner = q.owner

\* A finished setup is undone only by the save of a handler that had loaded it
\* unfinished: Telegram's second report of a bot, a late report of another and
\* an expiry leave it connected.
ConnectedIsLeftByStaleCopiesOnly ==
    [][\A r \in Requests :
        request[r].status = "connected" /\ request'[r].status # "connected" =>
            \E c \in Calls : /\ call[c].r = r /\ call'[c] # call[c]
                            /\ call[c].copy.status # "connected"]_vars

\* expireRequests passes a provisioning request over, so somebody else has to end it:
\* a handler that loaded it is still at work on it, unless core stopped in between.
ProvisioningIsAttended ==
    \A r \in Requests : (request[r].status = "provisioning" /\ crashes = 0) =>
        \E c \in Calls : call[c].r = r /\ call[c].copy.status # "awaiting"
=============================================================================
