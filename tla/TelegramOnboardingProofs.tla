----------------------- MODULE TelegramOnboardingProofs -----------------------
(***************************************************************************)
(* Theorems of the Telegram onboarding, for any workspaces, bots, accounts *)
(* and handlers, and any number of links, setups, tests and crashes.       *)
(*                                                                         *)
(* The first part says once what each step makes of its handler's record   *)
(* (the Acts lemmas), and which of the shared records each group of steps  *)
(* leaves alone (Frames). On it stand the types and four layers of the     *)
(* inductive invariant:                                                    *)
(*   Typed     types, and a handler has loaded what its step works on      *)
(*   Copies    what a handler's copy of its request still says of it,      *)
(*             whatever became of the request meanwhile                    *)
(*   Claims    rows, handlers and finished requests agree on the bot and   *)
(*             the workspace a channel's id stands for, and nobody knows   *)
(*             an id that a report's handler may still insert              *)
(*   Attended  a request in provisioning has a handler at work on it, with *)
(*             the same bot, and the unique indexes keep the others away   *)
(*   Hooked    the handler that alone works on a bot's channel has the row *)
(*             as it is stored, and Telegram as it left it                 *)
(***************************************************************************)
EXTENDS TelegramOnboarding, TLAPS

USE TelegramAssumption

\* What a handler carries at each step: a request, a bot and its own number, a
\* channel.
ForRequest == {"starting", "started", "binding", "checking", "writing", "hooking", "activating",
               "marking", "finishing", "failing", "cancelling"}
ForBot == {"created", "binding", "checking", "writing"}
Provisioning == {"hooking", "activating", "marking", "finishing"}
ForChannel == Provisioning \cup {"registering", "completing", "testing", "retrying", "tested",
                                 "disconnecting", "disconnected", "deleting", "deleted"}
Shaped(k) ==
    /\ k.step \in ForRequest => k.r \in Requests
    /\ k.step \in ForBot => k.bot \in Bots /\ k.n \in 1..setups
    /\ k.step \in ForChannel => k.i \in Channels
Typed == TypeOK /\ \A c \in Calls : Shaped(call[c])

HookType == [Bots -> [channel : Channels \cup {0}, secret : Channels \cup {0}]]

\* The steps of a handler by what they write besides its own record: nothing,
\* Telegram's webhook, the expired requests, its request, its channel's row.
Looks(c) ==
    \/ Cancel(c) \/ FindStart(c) \/ FindCreated(c) \/ Check(c) \/ Test(c)
    \/ BeginTest(c) \/ BeginDisconnect(c) \/ BeginDelete(c) \/ Crash(c)
Asks(c) == SetHook(c) \/ Register(c) \/ Retry(c) \/ CleanUp(c)
Expires(c) == BeginStart(c) \/ BeginCreated(c)
Answers(c) == SaveStart(c) \/ Settle(c) \/ Bind(c) \/ Finish(c)
Stores(c) ==
    Activate(c) \/ MarkError(c) \/ Complete(c) \/ SaveTest(c) \/ Disconnect(c) \/ Delete(c)

\* The steps after which the handler has ended.
Closes(c) ==
    \/ SaveStart(c) \/ Settle(c) \/ Complete(c) \/ SaveTest(c) \/ Disconnect(c) \/ Delete(c)
    \/ Crash(c)

\* What a step makes of its handler's record, field by field: it leaves the other
\* handlers alone, and of its own record it changes the step only, the request
\* and its copy, or the copy of the channel's row.
Others(c) == call' = [call EXCEPT ![c] = call'[c]]
Is(k, step, r, copy, i, chan, bot, n) ==
    /\ k \in Call /\ k.step = step /\ k.r = r /\ k.copy = copy
    /\ k.i = i /\ k.chan = chan /\ k.bot = bot /\ k.n = n
Becomes(c, step, r, copy, i, chan, bot, n) == Is(call'[c], step, r, copy, i, chan, bot, n)
Ends(c) == Becomes(c, "idle", 0, NoRequest, 0, NoChannel, NoOne, 0)
Holds(c, s, r, q) == Becomes(c, s, r, q, call[c].i, call[c].chan, call[c].bot, call[c].n)
Takes(c, s, ch) ==
    Becomes(c, s, call[c].r, call[c].copy, call[c].i, ch, call[c].bot, call[c].n)
Goes(c, s) == Takes(c, s, call[c].chan)

\* The copies the steps make.
Bound(c) == [call[c].copy EXCEPT !.status = "provisioning", !.bot = call[c].bot]
Named(c, i) == [call[c].copy EXCEPT !.channel = i]
Provisioned(c, i) == [state |-> "registering", bot |-> call[c].bot, linked |-> TRUE,
                      owner |-> call[c].copy.owner, secret |-> call[c].n]
Made(w, b, valid) == [state |-> IF valid THEN "verified" ELSE "error", bot |-> b,
                      linked |-> valid, owner |-> w, secret |-> setups + 1]
Cleared(ch) == [ch EXCEPT !.linked = FALSE,
                          !.state = IF ch.state = "connected" THEN "connected" ELSE "error"]
-----------------------------------------------------------------------------
\* The records the steps start from.
LEMMA IdleTyped == Idle \in Call /\ NoRequest \in Request /\ NoChannel \in Channel
BY DEF Idle, Call, Steps, NoRequest, Request, Statuses, Open, NoChannel, Channel, States

\* The parts of the invariant most steps need.
LEMMA Bounded ==
    Typed => /\ setups \in 0..MaxSetups /\ operations \in 0..MaxOperations
             /\ crashes \in 0..MaxCrashes /\ setups \in Nat /\ crashes \in Nat
             /\ setups <= setups /\ crashes <= crashes
             /\ request \in [Requests -> Request] /\ recent \subseteq Requests \X Requests
             /\ channel \in [Channels -> Channel] /\ hook \in HookType
             /\ \A c \in Calls : call[c] \in Call
BY DEF Typed, TypeOK, HookType

LEMMA ExpiredTyped == Typed => Expired \in [Requests -> Request]
BY DEF Typed, TypeOK, Expired, Request, Statuses, Open

\* What End, Go and the updates of a record come to, field by field.
LEMMA Ending == ASSUME Typed, NEW c \in Calls, End(c) PROVE Others(c) /\ Ends(c)
<1>1. Others(c) /\ call'[c] = Idle BY DEF End, Others, Typed, TypeOK
<1> QED BY <1>1, IdleTyped DEF Ends, Becomes, Is, Idle

LEMMA Updating ==
    ASSUME NEW k \in Call, NEW s \in Steps
    PROVE  /\ Is([k EXCEPT !.step = s], s, k.r, k.copy, k.i, k.chan, k.bot, k.n)
           /\ \A q \in Request :
                Is([k EXCEPT !.step = s, !.copy = q], s, k.r, q, k.i, k.chan, k.bot, k.n)
           /\ \A r \in Requests, q \in Request :
                Is([k EXCEPT !.step = s, !.r = r, !.copy = q], s, r, q, k.i, k.chan, k.bot, k.n)
           /\ \A ch \in Channel :
                Is([k EXCEPT !.step = s, !.chan = ch], s, k.r, k.copy, k.i, ch, k.bot, k.n)
BY DEF Is, Call

LEMMA Going ==
    ASSUME Typed, NEW c \in Calls, NEW s \in Steps, Go(c, s)
    PROVE  Others(c) /\ Goes(c, s)
<1>1. call[c] \in Call BY Bounded
<1>2. Others(c) /\ call'[c] = [call[c] EXCEPT !.step = s] BY DEF Go, Others, Typed, TypeOK
<1> QED BY <1>1, <1>2, Updating DEF Goes, Takes, Becomes

LEMMA Copying ==
    ASSUME Typed, NEW c \in Calls, NEW s \in Steps, NEW q \in Request,
           call' = [call EXCEPT ![c].step = s, ![c].copy = q]
    PROVE  Others(c) /\ Holds(c, s, call[c].r, q)
<1>1. call[c] \in Call BY Bounded
<1>2. Others(c) /\ call'[c] = [call[c] EXCEPT !.step = s, !.copy = q]
  BY DEF Others, Typed, TypeOK
<1>3. Is([call[c] EXCEPT !.step = s, !.copy = q],
         s, call[c].r, q, call[c].i, call[c].chan, call[c].bot, call[c].n)
  BY <1>1, Updating
<1> QED BY <1>2, <1>3 DEF Holds, Becomes

LEMMA Holding ==
    ASSUME Typed, NEW c \in Calls, NEW s \in Steps, NEW r \in Requests, NEW q \in Request,
           call' = [call EXCEPT ![c].step = s, ![c].r = r, ![c].copy = q]
    PROVE  Others(c) /\ Holds(c, s, r, q)
<1>1. call[c] \in Call BY Bounded
<1>2. Others(c) /\ call'[c] = [call[c] EXCEPT !.step = s, !.r = r, !.copy = q]
  BY DEF Others, Typed, TypeOK
<1>3. Is([call[c] EXCEPT !.step = s, !.r = r, !.copy = q],
         s, r, q, call[c].i, call[c].chan, call[c].bot, call[c].n)
  BY <1>1, Updating
<1> QED BY <1>2, <1>3 DEF Holds, Becomes

LEMMA Taking ==
    ASSUME Typed, NEW c \in Calls, NEW s \in Steps, NEW ch \in Channel,
           call' = [call EXCEPT ![c].step = s, ![c].chan = ch]
    PROVE  Others(c) /\ Takes(c, s, ch)
<1>1. call[c] \in Call BY Bounded
<1>2. Others(c) /\ call'[c] = [call[c] EXCEPT !.step = s, !.chan = ch]
  BY DEF Others, Typed, TypeOK
<1>3. Is([call[c] EXCEPT !.step = s, !.chan = ch],
         s, call[c].r, call[c].copy, call[c].i, ch, call[c].bot, call[c].n)
  BY <1>1, Updating
<1> QED BY <1>2, <1>3 DEF Takes, Becomes

LEMMA Restating ==
    ASSUME Typed, NEW c \in Calls, NEW s \in Steps, NEW x \in States,
           call' = [call EXCEPT ![c].step = s, ![c].chan.state = x]
    PROVE  Others(c) /\ Takes(c, s, [call[c].chan EXCEPT !.state = x])
<1>1. call[c] \in Call /\ call[c].chan \in Channel BY Bounded DEF Call
<1>2. [call[c].chan EXCEPT !.state = x] \in Channel BY <1>1 DEF Channel
<1>3. call' = [call EXCEPT ![c].step = s, ![c].chan = [call[c].chan EXCEPT !.state = x]]
  BY <1>1 DEF Typed, TypeOK, Call
<1> QED BY <1>2, <1>3, Taking

LEMMA Relinking ==
    ASSUME Typed, NEW c \in Calls, NEW s \in Steps,
           call' = [call EXCEPT ![c].step = s, ![c].chan.linked = TRUE]
    PROVE  Others(c) /\ Takes(c, s, [call[c].chan EXCEPT !.linked = TRUE])
<1>1. call[c] \in Call /\ call[c].chan \in Channel BY Bounded DEF Call
<1>2. [call[c].chan EXCEPT !.linked = TRUE] \in Channel BY <1>1 DEF Channel
<1>3. call' = [call EXCEPT ![c].step = s, ![c].chan = [call[c].chan EXCEPT !.linked = TRUE]]
  BY <1>1 DEF Typed, TypeOK, Call
<1> QED BY <1>2, <1>3, Taking

LEMMA Beginning ==
    ASSUME Typed, NEW c \in Calls, NEW s \in Steps, NEW k \in Call, Begin(c, s, k)
    PROVE  Others(c) /\ Becomes(c, s, k.r, k.copy, k.i, k.chan, k.bot, k.n)
<1>1. Others(c) /\ call'[c] = [k EXCEPT !.step = s] BY DEF Begin, Others, Typed, TypeOK
<1> QED BY <1>1 DEF Becomes, Is, Call
-----------------------------------------------------------------------------
\* What each handler's step makes of its record.
LEMMA BeginStartActs ==
    ASSUME Typed, NEW c \in Calls, BeginStart(c)
    PROVE  /\ Others(c)
           /\ \E r \in Requests : Becomes(c, "starting", r, NoRequest, 0, NoChannel, NoOne, 0)
<1>1. PICK a \in Accounts, r \in Requests : Begin(c, "starting", [Idle EXCEPT !.who = a, !.r = r])
  BY DEF BeginStart
<1>2. PICK k : k = [Idle EXCEPT !.who = a, !.r = r] OBVIOUS
<1>3. k \in Call /\ "starting" \in Steps BY <1>2, IdleTyped DEF Call, Steps
<1>4. Others(c) /\ Becomes(c, "starting", k.r, k.copy, k.i, k.chan, k.bot, k.n)
  BY <1>1, <1>2, <1>3, Beginning
<1>5. k.r = r /\ k.copy = NoRequest /\ k.i = 0 /\ k.chan = NoChannel /\ k.bot = NoOne /\ k.n = 0
  BY <1>2 DEF Idle
<1> QED BY <1>4, <1>5

LEMMA BeginCreatedActs ==
    ASSUME Typed, NEW c \in Calls, BeginCreated(c)
    PROVE  /\ Others(c)
           /\ \E b \in Bots : Becomes(c, "created", 0, NoRequest, 0, NoChannel, b, setups + 1)
<1>1. PICK b \in Bots : Begin(c, "created", [Idle EXCEPT !.bot = b, !.n = setups + 1])
  BY DEF BeginCreated
<1>2. PICK k : k = [Idle EXCEPT !.bot = b, !.n = setups + 1] OBVIOUS
<1>3. setups + 1 \in 0..MaxSetups BY Bounded DEF BeginCreated, NextSetup
<1>4. k \in Call /\ "created" \in Steps BY <1>2, <1>3, IdleTyped DEF Call, Steps
<1>5. Others(c) /\ Becomes(c, "created", k.r, k.copy, k.i, k.chan, k.bot, k.n)
  BY <1>1, <1>2, <1>4, Beginning
<1>6. k.r = 0 /\ k.copy = NoRequest /\ k.i = 0 /\ k.chan = NoChannel /\ k.bot = b /\ k.n = setups + 1
  BY <1>2 DEF Idle
<1> QED BY <1>5, <1>6

LEMMA CancelActs ==
    ASSUME Typed, NEW c \in Calls, Cancel(c)
    PROVE  /\ Others(c)
           /\ \E r \in Requests :
                 /\ request[r].status \in Open
                 /\ Becomes(c, "cancelling", r, request[r], 0, NoChannel, NoOne, 0)
<1>1. PICK r \in Requests : /\ request[r].status \in Open
                            /\ Begin(c, "cancelling", [Idle EXCEPT !.r = r, !.copy = request[r]])
  BY DEF Cancel
<1>2. PICK k : k = [Idle EXCEPT !.r = r, !.copy = request[r]] OBVIOUS
<1>3. k \in Call /\ "cancelling" \in Steps BY <1>2, IdleTyped, Bounded DEF Call, Steps
<1>4. Others(c) /\ Becomes(c, "cancelling", k.r, k.copy, k.i, k.chan, k.bot, k.n)
  BY <1>1, <1>2, <1>3, Beginning
<1>5. k.r = r /\ k.copy = request[r] /\ k.i = 0 /\ k.chan = NoChannel /\ k.bot = NoOne /\ k.n = 0
  BY <1>2 DEF Idle
<1> QED BY <1>1, <1>4, <1>5

LEMMA BeginOnActs ==
    ASSUME Typed, NEW c \in Calls, NEW o, NEW s \in Steps, BeginOn(c, o, s)
    PROVE  /\ Others(c)
           /\ \E i \in Channels : /\ channel[i] # NoChannel
                                  /\ Becomes(c, s, 0, NoRequest, i, channel[i], NoOne, 0)
<1>1. PICK i \in Channels : /\ channel[i] # NoChannel
                            /\ Begin(c, s, [Idle EXCEPT !.i = i, !.chan = channel[i]])
  BY DEF BeginOn
<1>2. PICK k : k = [Idle EXCEPT !.i = i, !.chan = channel[i]] OBVIOUS
<1>3. k \in Call BY <1>2, IdleTyped, Bounded DEF Call
<1>4. Others(c) /\ Becomes(c, s, k.r, k.copy, k.i, k.chan, k.bot, k.n) BY <1>1, <1>2, <1>3, Beginning
<1>5. k.r = 0 /\ k.copy = NoRequest /\ k.i = i /\ k.chan = channel[i] /\ k.bot = NoOne /\ k.n = 0
  BY <1>2 DEF Idle
<1> QED BY <1>1, <1>4, <1>5

LEMMA ConnectActs ==
    ASSUME Typed, NEW c \in Calls, Connect(c)
    PROVE  \E w \in Workspaces, b \in Bots :
             \/ call' = call /\ SaveChannel(setups + 1, Made(w, b, FALSE))
             \/ /\ Available(b, 0) /\ SaveChannel(setups + 1, Made(w, b, TRUE))
                /\ Others(c)
                /\ Becomes(c, "registering", 0, NoRequest, setups + 1, Made(w, b, TRUE), NoOne, 0)
<1>1. PICK w \in Workspaces, b \in Bots, valid \in BOOLEAN :
        /\ valid => Available(b, 0)
        /\ SaveChannel(setups + 1, Made(w, b, valid))
        /\ ~valid => call' = call
        /\ valid => Begin(c, "registering", [Idle EXCEPT !.i = setups + 1, !.chan = Made(w, b, valid)])
  BY DEF Connect, Made
<1>2. setups + 1 \in Channels BY Bounded DEF Connect, NextSetup, Channels
<1>3. Made(w, b, TRUE) \in Channel BY <1>2 DEF Made, Channel, States
<1>4. CASE valid = TRUE
  <2>1. PICK k : k = [Idle EXCEPT !.i = setups + 1, !.chan = Made(w, b, TRUE)] OBVIOUS
  <2>2. k \in Call /\ "registering" \in Steps BY <1>2, <1>3, <2>1, IdleTyped DEF Call, Steps
  <2>3. Others(c) /\ Becomes(c, "registering", k.r, k.copy, k.i, k.chan, k.bot, k.n)
    BY <1>1, <1>4, <2>1, <2>2, Beginning
  <2>4. /\ k.r = 0 /\ k.copy = NoRequest /\ k.i = setups + 1 /\ k.chan = Made(w, b, TRUE)
        /\ k.bot = NoOne /\ k.n = 0
    BY <2>1 DEF Idle
  <2> QED BY <1>1, <1>4, <2>3, <2>4
<1>5. CASE valid = FALSE BY <1>1, <1>5
<1> QED BY <1>4, <1>5

LEMMA ClosesActs == ASSUME Typed, NEW c \in Calls, Closes(c) PROVE Others(c) /\ Ends(c)
<1>1. End(c) BY DEF Closes, SaveStart, Settle, Complete, SaveTest, Disconnect, Delete, Crash
<1> QED BY <1>1, Ending

LEMMA FindStartActs ==
    ASSUME Typed, NEW c \in Calls, FindStart(c)
    PROVE  /\ Others(c)
           /\ \/ Ends(c)
              \/ /\ request[call[c].r].status = "pending"
                 /\ Holds(c, "started", call[c].r, request[call[c].r])
<1>1. call[c].r \in Requests /\ request[call[c].r] \in Request
  BY Bounded DEF FindStart, At, Typed, Shaped, ForRequest
<1> QED BY <1>1, Ending, Copying DEF FindStart, Steps

LEMMA FindCreatedActs ==
    ASSUME Typed, NEW c \in Calls, FindCreated(c)
    PROVE  /\ Others(c)
           /\ \/ Ends(c)
              \/ \E r \in Matching(Creator[call[c].bot]) :
                    \/ Late(r) /\ Holds(c, "failing", r, request[r])
                    \/ ~Handled(request[r], call[c].bot) /\ Holds(c, "binding", r, request[r])
<1>1. \A r \in Matching(Creator[call[c].bot]) : r \in Requests /\ request[r] \in Request
  BY Bounded DEF Matching
<1>2. ASSUME NEW r \in Matching(Creator[call[c].bot]), NEW s \in Steps, Load(c, s, r)
      PROVE  Others(c) /\ Holds(c, s, r, request[r])
  BY <1>1, <1>2, Holding DEF Load
<1>3. "failing" \in Steps /\ "binding" \in Steps BY DEF Steps
<1> QED BY <1>2, <1>3, Ending DEF FindCreated

LEMMA BindActs ==
    ASSUME Typed, NEW c \in Calls, Bind(c)
    PROVE  /\ Others(c)
           /\ Bound(c) \in Request
           /\ IF Accepted(call[c].r, Bound(c)) THEN Holds(c, "checking", call[c].r, Bound(c)) ELSE Ends(c)
<1>1. call[c].copy \in Request /\ call[c].bot \in Bots \cup {NoOne} BY Bounded DEF Call
<1>2. Bound(c) \in Request BY <1>1 DEF Bound, Request, Statuses, Open
<1> QED BY <1>2, Ending, Copying DEF Bind, Bound, Steps

LEMMA GoesActs ==
    ASSUME Typed, NEW c \in Calls
    PROVE  /\ Check(c) => Others(c) /\ (Goes(c, "writing") \/ Goes(c, "failing"))
           /\ SetHook(c) => /\ Others(c)
                            /\ \/ Goes(c, "marking") /\ hook' \in {hook, Registered(c)}
                               \/ Goes(c, "activating") /\ hook' = Registered(c)
           /\ Activate(c) => /\ Others(c)
                             /\ \/ Goes(c, "finishing")
                                \/ Goes(c, "marking") /\ UNCHANGED channel
           /\ MarkError(c) => Others(c) /\ Goes(c, "failing")
           /\ Finish(c) => Others(c) /\ (Ends(c) \/ Goes(c, "failing"))
           /\ CleanUp(c) => Others(c) /\ (Goes(c, "disconnected") \/ Goes(c, "deleted"))
<1>1. ASSUME NEW s, Go(c, s), s \in {"writing", "failing", "marking", "activating", "finishing",
                                     "disconnected", "deleted"}
      PROVE  Others(c) /\ Goes(c, s)
  BY <1>1, Going DEF Steps
<1>2. Check(c) => Others(c) /\ (Goes(c, "writing") \/ Goes(c, "failing")) BY <1>1 DEF Check
<1>3. SetHook(c) => /\ Others(c)
                    /\ \/ Goes(c, "marking") /\ hook' \in {hook, Registered(c)}
                       \/ Goes(c, "activating") /\ hook' = Registered(c)
  BY <1>1 DEF SetHook
<1>4. Activate(c) => Others(c) /\ (Goes(c, "finishing") \/ (Goes(c, "marking") /\ UNCHANGED channel))
  <2>1. Activate(c) => Go(c, "finishing") \/ (Go(c, "marking") /\ UNCHANGED channel)
    BY DEF Activate
  <2> QED BY <1>1, <2>1
<1>5. MarkError(c) => Others(c) /\ Goes(c, "failing") BY <1>1 DEF MarkError
<1>6. Finish(c) => Others(c) /\ (Ends(c) \/ Goes(c, "failing")) BY <1>1, Ending DEF Finish
<1>7. CleanUp(c) => Others(c) /\ (Goes(c, "disconnected") \/ Goes(c, "deleted")) BY <1>1 DEF CleanUp
<1> QED BY <1>2, <1>3, <1>4, <1>5, <1>6, <1>7

LEMMA WriteChannelActs ==
    ASSUME Typed, NEW c \in Calls, WriteChannel(c)
    PROVE  /\ Others(c)
           /\ \E i \in Channels :
                /\ i \in Chosen(call[c].bot, call[c].n)
                /\ \/ /\ UNCHANGED <<request, recent, channel>>
                      /\ \/ Goes(c, "failing")
                         \/ Holds(c, "failing", call[c].r, Named(c, i))
                   \/ /\ ~Foreign(channel[i], call[c].copy.owner)
                      /\ Provisioned(c, i) \in Channel /\ Named(c, i) \in Request
                      /\ Storable(i, Provisioned(c, i)) /\ SaveChannel(i, Provisioned(c, i))
                      /\ Accepted(call[c].r, Named(c, i)) /\ SaveRequest(call[c].r, Named(c, i))
                      /\ Becomes(c, "hooking", call[c].r, Named(c, i), i, Provisioned(c, i),
                                 call[c].bot, call[c].n)
<1>1. call[c] \in Call /\ call[c].bot \in Bots /\ call[c].n \in Channels
  BY Bounded DEF WriteChannel, At, Typed, Shaped, ForBot, Channels
<1>2. PICK i \in Chosen(call[c].bot, call[c].n) :
        IF Foreign(channel[i], call[c].copy.owner)
        THEN Go(c, "failing") /\ UNCHANGED <<request, recent, channel>>
        ELSE IF Storable(i, Provisioned(c, i)) /\ Accepted(call[c].r, Named(c, i))
        THEN /\ SaveChannel(i, Provisioned(c, i)) /\ SaveRequest(call[c].r, Named(c, i))
             /\ call' = [call EXCEPT ![c].step = "hooking", ![c].copy = Named(c, i),
                                     ![c].i = i, ![c].chan = Provisioned(c, i)]
        ELSE /\ call' = [call EXCEPT ![c].step = "failing",
                    ![c].copy = IF Storable(i, Provisioned(c, i)) THEN Named(c, i) ELSE call[c].copy]
             /\ UNCHANGED <<request, recent, channel>>
  BY DEF WriteChannel, Provisioned, Named
<1>3. i \in Channels BY <1>1 DEF Chosen, Existing
<1>4. PICK q \in Request : q = Named(c, i) BY <1>1, <1>3 DEF Call, Request, Named
<1>5. PICK ch \in Channel : ch = Provisioned(c, i)
  BY <1>1 DEF Call, Request, Provisioned, Channel, States
<1>6. CASE Go(c, "failing") /\ UNCHANGED <<request, recent, channel>>
  <2>1. Others(c) /\ Goes(c, "failing") BY <1>6, Going DEF Steps
  <2> QED BY <1>3, <1>6, <2>1
<1>7. ASSUME call' = [call EXCEPT ![c].step = "hooking", ![c].copy = q, ![c].i = i, ![c].chan = ch]
      PROVE  Others(c) /\ Becomes(c, "hooking", call[c].r, q, i, ch, call[c].bot, call[c].n)
  <2>1. Others(c) /\ call'[c] = [call[c] EXCEPT !.step = "hooking", !.copy = q, !.i = i, !.chan = ch]
    BY <1>7 DEF Others, Typed, TypeOK
  <2> QED BY <1>1, <1>3, <2>1 DEF Becomes, Is, Call, Steps
<1>8. ASSUME NEW p \in Request, call' = [call EXCEPT ![c].step = "failing", ![c].copy = p]
      PROVE  Others(c) /\ Holds(c, "failing", call[c].r, p)
  BY <1>8, Copying DEF Steps
<1>9. Holds(c, "failing", call[c].r, call[c].copy) => Goes(c, "failing") BY DEF Holds, Goes, Takes
<1>10. call[c].copy \in Request BY <1>1 DEF Call
<1>11. CASE ~Foreign(channel[i], call[c].copy.owner)
  <2>1. CASE Storable(i, ch) /\ Accepted(call[c].r, q) BY <1>2, <1>3, <1>4, <1>5, <1>7, <1>11, <2>1
  <2>2. CASE Storable(i, ch) /\ ~Accepted(call[c].r, q) BY <1>2, <1>3, <1>4, <1>5, <1>8, <1>11, <2>2
  <2>3. CASE ~Storable(i, ch) BY <1>2, <1>3, <1>4, <1>5, <1>8, <1>9, <1>10, <1>11, <2>3
  <2> QED BY <2>1, <2>2, <2>3
<1>12. CASE Foreign(channel[i], call[c].copy.owner) BY <1>2, <1>6, <1>12
<1> QED BY <1>11, <1>12

LEMMA RegisterActs ==
    ASSUME Typed, NEW c \in Calls, Register(c)
    PROVE  /\ Others(c) /\ hook' \in {hook, Registered(c)}
           /\ \E state \in {"connected", "error"} :
                /\ state = "connected" => hook' = Registered(c)
                /\ Takes(c, "completing", [call[c].chan EXCEPT !.state = state])
<1>1. PICK state \in {"connected", "error"}, reached \in BOOLEAN :
        /\ state = "connected" => reached
        /\ hook' = IF reached THEN Registered(c) ELSE hook
        /\ call' = [call EXCEPT ![c].step = "completing", ![c].chan.state = state]
  BY DEF Register
<1>2. Others(c) /\ Takes(c, "completing", [call[c].chan EXCEPT !.state = state])
  BY <1>1, Restating DEF Steps, States
<1> QED BY <1>1, <1>2

LEMMA RetryActs ==
    ASSUME Typed, NEW c \in Calls, Retry(c)
    PROVE  /\ Others(c) /\ hook' \in {hook, Registered(c)}
           /\ \/ Ends(c)
              \/ \E state \in {"connected", "error"} :
                   /\ state = "connected" => hook' = Registered(c)
                   /\ Takes(c, "tested", [call[c].chan EXCEPT !.state = state])
<1>1. PICK reached \in BOOLEAN :
        /\ hook' = IF reached THEN Registered(c) ELSE hook
        /\ \/ \E state \in {"connected", "error"} :
                /\ state = "connected" => reached
                /\ call' = [call EXCEPT ![c].step = "tested", ![c].chan.state = state]
           \/ End(c)
  BY DEF Retry
<1>2. ASSUME NEW state \in {"connected", "error"},
             call' = [call EXCEPT ![c].step = "tested", ![c].chan.state = state]
      PROVE  Others(c) /\ Takes(c, "tested", [call[c].chan EXCEPT !.state = state])
  BY <1>2, Restating DEF Steps, States
<1> QED BY <1>1, <1>2, Ending

LEMMA TestActs ==
    ASSUME Typed, NEW c \in Calls, Test(c)
    PROVE  /\ Others(c)
           /\ \/ Ends(c)
              \/ Takes(c, "tested", Cleared(call[c].chan))
              \/ /\ Available(call[c].chan.bot, call[c].i)
                 /\ Takes(c, IF call[c].chan.state = "connected" THEN "tested" ELSE "retrying",
                          [call[c].chan EXCEPT !.linked = TRUE])
<1>0. call[c].chan \in Channel BY Bounded DEF Call
<1>1. Cleared(call[c].chan) \in Channel BY <1>0 DEF Channel, States, Cleared
<1>2. PICK s \in Steps : s = IF call[c].chan.state = "connected" THEN "tested" ELSE "retrying"
  BY DEF Steps
<1>3. \/ End(c)
      \/ call' = [call EXCEPT ![c].step = "tested", ![c].chan = Cleared(call[c].chan)]
      \/ /\ Available(call[c].chan.bot, call[c].i)
         /\ call' = [call EXCEPT ![c].step = s, ![c].chan.linked = TRUE]
  BY <1>2 DEF Test, Cleared
<1>4. "tested" \in Steps BY DEF Steps
<1> QED BY <1>1, <1>2, <1>3, <1>4, Ending, Taking, Relinking

-----------------------------------------------------------------------------
\* What the groups of steps leave alone.
LEMMA Frames ==
    ASSUME NEW c \in Calls
    PROVE  /\ Looks(c) \/ Asks(c) \/ Stores(c) => UNCHANGED <<request, recent>>
           /\ Expires(c) => request' = Expired /\ UNCHANGED recent
           /\ Looks(c) \/ Asks(c) \/ Expires(c) \/ Answers(c) => UNCHANGED channel
           /\ Looks(c) \/ Expires(c) \/ Answers(c) \/ Stores(c) \/ WriteChannel(c) => UNCHANGED hook
<1>1. Looks(c) => UNCHANGED <<request, recent, channel, hook>>
  BY DEF Looks, Cancel, FindStart, FindCreated, Check, Test, BeginTest, BeginDisconnect, BeginDelete,
         BeginOn, Crash
<1>2. Asks(c) => UNCHANGED <<request, recent, channel>>
  BY DEF Asks, SetHook, Register, Retry, CleanUp
<1>3. Expires(c) => request' = Expired /\ UNCHANGED <<recent, channel, hook>>
  BY DEF Expires, BeginStart, BeginCreated
<1>4. Answers(c) => UNCHANGED <<channel, hook>> BY DEF Answers, SaveStart, Settle, Bind, Finish
<1>5. Stores(c) => UNCHANGED <<request, recent, hook>>
  BY DEF Stores, Activate, MarkError, Complete, SaveTest, Disconnect, Delete
<1>6. WriteChannel(c) => UNCHANGED hook BY DEF WriteChannel
<1> QED BY <1>1, <1>2, <1>3, <1>4, <1>5, <1>6

\* The counters, which every step of a handler keeps within their bounds.
Counted ==
    /\ lapsed' = lapsed /\ setups' \in 0..MaxSetups /\ setups <= setups'
    /\ operations' \in 0..MaxOperations /\ crashes' \in 0..MaxCrashes
    /\ crashes <= crashes'

LEMMA Counting ==
    ASSUME Typed, NEW c \in Calls, Enter(c) \/ Continue(c) \/ Crash(c) PROVE Counted
<1>1. BeginStart(c) \/ Cancel(c) => Counted BY Bounded DEF Counted, BeginStart, Cancel
<1>2. BeginCreated(c) \/ Connect(c) => Counted
  <2>1. NextSetup => setups' \in 0..MaxSetups /\ setups <= setups' BY Bounded DEF NextSetup
  <2> QED BY <2>1, Bounded DEF Counted, BeginCreated, Connect
<1>3. ASSUME NEW o, NEW s, BeginOn(c, o, s) PROVE Counted
  <2>1. operations' \in 0..MaxOperations BY <1>3, Bounded DEF BeginOn
  <2> QED BY <1>3, <2>1, Bounded DEF Counted, BeginOn
<1>4. FindStart(c) \/ SaveStart(c) \/ Settle(c) \/ FindCreated(c) \/ Bind(c) \/ Check(c)
      \/ WriteChannel(c) \/ SetHook(c) => Counted
  BY Bounded DEF Counted, FindStart, SaveStart, Settle, FindCreated, Bind, Check, WriteChannel, SetHook
<1>5. Activate(c) \/ MarkError(c) \/ Finish(c) \/ Register(c) \/ Complete(c) => Counted
  BY Bounded DEF Counted, Activate, MarkError, Finish, Register, Complete
<1>6. Test(c) \/ Retry(c) \/ SaveTest(c) \/ CleanUp(c) \/ Disconnect(c) \/ Delete(c) => Counted
  BY Bounded DEF Counted, Test, Retry, SaveTest, CleanUp, Disconnect, Delete
<1>7. Crash(c) => Counted BY Bounded DEF Counted, Crash
<1> QED BY <1>1, <1>4, <1>5, <1>6, <1>7, <1>3, <1>2
  DEF Enter, Continue, BeginTest, BeginDisconnect, BeginDelete

\* Every step of a handler belongs to a group.
LEMMA Grouping ==
    ASSUME NEW c \in Calls, Enter(c) \/ Continue(c) \/ Crash(c)
    PROVE  \/ Looks(c) \/ Asks(c) \/ Expires(c) \/ Answers(c) \/ Stores(c)
           \/ WriteChannel(c) \/ Connect(c)
BY DEF Enter, Continue, Looks, Asks, Expires, Answers, Stores

\* What a handler that answers a request saves over it: a copy that says
\* "connected" only at the end of a setup, and nothing when an index refuses.
LEMMA Answering ==
    ASSUME Typed, NEW c \in Calls, Answers(c)
    PROVE  /\ call[c].r \in Requests
           /\ \E q \in Request :
                /\ SaveRequest(call[c].r, q) \/ UNCHANGED <<request, recent>>
                /\ q.status = "connected" =>
                      /\ Finish(c) /\ q.bot = call[c].copy.bot /\ q.account = call[c].copy.account
                      /\ q.channel = call[c].copy.channel /\ q.owner = call[c].copy.owner
<1>1. call[c] \in Call /\ call[c].r \in Requests
  BY Bounded DEF Answers, SaveStart, Settle, Bind, Finish, At, Typed, Shaped, ForRequest
<1>2. /\ call[c].copy \in Request /\ call[c].who \in Accounts \cup {NoOne}
      /\ call[c].bot \in Bots \cup {NoOne}
  BY <1>1 DEF Call
<1>3. CASE SaveStart(c)
  <2>1. PICK q : q = [call[c].copy EXCEPT !.account = call[c].who, !.status = "awaiting"] OBVIOUS
  <2>2. q \in Request /\ q.status = "awaiting" BY <1>2, <2>1 DEF Request, Statuses, Open
  <2>3. SaveRequest(call[c].r, q) \/ UNCHANGED <<request, recent>> BY <1>3, <2>1 DEF SaveStart
  <2> QED BY <1>1, <2>2, <2>3
<1>4. CASE Settle(c)
  <2>1. PICK q : q = SettledCopy(c) OBVIOUS
  <2>2. q \in Request /\ q.status # "connected"
    BY <1>2, <2>1 DEF SettledCopy, Request, Statuses, Open
  <2>3. SaveRequest(call[c].r, q) \/ UNCHANGED <<request, recent>> BY <1>4, <2>1 DEF Settle
  <2> QED BY <1>1, <2>2, <2>3
<1>5. CASE Bind(c)
  <2>1. PICK q : q = Bound(c) OBVIOUS
  <2>2. q \in Request /\ q.status = "provisioning" BY <1>2, <2>1 DEF Bound, Request, Statuses, Open
  <2>3. SaveRequest(call[c].r, q) \/ UNCHANGED <<request, recent>> BY <1>5, <2>1 DEF Bind, Bound
  <2> QED BY <1>1, <2>2, <2>3
<1>6. CASE Finish(c)
  <2>1. PICK q : q = FinishCopy(c) OBVIOUS
  <2>2. /\ q \in Request /\ q.bot = call[c].copy.bot /\ q.account = call[c].copy.account
        /\ q.channel = call[c].copy.channel /\ q.owner = call[c].copy.owner
    BY <1>2, <2>1 DEF FinishCopy, Request, Statuses, Open
  <2>3. SaveRequest(call[c].r, q) \/ UNCHANGED <<request, recent>> BY <1>6, <2>1 DEF Finish
  <2> QED BY <1>1, <1>6, <2>2, <2>3
<1> QED BY <1>3, <1>4, <1>5, <1>6 DEF Answers

\* What a handler stores over its channel's row: no row, or its copy or the row
\* itself with another state, unless the index refuses.
LEMMA Storing ==
    ASSUME Typed, NEW c \in Calls, Stores(c)
    PROVE  /\ call[c].i \in Channels
           /\ \/ UNCHANGED channel
              \/ \E ch \in Channel :
                   /\ SaveChannel(call[c].i, ch)
                   /\ \/ ch = NoChannel
                      \/ \E x \in {call[c].chan, channel[call[c].i]} :
                           /\ x \in Channel /\ ch.bot = x.bot /\ ch.owner = x.owner
                           /\ x = NoChannel => x = call[c].chan
<1>1. call[c].i \in Channels
  BY DEF Stores, Activate, MarkError, Complete, SaveTest, Disconnect, Delete, At, Typed, Shaped,
         ForChannel, Provisioning
<1>2. call[c] \in Call /\ channel[call[c].i] \in Channel BY <1>1, Bounded
<1>3. call[c].chan \in Channel BY <1>2 DEF Call
<1>4. \A x \in Channel, s \in States :
        /\ [x EXCEPT !.state = s] \in Channel
        /\ [x EXCEPT !.state = s].bot = x.bot /\ [x EXCEPT !.state = s].owner = x.owner
  BY DEF Channel
<1>5. {"connected", "error", "disabled"} \subseteq States BY DEF States
<1>6. CASE Activate(c)
  <2>1. PICK ch : ch = [call[c].chan EXCEPT !.state = "connected"] OBVIOUS
  <2>2. SaveChannel(call[c].i, ch) \/ UNCHANGED channel BY <1>6, <2>1 DEF Activate
  <2> QED BY <1>1, <1>3, <1>4, <1>5, <2>1, <2>2
<1>7. CASE MarkError(c)
  <2>1. PICK ch : ch = [call[c].chan EXCEPT !.state = "error"] OBVIOUS
  <2>2. SaveChannel(call[c].i, ch) \/ UNCHANGED channel BY <1>7, <2>1 DEF MarkError
  <2> QED BY <1>1, <1>3, <1>4, <1>5, <2>1, <2>2
<1>8. CASE Complete(c)
  <2>1. PICK ch : ch = IF channel[call[c].i] = NoChannel THEN call[c].chan
                       ELSE [channel[call[c].i] EXCEPT !.state = call[c].chan.state]
    OBVIOUS
  <2>2. SaveChannel(call[c].i, ch) \/ UNCHANGED channel BY <1>8, <2>1 DEF Complete
  <2>3. call[c].chan.state \in States BY <1>3 DEF Channel
  <2>4. CASE channel[call[c].i] = NoChannel BY <1>1, <1>3, <2>1, <2>2, <2>4
  <2>5. CASE channel[call[c].i] # NoChannel
    <3>1. ch = [channel[call[c].i] EXCEPT !.state = call[c].chan.state] BY <2>1, <2>5
    <3> QED BY <1>1, <1>2, <1>4, <2>2, <2>3, <2>5, <3>1
  <2> QED BY <2>4, <2>5
<1>9. CASE SaveTest(c) BY <1>1, <1>3, <1>9 DEF SaveTest
<1>10. CASE Disconnect(c)
  <2>1. PICK ch : ch = [call[c].chan EXCEPT !.state = "disabled"] OBVIOUS
  <2>2. SaveChannel(call[c].i, ch) BY <1>10, <2>1 DEF Disconnect
  <2> QED BY <1>1, <1>3, <1>4, <1>5, <2>1, <2>2
<1>11. CASE Delete(c) BY <1>1, <1>11, IdleTyped DEF Delete
<1> QED BY <1>6, <1>7, <1>8, <1>9, <1>10, <1>11 DEF Stores

\* What a handler asks of Telegram: its channel's webhook, or none for its bot.
LEMMA Asking ==
    ASSUME Typed, NEW c \in Calls, Asks(c)
    PROVE  hook' \in {hook, Registered(c), [hook EXCEPT ![call[c].chan.bot] = Unset]}
<1>1. SetHook(c) \/ Register(c) \/ Retry(c) => hook' \in {hook, Registered(c)}
  BY GoesActs, RegisterActs, RetryActs
<1>2. CleanUp(c) => hook' \in {hook, [hook EXCEPT ![call[c].chan.bot] = Unset]} BY DEF CleanUp
<1> QED BY <1>1, <1>2 DEF Asks
-----------------------------------------------------------------------------
\* Every step leaves its handler at a step it has loaded the records for.
LEMMA EndShaped == ASSUME NEW c, Ends(c), setups' \in Nat PROVE call'[c] \in Call /\ Shaped(call[c])'
BY DEF Ends, Becomes, Is, Shaped, ForRequest, ForBot, ForChannel, Provisioning

LEMMA GoShaped ==
    ASSUME Typed, NEW c \in Calls, setups' = setups, NEW s, NEW ch, Takes(c, s, ch),
           s \in ForRequest => call[c].step \in ForRequest,
           s \in ForBot => call[c].step \in ForBot,
           s \in ForChannel => call[c].step \in ForChannel
    PROVE  call'[c] \in Call /\ Shaped(call[c])'
<1>1. Shaped(call[c]) BY DEF Typed
<1>2. call'[c] \in Call /\ call'[c].step = s /\ call'[c].r = call[c].r /\ call'[c].bot = call[c].bot
      /\ call'[c].n = call[c].n /\ call'[c].i = call[c].i
  BY DEF Takes, Becomes, Is
<1>3. call[c].step \in ForRequest => call[c].r \in Requests BY <1>1 DEF Shaped
<1>4. call[c].step \in ForBot => call[c].bot \in Bots /\ call[c].n \in 1..setups BY <1>1 DEF Shaped
<1>5. call[c].step \in ForChannel => call[c].i \in Channels BY <1>1 DEF Shaped
<1> QED BY <1>2, <1>3, <1>4, <1>5 DEF Shaped, Channels, Requests

LEMMA Shapes ==
    ASSUME Typed, NEW c \in Calls, Enter(c) \/ Continue(c) \/ Crash(c), ~Connect(c)
    PROVE  Others(c) /\ call'[c] \in Call /\ Shaped(call[c])'
<1> USE DEF ForRequest, ForBot, ForChannel, Provisioning
<1>1. Counted /\ setups' \in Nat BY Counting DEF Counted
<1>2. Ends(c) => call'[c] \in Call /\ Shaped(call[c])' BY <1>1, EndShaped
<1>3. ASSUME setups' = setups, NEW s, NEW ch, Takes(c, s, ch),
             s \in ForRequest => call[c].step \in ForRequest,
             s \in ForBot => call[c].step \in ForBot,
             s \in ForChannel => call[c].step \in ForChannel
      PROVE  call'[c] \in Call /\ Shaped(call[c])'
  BY <1>3, GoShaped
<1>4. CASE BeginStart(c) BY <1>4, <1>1, BeginStartActs DEF Shaped, Becomes, Is
<1>5. CASE Cancel(c) BY <1>5, <1>1, CancelActs DEF Shaped, Becomes, Is
<1>6. CASE BeginCreated(c)
  <2>1. setups \in Nat /\ setups' = setups + 1 BY <1>6, Bounded DEF BeginCreated, NextSetup
  <2> QED BY <1>6, <2>1, BeginCreatedActs DEF Shaped, Becomes, Is
<1>7. CASE BeginTest(c) \/ BeginDisconnect(c) \/ BeginDelete(c)
  <2>1. ASSUME NEW o, NEW s \in {"testing", "disconnecting", "deleting"}, BeginOn(c, o, s)
        PROVE  Others(c) /\ call'[c] \in Call /\ Shaped(call[c])'
    <3>1. /\ Others(c)
          /\ \E i \in Channels : Becomes(c, s, 0, NoRequest, i, channel[i], NoOne, 0)
      BY <2>1, BeginOnActs DEF Steps
    <3> QED BY <3>1 DEF Shaped, Becomes, Is, Channels
  <2> QED BY <1>7, <2>1 DEF BeginTest, BeginDisconnect, BeginDelete
<1>8. CASE Closes(c) BY <1>8, <1>2, ClosesActs
<1>9. CASE FindStart(c)
  <2>1. call[c].r \in Requests BY <1>9 DEF FindStart, At, Typed, Shaped
  <2> QED BY <1>2, <1>9, <2>1, FindStartActs DEF Holds, Shaped, Becomes, Is
<1>10. CASE FindCreated(c)
  <2>1. setups' = setups /\ call[c].bot \in Bots /\ call[c].n \in 1..setups
    BY <1>10 DEF FindCreated, At, Typed, Shaped
  <2>2. \A r \in Matching(Creator[call[c].bot]) : r \in Requests BY DEF Matching
  <2> QED BY <1>2, <1>10, <2>1, <2>2, FindCreatedActs DEF Holds, Shaped, Becomes, Is
<1>11. CASE Bind(c)
  <2>1. /\ call[c].r \in Requests /\ setups' = setups
        /\ call[c].bot \in Bots /\ call[c].n \in 1..setups
    BY <1>11 DEF Bind, At, Typed, Shaped
  <2>2. Others(c) /\ (Ends(c) \/ Holds(c, "checking", call[c].r, Bound(c))) BY <1>11, BindActs
  <2> QED BY <1>2, <2>1, <2>2 DEF Holds, Shaped, Becomes, Is
<1>12. CASE Check(c) BY <1>3, <1>12, GoesActs DEF Check, At, Goes
<1>13. CASE WriteChannel(c)
  <2>1. /\ call[c].r \in Requests /\ setups' = setups
        /\ call[c].bot \in Bots /\ call[c].n \in 1..setups
    BY <1>13 DEF WriteChannel, At, Typed, Shaped
  <2>2. PICK i \in Channels :
          /\ Others(c)
          /\ \/ Holds(c, "failing", call[c].r, call[c].copy)
             \/ Holds(c, "failing", call[c].r, Named(c, i))
             \/ Becomes(c, "hooking", call[c].r, Named(c, i), i, Provisioned(c, i), call[c].bot,
                        call[c].n)
    BY <1>13, WriteChannelActs DEF Holds, Goes, Takes
  <2> QED BY <2>1, <2>2 DEF Holds, Shaped, Becomes, Is
<1>14. CASE SetHook(c) BY <1>3, <1>14, GoesActs DEF SetHook, At, Goes
<1>15. CASE Activate(c) BY <1>3, <1>15, GoesActs DEF Activate, At, Goes
<1>16. CASE MarkError(c) BY <1>3, <1>16, GoesActs DEF MarkError, At, Goes
<1>17. CASE Finish(c) BY <1>2, <1>3, <1>17, GoesActs DEF Finish, At, Goes
<1>18. CASE Register(c) BY <1>3, <1>18, RegisterActs DEF Register, At
<1>19. CASE Test(c)
  <2>1. setups' = setups /\ call[c].step = "testing" BY <1>19 DEF Test, At
  <2>2. PICK s \in {"tested", "retrying"} :
          s = IF call[c].chan.state = "connected" THEN "tested" ELSE "retrying"
    OBVIOUS
  <2> QED BY <1>2, <1>3, <1>19, <2>1, <2>2, TestActs
<1>20. CASE Retry(c) BY <1>2, <1>3, <1>20, RetryActs DEF Retry, At
<1>21. CASE CleanUp(c) BY <1>3, <1>21, GoesActs DEF CleanUp, At, Goes
<1> QED BY <1>4, <1>5, <1>6, <1>7, <1>8, <1>9, <1>10, <1>11, <1>12, <1>13, <1>14, <1>15, <1>16, <1>17,
           <1>18, <1>19, <1>20, <1>21 DEF Enter, Continue, Closes
-----------------------------------------------------------------------------
\* The types.
LEMMA Stepped ==
    ASSUME Typed, disturbed' = Disturbed, NEW c \in Calls,
           Others(c), call'[c] \in Call, Shaped(call[c])', Counted,
           request' \in [Requests -> Request], recent' \subseteq Requests \X Requests,
           channel' \in [Channels -> Channel], hook' \in HookType
    PROVE  Typed'
<1>1. call' \in [Calls -> Call] BY DEF Typed, TypeOK, Others
<1>2. ASSUME NEW d \in Calls PROVE Shaped(call[d])'
  <2>1. CASE d # c
    <3>1. call'[d] = call[d] BY <2>1 DEF Typed, TypeOK, Others
    <3>2. Shaped(call[d]) /\ call[d] \in Call BY DEF Typed, TypeOK
    <3> QED BY <3>1, <3>2, Bounded DEF Counted, Shaped, Call, Channels
  <2> QED BY <2>1
<1>3. disturbed' \subseteq Bots BY DEF Typed, TypeOK, Disturbed
<1>4. lapsed' \subseteq Requests BY DEF Counted, Typed, TypeOK
<1> QED BY <1>1, <1>2, <1>3, <1>4 DEF Counted, Typed, TypeOK, HookType

LEMMA SavedTyped ==
    ASSUME Typed
    PROVE  /\ \A r \in Requests, q \in Request :
                SaveRequest(r, q) => /\ request' \in [Requests -> Request]
                                     /\ recent' \subseteq Requests \X Requests
           /\ \A i \in Channels, ch \in Channel :
                SaveChannel(i, ch) => channel' \in [Channels -> Channel]
<1>1. ASSUME NEW r \in Requests, NEW q \in Request, SaveRequest(r, q)
      PROVE  request' \in [Requests -> Request] /\ recent' \subseteq Requests \X Requests
  BY <1>1 DEF Typed, TypeOK, SaveRequest, Saved, Updated
<1>2. ASSUME NEW i \in Channels, NEW ch \in Channel, SaveChannel(i, ch)
      PROVE  channel' \in [Channels -> Channel]
  BY <1>2 DEF Typed, TypeOK, SaveChannel
<1> QED BY <1>1, <1>2

LEMMA HandlersTypes ==
    ASSUME Typed, disturbed' = Disturbed, NEW c \in Calls, Enter(c) \/ Continue(c) \/ Crash(c),
           ~Connect(c)
    PROVE  Typed'
<1>1. Others(c) /\ call'[c] \in Call /\ Shaped(call[c])' /\ Counted BY Shapes, Counting
<1>2. ASSUME Looks(c) \/ Asks(c) \/ Expires(c) \/ Stores(c)
      PROVE  request' \in [Requests -> Request] /\ recent' \subseteq Requests \X Requests
  BY <1>2, Frames, Bounded, ExpiredTyped
<1>3. ASSUME Answers(c)
      PROVE  request' \in [Requests -> Request] /\ recent' \subseteq Requests \X Requests
  BY <1>3, Answering, SavedTyped, Bounded
<1>4. ASSUME Looks(c) \/ Asks(c) \/ Expires(c) \/ Answers(c)
      PROVE  channel' \in [Channels -> Channel]
  BY <1>4, Frames, Bounded
<1>5. ASSUME Stores(c) PROVE channel' \in [Channels -> Channel] BY <1>5, Storing, SavedTyped, Bounded
<1>6. ASSUME WriteChannel(c)
      PROVE  /\ request' \in [Requests -> Request] /\ recent' \subseteq Requests \X Requests
             /\ channel' \in [Channels -> Channel]
  <2>1. call[c].r \in Requests BY <1>6 DEF WriteChannel, At, Typed, Shaped, ForRequest
  <2> QED BY <1>6, <2>1, WriteChannelActs, SavedTyped, Bounded
<1>7. ASSUME ~Asks(c) PROVE hook' \in HookType BY <1>7, Grouping, Frames, Bounded
<1>8. ASSUME Asks(c) PROVE hook' \in HookType
  <2>1. call[c].i \in Channels \cup {0} /\ call[c].chan \in Channel /\ hook \in HookType
    BY Bounded DEF Call
  <2>2. call[c].chan.secret \in Channels \cup {0} BY <2>1 DEF Channel
  <2>3. Registered(c) \in HookType /\ [hook EXCEPT ![call[c].chan.bot] = Unset] \in HookType
    BY <2>1, <2>2 DEF Registered, Unset, HookType
  <2> QED BY <1>8, <2>1, <2>3, Asking
<1> QED BY <1>1, <1>2, <1>3, <1>4, <1>5, <1>6, <1>7, <1>8, Grouping, Stepped

LEMMA ConnectTypes ==
    ASSUME Typed, NEW c \in Calls, Connect(c), disturbed' = Disturbed
    PROVE  Typed'
<1>1. PICK w \in Workspaces, b \in Bots :
        \/ call' = call /\ SaveChannel(setups + 1, Made(w, b, FALSE))
        \/ /\ SaveChannel(setups + 1, Made(w, b, TRUE)) /\ Others(c)
           /\ Becomes(c, "registering", 0, NoRequest, setups + 1, Made(w, b, TRUE), NoOne, 0)
  BY ConnectActs
<1>2. setups \in Nat /\ setups + 1 \in Channels /\ setups' = setups + 1
  BY Bounded DEF Connect, NextSetup, Channels
<1>3. \A valid \in BOOLEAN : Made(w, b, valid) \in Channel BY <1>2 DEF Made, Channel, States
<1>4. channel' \in [Channels -> Channel] BY <1>1, <1>2, <1>3, SavedTyped
<1>5. Counted BY Counting DEF Enter
<1>6. /\ request' \in [Requests -> Request] /\ recent' \subseteq Requests \X Requests
      /\ hook' \in HookType
  BY Bounded DEF Connect
<1>7. Others(c) /\ call'[c] \in Call /\ Shaped(call[c])'
  <2>1. CASE call' = call
    <3>1. Others(c) /\ call'[c] = call[c] BY <2>1 DEF Others, Typed, TypeOK
    <3>2. call[c] \in Call /\ Shaped(call[c]) BY DEF Typed, TypeOK
    <3> QED BY <1>2, <3>1, <3>2 DEF Shaped
  <2>2. CASE Others(c) /\ Becomes(c, "registering", 0, NoRequest, setups + 1, Made(w, b, TRUE), NoOne, 0)
    BY <1>2, <2>2 DEF Becomes, Is, Shaped, ForRequest, ForBot, ForChannel, Provisioning, Channels
  <2> QED BY <1>1, <2>1, <2>2
<1> QED BY <1>4, <1>5, <1>6, <1>7, Stepped

LEMMA OpenLinkTypes ==
    ASSUME Typed, OpenLink, disturbed' = Disturbed
    PROVE  Typed'
<1>1. PICK r \in Requests, w \in Workspaces :
        /\ request' = [s \in Requests |->
              IF s = r THEN [NoRequest EXCEPT !.status = "pending", !.owner = w]
              ELSE IF Expired[s].owner = w /\ Expired[s].status \in Open
                   THEN [request[s] EXCEPT !.status = "cancelled"] ELSE Expired[s]]
        /\ recent' = Updated(r)
  BY DEF OpenLink
<1>2. recent' \subseteq Requests \X Requests BY <1>1, Bounded DEF Updated
<1>3. "pending" \in Statuses /\ "cancelled" \in Statuses BY DEF Statuses, Open
<1>4. \A s \in Requests :
        IF s = r THEN request'[s] = [NoRequest EXCEPT !.status = "pending", !.owner = w]
        ELSE request'[s] \in {[request[s] EXCEPT !.status = "cancelled"], Expired[s]}
  BY <1>1
<1>5. [NoRequest EXCEPT !.status = "pending", !.owner = w] \in Request
  BY <1>3, IdleTyped DEF NoRequest, Request
<1>6. \A s \in Requests : Expired[s] \in Request /\ [request[s] EXCEPT !.status = "cancelled"] \in Request
  BY <1>3, Bounded, ExpiredTyped DEF Request
<1>7. request' \in [Requests -> Request] BY <1>1, <1>4, <1>5, <1>6
<1>8. call' = call /\ setups' = setups BY DEF OpenLink
<1>9. \A d \in Calls : Shaped(call[d])' BY <1>8 DEF Typed, Shaped
<1>10. disturbed' \subseteq Bots BY DEF Typed, TypeOK, Disturbed
<1> QED BY <1>2, <1>7, <1>8, <1>9, <1>10 DEF OpenLink, Typed, TypeOK

LEMMA InitTypes == ASSUME Init PROVE Typed
<1>1. TypeOK BY IdleTyped DEF Init, TypeOK, Unset, Requests, Channels
<1>2. \A d \in Calls : Shaped(call[d])
  BY DEF Init, Idle, Shaped, ForRequest, ForBot, ForChannel, Provisioning
<1> QED BY <1>1, <1>2 DEF Typed

LEMMA NextTypes == ASSUME Typed, [Next]_vars PROVE Typed'
<1>1. CASE Next
  <2>1. disturbed' = Disturbed /\ disturbed' \subseteq Bots BY <1>1 DEF Next, Typed, TypeOK, Disturbed
  <2>2. ASSUME NEW c \in Calls, Enter(c) \/ Continue(c) \/ Crash(c) PROVE Typed'
    BY <2>1, <2>2, HandlersTypes, ConnectTypes
  <2>3. CASE ReadStatus \/ Lapse
    <3>1. call' = call /\ setups' = setups BY <2>3 DEF ReadStatus, Lapse
    <3>2. \A d \in Calls : Shaped(call[d])' BY <3>1 DEF Typed, Shaped
    <3>3. CASE ReadStatus BY <2>1, <3>1, <3>2, <3>3, ExpiredTyped DEF ReadStatus, Typed, TypeOK
    <3>4. CASE Lapse BY <2>1, <3>1, <3>2, <3>4 DEF Lapse, Typed, TypeOK
    <3> QED BY <2>3, <3>3, <3>4
  <2> QED BY <1>1, <2>1, <2>2, <2>3, OpenLinkTypes DEF Next
<1>2. CASE UNCHANGED vars
  <2>1. \A d \in Calls : Shaped(call[d])' BY <1>2 DEF vars, Typed, Shaped
  <2> QED BY <1>2, <2>1 DEF vars, Typed, TypeOK
<1> QED BY <1>1, <1>2

\* Every variable keeps its type.
THEOREM TelegramIsTyped == Spec => []TypeOK
<1>1. Init => Typed BY InitTypes
<1>2. Typed /\ [Next]_vars => Typed' BY NextTypes
<1>3. Typed => TypeOK BY DEF Typed
<1> QED BY <1>1, <1>2, <1>3, PTL DEF Spec
-----------------------------------------------------------------------------
\* First layer: copies. What a handler may still save over its request, whatever
\* became of the request since it loaded it: from a report's handler on, a copy
\* bound to the bot's creator, and from the channel's row on, one that names the
\* channel the handler works on, its bot and its workspace.
Faithful(k) ==
    /\ k.step = "started" => k.copy.status = "pending"
    /\ k.step = "cancelling" => k.copy.status \in Open
    /\ k.step \in {"binding", "failing"} => k.copy.status \in {"awaiting", "provisioning"}
    /\ k.step = "binding" => k.copy.account = Creator[k.bot]
    /\ k.step \in {"checking", "writing"} =>
          /\ k.copy.status = "provisioning" /\ k.copy.bot = k.bot
          /\ k.copy.account = Creator[k.bot]
    /\ k.step \in Provisioning =>
          /\ k.copy.status = "provisioning" /\ k.copy.bot \in Bots
          /\ k.copy.account = Creator[k.copy.bot]
          /\ k.copy.channel = k.i /\ k.copy.bot = k.chan.bot /\ k.copy.owner = k.chan.owner
Finished(q) == q.status = "connected" =>
    q.bot \in Bots /\ q.account = Creator[q.bot] /\ q.channel \in Channels
Copies ==
    /\ \A c \in Calls : Faithful(call[c])
    /\ \A r \in Requests : Finished(request[r])

\* What no step does to a finished request but save a copy over it.
LEMMA ExpiredKeeps ==
    ASSUME Typed, NEW r \in Requests
    PROVE  /\ request[r].status = "connected" => Expired[r] = request[r]
           /\ Expired[r].status = "connected" => Expired[r] = request[r]
BY DEF Expired, Typed, TypeOK, Request

LEMMA OpenLinkKeeps ==
    ASSUME Typed, OpenLink, NEW r \in Requests,
           request[r].status = "connected" \/ request'[r].status = "connected"
    PROVE  request'[r] = request[r]
<1>1. PICK n \in Requests, w \in Workspaces :
        /\ request[n] = NoRequest
        /\ request' = [s \in Requests |->
              IF s = n THEN [NoRequest EXCEPT !.status = "pending", !.owner = w]
              ELSE IF Expired[s].owner = w /\ Expired[s].status \in Open
                   THEN [request[s] EXCEPT !.status = "cancelled"] ELSE Expired[s]]
  BY DEF OpenLink
<1>2. /\ [NoRequest EXCEPT !.status = "pending", !.owner = w].status = "pending"
      /\ [request[r] EXCEPT !.status = "cancelled"].status = "cancelled"
      /\ NoRequest.status = "absent"
  BY DEF NoRequest, Typed, TypeOK, Request
<1>3. CASE request[r].status = "connected"
  <2>1. r # n /\ Expired[r] = request[r] /\ Expired[r].status \notin Open
    BY <1>1, <1>2, <1>3, ExpiredKeeps DEF Open
  <2> QED BY <1>1, <2>1
<1>4. CASE request'[r].status = "connected"
  <2>1. \/ request'[r] = [NoRequest EXCEPT !.status = "pending", !.owner = w]
        \/ request'[r] = [request[r] EXCEPT !.status = "cancelled"]
        \/ request'[r] = Expired[r]
    BY <1>1
  <2> QED BY <1>2, <1>4, <2>1, ExpiredKeeps
<1> QED BY <1>3, <1>4

LEMMA SavedFinished ==
    ASSUME Typed, Copies, NEW r \in Requests, NEW q, Finished(q),
           SaveRequest(r, q) \/ UNCHANGED <<request, recent>>
    PROVE  \A s \in Requests : Finished(request'[s])
BY DEF Typed, TypeOK, Copies, SaveRequest, Saved

LEMMA KeptFinished ==
    ASSUME Copies, \A r \in Requests : request'[r].status = "connected" => request'[r] = request[r]
    PROVE  \A r \in Requests : Finished(request'[r])
BY DEF Copies, Finished

LEMMA HandlersFaithful ==
    ASSUME Typed, Copies, NEW c \in Calls, Enter(c) \/ Continue(c) \/ Crash(c), ~Connect(c)
    PROVE  Faithful(call'[c])
<1> USE DEF Provisioning
<1>1. Ends(c) => Faithful(call'[c]) BY DEF Ends, Becomes, Is, Faithful
<1>2. Faithful(call[c]) /\ call[c] \in Call BY Bounded DEF Copies
<1>3. ASSUME Typed, BeginStart(c) \/ Cancel(c) \/ BeginCreated(c) PROVE Faithful(call'[c])
  BY <1>3, BeginStartActs, CancelActs, BeginCreatedActs DEF Faithful, Becomes, Is
<1>4. ASSUME NEW o, NEW s \in {"testing", "disconnecting", "deleting"}, BeginOn(c, o, s)
      PROVE  Faithful(call'[c])
  <2>1. \E i \in Channels : Becomes(c, s, 0, NoRequest, i, channel[i], NoOne, 0)
    BY <1>4, BeginOnActs DEF Steps
  <2> QED BY <2>1 DEF Faithful, Becomes, Is
<1>5. Closes(c) => Faithful(call'[c]) BY <1>1, ClosesActs
<1>6. FindStart(c) => Faithful(call'[c])
  BY <1>1, FindStartActs DEF Holds, Faithful, Becomes, Is
<1>7. CASE FindCreated(c)
  <2>1. call[c].step = "created" /\ call[c].bot \in Bots
    BY <1>7 DEF FindCreated, At, Typed, Shaped, ForBot
  <2>2. ASSUME NEW r \in Matching(Creator[call[c].bot]), Late(r) \/ ~Handled(request[r], call[c].bot)
        PROVE  /\ request[r].status \in {"awaiting", "provisioning"}
               /\ request[r].account = Creator[call[c].bot]
    <3>1. r \in Requests /\ Finished(request[r]) BY DEF Matching, Copies
    <3> QED BY <2>2, <3>1 DEF Matching, Late, Handled, Finished, Channels
  <2> QED BY <1>1, <1>7, <2>1, <2>2, FindCreatedActs DEF Holds, Faithful, Becomes, Is
<1>8. CASE Bind(c)
  <2>1. call[c].step = "binding" BY <1>8 DEF Bind, At
  <2>2. PICK q : q = Bound(c) OBVIOUS
  <2>3. q.status = "provisioning" /\ q.bot = call[c].bot /\ q.account = Creator[call[c].bot]
    BY <1>2, <2>1, <2>2 DEF Bound, Faithful, Call, Request
  <2>4. Ends(c) \/ Holds(c, "checking", call[c].r, q) BY <1>8, <2>2, BindActs
  <2> QED BY <1>1, <2>3, <2>4 DEF Holds, Faithful, Becomes, Is
<1>9. CASE WriteChannel(c)
  <2>1. call[c].step = "writing" /\ call[c].bot \in Bots
    BY <1>9 DEF WriteChannel, At, Typed, Shaped, ForBot
  <2>2. /\ call[c].copy.status = "provisioning" /\ call[c].copy.bot = call[c].bot
        /\ call[c].copy.account = Creator[call[c].bot]
    BY <1>2, <2>1 DEF Faithful
  <2>3. PICK i \in Channels :
          \/ Holds(c, "failing", call[c].r, call[c].copy)
          \/ Holds(c, "failing", call[c].r, Named(c, i))
          \/ Becomes(c, "hooking", call[c].r, Named(c, i), i, Provisioned(c, i), call[c].bot, call[c].n)
    BY <1>9, WriteChannelActs DEF Holds, Goes, Takes
  <2>4. PICK q : q = Named(c, i) OBVIOUS
  <2>5. PICK ch : ch = Provisioned(c, i) OBVIOUS
  <2>6. /\ q.status = "provisioning" /\ q.bot = call[c].bot /\ q.account = Creator[q.bot]
        /\ q.owner = call[c].copy.owner /\ q.channel = i
    BY <1>2, <2>2, <2>4 DEF Named, Call, Request
  <2>7. ch.bot = q.bot /\ ch.owner = q.owner BY <2>5, <2>6 DEF Provisioned
  <2>8. CASE Holds(c, "failing", call[c].r, call[c].copy) \/ Holds(c, "failing", call[c].r, q)
    BY <2>2, <2>6, <2>8 DEF Holds, Faithful, Becomes, Is
  <2>9. CASE Becomes(c, "hooking", call[c].r, q, i, ch, call[c].bot, call[c].n)
    BY <2>1, <2>6, <2>7, <2>9 DEF Faithful, Becomes, Is
  <2> QED BY <2>3, <2>4, <2>5, <2>8, <2>9
<1>10. Check(c) => Faithful(call'[c])
  BY <1>2, GoesActs DEF Check, At, Goes, Takes, Faithful, Becomes, Is
<1>11. SetHook(c) => Faithful(call'[c])
  BY <1>2, GoesActs DEF SetHook, At, Goes, Takes, Faithful, Becomes, Is
<1>12. Activate(c) => Faithful(call'[c])
  BY <1>2, GoesActs DEF Activate, At, Goes, Takes, Faithful, Becomes, Is
<1>13. MarkError(c) => Faithful(call'[c])
  BY <1>2, GoesActs DEF MarkError, At, Goes, Takes, Faithful, Becomes, Is
<1>14. Finish(c) => Faithful(call'[c])
  BY <1>1, <1>2, GoesActs DEF Finish, At, Goes, Takes, Faithful, Becomes, Is
<1>15. ASSUME NEW s \in {"completing", "tested", "retrying", "disconnected", "deleted"}, NEW ch,
              Takes(c, s, ch)
       PROVE  Faithful(call'[c])
  BY <1>15 DEF Takes, Faithful, Becomes, Is
<1>16. Register(c) \/ Retry(c) \/ CleanUp(c) => Faithful(call'[c])
  BY <1>1, <1>15, RegisterActs, RetryActs, GoesActs DEF Goes
<1>17. CASE Test(c)
  <2>1. PICK s \in {"tested", "retrying"} :
          s = IF call[c].chan.state = "connected" THEN "tested" ELSE "retrying"
    OBVIOUS
  <2> QED BY <1>1, <1>15, <1>17, <2>1, TestActs
<1> QED BY <1>3, <1>4, <1>5, <1>6, <1>7, <1>8, <1>9, <1>10, <1>11, <1>12, <1>13, <1>14, <1>16, <1>17
  DEF Enter, Continue, Closes, BeginTest, BeginDisconnect, BeginDelete

LEMMA HandlersCopies ==
    ASSUME Typed, Copies, NEW c \in Calls, Enter(c) \/ Continue(c) \/ Crash(c)
    PROVE  Copies'
<1>1. Looks(c) \/ Asks(c) \/ Expires(c) \/ Stores(c) \/ Connect(c) =>
        \A r \in Requests : request'[r].status = "connected" => request'[r] = request[r]
  BY Frames, ExpiredKeeps DEF Connect
<1>2. ASSUME Answers(c) PROVE \A r \in Requests : Finished(request'[r])
  <2>1. PICK q : /\ call[c].r \in Requests
                 /\ SaveRequest(call[c].r, q) \/ UNCHANGED <<request, recent>>
                 /\ q.status = "connected" =>
                      /\ Finish(c) /\ q.bot = call[c].copy.bot /\ q.account = call[c].copy.account
                      /\ q.channel = call[c].copy.channel
    BY <1>2, Answering
  <2>2. ASSUME Finish(c)
        PROVE  /\ call[c].copy.bot \in Bots /\ call[c].copy.account = Creator[call[c].copy.bot]
               /\ call[c].copy.channel \in Channels
    BY <2>2 DEF Finish, At, Copies, Faithful, Typed, Shaped, ForChannel, Provisioning
  <2>3. Finished(q) BY <2>1, <2>2 DEF Finished
  <2> QED BY <2>1, <2>3, SavedFinished
<1>3. ASSUME WriteChannel(c) PROVE \A r \in Requests : Finished(request'[r])
  <2>1. call[c].r \in Requests /\ call[c].copy.status = "provisioning" /\ call[c] \in Call
    BY <1>3, Bounded DEF WriteChannel, At, Copies, Faithful, Typed, Shaped, ForRequest
  <2>2. PICK i \in Channels : SaveRequest(call[c].r, Named(c, i)) \/ UNCHANGED <<request, recent>>
    BY <1>3, WriteChannelActs
  <2>3. Finished(Named(c, i)) BY <2>1 DEF Named, Finished, Call, Request
  <2> QED BY <2>1, <2>2, <2>3, SavedFinished
<1>4. \A r \in Requests : Finished(request'[r]) BY <1>1, <1>2, <1>3, KeptFinished, Grouping
<1>5. CASE Connect(c)
  <2>1. call' = call \/ (Others(c) /\ call'[c].step = "registering")
    BY <1>5, ConnectActs DEF Becomes, Is
  <2>2. ASSUME NEW d \in Calls PROVE Faithful(call'[d])
    <3>1. CASE call'[d] = call[d] BY <3>1 DEF Copies
    <3>2. CASE call'[d].step = "registering" BY <3>2 DEF Faithful, Provisioning
    <3> QED BY <2>1, <3>1, <3>2 DEF Others, Typed, TypeOK
  <2> QED BY <1>4, <2>2 DEF Copies, Faithful, Finished
<1>6. CASE ~Connect(c)
  <2>1. Others(c) /\ Faithful(call'[c]) BY <1>6, Shapes, HandlersFaithful
  <2>2. \A d \in Calls : d # c => call'[d] = call[d] BY <2>1 DEF Others, Typed, TypeOK
  <2> QED BY <1>4, <2>1, <2>2 DEF Copies, Faithful, Finished
<1> QED BY <1>5, <1>6

LEMMA InitCopies == ASSUME Init PROVE Copies
BY DEF Init, Copies, Idle, NoRequest, Faithful, Finished, Provisioning

LEMMA NextCopies == ASSUME Typed, Copies, [Next]_vars PROVE Copies'
<1>1. ASSUME NEW c \in Calls, Enter(c) \/ Continue(c) \/ Crash(c) PROVE Copies'
  BY <1>1, HandlersCopies
<1>2. ASSUME ReadStatus \/ Lapse \/ OpenLink \/ UNCHANGED vars PROVE Copies'
  <2>1. call' = call BY <1>2 DEF ReadStatus, Lapse, OpenLink, vars
  <2>2. \A r \in Requests : request'[r].status = "connected" => request'[r] = request[r]
    BY <1>2, ExpiredKeeps, OpenLinkKeeps DEF ReadStatus, Lapse, vars
  <2>3. \A r \in Requests : Finished(request'[r]) BY <2>2, KeptFinished
  <2> QED BY <2>1, <2>3 DEF Copies
<1> QED BY <1>1, <1>2 DEF Next

\* A step that takes a request out of "connected" saves its own handler's copy
\* over it, and no handler saves a copy it loaded connected.
LEMMA LeftByStaleCopies ==
    ASSUME Typed, Copies, [Next]_vars, NEW r \in Requests,
           request[r].status = "connected", request'[r].status # "connected"
    PROVE  \E c \in Calls : /\ call[c].r = r /\ call'[c] # call[c]
                            /\ call[c].copy.status # "connected"
<1>1. ~ReadStatus /\ ~Lapse /\ ~OpenLink /\ ~UNCHANGED vars
  BY ExpiredKeeps, OpenLinkKeeps DEF ReadStatus, Lapse, vars
<1>2. ASSUME NEW c \in Calls, Enter(c) \/ Continue(c) \/ Crash(c)
      PROVE  call[c].r = r /\ call'[c] # call[c] /\ call[c].copy.status # "connected"
  <2>1. Faithful(call[c]) BY DEF Copies
  <2>2. request'[r] # request[r] OBVIOUS
  <2>3. Answers(c) \/ WriteChannel(c)
    BY <1>2, <2>2, Grouping, Frames, ExpiredKeeps DEF Connect
  <2>4. call[c].step \in {"started", "cancelling", "failing", "binding", "writing", "finishing"}
    BY <2>3 DEF Answers, SaveStart, Settle, Bind, WriteChannel, Finish, At
  <2>5. call[c].copy.status # "connected" BY <2>1, <2>4 DEF Faithful, Provisioning, Open
  <2>6. call'[c] # call[c]
    <3>1. CASE SaveStart(c) \/ Settle(c)
      BY <2>4, <3>1, ClosesActs DEF Closes, Ends, Becomes, Is
    <3>2. CASE Bind(c) BY <3>2, BindActs DEF Bind, At, Holds, Ends, Becomes, Is
    <3>3. CASE Finish(c) BY <3>3, GoesActs DEF Finish, At, Goes, Takes, Ends, Becomes, Is
    <3>4. CASE WriteChannel(c)
      BY <3>4, WriteChannelActs DEF WriteChannel, At, Goes, Takes, Holds, Becomes, Is
    <3> QED BY <2>3, <3>1, <3>2, <3>3, <3>4 DEF Answers
  <2>7. call[c].r \in Requests BY <2>4 DEF Typed, Shaped, ForRequest
  <2>8. \E q : SaveRequest(call[c].r, q) BY <2>2, <2>3, Answering, WriteChannelActs
  <2>9. call[c].r = r BY <2>2, <2>7, <2>8 DEF SaveRequest, Saved, Typed, TypeOK
  <2> QED BY <2>5, <2>6, <2>9
<1> QED BY <1>1, <1>2 DEF Next

\* A finished setup is undone only by the save of a handler that had loaded the
\* request unfinished.
THEOREM ConnectedStays == Spec => ConnectedIsLeftByStaleCopiesOnly
<1>1. Init => Typed /\ Copies BY InitTypes, InitCopies
<1>2. Typed /\ Copies /\ [Next]_vars => Typed' /\ Copies' BY NextTypes, NextCopies
<1>3. Typed /\ Copies /\ [Next]_vars =>
        [\A r \in Requests :
        request[r].status = "connected" /\ request'[r].status # "connected" =>
            \E c \in Calls : /\ call[c].r = r /\ call'[c] # call[c]
                            /\ call[c].copy.status # "connected"]_vars
  BY LeftByStaleCopies
<1> QED BY <1>1, <1>2, <1>3, PTL DEF Spec, ConnectedIsLeftByStaleCopiesOnly

-----------------------------------------------------------------------------
\* Second layer: claims. Who says which bot in which workspace a channel's id
\* stands for: its row, every handler that works on it, every finished request.
\* They agree, an id nobody generated is claimed by nobody, and neither is the
\* one a report's handler may still insert.
Identity(x) == <<x.bot, x.owner>>
Claimed(i) ==
    {Identity(channel[j]) : j \in {j \in {i} : channel[j] # NoChannel}}
    \cup {Identity(call[c].chan) : c \in {c \in Calls : call[c].i = i}}
    \cup {Identity(request[r]) :
             r \in {r \in Requests : request[r].status = "connected" /\ request[r].channel = i}}
OneIdentity == \A i \in Channels : \A x, y \in Claimed(i) : x = y /\ x[1] \in Bots
Above == \A n \in Channels : n > setups => Claimed(n) = {}
Fresh ==
    \A c \in Calls : call[c].step \in ForBot =>
        /\ Claimed(call[c].n) = {}
        /\ \A d \in Calls \ {c} : call[d].step \in ForBot => call[d].n # call[c].n
Claims == OneIdentity /\ Above /\ Fresh

\* The claims, one by one, before and after a step.
LEMMA ClaimedHas ==
    ASSUME NEW i
    PROVE  /\ channel[i] # NoChannel => Identity(channel[i]) \in Claimed(i)
           /\ \A c \in Calls : call[c].i = i => Identity(call[c].chan) \in Claimed(i)
           /\ \A r \in Requests : request[r].status = "connected" /\ request[r].channel = i
                                     => Identity(request[r]) \in Claimed(i)
           /\ \A x \in Claimed(i) :
                \/ channel[i] # NoChannel /\ x = Identity(channel[i])
                \/ \E c \in Calls : call[c].i = i /\ x = Identity(call[c].chan)
                \/ \E r \in Requests : /\ request[r].status = "connected" /\ request[r].channel = i
                                       /\ x = Identity(request[r])
BY DEF Claimed

LEMMA ClaimedHasNext ==
    ASSUME NEW i
    PROVE  \A x \in Claimed(i)' :
                \/ channel'[i] # NoChannel /\ x = Identity(channel'[i])
                \/ \E c \in Calls : call'[c].i = i /\ x = Identity(call'[c].chan)
                \/ \E r \in Requests : /\ request'[r].status = "connected" /\ request'[r].channel = i
                                       /\ x = Identity(request'[r])
BY DEF Claimed, Identity

\* What keeps the claims from growing: rows, copies and finished requests take
\* their identity from the row or from the handler's copy.
RowsKept(c) ==
    \A i \in Channels :
        \/ channel'[i] \in {channel[i], NoChannel}
        \/ i = call[c].i /\ Identity(channel'[i]) = Identity(call[c].chan)
        \/ channel[i] # NoChannel /\ Identity(channel'[i]) = Identity(channel[i])
CallKept(c) ==
    \/ call'[c].i = 0
    \/ call'[c].i = call[c].i /\ Identity(call'[c].chan) = Identity(call[c].chan)
    \/ /\ channel[call'[c].i] # NoChannel
       /\ Identity(call'[c].chan) = Identity(channel[call'[c].i])
ConnectedKept(c) ==
    \A r \in Requests : request'[r].status = "connected" =>
        \/ request'[r] = request[r]
        \/ request'[r].channel = call[c].i /\ Identity(request'[r]) = Identity(call[c].chan)
LEMMA ClaimedShrinks ==
    ASSUME Typed, NEW c \in Calls, Others(c),
           RowsKept(c), CallKept(c), ConnectedKept(c),
           NEW i \in Channels
    PROVE  Claimed(i)' \subseteq Claimed(i)
<1>1. SUFFICES ASSUME NEW x \in Claimed(i)' PROVE x \in Claimed(i) OBVIOUS
<1>2. i # 0 BY DEF Channels
<1>3. CASE channel'[i] # NoChannel /\ x = Identity(channel'[i]) BY <1>3, ClaimedHas DEF RowsKept
<1>4. ASSUME NEW d \in Calls, call'[d].i = i, x = Identity(call'[d].chan) PROVE x \in Claimed(i)
  <2>1. CASE d = c BY <1>2, <1>4, <2>1, ClaimedHas DEF CallKept
  <2>2. CASE d # c
    <3>1. call'[d] = call[d] BY <2>2 DEF Others, Typed, TypeOK
    <3> QED BY <1>4, <3>1, ClaimedHas
  <2> QED BY <2>1, <2>2
<1>5. ASSUME NEW r \in Requests, request'[r].status = "connected", request'[r].channel = i,
             x = Identity(request'[r])
      PROVE  x \in Claimed(i)
  BY <1>5, ClaimedHas DEF ConnectedKept
<1> QED BY <1>1, <1>3, <1>4, <1>5, ClaimedHasNext

\* A step that adds at most the claim on one new id keeps the invariant.
LEMMA ClaimsStep ==
    ASSUME Typed, Claims, NEW c \in Calls, Others(c), NEW n, NEW x,
           \A i \in Channels : i # n => Claimed(i)' \subseteq Claimed(i),
           n \in Channels => /\ Claimed(n)' \subseteq {x} /\ x[1] \in Bots /\ n <= setups'
                            /\ \A d \in Calls : call'[d].step \in ForBot => call'[d].n # n,
           setups' \in 0..MaxSetups, setups <= setups',
           call'[c].step \in ForBot =>
              \/ call[c].step \in ForBot /\ call'[c].n = call[c].n
              \/ call'[c].n = setups + 1 /\ setups + 1 \in Channels
    PROVE  Claims'
<1>1. OneIdentity'
  <2>1. SUFFICES ASSUME NEW i \in Channels, NEW y \in Claimed(i)', NEW z \in Claimed(i)'
        PROVE  y = z /\ y[1] \in Bots
    BY DEF OneIdentity
  <2> QED BY DEF Claims, OneIdentity
<1>2. Above'
  <2>1. SUFFICES ASSUME NEW i \in Channels, i > setups' PROVE Claimed(i)' = {}
    BY DEF Above
  <2>2. i > setups /\ i # n BY <2>1 DEF Typed, TypeOK, Channels
  <2> QED BY <2>2 DEF Claims, Above
<1>3. \A d \in Calls : d # c => call'[d] = call[d] BY DEF Others, Typed, TypeOK
<1>4. \A d \in Calls : call[d].step \in ForBot => call[d].n \in Channels /\ call[d].n <= setups
  BY DEF Typed, TypeOK, Shaped, Channels
<1>5. setups \in Nat BY DEF Typed, TypeOK
<1>6. ASSUME NEW d \in Calls, call'[d].step \in ForBot
      PROVE  /\ call'[d].n \in Channels
             /\ \/ call[d].step \in ForBot /\ call'[d].n = call[d].n
                \/ d = c /\ call'[d].n = setups + 1
             /\ Claimed(call'[d].n) = {}
  <2>1. \/ call[d].step \in ForBot /\ call'[d].n = call[d].n
        \/ d = c /\ call'[d].n = setups + 1 /\ setups + 1 \in Channels
    BY <1>3, <1>6
  <2>2. CASE call[d].step \in ForBot /\ call'[d].n = call[d].n
    BY <1>4, <2>2 DEF Claims, Fresh
  <2>3. CASE d = c /\ call'[d].n = setups + 1 /\ setups + 1 \in Channels
    BY <1>5, <2>3 DEF Claims, Above
  <2> QED BY <2>1, <2>2, <2>3
<1>7. Fresh'
  <2>1. SUFFICES ASSUME NEW d \in Calls, call'[d].step \in ForBot
        PROVE  /\ Claimed(call[d].n)' = {}
               /\ \A e \in Calls \ {d} : call'[e].step \in ForBot => call'[e].n # call'[d].n
    BY DEF Fresh
  <2>2. PICK m : m = call'[d].n OBVIOUS
  <2>3. m \in Channels /\ Claimed(m) = {} /\ m # n BY <1>6, <2>1, <2>2
  <2>4. Claimed(m)' = {} BY <2>3
  <2>5. ASSUME NEW e \in Calls \ {d}, call'[e].step \in ForBot PROVE call'[e].n # call'[d].n
    BY <1>4, <1>5, <1>6, <2>1, <2>5 DEF Claims, Fresh
  <2>6. Claimed(call[d].n)' = {} BY <2>2, <2>4 DEF Claimed
  <2> QED BY <2>5, <2>6
<1> QED BY <1>1, <1>2, <1>7 DEF Claims

LEMMA ClaimsKeep ==
    ASSUME Typed, Claims, NEW c \in Calls, Others(c), RowsKept(c), CallKept(c), ConnectedKept(c),
           setups' \in 0..MaxSetups, setups <= setups',
           call'[c].step \in ForBot =>
              \/ call[c].step \in ForBot /\ call'[c].n = call[c].n
              \/ call'[c].n = setups + 1 /\ setups + 1 \in Channels
    PROVE  Claims'
<1>1. \A i \in Channels : Claimed(i)' \subseteq Claimed(i)
  BY ClaimedShrinks
<1>2. 0 \notin Channels BY DEF Channels
<1> QED BY <1>1, <1>2, ClaimsStep

LEMMA HandlersKeepIdentity ==
    ASSUME Typed, Copies, NEW c \in Calls, Enter(c) \/ Continue(c) \/ Crash(c),
           ~Connect(c), ~WriteChannel(c)
    PROVE  /\ CallKept(c)
           /\ call'[c].step \in ForBot =>
                \/ call[c].step \in ForBot /\ call'[c].n = call[c].n
                \/ call'[c].n = setups + 1 /\ setups + 1 \in Channels
<1> DEFINE Kept == /\ CallKept(c)
                   /\ call'[c].step \in ForBot =>
                        \/ call[c].step \in ForBot /\ call'[c].n = call[c].n
                        \/ call'[c].n = setups + 1 /\ setups + 1 \in Channels
<1>1. Ends(c) => Kept BY DEF CallKept, Ends, Becomes, Is, ForBot
<1>2. ASSUME NEW s, NEW ch, Takes(c, s, ch), Identity(ch) = Identity(call[c].chan),
             s \in ForBot => call[c].step \in ForBot
      PROVE  Kept
  BY <1>2 DEF CallKept, Takes, Becomes, Is
<1>3. ASSUME NEW s, Goes(c, s), s \in ForBot => call[c].step \in ForBot PROVE Kept
  BY <1>2, <1>3 DEF Goes
<1>4. ASSUME NEW s, NEW r, NEW q, Holds(c, s, r, q), s \in ForBot => call[c].step \in ForBot
      PROVE  Kept
  BY <1>4 DEF CallKept, Holds, Becomes, Is
<1>5. /\ \A x : Identity([call[c].chan EXCEPT !.state = x]) = Identity(call[c].chan)
      /\ Identity([call[c].chan EXCEPT !.linked = TRUE]) = Identity(call[c].chan)
      /\ Identity(Cleared(call[c].chan)) = Identity(call[c].chan)
  <2>1. call[c].chan \in Channel BY Bounded DEF Call
  <2> QED BY <2>1 DEF Identity, Cleared, Channel
<1> HIDE DEF Kept
<1>6. BeginStart(c) \/ Cancel(c) => Kept
  BY BeginStartActs, CancelActs DEF Kept, CallKept, Becomes, Is, ForBot
<1>7. ASSUME BeginCreated(c) PROVE Kept
  <2>1. setups + 1 \in Channels BY <1>7, Bounded DEF BeginCreated, NextSetup, Channels
  <2> QED BY <1>7, <2>1, BeginCreatedActs DEF Kept, CallKept, Becomes, Is
<1>8. ASSUME NEW o, NEW s \in {"testing", "disconnecting", "deleting"}, BeginOn(c, o, s) PROVE Kept
  <2>1. \E i \in Channels : channel[i] # NoChannel
                            /\ Becomes(c, s, 0, NoRequest, i, channel[i], NoOne, 0)
    BY <1>8, BeginOnActs DEF Steps
  <2> QED BY <2>1 DEF Kept, CallKept, Becomes, Is, ForBot
<1>9. Closes(c) => Kept BY <1>1, ClosesActs
<1>10. FindStart(c) => Kept BY <1>1, <1>4, FindStartActs DEF ForBot
<1>11. FindCreated(c) => Kept BY <1>1, <1>4, FindCreatedActs DEF FindCreated, At, ForBot
<1>12. Bind(c) => Kept BY <1>1, <1>4, BindActs DEF Bind, At, ForBot
<1>13. Check(c) => Kept BY <1>3, GoesActs DEF Check, At, ForBot
<1>14. SetHook(c) \/ Activate(c) \/ MarkError(c) \/ Finish(c) \/ CleanUp(c) => Kept
  BY <1>1, <1>3, GoesActs DEF ForBot
<1>15. Register(c) \/ Retry(c) => Kept BY <1>1, <1>2, <1>5, RegisterActs, RetryActs DEF ForBot
<1>16. ASSUME Test(c) PROVE Kept
  <2>1. PICK s \in {"tested", "retrying"} :
          s = IF call[c].chan.state = "connected" THEN "tested" ELSE "retrying"
    OBVIOUS
  <2>2. s \notin ForBot BY DEF ForBot
  <2>3. "tested" \notin ForBot BY DEF ForBot
  <2>4. CASE Takes(c, "tested", Cleared(call[c].chan)) BY <1>2, <1>5, <2>3, <2>4
  <2>5. CASE Takes(c, s, [call[c].chan EXCEPT !.linked = TRUE]) BY <1>2, <1>5, <2>2, <2>5
  <2> QED BY <1>1, <1>16, <2>1, <2>4, <2>5, TestActs
<1>17. BeginTest(c) \/ BeginDisconnect(c) \/ BeginDelete(c) => Kept
  BY <1>8 DEF BeginTest, BeginDisconnect, BeginDelete
<1>18. Kept BY <1>6, <1>7, <1>17, <1>9, <1>10, <1>11, <1>12, <1>13, <1>14, <1>15, <1>16
  DEF Enter, Continue, Closes
<1> QED BY <1>18 DEF Kept

LEMMA HandlersClaims ==
    ASSUME Typed, Copies, Claims, NEW c \in Calls, Enter(c) \/ Continue(c) \/ Crash(c),
           ~Connect(c), ~WriteChannel(c)
    PROVE  Claims'
<1>1. Others(c) BY Shapes
<1>2. setups' \in 0..MaxSetups /\ setups <= setups' BY Counting DEF Counted
<1>3. RowsKept(c)
  <2>1. Looks(c) \/ Asks(c) \/ Expires(c) \/ Answers(c) => RowsKept(c) BY Frames DEF RowsKept
  <2>2. CASE Stores(c)
    <3>1. call[c].i \in Channels BY <2>2, Storing
    <3>2. CASE UNCHANGED channel BY <3>2 DEF RowsKept
    <3>3. ASSUME NEW ch, SaveChannel(call[c].i, ch), NEW x \in {call[c].chan, channel[call[c].i]},
                 ch = NoChannel \/ (ch.bot = x.bot /\ ch.owner = x.owner /\
                                    (x = NoChannel => x = call[c].chan))
          PROVE  RowsKept(c)
      BY <3>1, <3>3 DEF RowsKept, SaveChannel, Identity, Typed, TypeOK
    <3> QED BY <2>2, <3>2, <3>3, Storing
  <2> QED BY <2>1, <2>2, Grouping
<1>4. ConnectedKept(c)
  <2>1. Looks(c) \/ Asks(c) \/ Stores(c) \/ Expires(c) => ConnectedKept(c)
    BY Frames, ExpiredKeeps DEF ConnectedKept
  <2>2. CASE Answers(c)
    <3>1. PICK q : /\ call[c].r \in Requests
                   /\ SaveRequest(call[c].r, q) \/ UNCHANGED <<request, recent>>
                   /\ q.status = "connected" =>
                        /\ Finish(c) /\ q.bot = call[c].copy.bot
                        /\ q.channel = call[c].copy.channel /\ q.owner = call[c].copy.owner
      BY <2>2, Answering
    <3>2. Finish(c) => /\ call[c].copy.channel = call[c].i /\ call[c].copy.bot = call[c].chan.bot
                       /\ call[c].copy.owner = call[c].chan.owner
      BY DEF Finish, At, Copies, Faithful, Provisioning
    <3> QED BY <3>1, <3>2 DEF ConnectedKept, SaveRequest, Saved, Identity, Typed, TypeOK
  <2> QED BY <2>1, <2>2, Grouping
<1> QED BY <1>1, <1>2, <1>3, <1>4, HandlersKeepIdentity, ClaimsKeep

\* A row inserted at an id nobody claims.
LEMMA ClaimedNew ==
    ASSUME Typed, NEW c \in Calls, Others(c), NEW n \in Channels, Claimed(n) = {}, NEW ch,
           SaveChannel(n, ch), call' = call \/ (call'[c].i = n /\ call'[c].chan = ch),
           \A r \in Requests : request'[r].status = "connected" => request'[r] = request[r]
    PROVE  /\ \A i \in Channels : i # n => Claimed(i)' \subseteq Claimed(i)
           /\ Claimed(n)' \subseteq {Identity(ch)}
<1>1. \A d \in Calls : d # c => call'[d] = call[d] BY DEF Others, Typed, TypeOK
<1>2. /\ channel'[n] = ch /\ \A i \in Channels : i # n => channel'[i] = channel[i]
  BY DEF SaveChannel, Typed, TypeOK
<1>3. ASSUME NEW i \in Channels, i # n, NEW x \in Claimed(i)' PROVE x \in Claimed(i)
  <2>1. channel'[i] = channel[i] BY <1>2, <1>3
  <2>2. CASE channel'[i] # NoChannel /\ x = Identity(channel'[i]) BY <2>1, <2>2, ClaimedHas
  <2>3. ASSUME NEW d \in Calls, call'[d].i = i, x = Identity(call'[d].chan) PROVE x \in Claimed(i)
    <3>1. call'[d] = call[d] BY <1>1, <1>3, <2>3
    <3> QED BY <2>3, <3>1, ClaimedHas
  <2>4. ASSUME NEW r \in Requests, request'[r].status = "connected", request'[r].channel = i,
               x = Identity(request'[r])
        PROVE  x \in Claimed(i)
    <3>1. request'[r] = request[r] BY <2>4
    <3> QED BY <2>4, <3>1, ClaimedHas
  <2> QED BY <1>3, <2>2, <2>3, <2>4, ClaimedHasNext
<1>4. ASSUME NEW x \in Claimed(n)' PROVE x = Identity(ch)
  <2>1. CASE channel'[n] # NoChannel /\ x = Identity(channel'[n]) BY <1>2, <2>1
  <2>2. ASSUME NEW d \in Calls, call'[d].i = n, x = Identity(call'[d].chan) PROVE x = Identity(ch)
    <3>1. call[d].i # n BY ClaimedHas
    <3>2. call' # call /\ d = c BY <1>1, <2>2, <3>1
    <3> QED BY <2>2, <3>2
  <2>3. ASSUME NEW r \in Requests, request'[r].status = "connected", request'[r].channel = n PROVE FALSE
    <3>1. request'[r] = request[r] BY <2>3
    <3> QED BY <2>3, <3>1, ClaimedHas
  <2> QED BY <1>4, <2>1, <2>2, <2>3, ClaimedHasNext
<1> QED BY <1>3, <1>4

LEMMA WriteChannelClaims ==
    ASSUME Typed, Copies, Claims, NEW c \in Calls, WriteChannel(c)
    PROVE  Claims'
<1>1. call[c] \in Call /\ Faithful(call[c]) /\ call[c].step = "writing" BY DEF Typed, TypeOK, Copies, WriteChannel, At
<1>2. call[c].r \in Requests /\ call[c].bot \in Bots /\ call[c].n \in Channels /\ call[c].n <= setups
  BY <1>1 DEF Typed, TypeOK, Shaped, ForRequest, ForBot, Channels
<1>3. Others(c) BY WriteChannelActs
<1>4. setups' \in 0..MaxSetups /\ setups <= setups' /\ setups' = setups BY Bounded DEF WriteChannel
<1>5. ASSUME NEW q, UNCHANGED <<request, recent, channel>>, Holds(c, "failing", call[c].r, q)
      PROVE  Claims'
  <2>1. CallKept(c) /\ call'[c].step \notin ForBot BY <1>5 DEF CallKept, Holds, Becomes, Is, ForBot
  <2>2. RowsKept(c) /\ ConnectedKept(c) BY <1>5 DEF RowsKept, ConnectedKept
  <2> QED BY <1>3, <1>4, <2>1, <2>2, ClaimsKeep
<1>6. ASSUME NEW i \in Channels, i \in Chosen(call[c].bot, call[c].n),
             ~Foreign(channel[i], call[c].copy.owner), NEW ch, ch = Provisioned(c, i), SaveChannel(i, ch),
             NEW q, q = Named(c, i), SaveRequest(call[c].r, q),
             Becomes(c, "hooking", call[c].r, q, i, ch, call[c].bot, call[c].n)
      PROVE  Claims'
  <2>1. q.status = "provisioning" BY <1>1, <1>6 DEF Faithful, Named, Call, Request
  <2>2. \A r \in Requests : request'[r].status = "connected" => request'[r] = request[r]
    BY <1>2, <1>6, <2>1 DEF SaveRequest, Saved, Typed, TypeOK
  <2>3. Identity(ch) = <<call[c].bot, call[c].copy.owner>> BY <1>6 DEF Identity, Provisioned
  <2>4. call'[c].step \notin ForBot /\ call'[c].i = i /\ call'[c].chan = ch BY <1>6 DEF Becomes, Is, ForBot
  <2>5. CASE i \in Existing(call[c].bot)
    <3>1. channel[i] # NoChannel /\ Identity(channel[i]) = Identity(ch)
      BY <1>6, <2>3, <2>5 DEF Existing, Foreign, Identity, NoChannel
    <3>2. RowsKept(c) BY <1>6, <3>1 DEF RowsKept, SaveChannel, Typed, TypeOK
    <3>3. CallKept(c) BY <2>4, <3>1 DEF CallKept
    <3>4. ConnectedKept(c) BY <2>2 DEF ConnectedKept
    <3> QED BY <1>3, <1>4, <2>2, <2>4, <3>2, <3>3, <3>4, ClaimsKeep
  <2>6. CASE i \notin Existing(call[c].bot)
    <3>1. i = call[c].n BY <1>6, <2>6 DEF Chosen
    <3>2. Claimed(i) = {} /\ \A d \in Calls \ {c} : call[d].step \in ForBot => call[d].n # i
      BY <1>1, <3>1 DEF Claims, Fresh, ForBot
    <3>3. /\ \A j \in Channels : j # i => Claimed(j)' \subseteq Claimed(j)
          /\ Claimed(i)' \subseteq {Identity(ch)}
      BY <1>3, <1>6, <2>2, <2>4, <3>2, ClaimedNew
    <3>4. \A d \in Calls : call'[d].step \in ForBot => call'[d].n # i
      BY <1>3, <2>4, <3>2 DEF Others, Typed, TypeOK
    <3>5. Identity(ch)[1] \in Bots BY <1>2, <2>3
    <3> QED BY <1>2, <1>3, <1>4, <2>4, <3>1, <3>3, <3>4, <3>5, ClaimsStep
  <2> QED BY <2>5, <2>6
<1>7. PICK i \in Channels :
        /\ i \in Chosen(call[c].bot, call[c].n)
        /\ \/ /\ UNCHANGED <<request, recent, channel>>
              /\ \E q : Holds(c, "failing", call[c].r, q)
           \/ /\ ~Foreign(channel[i], call[c].copy.owner)
              /\ SaveChannel(i, Provisioned(c, i)) /\ SaveRequest(call[c].r, Named(c, i))
              /\ Becomes(c, "hooking", call[c].r, Named(c, i), i, Provisioned(c, i), call[c].bot,
                         call[c].n)
  BY WriteChannelActs DEF Goes, Takes, Holds
<1> QED BY <1>5, <1>6, <1>7

LEMMA ConnectClaims ==
    ASSUME Typed, Claims, NEW c \in Calls, Connect(c)
    PROVE  Claims'
<1>1. /\ setups + 1 \in Channels /\ setups \in Nat /\ setups' = setups + 1
      /\ setups' \in 0..MaxSetups /\ setups <= setups'
  BY Bounded DEF Connect, NextSetup, Channels
<1>2. Claimed(setups + 1) = {} BY <1>1 DEF Claims, Above
<1>3. PICK ch : /\ SaveChannel(setups + 1, ch) /\ ch.bot \in Bots
                /\ \/ call' = call
                   \/ /\ Others(c)
                      /\ Becomes(c, "registering", 0, NoRequest, setups + 1, ch, NoOne, 0)
  <2>1. PICK w \in Workspaces, b \in Bots :
      \/ call' = call /\ SaveChannel(setups + 1, Made(w, b, FALSE))
      \/ /\ Available(b, 0) /\ SaveChannel(setups + 1, Made(w, b, TRUE))
         /\ Others(c)
         /\ Becomes(c, "registering", 0, NoRequest, setups + 1, Made(w, b, TRUE), NoOne, 0)
    BY ConnectActs
  <2>2. Made(w, b, FALSE).bot = b /\ Made(w, b, TRUE).bot = b BY DEF Made
  <2> QED BY <2>1, <2>2
<1>4. Others(c) BY <1>3 DEF Others, Typed, TypeOK
<1>5. request' = request BY DEF Connect
<1>6. call' = call \/ (call'[c].i = setups + 1 /\ call'[c].chan = ch) BY <1>3 DEF Becomes, Is
<1>7. PICK n \in Channels : n = setups + 1 BY <1>1
<1>8. /\ \A j \in Channels : j # n => Claimed(j)' \subseteq Claimed(j)
      /\ Claimed(n)' \subseteq {Identity(ch)}
  <2>1. Claimed(n) = {} /\ SaveChannel(n, ch) /\ (call' = call \/ (call'[c].i = n /\ call'[c].chan = ch))
    BY <1>2, <1>3, <1>6, <1>7
  <2> QED BY <1>4, <1>5, <2>1, ClaimedNew
<1>9. call'[c].step \in ForBot => call[c].step \in ForBot /\ call'[c].n = call[c].n
  BY <1>3 DEF Becomes, Is, ForBot
<1>10. \A d \in Calls : call'[d].step \in ForBot => call[d].step \in ForBot /\ call'[d].n = call[d].n
  BY <1>4, <1>9 DEF Others, Typed, TypeOK
<1>11. \A d \in Calls : call'[d].step \in ForBot => call'[d].n # n
  BY <1>1, <1>7, <1>10 DEF Typed, TypeOK, Shaped
<1>12. n <= setups' BY <1>1, <1>7
<1>13. setups' \in 0..MaxSetups /\ setups <= setups' BY <1>1
<1>14. Identity(ch)[1] \in Bots BY <1>3 DEF Identity
<1> QED BY <1>4, <1>8, <1>9, <1>11, <1>12, <1>13, <1>14, ClaimsStep

LEMMA NoCallClaims ==
    ASSUME Typed, Claims, UNCHANGED <<call, channel, setups>>,
           \A r \in Requests : request'[r].status = "connected" => request'[r] = request[r]
    PROVE  Claims'
<1>1. ASSUME NEW i, NEW x \in Claimed(i)' PROVE x \in Claimed(i)
  BY <1>1, ClaimedHas, ClaimedHasNext
<1>2. OneIdentity' BY <1>1 DEF Claims, OneIdentity
<1>3. Above' BY <1>1 DEF Claims, Above
<1>4. ASSUME NEW c \in Calls, call'[c].step \in ForBot PROVE Claimed(call[c].n)' = {}
  <2>1. PICK n : n = call[c].n OBVIOUS
  <2>2. Claimed(n) = {} /\ call'[c].n = n BY <1>4, <2>1 DEF Claims, Fresh
  <2>3. Claimed(n)' = {} BY <1>1, <2>2
  <2> QED BY <2>2, <2>3 DEF Claimed
<1>5. Fresh' BY <1>4 DEF Claims, Fresh
<1> QED BY <1>2, <1>3, <1>5 DEF Claims

LEMMA InitClaims == ASSUME Init PROVE Claims
<1>1. \A i \in Channels : Claimed(i) = {} BY ClaimedHas DEF Init, Idle, NoRequest, Channels
<1>2. \A c \in Calls : call[c].step \notin ForBot BY DEF Init, Idle, ForBot
<1> QED BY <1>1, <1>2 DEF Claims, OneIdentity, Above, Fresh

LEMMA NextClaims == ASSUME Typed, Copies, Claims, [Next]_vars PROVE Claims'
<1>1. ASSUME NEW c \in Calls, Enter(c) \/ Continue(c) \/ Crash(c) PROVE Claims'
  BY <1>1, HandlersClaims, ConnectClaims, WriteChannelClaims
<1>2. ASSUME ReadStatus \/ Lapse \/ OpenLink \/ UNCHANGED vars PROVE Claims'
  <2>1. UNCHANGED <<call, channel, setups>> BY <1>2 DEF ReadStatus, Lapse, OpenLink, vars
  <2>2. \A r \in Requests : request'[r].status = "connected" => request'[r] = request[r]
    BY <1>2, ExpiredKeeps, OpenLinkKeeps DEF ReadStatus, Lapse, vars
  <2> QED BY <2>1, <2>2, NoCallClaims
<1> QED BY <1>1, <1>2 DEF Next

\* A connected request names a bot of its own account and a channel that, while
\* it exists, is that bot's in the requester's workspace.
THEOREM ConnectedRequestsTellTheTruth == Spec => []RequestTellsTheTruth
<1>1. Init => Typed /\ Copies /\ Claims BY InitTypes, InitCopies, InitClaims
<1>2. Typed /\ Copies /\ Claims /\ [Next]_vars => Typed' /\ Copies' /\ Claims'
  BY NextTypes, NextCopies, NextClaims
<1>3. Typed /\ Copies /\ Claims => RequestTellsTheTruth
  <2>1. SUFFICES ASSUME Typed, Copies, Claims, NEW r \in Requests, request[r].status = "connected"
        PROVE  /\ request[r].bot # NoOne /\ request[r].account = Creator[request[r].bot]
               /\ request[r].channel # 0
               /\ channel[request[r].channel] # NoChannel =>
                     /\ channel[request[r].channel].bot = request[r].bot
                     /\ channel[request[r].channel].owner = request[r].owner
    BY DEF RequestTellsTheTruth
  <2>2. /\ request[r].bot \in Bots /\ request[r].account = Creator[request[r].bot]
        /\ request[r].channel \in Channels
    BY <2>1 DEF Copies, Finished
  <2>3. PICK i \in Channels : i = request[r].channel BY <2>2
  <2>4. Identity(request[r]) \in Claimed(i) BY <2>1, <2>3, ClaimedHas
  <2>5. channel[i] # NoChannel => Identity(channel[i]) = Identity(request[r])
    BY <2>1, <2>4, ClaimedHas DEF Claims, OneIdentity
  <2>6. i # 0 BY DEF Channels
  <2> QED BY <2>2, <2>3, <2>5, <2>6 DEF Identity
<1> QED BY <1>1, <1>2, <1>3, PTL DEF Spec

-----------------------------------------------------------------------------
\* Third layer: a request in provisioning has a handler at work on it that has
\* bound it, so that its copy names the request's bot; the unique indexes then
\* keep every other handler's save away from it, and let this one's save through.
AtWork == Provisioning \cup {"checking", "writing", "failing"}
Attends(k, r, q) ==
    /\ k.step \in AtWork /\ k.r = r
    /\ k.copy.status = "provisioning" /\ k.copy.owner = q.owner
    /\ k.copy.account = q.account /\ k.copy.bot = q.bot
Attended ==
    /\ Unique(request)
    /\ crashes = 0 => \A r \in Requests : request[r].status = "provisioning" =>
          \E c \in Calls : Attends(call[c], r, request[r])

\* A step keeps the layer if it leaves the requests in provisioning alone, and
\* its own handler at work on what it was at work on.
LEMMA AttendedStep ==
    ASSUME Typed, Attended, NEW c \in Calls, Others(c), Unique(request)',
           \A r \in Requests : request'[r].status = "provisioning" =>
              \/ /\ request'[r] = request[r]
                 /\ Attends(call[c], r, request[r]) => Attends(call'[c], r, request[r])
              \/ Attends(call'[c], r, request'[r]),
           crashes \in Nat, crashes' \in Nat, crashes' >= crashes
    PROVE  Attended'
<1>1. SUFFICES ASSUME crashes' = 0, NEW r \in Requests, request'[r].status = "provisioning"
      PROVE  \E d \in Calls : Attends(call'[d], r, request'[r])
  BY DEF Attended, Attends
<1>2. crashes = 0 BY <1>1
<1>3. CASE Attends(call'[c], r, request'[r]) BY <1>3
<1>4. CASE request'[r] = request[r] /\ (Attends(call[c], r, request[r]) => Attends(call'[c], r, request[r]))
  <2>1. PICK d \in Calls : Attends(call[d], r, request[r]) BY <1>1, <1>2, <1>4 DEF Attended
  <2>2. CASE d = c BY <1>4, <2>1, <2>2
  <2>3. CASE d # c
    <3>1. call'[d] = call[d] BY <2>3 DEF Others, Typed, TypeOK
    <3> QED BY <1>4, <2>1, <3>1
  <2> QED BY <2>2, <2>3
<1> QED BY <1>1, <1>3, <1>4

\* The unique indexes hold of whatever the steps make of the requests.
LEMMA UniqueExpired == ASSUME Typed, Unique(request), request' = Expired PROVE Unique(request)'
<1>1. \A r \in Requests : /\ request'[r].owner = request[r].owner /\ request'[r].account = request[r].account
                          /\ request'[r].bot = request[r].bot
                          /\ request'[r].status # request[r].status => request'[r].status \notin Open
  BY DEF Typed, TypeOK, Expired, Request, Open
<1>2. SUFFICES ASSUME NEW r \in Requests, NEW s \in Requests, r # s
      PROVE  /\ request'[r].bot # NoOne => request'[r].bot # request'[s].bot
             /\ {request'[r].status, request'[s].status} \subseteq Open => request'[r].owner # request'[s].owner
             /\ ({request'[r].status, request'[s].status} \subseteq Open \ {"pending"}
                     /\ request'[r].account # NoOne) => request'[r].account # request'[s].account
  BY DEF Unique
<1>3. request'[r].bot # NoOne => request'[r].bot # request'[s].bot BY <1>1, <1>2 DEF Unique
<1>4. {request'[r].status, request'[s].status} \subseteq Open => request'[r].owner # request'[s].owner
  BY <1>1, <1>2 DEF Unique
<1>5. ({request'[r].status, request'[s].status} \subseteq Open \ {"pending"}
          /\ request'[r].account # NoOne) => request'[r].account # request'[s].account
  BY <1>1, <1>2 DEF Unique
<1> QED BY <1>3, <1>4, <1>5

LEMMA UniqueSaved ==
    ASSUME Typed, Unique(request), NEW r, NEW q,
           IF Accepted(r, q) THEN SaveRequest(r, q) ELSE UNCHANGED <<request, recent>>
    PROVE  Unique(request)'
<1>1. CASE Accepted(r, q) BY <1>1 DEF Accepted, SaveRequest, Unique
<1>2. CASE ~Accepted(r, q) BY <1>2 DEF Unique
<1> QED BY <1>1, <1>2

LEMMA UniqueSame == ASSUME Unique(request), UNCHANGED request PROVE Unique(request)'
BY DEF Unique

\* A save that closes a request and keeps its bot is never refused.
LEMMA Acceptable ==
    ASSUME Typed, Unique(request), NEW r \in Requests, NEW q, q.bot = request[r].bot, q.status \notin Open
    PROVE  Accepted(r, q)
<1>1. /\ Saved(r, q)[r] = q /\ \A s \in Requests : s # r => Saved(r, q)[s] = request[s]
  BY DEF Saved, Typed, TypeOK
<1>2. PICK p : p = Saved(r, q) OBVIOUS
<1>3. SUFFICES ASSUME NEW t \in Requests, NEW s \in Requests, t # s
      PROVE  /\ p[t].bot # NoOne => p[t].bot # p[s].bot
             /\ {p[t].status, p[s].status} \subseteq Open => p[t].owner # p[s].owner
             /\ ({p[t].status, p[s].status} \subseteq Open \ {"pending"}
                     /\ p[t].account # NoOne) => p[t].account # p[s].account
  BY <1>2 DEF Unique, Accepted
<1>4. p[t].bot = request[t].bot /\ p[s].bot = request[s].bot BY <1>1, <1>2
<1>5. p[t].bot # NoOne => p[t].bot # p[s].bot BY <1>3, <1>4 DEF Unique
<1>6. {p[t].status, p[s].status} \subseteq Open => t # r /\ s # r BY <1>1, <1>2
<1>7. t # r /\ s # r => p[t] = request[t] /\ p[s] = request[s] BY <1>1, <1>2
<1>8. {p[t].status, p[s].status} \subseteq Open => p[t].owner # p[s].owner BY <1>3, <1>6, <1>7 DEF Unique
<1>9. ({p[t].status, p[s].status} \subseteq Open \ {"pending"} /\ p[t].account # NoOne)
         => p[t].account # p[s].account
  BY <1>3, <1>6, <1>7 DEF Unique
<1> QED BY <1>5, <1>8, <1>9

LEMMA SavedElsewhere ==
    ASSUME Typed, NEW r \in Requests, NEW q, SaveRequest(r, q) \/ UNCHANGED <<request, recent>>,
           q.status # "provisioning"
    PROVE  \A s \in Requests : request'[s].status = "provisioning" => request'[s] = request[s]
BY DEF SaveRequest, Saved, Typed, TypeOK

\* The steps of a handler that save no request.
LEMMA HandlersAttended ==
    ASSUME Typed, Attended, NEW c \in Calls, Looks(c) \/ Asks(c) \/ Expires(c) \/ Stores(c),
           ~Connect(c), ~Crash(c)
    PROVE  Attended'
<1>1. Enter(c) \/ Continue(c) BY DEF Looks, Asks, Expires, Stores, Enter, Continue
<1>2. Others(c) BY <1>1, Shapes
<1>3. \A r, q : Attends(call[c], r, q) => Attends(call'[c], r, q)
  <2>1. CASE Check(c) \/ SetHook(c) \/ Activate(c) \/ MarkError(c)
    <3>1. \E s \in AtWork : Goes(c, s) BY <2>1, GoesActs DEF AtWork, Provisioning
    <3> QED BY <3>1 DEF Attends, Goes, Takes, Becomes, Is
  <2>2. CASE ~(Check(c) \/ SetHook(c) \/ Activate(c) \/ MarkError(c))
    <3>1. call[c].step \in {"idle", "starting", "created", "testing", "registering", "retrying",
                            "disconnecting", "deleting", "completing", "tested", "disconnected",
                            "deleted"}
      BY <2>2 DEF Looks, Asks, Expires, Stores, Cancel, FindStart, FindCreated, Test, BeginTest,
                  BeginDisconnect, BeginDelete, BeginOn, Register, Retry, CleanUp, BeginStart,
                  BeginCreated, Complete, SaveTest, Disconnect, Delete, Begin, At
    <3> QED BY <3>1 DEF Attends, AtWork, Provisioning
  <2> QED BY <2>1, <2>2
<1>4. Unique(request)' BY Frames, UniqueSame, UniqueExpired DEF Attended
<1>5. ASSUME NEW r \in Requests, request'[r].status = "provisioning" PROVE request'[r] = request[r]
  BY <1>5, Frames DEF Expired, Typed, TypeOK, Request
<1>6. crashes \in Nat /\ crashes' \in Nat /\ crashes' >= crashes
  BY <1>1, Counting, Bounded DEF Counted
<1> QED BY <1>2, <1>3, <1>4, <1>5, <1>6, AttendedStep

\* The saves. An answer ends the handler's work with the request out of
\* provisioning, or begins it.
LEMMA AnswersAttended ==
    ASSUME Typed, Attended, NEW c \in Calls, Answers(c), ~Connect(c)
    PROVE  Attended'
<1>1. call[c].r \in Requests /\ call[c] \in Call /\ call[c].copy \in Request
  BY Bounded, Answering DEF Call
<1>2. Others(c) /\ crashes \in Nat /\ crashes' \in Nat /\ crashes' >= crashes
  BY Shapes, Counting, Bounded DEF Answers, Continue, Counted
<1>3. ASSUME NEW q, q.status # "provisioning",
             IF Accepted(call[c].r, q) THEN SaveRequest(call[c].r, q)
             ELSE UNCHANGED <<request, recent>>,
             call[c].step \in AtWork => q.bot = call[c].copy.bot /\ q.status \notin Open
      PROVE  Attended'
  <2>1. Unique(request)' BY <1>3, UniqueSaved DEF Attended
  <2>2. \A r \in Requests : request'[r].status = "provisioning" => request'[r] = request[r]
    BY <1>1, <1>3, SavedElsewhere
  <2>3. ASSUME NEW r \in Requests, request'[r].status = "provisioning",
               Attends(call[c], r, request[r])
        PROVE  FALSE
    <3>1. r = call[c].r /\ q.bot = request[r].bot /\ q.status \notin Open BY <1>3, <2>3 DEF Attends
    <3>2. Accepted(r, q) BY <1>3, <3>1, Acceptable DEF Attended
    <3>3. request'[r] = q BY <1>3, <3>1, <3>2 DEF SaveRequest, Saved, Typed, TypeOK
    <3> QED BY <1>3, <2>3, <3>3
  <2> QED BY <1>2, <2>1, <2>2, <2>3, AttendedStep
<1>4. CASE SaveStart(c)
  <2>1. PICK q : q = [call[c].copy EXCEPT !.account = call[c].who, !.status = "awaiting"] OBVIOUS
  <2>2. q.status = "awaiting" BY <1>1, <2>1 DEF Request
  <2>3. call[c].step \notin AtWork BY <1>4 DEF SaveStart, At, AtWork, Provisioning
  <2>4. IF Accepted(call[c].r, q) THEN SaveRequest(call[c].r, q) ELSE UNCHANGED <<request, recent>>
    BY <1>4, <2>1 DEF SaveStart
  <2> QED BY <1>3, <2>2, <2>3, <2>4
<1>5. CASE Settle(c)
  <2>1. PICK q : q = SettledCopy(c) OBVIOUS
  <2>2. q.status \in {"failed", "cancelled"} /\ q.bot = call[c].copy.bot
    BY <1>1, <2>1 DEF Request, SettledCopy
  <2>3. IF Accepted(call[c].r, q) THEN SaveRequest(call[c].r, q) ELSE UNCHANGED <<request, recent>>
    BY <1>5, <2>1 DEF Settle
  <2> QED BY <1>3, <2>2, <2>3 DEF Open
<1>6. CASE Finish(c)
  <2>1. PICK q : q = FinishCopy(c) OBVIOUS
  <2>2. q.status = "connected" /\ q.bot = call[c].copy.bot BY <1>1, <2>1 DEF Request, FinishCopy
  <2>3. IF Accepted(call[c].r, q) THEN SaveRequest(call[c].r, q) ELSE UNCHANGED <<request, recent>>
    BY <1>6, <2>1 DEF Finish
  <2> QED BY <1>3, <2>2, <2>3 DEF Open
<1>7. CASE Bind(c)
  <2>1. call[c].step \notin AtWork BY <1>7 DEF Bind, At, AtWork, Provisioning
  <2>2. PICK q : q = Bound(c) OBVIOUS
  <2>3. q.status = "provisioning" BY <1>1, <2>2 DEF Request, Bound
  <2>4. IF Accepted(call[c].r, q) THEN SaveRequest(call[c].r, q) ELSE UNCHANGED <<request, recent>>
    BY <1>7, <2>2 DEF Bind, Bound
  <2>5. Unique(request)' BY <2>4, UniqueSaved DEF Attended
  <2>6. Accepted(call[c].r, q) => Holds(c, "checking", call[c].r, q) BY <1>7, <2>2, BindActs
  <2>7. ASSUME NEW r \in Requests, request'[r].status = "provisioning"
        PROVE  request'[r] = request[r] \/ Attends(call'[c], r, request'[r])
    <3>1. CASE Accepted(call[c].r, q)
      <4>1. request' = Saved(call[c].r, q) BY <2>4, <3>1 DEF SaveRequest
      <4>2. CASE r = call[c].r
        <5>1. request'[r] = q BY <4>1, <4>2 DEF Saved, Typed, TypeOK
        <5> QED BY <2>3, <2>6, <3>1, <4>2, <5>1 DEF Attends, AtWork, Holds, Becomes, Is
      <4>3. CASE r # call[c].r BY <4>1, <4>3 DEF Saved, Typed, TypeOK
      <4> QED BY <4>2, <4>3
    <3>2. CASE ~Accepted(call[c].r, q) BY <2>4, <3>2
    <3> QED BY <3>1, <3>2
  <2>8. ~Attends(call[c], call[c].r, call[c].copy) /\ \A r, p : ~Attends(call[c], r, p)
    BY <2>1 DEF Attends
  <2> QED BY <1>2, <2>5, <2>7, <2>8, AttendedStep
<1> QED BY <1>4, <1>5, <1>6, <1>7 DEF Answers

LEMMA WriteChannelAttended ==
    ASSUME Typed, Attended, NEW c \in Calls, WriteChannel(c), ~Connect(c)
    PROVE  Attended'
<1>1. call[c].r \in Requests /\ call[c] \in Call /\ call[c].copy \in Request
  BY Bounded DEF WriteChannel, At, Typed, Shaped, ForRequest, Call
<1>2. Others(c) /\ crashes \in Nat /\ crashes' \in Nat /\ crashes' >= crashes
  BY Shapes, Counting, Bounded DEF Continue, Counted
<1>3. PICK i \in Channels :
        \/ /\ UNCHANGED <<request, recent>>
           /\ Goes(c, "failing") \/ Holds(c, "failing", call[c].r, Named(c, i))
        \/ /\ Accepted(call[c].r, Named(c, i)) /\ SaveRequest(call[c].r, Named(c, i))
           /\ Becomes(c, "hooking", call[c].r, Named(c, i), i, Provisioned(c, i),
                      call[c].bot, call[c].n)
  BY WriteChannelActs
<1>4. PICK q : q = Named(c, i) OBVIOUS
<1>5. /\ q.status = call[c].copy.status /\ q.owner = call[c].copy.owner
      /\ q.bot = call[c].copy.bot /\ q.account = call[c].copy.account
  BY <1>1, <1>4 DEF Request, Named
<1>6. call'[c].step \in AtWork /\ call'[c].r = call[c].r /\ call'[c].copy \in {call[c].copy, q}
  BY <1>3, <1>4 DEF Goes, Takes, Holds, Becomes, Is, AtWork, Provisioning
<1>7. \A r, p : Attends(call[c], r, p) => Attends(call'[c], r, p)
  BY <1>5, <1>6 DEF Attends
<1>8. CASE UNCHANGED <<request, recent>>
  <2>1. Unique(request)' BY <1>8, UniqueSame DEF Attended
  <2> QED BY <1>2, <1>7, <1>8, <2>1, AttendedStep
<1>9. CASE Accepted(call[c].r, q) /\ SaveRequest(call[c].r, q) /\ call'[c].copy = q
  <2>1. Unique(request)' BY <1>9, UniqueSaved DEF Attended
  <2>2. request' = Saved(call[c].r, q) BY <1>9 DEF SaveRequest
  <2>3. ASSUME NEW r \in Requests, request'[r].status = "provisioning"
        PROVE  request'[r] = request[r] \/ Attends(call'[c], r, request'[r])
    <3>1. CASE r = call[c].r
      <4>1. request'[r] = q BY <2>2, <3>1 DEF Saved, Typed, TypeOK
      <4> QED BY <1>6, <1>9, <2>3, <3>1, <4>1 DEF Attends
    <3>2. CASE r # call[c].r BY <2>2, <3>2 DEF Saved, Typed, TypeOK
    <3> QED BY <3>1, <3>2
  <2> QED BY <1>2, <1>7, <2>1, <2>3, AttendedStep
<1> QED BY <1>3, <1>4, <1>8, <1>9 DEF Becomes, Is

LEMMA ConnectAttended ==
    ASSUME Typed, Attended, NEW c \in Calls, Connect(c)
    PROVE  Attended'
<1>1. request' = request /\ Unique(request)' BY UniqueSame DEF Attended, Connect
<1>2. crashes \in Nat /\ crashes' \in Nat /\ crashes' >= crashes BY Bounded DEF Connect
<1>3. CASE call' = call BY <1>1, <1>3 DEF Attended, Connect
<1>4. CASE Others(c) /\ call[c].step = "idle"
  BY <1>1, <1>2, <1>4, AttendedStep DEF Attends, AtWork, Provisioning
<1>5. call' = call \/ call[c].step = "idle" BY DEF Connect, Begin, At
<1> QED BY <1>3, <1>4, <1>5, ConnectActs

\* A handler that is cut off leaves its request unattended: the invariant promises
\* nothing once one was.
LEMMA CrashAttended == ASSUME Typed, Attended, NEW c \in Calls, Crash(c) PROVE Attended'
<1>1. Unique(request)' /\ crashes' # 0 BY UniqueSame, Bounded DEF Attended, Crash
<1> QED BY <1>1 DEF Attended

\* The steps outside the handlers.
LEMMA OpenLinkAttended == ASSUME Typed, Attended, OpenLink PROVE Attended'
<1>1. PICK r \in Requests, w \in Workspaces :
        request' = [s \in Requests |->
              IF s = r THEN [NoRequest EXCEPT !.status = "pending", !.owner = w]
              ELSE IF Expired[s].owner = w /\ Expired[s].status \in Open
                   THEN [request[s] EXCEPT !.status = "cancelled"] ELSE Expired[s]]
  BY DEF OpenLink
<1>2. /\ request'[r].status = "pending" /\ request'[r].owner = w
      /\ request'[r].bot = NoOne /\ request'[r].account = NoOne
  BY <1>1 DEF NoRequest
<1>3. ASSUME NEW s \in Requests, s # r
      PROVE  /\ request'[s].owner = request[s].owner /\ request'[s].account = request[s].account
             /\ request'[s].bot = request[s].bot
             /\ request'[s].status \in Open => request'[s] = request[s] /\ request'[s].owner # w
  <2>1. request[s] \in Request BY DEF Typed, TypeOK
  <2>2. CASE Expired[s].owner = w /\ Expired[s].status \in Open
    <3>1. request'[s] = [request[s] EXCEPT !.status = "cancelled"] BY <1>1, <1>3, <2>2
    <3> QED BY <2>1, <3>1 DEF Request, Open
  <2>3. CASE ~(Expired[s].owner = w /\ Expired[s].status \in Open)
    <3>1. request'[s] = Expired[s] BY <1>1, <1>3, <2>3
    <3>2. \/ Expired[s] = request[s] \/ Expired[s] = [request[s] EXCEPT !.status = "expired"]
      BY DEF Expired
    <3> QED BY <2>1, <2>3, <3>1, <3>2 DEF Request, Open
  <2> QED BY <2>2, <2>3
<1>4. Unique(request)'
  <2>1. SUFFICES ASSUME NEW t \in Requests, NEW s \in Requests, t # s
        PROVE  /\ request'[t].bot # NoOne => request'[t].bot # request'[s].bot
               /\ {request'[t].status, request'[s].status} \subseteq Open
                    => request'[t].owner # request'[s].owner
               /\ ({request'[t].status, request'[s].status} \subseteq Open \ {"pending"}
                       /\ request'[t].account # NoOne) => request'[t].account # request'[s].account
    BY DEF Unique
  <2>2. CASE t = r BY <1>2, <1>3, <2>1, <2>2
  <2>3. CASE s = r BY <1>2, <1>3, <2>1, <2>3
  <2>4. CASE t # r /\ s # r
    <3>1. request'[t].bot # NoOne => request'[t].bot # request'[s].bot
      BY <1>3, <2>1, <2>4 DEF Attended, Unique
    <3>2. {request'[t].status, request'[s].status} \subseteq Open => request'[t].owner # request'[s].owner
      BY <1>3, <2>1, <2>4 DEF Attended, Unique
    <3>3. ({request'[t].status, request'[s].status} \subseteq Open \ {"pending"}
                       /\ request'[t].account # NoOne) => request'[t].account # request'[s].account
      BY <1>3, <2>1, <2>4 DEF Attended, Unique
    <3> QED BY <3>1, <3>2, <3>3
  <2> QED BY <2>2, <2>3, <2>4
<1>5. \A s \in Requests : request'[s].status = "provisioning" => request'[s] = request[s]
  BY <1>2, <1>3 DEF Open
<1>6. call' = call /\ crashes' = crashes BY DEF OpenLink
<1> QED BY <1>4, <1>5, <1>6 DEF Attended

LEMMA OthersAttended ==
    ASSUME Typed, Attended, ReadStatus \/ Lapse \/ UNCHANGED vars PROVE Attended'
<1>1. call' = call /\ crashes' = crashes BY DEF ReadStatus, Lapse, vars
<1>2. \A s \in Requests : request'[s].status = "provisioning" => request'[s] = request[s]
  BY DEF ReadStatus, Lapse, vars, Expired, Typed, TypeOK, Request
<1>3. Unique(request)' BY UniqueSame, UniqueExpired DEF ReadStatus, Lapse, vars, Attended
<1> QED BY <1>1, <1>2, <1>3 DEF Attended

LEMMA InitAttended == ASSUME Init PROVE Attended
BY DEF Init, NoRequest, Attended, Unique, Open

LEMMA NextAttended == ASSUME Typed, Attended, [Next]_vars PROVE Attended'
<1>1. ASSUME NEW c \in Calls, Enter(c) \/ Continue(c) \/ Crash(c) PROVE Attended'
  BY <1>1, Grouping, HandlersAttended, AnswersAttended, WriteChannelAttended, ConnectAttended,
     CrashAttended
<1>2. ReadStatus \/ Lapse \/ UNCHANGED vars => Attended' BY OthersAttended
<1>3. OpenLink => Attended' BY OpenLinkAttended
<1> QED BY <1>1, <1>2, <1>3 DEF Next

\* A request is left in provisioning, which expires for nobody, only by a handler
\* that was cut off: while none was, somebody still works on it with its bot.
THEOREM SomebodyAttends == Spec => []ProvisioningIsAttended
<1>1. Init => Typed /\ Attended BY InitTypes, InitAttended
<1>2. Typed /\ Attended /\ [Next]_vars => Typed' /\ Attended' BY NextTypes, NextAttended
<1>3. Typed /\ Attended => ProvisioningIsAttended BY DEF Attended, Attends, ProvisioningIsAttended
<1> QED BY <1>1, <1>2, <1>3, PTL DEF Spec

-----------------------------------------------------------------------------
\* Fourth layer: webhooks. Of a bot that is not disturbed one handler works on
\* the channel, so what that handler has loaded is the row it will save over,
\* and what it registered is what Telegram still remembers.
AtRow == ForChannel \ {"finishing"}
OneLive == \A i, j \in Channels :
    i # j /\ Live(channel[i]) /\ Live(channel[j]) => channel[i].bot # channel[j].bot
OneWorker == \A b \in Bots : b \notin disturbed =>
    \A c, d \in Calls : WorksOn(c, b) /\ WorksOn(d, b) => c = d
Led(b) == \A i \in Channels : channel[i].bot = b /\ channel[i].state = "connected" =>
    channel[i].linked /\ hook[b] \in {Unset, [channel |-> i, secret |-> channel[i].secret]}
Unconnected(b) == \A j \in Channels : channel[j].bot = b => channel[j].state # "connected"
Own(k) == [channel |-> k.i, secret |-> k.chan.secret]
Current(k) ==
    /\ k.step \in {"hooking", "activating", "marking"} =>
          channel[k.i] = k.chan /\ k.chan.linked /\ k.chan.state = "registering"
    /\ k.step = "activating" => hook[k.chan.bot] = Own(k)
    /\ k.step = "registering" => channel[k.i] = k.chan /\ k.chan.linked /\ k.chan.state = "verified"
    /\ k.step = "completing" =>
          /\ channel[k.i] = [k.chan EXCEPT !.state = "verified"] /\ k.chan.linked
          /\ k.chan.state = "connected" => hook[k.chan.bot] = Own(k)
    /\ k.step = "testing" => channel[k.i] = k.chan
    /\ k.step = "retrying" => Unconnected(k.chan.bot)
    /\ k.step = "tested" /\ k.chan.linked /\ k.chan.state = "connected" =>
          hook[k.chan.bot] \in {Unset, Own(k)}
Hooked ==
    /\ OneLive /\ OneWorker
    /\ \A b \in Bots : b \notin disturbed => Led(b)
    /\ \A c \in Calls : (/\ call[c].step \in AtRow
                        /\ call[c].chan.bot \in Bots /\ call[c].chan.bot \notin disturbed)
                       => Current(call[c])

\* A step is quiet for a bot if it leaves the bot's webhook and rows alone, but
\* for a row inserted in error.
Quiet(b) ==
    /\ hook'[b] = hook[b]
    /\ \A j \in Channels : channel[j].bot = b \/ channel'[j].bot = b =>
          \/ channel'[j] = channel[j]
          \/ channel[j] = NoChannel /\ channel'[j].state = "error"

LEMMA QuietLed == ASSUME Typed, NEW b \in Bots, Quiet(b), Led(b) PROVE Led(b)'
BY DEF Quiet, Led

LEMMA QuietCurrent ==
    ASSUME Typed, NEW d \in Calls, call[d].step \in AtRow, call[d].chan.bot \in Bots,
           Quiet(call[d].chan.bot), Current(call[d]),
           call'[d] = call[d]
    PROVE  Current(call[d])'
<1>2. PICK k \in Call : k = call[d] BY DEF Typed, TypeOK
<1>3. k.i \in Channels BY <1>2 DEF Typed, Shaped, AtRow, ForChannel, Provisioning
<1>4. NoChannel.bot \notin Bots BY DEF NoChannel
<1>5. k.chan.bot \in Bots /\ Quiet(k.chan.bot) /\ Current(k) BY <1>2
<1>6. hook'[k.chan.bot] = hook[k.chan.bot] BY <1>5 DEF Quiet
<1>7. channel[k.i].bot = k.chan.bot => channel'[k.i] = channel[k.i] BY <1>3, <1>4, <1>5 DEF Quiet
<1>8. k.step = "completing" => channel[k.i].bot = k.chan.bot
  BY <1>5 DEF Current, Call, Channel
<1>9. k.step \in {"hooking", "activating", "marking", "registering", "testing", "completing"}
        => channel'[k.i] = channel[k.i]
  BY <1>5, <1>7, <1>8 DEF Current
<1>10. k.step = "retrying" => Unconnected(k.chan.bot)' BY <1>5 DEF Current, Quiet, Unconnected
<1>11. Current(k)' BY <1>5, <1>6, <1>9, <1>10 DEF Current, Unconnected
<1> QED BY <1>2, <1>11 DEF Current, Own, Unconnected

\* A step that is quiet for every bot but one, which its handler works on, keeps
\* the layer if it keeps that bot's part of it.
LEMMA HookedStep ==
    ASSUME Typed, Hooked, NEW c \in Calls, Others(c), disturbed' = Disturbed, OneLive', NEW t,
           \A b \in Bots : b # t => Quiet(b),
           t \in Bots => WorksOn(c, t) \/ WorksOn(c, t)',
           t \in Bots /\ t \notin disturbed' => Led(t)',
           \/ call' = call /\ t \notin Bots
           \/ call'[c].step \notin AtRow
           \/ /\ call'[c].chan.bot \in Bots /\ call'[c].chan.bot \notin disturbed'
              => Current(call[c])'
    PROVE  Hooked'
<1>1. \A b \in Bots : b \in disturbed => b \in disturbed' BY DEF Disturbed
<1>2. OneWorker'
  <2>1. SUFFICES ASSUME NEW b \in Bots, b \notin disturbed', NEW e \in Calls, NEW d \in Calls,
                        WorksOn(e, b)', WorksOn(d, b)'
        PROVE  e = d
    BY DEF OneWorker
  <2> QED BY <2>1 DEF Disturbed
<1>3. ASSUME NEW b \in Bots, b \notin disturbed' PROVE Led(b)'
  <2>1. CASE b = t BY <1>3, <2>1
  <2>2. CASE b # t BY <1>1, <1>3, <2>2, QuietLed DEF Hooked
  <2> QED BY <2>1, <2>2
<1>4. ASSUME NEW d \in Calls, call'[d] = call[d], call[d].step \in AtRow,
             call[d].chan.bot \in Bots, call[d].chan.bot \notin disturbed', call[d].chan.bot # t
      PROVE  Current(call[d])'
  BY <1>1, <1>4, QuietCurrent DEF Hooked
<1>5. ASSUME NEW d \in Calls, d # c, call[d].step \in AtRow, call[d].chan.bot = t, t \in Bots,
             t \notin disturbed'
      PROVE  FALSE
  <2>1. call'[d] = call[d] BY <1>5 DEF Others, Typed, TypeOK
  <2>2. WorksOn(d, t) /\ WorksOn(d, t)'
    BY <1>5, <2>1 DEF WorksOn, At, AtRow, ForChannel, Provisioning
  <2>3. CASE WorksOn(c, t) BY <1>1, <1>5, <2>2, <2>3 DEF Hooked, OneWorker
  <2>4. CASE WorksOn(c, t)' BY <1>2, <1>5, <2>2, <2>4 DEF OneWorker
  <2> QED BY <1>5, <2>3, <2>4
<1>6. ASSUME NEW d \in Calls, call'[d].step \in AtRow, call'[d].chan.bot \in Bots,
             call'[d].chan.bot \notin disturbed'
      PROVE  Current(call[d])'
  <2>1. CASE call' = call /\ t \notin Bots BY <1>4, <1>6, <2>1
  <2>2. CASE d = c /\ ~(call' = call /\ t \notin Bots) BY <1>6, <2>2
  <2>3. CASE d # c
    <3>1. call'[d] = call[d] BY <2>3 DEF Others, Typed, TypeOK
    <3>2. call[d].chan.bot # t BY <1>5, <1>6, <2>3, <3>1
    <3> QED BY <1>4, <1>6, <3>1, <3>2
  <2> QED BY <2>1, <2>2, <2>3
<1> QED BY <1>2, <1>3, <1>6 DEF Hooked

LEMMA QuietRow ==
    ASSUME Typed, NEW i \in Channels, NEW t, NEW ch, ch = NoChannel \/ ch.bot = t,
           channel[i] = NoChannel \/ channel[i].bot = t,
           SaveChannel(i, ch) \/ UNCHANGED channel, NEW b \in Bots, b # t, hook'[b] = hook[b]
    PROVE  Quiet(b)
<1>1. NoChannel.bot \notin Bots BY DEF NoChannel
<1>2. CASE UNCHANGED channel BY <1>2 DEF Quiet
<1>3. CASE SaveChannel(i, ch)
  <2>1. channel'[i] = ch /\ \A j \in Channels : j # i => channel'[j] = channel[j]
    BY <1>3 DEF SaveChannel, Typed, TypeOK
  <2> QED BY <1>1, <2>1 DEF Quiet
<1> QED BY <1>2, <1>3

LEMMA OneLiveSaved ==
    ASSUME Typed, Hooked, NEW i \in Channels, NEW ch, SaveChannel(i, ch), Storable(i, ch)
    PROVE  OneLive'
<1>1. channel'[i] = ch /\ \A j \in Channels : j # i => channel'[j] = channel[j]
  BY DEF SaveChannel, Typed, TypeOK
<1> QED BY <1>1 DEF Hooked, OneLive, Storable, Available, Live

LEMMA OneLiveSame == ASSUME Hooked, UNCHANGED channel PROVE OneLive'
BY DEF Hooked, OneLive, Live

\* The row and the bot a handler at a row works on.
LEMMA RowOfCall ==
    ASSUME Typed, Claims, NEW c \in Calls, call[c].step \in ForChannel
    PROVE  /\ call[c].i \in Channels /\ call[c].chan.bot \in Bots
           /\ channel[call[c].i] = NoChannel \/ channel[call[c].i].bot = call[c].chan.bot
<1>1. PICK i \in Channels : i = call[c].i BY DEF Typed, Shaped
<1>2. Identity(call[c].chan) \in Claimed(i) BY <1>1, ClaimedHas
<1>3. channel[i] # NoChannel => Identity(channel[i]) \in Claimed(i) BY ClaimedHas
<1>4. Identity(call[c].chan)[1] \in Bots BY <1>2 DEF Claims, OneIdentity
<1>5. channel[i] # NoChannel => Identity(channel[i]) = Identity(call[c].chan)
  BY <1>2, <1>3 DEF Claims, OneIdentity
<1> QED BY <1>1, <1>4, <1>5 DEF Identity

LEMMA NoneConnected ==
    ASSUME Typed, Hooked, NEW i \in Channels, Live(channel[i]), channel[i].state # "connected",
           Led(channel[i].bot)
    PROVE  Unconnected(channel[i].bot)
BY DEF Hooked, OneLive, Led, Live, Unconnected

LEMMA AtRowStep ==
    ASSUME Typed, Claims, Hooked, NEW c \in Calls, call[c].step \in AtRow, disturbed' = Disturbed
    PROVE  /\ call[c] \in Call /\ call[c].chan \in Channel
           /\ call[c].i \in Channels /\ call[c].chan.bot \in Bots /\ WorksOn(c, call[c].chan.bot)
           /\ channel[call[c].i] = NoChannel \/ channel[call[c].i].bot = call[c].chan.bot
           /\ call[c].chan.bot \notin disturbed' =>
                 call[c].chan.bot \notin disturbed /\ Led(call[c].chan.bot) /\ Current(call[c])
<1>1. call[c].step \in ForChannel BY DEF AtRow
<1>2. call[c] \in Call /\ call[c].chan \in Channel BY Bounded DEF Call
<1>3. call[c].chan.bot \in Bots BY <1>1, RowOfCall
<1>4. WorksOn(c, call[c].chan.bot) BY DEF WorksOn, At, AtRow, ForChannel, Provisioning
<1> QED BY <1>1, <1>2, <1>3, <1>4, RowOfCall DEF Disturbed, Hooked

\* The steps that neither write a row nor ask Telegram.
LEMMA SilentHooked ==
    ASSUME Typed, Hooked, NEW c \in Calls, Others(c), disturbed' = Disturbed,
           UNCHANGED <<channel, hook>>, call'[c].step \notin AtRow \/ Current(call[c])'
    PROVE  Hooked'
<1>1. \A b \in Bots : Quiet(b) BY DEF Quiet
<1>2. OneLive' BY OneLiveSame
<1>3. NoOne \notin Bots OBVIOUS
<1> QED BY <1>1, <1>2, <1>3, HookedStep

LEMMA HandlersHooked ==
    ASSUME Typed, Claims, Hooked, NEW c \in Calls, disturbed' = Disturbed,
           Looks(c) \/ Expires(c) \/ Answers(c), ~Connect(c), ~Test(c)
    PROVE  Hooked'
<1> USE DEF AtRow, ForChannel, Provisioning
<1>1. UNCHANGED <<channel, hook>> BY Frames
<1>2. Others(c)
  <2>1. Enter(c) \/ Continue(c) \/ Crash(c) BY DEF Looks, Expires, Answers, Enter, Continue
  <2> QED BY <2>1, Shapes
<1>3. ASSUME NEW o, NEW s \in {"testing", "disconnecting", "deleting"}, BeginOn(c, o, s)
      PROVE  Current(call[c])'
  <2>1. PICK i \in Channels : Becomes(c, s, 0, NoRequest, i, channel[i], NoOne, 0)
    BY <1>3, BeginOnActs DEF Steps
  <2>2. PICK k : k = call'[c] OBVIOUS
  <2>3. k.step = s /\ channel'[k.i] = k.chan BY <1>1, <2>1, <2>2 DEF Becomes, Is
  <2> QED BY <2>2, <2>3 DEF Current
<1>4. BeginTest(c) \/ BeginDisconnect(c) \/ BeginDelete(c) => Current(call[c])'
  BY <1>3 DEF BeginTest, BeginDisconnect, BeginDelete
<1>5. SaveStart(c) \/ Settle(c) \/ Crash(c) => call'[c].step \notin AtRow
  BY ClosesActs DEF Closes, Ends, Becomes, Is
<1>6. BeginStart(c) \/ Cancel(c) \/ BeginCreated(c) => call'[c].step \notin AtRow
  BY BeginStartActs, CancelActs, BeginCreatedActs DEF Becomes, Is
<1>7. FindStart(c) \/ FindCreated(c) \/ Bind(c) => call'[c].step \notin AtRow
  BY FindStartActs, FindCreatedActs, BindActs DEF Ends, Holds, Becomes, Is
<1>8. Check(c) \/ Finish(c) => call'[c].step \notin AtRow
  BY GoesActs DEF Ends, Goes, Takes, Becomes, Is
<1>9. call'[c].step \notin AtRow \/ Current(call[c])'
  BY <1>4, <1>5, <1>6, <1>7, <1>8 DEF Looks, Expires, Answers
<1> QED BY <1>1, <1>2, <1>9, SilentHooked

\* A test keeps what it knows of its channel: a connected one leads to itself, and
\* one it will register again is its bot's only live channel, so none is connected.
LEMMA TestHooked ==
    ASSUME Typed, Claims, Hooked, NEW c \in Calls, Test(c), ~Connect(c), disturbed' = Disturbed
    PROVE  Hooked'
<1>1. PICK k \in Call : k = call[c] BY Bounded
<1>2. k.step = "testing" /\ k.step \in AtRow BY <1>1 DEF Test, At, AtRow, ForChannel
<1>3. PICK t : t = k.chan.bot OBVIOUS
<1>4. /\ k.chan \in Channel /\ k.i \in Channels /\ t \in Bots /\ WorksOn(c, t)
      /\ t \notin disturbed' => Led(t) /\ channel[k.i] = k.chan
  BY <1>1, <1>2, <1>3, AtRowStep DEF Current
<1>5. Others(c) BY TestActs
<1>6. OneLive' BY OneLiveSame DEF Test
<1>7. UNCHANGED <<channel, hook>> BY DEF Test
<1>8. \A b \in Bots : Quiet(b) BY <1>7 DEF Quiet
<1>9. t \notin disturbed' => Led(t)' BY <1>4, <1>7 DEF Led
<1>10. PICK m : m = call'[c] OBVIOUS
<1>11. CASE Ends(c)
  <2>1. call'[c].step \notin AtRow
    BY <1>11 DEF Ends, Becomes, Is, AtRow, ForChannel, Provisioning
  <2> QED BY <1>5, <1>7, <2>1, SilentHooked
<1>12. CASE Takes(c, "tested", Cleared(call[c].chan))
  <2>1. m.step = "tested" /\ m.chan.linked = FALSE
    BY <1>1, <1>4, <1>10, <1>12 DEF Takes, Becomes, Is, Cleared, Channel
  <2>2. Current(call[c])' BY <1>10, <2>1 DEF Current
  <2> QED BY <1>5, <1>7, <2>2, SilentHooked
<1>13. ASSUME NEW s \in {"tested", "retrying"}, Available(t, k.i),
              s = IF k.chan.state = "connected" THEN "tested" ELSE "retrying",
              Takes(c, s, [call[c].chan EXCEPT !.linked = TRUE])
       PROVE  Hooked'
  <2>1. PICK ch : ch = [k.chan EXCEPT !.linked = TRUE] OBVIOUS
  <2>2. m.step = s /\ m.chan = ch /\ m.i = k.i BY <1>1, <1>10, <1>13, <2>1 DEF Takes, Becomes, Is
  <2>3. ch.bot = t /\ ch.secret = k.chan.secret BY <1>3, <1>4, <2>1 DEF Channel
  <2>4. call'[c].chan.bot = t BY <1>10, <2>2, <2>3
  <2>5. t \notin disturbed' => Current(call[c])'
    <3>1. SUFFICES ASSUME t \notin disturbed' PROVE Current(call[c])' OBVIOUS
    <3>2. CASE k.chan.state = "connected"
      <4>1. hook[t] \in {Unset, [channel |-> k.i, secret |-> k.chan.secret]}
        BY <1>3, <1>4, <3>1, <3>2 DEF Led
      <4>2. hook'[m.chan.bot] \in {Unset, [channel |-> m.i, secret |-> m.chan.secret]}
        BY <1>7, <2>2, <2>3, <4>1
      <4>3. m.step = "tested" BY <1>13, <2>2, <3>2
      <4> QED BY <1>10, <4>2, <4>3 DEF Current, Own, Unset
    <3>3. CASE k.chan.state # "connected"
      <4>1. ASSUME NEW j \in Channels, channel[j].bot = t, channel[j].state = "connected" PROVE FALSE
        <5>1. Live(channel[j]) BY <1>4, <3>1, <4>1 DEF Live, Led
        <5>2. j = k.i BY <1>13, <4>1, <5>1 DEF Available
        <5> QED BY <1>4, <3>1, <3>3, <4>1, <5>2
      <4>2. \A j \in Channels : channel'[j].bot = m.chan.bot => channel'[j].state # "connected"
        BY <1>7, <2>2, <2>3, <4>1
      <4>3. m.step = "retrying" BY <1>13, <2>2, <3>3
      <4> QED BY <1>10, <4>2, <4>3 DEF Current, Unconnected
    <3> QED BY <3>2, <3>3
  <2> QED BY <1>4, <1>5, <1>6, <1>8, <1>9, <2>4, <2>5, HookedStep
<1>14. PICK s \in {"tested", "retrying"} :
         s = IF k.chan.state = "connected" THEN "tested" ELSE "retrying"
  OBVIOUS
<1> QED BY <1>1, <1>3, <1>11, <1>12, <1>13, <1>14, TestActs

\* The steps that register a webhook do so while no channel of the bot is
\* connected, so nothing they do to it leads a connected one astray.
LEMMA AskingHooked ==
    ASSUME Typed, Claims, Hooked, NEW c \in Calls, Others(c), disturbed' = Disturbed,
           call[c].step \in AtRow, UNCHANGED channel, hook' \in {hook, Registered(c)},
           call[c].chan.bot \notin disturbed' => Unconnected(call[c].chan.bot),
           \/ call'[c].step \notin AtRow
           \/ /\ call'[c].chan.bot = call[c].chan.bot
              /\ call[c].chan.bot \notin disturbed' => Current(call[c])'
    PROVE  Hooked'
<1>1. PICK t : t = call[c].chan.bot OBVIOUS
<1>2. t \in Bots /\ WorksOn(c, t) BY <1>1, AtRowStep
<1>3. OneLive' BY OneLiveSame
<1>4. \A b \in Bots : b # t => Quiet(b)
  <2>1. \A b \in Bots : b # t => hook'[b] = hook[b] BY <1>1 DEF Registered, Typed, TypeOK
  <2> QED BY <2>1 DEF Quiet
<1>5. t \notin disturbed' => Led(t)' BY <1>1 DEF Unconnected, Led
<1> QED BY <1>1, <1>2, <1>3, <1>4, <1>5, HookedStep

LEMMA SetHookHooked ==
    ASSUME Typed, Claims, Hooked, NEW c \in Calls, SetHook(c), disturbed' = Disturbed
    PROVE  Hooked'
<1>1. PICK k \in Call : k = call[c] BY Bounded
<1>2. k.step = "hooking" /\ k.step \in AtRow
  BY <1>1 DEF SetHook, At, AtRow, ForChannel, Provisioning
<1>3. PICK t : t = k.chan.bot OBVIOUS
<1>4. /\ k.i \in Channels /\ t \in Bots
      /\ t \notin disturbed' => /\ channel[k.i] = k.chan /\ k.chan.linked
                                /\ k.chan.state = "registering" /\ Led(t)
  BY <1>1, <1>2, <1>3, AtRowStep DEF Current
<1>5. PICK m : m = call'[c] OBVIOUS
<1>6. /\ Others(c) /\ m.i = k.i /\ m.chan = k.chan /\ m.step \in {"activating", "marking"}
      /\ m.step = "activating" => hook' = Registered(c)
      /\ hook' \in {hook, Registered(c)}
  BY <1>1, <1>5, GoesActs DEF Goes, Takes, Becomes, Is
<1>7. t \notin disturbed' => Unconnected(t) BY <1>3, <1>4, NoneConnected DEF Live
<1>8. channel' = channel BY DEF SetHook
<1>9. ASSUME t \notin disturbed' PROVE Current(call[c])'
  <2>1. hook' = Registered(c) => hook'[t] = [channel |-> k.i, secret |-> k.chan.secret]
    BY <1>1, <1>3, <1>4 DEF Registered, Typed, TypeOK
  <2> QED BY <1>3, <1>4, <1>5, <1>6, <1>8, <1>9, <2>1 DEF Current, Own
<1>10. call'[c].chan.bot = t BY <1>3, <1>5, <1>6
<1> QED BY <1>1, <1>2, <1>3, <1>6, <1>7, <1>8, <1>9, <1>10, AskingHooked

LEMMA RegisterHooked ==
    ASSUME Typed, Claims, Hooked, NEW c \in Calls, Register(c), disturbed' = Disturbed
    PROVE  Hooked'
<1>1. PICK k \in Call : k = call[c] BY Bounded
<1>2. k.step = "registering" /\ k.step \in AtRow BY <1>1 DEF Register, At, AtRow, ForChannel
<1>3. PICK t : t = k.chan.bot OBVIOUS
<1>4. /\ k.chan \in Channel /\ k.i \in Channels /\ t \in Bots
      /\ t \notin disturbed' => /\ channel[k.i] = k.chan /\ k.chan.linked
                                /\ k.chan.state = "verified" /\ Led(t)
  BY <1>1, <1>2, <1>3, AtRowStep DEF Current
<1>5. PICK state \in {"connected", "error"} :
        /\ state = "connected" => hook' = Registered(c)
        /\ Takes(c, "completing", [call[c].chan EXCEPT !.state = state])
  BY RegisterActs
<1>6. PICK ch : ch = [k.chan EXCEPT !.state = state] OBVIOUS
<1>7. PICK m : m = call'[c] OBVIOUS
<1>8. m.step = "completing" /\ m.i = k.i /\ m.chan = ch
  BY <1>1, <1>5, <1>6, <1>7 DEF Takes, Becomes, Is
<1>9. ch.bot = t /\ ch.secret = k.chan.secret /\ ch.linked = k.chan.linked /\ ch.state = state
  BY <1>3, <1>4, <1>6 DEF Channel
<1>10. t \notin disturbed' => Unconnected(t) BY <1>3, <1>4, NoneConnected DEF Live
<1>11. channel' = channel BY DEF Register
<1>12. ASSUME t \notin disturbed' PROVE Current(call[c])'
  <2>1. [ch EXCEPT !.state = "verified"] = k.chan BY <1>4, <1>6, <1>12 DEF Channel
  <2>2. hook' = Registered(c) => hook'[t] = [channel |-> k.i, secret |-> k.chan.secret]
    BY <1>1, <1>3, <1>4 DEF Registered, Typed, TypeOK
  <2>3. channel'[m.i] = [m.chan EXCEPT !.state = "verified"] /\ m.chan.linked
    BY <1>4, <1>8, <1>9, <1>11, <1>12, <2>1
  <2>4. m.chan.state = "connected" =>
          hook'[m.chan.bot] = [channel |-> m.i, secret |-> m.chan.secret]
    BY <1>5, <1>8, <1>9, <2>2
  <2> QED BY <1>7, <1>8, <2>3, <2>4 DEF Current, Own
<1>13. call'[c].chan.bot = t BY <1>7, <1>8, <1>9
<1>14. Others(c) /\ hook' \in {hook, Registered(c)} BY RegisterActs
<1> QED BY <1>1, <1>2, <1>3, <1>10, <1>11, <1>12, <1>13, <1>14, AskingHooked

LEMMA RetryHooked ==
    ASSUME Typed, Claims, Hooked, NEW c \in Calls, Retry(c), disturbed' = Disturbed
    PROVE  Hooked'
<1>1. PICK k \in Call : k = call[c] BY Bounded
<1>2. k.step = "retrying" /\ k.step \in AtRow BY <1>1 DEF Retry, At, AtRow, ForChannel
<1>3. PICK t : t = k.chan.bot OBVIOUS
<1>4. /\ k.chan \in Channel /\ k.i \in Channels /\ t \in Bots
      /\ t \notin disturbed' => Unconnected(t)
  BY <1>1, <1>2, <1>3, AtRowStep DEF Current
<1>5. Others(c) /\ hook' \in {hook, Registered(c)} BY RetryActs
<1>6. channel' = channel BY DEF Retry
<1>7. CASE Ends(c)
  <2>1. call'[c].step \notin AtRow
    BY <1>7 DEF Ends, Becomes, Is, AtRow, ForChannel, Provisioning
  <2> QED BY <1>1, <1>2, <1>3, <1>4, <1>5, <1>6, <2>1, AskingHooked
<1>8. ASSUME NEW state \in {"connected", "error"}, state = "connected" => hook' = Registered(c),
             Takes(c, "tested", [call[c].chan EXCEPT !.state = state])
      PROVE  Hooked'
  <2>1. PICK ch : ch = [k.chan EXCEPT !.state = state] OBVIOUS
  <2>2. PICK m : m = call'[c] OBVIOUS
  <2>3. m.step = "tested" /\ m.i = k.i /\ m.chan = ch
    BY <1>1, <1>8, <2>1, <2>2 DEF Takes, Becomes, Is
  <2>4. ch.bot = t /\ ch.secret = k.chan.secret /\ ch.state = state
    BY <1>3, <1>4, <2>1 DEF Channel
  <2>5. hook' = Registered(c) => hook'[t] = [channel |-> k.i, secret |-> k.chan.secret]
    BY <1>1, <1>3, <1>4 DEF Registered, Typed, TypeOK
  <2>6. m.chan.state = "connected" =>
          hook'[m.chan.bot] = [channel |-> m.i, secret |-> m.chan.secret]
    BY <1>8, <2>3, <2>4, <2>5
  <2>7. Current(call[c])' BY <2>2, <2>3, <2>6 DEF Current, Own
  <2>8. call'[c].chan.bot = t BY <2>2, <2>3, <2>4
  <2> QED BY <1>1, <1>2, <1>3, <1>4, <1>5, <1>6, <2>7, <2>8, AskingHooked
<1> QED BY <1>7, <1>8, RetryActs

LEMMA CleanUpHooked ==
    ASSUME Typed, Claims, Hooked, NEW c \in Calls, CleanUp(c), disturbed' = Disturbed
    PROVE  Hooked'
<1>1. PICK k \in Call : k = call[c] BY Bounded
<1>2. k.step \in AtRow BY <1>1 DEF CleanUp, At, AtRow, ForChannel
<1>3. PICK t : t = k.chan.bot OBVIOUS
<1>4. t \in Bots /\ WorksOn(c, t) /\ (t \notin disturbed' => Led(t))
  BY <1>1, <1>2, <1>3, AtRowStep
<1>5. Others(c) BY GoesActs
<1>6. OneLive' /\ channel' = channel BY OneLiveSame DEF CleanUp
<1>7. hook'[t] \in {hook[t], Unset} /\ \A b \in Bots : b # t => hook'[b] = hook[b]
  BY <1>1, <1>3, <1>4 DEF CleanUp, Typed, TypeOK
<1>8. \A b \in Bots : b # t => Quiet(b) BY <1>6, <1>7 DEF Quiet
<1>9. t \notin disturbed' => Led(t)' BY <1>4, <1>6, <1>7 DEF Led, Unset
<1>10. call'[c].step \in {"disconnected", "deleted"} BY GoesActs DEF Goes, Takes, Becomes, Is
<1>11. Current(call[c])' BY <1>10 DEF Current
<1> QED BY <1>4, <1>5, <1>6, <1>8, <1>9, <1>11, HookedStep

\* The steps that store a row store nothing connected that its webhook does not
\* lead to.
LEMMA RowHooked ==
    ASSUME Typed, Claims, Hooked, NEW c \in Calls, Others(c), disturbed' = Disturbed,
           call[c].step \in AtRow, NEW ch, ch = NoChannel \/ ch.bot = call[c].chan.bot,
           (SaveChannel(call[c].i, ch) /\ Storable(call[c].i, ch)) \/ UNCHANGED channel,
           hook' = hook,
           (/\ call[c].chan.bot \notin disturbed' /\ Current(call[c])
            /\ ch.state = "connected" /\ ch.linked)
             => hook[call[c].chan.bot] \in {Unset, [channel |-> call[c].i, secret |-> ch.secret]},
           \/ call'[c].step \notin AtRow
           \/ /\ call'[c].chan.bot = call[c].chan.bot
              /\ call[c].chan.bot \notin disturbed' /\ Current(call[c]) => Current(call[c])'
    PROVE  Hooked'
<1>1. PICK i \in Channels, t \in Bots :
        /\ i = call[c].i /\ t = call[c].chan.bot /\ (channel[i] = NoChannel \/ channel[i].bot = t)
        /\ WorksOn(c, t)
        /\ t \notin disturbed' => t \notin disturbed /\ Led(t) /\ Current(call[c])
  BY AtRowStep
<1>2. OneLive' BY <1>1, OneLiveSame, OneLiveSaved
<1>3. \A b \in Bots : b # t => Quiet(b) BY <1>1, QuietRow
<1>4. t \notin disturbed' => Led(t)'
  <2>1. SUFFICES ASSUME t \notin disturbed', NEW j \in Channels, channel'[j].bot = t,
                        channel'[j].state = "connected"
        PROVE  /\ channel'[j].linked
               /\ hook'[t] \in {Unset, [channel |-> j, secret |-> channel'[j].secret]}
    BY DEF Led
  <2>2. channel'[j].linked BY <2>1 DEF Disturbed
  <2>3. CASE channel'[j] = channel[j] BY <1>1, <2>1, <2>3 DEF Led
  <2>4. CASE j = i /\ channel'[j] = ch BY <1>1, <2>1, <2>2, <2>4
  <2>5. channel'[j] = channel[j] \/ (j = i /\ channel'[j] = ch)
    BY <1>1 DEF SaveChannel, Typed, TypeOK
  <2> QED BY <2>2, <2>3, <2>4, <2>5
<1> QED BY <1>1, <1>2, <1>3, <1>4, HookedStep

LEMMA ActivateHooked ==
    ASSUME Typed, Claims, Hooked, NEW c \in Calls, Activate(c), disturbed' = Disturbed
    PROVE  Hooked'
<1>1. PICK k \in Call : k = call[c] BY Bounded
<1>2. k.step = "activating" /\ k.step \in AtRow
  BY <1>1 DEF Activate, At, AtRow, ForChannel, Provisioning
<1>3. PICK ch : ch = [k.chan EXCEPT !.state = "connected"] OBVIOUS
<1>4. ch.bot = k.chan.bot /\ ch.secret = k.chan.secret BY <1>1, <1>3 DEF Call, Channel
<1>5. (SaveChannel(k.i, ch) /\ Storable(k.i, ch)) \/ UNCHANGED channel
  BY <1>1, <1>3 DEF Activate
<1>6. Current(k) /\ ch.state = "connected" /\ ch.linked
         => hook[k.chan.bot] \in {Unset, [channel |-> k.i, secret |-> ch.secret]}
  BY <1>2, <1>4 DEF Current, Own
<1>7. \/ call'[c].step \notin AtRow
      \/ call'[c].chan.bot = k.chan.bot /\ (Current(k) => Current(call[c])')
  <2>1. CASE Goes(c, "finishing") BY <2>1 DEF Goes, Takes, Becomes, Is, AtRow
  <2>2. CASE Goes(c, "marking") /\ UNCHANGED channel
    <3>1. PICK m : m = call'[c] OBVIOUS
    <3>2. m.step = "marking" /\ m.i = k.i /\ m.chan = k.chan
      BY <1>1, <2>2, <3>1 DEF Goes, Takes, Becomes, Is
    <3>3. Current(k) => channel[k.i] = k.chan /\ k.chan.linked /\ k.chan.state = "registering"
      BY <1>2 DEF Current
    <3>4. Current(k) => Current(call[c])' BY <2>2, <3>1, <3>2, <3>3 DEF Current
    <3> QED BY <3>1, <3>2, <3>4
  <2> QED BY <2>1, <2>2, GoesActs
<1>8. Others(c) /\ hook' = hook BY GoesActs DEF Activate
<1> QED BY <1>1, <1>2, <1>4, <1>5, <1>6, <1>7, <1>8, RowHooked

LEMMA CompleteHooked ==
    ASSUME Typed, Claims, Hooked, NEW c \in Calls, Complete(c), disturbed' = Disturbed
    PROVE  Hooked'
<1>1. PICK k \in Call : k = call[c] BY Bounded
<1>2. k.step = "completing" /\ k.step \in AtRow BY <1>1 DEF Complete, At, AtRow, ForChannel
<1>3. /\ k.i \in Channels /\ k.chan \in Channel
      /\ channel[k.i] = NoChannel \/ channel[k.i].bot = k.chan.bot
  BY <1>1, <1>2, AtRowStep
<1>4. PICK ch : ch = IF channel[k.i] = NoChannel THEN k.chan
                     ELSE [channel[k.i] EXCEPT !.state = k.chan.state]
  OBVIOUS
<1>5. channel[k.i] \in Channel BY <1>3, Bounded
<1>6. ch.bot = k.chan.bot BY <1>3, <1>4, <1>5 DEF Channel
<1>7. (SaveChannel(k.i, ch) /\ Storable(k.i, ch)) \/ UNCHANGED channel BY <1>1, <1>4 DEF Complete
<1>8. ASSUME Current(k), ch.state = "connected"
      PROVE  hook[k.chan.bot] = [channel |-> k.i, secret |-> ch.secret]
  <2>1. /\ channel[k.i] = [k.chan EXCEPT !.state = "verified"]
        /\ k.chan.state = "connected" => hook[k.chan.bot] = Own(k)
    BY <1>2, <1>8 DEF Current
  <2>2. channel[k.i].secret = k.chan.secret /\ channel[k.i].state = "verified"
    BY <1>3, <2>1 DEF Channel
  <2>3. channel[k.i] # NoChannel BY <2>2 DEF NoChannel
  <2>4. ch.state = k.chan.state /\ ch.secret = k.chan.secret BY <1>4, <1>5, <2>2, <2>3 DEF Channel
  <2> QED BY <1>8, <2>1, <2>4 DEF Own
<1>9. call'[c].step \notin AtRow
  BY ClosesActs DEF Closes, Ends, Becomes, Is, AtRow, ForChannel, Provisioning
<1>10. Others(c) /\ hook' = hook BY ClosesActs DEF Closes, Complete
<1> QED BY <1>1, <1>2, <1>6, <1>7, <1>8, <1>9, <1>10, RowHooked

LEMMA StoresHooked ==
    ASSUME Typed, Claims, Hooked, NEW c \in Calls, disturbed' = Disturbed,
           MarkError(c) \/ SaveTest(c) \/ Disconnect(c) \/ Delete(c)
    PROVE  Hooked'
<1> USE DEF AtRow, ForChannel, Provisioning
<1>1. PICK k \in Call : k = call[c] BY Bounded
<1>2. k.chan \in Channel BY <1>1 DEF Call
<1>3. k.step \in AtRow BY <1>1 DEF MarkError, SaveTest, Disconnect, Delete, At
<1>4. Others(c) /\ hook' = hook /\ call'[c].step \notin AtRow
  <2>1. SaveTest(c) \/ Disconnect(c) \/ Delete(c) => Others(c) /\ call'[c].step \notin AtRow
    BY ClosesActs DEF Closes, Ends, Becomes, Is
  <2>2. MarkError(c) => Others(c) /\ call'[c].step \notin AtRow
    BY GoesActs DEF Goes, Takes, Becomes, Is
  <2> QED BY <2>1, <2>2, Frames DEF Stores
<1>5. ASSUME NEW ch, ch = NoChannel \/ ch.bot = k.chan.bot,
             (SaveChannel(k.i, ch) /\ Storable(k.i, ch)) \/ UNCHANGED channel,
             ch.state # "connected"
      PROVE  Hooked'
  BY <1>1, <1>3, <1>4, <1>5, RowHooked
<1>6. CASE MarkError(c)
  <2>1. PICK ch : ch = [k.chan EXCEPT !.state = "error"] OBVIOUS
  <2>2. ch.bot = k.chan.bot /\ ch.state = "error" BY <1>2, <2>1 DEF Channel
  <2>3. (SaveChannel(k.i, ch) /\ Storable(k.i, ch)) \/ UNCHANGED channel
    BY <1>1, <1>6, <2>1 DEF MarkError
  <2> QED BY <1>5, <2>2, <2>3
<1>7. CASE Disconnect(c)
  <2>1. PICK ch : ch = [k.chan EXCEPT !.state = "disabled"] OBVIOUS
  <2>2. ch.bot = k.chan.bot /\ ch.state = "disabled" BY <1>2, <2>1 DEF Channel
  <2>3. SaveChannel(k.i, ch) /\ Storable(k.i, ch)
    BY <1>1, <1>7, <2>1, <2>2 DEF Disconnect, Storable, Live
  <2> QED BY <1>5, <2>2, <2>3
<1>8. CASE Delete(c)
  <2>1. SaveChannel(k.i, NoChannel) /\ Storable(k.i, NoChannel) /\ NoChannel.state # "connected"
    BY <1>1, <1>8 DEF Delete, Storable, Live, NoChannel
  <2> QED BY <1>5, <2>1
<1>9. CASE SaveTest(c)
  <2>1. k.step = "tested" BY <1>1, <1>9 DEF SaveTest, At
  <2>2. (SaveChannel(k.i, k.chan) /\ Storable(k.i, k.chan)) \/ UNCHANGED channel
    BY <1>1, <1>9 DEF SaveTest
  <2>3. Current(k) /\ k.chan.state = "connected" /\ k.chan.linked
          => hook[k.chan.bot] \in {Unset, [channel |-> k.i, secret |-> k.chan.secret]}
    BY <2>1 DEF Current, Own
  <2> QED BY <1>1, <1>3, <1>4, <2>2, <2>3, RowHooked
<1> QED BY <1>6, <1>7, <1>8, <1>9

\* The steps that may insert a row do it under an id nobody claims.
LEMMA NewRow ==
    ASSUME Typed, Claims, NEW n \in Channels, Claimed(n) = {}
    PROVE  channel[n] = NoChannel
BY ClaimedHas

LEMMA WriteChannelHooked ==
    ASSUME Typed, Claims, Hooked, NEW c \in Calls, WriteChannel(c), disturbed' = Disturbed
    PROVE  Hooked'
<1>1. PICK k \in Call : k = call[c] BY DEF Typed, TypeOK
<1>2. k.step = "writing" /\ k.bot \in Bots /\ k.n \in Channels
  BY <1>1 DEF WriteChannel, At, Typed, TypeOK, Shaped, ForBot, Channels
<1>3. Others(c) BY WriteChannelActs
<1>4. hook' = hook BY DEF WriteChannel
<1>5. ASSUME UNCHANGED channel, call'[c].step = "failing" PROVE Hooked'
  BY <1>3, <1>4, <1>5, SilentHooked DEF AtRow, ForChannel, Provisioning
<1>6. \A q : Goes(c, "failing") \/ Holds(c, "failing", call[c].r, q) => call'[c].step = "failing"
  BY DEF Goes, Takes, Holds, Becomes, Is
<1>7. ASSUME NEW i \in Channels, i \in Chosen(call[c].bot, call[c].n),
             NEW ch, ch = Provisioned(c, i), Storable(i, ch), SaveChannel(i, ch), NEW q,
             Becomes(c, "hooking", call[c].r, q, i, ch, call[c].bot, call[c].n)
      PROVE  Hooked'
  <2>1. PICK t : t = k.bot OBVIOUS
  <2>2. ch.bot = t /\ ch.linked = TRUE /\ ch.state = "registering" BY <1>1, <1>7, <2>1 DEF Provisioned
  <2>3. channel[i] = NoChannel \/ channel[i].bot = t
    <3>1. CASE i \in Existing(k.bot) BY <2>1, <3>1 DEF Existing
    <3>2. CASE i \notin Existing(k.bot)
      <4>1. i = k.n BY <1>1, <1>7, <3>2 DEF Chosen
      <4>2. Claimed(i) = {} BY <1>1, <1>2, <4>1 DEF Claims, Fresh, ForBot
      <4> QED BY <4>2, NewRow
    <3> QED BY <3>1, <3>2
  <2>4. \A b \in Bots : b # t => Quiet(b) BY <1>4, <1>7, <2>2, <2>3, QuietRow
  <2>5. OneLive' BY <1>7, OneLiveSaved
  <2>6. channel'[i] = ch /\ \A j \in Channels : j # i => channel'[j] = channel[j]
    BY <1>7 DEF SaveChannel, Typed, TypeOK
  <2>7. t \notin disturbed' => t \notin disturbed BY DEF Disturbed
  <2>8. t \notin disturbed' => Led(t)'
    BY <1>2, <1>4, <2>1, <2>2, <2>6, <2>7 DEF Hooked, Led
  <2>9. PICK m : m = call'[c] OBVIOUS
  <2>10. m.step = "hooking" /\ m.i = i /\ m.chan = ch BY <1>7, <2>9 DEF Becomes, Is
  <2>11. channel'[m.i] = m.chan /\ m.chan.linked /\ m.chan.state = "registering" BY <2>2, <2>6, <2>10
  <2>12. Current(call[c])' BY <2>9, <2>10, <2>11 DEF Current
  <2>13. WorksOn(c, t)' BY <2>2, <2>9, <2>10 DEF WorksOn, At
  <2> QED BY <1>3, <2>4, <2>5, <2>8, <2>12, <2>13, HookedStep
<1> QED BY <1>5, <1>7, <1>6, WriteChannelActs

LEMMA ConnectHooked ==
    ASSUME Typed, Claims, Hooked, NEW c \in Calls, Connect(c), disturbed' = Disturbed
    PROVE  Hooked'
<1>1. PICK n \in Channels : n = setups + 1 /\ Claimed(n) = {}
  <2>1. setups + 1 \in Channels /\ setups \in Nat BY Bounded DEF Connect, NextSetup, Channels
  <2> QED BY <2>1 DEF Claims, Above
<1>2. channel[n] = NoChannel BY <1>1, NewRow
<1>3. hook' = hook BY DEF Connect
<1>4. \A j \in Channels : channel[j].state = "absent" => ~Live(channel[j]) BY DEF Live
<1>5. ASSUME NEW b \in Bots, NEW ch, ch.bot = b, ch.linked = TRUE, ch.state = "verified",
             Available(b, 0), SaveChannel(n, ch), Others(c),
             Becomes(c, "registering", 0, NoRequest, n, ch, NoOne, 0)
      PROVE  Hooked'
  <2>1. Storable(n, ch) BY <1>5 DEF Storable, Available, Channels
  <2>2. OneLive' BY <1>5, <2>1, OneLiveSaved
  <2>3. \A t \in Bots : t # b => Quiet(t) BY <1>2, <1>3, <1>5, QuietRow
  <2>4. channel'[n] = ch /\ \A j \in Channels : j # n => channel'[j] = channel[j]
    BY <1>5 DEF SaveChannel, Typed, TypeOK
  <2>5. b \notin disturbed' => b \notin disturbed BY DEF Disturbed
  <2>6. b \notin disturbed' => Led(b)' BY <1>3, <1>5, <2>4, <2>5 DEF Hooked, Led
  <2>7. PICK m : m = call'[c] OBVIOUS
  <2>8. m.step = "registering" /\ m.i = n /\ m.chan = ch BY <1>5, <2>7 DEF Becomes, Is
  <2>9. channel'[m.i] = m.chan /\ m.chan.linked /\ m.chan.state = "verified" BY <1>5, <2>4, <2>8
  <2>10. Current(call[c])' BY <2>7, <2>8, <2>9 DEF Current
  <2>11. WorksOn(c, b)' BY <1>5, <2>7, <2>8 DEF WorksOn, At
  <2> QED BY <1>5, <2>2, <2>3, <2>6, <2>10, <2>11, HookedStep
<1>6. ASSUME NEW b \in Bots, NEW ch, ch.linked = FALSE, ch.state = "error",
             SaveChannel(n, ch), call' = call
      PROVE  Hooked'
  <2>1. Storable(n, ch) BY <1>6 DEF Storable, Live
  <2>2. OneLive' BY <1>6, <2>1, OneLiveSaved
  <2>3. channel'[n] = ch /\ \A j \in Channels : j # n => channel'[j] = channel[j]
    BY <1>6 DEF SaveChannel, Typed, TypeOK
  <2>4. \A t \in Bots : Quiet(t) BY <1>2, <1>3, <1>6, <2>3 DEF Quiet
  <2>5. Others(c) BY <1>6 DEF Others, Typed, TypeOK
  <2>6. NoOne \notin Bots OBVIOUS
  <2> QED BY <1>6, <2>2, <2>4, <2>5, <2>6, HookedStep
<1>7. PICK w \in Workspaces, b \in Bots :
      \/ call' = call /\ SaveChannel(n, Made(w, b, FALSE))
      \/ /\ Available(b, 0) /\ SaveChannel(n, Made(w, b, TRUE))
         /\ Others(c)
         /\ Becomes(c, "registering", 0, NoRequest, n, Made(w, b, TRUE), NoOne, 0)
  BY <1>1, ConnectActs
<1>8. /\ Made(w, b, TRUE).bot = b /\ Made(w, b, TRUE).linked = TRUE
      /\ Made(w, b, TRUE).state = "verified"
      /\ Made(w, b, FALSE).linked = FALSE /\ Made(w, b, FALSE).state = "error"
  BY DEF Made
<1> QED BY <1>5, <1>6, <1>7, <1>8

LEMMA NoCallHooked ==
    ASSUME Typed, Hooked, UNCHANGED <<call, channel, hook>>, disturbed' = Disturbed
    PROVE  Hooked'
<1>1. \A b \in Bots : b \in disturbed => b \in disturbed' BY DEF Disturbed
<1>2. OneLive' BY OneLiveSame
<1>3. OneWorker' BY <1>1 DEF Hooked, OneWorker, WorksOn, At
<1>4. \A b \in Bots : Led(b) => Led(b)' BY DEF Led
<1>5. \A d \in Calls : Current(call[d]) => Current(call[d])' BY DEF Current, Own, Unconnected
<1> QED BY <1>1, <1>2, <1>3, <1>4, <1>5 DEF Hooked

LEMMA StutterHooked == ASSUME Hooked, UNCHANGED vars PROVE Hooked'
<1>1. UNCHANGED <<call, channel, hook, disturbed>> BY DEF vars
<1>2. OneLive' BY <1>1, OneLiveSame
<1>3. OneWorker' BY <1>1 DEF Hooked, OneWorker, WorksOn, At
<1>4. \A b \in Bots : Led(b) => Led(b)' BY <1>1 DEF Led
<1>5. \A d \in Calls : Current(call[d]) => Current(call[d])' BY <1>1 DEF Current, Own, Unconnected
<1> QED BY <1>1, <1>2, <1>3, <1>4, <1>5 DEF Hooked

LEMMA InitHooked == ASSUME Init PROVE Hooked
<1>1. \A i \in Channels : channel[i].state = "absent" BY DEF Init, NoChannel
<1>2. \A c \in Calls : call[c].step = "idle" /\ call[c].chan.bot \notin Bots
  BY DEF Init, Idle, NoChannel
<1>3. OneLive BY <1>1 DEF OneLive, Live
<1>4. OneWorker BY <1>2 DEF OneWorker, WorksOn
<1>5. \A b \in Bots : Led(b) BY <1>1 DEF Led
<1> QED BY <1>2, <1>3, <1>4, <1>5 DEF Hooked

LEMMA NextHooked == ASSUME Typed, Claims, Hooked, [Next]_vars PROVE Hooked'
<1>1. CASE Next
  <2>1. disturbed' = Disturbed BY <1>1 DEF Next
  <2>2. ASSUME NEW c \in Calls, Enter(c) \/ Continue(c) \/ Crash(c) PROVE Hooked'
    <3>1. CASE Looks(c) \/ Expires(c) \/ Answers(c)
      BY <2>1, <2>2, <3>1, HandlersHooked, TestHooked, ConnectHooked
    <3>2. CASE Asks(c)
      BY <2>1, <3>2, SetHookHooked, RegisterHooked, RetryHooked, CleanUpHooked DEF Asks
    <3>3. CASE Stores(c) BY <2>1, <3>3, ActivateHooked, CompleteHooked, StoresHooked DEF Stores
    <3>4. CASE WriteChannel(c) \/ Connect(c) BY <2>1, <3>4, WriteChannelHooked, ConnectHooked
    <3> QED BY <2>2, <3>1, <3>2, <3>3, <3>4, Grouping
  <2>3. ReadStatus \/ Lapse \/ OpenLink => Hooked'
    <3>1. ReadStatus \/ Lapse \/ OpenLink => UNCHANGED <<call, channel, hook>>
      BY DEF ReadStatus, Lapse, OpenLink
    <3> QED BY <2>1, <3>1, NoCallHooked
  <2> QED BY <1>1, <2>2, <2>3 DEF Next
<1>2. CASE UNCHANGED vars BY <1>2, StutterHooked
<1> QED BY <1>1, <1>2

\* A connected channel's bot sends its updates to that channel with its secret,
\* or nowhere, unless two handlers worked on the bot at once or a test took the
\* channel's bot away.
THEOREM HooksLeadToTheirChannel == Spec => []HookLeadsToItsChannel
<1>1. Init => Typed /\ Copies /\ Claims /\ Hooked BY InitTypes, InitCopies, InitClaims, InitHooked
<1>2. Typed /\ Copies /\ Claims /\ Hooked /\ [Next]_vars
         => Typed' /\ Copies' /\ Claims' /\ Hooked'
  BY NextTypes, NextCopies, NextClaims, NextHooked
<1>3. Typed /\ Claims /\ Hooked => HookLeadsToItsChannel
  <2>1. SUFFICES ASSUME Typed, Claims, Hooked, NEW i \in Channels, channel[i].state = "connected",
                        channel[i].bot \notin disturbed
        PROVE  hook[channel[i].bot] \in {Unset, [channel |-> i, secret |-> channel[i].secret]}
    BY DEF HookLeadsToItsChannel
  <2>2. channel[i] # NoChannel BY <2>1 DEF NoChannel
  <2>3. Identity(channel[i]) \in Claimed(i) BY <2>2, ClaimedHas
  <2>4. channel[i].bot \in Bots BY <2>1, <2>3 DEF Claims, OneIdentity, Identity
  <2> QED BY <2>1, <2>4 DEF Hooked, Led
<1> QED BY <1>1, <1>2, <1>3, PTL DEF Spec

=============================================================================
