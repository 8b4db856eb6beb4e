--------------------------- MODULE TopUpPurchases ---------------------------
(***************************************************************************)
(* Top-up bundles of one tenant: SubscriptionAddOnPurchaseService, the     *)
(* invoices it creates or is given, their payment, correction and reversal *)
(* by platform administrators, the tenant's payment proofs, and the        *)
(* scheduler's pass that expires a month's period together with its        *)
(* bundles.                                                                *)
(*                                                                         *)
(* An invoice is loaded, and later saved whole, without a lock. A bundle   *)
(* is confirmed and cancelled under a lock of its row, but the pass loads  *)
(* the bundles of a period without one and saves the copies it loaded. A   *)
(* payment saves its invoice and grants the bundle in one transaction,     *)
(* which is open for two steps here: it reads the clock in the first.      *)
(*                                                                         *)
(* Months are numbered; a month's paid period is approved when it starts.  *)
(* A bundle belongs to the period of its month and lapses with it.         *)
(***************************************************************************)
EXTENDS Integers, FiniteSets

CONSTANTS
    MaxBills,       \* bound: invoices made
    MaxCalls,       \* bound: handlers core runs at once
    MaxPurchases,   \* bound: bundles requested
    Horizon,        \* bound: the last month that can be paid for
    MaxCrashes      \* bound: passes and calls cut off

ASSUME TopUpAssumption ==
    /\ MaxBills \in Nat /\ MaxCalls \in Nat /\ MaxPurchases \in Nat /\ MaxCrashes \in Nat
    /\ Horizon \in Nat \ {0}

Bills == 1..MaxBills
Calls == 1..MaxCalls
Purchases == 1..MaxPurchases
Months == 1..Horizon

VARIABLES
    now,        \* the current month
    period,     \* per month: its paid period
    bill,       \* the invoices
    purchase,   \* tenant_subscription_add_on_purchases, with their components
    call,       \* per handler: its step and what it has loaded
    pass,       \* the scheduler's transaction
    crashes,    \* passes and calls cut off
    confirmed,  \* history: invoices ever saved as paid
    overtaken,  \* history: bundles a pass saved although they had changed since
                \* it loaded them
    late        \* history: bundles requested once a pass had loaded their
                \* period's bundles

vars == <<now, period, bill, purchase, call, pass, crashes, confirmed, overtaken, late>>
-----------------------------------------------------------------------------
\* topUp: metadata.purchaseRequestType is 'top_up'. A waived, overdue or partly paid
\* invoice counts as unpaid.
Bill == [status : {"absent", "unpaid", "paid"}, topUp : BOOLEAN, month : Months \cup {0}]
NoBill == [status |-> "absent", topUp |-> FALSE, month |-> 0]

\* A bundle; recorded: it has an add_on_payment_confirmed event for its invoice
\* ("bill") or for itself ("own").
Purchase == [status : {"none", "pending", "active", "expired", "cancelled"},
             paid : BOOLEAN, bill : Bills \cup {0}, month : Months \cup {0},
             recorded : SUBSET {"bill", "own"}]
NoPurchase == [status |-> "none", paid |-> FALSE, bill |-> 0, month |-> 0, recorded |-> {}]

Steps == {"idle", "requesting", "saving", "granting", "confirming"}
Call == [step : Steps, b : Bills \cup {0}, copy : Bill, p : Purchases \cup {0}, month : 0..Horizon + 1]
Idle == [step |-> "idle", b |-> 0, copy |-> NoBill, p |-> 0, month |-> 0]

\* The bundles a pass has loaded, by number.
Pass == [month : Months \cup {0}, copies : [Purchases -> Purchase]]
NoPass == [month |-> 0, copies |-> [p \in Purchases |-> NoPurchase]]

Init ==
    /\ now = 1
    /\ period = [m \in Months |-> "none"]
    /\ bill = [b \in Bills |-> NoBill]
    /\ purchase = [p \in Purchases |-> NoPurchase]
    /\ call = [c \in Calls |-> Idle]
    /\ pass = NoPass
    /\ crashes = 0
    /\ confirmed = {}
    /\ overtaken = {}
    /\ late = {}
-----------------------------------------------------------------------------
At(c, step) == call[c].step = step
End(c) == call' = [call EXCEPT ![c] = Idle]
\* Handlers are alike: a new one takes the first place that is free.
Begin(c, k) ==
    /\ At(c, "idle") /\ \A d \in 1..c - 1 : ~At(d, "idle")
    /\ call' = [call EXCEPT ![c] = k]

\* An open payment transaction holds the row of its invoice.
Held(b) == \E c \in Calls : At(c, "granting") /\ call[c].b = b
Linked(b) == {p \in Purchases : purchase[p].bill = b}
\* The next invoice or bundle to be made.
NewBill(b) == bill[b] = NoBill /\ \A d \in 1..b - 1 : bill[d] # NoBill
NewPurchase(p) == purchase[p] = NoPurchase /\ \A q \in 1..p - 1 : purchase[q] # NoPurchase
Open(p) == purchase[p].status \in {"pending", "active"}

\* Outside: a month's period is paid, approved and started.
StartPeriod ==
    /\ \A m \in Months : period[m] # "active"
    /\ now \in Months /\ period[now] = "none"
    /\ period' = [period EXCEPT ![now] = "active"]
    /\ UNCHANGED <<now, bill, purchase, call, pass, crashes, confirmed, overtaken, late>>

Tick ==
    /\ now <= Horizon
    /\ now' = now + 1
    /\ UNCHANGED <<period, bill, purchase, call, pass, crashes, confirmed, overtaken, late>>

\* createTenantBillingRecord for a bundle the tenant is to request.
IssueBill ==
    /\ now \in Months
    /\ \E b \in Bills, status \in {"unpaid", "paid"} :
        /\ NewBill(b)
        /\ bill' = [bill EXCEPT ![b] = [status |-> status, topUp |-> TRUE, month |-> now]]
        /\ confirmed' = IF status = "paid" THEN confirmed \cup {b} ELSE confirmed
    /\ UNCHANGED <<now, period, purchase, call, pass, crashes, overtaken, late>>
-----------------------------------------------------------------------------
\* createPurchase: the period is resolved, and an invoice that was supplied is
\* checked, before the transaction.
Operational(m) == m \in Months /\ m = now /\ period[m] = "active"
BeginPurchase(c) ==
    /\ Operational(now)
    /\ \E b \in Bills \cup {0} :
        /\ b # 0 => bill[b] = [status |-> "unpaid", topUp |-> TRUE, month |-> now]
        /\ Begin(c, [Idle EXCEPT !.step = "requesting", !.b = b, !.month = now])
    /\ UNCHANGED <<now, period, bill, purchase, pass, crashes, confirmed, overtaken, late>>

\* The transaction: the invoice is locked and checked again, or made.
AttachableUnchecked(b) == Linked(b) = {}
Attachable(b) == bill[b].status # "paid" /\ Linked(b) = {}
CommitPurchase(c) == LET k == call[c] IN
    /\ At(c, "requesting") /\ ~Held(k.b)
    /\ IF k.b # 0 /\ ~Attachable(k.b) THEN UNCHANGED <<bill, purchase, late>>
       ELSE \E p \in Purchases, b \in Bills :
            /\ NewPurchase(p)
            /\ IF k.b # 0 THEN b = k.b /\ UNCHANGED bill
               ELSE /\ NewBill(b)
                    /\ bill' = [bill EXCEPT ![b] =
                          [status |-> "unpaid", topUp |-> TRUE, month |-> k.month]]
            /\ purchase' = [purchase EXCEPT ![p] =
                  [NoPurchase EXCEPT !.status = "pending", !.bill = b, !.month = k.month]]
            /\ late' = IF period[k.month] = "expired" \/ pass.month = k.month
                       THEN late \cup {p} ELSE late
    /\ End(c)
    /\ UNCHANGED <<now, period, pass, crashes, confirmed, overtaken>>
-----------------------------------------------------------------------------
\* updateTenantBillingRecord and reviewTenantPaymentProof mark an invoice paid,
\* replace its metadata or both; reverseTenantBillingPayment; submitPaymentProof;
\* each saves the row it loaded.
Edited(k, pays, tag) ==
    [k EXCEPT !.status = IF pays THEN "paid" ELSE @, !.topUp = tag]
BeginEdit(c, b, copy) ==
    /\ bill[b].status # "absent"
    /\ Begin(c, [Idle EXCEPT !.step = "saving", !.b = b, !.copy = copy])
Update(c) ==
    /\ \E b \in Bills, pays, tag \in BOOLEAN : BeginEdit(c, b, Edited(bill[b], pays, tag))
    /\ UNCHANGED <<now, period, bill, purchase, pass, crashes, confirmed, overtaken, late>>
Reverse(c) ==
    /\ \E b \in Bills :
        bill[b].status = "paid" /\ BeginEdit(c, b, [bill[b] EXCEPT !.status = "unpaid"])
    /\ UNCHANGED <<now, period, bill, purchase, pass, crashes, confirmed, overtaken, late>>
SubmitProof(c) ==
    /\ \E b \in Bills : bill[b].status = "unpaid" /\ BeginEdit(c, b, bill[b])
    /\ UNCHANGED <<now, period, bill, purchase, pass, crashes, confirmed, overtaken, late>>

\* A copy that does not say paid is saved at once. One that does is saved in a
\* transaction that goes on to grant the bundle; the clock is read within it.
SaveBill(c) == LET k == call[c] IN
    /\ At(c, "saving") /\ ~Held(k.b)
    /\ IF k.copy.status = "paid"
       THEN /\ call' = [call EXCEPT ![c].step = "granting", ![c].month = now]
            /\ UNCHANGED bill
       ELSE /\ bill' = [bill EXCEPT ![k.b] = k.copy]
            /\ End(c)
    /\ UNCHANGED <<now, period, purchase, pass, crashes, confirmed, overtaken, late>>

\* confirmPurchasePayment on its locked row: what a confirmation at month m under
\* key does with bundle q, whose invoice stands at status.
GrantableUnpaid(q, m, status) == q.status = "pending" /\ ~q.paid /\ m <= q.month
Grantable(q, m, status) ==
    q.status = "pending" /\ ~q.paid /\ m <= q.month /\ status = "paid"
Granted(q, key) == [q EXCEPT !.paid = TRUE, !.status = "active", !.recorded = @ \cup {key}]

\* confirmPurchaseForBillingRecord, and the commit. Without a bundle, or with one
\* granted or recorded already, the invoice alone is saved; a bundle that cannot
\* be granted undoes the payment.
Settled(q) == (q.paid /\ q.status = "active") \/ "bill" \in q.recorded
CommitPayment(c) == LET k == call[c] IN
    /\ At(c, "granting")
    /\ LET waiting == {p \in Linked(k.b) : k.copy.topUp /\ ~Settled(purchase[p])}
           possible == \A p \in waiting : Grantable(purchase[p], k.month, "paid") IN
       IF possible
       THEN /\ bill' = [bill EXCEPT ![k.b] = k.copy]
            /\ confirmed' = confirmed \cup {k.b}
            /\ purchase' = [p \in Purchases |->
                  IF p \in waiting THEN Granted(purchase[p], "bill") ELSE purchase[p]]
       ELSE UNCHANGED <<bill, confirmed, purchase>>
    /\ End(c)
    /\ UNCHANGED <<now, period, pass, crashes, overtaken, late>>

\* The operator's confirmPurchasePayment: the clock is read before the transaction.
BeginConfirm(c) ==
    /\ \E p \in Purchases :
        /\ purchase[p].status # "none" /\ "own" \notin purchase[p].recorded
        /\ Begin(c, [Idle EXCEPT !.step = "confirming", !.p = p, !.month = now])
    /\ UNCHANGED <<now, period, bill, purchase, pass, crashes, confirmed, overtaken, late>>
CommitConfirm(c) == LET k == call[c] q == purchase[k.p] IN
    /\ At(c, "confirming") /\ ~Held(q.bill)
    /\ purchase' = IF Grantable(q, k.month, bill[q.bill].status)
                   THEN [purchase EXCEPT ![k.p] = Granted(q, "own")] ELSE purchase
    /\ End(c)
    /\ UNCHANGED <<now, period, bill, pass, crashes, confirmed, overtaken, late>>

\* cancelPurchase.
CancellableUnchecked(q) == q.status # "none"
Cancellable(q) == q.status = "pending" /\ ~q.paid
Cancel(p) ==
    /\ Cancellable(purchase[p])
    /\ purchase' = [purchase EXCEPT ![p].status = "cancelled"]
    /\ UNCHANGED <<now, period, bill, call, pass, crashes, confirmed, overtaken, late>>
-----------------------------------------------------------------------------
\* processTenant: the due period is locked and its bundles are loaded.
DueLate(m) == period[m] = "active" /\ m + 1 < now
Due(m) == period[m] = "active" /\ m < now
PassStart ==
    /\ pass = NoPass
    /\ \E m \in Months :
        /\ Due(m)
        /\ pass' = [month |-> m, copies |-> [p \in Purchases |->
              IF purchase[p].month = m /\ Open(p) THEN purchase[p] ELSE NoPurchase]]
    /\ UNCHANGED <<now, period, bill, purchase, call, crashes, confirmed, overtaken, late>>

\* The commit: every loaded bundle is expired. What a bundle's save writes is what
\* differs from the row as it is read again; a payment confirmed after that stays.
Lapsed(q, paid) == [q EXCEPT !.status = "expired", !.paid = paid]
PassCommit ==
    LET loaded == {p \in Purchases : pass.copies[p] # NoPurchase}
        changed == {p \in loaded : purchase[p] # pass.copies[p]} IN
    /\ pass # NoPass
    /\ \E kept \in SUBSET changed :
        purchase' = [p \in Purchases |->
            IF p \in loaded
            THEN Lapsed(purchase[p], IF p \in kept THEN purchase[p].paid ELSE pass.copies[p].paid)
            ELSE purchase[p]]
    /\ period' = [period EXCEPT ![pass.month] = "expired"]
    /\ pass' = NoPass
    /\ overtaken' = overtaken \cup changed
    /\ UNCHANGED <<now, bill, call, crashes, confirmed, late>>

\* A process stops, or a transaction is rolled back.
CutOff ==
    /\ crashes < MaxCrashes
    /\ crashes' = crashes + 1
    /\ \/ pass # NoPass /\ pass' = NoPass /\ UNCHANGED call
       \/ \E c \in Calls : ~At(c, "idle") /\ End(c) /\ UNCHANGED pass
    /\ UNCHANGED <<now, period, bill, purchase, confirmed, overtaken, late>>
-----------------------------------------------------------------------------
Next ==
    \/ StartPeriod \/ Tick \/ IssueBill \/ PassStart \/ PassCommit \/ CutOff
    \/ \E c \in Calls :
        \/ BeginPurchase(c) \/ CommitPurchase(c)
        \/ SubmitProof(c) \/ Update(c) \/ Reverse(c) \/ SaveBill(c) \/ CommitPayment(c)
        \/ BeginConfirm(c) \/ CommitConfirm(c)
    \/ \E p \in Purchases : Cancel(p)

Spec == Init /\ [][Next]_vars

\* The scheduler's cron job comes round, whatever stops one pass of it.
Fairness == WF_vars(PassStart) /\ SF_vars(PassCommit)
FairSpec == Spec /\ Fairness
-----------------------------------------------------------------------------
\* The types of the variables.
TypeOK ==
    /\ now \in 1..Horizon + 1
    /\ period \in [Months -> {"none", "active", "expired"}]
    /\ bill \in [Bills -> Bill] /\ purchase \in [Purchases -> Purchase]
    /\ call \in [Calls -> Call] /\ pass \in Pass
    /\ crashes \in 0..MaxCrashes
    /\ confirmed \subseteq Bills
    /\ overtaken \subseteq Purchases /\ late \subseteq Purchases

\* listActivePurchasesForPeriod, and the same filter in the entitlement resolver.
Counted(p) == purchase[p].status = "active" /\ purchase[p].paid /\ Operational(purchase[p].month)

\* A bundle counts towards the limits only on an invoice that was paid for it
\* alone, whatever calls overlapped: no invoice pays for two bundles, and no
\* confirmation runs ahead of the payment.
GrantIsPaidFor ==
    \A p \in Purchases : Counted(p) =>
        purchase[p].bill \in confirmed /\ Linked(purchase[p].bill) = {p}

\* Who has paid has the bundle: a paid top-up invoice never stands beside a bundle
\* that waits for its payment, was cancelled or lapsed unpaid, unless a pass
\* saved a copy of it from before the confirmation.
PaidIsGranted ==
    \A p \in Purchases :
        (purchase[p].status # "none" /\ p \notin overtaken
         /\ bill[purchase[p].bill].status = "paid" /\ bill[purchase[p].bill].topUp)
        => purchase[p].paid

\* A bundle that was cancelled or lapsed stays as it is, and a paid one stays paid,
\* unless a pass saved an older copy.
EndedStaysEnded ==
    [][\A p \in Purchases : p \notin overtaken' =>
        /\ purchase[p].status \in {"cancelled", "expired"} =>
               purchase'[p].status = purchase[p].status /\ purchase'[p].paid = purchase[p].paid
        /\ purchase[p].paid => purchase'[p].paid]_vars

\* Every bundle lapses with its month, unless it was requested so late that the pass
\* had already loaded the month's bundles.
BundlesLapse ==
    \A p \in Purchases :
        (Open(p) /\ purchase[p].month < now) ~> (~Open(p) \/ p \in late)
=============================================================================
