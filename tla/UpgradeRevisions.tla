-------------------------- MODULE UpgradeRevisions --------------------------
(***************************************************************************)
(* Upgrades of one current paid period: the tenant's request and its       *)
(* cancellation, the payment of the upgrade's invoice, approval and        *)
(* rejection by platform administrators, and the message quota that        *)
(* follows from them (SubscriptionEntitlementService, UsageLimitService).  *)
(*                                                                         *)
(* A request is made under a lock of the tenant and its periods. A         *)
(* revision, and an invoice, is loaded without a lock, awaited over and    *)
(* saved whole. Only an approval locks the period, after it has loaded the *)
(* revision; the quota check of a message locks it too and reads the       *)
(* revision within. A partial unique index allows one revision that is not *)
(* cancelled.                                                              *)
(*                                                                         *)
(* Revision r and its invoice have one number. Of the quotas the one of    *)
(* outbound messages is modelled; inbound ones and API requests are alike. *)
(* Edits that replace an invoice's metadata, and make it another kind of   *)
(* invoice, are in SubscriptionLedger and TopUpPurchases.                  *)
(***************************************************************************)
EXTENDS Integers, FiniteSets

CONSTANTS
    MaxRevisions,   \* bound: upgrades requested
    MaxCalls,       \* bound: handlers core runs at once
    OldLimit,       \* messages in the quota snapshot of the period
    NewLimit        \* messages in the snapshot of the plan upgraded to

ASSUME UpgradeAssumption ==
    /\ MaxRevisions \in Nat /\ MaxCalls \in Nat
    /\ OldLimit \in Nat /\ NewLimit \in Nat
    /\ OldLimit <= NewLimit     \* assertUpgradeDoesNotReduceDimensions

Revisions == 1..MaxRevisions
Calls == 1..MaxCalls

VARIABLES
    ended,          \* whether the period's month is over
    period,         \* the period's status
    plan,           \* its plan
    bill,           \* per upgrade: payment status of its invoice
    revision,       \* subscription_period_upgrade_revisions
    events,         \* revisions with an 'upgrade_cancelled' event
    used,           \* billable usage rows of the period
    call,           \* per handler: its step and what it has loaded
    confirmed,      \* history: invoices ever saved as paid
    overwritten     \* history: revisions saved from a copy that had changed since

vars == <<ended, period, plan, bill, revision, events, used, call, confirmed, overwritten>>
-----------------------------------------------------------------------------
\* Overdue, partly paid and waived count as unpaid.
PaymentStatus == {"absent", "unpaid", "paid"}

\* before stands for upgrade_effective_at: the messages billed by then.
Statuses == {"none", "requested", "pending_approval", "approved", "rejected", "stale", "cancelled"}
Revision == [status : Statuses, carry : 0..OldLimit, before : 0..OldLimit + NewLimit]
NoRevision == [status |-> "none", carry |-> 0, before |-> 0]

Steps == {"idle", "cancelling", "rejecting", "approving", "saving", "confirming"}
Call == [step : Steps, r : Revisions \cup {0}, copy : Revision, pay : PaymentStatus]
Idle == [step |-> "idle", r |-> 0, copy |-> NoRevision, pay |-> "absent"]

Init ==
    /\ ended = FALSE /\ period = "active" /\ plan = "old"
    /\ bill = [r \in Revisions |-> "absent"]
    /\ revision = [r \in Revisions |-> NoRevision]
    /\ events = {} /\ used = 0
    /\ call = [c \in Calls |-> Idle]
    /\ confirmed = {} /\ overwritten = {}
-----------------------------------------------------------------------------
At(c, step) == call[c].step = step
End(c) == call' = [call EXCEPT ![c] = Idle]
\* Handlers are alike: a new one takes the first place that is free.
Begin(c, k) ==
    /\ At(c, "idle") /\ \A d \in 1..c - 1 : ~At(d, "idle")
    /\ call' = [call EXCEPT ![c] = k]

\* An open payment transaction holds the row of its invoice.
Held(r) == \E c \in Calls : At(c, "confirming") /\ call[c].r = r

\* The month ends, and the scheduler expires the period some time after.
MonthEnds ==
    /\ ~ended /\ ended' = TRUE
    /\ UNCHANGED <<period, plan, bill, revision, events, used, call, confirmed, overwritten>>
Expire ==
    /\ ended /\ period = "active" /\ period' = "expired"
    /\ UNCHANGED <<ended, plan, bill, revision, events, used, call, confirmed, overwritten>>
-----------------------------------------------------------------------------
\* The index on subscription_period_id where the status is not 'cancelled'.
SlotFree(r) == \A q \in Revisions \ {r} : revision[q].status \in {"none", "cancelled"}

\* createCurrentMonthUpgrade. It looks at one revision of the period, whichever the
\* database returns; where that one is cancelled and another is not, the index
\* refuses the new one.
Request ==
    /\ period = "active" /\ ~ended
    /\ \E r \in Revisions :
        /\ revision[r] = NoRevision /\ \A q \in 1..r - 1 : revision[q] # NoRevision
        /\ SlotFree(r)
        /\ revision' = [revision EXCEPT ![r].status = "requested"]
        /\ bill' = [bill EXCEPT ![r] = "unpaid"]
    /\ UNCHANGED <<ended, period, plan, events, used, call, confirmed, overwritten>>

\* The statuses each decision accepts in the revision it loads. Nothing writes
\* 'pending_payment'.
Cancellable == {"requested"}
Rejectable == {"requested", "pending_approval", "cancelled"}
ApprovableUnpaid == {"requested", "pending_approval"}
Approvable == {"pending_approval"}

Load(c, step, accepted) ==
    /\ \E r \in Revisions :
        /\ revision[r].status \in accepted
        /\ Begin(c, [Idle EXCEPT !.step = step, !.r = r, !.copy = revision[r]])
    /\ UNCHANGED <<ended, period, plan, bill, revision, events, used, confirmed, overwritten>>
BeginCancel(c) == Load(c, "cancelling", Cancellable)
BeginReject(c) == Load(c, "rejecting", Rejectable)
BeginApprove(c) == Load(c, "approving", Approvable)

\* Saving a revision writes every column that differs from the row as it now is.
Writable(c, row) == row.status = "cancelled" \/ SlotFree(call[c].r)
Write(c, row) == LET r == call[c].r IN
    /\ revision' = [revision EXCEPT ![r] = row]
    /\ overwritten' = IF revision[r] = call[c].copy THEN overwritten ELSE overwritten \cup {r}
SaveRevision(c, row) ==
    IF Writable(c, row) THEN Write(c, row) ELSE UNCHANGED <<revision, overwritten>>

\* cancelUpgradeRevision: a second cancellation of a revision violates the unique key
\* of its event and is undone; the other decisions look for their event first.
CommitCancel(c) == LET r == call[c].r IN
    /\ At(c, "cancelling")
    /\ IF r \in events THEN UNCHANGED <<revision, overwritten>>
       ELSE SaveRevision(c, [call[c].copy EXCEPT !.status = "cancelled"])
    /\ events' = events \cup {r}
    /\ End(c)
    /\ UNCHANGED <<ended, period, plan, bill, used, confirmed>>

\* rejectUpgradeRevision.
CommitReject(c) ==
    /\ At(c, "rejecting")
    /\ SaveRevision(c, [call[c].copy EXCEPT !.status = "rejected"])
    /\ End(c)
    /\ UNCHANGED <<ended, period, plan, bill, events, used, confirmed>>

\* approveUpgradeRevision, once it holds the period: what is left of the old quota
\* is carried over; a period that is over makes the upgrade stale.
Left == IF used < OldLimit THEN OldLimit - used ELSE 0
ApprovedRow(copy) == [copy EXCEPT !.status = "approved", !.carry = Left, !.before = used]
CommitApprove(c) ==
    LET timely == period = "active" /\ ~ended
        row == IF timely THEN ApprovedRow(call[c].copy) ELSE [call[c].copy EXCEPT !.status = "stale"] IN
    /\ At(c, "approving")
    /\ SaveRevision(c, row)
    /\ plan' = IF timely /\ Writable(c, row) THEN "new" ELSE plan
    /\ End(c)
    /\ UNCHANGED <<ended, period, bill, events, used, confirmed>>
-----------------------------------------------------------------------------
\* updateTenantBillingRecord and reviewTenantPaymentProof, reverseTenantBillingPayment,
\* submitPaymentProof and sendTenantBillingReminder: each saves the invoice it loaded.
BeginEdit(c, r, pay) ==
    /\ bill[r] # "absent"
    /\ Begin(c, [Idle EXCEPT !.step = "saving", !.r = r, !.pay = pay])
    /\ UNCHANGED <<ended, period, plan, bill, revision, events, used, confirmed, overwritten>>
Confirm(c) == \E r \in Revisions : BeginEdit(c, r, "paid")
Reverse(c) == \E r \in Revisions : bill[r] = "paid" /\ BeginEdit(c, r, "unpaid")
Touch(c) == \E r \in Revisions : bill[r] = "unpaid" /\ BeginEdit(c, r, "unpaid")

\* A copy that does not say paid is saved at once. One that does is saved in a
\* transaction, which then loads the revision.
SaveBill(c) == LET k == call[c] IN
    /\ At(c, "saving") /\ ~Held(k.r)
    /\ IF k.pay = "paid"
       THEN /\ call' = [call EXCEPT ![c].step = "confirming", ![c].copy = revision[k.r]]
            /\ UNCHANGED bill
       ELSE bill' = [bill EXCEPT ![k.r] = k.pay] /\ End(c)
    /\ UNCHANGED <<ended, period, plan, revision, events, used, confirmed, overwritten>>

\* markUpgradePaymentConfirmed, and the commit; a refusal undoes the payment.
RefusedRejectedOnly == {"rejected"}
Refused == {"rejected", "cancelled"}
CommitPayment(c) == LET k == call[c]
                        row == [k.copy EXCEPT !.status = "pending_approval"] IN
    /\ At(c, "confirming")
    /\ IF k.copy.status \in Refused \/ (k.copy.status = "requested" /\ ~Writable(c, row))
       THEN UNCHANGED <<bill, confirmed, revision, overwritten>>
       ELSE /\ bill' = [bill EXCEPT ![k.r] = "paid"]
            /\ confirmed' = confirmed \cup {k.r}
            /\ IF k.copy.status = "requested" THEN Write(c, row)
               ELSE UNCHANGED <<revision, overwritten>>
    /\ End(c)
    /\ UNCHANGED <<ended, period, plan, events, used>>
-----------------------------------------------------------------------------
\* buildEntitlement: an approved revision replaces the snapshot and adds what was
\* carried over. At most one is approved.
Approved == {r \in Revisions : revision[r].status = "approved"}
Limit == IF Approved = {} THEN OldLimit
         ELSE NewLimit + revision[CHOOSE r \in Approved : TRUE].carry

\* assertPeriodUsageAvailable compares the limit with all usage of the period. A
\* message whose clock was read before the month's end may be recorded after it.
HasRoom == used + 1 <= Limit
Send ==
    /\ period = "active" /\ HasRoom
    /\ used' = used + 1
    /\ UNCHANGED <<ended, period, plan, bill, revision, events, call, confirmed, overwritten>>

\* markProviderMessageNonBillable.
WriteOff ==
    /\ used > 0
    /\ used' = used - 1
    /\ UNCHANGED <<ended, period, plan, bill, revision, events, call, confirmed, overwritten>>
-----------------------------------------------------------------------------
Next ==
    \/ MonthEnds \/ Expire \/ Request \/ Send \/ WriteOff
    \/ \E c \in Calls :
        \/ BeginCancel(c) \/ CommitCancel(c) \/ BeginReject(c) \/ CommitReject(c)
        \/ BeginApprove(c) \/ CommitApprove(c)
        \/ Confirm(c) \/ Reverse(c) \/ Touch(c) \/ SaveBill(c) \/ CommitPayment(c)

Spec == Init /\ [][Next]_vars
-----------------------------------------------------------------------------
\* The types of the variables.
TypeOK ==
    /\ ended \in BOOLEAN /\ period \in {"active", "expired"} /\ plan \in {"old", "new"}
    /\ bill \in [Revisions -> PaymentStatus] /\ revision \in [Revisions -> Revision]
    /\ events \subseteq Revisions /\ used \in 0..OldLimit + NewLimit
    /\ call \in [Calls -> Call]
    /\ confirmed \subseteq Revisions /\ overwritten \subseteq Revisions

\* The tenant never uses more than the quotas of the plans it has paid for, however
\* approvals, payments and messages overlap: what is left of the old quota is granted
\* once, and nothing of the new one before an upgrade's invoice was confirmed.
UsageIsCovered ==
    used <= OldLimit + (IF confirmed = {} THEN 0 ELSE NewLimit)

\* Whose upgrade is paid gets a decision: its revision awaits approval or has an
\* outcome, and is never one the tenant can still cancel or has cancelled, unless a
\* handler saved a stale copy of it.
PaidUpgradeIsPending ==
    \A r \in Revisions : (bill[r] = "paid" /\ r \notin overwritten) =>
        revision[r].status \in {"pending_approval", "approved", "rejected", "stale"}

\* The entity says that usage from the moment an upgrade takes effect is evaluated
\* under the upgraded plan and the carryover: until that many messages were sent
\* since, another one has room.
UpgradeGrantsItsQuota ==
    \A r \in Approved :
        used - revision[r].before < NewLimit + revision[r].carry => HasRoom
=============================================================================
