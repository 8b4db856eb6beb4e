------------------------- MODULE SubscriptionLedger -------------------------
(***************************************************************************)
(* The subscription ledger of one tenant: billing records, the paid        *)
(* periods they buy, the trial period, trial-conversion revisions and the  *)
(* projected entitlement row.                                              *)
(*                                                                         *)
(* Who acts on it:                                                         *)
(*   - tenant requests, which hold the tenant row and the period rows      *)
(*     locked, so each is one step;                                        *)
(*   - Platform Admin calls on a billing record, which read the row with   *)
(*     no lock, decide on what they read, and save it in a later           *)
(*     transaction: a load step and a save step of one call;               *)
(*   - admin activation, three transactions in a row: approve the period,  *)
(*     project the entitlement, settle the trial;                          *)
(*   - the period scheduler, whose pass reads its candidates and its clock *)
(*     once and then opens a transaction per candidate;                    *)
(*   - the older entitlement expiry job, one transaction.                  *)
(*                                                                         *)
(* Time is a tick counter; a calendar month is MonthLength ticks and every *)
(* window is half open.                                                    *)
(***************************************************************************)
EXTENDS Integers, FiniteSets

CONSTANTS
    Bills,          \* billing records that may come to exist
    NoBill,         \* not a billing record
    Calls,          \* API calls that may be in flight at once
    Schedulers,     \* backend instances that run the period scheduler
    MonthLength,    \* ticks in a calendar month
    GraceLength,    \* ticks of payment grace (seven days)
    TrialEnd,       \* the tick at which the trial ends; 0 for no trial
    Horizon,        \* bound: the last tick
    MaxAhead,       \* months a next_month request looks through (24)
    AutoApprove,    \* the plan approves its periods by itself
    Offered,        \* bound: the kinds of invoice this instance issues
    Edits           \* bound: the edits admins make to an invoice, besides
                    \* marking it paid: waive it, void or reissue it, move
                    \* its window

ASSUME LedgerAssumption ==
    /\ IsFiniteSet(Bills)
    /\ NoBill \notin Bills
    /\ MonthLength \in Nat \ {0}
    /\ {GraceLength, TrialEnd, Horizon, MaxAhead} \subseteq Nat
    /\ AutoApprove \in BOOLEAN
    /\ Offered \subseteq {"period", "manual", "after_trial", "trial_conversion"}
    /\ Edits \subseteq {"waive", "void", "window"}

VARIABLES
    now,        \* the clock
    bill,       \* tenant_billing_records
    period,     \* the paid tenant_subscription_periods row a bill bought
    trial,      \* status of the trial period row
    rev,        \* status of the conversion revision a bill carries
    repointed,  \* bills whose revision was moved from the trial to a paid period
    ent,        \* tenant_entitlements: state, period projected, grace end
    projected,  \* periods whose admin-period-activation key is recorded
    call,       \* API calls in flight
    pass        \* scheduler passes in flight

vars == <<now, bill, period, trial, rev, repointed, ent, projected, call, pass>>

Kinds == {"none", "period", "manual", "after_trial", "trial_conversion"}
\* unpaid stands for unpaid, partially_paid and overdue.
PaymentStatus == {"unpaid", "paid", "waived"}
PeriodStatus == {"absent", "upcoming", "active", "expired"}
RevisionStatus == {"none", "requested", "pending_approval", "approved",
                   "rejected", "cancelled", "stale"}
EntitlementState == {"none", "paid_active", "payment_grace", "expired",
                     "suspended"}

Row == [kind : Kinds, month : Nat, pay : PaymentStatus, void : BOOLEAN]
PeriodRow == [status : PeriodStatus, approved : BOOLEAN, start : Nat, end : Nat,
              seq : Nat]
EntitlementRow == [state : EntitlementState, of : Bills \cup {NoBill}, grace : Nat]
CallState == [op : {"idle", "insert", "save", "reverse", "project", "settle"},
              bill : Bills \cup {NoBill}, row : Row]
PassState == [on : BOOLEAN, at : Nat, trial : BOOLEAN, up : SUBSET Bills,
              tenant : BOOLEAN]

NoRow == [kind |-> "none", month |-> 0, pay |-> "unpaid", void |-> FALSE]
NoPeriod == [status |-> "absent", approved |-> FALSE, start |-> 0,
             end |-> 0, seq |-> 0]
NoEntitlement == [state |-> "none", of |-> NoBill, grace |-> 0]
Idle == [op |-> "idle", bill |-> NoBill, row |-> NoRow]
NoPass == [on |-> FALSE, at |-> 0, trial |-> FALSE, up |-> {}, tenant |-> FALSE]

-----------------------------------------------------------------------------
(* The calendar, and what the rows mean at a given tick. *)

MonthOf(t) == t \div MonthLength
MonthStart(m) == m * MonthLength
ThisMonth == MonthOf(now)

NonVoid == {b \in Bills : bill[b].kind # "none" /\ ~bill[b].void}
Reserved(m) == \E b \in NonVoid : bill[b].month = m
Issued(kinds) == \E b \in NonVoid : bill[b].kind \in kinds

Active == {b \in Bills : period[b].status = "active"}

\* The application's count of active paid periods, or the unique index behind
\* it; a refusal rolls the transaction back. (The mutant forgets the periods
\* that still await approval.)
SlotFreeOfApproved == {b \in Active : period[b].approved} = {}
SlotFree == Active = {}

ActiveThisMonth == \E b \in Active : period[b].start = MonthStart(ThisMonth)

InWindow(b, t) == period[b].start <= t /\ t < period[b].end

\* isOperationalPeriod and periodConfersAccess: status, approval and window.
Operational(b) == b \in Active /\ period[b].approved /\ InWindow(b, now)
TrialOperational == trial = "active" /\ now < TrialEnd

\* Revisions whose subscription_period_id is the trial, and those of them the
\* partial unique index counts.
TrialRevisions == {b \in Bills : rev[b] # "none"} \ repointed
LiveTrialRevisions == {b \in TrialRevisions : rev[b] # "cancelled"}

-----------------------------------------------------------------------------
(* Tenant requests. *)

Issue(b, kind, month) ==
    /\ bill[b].kind = "none"
    /\ kind \in Offered
    /\ bill' = [bill EXCEPT ![b] = [kind |-> kind, month |-> month,
                                   pay |-> "unpaid", void |-> FALSE]]

RequestCurrentMonth(b) ==
    /\ ~TrialOperational
    /\ ~ActiveThisMonth
    /\ ~Reserved(ThisMonth)
    /\ Issue(b, "period", ThisMonth)
    /\ UNCHANGED <<now, period, trial, rev, repointed, ent, projected, call, pass>>

\* A current-month request while the trial runs converts the trial. It looks
\* at no other invoice of the month.
RequestConversion(b) ==
    /\ TrialOperational
    /\ ~ActiveThisMonth
    /\ ~Issued({"after_trial"})
    /\ LiveTrialRevisions = {}
    /\ Issue(b, "trial_conversion", ThisMonth)
    /\ rev' = [rev EXCEPT ![b] = "requested"]
    /\ UNCHANGED <<now, period, trial, repointed, ent, projected, call, pass>>

\* The revision lookup takes any one revision of the trial, and only a live
\* one refuses the request. The overlap test compares a Yangon instant with
\* UTC calendar dates, so the month before the trial's last month counts too.
RequestAfterTrial(b) ==
    LET month == MonthOf(TrialEnd) IN
    /\ TrialOperational
    /\ ~ActiveThisMonth
    /\ TrialRevisions = {} \/ TrialRevisions # LiveTrialRevisions
    /\ ~Issued({"after_trial"})
    /\ ~Reserved(month) /\ ~Reserved(month - 1)
    /\ Issue(b, "after_trial", month)
    /\ UNCHANGED <<now, period, trial, rev, repointed, ent, projected, call, pass>>

Occupied(m) ==
    \/ Reserved(m)
    \/ \E b \in Bills : /\ period[b].status # "absent"
                        /\ period[b].end > MonthStart(ThisMonth)
                        /\ MonthOf(period[b].start) = m

RequestNextMonth(b) ==
    /\ \/ ActiveThisMonth
       \/ \E p \in NonVoid : /\ bill[p].month = ThisMonth
                             /\ bill[p].pay \in {"paid", "waived"}
    /\ ~\E p \in NonVoid : /\ bill[p].kind \in {"period", "after_trial"}
                           /\ bill[p].pay = "unpaid"
    /\ \E m \in (ThisMonth + 1) .. (ThisMonth + MaxAhead - 1) :
          /\ ~Occupied(m)
          /\ \A k \in (ThisMonth + 1) .. (m - 1) : Occupied(k)
          /\ Issue(b, "period", m)
    /\ UNCHANGED <<now, period, trial, rev, repointed, ent, projected, call, pass>>

-----------------------------------------------------------------------------
(* Calls that read a billing record without a lock and save it later. *)

Begin(c, op, b, row) ==
    /\ call[c] = Idle
    /\ call' = [call EXCEPT ![c] = [op |-> op, bill |-> b, row |-> row]]
    /\ UNCHANGED <<now, bill, period, trial, rev, repointed, ent, projected, pass>>

Months == 0 .. MonthOf(Horizon)
AdminPayment == {p \in PaymentStatus : p = "waived" => "waive" \in Edits}

AdminCreates(c) ==
    \E m \in Months, pay \in AdminPayment :
        /\ "manual" \in Offered
        /\ ~Reserved(m)
        /\ Begin(c, "insert", NoBill, [kind |-> "manual", month |-> m,
                                       pay |-> pay, void |-> FALSE])

PaymentTransitions ==
    {"unpaid"} \X AdminPayment \cup {<<"paid", "paid">>, <<"waived", "waived">>}

\* A confirmed record keeps its financial fields, but saving it again (a new
\* note) still runs the payment confirmation. Overlap is only looked for when
\* the window is part of the edit, not when a void invoice is issued again.
AdminUpdates(c, b) ==
    \E m \in Months \cup {bill[b].month}, pay \in PaymentStatus, void \in BOOLEAN :
        LET row == [bill[b] EXCEPT !.month = m, !.pay = pay, !.void = void] IN
        /\ bill[b].kind # "none"
        /\ bill[b].pay = "paid" => row = bill[b]
        /\ m # bill[b].month =>
              "window" \in Edits /\ ~\E o \in NonVoid \ {b} : bill[o].month = m
        /\ <<bill[b].pay, pay>> \in PaymentTransitions
        /\ void # bill[b].void => "void" \in Edits
        /\ ~(void /\ pay = "paid")
        /\ Begin(c, "save", b, row)

AdminReviewsProof(c, b) ==
    /\ bill[b].kind # "none"
    /\ ~bill[b].void
    /\ <<bill[b].pay, "paid">> \in PaymentTransitions
    /\ Begin(c, "save", b, [bill[b] EXCEPT !.pay = "paid"])

AdminReverses(c, b) ==
    /\ bill[b].kind # "none"
    /\ bill[b].pay = "paid"
    /\ Begin(c, "reverse", b, [bill[b] EXCEPT !.pay = "unpaid"])

\* The proof itself is metadata: the row is saved with the columns it was
\* loaded with.
TenantSubmitsProof(c, b) ==
    /\ bill[b].kind # "none"
    /\ bill[b].pay = "unpaid"
    /\ Begin(c, "save", b, bill[b])

-----------------------------------------------------------------------------
(* The save, with the activation that a paid record runs in its transaction. *)

WindowStart(row) ==
    IF row.kind = "after_trial" THEN TrialEnd ELSE MonthStart(row.month)
WindowEnd(row) == MonthStart(row.month + 1)

\* The current calendar month, or an after-trial start already reached, makes
\* the period active; both are start <= now once past months are set aside.
TargetStatusAtOnce(row) ==
    IF WindowEnd(row) <= MonthStart(ThisMonth) THEN "expired" ELSE "active"
TargetStatus(row) ==
    CASE WindowEnd(row) <= MonthStart(ThisMonth) -> "expired"
      [] WindowEnd(row) > MonthStart(ThisMonth) /\ WindowStart(row) <= now -> "active"
      [] OTHER -> "upcoming"

\* sequence_number is MAX + 1; no period row is ever deleted.
NextSequence == Cardinality({b \in Bills : period[b].status # "absent"}) + 1

NewPeriod(row) ==
    [status |-> TargetStatus(row), approved |-> AutoApprove,
     start |-> WindowStart(row), end |-> WindowEnd(row), seq |-> NextSequence]

\* A period that exists keeps its window; only its status may follow. (The
\* mutant builds the row of an upcoming period afresh, approval included.)
EnsurePaidPeriodAfresh(b, row) ==
    /\ \/ /\ period[b].status \in {"absent", "upcoming"}
          /\ period' = [period EXCEPT ![b] = NewPeriod(row)]
       \/ /\ period[b].status \in {"active", "expired"}
          /\ UNCHANGED period
    /\ /\ period[b].status \in {"absent", "upcoming"}
       /\ TargetStatus(row) = "active"
       => SlotFree
EnsurePaidPeriod(b, row) ==
    /\ \/ /\ period[b].status = "absent"
          /\ period' = [period EXCEPT ![b] = NewPeriod(row)]
       \/ /\ period[b].status = "upcoming"
          /\ period' = [period EXCEPT ![b].status = TargetStatus(row)]
       \/ /\ period[b].status \in {"active", "expired"}
          /\ UNCHANGED period
    /\ /\ period[b].status \in {"absent", "upcoming"}
       /\ TargetStatus(row) = "active"
       => SlotFree

ConfirmPayment(b, row) ==
    /\ rev[b] \notin {"rejected", "cancelled"}
    /\ rev' = IF rev[b] = "requested" THEN [rev EXCEPT ![b] = "pending_approval"]
                                      ELSE rev
    /\ row.kind = "after_trial" => MonthOf(TrialEnd) = row.month
    /\ EnsurePaidPeriod(b, row)

WriteBill(b, row) ==
    /\ bill' = [bill EXCEPT ![b] = row]
    /\ IF row.pay = "paid" THEN ConfirmPayment(b, row)
                           ELSE UNCHANGED <<period, rev>>
    /\ UNCHANGED <<now, trial, repointed, ent, projected, pass>>

SaveBill(c) ==
    /\ call[c].op \in {"save", "reverse"}
    /\ WriteBill(call[c].bill, call[c].row)
    /\ call' = [call EXCEPT ![c] = Idle]

InsertBill(c, b) ==
    /\ call[c].op = "insert"
    /\ bill[b].kind = "none"
    /\ WriteBill(b, call[c].row)
    /\ call' = [call EXCEPT ![c] = Idle]

\* A refused save, a failed lookup between two transactions, or the process
\* dying: what was committed stays, the rest of the call does not happen.
CallEnds(c) ==
    /\ call[c] # Idle
    /\ call' = [call EXCEPT ![c] = Idle]
    /\ UNCHANGED <<now, bill, period, trial, rev, repointed, ent, projected, pass>>

-----------------------------------------------------------------------------
(* Conversion revisions. *)

SetRevision(b, status) ==
    /\ rev' = [rev EXCEPT ![b] = status]
    /\ UNCHANGED <<now, bill, period, trial, repointed, ent, projected, call, pass>>

TenantCancelsRevision(b) ==
    /\ rev[b] = "requested"
    /\ SetRevision(b, "cancelled")

\* A cancelled revision may still be rejected, unless the index refuses a
\* second live revision of the trial.
AdminRejectsRevision(b) ==
    /\ \/ rev[b] \in {"requested", "pending_approval"}
       \/ rev[b] = "cancelled" /\ (b \in repointed \/ LiveTrialRevisions = {})
    /\ SetRevision(b, "rejected")

\* The generic upgrade approval, applied to the trial period. (A repointed
\* revision is approved already, which the call answers without a write.)
AdminApprovesRevision(b) ==
    /\ b \in TrialRevisions
    /\ rev[b] = "pending_approval"
    /\ SetRevision(b, IF TrialOperational THEN "approved" ELSE "stale")

-----------------------------------------------------------------------------
(* Admin activation of a paid period: three transactions. *)

Activates(b) ==
    period[b].status = "upcoming" /\ period[b].start <= now

ApprovePeriod(c, b) ==
    /\ call[c] = Idle
    /\ period[b].status \in {"upcoming", "active"}
    /\ \/ /\ period[b].approved
          /\ Operational(b)
          /\ UNCHANGED period
       \/ /\ ~period[b].approved
          /\ now < period[b].end
          /\ Activates(b) => SlotFree
          /\ period' = [period EXCEPT ![b].approved = TRUE,
                                      ![b].status = IF Activates(b) THEN "active" ELSE @]
    /\ call' = IF period'[b].status = "active" /\ InWindow(b, now)
               THEN [call EXCEPT ![c] = [op |-> "project", bill |-> b, row |-> NoRow]]
               ELSE call
    /\ UNCHANGED <<now, bill, trial, rev, repointed, ent, projected, pass>>

PaidActive(b) == [state |-> "paid_active", of |-> b, grace |-> 0]

\* Every reachable state may become paid_active; the idempotency key makes a
\* second projection of the same period a no-op.
ProjectEntitlement(c) ==
    LET b == call[c].bill IN
    /\ call[c].op = "project"
    /\ ent' = IF b \in projected THEN ent ELSE PaidActive(b)
    /\ projected' = projected \cup {b}
    /\ call' = [call EXCEPT ![c] = IF bill[b].kind \in {"trial_conversion", "after_trial"}
                                   THEN [@ EXCEPT !.op = "settle"]
                                   ELSE Idle]
    /\ UNCHANGED <<now, bill, period, trial, rev, repointed, pass>>

\* finalizeTrialConversionOnActivation takes any revision of the trial, in
\* whatever status it is.
SettleConversion(r) ==
    IF rev[r] = "approved" THEN UNCHANGED <<rev, repointed, trial>>
    ELSE IF TrialOperational
         THEN /\ rev' = [rev EXCEPT ![r] = "approved"]
              /\ repointed' = repointed \cup {r}
              /\ trial' = "expired"
         ELSE /\ rev' = IF rev[r] \in {"rejected", "cancelled"} THEN rev
                        ELSE [rev EXCEPT ![r] = "stale"]
              /\ UNCHANGED <<repointed, trial>>

SettleTrial(c) ==
    LET b == call[c].bill IN
    /\ call[c].op = "settle"
    /\ \/ /\ bill[b].kind = "trial_conversion"
          /\ \/ \E r \in TrialRevisions : SettleConversion(r)
             \/ TrialRevisions = {} /\ UNCHANGED <<rev, repointed, trial>>
       \/ /\ bill[b].kind = "after_trial"
          /\ trial' = IF trial = "active" /\ TrialEnd <= now THEN "expired" ELSE trial
          /\ UNCHANGED <<rev, repointed>>
    /\ call' = [call EXCEPT ![c] = Idle]
    /\ UNCHANGED <<now, bill, period, ent, projected, pass>>

-----------------------------------------------------------------------------
(* The entitlement row: suspension and the older expiry job. *)

SetEntitlement(e) ==
    /\ ent' = e
    /\ UNCHANGED <<now, bill, period, trial, rev, repointed, projected, call, pass>>

SuspendEntitlement ==
    /\ ent.state \in {"paid_active", "payment_grace"}
    /\ SetEntitlement([ent EXCEPT !.state = "suspended"])

EntitlementExpiryLate ==
    \/ /\ ent.state = "paid_active"
       /\ period[ent.of].end < now
       /\ SetEntitlement([ent EXCEPT !.state = "payment_grace",
                                     !.grace = now + GraceLength])
    \/ /\ ent.state = "payment_grace"
       /\ ent.grace < now
       /\ SetEntitlement([ent EXCEPT !.state = "expired"])
EntitlementExpiry ==
    \/ /\ ent.state = "paid_active"
       /\ period[ent.of].end <= now
       /\ SetEntitlement([ent EXCEPT !.state = "payment_grace",
                                     !.grace = now + GraceLength])
    \/ /\ ent.state = "payment_grace"
       /\ ent.grace <= now
       /\ SetEntitlement([ent EXCEPT !.state = "expired"])

-----------------------------------------------------------------------------
(* The period scheduler. *)

\* What is due at tick t. The mutants are early or late by one tick, or forget
\* the approval.
TrialDueEarly(t) == trial = "active" /\ TrialEnd <= t + 1
TrialDueLate(t) == trial = "active" /\ TrialEnd < t
TrialDue(t) == trial = "active" /\ TrialEnd <= t

MayStartUnapproved(b, t) == period[b].status = "upcoming" /\ InWindow(b, t)
MayStartLate(b, t) ==
    /\ period[b].status = "upcoming"
    /\ period[b].approved
    /\ period[b].start < t /\ t < period[b].end
MayStart(b, t) ==
    period[b].status = "upcoming" /\ period[b].approved /\ InWindow(b, t)

PeriodDueEarly(b, t) == b \in Active /\ period[b].end <= t + 1
PeriodDueLate(b, t) == b \in Active /\ period[b].end < t
PeriodDue(b, t) == b \in Active /\ period[b].end <= t

\* A pass with nothing due changes nothing and is left out.
PassStart(s) ==
    LET work == [on |-> TRUE, at |-> now, trial |-> TrialDue(now),
                 up |-> {b \in Bills : MayStart(b, now)},
                 tenant |-> \E b \in Bills : PeriodDue(b, now)] IN
    /\ ~pass[s].on
    /\ work.trial \/ work.up # {} \/ work.tenant
    /\ pass' = [pass EXCEPT ![s] = work]
    /\ UNCHANGED <<now, bill, period, trial, rev, repointed, ent, projected, call>>

\* The pass goes on with what is left of it, or ends.
Continue(s, left) ==
    pass' = [pass EXCEPT ![s] =
                IF left.trial \/ left.up # {} \/ left.tenant THEN left ELSE NoPass]

PassTrial(s) ==
    /\ pass[s].trial
    /\ trial' = IF TrialDue(pass[s].at) THEN "expired" ELSE trial
    /\ Continue(s, [pass[s] EXCEPT !.trial = FALSE])
    /\ UNCHANGED <<now, bill, period, rev, repointed, ent, projected, call>>

\* The entitlement is overwritten whatever state it is in.
Reproject(b) == ent' = IF ent.state = "none" THEN ent ELSE PaidActive(b)

PassUpcoming(s, b) ==
    /\ ~pass[s].trial
    /\ b \in pass[s].up
    /\ IF MayStart(b, pass[s].at) /\ SlotFree
       THEN /\ period' = [period EXCEPT ![b].status = "active"]
            /\ Reproject(b)
       ELSE UNCHANGED <<period, ent>>
    /\ Continue(s, [pass[s] EXCEPT !.up = @ \ {b}])
    /\ UNCHANGED <<now, bill, trial, rev, repointed, projected, call>>

\* The earliest approved period of the month that the pass is in.
Successors(t) ==
    {b \in Bills : MayStart(b, t) /\ period[b].start = MonthStart(MonthOf(t))}
Earliest(S) == {b \in S : \A o \in S : period[b].seq <= period[o].seq}

Expire(b, t) ==
    IF Successors(t) = {}
    THEN /\ period' = [period EXCEPT ![b].status = "expired"]
         /\ ent' = IF ent.state = "none" THEN ent
                   ELSE [state |-> "payment_grace", of |-> b, grace |-> t + GraceLength]
    ELSE \E n \in Earliest(Successors(t)) :
         /\ period' = [period EXCEPT ![b].status = "expired", ![n].status = "active"]
         /\ Reproject(n)

PassTenant(s) ==
    /\ pass[s].tenant /\ ~pass[s].trial /\ pass[s].up = {}
    /\ \/ \E b \in Bills : PeriodDue(b, pass[s].at) /\ Expire(b, pass[s].at)
       \/ /\ ~\E b \in Bills : PeriodDue(b, pass[s].at)
          /\ UNCHANGED <<period, ent>>
    /\ Continue(s, [pass[s] EXCEPT !.tenant = FALSE])
    /\ UNCHANGED <<now, bill, trial, rev, repointed, projected, call>>

SchedulerCrash(s) ==
    /\ pass[s].on
    /\ pass' = [pass EXCEPT ![s] = NoPass]
    /\ UNCHANGED <<now, bill, period, trial, rev, repointed, ent, projected, call>>

-----------------------------------------------------------------------------

Tick ==
    /\ now < Horizon
    /\ now' = now + 1
    /\ UNCHANGED <<bill, period, trial, rev, repointed, ent, projected, call, pass>>

\* A tenant as onboarding leaves it: with the trial running, or without one.
Init ==
    /\ now = 0
    /\ bill = [b \in Bills |-> NoRow]
    /\ period = [b \in Bills |-> NoPeriod]
    /\ trial = IF TrialEnd > 0 THEN "active" ELSE "none"
    /\ rev = [b \in Bills |-> "none"]
    /\ repointed = {}
    /\ ent = NoEntitlement
    /\ projected = {}
    /\ call = [c \in Calls |-> Idle]
    /\ pass = [s \in Schedulers |-> NoPass]

TenantStep(b) ==
    \/ RequestCurrentMonth(b)
    \/ RequestConversion(b)
    \/ RequestAfterTrial(b)
    \/ RequestNextMonth(b)
    \/ TenantCancelsRevision(b)

AdminStep(b) ==
    \/ AdminRejectsRevision(b)
    \/ AdminApprovesRevision(b)

CallStep(c) ==
    \/ AdminCreates(c)
    \/ SaveBill(c)
    \/ CallEnds(c)
    \/ ProjectEntitlement(c)
    \/ SettleTrial(c)
    \/ \E b \in Bills :
          \/ AdminUpdates(c, b)
          \/ AdminReviewsProof(c, b)
          \/ AdminReverses(c, b)
          \/ TenantSubmitsProof(c, b)
          \/ InsertBill(c, b)
          \/ ApprovePeriod(c, b)

PassWork(s) ==
    \/ PassTrial(s)
    \/ \E b \in Bills : PassUpcoming(s, b)
    \/ PassTenant(s)

SchedulerStep(s) ==
    \/ PassStart(s)
    \/ PassWork(s)
    \/ SchedulerCrash(s)

Next ==
    \/ \E b \in Bills : TenantStep(b) \/ AdminStep(b)
    \/ \E c \in Calls : CallStep(c)
    \/ SuspendEntitlement
    \/ EntitlementExpiry
    \/ \E s \in Schedulers : SchedulerStep(s)
    \/ Tick

Spec == Init /\ [][Next]_vars

\* The scheduler runs on an interval, so a pass starts and, crashes apart,
\* works through its candidates: strong fairness, because a crash may cut any
\* one pass short but not every one at the same place. Nobody promises that
\* requests are made, that admins act or that the clock moves.
SchedulerFairness(s) ==
    /\ WF_vars(PassStart(s))
    /\ SF_vars(PassTrial(s))
    /\ \A b \in Bills : SF_vars(PassUpcoming(s, b))
    /\ SF_vars(PassTenant(s))

FairSpec ==
    /\ Spec
    /\ \A s \in Schedulers : SchedulerFairness(s)
    /\ WF_vars(EntitlementExpiry)

-----------------------------------------------------------------------------
(* Type invariant. *)

TypeOK ==
    /\ now \in Nat
    /\ bill \in [Bills -> Row]
    /\ period \in [Bills -> PeriodRow]
    /\ trial \in {"none", "active", "expired"}
    /\ rev \in [Bills -> RevisionStatus]
    /\ repointed \subseteq Bills
    /\ ent \in EntitlementRow
    /\ projected \subseteq Bills
    /\ call \in [Calls -> CallState]
    /\ pass \in [Schedulers -> PassState]

-----------------------------------------------------------------------------
(* Safety. *)

\* At most one paid period is active, whichever of payment, approval and the
\* two scheduler paths made it so.
OneActivePaid == \A b, o \in Active : b = o

\* An entitlement that says paid_active names a period an admin (or an
\* auto-approving plan) approved and that has been active, even when the
\* projection lost a race with the period's expiry.
ProjectionBacked ==
    ent.state = "paid_active" =>
        /\ ent.of \in Bills
        /\ period[ent.of].approved
        /\ period[ent.of].status \in {"active", "expired"}

\* Payment grace runs from the end of the period it follows: two jobs may
\* each grant it, and neither may cut it short of GraceLength after the window
\* nor grant more than GraceLength from today.
GraceFollowsTheWindow ==
    ent.state = "payment_grace" =>
        /\ ent.of \in Bills
        /\ period[ent.of].end + GraceLength <= ent.grace
        /\ ent.grace <= now + GraceLength

\* The trial stays authoritative until its end, or until a conversion revision
\* is approved and moved to an approved paid period: no call cut short and no
\* other purchase closes it.
TrialClosedForAReason ==
    trial = "expired" =>
        \/ TrialEnd <= now
        \/ /\ \E r \in repointed : rev[r] = "approved"
           /\ \E b \in projected : /\ bill[b].kind = "trial_conversion"
                                   /\ period[b].approved

\* A period of a later month is not active ahead of its boundary.
FutureStaysUpcoming == \A b \in Active : period[b].start <= now
-----------------------------------------------------------------------------
(* Liveness, under FairSpec. *)

\* An active period whose window is over expires, through crashes of the
\* scheduler and passes that began before the end.
DuePeriodsExpire ==
    \A b \in Bills :
        b \in Active /\ period[b].end <= now ~> period[b].status = "expired"

\* An approved period starts inside its window without waiting for the clock,
\* unless the window ends first or another period holds the slot.
ApprovedPeriodsStart ==
    \A b \in Bills :
        /\ period[b].status = "upcoming" /\ period[b].approved
        /\ InWindow(b, now)
        ~> \/ period[b].status # "upcoming"
           \/ period[b].end <= now
           \/ \E o \in Active : now < period[o].end

\* The trial expires once its end is reached.
TrialExpires == trial = "active" /\ TrialEnd <= now ~> trial = "expired"

\* A projection past its window, and a grace past its end, do not last.
EntitlementLapses ==
    /\ ent.state = "paid_active" /\ period[ent.of].end <= now
       ~> ent.state # "paid_active" \/ now < period[ent.of].end
    /\ ent.state = "payment_grace" /\ ent.grace <= now
       ~> ent.state # "payment_grace" \/ now < ent.grace

-----------------------------------------------------------------------------
(* The ledger as the lifecycle it implements. *)

Lifecycle == INSTANCE SubscriptionLifecycle WITH
    Periods <- Bills,
    status <- [b \in Bills |-> period[b].status],
    approved <- [b \in Bills |-> period[b].approved],
    window <- [b \in Bills |-> [start |-> period[b].start, end |-> period[b].end]]

\* Every step of the ledger is a step of the lifecycle or leaves it alone.
ImplementsLifecycle == Lifecycle!Spec
=============================================================================
