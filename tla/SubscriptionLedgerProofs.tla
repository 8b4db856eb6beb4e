---------------------- MODULE SubscriptionLedgerProofs ----------------------
(***************************************************************************)
(* Theorems of the subscription ledger, for every set of bills, calls and  *)
(* schedulers, every calendar and every kind of invoice offered.           *)
(*                                                                         *)
(* The safety properties are proved from one inductive invariant, IInv.    *)
(* Besides the type it says what a call in flight may rely on although it  *)
(* holds no lock: that its bill exists and keeps its kind, that a period   *)
(* once started stays approved and started, and that a scheduler pass      *)
(* reads a clock that is never ahead.                                      *)
(***************************************************************************)
EXTENDS SubscriptionLedger, FiniteSetTheorems, TLAPS

-----------------------------------------------------------------------------
(* The inductive invariant. *)

Started(b) == period[b].approved /\ period[b].status \in {"active", "expired"}

\* A call that will write a bill holds a row of that bill's kind, and of its
\* month when no admin may move windows.
CallsHoldTheirBill ==
    \A c \in Calls :
        /\ call[c].op \in {"save", "reverse"} =>
              /\ call[c].bill \in Bills
              /\ bill[call[c].bill].kind # "none"
              /\ call[c].row.kind = bill[call[c].bill].kind
              /\ "window" \notin Edits =>
                    call[c].row.month = bill[call[c].bill].month
        /\ call[c].op = "insert" => call[c].row.kind = "manual"

\* A call between the transactions of an activation works on a started period.
CallsActivateStarted ==
    \A c \in Calls :
        /\ call[c].op \in {"project", "settle"} =>
              call[c].bill \in Bills /\ Started(call[c].bill)
        /\ call[c].op = "settle" => call[c].bill \in projected

ProjectedStarted == \A b \in projected : Started(b)

EntitlementNamesAPeriod ==
    ent.state # "none" =>
        ent.of \in Bills /\ period[ent.of].status \in {"active", "expired"}

PassesInThePast == \A s \in Schedulers : pass[s].at <= now

RevisionsConvert ==
    \A b \in Bills : rev[b] # "none" => bill[b].kind = "trial_conversion"

\* A period has the window of its bill.
PeriodsFollowBills ==
    \A b \in Bills :
        period[b].status # "absent" =>
            /\ bill[b].kind # "none"
            /\ period[b].start = WindowStart(bill[b])
            /\ period[b].end = WindowEnd(bill[b])

SafetyInv ==
    /\ CallsHoldTheirBill
    /\ CallsActivateStarted
    /\ ProjectedStarted
    /\ EntitlementNamesAPeriod
    /\ PassesInThePast
    /\ RevisionsConvert
    /\ OneActivePaid
    /\ ProjectionBacked
    /\ GraceFollowsTheWindow
    /\ TrialClosedForAReason

WindowInv ==
    /\ PeriodsFollowBills
    /\ FutureStaysUpcoming

IInv ==
    /\ TypeOK
    /\ SafetyInv
    /\ "window" \notin Edits => WindowInv

-----------------------------------------------------------------------------
(* The calendar and the rows. *)

\* The month arithmetic stays within the naturals and a month starts no later
\* than any of its ticks.
LEMMA Calendar ==
    ASSUME NEW t \in Nat
    PROVE  /\ MonthOf(t) \in Nat
           /\ MonthStart(MonthOf(t)) <= t
<1>1. MonthLength \in Nat /\ MonthLength > 0
  BY LedgerAssumption
<1>2. QED
  BY <1>1 DEF MonthOf, MonthStart

LEMMA Windows ==
    ASSUME NEW row \in Row
    PROVE  WindowStart(row) \in Nat /\ WindowEnd(row) \in Nat
<1>1. MonthLength \in Nat /\ TrialEnd \in Nat
  BY LedgerAssumption
<1>2. row.month \in Nat
  BY DEF Row
<1>3. \A m \in Nat : m * MonthLength \in Nat
  BY <1>1
<1>4. QED
  BY <1>1, <1>2, <1>3 DEF WindowStart, WindowEnd, MonthStart

LEMMA SequenceIsNat == NextSequence \in Nat
<1>1. {b \in Bills : period[b].status # "absent"} \in SUBSET Bills
  OBVIOUS
<1>2. Cardinality({b \in Bills : period[b].status # "absent"}) \in Nat
  BY <1>1, FS_Subset, FS_CardinalityType, LedgerAssumption
<1>3. QED
  BY <1>2 DEF NextSequence

-----------------------------------------------------------------------------
(* Types. *)

\* A row stays a row when its columns are given values of their types.
LEMMA PeriodUpdates ==
    ASSUME NEW f \in [Bills -> PeriodRow], NEW b \in Bills, NEW n \in Bills,
           NEW s \in PeriodStatus
    PROVE  /\ [f EXCEPT ![b].status = s] \in [Bills -> PeriodRow]
           /\ [f EXCEPT ![b].approved = TRUE, ![b].status = s] \in [Bills -> PeriodRow]
           /\ [f EXCEPT ![b].status = "expired", ![n].status = "active"]
                 \in [Bills -> PeriodRow]
<1> DEFINE g == [f EXCEPT ![b].status = "expired"]
<1>1. g \in [Bills -> PeriodRow]
  BY DEF PeriodRow, PeriodStatus
<1>2. [g EXCEPT ![n].status = "active"] \in [Bills -> PeriodRow]
  BY <1>1 DEF PeriodRow, PeriodStatus
<1>3. [f EXCEPT ![b].approved = TRUE, ![b].status = s] \in [Bills -> PeriodRow]
  BY DEF PeriodRow, PeriodStatus
<1>4. [f EXCEPT ![b].status = s] \in [Bills -> PeriodRow]
  BY DEF PeriodRow
<1>5. QED
  BY <1>2, <1>3, <1>4

LEMMA EntitlementUpdates ==
    ASSUME NEW n \in Nat
    PROVE  /\ \A e \in EntitlementRow :
                 /\ [e EXCEPT !.state = "payment_grace", !.grace = n] \in EntitlementRow
                 /\ [e EXCEPT !.state = "expired"] \in EntitlementRow
                 /\ [e EXCEPT !.state = "suspended"] \in EntitlementRow
           /\ \A b \in Bills :
                 /\ [state |-> "payment_grace", of |-> b, grace |-> n] \in EntitlementRow
                 /\ PaidActive(b) \in EntitlementRow
  BY DEF EntitlementRow, EntitlementState, PaidActive

LEMMA InitTypes == Init => TypeOK
<1>1. TrialEnd \in Nat
  BY LedgerAssumption
<1>2. NoRow \in Row /\ NoPeriod \in PeriodRow /\ NoPass \in PassState
  BY DEF NoRow, Row, Kinds, PaymentStatus, NoPeriod, PeriodRow, PeriodStatus,
         NoPass, PassState
<1>3. Idle \in CallState /\ NoEntitlement \in EntitlementRow
  BY <1>2 DEF Idle, CallState, NoEntitlement, EntitlementRow, EntitlementState
<1>4. QED
  BY <1>1, <1>2, <1>3 DEF Init, TypeOK, RevisionStatus

\* A bill is issued as a row, and the rows calls hold are rows.
LEMMA IssueTypes ==
    ASSUME TypeOK, NEW b \in Bills, NEW kind, NEW month \in Nat,
           Issue(b, kind, month)
    PROVE  bill' \in [Bills -> Row]
<1>1. kind \in Kinds
  BY LedgerAssumption DEF Issue, Kinds
<1>2. [kind |-> kind, month |-> month, pay |-> "unpaid", void |-> FALSE] \in Row
  BY <1>1 DEF Row, PaymentStatus
<1>3. QED
  BY <1>2 DEF TypeOK, Issue

LEMMA BeginTypes ==
    ASSUME TypeOK, NEW c \in Calls,
           NEW op \in {"insert", "save", "reverse", "project", "settle"},
           NEW b \in Bills \cup {NoBill}, NEW row \in Row, Begin(c, op, b, row)
    PROVE  TypeOK'
<1>1. [op |-> op, bill |-> b, row |-> row] \in CallState
  BY DEF CallState
<1>2. call' \in [Calls -> CallState]
  BY <1>1 DEF Begin, TypeOK
<1>3. QED
  BY <1>2 DEF Begin, TypeOK

LEMMA PeriodTypes ==
    ASSUME TypeOK, NEW b \in Bills, NEW row \in Row, EnsurePaidPeriod(b, row)
    PROVE  period' \in [Bills -> PeriodRow]
<1>1. TargetStatus(row) \in {"upcoming", "active", "expired"}
  BY DEF TargetStatus
<1>2. NewPeriod(row) \in PeriodRow
  BY <1>1, Windows, SequenceIsNat, LedgerAssumption
     DEF NewPeriod, PeriodRow, PeriodStatus
<1>3. period \in [Bills -> PeriodRow]
  BY DEF TypeOK
<1>4. CASE period' = [period EXCEPT ![b] = NewPeriod(row)]
  BY <1>2, <1>3, <1>4
<1>5. CASE period' = [period EXCEPT ![b].status = TargetStatus(row)]
  BY <1>1, <1>3, <1>5, PeriodUpdates DEF PeriodStatus
<1>6. CASE UNCHANGED period
  BY <1>3, <1>6
<1>7. QED
  BY <1>4, <1>5, <1>6 DEF EnsurePaidPeriod

LEMMA WriteTypes ==
    ASSUME TypeOK, NEW b \in Bills, NEW row \in Row, WriteBill(b, row),
           call' \in [Calls -> CallState]
    PROVE  TypeOK'
<1>1. bill' \in [Bills -> Row]
  BY DEF WriteBill, TypeOK
<1>2. period' \in [Bills -> PeriodRow] /\ rev' \in [Bills -> RevisionStatus]
  <2>1. CASE row.pay = "paid"
    <3>1. ConfirmPayment(b, row)
      BY <2>1 DEF WriteBill
    <3>2. period' \in [Bills -> PeriodRow]
      BY <3>1, PeriodTypes DEF ConfirmPayment
    <3>3. rev' \in [Bills -> RevisionStatus]
      BY <3>1 DEF ConfirmPayment, TypeOK, RevisionStatus
    <3>4. QED
      BY <3>2, <3>3
  <2>2. CASE row.pay # "paid"
    BY <2>2 DEF WriteBill, TypeOK
  <2>3. QED
    BY <2>1, <2>2
<1>3. QED
  BY <1>1, <1>2 DEF WriteBill, TypeOK

\* Every step keeps the types. The rows that saved and settled calls hold are
\* what CallsHoldTheirBill and CallsActivateStarted say they are.
LEMMA StepTypes ==
    ASSUME TypeOK, CallsHoldTheirBill, CallsActivateStarted, Next
    PROVE  TypeOK'
<1>0. /\ Idle \in CallState /\ NoPass \in PassState /\ NoRow \in Row
      /\ now \in Nat /\ ThisMonth \in Nat
      /\ TrialEnd \in Nat /\ GraceLength \in Nat /\ MaxAhead \in Nat
      /\ ent \in EntitlementRow /\ period \in [Bills -> PeriodRow]
  BY LedgerAssumption, Calendar
     DEF Idle, NoPass, NoRow, Row, Kinds, PaymentStatus, TypeOK, ThisMonth,
         CallState, PassState
<1>1. ASSUME NEW b \in Bills, TenantStep(b) PROVE TypeOK'
  <2>1. CASE RequestCurrentMonth(b)
    <3>1. bill' \in [Bills -> Row]
      BY <2>1, <1>0, IssueTypes DEF RequestCurrentMonth
    <3>2. QED
      BY <2>1, <3>1 DEF RequestCurrentMonth, TypeOK
  <2>2. CASE RequestConversion(b)
    <3>1. bill' \in [Bills -> Row]
      BY <2>2, <1>0, IssueTypes DEF RequestConversion
    <3>2. rev' \in [Bills -> RevisionStatus]
      BY <2>2 DEF RequestConversion, TypeOK, RevisionStatus
    <3>3. QED
      BY <2>2, <3>1, <3>2 DEF RequestConversion, TypeOK
  <2>3. CASE RequestAfterTrial(b)
    <3>1. bill' \in [Bills -> Row]
      BY <2>3, <1>0, Calendar, IssueTypes DEF RequestAfterTrial
    <3>2. QED
      BY <2>3, <3>1 DEF RequestAfterTrial, TypeOK
  <2>4. CASE RequestNextMonth(b)
    <3>1. PICK m \in (ThisMonth + 1) .. (ThisMonth + MaxAhead - 1) : Issue(b, "period", m)
      BY <2>4 DEF RequestNextMonth
    <3>2. m \in Nat
      BY <1>0
    <3>3. bill' \in [Bills -> Row]
      BY <3>1, <3>2, IssueTypes
    <3>4. QED
      BY <2>4, <3>3 DEF RequestNextMonth, TypeOK
  <2>5. CASE TenantCancelsRevision(b)
    BY <2>5 DEF TenantCancelsRevision, SetRevision, TypeOK, RevisionStatus
  <2>6. QED
    BY <1>1, <2>1, <2>2, <2>3, <2>4, <2>5 DEF TenantStep
<1>2. ASSUME NEW b \in Bills, AdminStep(b) PROVE TypeOK'
  BY <1>2 DEF AdminStep, AdminRejectsRevision, AdminApprovesRevision, SetRevision,
              TypeOK, RevisionStatus
<1>3. ASSUME NEW c \in Calls, CallStep(c) PROVE TypeOK'
  <2>0. /\ call' = [call EXCEPT ![c] = Idle] => call' \in [Calls -> CallState]
        /\ call[c].row \in Row /\ call[c].bill \in Bills \cup {NoBill}
        /\ Months \subseteq Nat
        /\ \A b \in Bills : bill[b] \in Row
    BY <1>0, LedgerAssumption, Calendar DEF TypeOK, CallState, Months
  <2>1. CASE AdminCreates(c)
    <3>1. PICK m \in Months, pay \in AdminPayment :
             Begin(c, "insert", NoBill, [kind |-> "manual", month |-> m,
                                         pay |-> pay, void |-> FALSE])
      BY <2>1 DEF AdminCreates
    <3>2. [kind |-> "manual", month |-> m, pay |-> pay, void |-> FALSE] \in Row
      BY <2>0 DEF Row, Kinds, AdminPayment
    <3>3. QED
      BY <3>1, <3>2, BeginTypes
  <2>2. CASE SaveBill(c)
    BY <2>2, <2>0, WriteTypes DEF SaveBill, CallsHoldTheirBill
  <2>3. CASE CallEnds(c)
    BY <2>3, <2>0 DEF CallEnds, TypeOK
  <2>4. CASE ProjectEntitlement(c)
    <3>1. call[c].bill \in Bills
      BY <2>4 DEF ProjectEntitlement, CallsActivateStarted
    <3>2. call' \in [Calls -> CallState]
      BY <2>4, <2>0, <1>0 DEF ProjectEntitlement, CallState, TypeOK
    <3>3. ent' \in EntitlementRow
      BY <2>4, <1>0, <3>1, EntitlementUpdates DEF ProjectEntitlement
    <3>4. QED
      BY <2>4, <3>1, <3>2, <3>3 DEF ProjectEntitlement, TypeOK
  <2>5. CASE SettleTrial(c)
    <3>1. call' \in [Calls -> CallState]
      BY <2>5, <2>0 DEF SettleTrial
    <3>2. /\ rev' \in [Bills -> RevisionStatus]
          /\ repointed' \subseteq Bills
          /\ trial' \in {"none", "active", "expired"}
      <4>1. ASSUME NEW r \in TrialRevisions, SettleConversion(r) PROVE <3>2!:
        BY <4>1 DEF SettleConversion, TrialRevisions, TypeOK, RevisionStatus
      <4>2. CASE UNCHANGED <<rev, repointed, trial>>
        BY <4>2 DEF TypeOK
      <4>3. CASE bill[call[c].bill].kind = "after_trial"
        BY <4>3, <2>5 DEF SettleTrial, TypeOK
      <4>4. QED
        BY <2>5, <4>1, <4>2, <4>3 DEF SettleTrial
    <3>3. QED
      BY <2>5, <3>1, <3>2 DEF SettleTrial, TypeOK
  <2>6. ASSUME NEW b \in Bills, AdminUpdates(c, b) PROVE TypeOK'
    <3>1. PICK m \in Months \cup {bill[b].month}, pay \in PaymentStatus,
               void \in BOOLEAN :
             Begin(c, "save", b,
                   [bill[b] EXCEPT !.month = m, !.pay = pay, !.void = void])
      BY <2>6 DEF AdminUpdates
    <3>2. [bill[b] EXCEPT !.month = m, !.pay = pay, !.void = void] \in Row
      BY <2>0 DEF Row
    <3>3. QED
      BY <3>1, <3>2, BeginTypes
  <2>7. ASSUME NEW b \in Bills,
               AdminReviewsProof(c, b) \/ AdminReverses(c, b) \/ TenantSubmitsProof(c, b)
        PROVE  TypeOK'
    <3>1. /\ [bill[b] EXCEPT !.pay = "paid"] \in Row
          /\ [bill[b] EXCEPT !.pay = "unpaid"] \in Row
      BY <2>0 DEF Row, PaymentStatus
    <3>2. QED
      BY <2>7, <2>0, <3>1, BeginTypes
         DEF AdminReviewsProof, AdminReverses, TenantSubmitsProof
  <2>8. ASSUME NEW b \in Bills, InsertBill(c, b) PROVE TypeOK'
    BY <2>8, <2>0, WriteTypes DEF InsertBill
  <2>9. ASSUME NEW b \in Bills, ApprovePeriod(c, b) PROVE TypeOK'
    <3>1. period' \in [Bills -> PeriodRow]
      <4>1. period \in [Bills -> PeriodRow] /\ period[b].status \in PeriodStatus
        BY <1>0 DEF PeriodRow
      <4> DEFINE new == IF Activates(b) THEN "active" ELSE period[b].status
      <4>2. new \in PeriodStatus
        BY <4>1 DEF PeriodStatus
      <4> HIDE DEF new
      <4>3. period' \in {period, [period EXCEPT ![b].approved = TRUE, ![b].status = new]}
        BY <2>9 DEF ApprovePeriod, new
      <4>4. [period EXCEPT ![b].approved = TRUE, ![b].status = new] \in [Bills -> PeriodRow]
        BY <4>1, <4>2, PeriodUpdates
      <4>5. QED
        BY <4>1, <4>3, <4>4
    <3>2. [op |-> "project", bill |-> b, row |-> NoRow] \in CallState
      BY <1>0 DEF CallState
    <3>3. call' \in [Calls -> CallState]
      BY <2>9, <3>2 DEF ApprovePeriod, TypeOK
    <3>4. QED
      BY <2>9, <3>1, <3>3 DEF ApprovePeriod, TypeOK
  <2>10. QED
    BY <1>3, <2>1, <2>2, <2>3, <2>4, <2>5, <2>6, <2>7, <2>8, <2>9 DEF CallStep
<1>4. CASE SuspendEntitlement
  BY <1>4, <1>0, EntitlementUpdates DEF SuspendEntitlement, SetEntitlement, TypeOK
<1>5. CASE EntitlementExpiry
  <2>1. ent' \in EntitlementRow
    <3>1. now + GraceLength \in Nat
      BY <1>0
    <3>2. ent' \in {[ent EXCEPT !.state = "payment_grace", !.grace = now + GraceLength],
                   [ent EXCEPT !.state = "expired"]}
      BY <1>5 DEF EntitlementExpiry, SetEntitlement
    <3>3. QED
      BY <1>0, <3>1, <3>2, EntitlementUpdates
  <2>2. QED
    BY <1>5, <2>1 DEF EntitlementExpiry, SetEntitlement, TypeOK
<1>6. ASSUME NEW s \in Schedulers, SchedulerStep(s) PROVE TypeOK'
  <2>0. /\ pass[s] \in PassState /\ pass[s].at \in Nat
        /\ [pass[s] EXCEPT !.trial = FALSE] \in PassState
        /\ [pass[s] EXCEPT !.tenant = FALSE] \in PassState
        /\ \A b \in Bills : [pass[s] EXCEPT !.up = @ \ {b}] \in PassState
        /\ \A left \in PassState : Continue(s, left) => pass' \in [Schedulers -> PassState]
        /\ \A b \in Bills : Reproject(b) =>
              ent' \in EntitlementRow
    <3>1. pass \in [Schedulers -> PassState]
      BY DEF TypeOK
    <3>2. \A left \in PassState : Continue(s, left) => pass' \in [Schedulers -> PassState]
      BY <3>1, <1>0 DEF Continue
    <3>3. \A b \in Bills : Reproject(b) => ent' \in EntitlementRow
      BY <1>0, EntitlementUpdates DEF Reproject
    <3>4. QED
      BY <3>1, <3>2, <3>3 DEF PassState
  <2>1. CASE PassStart(s)
    <3>1. [on |-> TRUE, at |-> now, trial |-> TrialDue(now),
           up |-> {b \in Bills : MayStart(b, now)},
           tenant |-> \E b \in Bills : PeriodDue(b, now)] \in PassState
      BY <1>0 DEF TrialDue, PassState
    <3>2. QED
      BY <2>1, <3>1 DEF PassStart, TypeOK
  <2>2. CASE PassTrial(s)
    BY <2>2, <2>0 DEF PassTrial, TypeOK
  <2>3. ASSUME NEW b \in Bills, PassUpcoming(s, b) PROVE TypeOK'
    <3>1. pass' \in [Schedulers -> PassState]
      BY <2>3, <2>0 DEF PassUpcoming
    <3>2. /\ period' \in [Bills -> PeriodRow]
          /\ ent' \in EntitlementRow
      <4>1. [period EXCEPT ![b].status = "active"] \in [Bills -> PeriodRow]
        BY <1>0, PeriodUpdates DEF PeriodStatus
      <4>2. QED
        BY <2>3, <2>0, <1>0, <4>1 DEF PassUpcoming
    <3>3. QED
      BY <2>3, <3>1, <3>2 DEF PassUpcoming, TypeOK
  <2>4. CASE PassTenant(s)
    <3>1. pass' \in [Schedulers -> PassState]
      BY <2>4, <2>0 DEF PassTenant
    <3>2. /\ period' \in [Bills -> PeriodRow]
          /\ ent' \in EntitlementRow
      <4>1. ASSUME NEW b \in Bills, Expire(b, pass[s].at) PROVE <3>2!:
        <5>1. CASE Successors(pass[s].at) = {}
          <6>1. pass[s].at + GraceLength \in Nat
            BY <2>0, <1>0
          <6>2. [period EXCEPT ![b].status = "expired"] \in [Bills -> PeriodRow]
            BY <1>0, PeriodUpdates DEF PeriodStatus
          <6>3. [state |-> "payment_grace", of |-> b,
                 grace |-> pass[s].at + GraceLength] \in EntitlementRow
            BY <6>1, EntitlementUpdates
          <6>4. QED
            BY <4>1, <5>1, <6>2, <6>3, <1>0 DEF Expire
        <5>2. ASSUME NEW n \in Earliest(Successors(pass[s].at)),
                     period' = [period EXCEPT ![b].status = "expired",
                                              ![n].status = "active"],
                     Reproject(n)
              PROVE <3>2!:
          <6>1. n \in Bills
            BY DEF Earliest, Successors
          <6>2. QED
            BY <5>2, <6>1, <4>1, <2>0, <1>0, PeriodUpdates DEF PeriodStatus
        <5>3. QED
          BY <4>1, <5>1, <5>2 DEF Expire
      <4>2. CASE UNCHANGED <<period, ent>>
        BY <4>2 DEF TypeOK
      <4>3. QED
        BY <2>4, <4>1, <4>2 DEF PassTenant
    <3>3. QED
      BY <2>4, <3>1, <3>2 DEF PassTenant, TypeOK
  <2>5. CASE SchedulerCrash(s)
    BY <2>5, <1>0 DEF SchedulerCrash, TypeOK
  <2>6. QED
    BY <1>6, <2>1, <2>2, <2>3, <2>4, <2>5 DEF SchedulerStep, PassWork
<1>7. CASE Tick
  BY <1>7 DEF Tick, TypeOK
<1>8. QED
  BY <1>1, <1>2, <1>3, <1>4, <1>5, <1>6, <1>7 DEF Next

-----------------------------------------------------------------------------
(* Who writes what. Each lemma lists the actions that change a variable, so  *)
(* that the proofs below look at those alone.                                *)

LEMMA PeriodWriters ==
    ASSUME Next
    PROVE  \/ UNCHANGED period
           \/ \E c \in Calls : SaveBill(c)
           \/ \E c \in Calls, b \in Bills : InsertBill(c, b)
           \/ \E c \in Calls, b \in Bills : ApprovePeriod(c, b)
           \/ \E s \in Schedulers, b \in Bills : PassUpcoming(s, b)
           \/ \E s \in Schedulers : PassTenant(s)
<1>1. ASSUME NEW b \in Bills, TenantStep(b) \/ AdminStep(b) PROVE UNCHANGED period
  BY <1>1 DEF TenantStep, RequestCurrentMonth, RequestConversion, RequestAfterTrial,
              RequestNextMonth, TenantCancelsRevision, AdminStep,
              AdminRejectsRevision, AdminApprovesRevision, SetRevision
<1>2. ASSUME NEW c \in Calls, NEW b \in Bills,
             \/ AdminUpdates(c, b) \/ AdminReviewsProof(c, b)
             \/ AdminReverses(c, b) \/ TenantSubmitsProof(c, b)
      PROVE  UNCHANGED period
  BY <1>2 DEF AdminUpdates, AdminReviewsProof, AdminReverses, TenantSubmitsProof, Begin
<1>3. ASSUME NEW c \in Calls,
             \/ AdminCreates(c) \/ CallEnds(c) \/ ProjectEntitlement(c) \/ SettleTrial(c)
      PROVE  UNCHANGED period
  BY <1>3 DEF AdminCreates, CallEnds, ProjectEntitlement, SettleTrial, Begin
<1>4. ASSUME SuspendEntitlement \/ EntitlementExpiry \/ Tick PROVE UNCHANGED period
  BY <1>4 DEF SuspendEntitlement, EntitlementExpiry, SetEntitlement, Tick
<1>5. ASSUME NEW s \in Schedulers, PassStart(s) \/ PassTrial(s) \/ SchedulerCrash(s)
      PROVE  UNCHANGED period
  BY <1>5 DEF PassStart, PassTrial, SchedulerCrash
<1>6. QED
  BY <1>1, <1>2, <1>3, <1>4, <1>5 DEF Next, CallStep, SchedulerStep, PassWork

LEMMA EntitlementWriters ==
    ASSUME Next
    PROVE  \/ UNCHANGED ent
           \/ \E c \in Calls : ProjectEntitlement(c)
           \/ SuspendEntitlement
           \/ EntitlementExpiry
           \/ \E s \in Schedulers, b \in Bills : PassUpcoming(s, b)
           \/ \E s \in Schedulers : PassTenant(s)
<1>1. ASSUME NEW b \in Bills, TenantStep(b) \/ AdminStep(b) PROVE UNCHANGED ent
  BY <1>1 DEF TenantStep, RequestCurrentMonth, RequestConversion, RequestAfterTrial,
              RequestNextMonth, TenantCancelsRevision, AdminStep,
              AdminRejectsRevision, AdminApprovesRevision, SetRevision
<1>2. ASSUME NEW c \in Calls, NEW b \in Bills,
             \/ AdminUpdates(c, b) \/ AdminReviewsProof(c, b)
             \/ AdminReverses(c, b) \/ TenantSubmitsProof(c, b)
             \/ InsertBill(c, b) \/ ApprovePeriod(c, b)
      PROVE  UNCHANGED ent
  BY <1>2 DEF AdminUpdates, AdminReviewsProof, AdminReverses, TenantSubmitsProof,
              Begin, InsertBill, WriteBill, ApprovePeriod
<1>3. ASSUME NEW c \in Calls,
             AdminCreates(c) \/ CallEnds(c) \/ SaveBill(c) \/ SettleTrial(c)
      PROVE  UNCHANGED ent
  BY <1>3 DEF AdminCreates, CallEnds, SaveBill, WriteBill, SettleTrial, Begin
<1>4. ASSUME NEW s \in Schedulers, PassStart(s) \/ PassTrial(s) \/ SchedulerCrash(s)
      PROVE  UNCHANGED ent
  BY <1>4 DEF PassStart, PassTrial, SchedulerCrash
<1>5. ASSUME Tick PROVE UNCHANGED ent
  BY <1>5 DEF Tick
<1>6. QED
  BY <1>1, <1>2, <1>3, <1>4, <1>5 DEF Next, CallStep, SchedulerStep, PassWork

\* The clock, and the clocks the passes read.
LEMMA ClockWriters ==
    ASSUME Next, TypeOK
    PROVE  /\ now' \in {now, now + 1}
           /\ \/ UNCHANGED <<now, pass>>
              \/ Tick
              \/ \E s \in Schedulers :
                    /\ UNCHANGED now
                    /\ \E left \in PassState :
                          /\ left.at \in {now, pass[s].at, 0}
                          /\ pass' = [pass EXCEPT ![s] = left]
<1>1. ASSUME NEW b \in Bills, TenantStep(b) \/ AdminStep(b) PROVE UNCHANGED <<now, pass>>
  BY <1>1 DEF TenantStep, RequestCurrentMonth, RequestConversion, RequestAfterTrial,
              RequestNextMonth, TenantCancelsRevision, AdminStep,
              AdminRejectsRevision, AdminApprovesRevision, SetRevision
<1>2. ASSUME NEW c \in Calls, CallStep(c) PROVE UNCHANGED <<now, pass>>
  <2>1. ASSUME NEW b \in Bills,
               \/ AdminUpdates(c, b) \/ AdminReviewsProof(c, b)
               \/ AdminReverses(c, b) \/ TenantSubmitsProof(c, b)
               \/ InsertBill(c, b) \/ ApprovePeriod(c, b)
        PROVE  UNCHANGED <<now, pass>>
    BY <2>1 DEF AdminUpdates, AdminReviewsProof, AdminReverses, TenantSubmitsProof,
                Begin, InsertBill, WriteBill, ApprovePeriod
  <2>2. CASE AdminCreates(c) \/ CallEnds(c) \/ SaveBill(c)
    BY <2>2 DEF AdminCreates, CallEnds, SaveBill, WriteBill, Begin
  <2>3. CASE ProjectEntitlement(c) \/ SettleTrial(c)
    BY <2>3 DEF ProjectEntitlement, SettleTrial
  <2>4. QED
    BY <1>2, <2>1, <2>2, <2>3 DEF CallStep
<1>3. ASSUME SuspendEntitlement \/ EntitlementExpiry PROVE UNCHANGED <<now, pass>>
  BY <1>3 DEF SuspendEntitlement, EntitlementExpiry, SetEntitlement
<1> DEFINE PassMoves(s) ==
             /\ UNCHANGED now
             /\ \E left \in PassState :
                   /\ left.at \in {now, pass[s].at, 0}
                   /\ pass' = [pass EXCEPT ![s] = left]
<1>4. ASSUME NEW s \in Schedulers, SchedulerStep(s) PROVE PassMoves(s)
  <2>0. NoPass \in PassState /\ NoPass.at = 0 /\ now \in Nat /\ pass[s] \in PassState
    BY DEF TypeOK, NoPass, PassState
  <2>1. CASE PassStart(s)
    <3> DEFINE work == [on |-> TRUE, at |-> now, trial |-> TrialDue(now),
                        up |-> {b \in Bills : MayStart(b, now)},
                        tenant |-> \E b \in Bills : PeriodDue(b, now)]
    <3>1. work \in PassState /\ work.at = now
      BY <2>0 DEF PassState, TrialDue
    <3>2. UNCHANGED now /\ pass' = [pass EXCEPT ![s] = work]
      BY <2>1 DEF PassStart
    <3>3. QED
      BY <3>1, <3>2
  <2>2. ASSUME NEW left \in PassState, left.at = pass[s].at, Continue(s, left),
               UNCHANGED now
        PROVE  PassMoves(s)
    BY <2>0, <2>2 DEF Continue
  <2>3. CASE PassTrial(s)
    <3>1. /\ [pass[s] EXCEPT !.trial = FALSE] \in PassState
          /\ [pass[s] EXCEPT !.trial = FALSE].at = pass[s].at
      BY <2>0 DEF PassState
    <3>2. QED
      BY <2>2, <2>3, <3>1 DEF PassTrial
  <2>4. ASSUME NEW b \in Bills, PassUpcoming(s, b) PROVE PassMoves(s)
    <3>1. /\ [pass[s] EXCEPT !.up = @ \ {b}] \in PassState
          /\ [pass[s] EXCEPT !.up = @ \ {b}].at = pass[s].at
      BY <2>0 DEF PassState
    <3>2. QED
      BY <2>2, <2>4, <3>1 DEF PassUpcoming
  <2>5. CASE PassTenant(s)
    <3>1. /\ [pass[s] EXCEPT !.tenant = FALSE] \in PassState
          /\ [pass[s] EXCEPT !.tenant = FALSE].at = pass[s].at
      BY <2>0 DEF PassState
    <3>2. QED
      BY <2>2, <2>5, <3>1 DEF PassTenant
  <2>6. CASE SchedulerCrash(s)
    BY <2>6, <2>0 DEF SchedulerCrash
  <2>7. QED
    BY <1>4, <2>1, <2>3, <2>4, <2>5, <2>6 DEF SchedulerStep, PassWork
<1>5. CASE Tick
  BY <1>5 DEF Tick
<1>6. QED
  BY <1>1, <1>2, <1>3, <1>4, <1>5 DEF Next

-----------------------------------------------------------------------------
(* What no step takes back. *)

\* A period keeps its window and its approval and, once started, stays so.
LEMMA PeriodsMoveOn ==
    ASSUME TypeOK, Next, NEW b \in Bills, period[b].status # "absent"
    PROVE  /\ period'[b].start = period[b].start
           /\ period'[b].end = period[b].end
           /\ period'[b].status # "absent"
           /\ period[b].approved => period'[b].approved
           /\ period[b].status \in {"active", "expired"} =>
                 period'[b].status \in {"active", "expired"}
<1> DEFINE Kept == /\ period'[b].start = period[b].start
                   /\ period'[b].end = period[b].end
                   /\ period'[b].status # "absent"
                   /\ period[b].approved => period'[b].approved
                   /\ period[b].status \in {"active", "expired"} =>
                         period'[b].status \in {"active", "expired"}
<1>0. /\ period \in [Bills -> PeriodRow]
      /\ \A p \in Bills : period[p] \in PeriodRow
  BY DEF TypeOK
<1>1. ASSUME NEW p, NEW row, WriteBill(p, row) PROVE Kept
  <2>1. CASE row.pay = "paid"
    <3>1. EnsurePaidPeriod(p, row)
      BY <1>1, <2>1 DEF WriteBill, ConfirmPayment
    <3>2. TargetStatus(row) # "absent"
      BY DEF TargetStatus
    <3>3. CASE p = b
      BY <1>0, <3>1, <3>2, <3>3 DEF EnsurePaidPeriod, PeriodRow
    <3>4. CASE p # b
      BY <1>0, <3>1, <3>4 DEF EnsurePaidPeriod
    <3>5. QED
      BY <3>3, <3>4
  <2>2. CASE row.pay # "paid"
    BY <1>1, <2>2 DEF WriteBill
  <2>3. QED
    BY <2>1, <2>2
<1>2. ASSUME NEW c \in Calls, SaveBill(c) PROVE Kept
  BY <1>1, <1>2 DEF SaveBill
<1>3. ASSUME NEW c \in Calls, NEW p \in Bills, InsertBill(c, p) PROVE Kept
  BY <1>1, <1>3 DEF InsertBill
<1>4. ASSUME NEW c \in Calls, NEW p \in Bills, ApprovePeriod(c, p) PROVE Kept
  <2>1. CASE period' = period
    BY <2>1
  <2>2. CASE period' = [period EXCEPT ![p].approved = TRUE,
                                      ![p].status = IF Activates(p) THEN "active" ELSE @]
    BY <1>0, <2>2 DEF PeriodRow
  <2>3. QED
    BY <1>4, <2>1, <2>2 DEF ApprovePeriod
<1>5. ASSUME NEW s \in Schedulers, NEW p \in Bills, PassUpcoming(s, p) PROVE Kept
  <2>1. CASE period' = period
    BY <2>1
  <2>2. CASE period' = [period EXCEPT ![p].status = "active"]
    BY <1>0, <2>2 DEF PeriodRow
  <2>3. QED
    BY <1>5, <2>1, <2>2 DEF PassUpcoming
<1>6. ASSUME NEW s \in Schedulers, PassTenant(s) PROVE Kept
  <2>1. CASE period' = period
    BY <2>1
  <2>2. ASSUME NEW p \in Bills, period' = [period EXCEPT ![p].status = "expired"]
        PROVE  Kept
    BY <1>0, <2>2 DEF PeriodRow
  <2>3. ASSUME NEW p \in Bills, NEW n \in Bills,
               period' = [period EXCEPT ![p].status = "expired", ![n].status = "active"]
        PROVE  Kept
    BY <1>0, <2>3 DEF PeriodRow
  <2>4. QED
    BY <1>6, <2>1, <2>2, <2>3 DEF PassTenant, Expire, Earliest, Successors
<1>7. QED
  BY <1>2, <1>3, <1>4, <1>5, <1>6, PeriodWriters

\* A period that becomes active belongs to a step that found the slot free, or
\* to the hand-over of an expired period to its successor.
LEMMA OneActiveStep ==
    ASSUME TypeOK, Next, OneActivePaid
    PROVE  OneActivePaid'
<1>0. /\ period \in [Bills -> PeriodRow]
      /\ \A p \in Bills : period[p] \in PeriodRow
  BY DEF TypeOK
<1>1. ASSUME NEW p, SlotFree, \A b \in Bills \ {p} : period'[b] = period[b]
      PROVE  OneActivePaid'
  BY <1>1 DEF SlotFree, OneActivePaid, Active
<1>2. ASSUME \A b \in Bills : period'[b].status = "active" => period[b].status = "active"
      PROVE  OneActivePaid'
  BY <1>2 DEF OneActivePaid, Active
<1>3. ASSUME NEW p, NEW row, WriteBill(p, row) PROVE OneActivePaid'
  <2>1. CASE row.pay = "paid"
    <3>1. EnsurePaidPeriod(p, row)
      BY <1>3, <2>1 DEF WriteBill, ConfirmPayment
    <3>2. \A b \in Bills \ {p} : period'[b] = period[b]
      BY <1>0, <3>1 DEF EnsurePaidPeriod
    <3>3. CASE SlotFree
      BY <1>1, <3>2, <3>3
    <3>4. CASE ~SlotFree
      <4>1. p \in Bills => (period'[p].status = "active" => period[p].status = "active")
        <5>1. CASE period[p].status \in {"active", "expired"}
          BY <3>1, <5>1 DEF EnsurePaidPeriod
        <5>2. CASE period[p].status \in {"absent", "upcoming"}
          <6>1. TargetStatus(row) # "active"
            BY <3>1, <3>4, <5>2 DEF EnsurePaidPeriod
          <6>2. QED
            BY <1>0, <3>1, <5>2, <6>1 DEF EnsurePaidPeriod, NewPeriod, PeriodRow
        <5>3. QED
          BY <1>0, <5>1, <5>2 DEF PeriodRow, PeriodStatus
      <4>2. QED
        BY <1>2, <3>2, <4>1
    <3>5. QED
      BY <3>3, <3>4
  <2>2. CASE row.pay # "paid"
    BY <1>2, <1>3, <2>2 DEF WriteBill
  <2>3. QED
    BY <2>1, <2>2
<1>4. ASSUME NEW c \in Calls, SaveBill(c) PROVE OneActivePaid'
  BY <1>3, <1>4 DEF SaveBill
<1>5. ASSUME NEW c \in Calls, NEW p \in Bills, InsertBill(c, p) PROVE OneActivePaid'
  BY <1>3, <1>5 DEF InsertBill
<1>6. ASSUME NEW c \in Calls, NEW p \in Bills, ApprovePeriod(c, p) PROVE OneActivePaid'
  <2>1. CASE period' = period
    BY <1>2, <2>1
  <2>2. CASE /\ Activates(p) => SlotFree
             /\ period' = [period EXCEPT ![p].approved = TRUE,
                              ![p].status = IF Activates(p) THEN "active" ELSE @]
    <3>1. \A b \in Bills \ {p} : period'[b] = period[b]
      BY <1>0, <2>2
    <3>2. CASE ~Activates(p)
      <4>1. period'[p].status = period[p].status
        BY <1>0, <2>2, <3>2 DEF PeriodRow
      <4>2. QED
        BY <1>2, <3>1, <4>1
    <3>3. QED
      BY <1>1, <2>2, <3>1, <3>2
  <2>3. QED
    BY <1>6, <2>1, <2>2 DEF ApprovePeriod
<1>7. ASSUME NEW s \in Schedulers, NEW p \in Bills, PassUpcoming(s, p)
      PROVE  OneActivePaid'
  <2>1. CASE period' = period
    BY <1>2, <2>1
  <2>2. CASE SlotFree /\ period' = [period EXCEPT ![p].status = "active"]
    BY <1>0, <1>1, <2>2
  <2>3. QED
    BY <1>7, <2>1, <2>2 DEF PassUpcoming
<1>8. ASSUME NEW s \in Schedulers, PassTenant(s) PROVE OneActivePaid'
  <2>1. CASE period' = period
    BY <1>2, <2>1
  <2>2. ASSUME NEW p \in Bills, period' = [period EXCEPT ![p].status = "expired"]
        PROVE  OneActivePaid'
    <3>1. \A b \in Bills : period'[b].status = "active" => period[b].status = "active"
      BY <1>0, <2>2 DEF PeriodRow
    <3>2. QED
      BY <1>2, <3>1
  <2>3. ASSUME NEW p \in Active, NEW n \in Bills,
               period' = [period EXCEPT ![p].status = "expired", ![n].status = "active"]
        PROVE  OneActivePaid'
    <3>1. \A b \in Bills \ {n} : period'[b].status # "active"
      BY <1>0, <2>3 DEF PeriodRow, OneActivePaid, Active
    <3>2. QED
      BY <3>1 DEF OneActivePaid, Active
  <2>4. QED
    BY <1>8, <2>1, <2>2, <2>3
       DEF PassTenant, PeriodDue, Expire, Earliest, Successors
<1>9. QED
  BY <1>2, <1>4, <1>5, <1>6, <1>7, <1>8, PeriodWriters

\* A bill that exists keeps its kind and, unless admins move windows, its month.
LEMMA BillsKeep ==
    ASSUME TypeOK, Next, CallsHoldTheirBill, NEW b \in Bills, bill[b].kind # "none"
    PROVE  /\ bill'[b].kind = bill[b].kind
           /\ "window" \notin Edits => bill'[b].month = bill[b].month
<1> DEFINE Kept == /\ bill'[b].kind = bill[b].kind
                   /\ "window" \notin Edits => bill'[b].month = bill[b].month
<1>0. bill \in [Bills -> Row] /\ call \in [Calls -> CallState]
  BY DEF TypeOK
<1>1. ASSUME NEW p \in Bills, NEW kind, NEW month, Issue(p, kind, month) PROVE Kept
  BY <1>0, <1>1 DEF Issue
<1>2. ASSUME NEW p \in Bills, TenantStep(p) PROVE Kept
  BY <1>1, <1>2 DEF TenantStep, RequestCurrentMonth, RequestConversion,
                    RequestAfterTrial, RequestNextMonth, TenantCancelsRevision,
                    SetRevision
<1>3. ASSUME NEW p \in Bills, AdminStep(p) PROVE Kept
  BY <1>3 DEF AdminStep, AdminRejectsRevision, AdminApprovesRevision, SetRevision
<1>4. ASSUME NEW c \in Calls, CallStep(c) PROVE Kept
  <2>1. CASE SaveBill(c)
    <3>1. bill' = [bill EXCEPT ![call[c].bill] = call[c].row]
      BY <2>1 DEF SaveBill, WriteBill
    <3>2. QED
      BY <1>0, <2>1, <3>1 DEF SaveBill, CallsHoldTheirBill
  <2>2. ASSUME NEW p \in Bills, InsertBill(c, p) PROVE Kept
    BY <1>0, <2>2 DEF InsertBill, WriteBill
  <2>3. CASE AdminCreates(c) \/ CallEnds(c) \/ ProjectEntitlement(c) \/ SettleTrial(c)
    BY <2>3 DEF AdminCreates, CallEnds, ProjectEntitlement, SettleTrial, Begin
  <2>4. ASSUME NEW p \in Bills,
               \/ AdminUpdates(c, p) \/ AdminReviewsProof(c, p) \/ AdminReverses(c, p)
               \/ TenantSubmitsProof(c, p) \/ ApprovePeriod(c, p)
        PROVE  Kept
    BY <2>4 DEF AdminUpdates, AdminReviewsProof, AdminReverses, TenantSubmitsProof,
                Begin, ApprovePeriod
  <2>5. QED
    BY <1>4, <2>1, <2>2, <2>3, <2>4 DEF CallStep
<1>5. ASSUME SuspendEntitlement \/ EntitlementExpiry \/ Tick PROVE Kept
  BY <1>5 DEF SuspendEntitlement, EntitlementExpiry, SetEntitlement, Tick
<1>6. ASSUME NEW s \in Schedulers, SchedulerStep(s) PROVE Kept
  BY <1>6 DEF SchedulerStep, PassWork, PassStart, PassTrial, PassUpcoming, PassTenant,
              SchedulerCrash
<1>7. QED
  BY <1>2, <1>3, <1>4, <1>5, <1>6 DEF Next

\* How a call goes on: it begins on a row it read, ends, approves a period or
\* passes from one transaction of an activation to the next.
LEMMA CallSteps ==
    ASSUME TypeOK, Next
    PROVE  \/ UNCHANGED call
           \/ \E c \in Calls, b \in Bills, row \in Row, op \in {"save", "reverse"} :
                 /\ Begin(c, op, b, row)
                 /\ bill[b].kind # "none"
                 /\ row.kind = bill[b].kind
                 /\ "window" \notin Edits => row.month = bill[b].month
           \/ \E c \in Calls, row \in Row :
                 Begin(c, "insert", NoBill, row) /\ row.kind = "manual"
           \/ \E c \in Calls : call' = [call EXCEPT ![c] = Idle]
           \/ \E c \in Calls, b \in Bills : ApprovePeriod(c, b)
           \/ \E c \in Calls : ProjectEntitlement(c)
<1> DEFINE Goal ==
           \/ UNCHANGED call
           \/ \E c \in Calls, b \in Bills, row \in Row, op \in {"save", "reverse"} :
                 /\ Begin(c, op, b, row)
                 /\ bill[b].kind # "none"
                 /\ row.kind = bill[b].kind
                 /\ "window" \notin Edits => row.month = bill[b].month
           \/ \E c \in Calls, row \in Row :
                 Begin(c, "insert", NoBill, row) /\ row.kind = "manual"
           \/ \E c \in Calls : call' = [call EXCEPT ![c] = Idle]
<1>0. /\ \A b \in Bills : bill[b] \in Row
      /\ Months \subseteq Nat
  BY LedgerAssumption, Calendar DEF TypeOK, Months
<1>1. ASSUME NEW b \in Bills, TenantStep(b) \/ AdminStep(b) PROVE UNCHANGED call
  BY <1>1 DEF TenantStep, RequestCurrentMonth, RequestConversion, RequestAfterTrial,
              RequestNextMonth, TenantCancelsRevision, AdminStep,
              AdminRejectsRevision, AdminApprovesRevision, SetRevision
<1>2. ASSUME NEW c \in Calls, AdminCreates(c) PROVE Goal
  <2>1. PICK m \in Months, pay \in AdminPayment :
           Begin(c, "insert", NoBill, [kind |-> "manual", month |-> m,
                                       pay |-> pay, void |-> FALSE])
    BY <1>2 DEF AdminCreates
  <2>2. [kind |-> "manual", month |-> m, pay |-> pay, void |-> FALSE] \in Row
    BY <1>0 DEF Row, Kinds, AdminPayment
  <2>3. QED
    BY <2>1, <2>2
<1>3. ASSUME NEW c \in Calls, NEW b \in Bills, AdminUpdates(c, b) PROVE Goal
  <2>1. PICK m \in Months \cup {bill[b].month}, pay \in PaymentStatus, void \in BOOLEAN :
           /\ m # bill[b].month => "window" \in Edits
           /\ Begin(c, "save", b,
                    [bill[b] EXCEPT !.month = m, !.pay = pay, !.void = void])
    BY <1>3 DEF AdminUpdates
  <2> DEFINE row == [bill[b] EXCEPT !.month = m, !.pay = pay, !.void = void]
  <2>2. row \in Row /\ row.kind = bill[b].kind /\ row.month = m
    BY <1>0 DEF Row
  <2>3. bill[b].kind # "none"
    BY <1>3 DEF AdminUpdates
  <2>4. QED
    BY <2>1, <2>2, <2>3
<1>4. ASSUME NEW c \in Calls, NEW b \in Bills,
             AdminReviewsProof(c, b) \/ AdminReverses(c, b) \/ TenantSubmitsProof(c, b)
      PROVE  Goal
  <2>1. \A pay \in PaymentStatus :
           /\ [bill[b] EXCEPT !.pay = pay] \in Row
           /\ [bill[b] EXCEPT !.pay = pay].kind = bill[b].kind
           /\ [bill[b] EXCEPT !.pay = pay].month = bill[b].month
    BY <1>0 DEF Row
  <2>2. {"paid", "unpaid"} \subseteq PaymentStatus /\ bill[b] \in Row
    BY <1>0 DEF PaymentStatus
  <2>3. CASE AdminReviewsProof(c, b)
    BY <2>1, <2>2, <2>3 DEF AdminReviewsProof
  <2>4. CASE AdminReverses(c, b)
    BY <2>1, <2>2, <2>4 DEF AdminReverses
  <2>5. CASE TenantSubmitsProof(c, b)
    BY <2>2, <2>5 DEF TenantSubmitsProof
  <2>6. QED
    BY <1>4, <2>3, <2>4, <2>5
<1>5. ASSUME NEW c \in Calls,
             \/ SaveBill(c) \/ CallEnds(c) \/ SettleTrial(c)
             \/ \E b \in Bills : InsertBill(c, b)
      PROVE  Goal
  BY <1>5 DEF SaveBill, CallEnds, SettleTrial, InsertBill
<1>6. ASSUME SuspendEntitlement \/ EntitlementExpiry \/ Tick PROVE UNCHANGED call
  BY <1>6 DEF SuspendEntitlement, EntitlementExpiry, SetEntitlement, Tick
<1>7. ASSUME NEW s \in Schedulers, SchedulerStep(s) PROVE UNCHANGED call
  BY <1>7 DEF SchedulerStep, PassWork, PassStart, PassTrial, PassUpcoming, PassTenant,
              SchedulerCrash
<1>8. QED
  BY <1>1, <1>2, <1>3, <1>4, <1>5, <1>6, <1>7 DEF Next, CallStep

-----------------------------------------------------------------------------
(* Every step keeps the parts of the invariant. *)

LEMMA CallsHoldStep ==
    ASSUME TypeOK, Next, CallsHoldTheirBill
    PROVE  CallsHoldTheirBill'
<1>0. call \in [Calls -> CallState] /\ Idle.op = "idle"
  BY DEF TypeOK, Idle
\* A call that does not change keeps its hold: BillsKeep.
<1> DEFINE Holds(c) ==
        /\ call'[c].op \in {"save", "reverse"} =>
              /\ call'[c].bill \in Bills
              /\ bill'[call'[c].bill].kind # "none"
              /\ call'[c].row.kind = bill'[call'[c].bill].kind
              /\ "window" \notin Edits =>
                    call'[c].row.month = bill'[call'[c].bill].month
        /\ call'[c].op = "insert" => call'[c].row.kind = "manual"
<1>1. ASSUME NEW c \in Calls, call'[c] = call[c] PROVE Holds(c)
  BY <1>1, BillsKeep DEF CallsHoldTheirBill
<1>2. ASSUME NEW c \in Calls, call'[c].op \in {"idle", "project", "settle"} PROVE Holds(c)
  BY <1>2
<1>3. ASSUME NEW c \in Calls, NEW b \in Bills, NEW row \in Row, NEW op \in {"save", "reverse"},
             Begin(c, op, b, row), bill[b].kind # "none", row.kind = bill[b].kind,
             "window" \notin Edits => row.month = bill[b].month
      PROVE  \A o \in Calls : Holds(o)
  BY <1>0, <1>1, <1>3 DEF Begin
<1>4. ASSUME NEW c \in Calls, NEW row \in Row, Begin(c, "insert", NoBill, row),
             row.kind = "manual"
      PROVE  \A o \in Calls : Holds(o)
  BY <1>0, <1>1, <1>4 DEF Begin
<1>5. ASSUME NEW c \in Calls, call' = [call EXCEPT ![c] = Idle]
      PROVE  \A o \in Calls : Holds(o)
  BY <1>0, <1>1, <1>2, <1>5
<1>6. ASSUME NEW c \in Calls, NEW b \in Bills, ApprovePeriod(c, b)
      PROVE  \A o \in Calls : Holds(o)
  BY <1>0, <1>1, <1>2, <1>6 DEF ApprovePeriod
<1>7. ASSUME NEW c \in Calls, ProjectEntitlement(c) PROVE \A o \in Calls : Holds(o)
  <2>1. \A o \in Calls \ {c} : call'[o] = call[o]
    BY <1>0, <1>7 DEF ProjectEntitlement
  <2>2. call'[c].op \in {"idle", "settle"}
    BY <1>0, <1>7 DEF ProjectEntitlement, CallState
  <2>3. QED
    BY <1>1, <1>2, <2>1, <2>2
<1>8. \A c \in Calls : Holds(c)
  BY <1>1, <1>3, <1>4, <1>5, <1>6, <1>7, CallSteps
<1>9. QED
  BY <1>8 DEF CallsHoldTheirBill

LEMMA ProjectedWriters ==
    ASSUME Next
    PROVE  UNCHANGED projected \/ \E c \in Calls : ProjectEntitlement(c)
<1>1. ASSUME NEW b \in Bills, TenantStep(b) \/ AdminStep(b) PROVE UNCHANGED projected
  BY <1>1 DEF TenantStep, RequestCurrentMonth, RequestConversion, RequestAfterTrial,
              RequestNextMonth, TenantCancelsRevision, AdminStep,
              AdminRejectsRevision, AdminApprovesRevision, SetRevision
<1>2. ASSUME NEW c \in Calls, NEW b \in Bills,
             \/ AdminUpdates(c, b) \/ AdminReviewsProof(c, b)
             \/ AdminReverses(c, b) \/ TenantSubmitsProof(c, b)
             \/ InsertBill(c, b) \/ ApprovePeriod(c, b)
      PROVE  UNCHANGED projected
  BY <1>2 DEF AdminUpdates, AdminReviewsProof, AdminReverses, TenantSubmitsProof,
              Begin, InsertBill, WriteBill, ApprovePeriod
<1>3. ASSUME NEW c \in Calls,
             AdminCreates(c) \/ CallEnds(c) \/ SaveBill(c) \/ SettleTrial(c)
      PROVE  UNCHANGED projected
  BY <1>3 DEF AdminCreates, CallEnds, SaveBill, WriteBill, SettleTrial, Begin
<1>4. ASSUME NEW s \in Schedulers, SchedulerStep(s) PROVE UNCHANGED projected
  BY <1>4 DEF SchedulerStep, PassWork, PassStart, PassTrial, PassUpcoming, PassTenant,
              SchedulerCrash
<1>5. ASSUME SuspendEntitlement \/ EntitlementExpiry \/ Tick PROVE UNCHANGED projected
  BY <1>5 DEF SuspendEntitlement, EntitlementExpiry, SetEntitlement, Tick
<1>6. QED
  BY <1>1, <1>2, <1>3, <1>4, <1>5 DEF Next, CallStep

\* Activation goes on only from a period that was approved and active, and
\* PeriodsMoveOn keeps it started while the transactions follow one another.
LEMMA ActivationStep ==
    ASSUME TypeOK, Next, CallsActivateStarted, ProjectedStarted
    PROVE  CallsActivateStarted' /\ ProjectedStarted'
<1>0. /\ call \in [Calls -> CallState] /\ Idle.op = "idle"
      /\ projected \subseteq Bills
      /\ period \in [Bills -> PeriodRow]
  BY DEF TypeOK, Idle
<1>1. ASSUME NEW b \in Bills, Started(b) PROVE Started(b)'
  BY <1>1, PeriodsMoveOn DEF Started
<1>2. /\ projected \subseteq projected'
      /\ \A b \in projected' \ projected : b \in Bills /\ Started(b)
  BY ProjectedWriters DEF ProjectEntitlement, CallsActivateStarted
<1>3. ProjectedStarted'
  BY <1>0, <1>1, <1>2 DEF ProjectedStarted
<1> DEFINE StartedNow(b) == /\ period'[b].approved
                            /\ period'[b].status \in {"active", "expired"}
           GoesOn(c) ==
        /\ call'[c].op \in {"project", "settle"} =>
              call'[c].bill \in Bills /\ StartedNow(call'[c].bill)
        /\ call'[c].op = "settle" => call'[c].bill \in projected'
<1>4. ASSUME NEW c \in Calls, call'[c] = call[c] PROVE GoesOn(c)
  BY <1>1, <1>2, <1>4 DEF CallsActivateStarted, Started
<1>5. ASSUME NEW c \in Calls, call'[c].op \in {"idle", "insert", "save", "reverse"}
      PROVE  GoesOn(c)
  BY <1>5
<1>6. ASSUME NEW c \in Calls, NEW b \in Bills \cup {NoBill}, NEW row \in Row,
             NEW op \in {"insert", "save", "reverse"}, Begin(c, op, b, row)
      PROVE  \A o \in Calls : GoesOn(o)
  <2>1. \A o \in Calls \ {c} : call'[o] = call[o]
    BY <1>0, <1>6 DEF Begin
  <2>2. call'[c].op \in {"insert", "save", "reverse"}
    BY <1>0, <1>6 DEF Begin
  <2>3. QED
    BY <1>4, <1>5, <2>1, <2>2
<1>7. ASSUME NEW c \in Calls, call' = [call EXCEPT ![c] = Idle]
      PROVE  \A o \in Calls : GoesOn(o)
  BY <1>0, <1>4, <1>5, <1>7
<1>8. ASSUME NEW c \in Calls, NEW b \in Bills, ApprovePeriod(c, b)
      PROVE  \A o \in Calls : GoesOn(o)
  <2>1. CASE UNCHANGED call
    BY <1>4, <2>1
  <2>2. CASE /\ period'[b].status = "active"
             /\ call' = [call EXCEPT ![c] = [op |-> "project", bill |-> b, row |-> NoRow]]
    <3>1. period'[b].approved
      BY <1>0, <1>8 DEF ApprovePeriod, PeriodRow
    <3>2. Started(b)'
      BY <2>2, <3>1 DEF Started
    <3>3. \A o \in Calls \ {c} : call'[o] = call[o]
      BY <1>0, <2>2
    <3>4. call'[c].bill = b /\ call'[c].op = "project"
      BY <1>0, <2>2
    <3>5. GoesOn(c)
      BY <3>2, <3>4 DEF Started
    <3>6. QED
      BY <1>4, <3>3, <3>5
  <2>3. QED
    BY <1>8, <2>1, <2>2 DEF ApprovePeriod
<1>9. ASSUME NEW c \in Calls, ProjectEntitlement(c) PROVE \A o \in Calls : GoesOn(o)
  <2>1. \A o \in Calls \ {c} : call'[o] = call[o]
    BY <1>0, <1>9 DEF ProjectEntitlement
  <2>2. \/ call'[c].op = "idle"
        \/ call'[c].op = "settle" /\ call'[c].bill = call[c].bill
    BY <1>0, <1>9 DEF ProjectEntitlement, CallState
  <2>3. call[c].bill \in projected' /\ call[c].bill \in Bills /\ Started(call[c].bill)
    BY <1>9 DEF ProjectEntitlement, CallsActivateStarted
  <2>4. GoesOn(c)
    BY <1>1, <2>2, <2>3 DEF Started
  <2>5. QED
    BY <1>4, <2>1, <2>4
<1>10. \A c \in Calls : GoesOn(c)
  BY <1>4, <1>6, <1>7, <1>8, <1>9, CallSteps
<1>11. QED
  BY <1>3, <1>10 DEF CallsActivateStarted, Started

LEMMA PassesStep ==
    ASSUME TypeOK, Next, PassesInThePast
    PROVE  PassesInThePast'
<1>0. now \in Nat /\ pass \in [Schedulers -> PassState]
      /\ \A s \in Schedulers : pass[s].at \in Nat
  BY DEF TypeOK, PassState
<1>1. CASE UNCHANGED <<now, pass>>
  BY <1>1 DEF PassesInThePast
<1>2. CASE Tick
  BY <1>0, <1>2 DEF Tick, PassesInThePast
<1>3. ASSUME NEW s \in Schedulers, UNCHANGED now, NEW left \in PassState,
             left.at \in {now, pass[s].at, 0}, pass' = [pass EXCEPT ![s] = left]
      PROVE  PassesInThePast'
  BY <1>0, <1>3 DEF PassesInThePast
<1>4. QED
  BY <1>1, <1>2, <1>3, ClockWriters

\* What the entitlement says of a period stays true of it (PeriodsMoveOn), and
\* a new value is written from a period that bears it out.
LEMMA EntitlementStep ==
    ASSUME TypeOK, Next, CallsActivateStarted, PassesInThePast,
           EntitlementNamesAPeriod, ProjectionBacked, GraceFollowsTheWindow
    PROVE  /\ EntitlementNamesAPeriod'
           /\ ProjectionBacked'
           /\ GraceFollowsTheWindow'
<1> DEFINE \* The row the next state has, borne out by the periods it has.
      Named == ent'.of \in Bills /\ period'[ent'.of].status \in {"active", "expired"}
      Within == /\ period'[ent'.of].end + GraceLength <= ent'.grace
                /\ ent'.grace <= now' + GraceLength
      Backed == /\ ent'.state # "none" => Named
                /\ ent'.state = "paid_active" => period'[ent'.of].approved
                /\ ent'.state = "payment_grace" => Within
<1> SUFFICES Backed
  BY DEF EntitlementNamesAPeriod, ProjectionBacked, GraceFollowsTheWindow
<1>0. /\ now \in Nat /\ GraceLength \in Nat /\ now' \in {now, now + 1}
      /\ ent \in EntitlementRow /\ ent.grace \in Nat /\ ent.state \in EntitlementState
      /\ period \in [Bills -> PeriodRow]
      /\ \A b \in Bills : period[b] \in PeriodRow /\ period[b].end \in Nat
      /\ \A s \in Schedulers : pass[s].at \in Nat
  BY LedgerAssumption, ClockWriters DEF TypeOK, EntitlementRow, PeriodRow, PassState
<1>1. ent.state # "none" =>
          /\ ent.of \in Bills
          /\ period[ent.of].status \in {"active", "expired"}
          /\ period'[ent.of].status \in {"active", "expired"}
          /\ period'[ent.of].end = period[ent.of].end
          /\ period[ent.of].approved => period'[ent.of].approved
  BY PeriodsMoveOn DEF EntitlementNamesAPeriod
<1>2. ASSUME UNCHANGED ent PROVE Backed
  <2>1. ent'.state # "none" => Named
    BY <1>1, <1>2
  <2>2. ent'.state = "paid_active" => period'[ent'.of].approved
    BY <1>1, <1>2 DEF ProjectionBacked
  <2>3. ent'.state = "payment_grace" => Within
    BY <1>0, <1>1, <1>2 DEF GraceFollowsTheWindow
  <2>4. QED
    BY <2>1, <2>2, <2>3
<1>3. ASSUME NEW b \in Bills, ent' = PaidActive(b), period'[b].approved,
             period'[b].status \in {"active", "expired"}
      PROVE  Backed
  BY <1>3 DEF PaidActive
<1>4. ASSUME NEW c \in Calls, ProjectEntitlement(c) PROVE Backed
  <2>1. call[c].bill \in Bills /\ Started(call[c].bill) /\ period' = period
    BY <1>4 DEF ProjectEntitlement, CallsActivateStarted
  <2>2. ent' \in {ent, PaidActive(call[c].bill)}
    BY <1>4 DEF ProjectEntitlement
  <2>3. QED
    BY <1>2, <1>3, <2>1, <2>2 DEF Started
<1>5. CASE SuspendEntitlement
  <2>1. ent' = [ent EXCEPT !.state = "suspended"]
    BY <1>5 DEF SuspendEntitlement, SetEntitlement
  <2>2. ent'.state = "suspended" /\ ent'.of = ent.of /\ ent.state # "none"
    BY <1>0, <1>5, <2>1 DEF SuspendEntitlement, EntitlementRow
  <2>3. QED
    BY <1>1, <2>2
<1>6. CASE EntitlementExpiry
  <2>1. CASE /\ ent.state = "paid_active"
             /\ period[ent.of].end <= now
             /\ SetEntitlement([ent EXCEPT !.state = "payment_grace",
                                           !.grace = now + GraceLength])
    <3>1. /\ ent'.state = "payment_grace" /\ ent'.of = ent.of
          /\ ent'.grace = now + GraceLength
          /\ period' = period /\ now' = now
      BY <1>0, <2>1 DEF SetEntitlement, EntitlementRow
    <3>2. ent.of \in Bills
      BY <1>1, <2>1
    <3>3. Within
      BY <1>0, <2>1, <3>1, <3>2
    <3>4. QED
      BY <1>1, <2>1, <3>1, <3>3
  <2>2. CASE /\ ent.state = "payment_grace"
             /\ SetEntitlement([ent EXCEPT !.state = "expired"])
    <3>1. ent'.state = "expired" /\ ent'.of = ent.of
      BY <1>0, <2>2 DEF SetEntitlement, EntitlementRow
    <3>2. QED
      BY <1>1, <2>2, <3>1
  <2>3. QED
    BY <1>6, <2>1, <2>2 DEF EntitlementExpiry
<1>7. ASSUME NEW b \in Bills, Reproject(b), period'[b].approved,
             period'[b].status \in {"active", "expired"}
      PROVE  Backed
  <2>1. ent' \in {ent, PaidActive(b)}
    BY <1>7 DEF Reproject
  <2>2. QED
    BY <1>2, <1>3, <1>7, <2>1
<1>8. ASSUME NEW s \in Schedulers, NEW b \in Bills, PassUpcoming(s, b) PROVE Backed
  <2>1. CASE UNCHANGED ent
    BY <1>2, <2>1
  <2>2. CASE /\ MayStart(b, pass[s].at)
             /\ period' = [period EXCEPT ![b].status = "active"]
             /\ Reproject(b)
    <3>1. period'[b].approved /\ period'[b].status = "active"
      BY <1>0, <2>2 DEF MayStart, PeriodRow
    <3>2. QED
      BY <1>7, <2>2, <3>1
  <2>3. QED
    BY <1>8, <2>1, <2>2 DEF PassUpcoming
<1>9. ASSUME NEW s \in Schedulers, PassTenant(s) PROVE Backed
  <2>1. CASE UNCHANGED ent
    BY <1>2, <2>1
  <2>2. ASSUME NEW b \in Bills, PeriodDue(b, pass[s].at), UNCHANGED now,
               period' = [period EXCEPT ![b].status = "expired"],
               ent' = [state |-> "payment_grace", of |-> b,
                       grace |-> pass[s].at + GraceLength]
        PROVE  Backed
    <3>1. period'[b].status = "expired" /\ period'[b].end = period[b].end
      BY <1>0, <2>2 DEF PeriodRow
    <3>2. period[b].end <= pass[s].at /\ pass[s].at <= now
      BY <2>2 DEF PeriodDue, PassesInThePast
    <3>3. /\ ent'.state = "payment_grace" /\ ent'.of = b
          /\ ent'.grace = pass[s].at + GraceLength
      BY <2>2
    <3>4. Within
      BY <1>0, <2>2, <3>1, <3>2, <3>3
    <3>5. QED
      BY <3>1, <3>3, <3>4
  <2>3. ASSUME NEW b \in Bills, NEW n \in Earliest(Successors(pass[s].at)),
               period' = [period EXCEPT ![b].status = "expired", ![n].status = "active"],
               Reproject(n)
        PROVE  Backed
    <3>1. n \in Bills /\ period[n].approved
      BY <2>3 DEF Earliest, Successors, MayStart
    <3>2. period'[n].approved /\ period'[n].status = "active"
      BY <1>0, <2>3, <3>1 DEF PeriodRow
    <3>3. QED
      BY <1>7, <2>3, <3>1, <3>2
  <2>4. CASE \E b \in Bills : PeriodDue(b, pass[s].at) /\ Expire(b, pass[s].at)
    BY <1>9, <2>2, <2>3, <2>4 DEF PassTenant, Expire
  <2>5. QED
    BY <1>9, <2>1, <2>4 DEF PassTenant
<1>10. QED
  BY <1>2, <1>4, <1>5, <1>6, <1>8, <1>9, EntitlementWriters

LEMMA RevisionWriters ==
    ASSUME TypeOK, Next
    PROVE  \/ UNCHANGED <<rev, repointed, trial>>
           \/ \E b \in Bills : RequestConversion(b)
           \/ \E b, status :
                 /\ rev[b] \notin {"none", "approved"}
                 /\ rev' = [rev EXCEPT ![b] = status]
                 /\ UNCHANGED <<repointed, trial>>
           \/ \E c \in Calls : SettleTrial(c)
           \/ \E s \in Schedulers : PassTrial(s)
<1> DEFINE Moved == \E b, status :
                 /\ rev[b] \notin {"none", "approved"}
                 /\ rev' = [rev EXCEPT ![b] = status]
                 /\ UNCHANGED <<repointed, trial>>
           Same == UNCHANGED <<rev, repointed, trial>>
<1>1. ASSUME NEW b, NEW status, rev[b] \notin {"none", "approved"}, SetRevision(b, status)
      PROVE  Moved
  BY <1>1 DEF SetRevision
<1>2. ASSUME NEW b \in Bills, TenantStep(b) PROVE Same \/ Moved \/ RequestConversion(b)
  <2>1. CASE TenantCancelsRevision(b)
    BY <1>1, <2>1 DEF TenantCancelsRevision
  <2>2. CASE RequestCurrentMonth(b) \/ RequestAfterTrial(b) \/ RequestNextMonth(b)
    BY <2>2 DEF RequestCurrentMonth, RequestAfterTrial, RequestNextMonth
  <2>3. QED
    BY <1>2, <2>1, <2>2 DEF TenantStep
<1>3. ASSUME NEW b \in Bills, AdminStep(b) PROVE Moved
  <2>1. CASE AdminRejectsRevision(b)
    BY <1>1, <2>1 DEF AdminRejectsRevision
  <2>2. CASE AdminApprovesRevision(b)
    BY <1>1, <2>2 DEF AdminApprovesRevision
  <2>3. QED
    BY <1>3, <2>1, <2>2 DEF AdminStep
<1>4. ASSUME NEW b, NEW row, WriteBill(b, row) PROVE Same \/ Moved
  BY <1>4 DEF WriteBill, ConfirmPayment
<1>5. ASSUME NEW c \in Calls, CallStep(c) PROVE Same \/ Moved \/ SettleTrial(c)
  <2>1. CASE SaveBill(c)
    BY <1>4, <2>1 DEF SaveBill
  <2>2. ASSUME NEW b \in Bills, InsertBill(c, b) PROVE Same \/ Moved
    BY <1>4, <2>2 DEF InsertBill
  <2>3. CASE AdminCreates(c) \/ CallEnds(c) \/ ProjectEntitlement(c)
    BY <2>3 DEF AdminCreates, CallEnds, ProjectEntitlement, Begin
  <2>4. ASSUME NEW b \in Bills,
               \/ AdminUpdates(c, b) \/ AdminReviewsProof(c, b) \/ AdminReverses(c, b)
               \/ TenantSubmitsProof(c, b) \/ ApprovePeriod(c, b)
        PROVE  Same
    BY <2>4 DEF AdminUpdates, AdminReviewsProof, AdminReverses, TenantSubmitsProof,
                Begin, ApprovePeriod
  <2>5. QED
    BY <1>5, <2>1, <2>2, <2>3, <2>4 DEF CallStep
<1>6. ASSUME SuspendEntitlement \/ EntitlementExpiry \/ Tick PROVE Same
  BY <1>6 DEF SuspendEntitlement, EntitlementExpiry, SetEntitlement, Tick
<1>7. ASSUME NEW s \in Schedulers, SchedulerStep(s) PROVE Same \/ PassTrial(s)
  BY <1>7 DEF SchedulerStep, PassWork, PassStart, PassUpcoming, PassTenant, SchedulerCrash
<1>8. QED
  BY <1>2, <1>3, <1>5, <1>6, <1>7 DEF Next

\* The trial is closed by a pass that found it over, by an after-trial
\* activation that did, or together with the approval of a conversion.
LEMMA TrialStep ==
    ASSUME TypeOK, Next, CallsHoldTheirBill, CallsActivateStarted, ProjectedStarted,
           PassesInThePast, RevisionsConvert, TrialClosedForAReason
    PROVE  RevisionsConvert' /\ TrialClosedForAReason'
<1> DEFINE
      Revised == \E r \in repointed' : rev'[r] = "approved"
      Converted == \E b \in projected' : /\ bill'[b].kind = "trial_conversion"
                                          /\ period'[b].approved
      Closed == trial' = "expired" => TrialEnd <= now' \/ (Revised /\ Converted)
<1> SUFFICES RevisionsConvert' /\ Closed
  BY DEF TrialClosedForAReason
<1>0. /\ now \in Nat /\ now' \in {now, now + 1} /\ TrialEnd \in Nat
      /\ bill \in [Bills -> Row] /\ rev \in [Bills -> RevisionStatus]
      /\ repointed \subseteq Bills /\ projected \subseteq Bills
      /\ \A s \in Schedulers : pass[s].at \in Nat
  BY LedgerAssumption, ClockWriters DEF TypeOK, PassState
<1>1. ASSUME NEW b \in projected, bill[b].kind = "trial_conversion" PROVE Converted
  <2>1. b \in projected' /\ b \in Bills /\ period[b].status # "absent" /\ period[b].approved
    BY <1>0, <1>1, ProjectedWriters DEF ProjectedStarted, Started, ProjectEntitlement
  <2>2. bill'[b].kind = "trial_conversion"
    BY <1>1, <2>1, BillsKeep
  <2>3. period'[b].approved
    BY <2>1, PeriodsMoveOn
  <2>4. QED
    BY <2>1, <2>2, <2>3
\* What was a reason stays one as long as the revisions keep theirs.
<1>2. ASSUME UNCHANGED trial,
             \A r \in repointed : rev[r] = "approved" => r \in repointed' /\ rev'[r] = "approved"
      PROVE  Closed
  BY <1>0, <1>1, <1>2 DEF TrialClosedForAReason
<1>3. ASSUME TrialEnd <= now PROVE Closed
  BY <1>0, <1>3
\* A revision that was none belongs to the bill the step issues.
<1>4. ASSUME NEW b \in Bills, rev[b] # "none" PROVE bill'[b].kind = "trial_conversion"
  BY <1>4, BillsKeep DEF RevisionsConvert
<1>5. CASE UNCHANGED <<rev, repointed, trial>>
  BY <1>2, <1>4, <1>5 DEF RevisionsConvert
<1>6. ASSUME NEW b \in Bills, RequestConversion(b) PROVE RevisionsConvert' /\ Closed
  <2>1. rev[b] = "none"
    BY <1>6 DEF RequestConversion, Issue, RevisionsConvert
  <2>2. /\ bill'[b].kind = "trial_conversion"
        /\ rev' = [rev EXCEPT ![b] = "requested"]
        /\ UNCHANGED <<repointed, trial>>
    BY <1>0, <1>6 DEF RequestConversion, Issue
  <2>3. RevisionsConvert'
    BY <1>0, <1>4, <2>2 DEF RevisionsConvert
  <2>4. QED
    BY <1>0, <1>2, <2>1, <2>2, <2>3
<1>7. ASSUME NEW b, NEW status, rev[b] \notin {"none", "approved"},
             rev' = [rev EXCEPT ![b] = status], UNCHANGED <<repointed, trial>>
      PROVE  RevisionsConvert' /\ Closed
  <2>1. RevisionsConvert'
    BY <1>0, <1>4, <1>7 DEF RevisionsConvert
  <2>2. QED
    BY <1>0, <1>2, <1>7, <2>1
<1>8. ASSUME NEW c \in Calls, SettleTrial(c) PROVE RevisionsConvert' /\ Closed
  <2> DEFINE b == call[c].bill
  <2>1. b \in projected
    BY <1>8 DEF SettleTrial, CallsActivateStarted
  <2>2. ASSUME NEW r \in TrialRevisions, SettleConversion(r), bill[b].kind = "trial_conversion"
        PROVE  RevisionsConvert' /\ Closed
    <3>1. r \in Bills /\ rev[r] # "none" /\ r \notin repointed
      BY DEF TrialRevisions
    <3>2. \A o \in Bills \ {r} : rev'[o] = rev[o]
      BY <1>0, <2>2 DEF SettleConversion
    <3>3. RevisionsConvert'
      BY <1>4, <3>1, <3>2 DEF RevisionsConvert
    <3>4. repointed \subseteq repointed'
      BY <2>2 DEF SettleConversion
    <3>5. CASE UNCHANGED trial
      BY <1>0, <1>2, <3>1, <3>2, <3>3, <3>4, <3>5
    <3>6. CASE r \in repointed' /\ rev'[r] = "approved"
      BY <1>1, <2>1, <2>2, <3>3, <3>6
    <3>7. QED
      BY <1>0, <2>2, <3>1, <3>5, <3>6 DEF SettleConversion
  <2>3. CASE UNCHANGED <<rev, repointed, trial>>
    BY <1>5, <2>3
  <2>4. CASE /\ UNCHANGED <<rev, repointed>>
             /\ trial' = IF trial = "active" /\ TrialEnd <= now THEN "expired" ELSE trial
    <3>1. RevisionsConvert'
      BY <1>4, <2>4 DEF RevisionsConvert
    <3>2. QED
      BY <1>2, <1>3, <2>4, <3>1
  <2>5. QED
    BY <1>8, <2>2, <2>3, <2>4 DEF SettleTrial
<1>9. ASSUME NEW s \in Schedulers, PassTrial(s) PROVE RevisionsConvert' /\ Closed
  <2>1. UNCHANGED <<rev, repointed>>
    BY <1>9 DEF PassTrial
  <2>2. RevisionsConvert'
    BY <1>4, <2>1 DEF RevisionsConvert
  <2>3. CASE TrialEnd <= pass[s].at
    BY <1>0, <1>3, <2>2, <2>3 DEF PassesInThePast
  <2>4. CASE UNCHANGED trial
    BY <1>2, <2>1, <2>2, <2>4
  <2>5. QED
    BY <1>9, <2>3, <2>4 DEF PassTrial, TrialDue
<1>10. QED
  BY <1>5, <1>6, <1>7, <1>8, <1>9, RevisionWriters

\* A saved row has the window its bill has, so the status a payment gives a
\* period is right for the period's own window.
LEMMA WindowStep ==
    ASSUME "window" \notin Edits, TypeOK, Next, CallsHoldTheirBill, PassesInThePast,
           PeriodsFollowBills, FutureStaysUpcoming
    PROVE  PeriodsFollowBills' /\ FutureStaysUpcoming'
<1> DEFINE
      Follows(b) == period'[b].status # "absent" =>
                      /\ bill'[b].kind # "none"
                      /\ period'[b].start = WindowStart(bill'[b])
                      /\ period'[b].end = WindowEnd(bill'[b])
      Timely(b) == period'[b].status = "active" => period'[b].start <= now'
<1> SUFFICES ASSUME NEW b \in Bills PROVE Follows(b) /\ Timely(b)
  BY DEF PeriodsFollowBills, FutureStaysUpcoming, Active
<1>0. /\ now \in Nat /\ now' \in {now, now + 1}
      /\ bill \in [Bills -> Row] /\ period \in [Bills -> PeriodRow]
      /\ \A p \in Bills : period[p] \in PeriodRow /\ period[p].start \in Nat
      /\ \A s \in Schedulers : pass[s].at \in Nat
  BY ClockWriters DEF TypeOK, PeriodRow, PassState
<1>1. ASSUME period[b].status # "absent" PROVE Follows(b)
  <2>1. bill[b].kind # "none" /\ period[b].start = WindowStart(bill[b])
                             /\ period[b].end = WindowEnd(bill[b])
    BY <1>1 DEF PeriodsFollowBills
  <2>2. bill'[b].kind = bill[b].kind /\ bill'[b].month = bill[b].month
    BY <2>1, BillsKeep
  <2>3. WindowStart(bill'[b]) = WindowStart(bill[b]) /\ WindowEnd(bill'[b]) = WindowEnd(bill[b])
    BY <2>2 DEF WindowStart, WindowEnd
  <2>4. QED
    BY <1>1, <2>1, <2>2, <2>3, PeriodsMoveOn
<1>2. ASSUME period[b].status = "active" PROVE Timely(b)
  BY <1>0, <1>2, PeriodsMoveOn DEF FutureStaysUpcoming, Active
<1>3. ASSUME period'[b] = period[b] PROVE Follows(b) /\ Timely(b)
  BY <1>1, <1>2, <1>3
<1>4. ASSUME period[b].status # "absent", period[b].start <= now PROVE Follows(b) /\ Timely(b)
  BY <1>0, <1>1, <1>4, PeriodsMoveOn
<1>5. ASSUME NEW p \in Bills, NEW row \in Row, WriteBill(p, row), row.kind # "none",
             bill[p].kind # "none" => row.kind = bill[p].kind /\ row.month = bill[p].month
      PROVE  Follows(b) /\ Timely(b)
  <2>1. CASE row.pay # "paid" \/ p # b
    BY <1>0, <1>3, <1>5, <2>1 DEF WriteBill, ConfirmPayment, EnsurePaidPeriod
  <2>2. CASE row.pay = "paid" /\ p = b
    <3>1. EnsurePaidPeriod(b, row) /\ bill'[b] = row /\ UNCHANGED now
      BY <1>0, <1>5, <2>2 DEF WriteBill, ConfirmPayment
    <3>2. TargetStatus(row) = "active" => WindowStart(row) <= now
      BY DEF TargetStatus
    <3>3. CASE period[b].status = "absent"
      <4>1. period'[b] = NewPeriod(row)
        BY <1>0, <3>1, <3>3 DEF EnsurePaidPeriod
      <4>2. QED
        BY <1>5, <3>1, <3>2, <4>1 DEF NewPeriod
    <3>4. CASE period[b].status = "upcoming"
      <4>1. period'[b].status = TargetStatus(row) /\ period'[b].start = period[b].start
        BY <1>0, <3>1, <3>4 DEF EnsurePaidPeriod, PeriodRow
      <4>2. period[b].start = WindowStart(row)
        BY <1>5, <2>2, <3>4 DEF PeriodsFollowBills, WindowStart
      <4>3. QED
        BY <1>1, <3>1, <3>2, <3>4, <4>1, <4>2
    <3>5. CASE UNCHANGED period
      BY <1>3, <3>5
    <3>6. QED
      BY <3>1, <3>3, <3>4, <3>5 DEF EnsurePaidPeriod
  <2>3. QED
    BY <2>1, <2>2
<1>6. ASSUME NEW c \in Calls, SaveBill(c) PROVE Follows(b) /\ Timely(b)
  <2>1. call[c].row \in Row
    BY DEF TypeOK, CallState
  <2>2. QED
    BY <1>5, <1>6, <2>1 DEF SaveBill, CallsHoldTheirBill
<1>7. ASSUME NEW c \in Calls, NEW p \in Bills, InsertBill(c, p) PROVE Follows(b) /\ Timely(b)
  <2>1. call[c].row \in Row
    BY DEF TypeOK, CallState
  <2>2. QED
    BY <1>5, <1>7, <2>1 DEF InsertBill, CallsHoldTheirBill
<1>8. ASSUME NEW c \in Calls, NEW p \in Bills, ApprovePeriod(c, p)
      PROVE  Follows(b) /\ Timely(b)
  <2>1. CASE p # b \/ period' = period
    BY <1>0, <1>3, <1>8, <2>1 DEF ApprovePeriod
  <2>2. CASE /\ p = b /\ ~Activates(b)
             /\ period' = [period EXCEPT ![b].approved = TRUE,
                                         ![b].status = IF Activates(b) THEN "active" ELSE @]
    <3>1. period'[b].status = period[b].status
      BY <1>0, <2>2 DEF PeriodRow
    <3>2. period[b].status # "absent"
      BY <1>8, <2>2 DEF ApprovePeriod
    <3>3. QED
      BY <1>1, <1>2, <3>1, <3>2
  <2>3. CASE p = b /\ Activates(b)
    BY <1>4, <2>3 DEF Activates
  <2>4. QED
    BY <1>8, <2>1, <2>2, <2>3 DEF ApprovePeriod
<1>9. ASSUME NEW t \in Nat, t <= now, MayStart(b, t) PROVE Follows(b) /\ Timely(b)
  BY <1>0, <1>4, <1>9 DEF MayStart, InWindow
<1>10. ASSUME NEW s \in Schedulers, NEW p \in Bills, PassUpcoming(s, p)
       PROVE  Follows(b) /\ Timely(b)
  <2>1. CASE p # b \/ period' = period
    BY <1>0, <1>3, <1>10, <2>1 DEF PassUpcoming
  <2>2. CASE p = b /\ MayStart(b, pass[s].at)
    BY <1>0, <1>9, <2>2 DEF PassesInThePast
  <2>3. QED
    BY <1>10, <2>1, <2>2 DEF PassUpcoming
<1>11. ASSUME NEW s \in Schedulers, PassTenant(s) PROVE Follows(b) /\ Timely(b)
  <2>1. CASE period'[b] = period[b]
    BY <1>3, <2>1
  <2>2. CASE period[b].status # "absent" /\ period'[b].status = "expired"
    BY <1>1, <2>2
  <2>3. CASE b \in Successors(pass[s].at)
    BY <1>0, <1>9, <2>3 DEF Successors, PassesInThePast
  <2>4. \/ period'[b] = period[b]
        \/ b \in Active /\ period'[b].status = "expired"
        \/ b \in Successors(pass[s].at)
    <3>1. ASSUME NEW p \in Active, period' = [period EXCEPT ![p].status = "expired"]
          PROVE  <2>4!:
      BY <1>0, <3>1 DEF PeriodRow, Active
    <3>2. ASSUME NEW p \in Active, NEW n \in Successors(pass[s].at),
                 period' = [period EXCEPT ![p].status = "expired", ![n].status = "active"]
          PROVE  <2>4!:
      BY <1>0, <3>2 DEF PeriodRow, Active
    <3>3. QED
      BY <1>11, <3>1, <3>2 DEF PassTenant, PeriodDue, Expire, Earliest
  <2>5. QED
    BY <2>1, <2>2, <2>3, <2>4 DEF Active
<1>12. QED
  BY <1>3, <1>6, <1>7, <1>8, <1>10, <1>11, PeriodWriters

-----------------------------------------------------------------------------
(* The invariant is inductive. *)

LEMMA InitInv == Init => IInv
<1> SUFFICES ASSUME Init PROVE IInv
  OBVIOUS
<1>1. TypeOK
  BY InitTypes
<1>2. /\ \A c \in Calls : call[c].op = "idle"
      /\ \A s \in Schedulers : pass[s].at = 0
      /\ \A b \in Bills : period[b].status = "absent" /\ rev[b] = "none"
      /\ ent.state = "none" /\ projected = {} /\ trial # "expired" /\ now = 0
  BY DEF Init, Idle, NoPass, NoPeriod, NoEntitlement
<1>3. CallsHoldTheirBill /\ CallsActivateStarted /\ ProjectedStarted /\ RevisionsConvert
  BY <1>2 DEF CallsHoldTheirBill, CallsActivateStarted, ProjectedStarted, RevisionsConvert
<1>4. EntitlementNamesAPeriod /\ ProjectionBacked /\ GraceFollowsTheWindow
  BY <1>2 DEF EntitlementNamesAPeriod, ProjectionBacked, GraceFollowsTheWindow
<1>5. OneActivePaid /\ FutureStaysUpcoming /\ PeriodsFollowBills
  BY <1>2 DEF OneActivePaid, FutureStaysUpcoming, PeriodsFollowBills, Active
<1>6. PassesInThePast /\ TrialClosedForAReason
  BY <1>2 DEF PassesInThePast, TrialClosedForAReason
<1>7. QED
  BY <1>1, <1>3, <1>4, <1>5, <1>6 DEF IInv, SafetyInv, WindowInv

LEMMA NextInv == IInv /\ [Next]_vars => IInv'
<1> SUFFICES ASSUME IInv, [Next]_vars PROVE IInv'
  OBVIOUS
<1>1. CASE Next
  <2>1. TypeOK'
    BY <1>1, StepTypes DEF IInv, SafetyInv
  <2>2. CallsHoldTheirBill'
    BY <1>1, CallsHoldStep DEF IInv, SafetyInv
  <2>3. CallsActivateStarted' /\ ProjectedStarted'
    BY <1>1, ActivationStep DEF IInv, SafetyInv
  <2>4. EntitlementNamesAPeriod' /\ ProjectionBacked' /\ GraceFollowsTheWindow'
    BY <1>1, EntitlementStep DEF IInv, SafetyInv
  <2>5. PassesInThePast'
    BY <1>1, PassesStep DEF IInv, SafetyInv
  <2>6. RevisionsConvert' /\ TrialClosedForAReason'
    BY <1>1, TrialStep DEF IInv, SafetyInv
  <2>7. OneActivePaid'
    BY <1>1, OneActiveStep DEF IInv, SafetyInv
  <2>8. "window" \notin Edits => WindowInv'
    BY <1>1, WindowStep DEF IInv, SafetyInv, WindowInv
  <2>9. QED
    BY <2>1, <2>2, <2>3, <2>4, <2>5, <2>6, <2>7, <2>8 DEF IInv, SafetyInv
<1>2. CASE UNCHANGED vars
  BY <1>2 DEF vars, IInv, TypeOK, SafetyInv, WindowInv, CallsHoldTheirBill,
       CallsActivateStarted, ProjectedStarted, Started, EntitlementNamesAPeriod,
       PassesInThePast, RevisionsConvert, OneActivePaid, ProjectionBacked,
       GraceFollowsTheWindow, TrialClosedForAReason, PeriodsFollowBills,
       FutureStaysUpcoming, Active
<1>3. QED
  BY <1>1, <1>2

LEMMA Invariance == Spec => []IInv
  BY InitInv, NextInv, PTL DEF Spec

-----------------------------------------------------------------------------
(* The theorems. *)

\* Every reachable state has its type: no save, projection or pass writes a
\* row the tables could not hold.
THEOREM TypeCorrect == Spec => []TypeOK
<1>1. IInv => TypeOK
  BY DEF IInv
<1>2. QED
  BY <1>1, Invariance, PTL

\* At most one paid period is ever active, however payments, approvals and
\* scheduler passes interleave: each either finds the slot free or hands it over.
THEOREM OnePaidPeriodIsActive == Spec => []OneActivePaid
<1>1. IInv => OneActivePaid
  BY DEF IInv, SafetyInv
<1>2. QED
  BY <1>1, Invariance, PTL

\* A paid_active entitlement names an approved period that has started, through
\* activations cut short between their transactions.
THEOREM ProjectionIsBacked == Spec => []ProjectionBacked
<1>1. IInv => ProjectionBacked
  BY DEF IInv, SafetyInv
<1>2. QED
  BY <1>1, Invariance, PTL

\* Payment grace lasts from the window's end to at most GraceLength from now,
\* whichever of the two jobs granted it and however old the scheduler's clock.
THEOREM GraceIsTiedToTheWindow == Spec => []GraceFollowsTheWindow
<1>1. IInv => GraceFollowsTheWindow
  BY DEF IInv, SafetyInv
<1>2. QED
  BY <1>1, Invariance, PTL

\* The trial closes at its end or with an approved conversion, never before.
THEOREM TrialIsClosedForAReason == Spec => []TrialClosedForAReason
<1>1. IInv => TrialClosedForAReason
  BY DEF IInv, SafetyInv
<1>2. QED
  BY <1>1, Invariance, PTL

\* While no admin moves the window of an invoice, a period is active only from
\* its own start on. (A window moved after a reversal can make it start early.)
THEOREM FuturePeriodsStayUpcoming ==
    ASSUME "window" \notin Edits
    PROVE  Spec => []FutureStaysUpcoming
<1>1. IInv => FutureStaysUpcoming
  BY DEF IInv, WindowInv
<1>2. QED
  BY <1>1, Invariance, PTL

-----------------------------------------------------------------------------
(***************************************************************************)
(* The ledger implements the period lifecycle, for every constant, while   *)
(* no admin moves the window of an invoice. Each action that changes a     *)
(* period is mapped to the lifecycle action it carries out; the rest       *)
(* leave the lifecycle's variables alone.                                  *)
(***************************************************************************)

Status == [b \in Bills |-> period[b].status]
Approved == [b \in Bills |-> period[b].approved]
Window == [b \in Bills |-> [start |-> period[b].start, end |-> period[b].end]]

\* What a step does to the lifecycle's variables when it touches one period.
LEMMA OnePeriod ==
    ASSUME NEW p \in Bills, \A b \in Bills \ {p} : period'[b] = period[b]
    PROVE  /\ Status' = [Status EXCEPT ![p] = period'[p].status]
           /\ Approved' = [Approved EXCEPT ![p] = period'[p].approved]
           /\ Window' = [Window EXCEPT ![p] = Window'[p]]
           /\ Window'[p] = [start |-> period'[p].start, end |-> period'[p].end]
           /\ period'[p].approved = period[p].approved => UNCHANGED Approved
           /\ period'[p].start = period[p].start /\ period'[p].end = period[p].end
                 => UNCHANGED Window
           /\ period'[p].status = period[p].status => UNCHANGED Status
  BY DEF Status, Approved, Window

LEMMA SamePeriods ==
    ASSUME UNCHANGED <<now, period>>
    PROVE  UNCHANGED Lifecycle!vars
  BY DEF Lifecycle!vars

LEMMA OneActiveLifecycle ==
    ASSUME OneActivePaid'
    PROVE  Lifecycle!OneActive(Status')
  BY DEF OneActivePaid, Active, Lifecycle!OneActive, Status

\* The windows and statuses a payment gives suit the clock.
LEMMA TargetIsTimely ==
    ASSUME TypeOK, NEW row \in Row
    PROVE  /\ TargetStatus(row) \in {"upcoming", "active", "expired"}
           /\ TargetStatus(row) = "active" => WindowStart(row) <= now
           /\ TargetStatus(row) = "expired" => WindowEnd(row) <= now
<1>1. now \in Nat /\ MonthStart(ThisMonth) <= now
  BY Calendar DEF TypeOK, ThisMonth
<1>2. WindowEnd(row) \in Nat /\ MonthStart(ThisMonth) \in Nat
  BY <1>1, Windows, Calendar, LedgerAssumption DEF MonthStart, ThisMonth
<1>3. QED
  BY <1>1, <1>2 DEF TargetStatus

-----------------------------------------------------------------------------
(* The lifecycle actions, in the ledger's terms. *)

LEMMA BuyStep ==
    ASSUME TypeOK, NEW p \in Bills, NEW row \in Row, UNCHANGED now, OneActivePaid',
           period[p].status = "absent", period'[p] = NewPeriod(row),
           \A b \in Bills \ {p} : period'[b] = period[b]
    PROVE  Lifecycle!Buy(p)
<1>1. /\ period'[p].status \in {"upcoming", "active", "expired"}
      /\ period'[p].approved \in BOOLEAN
      /\ Window'[p] \in Lifecycle!Window
      /\ Window'[p].start = WindowStart(row) /\ Window'[p].end = WindowEnd(row)
      /\ period'[p].status = TargetStatus(row)
  <2>1. /\ period'[p].status = TargetStatus(row)
        /\ period'[p].approved = AutoApprove
        /\ period'[p].start = WindowStart(row) /\ period'[p].end = WindowEnd(row)
    BY DEF NewPeriod
  <2>2. Window'[p] = [start |-> WindowStart(row), end |-> WindowEnd(row)]
    BY <2>1, OnePeriod
  <2>3. WindowStart(row) \in Nat /\ WindowEnd(row) \in Nat /\ AutoApprove \in BOOLEAN
    BY Windows, LedgerAssumption
  <2>4. QED
    BY <2>1, <2>2, <2>3, TargetIsTimely DEF Lifecycle!Window
<1>2. Lifecycle!Timely(period'[p].status, Window'[p])
  BY <1>1, TargetIsTimely DEF Lifecycle!Timely
<1>3. Status[p] = "absent"
  BY DEF Status
<1>4. /\ Status' = [Status EXCEPT ![p] = period'[p].status]
      /\ Approved' = [Approved EXCEPT ![p] = period'[p].approved]
      /\ Window' = [Window EXCEPT ![p] = Window'[p]]
      /\ Lifecycle!OneActive(Status')
  BY OnePeriod, OneActiveLifecycle
<1>5. QED
  BY <1>1, <1>2, <1>3, <1>4 DEF Lifecycle!Buy, Status, Approved, Window

LEMMA MoveStep ==
    ASSUME NEW p \in Bills, NEW s, UNCHANGED now, OneActivePaid',
           period[p].status \in {"upcoming", "active"}, period'[p].status = s,
           s \in {"active", "expired"}, s # period[p].status,
           period'[p].approved = period[p].approved,
           period'[p].start = period[p].start, period'[p].end = period[p].end,
           s = "active" => period[p].start <= now,
           s = "expired" => period[p].end <= now,
           \A b \in Bills \ {p} : period'[b] = period[b]
    PROVE  Lifecycle!Move(p)
<1>1. Lifecycle!May(p, s)
  BY DEF Lifecycle!May, Lifecycle!Transitions, Lifecycle!Timely
<1>2. /\ Status' = [Status EXCEPT ![p] = s]
      /\ UNCHANGED <<Approved, Window>>
      /\ Lifecycle!OneActive(Status')
  BY OnePeriod, OneActiveLifecycle
<1>3. QED
  BY <1>1, <1>2 DEF Lifecycle!Move, Status, Approved, Window

LEMMA ApproveStep ==
    ASSUME NEW p \in Bills, UNCHANGED now, OneActivePaid',
           period[p].status \in {"upcoming", "active"}, now < period[p].end,
           period'[p].approved = TRUE,
           period'[p].start = period[p].start, period'[p].end = period[p].end,
           \/ period'[p].status = period[p].status
           \/ /\ period[p].status = "upcoming" /\ period'[p].status = "active"
              /\ period[p].start <= now,
           \A b \in Bills \ {p} : period'[b] = period[b]
    PROVE  Lifecycle!Approve(p)
<1>1. /\ Approved' = [Approved EXCEPT ![p] = TRUE]
      /\ UNCHANGED Window
      /\ Lifecycle!OneActive(Status')
  BY OnePeriod, OneActiveLifecycle
<1>2. \/ UNCHANGED Status
      \/ Lifecycle!May(p, "active") /\ Status' = [Status EXCEPT ![p] = "active"]
  BY OnePeriod DEF Lifecycle!May, Lifecycle!Transitions, Lifecycle!Timely
<1>3. Status[p] \in {"upcoming", "active"} /\ now < Window[p].end
  BY DEF Status, Window
<1>4. QED
  BY <1>1, <1>2, <1>3 DEF Lifecycle!Approve, Status, Approved, Window

LEMMA HandOverStep ==
    ASSUME TypeOK, NEW p \in Bills, NEW n \in Bills, UNCHANGED now, OneActivePaid',
           period[p].status = "active", period[p].end <= now,
           period[n].status = "upcoming", period[n].approved, period[n].start <= now,
           period' = [period EXCEPT ![p].status = "expired", ![n].status = "active"]
    PROVE  Lifecycle!HandOver(p, n)
<1>0. period \in [Bills -> PeriodRow] /\ \A b \in Bills : period[b] \in PeriodRow
  BY DEF TypeOK
<1>1. \A b \in Bills :
         /\ period'[b].start = period[b].start /\ period'[b].end = period[b].end
         /\ period'[b].approved = period[b].approved
         /\ period'[b].status = IF b = n THEN "active"
                                ELSE IF b = p THEN "expired" ELSE period[b].status
  BY <1>0 DEF PeriodRow
<1>2. UNCHANGED <<Approved, Window>>
  BY <1>1 DEF Approved, Window
<1>3. Status' = [Status EXCEPT ![p] = "expired", ![n] = "active"]
  <2>1. Status' = [b \in Bills |-> IF b = n THEN "active"
                                  ELSE IF b = p THEN "expired" ELSE Status[b]]
    BY <1>1 DEF Status
  <2>2. [Status EXCEPT ![p] = "expired"]
           = [b \in Bills |-> IF b = p THEN "expired" ELSE Status[b]]
    BY DEF Status
  <2>3. [[Status EXCEPT ![p] = "expired"] EXCEPT ![n] = "active"]
           = [b \in Bills |-> IF b = n THEN "active"
                              ELSE IF b = p THEN "expired" ELSE Status[b]]
    BY <2>2
  <2>4. QED
    BY <2>1, <2>3
<1>4. Lifecycle!May(p, "expired") /\ Lifecycle!May(n, "active") /\ Approved[n]
  BY DEF Lifecycle!May, Lifecycle!Transitions, Lifecycle!Timely, Approved
<1>5. Lifecycle!OneActive(Status')
  BY OneActiveLifecycle
<1>6. QED
  BY <1>2, <1>3, <1>4, <1>5 DEF Lifecycle!HandOver, Status, Approved, Window

-----------------------------------------------------------------------------
(* Every step of the ledger. *)

LEMMA WriteRefines ==
    ASSUME "window" \notin Edits, IInv, OneActivePaid',
           NEW p \in Bills, NEW row \in Row, WriteBill(p, row),
           bill[p].kind # "none" => row.kind = bill[p].kind /\ row.month = bill[p].month
    PROVE  [Lifecycle!Next]_(Lifecycle!vars)
<1>0. TypeOK /\ PeriodsFollowBills
  BY DEF IInv, WindowInv
<1>1. period \in [Bills -> PeriodRow] /\ period[p] \in PeriodRow
  BY <1>0 DEF TypeOK
<1>2. CASE row.pay # "paid" \/ UNCHANGED period
  BY <1>2, SamePeriods DEF WriteBill
<1>3. CASE row.pay = "paid" /\ period[p].status = "absent"
  <2>1. /\ UNCHANGED now /\ period'[p] = NewPeriod(row)
        /\ \A b \in Bills \ {p} : period'[b] = period[b]
    BY <1>1, <1>3 DEF WriteBill, ConfirmPayment, EnsurePaidPeriod
  <2>2. Lifecycle!Buy(p)
    BY <1>0, <1>3, <2>1, BuyStep
  <2>3. QED
    BY <2>2 DEF Lifecycle!Next
<1>4. CASE row.pay = "paid" /\ period[p].status = "upcoming"
  <2>1. /\ UNCHANGED now
        /\ period'[p].status = TargetStatus(row)
        /\ period'[p].start = period[p].start /\ period'[p].end = period[p].end
        /\ period'[p].approved = period[p].approved
        /\ \A b \in Bills \ {p} : period'[b] = period[b]
    BY <1>1, <1>4 DEF WriteBill, ConfirmPayment, EnsurePaidPeriod, PeriodRow
  <2>2. period[p].start = WindowStart(row) /\ period[p].end = WindowEnd(row)
    BY <1>0, <1>4 DEF PeriodsFollowBills, WindowStart, WindowEnd
  <2>3. /\ TargetStatus(row) \in {"upcoming", "active", "expired"}
        /\ TargetStatus(row) = "active" => period[p].start <= now
        /\ TargetStatus(row) = "expired" => period[p].end <= now
    BY <1>0, <2>2, TargetIsTimely
  <2>4. CASE TargetStatus(row) = "upcoming"
    <3>1. UNCHANGED Lifecycle!vars
      BY <1>4, <2>1, <2>4, OnePeriod DEF Lifecycle!vars, Status, Approved, Window
    <3>2. QED
      BY <3>1
  <2>5. CASE TargetStatus(row) # "upcoming"
    <3>1. Lifecycle!Move(p)
      BY <1>4, <2>1, <2>3, <2>5, MoveStep
    <3>2. QED
      BY <3>1 DEF Lifecycle!Next
  <2>6. QED
    BY <2>4, <2>5
<1>5. QED
  BY <1>2, <1>3, <1>4 DEF WriteBill, ConfirmPayment, EnsurePaidPeriod

LEMMA StepRefines ==
    ASSUME "window" \notin Edits, IInv, IInv', Next
    PROVE  [Lifecycle!Next]_(Lifecycle!vars)
<1> DEFINE Refines == [Lifecycle!Next]_(Lifecycle!vars)
<1> SUFFICES Refines
  OBVIOUS
<1>0. /\ TypeOK /\ OneActivePaid' /\ CallsHoldTheirBill /\ PassesInThePast
      /\ period \in [Bills -> PeriodRow]
      /\ now \in Nat
      /\ \A b \in Bills : /\ period[b] \in PeriodRow
                          /\ period[b].start \in Nat /\ period[b].end \in Nat
      /\ \A s \in Schedulers : pass[s].at \in Nat
  BY DEF IInv, SafetyInv, TypeOK, PeriodRow, PassState
<1>1. ASSUME NEW p \in Bills, Lifecycle!Buy(p) \/ Lifecycle!Move(p) \/ Lifecycle!Approve(p)
      PROVE  Refines
  BY <1>1 DEF Lifecycle!Next
<1>2. ASSUME NEW c \in Calls, SaveBill(c) PROVE Refines
  <2>1. call[c].row \in Row
    BY <1>0 DEF TypeOK, CallState
  <2>2. QED
    BY <1>0, <1>2, <2>1, WriteRefines DEF SaveBill, CallsHoldTheirBill
<1>3. ASSUME NEW c \in Calls, NEW p \in Bills, InsertBill(c, p) PROVE Refines
  <2>1. call[c].row \in Row
    BY <1>0 DEF TypeOK, CallState
  <2>2. QED
    BY <1>0, <1>3, <2>1, WriteRefines DEF InsertBill
<1>4. ASSUME NEW c \in Calls, NEW p \in Bills, ApprovePeriod(c, p) PROVE Refines
  <2>1. CASE UNCHANGED period
    BY <1>4, <2>1, SamePeriods DEF ApprovePeriod
  <2>2. CASE /\ now < period[p].end
             /\ period' = [period EXCEPT ![p].approved = TRUE,
                              ![p].status = IF Activates(p) THEN "active" ELSE @]
    <3>1. /\ period'[p].approved = TRUE
          /\ period'[p].start = period[p].start /\ period'[p].end = period[p].end
          /\ period'[p].status = IF Activates(p) THEN "active" ELSE period[p].status
          /\ \A b \in Bills \ {p} : period'[b] = period[b]
      BY <1>0, <2>2 DEF PeriodRow
    <3>2. UNCHANGED now /\ period[p].status \in {"upcoming", "active"}
      BY <1>4 DEF ApprovePeriod
    <3>3. Lifecycle!Approve(p)
      BY <1>0, <2>2, <3>1, <3>2, ApproveStep DEF Activates
    <3>4. QED
      BY <1>1, <3>3
  <2>3. QED
    BY <1>4, <2>1, <2>2 DEF ApprovePeriod
<1>5. ASSUME NEW s \in Schedulers, NEW p \in Bills, PassUpcoming(s, p) PROVE Refines
  <2>1. CASE UNCHANGED period
    BY <1>5, <2>1, SamePeriods DEF PassUpcoming
  <2>2. CASE MayStart(p, pass[s].at) /\ period' = [period EXCEPT ![p].status = "active"]
    <3>1. /\ period'[p].status = "active" /\ period'[p].approved = period[p].approved
          /\ period'[p].start = period[p].start /\ period'[p].end = period[p].end
          /\ \A b \in Bills \ {p} : period'[b] = period[b]
      BY <1>0, <2>2 DEF PeriodRow
    <3>2. UNCHANGED now /\ period[p].status = "upcoming" /\ period[p].start <= now
      BY <1>0, <1>5, <2>2 DEF PassUpcoming, MayStart, InWindow, PassesInThePast
    <3>3. Lifecycle!Move(p)
      BY <1>0, <3>1, <3>2, MoveStep
    <3>4. QED
      BY <1>1, <3>3
  <2>3. QED
    BY <1>5, <2>1, <2>2 DEF PassUpcoming
<1>6. ASSUME NEW s \in Schedulers, PassTenant(s) PROVE Refines
  <2>0. UNCHANGED now
    BY <1>6 DEF PassTenant
  <2>1. CASE UNCHANGED period
    BY <2>0, <2>1, SamePeriods
  <2>2. ASSUME NEW p \in Bills, PeriodDue(p, pass[s].at),
               period' = [period EXCEPT ![p].status = "expired"]
        PROVE  Refines
    <3>1. /\ period'[p].status = "expired" /\ period'[p].approved = period[p].approved
          /\ period'[p].start = period[p].start /\ period'[p].end = period[p].end
          /\ \A b \in Bills \ {p} : period'[b] = period[b]
      BY <1>0, <2>2 DEF PeriodRow
    <3>2. period[p].status = "active" /\ period[p].end <= now
      BY <1>0, <2>2 DEF PeriodDue, Active, PassesInThePast
    <3>3. Lifecycle!Move(p)
      BY <1>0, <2>0, <3>1, <3>2, MoveStep
    <3>4. QED
      BY <1>1, <3>3
  <2>3. ASSUME NEW p \in Bills, PeriodDue(p, pass[s].at), NEW n \in Successors(pass[s].at),
               period' = [period EXCEPT ![p].status = "expired", ![n].status = "active"]
        PROVE  Refines
    <3>1. period[p].status = "active" /\ period[p].end <= now
      BY <1>0, <2>3 DEF PeriodDue, Active, PassesInThePast
    <3>2. n \in Bills /\ period[n].status = "upcoming" /\ period[n].approved
                      /\ period[n].start <= now
      BY <1>0 DEF Successors, MayStart, InWindow, PassesInThePast
    <3>3. Lifecycle!HandOver(p, n)
      BY <1>0, <2>0, <2>3, <3>1, <3>2, HandOverStep
    <3>4. QED
      BY <3>2, <3>3 DEF Lifecycle!Next
  <2>4. CASE \E p \in Bills : PeriodDue(p, pass[s].at) /\ Expire(p, pass[s].at)
    BY <2>2, <2>3, <2>4 DEF Expire, Earliest
  <2>5. QED
    BY <1>6, <2>1, <2>4 DEF PassTenant
<1>7. CASE Tick
  <2>1. Lifecycle!Tick
    BY <1>7 DEF Tick, Lifecycle!Tick
  <2>2. QED
    BY <2>1 DEF Lifecycle!Next
<1>8. CASE UNCHANGED <<now, period>>
  BY <1>8, SamePeriods
<1>9. UNCHANGED now \/ Tick
  BY <1>0, ClockWriters
<1>10. QED
  BY <1>2, <1>3, <1>4, <1>5, <1>6, <1>7, <1>8, <1>9, PeriodWriters

\* Every behaviour of the ledger is one of the period lifecycle: periods are
\* bought once, move along the transition table at their time, keep their
\* window and their approval, and are active one at a time.
THEOREM LedgerImplementsLifecycle ==
    ASSUME "window" \notin Edits
    PROVE  Spec => ImplementsLifecycle
<1>1. Init => Lifecycle!Init
  BY DEF Init, NoPeriod, Lifecycle!Init
<1>2. IInv /\ IInv' /\ [Next]_vars => [Lifecycle!Next]_(Lifecycle!vars)
  <2>1. CASE UNCHANGED vars
    BY <2>1, SamePeriods DEF vars
  <2>2. QED
    BY <2>1, StepRefines
<1>3. QED
  BY <1>1, <1>2, Invariance, PTL DEF Spec, ImplementsLifecycle, Lifecycle!Spec
=============================================================================
