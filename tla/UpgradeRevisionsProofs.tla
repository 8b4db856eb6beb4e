----------------------- MODULE UpgradeRevisionsProofs -----------------------
(***************************************************************************)
(* Theorems of upgrades, for every number of upgrades and handlers and any *)
(* quotas.                                                                 *)
(*                                                                         *)
(* The inductive invariant has four parts on top of the types: what a      *)
(* handler holds fits the decision it takes (Handlers), an invoice has its *)
(* revision (Bills), a revision up for approval or approved was paid for   *)
(* (Paid), and the two properties themselves. Handlers must say what a     *)
(* payment knows of the revision it has loaded: unless a stale copy was    *)
(* saved since, what had an answer then has one now.                       *)
(***************************************************************************)
EXTENDS UpgradeRevisions, TLAPS

Known(r) == revision[r].status # "none"
Answers == {"pending_approval", "approved", "rejected", "stale"}
Answered(r) == revision[r].status \in Answers

Sound(k) ==
    /\ k.step # "idle" => k.r \in Revisions /\ Known(k.r)
    /\ k.step = "cancelling" => k.copy.status = "requested"
    /\ k.step = "approving" => k.copy.status = "pending_approval" /\ k.r \in confirmed
    /\ k.step = "confirming" =>
           /\ k.copy.status # "none"
           /\ (k.copy.status \in Answers /\ k.r \notin overwritten) => Answered(k.r)
Handlers == \A c \in Calls : Sound(call[c])

Bills == \A r \in Revisions : bill[r] # "absent" => Known(r)

Paid == \A r \in Revisions :
    revision[r].status \in {"pending_approval", "approved"} => r \in confirmed

IInv == TypeOK /\ Handlers /\ Bills /\ Paid /\ UsageIsCovered /\ PaidUpgradeIsPending
-----------------------------------------------------------------------------
(* What the steps have in common. *)

\* Revisions stay, what was confirmed stays confirmed, and an answer is undone by the
\* save of a stale copy only.
Grows ==
    /\ \A r \in Revisions : Known(r) => Known(r)'
    /\ confirmed \subseteq confirmed' /\ overwritten \subseteq overwritten'
    /\ \A r \in Revisions : (Answered(r) /\ r \notin overwritten') => Answered(r)'

LEMMA IdleIsACall == Idle \in Call /\ NoRevision \in Revision
<1>1. NoRevision \in Revision
  BY UpgradeAssumption DEF NoRevision, Revision, Statuses
<1>2. QED
  BY <1>1 DEF Idle, Call, Steps, PaymentStatus

LEMMA HandlersKept ==
    ASSUME TypeOK, Handlers, Grows, NEW c \in Calls, NEW k \in Call,
           call' = [call EXCEPT ![c] = k], Sound(k)'
    PROVE  call' \in [Calls -> Call] /\ Handlers'
<1>1. call' \in [Calls -> Call]
  BY DEF TypeOK
<1>2. ASSUME NEW d \in Calls PROVE Sound(call[d])'
  <2>1. CASE d = c
    BY <2>1 DEF TypeOK
  <2>2. CASE d # c
    <3>1. call'[d] = call[d] /\ Sound(call[d])
      BY <2>2 DEF TypeOK, Handlers
    <3>2. QED
      BY <3>1 DEF Sound, Grows
  <2>3. QED
    BY <2>1, <2>2
<1>3. QED
  BY <1>1, <1>2 DEF Handlers

LEMMA HandlersUntouched ==
    ASSUME TypeOK, Handlers, Grows, UNCHANGED call
    PROVE  call' \in [Calls -> Call] /\ Handlers'
BY DEF TypeOK, Handlers, Sound, Grows

LEMMA HandlersEnding ==
    ASSUME TypeOK, Handlers, Grows, NEW c \in Calls, End(c)
    PROVE  call' \in [Calls -> Call] /\ Handlers'
<1>1. Sound(Idle)'
  BY DEF Sound, Idle
<1>2. QED
  BY <1>1, IdleIsACall, HandlersKept DEF End

\* The save of a row that is an answer if the loaded copy was one.
LEMMA RowSaved ==
    ASSUME TypeOK, NEW c \in Calls, call[c].r \in Revisions,
           NEW row \in Revision, row.status # "none",
           call[c].copy.status \in Answers => row.status \in Answers,
           confirmed \subseteq confirmed',
           Write(c, row) \/ UNCHANGED <<revision, overwritten>>
    PROVE  /\ revision' \in [Revisions -> Revision] /\ overwritten' \subseteq Revisions
           /\ Grows
           /\ \A q \in Revisions : revision'[q] = revision[q] \/ (q = call[c].r /\ revision'[q] = row)
<1>1. CASE UNCHANGED <<revision, overwritten>>
  BY <1>1 DEF TypeOK, Grows, Known, Answered
<1>2. CASE Write(c, row)
  <2> DEFINE r == call[c].r
  <2>1. revision' = [revision EXCEPT ![r] = row]
    BY <1>2 DEF Write
  <2>2. overwritten \subseteq overwritten' /\ overwritten' \subseteq Revisions
    BY <1>2 DEF Write, TypeOK
  <2>3. r \notin overwritten' => revision[r] = call[c].copy
    BY <1>2 DEF Write
  <2>4. revision' \in [Revisions -> Revision]
    BY <2>1 DEF TypeOK
  <2>5. \A q \in Revisions : revision'[q] = IF q = r THEN row ELSE revision[q]
    BY <2>1 DEF TypeOK
  <2>6. Grows
    BY <2>2, <2>3, <2>5 DEF Grows, Known, Answered
  <2>7. QED
    BY <2>2, <2>4, <2>5, <2>6
<1>3. QED
  BY <1>1, <1>2

\* A step that spends nothing and leaves the invoices alone.
LEMMA Following ==
    ASSUME IInv, Grows, UNCHANGED <<bill, used>>, revision' \in [Revisions -> Revision]
    PROVE  Bills' /\ UsageIsCovered' /\ PaidUpgradeIsPending'
<1>1. Bills'
  BY DEF IInv, Bills, Grows
<1>2. UsageIsCovered'
  BY UpgradeAssumption DEF IInv, TypeOK, UsageIsCovered, Grows
<1>3. PaidUpgradeIsPending'
  BY DEF IInv, PaidUpgradeIsPending, Grows, Answered, Answers
<1>4. QED
  BY <1>1, <1>2, <1>3

LEMMA RevisionsUntouched ==
    ASSUME IInv, UNCHANGED <<revision, confirmed, overwritten>>
    PROVE  /\ Grows /\ Paid'
           /\ revision' \in [Revisions -> Revision]
           /\ confirmed' \subseteq Revisions /\ overwritten' \subseteq Revisions
BY DEF IInv, TypeOK, Grows, Known, Answered, Paid

\* The limit is never beyond both quotas, nor beyond the old one before a payment.
LEMMA LimitIsCovered ==
    ASSUME IInv
    PROVE  /\ Limit \in Nat /\ Limit <= OldLimit + NewLimit
           /\ Limit <= OldLimit + (IF confirmed = {} THEN 0 ELSE NewLimit)
<1>1. CASE Approved = {}
  BY <1>1, UpgradeAssumption DEF Limit
<1>2. CASE Approved # {}
  <2> DEFINE r == CHOOSE q \in Approved : TRUE
  <2>1. r \in Approved
    BY <1>2
  <2>2. r \in Revisions /\ revision[r].status = "approved"
    BY <2>1 DEF Approved
  <2>3. revision[r].carry \in 0..OldLimit
    BY <2>2 DEF IInv, TypeOK, Revision
  <2>4. confirmed # {}
    BY <2>2 DEF IInv, Paid
  <2>5. Limit = NewLimit + revision[r].carry
    BY <1>2 DEF Limit
  <2>6. QED
    BY <2>3, <2>4, <2>5, UpgradeAssumption
<1>3. QED
  BY <1>1, <1>2
-----------------------------------------------------------------------------
(* Every step keeps the invariant. *)

LEMMA IInvInit == Init => IInv
<1> SUFFICES ASSUME Init PROVE IInv
  OBVIOUS
<1>1. TypeOK
  <2>1. 0 \in 0..OldLimit + NewLimit
    BY UpgradeAssumption
  <2>2. call \in [Calls -> Call] /\ revision \in [Revisions -> Revision]
    BY IdleIsACall DEF Init
  <2>3. bill \in [Revisions -> PaymentStatus]
    BY DEF Init, PaymentStatus
  <2>4. QED
    BY <2>1, <2>2, <2>3 DEF Init, TypeOK
<1>2. Handlers
  BY DEF Init, Handlers, Sound, Idle
<1>3. Bills /\ Paid /\ PaidUpgradeIsPending
  BY DEF Init, Bills, Paid, PaidUpgradeIsPending, NoRevision
<1>4. UsageIsCovered
  BY UpgradeAssumption DEF Init, UsageIsCovered
<1>5. QED
  BY <1>1, <1>2, <1>3, <1>4 DEF IInv

LEMMA IInvMonth ==
    ASSUME IInv, MonthEnds \/ Expire
    PROVE  IInv'
<1>1. UNCHANGED <<bill, revision, events, used, call, confirmed, overwritten>>
  BY DEF MonthEnds, Expire
<1>2. /\ Grows /\ Paid' /\ revision' \in [Revisions -> Revision]
      /\ confirmed' \subseteq Revisions /\ overwritten' \subseteq Revisions
  BY <1>1, RevisionsUntouched
<1>3. call' \in [Calls -> Call] /\ Handlers'
  BY <1>1, <1>2, HandlersUntouched DEF IInv
<1>4. Bills' /\ UsageIsCovered' /\ PaidUpgradeIsPending'
  BY <1>1, <1>2, Following
<1>5. TypeOK'
  BY <1>1, <1>2, <1>3 DEF IInv, TypeOK, MonthEnds, Expire
<1>6. QED
  BY <1>2, <1>3, <1>4, <1>5 DEF IInv

LEMMA IInvUsage ==
    ASSUME IInv, Send \/ WriteOff
    PROVE  IInv'
<1>1. UNCHANGED <<ended, period, plan, bill, revision, events, call, confirmed, overwritten>>
  BY DEF Send, WriteOff
<1>2. /\ Grows /\ Paid' /\ revision' \in [Revisions -> Revision]
      /\ confirmed' \subseteq Revisions /\ overwritten' \subseteq Revisions
  BY <1>1, RevisionsUntouched
<1>3. call' \in [Calls -> Call] /\ Handlers'
  BY <1>1, <1>2, HandlersUntouched DEF IInv
<1>4. Bills' /\ PaidUpgradeIsPending'
  BY <1>1 DEF IInv, Bills, PaidUpgradeIsPending, Known
<1>5. used' \in 0..OldLimit + NewLimit /\ UsageIsCovered'
  <2>1. used \in 0..OldLimit + NewLimit /\ UsageIsCovered
    BY DEF IInv, TypeOK
  <2>2. CASE Send
    <3>1. used' = used + 1 /\ used + 1 <= Limit
      BY <2>2 DEF Send, HasRoom
    <3>2. QED
      BY <1>1, <2>1, <3>1, LimitIsCovered, UpgradeAssumption DEF UsageIsCovered
  <2>3. CASE WriteOff
    <3>1. used' = used - 1 /\ used > 0
      BY <2>3 DEF WriteOff
    <3>2. QED
      BY <1>1, <2>1, <3>1, UpgradeAssumption DEF UsageIsCovered
  <2>4. QED
    BY <2>2, <2>3
<1>6. TypeOK'
  BY <1>1, <1>2, <1>3, <1>5 DEF IInv, TypeOK
<1>7. QED
  BY <1>2, <1>3, <1>4, <1>5, <1>6 DEF IInv

LEMMA IInvRequest ==
    ASSUME IInv, Request
    PROVE  IInv'
<1>1. PICK r \in Revisions :
          /\ revision[r] = NoRevision
          /\ revision' = [revision EXCEPT ![r].status = "requested"]
          /\ bill' = [bill EXCEPT ![r] = "unpaid"]
  BY DEF Request
<1>2. UNCHANGED <<ended, period, plan, events, used, call, confirmed, overwritten>>
  BY DEF Request
<1>3. \A q \in Revisions : revision'[q] = IF q = r THEN [NoRevision EXCEPT !.status = "requested"]
                                          ELSE revision[q]
  BY <1>1 DEF IInv, TypeOK
<1>4. [NoRevision EXCEPT !.status = "requested"] \in Revision
  BY IdleIsACall DEF Revision, Statuses
<1>5. revision' \in [Revisions -> Revision] /\ bill' \in [Revisions -> PaymentStatus]
  BY <1>1, <1>3, <1>4 DEF IInv, TypeOK, PaymentStatus
<1>6. Grows
  BY <1>1, <1>2, <1>3 DEF Grows, Known, Answered, Answers, NoRevision
<1>7. call' \in [Calls -> Call] /\ Handlers'
  BY <1>2, <1>6, HandlersUntouched DEF IInv
<1>8. Bills' /\ Paid'
  BY <1>1, <1>2, <1>3 DEF IInv, TypeOK, Bills, Paid, Known, NoRevision
<1>9. UsageIsCovered'
  BY <1>2 DEF IInv, UsageIsCovered
<1>10. PaidUpgradeIsPending'
  BY <1>1, <1>2, <1>3 DEF IInv, TypeOK, PaidUpgradeIsPending, NoRevision
<1>11. TypeOK'
  BY <1>2, <1>5, <1>7 DEF IInv, TypeOK
<1>12. QED
  BY <1>7, <1>8, <1>9, <1>10, <1>11 DEF IInv

\* A handler takes its place and holds what the statuses it accepts imply.
LEMMA IInvBegin ==
    ASSUME IInv, NEW c \in Calls, NEW k \in Call, Sound(k), Begin(c, k),
           UNCHANGED <<ended, period, plan, bill, revision, events, used, confirmed, overwritten>>
    PROVE  IInv'
<1>1. /\ Grows /\ Paid' /\ revision' \in [Revisions -> Revision]
      /\ confirmed' \subseteq Revisions /\ overwritten' \subseteq Revisions
  BY RevisionsUntouched
<1>2. Sound(k)'
  BY <1>1 DEF Sound, Grows
<1>3. call' \in [Calls -> Call] /\ Handlers'
  BY <1>1, <1>2, HandlersKept DEF IInv, Begin
<1>4. Bills' /\ UsageIsCovered' /\ PaidUpgradeIsPending'
  BY <1>1, Following
<1>5. TypeOK'
  BY <1>1, <1>3 DEF IInv, TypeOK
<1>6. QED
  BY <1>1, <1>3, <1>4, <1>5 DEF IInv

LEMMA IInvLoad ==
    ASSUME IInv, NEW c \in Calls, BeginCancel(c) \/ BeginReject(c) \/ BeginApprove(c)
    PROVE  IInv'
<1>1. PICK step \in {"cancelling", "rejecting", "approving"}, accepted \in SUBSET Statuses :
          /\ Load(c, step, accepted)
          /\ "none" \notin accepted
          /\ step = "cancelling" => accepted = {"requested"}
          /\ step = "approving" => accepted = {"pending_approval"}
  BY DEF BeginCancel, BeginReject, BeginApprove, Cancellable, Rejectable, Approvable, Statuses
<1>2. PICK r \in Revisions :
          /\ revision[r].status \in accepted
          /\ Begin(c, [Idle EXCEPT !.step = step, !.r = r, !.copy = revision[r]])
  BY <1>1 DEF Load
<1> DEFINE k == [Idle EXCEPT !.step = step, !.r = r, !.copy = revision[r]]
<1>3. k \in Call
  BY IdleIsACall DEF IInv, TypeOK, Call, Steps
<1>4. k.step = step /\ k.r = r /\ k.copy = revision[r]
  BY DEF Idle
<1>5. Sound(k)
  BY <1>1, <1>2, <1>4 DEF IInv, Paid, Sound, Known
<1>6. UNCHANGED <<ended, period, plan, bill, revision, events, used, confirmed, overwritten>>
  BY <1>1 DEF Load
<1> HIDE DEF k
<1>7. QED
  BY <1>2, <1>3, <1>5, <1>6, IInvBegin DEF k

LEMMA IInvEdit ==
    ASSUME IInv, NEW c \in Calls, Confirm(c) \/ Reverse(c) \/ Touch(c)
    PROVE  IInv'
<1>1. PICK r \in Revisions, pay \in PaymentStatus : BeginEdit(c, r, pay)
  BY DEF Confirm, Reverse, Touch, PaymentStatus
<1> DEFINE k == [Idle EXCEPT !.step = "saving", !.r = r, !.pay = pay]
<1>2. k \in Call
  BY IdleIsACall DEF Call, Steps
<1>3. k.step = "saving" /\ k.r = r
  BY DEF Idle
<1>4. Sound(k)
  BY <1>1, <1>3 DEF IInv, Bills, BeginEdit, Sound
<1>5. Begin(c, k) /\ UNCHANGED <<ended, period, plan, bill, revision, events, used, confirmed, overwritten>>
  BY <1>1 DEF BeginEdit
<1> HIDE DEF k
<1>6. QED
  BY <1>2, <1>4, <1>5, IInvBegin

\* A decision that saves the loaded revision as row, or leaves it alone.
LEMMA IInvDecision ==
    ASSUME IInv, NEW c \in Calls, ~At(c, "idle"),
           NEW row \in Revision, row.status # "none",
           call[c].copy.status \in Answers => row.status \in Answers,
           row.status \in {"pending_approval", "approved"} => call[c].r \in confirmed,
           Write(c, row) \/ UNCHANGED <<revision, overwritten>>,
           End(c), UNCHANGED <<ended, period, bill, used, confirmed>>,
           plan' \in {"old", "new"}, events' \subseteq Revisions
    PROVE  IInv'
<1>1. call[c].r \in Revisions
  BY DEF IInv, Handlers, Sound, At
<1>2. /\ revision' \in [Revisions -> Revision] /\ overwritten' \subseteq Revisions
      /\ Grows
      /\ \A q \in Revisions : revision'[q] = revision[q] \/ (q = call[c].r /\ revision'[q] = row)
  BY <1>1, RowSaved DEF IInv
<1>3. call' \in [Calls -> Call] /\ Handlers'
  BY <1>2, HandlersEnding DEF IInv
<1>4. Paid'
  BY <1>2 DEF IInv, Paid
<1>5. Bills' /\ UsageIsCovered' /\ PaidUpgradeIsPending'
  BY <1>2, Following
<1>6. TypeOK'
  BY <1>2, <1>3 DEF IInv, TypeOK
<1>7. QED
  BY <1>3, <1>4, <1>5, <1>6 DEF IInv

LEMMA CopyIsTyped ==
    ASSUME IInv, NEW c \in Calls, NEW s \in Statuses
    PROVE  /\ call[c] \in Call /\ call[c].copy \in Revision
           /\ [call[c].copy EXCEPT !.status = s] \in Revision
           /\ [call[c].copy EXCEPT !.status = s].status = s
<1>1. call[c] \in Call
  BY DEF IInv, TypeOK
<1>2. call[c].copy \in Revision
  BY <1>1 DEF Call
<1>3. QED
  BY <1>1, <1>2 DEF Revision

LEMMA IInvCancel ==
    ASSUME IInv, NEW c \in Calls, CommitCancel(c)
    PROVE  IInv'
<1> DEFINE row == [call[c].copy EXCEPT !.status = "cancelled"]
<1>1. At(c, "cancelling") /\ ~At(c, "idle")
  BY DEF CommitCancel, At
<1>2. call[c].copy.status = "requested" /\ call[c].r \in Revisions
  BY <1>1 DEF IInv, Handlers, Sound, At
<1>3. row \in Revision /\ row.status = "cancelled"
  BY CopyIsTyped DEF Statuses
<1>4. Write(c, row) \/ UNCHANGED <<revision, overwritten>>
  BY DEF CommitCancel, SaveRevision
<1>5. End(c) /\ events' \subseteq Revisions /\ UNCHANGED <<ended, period, plan, bill, used, confirmed>>
  BY <1>2 DEF CommitCancel, IInv, TypeOK
<1>6. plan' \in {"old", "new"}
  BY <1>5 DEF IInv, TypeOK
<1> HIDE DEF row
<1>7. QED
  BY <1>1, <1>2, <1>3, <1>4, <1>5, <1>6, IInvDecision DEF Answers

LEMMA IInvReject ==
    ASSUME IInv, NEW c \in Calls, CommitReject(c)
    PROVE  IInv'
<1> DEFINE row == [call[c].copy EXCEPT !.status = "rejected"]
<1>1. ~At(c, "idle")
  BY DEF CommitReject, At
<1>2. row \in Revision /\ row.status = "rejected"
  BY CopyIsTyped DEF Statuses
<1>3. Write(c, row) \/ UNCHANGED <<revision, overwritten>>
  BY DEF CommitReject, SaveRevision
<1>4. End(c) /\ UNCHANGED <<ended, period, plan, bill, events, used, confirmed>>
  BY DEF CommitReject
<1>5. plan' \in {"old", "new"} /\ events' \subseteq Revisions
  BY <1>4 DEF IInv, TypeOK
<1> HIDE DEF row
<1>6. QED
  BY <1>1, <1>2, <1>3, <1>4, <1>5, IInvDecision DEF Answers

LEMMA IInvApprove ==
    ASSUME IInv, NEW c \in Calls, CommitApprove(c)
    PROVE  IInv'
<1> DEFINE timely == period = "active" /\ ~ended
           row == IF timely THEN ApprovedRow(call[c].copy)
                  ELSE [call[c].copy EXCEPT !.status = "stale"]
<1>1. At(c, "approving") /\ ~At(c, "idle")
  BY DEF CommitApprove, At
<1>2. call[c].r \in confirmed
  BY <1>1 DEF IInv, Handlers, Sound, At
<1>3. row \in Revision /\ row.status \in {"approved", "stale"}
  <2>1. Left \in 0..OldLimit /\ used \in 0..OldLimit + NewLimit
    BY UpgradeAssumption DEF IInv, TypeOK, Left
  <2>2. call[c].copy \in Revision
    BY CopyIsTyped DEF Statuses
  <2>3. ApprovedRow(call[c].copy) \in Revision /\ ApprovedRow(call[c].copy).status = "approved"
    BY <2>1, <2>2 DEF ApprovedRow, Revision, Statuses
  <2>4. QED
    BY <2>3, CopyIsTyped DEF Statuses
<1>4. Write(c, row) \/ UNCHANGED <<revision, overwritten>>
  BY DEF CommitApprove, SaveRevision
<1>5. End(c) /\ UNCHANGED <<ended, period, bill, events, used, confirmed>>
  BY DEF CommitApprove
<1>6. plan' \in {"old", "new"} /\ events' \subseteq Revisions
  BY <1>5 DEF CommitApprove, IInv, TypeOK
<1> HIDE DEF row
<1>7. QED
  BY <1>1, <1>2, <1>3, <1>4, <1>5, <1>6, IInvDecision DEF Answers

LEMMA IInvSaveBill ==
    ASSUME IInv, NEW c \in Calls, SaveBill(c)
    PROVE  IInv'
<1> DEFINE k == call[c]
<1>1. UNCHANGED <<ended, period, plan, revision, events, used, confirmed, overwritten>>
  BY DEF SaveBill
<1>2. k \in Call /\ k.step = "saving" /\ k.r \in Revisions /\ Known(k.r)
  BY CopyIsTyped DEF IInv, Handlers, Sound, SaveBill, At, Statuses
<1>3. /\ Grows /\ Paid' /\ revision' \in [Revisions -> Revision]
      /\ confirmed' \subseteq Revisions /\ overwritten' \subseteq Revisions
  BY <1>1, RevisionsUntouched
<1>4. CASE k.pay = "paid"
  <2>0. [k EXCEPT !.step = "confirming", !.copy = revision[k.r]] \in Call
    BY <1>2 DEF IInv, TypeOK, Call, Steps
  <2>1. PICK m \in Call : m = [k EXCEPT !.step = "confirming", !.copy = revision[k.r]]
    BY <2>0
  <2>2. call' = [call EXCEPT ![c] = m] /\ UNCHANGED bill
    BY <1>4, <2>1 DEF SaveBill
  <2>3. Sound(m)
    BY <1>2, <2>1 DEF Sound, Known, Answered, Call
  <2>4. Sound(m)'
    BY <1>3, <2>3 DEF Sound, Grows
  <2>5. call' \in [Calls -> Call] /\ Handlers'
    BY <1>3, <2>2, <2>4, HandlersKept DEF IInv
  <2>6. Bills' /\ UsageIsCovered' /\ PaidUpgradeIsPending'
    BY <1>1, <1>3, <2>2, Following
  <2>7. TypeOK'
    BY <1>1, <1>3, <2>2, <2>5 DEF IInv, TypeOK
  <2>8. QED
    BY <1>3, <2>5, <2>6, <2>7 DEF IInv
<1>5. CASE k.pay # "paid"
  <2>1. bill' = [bill EXCEPT ![k.r] = k.pay] /\ End(c)
    BY <1>5 DEF SaveBill
  <2>2. call' \in [Calls -> Call] /\ Handlers'
    BY <1>3, <2>1, HandlersEnding DEF IInv
  <2>3. bill' \in [Revisions -> PaymentStatus]
    BY <1>2, <2>1 DEF IInv, TypeOK, Call
  <2>4. \A q \in Revisions : bill'[q] = IF q = k.r THEN k.pay ELSE bill[q]
    BY <2>1 DEF IInv, TypeOK
  <2>5. Bills'
    BY <1>1, <1>2, <2>4 DEF IInv, Bills, Known
  <2>6. PaidUpgradeIsPending'
    BY <1>1, <1>5, <2>4 DEF IInv, PaidUpgradeIsPending
  <2>7. UsageIsCovered'
    BY <1>1 DEF IInv, UsageIsCovered
  <2>8. TypeOK'
    BY <1>1, <1>3, <2>2, <2>3 DEF IInv, TypeOK
  <2>9. QED
    BY <1>3, <2>2, <2>5, <2>6, <2>7, <2>8 DEF IInv
<1>6. QED
  BY <1>4, <1>5

LEMMA IInvPayment ==
    ASSUME IInv, NEW c \in Calls, CommitPayment(c)
    PROVE  IInv'
<1> DEFINE k == call[c]
           row == [k.copy EXCEPT !.status = "pending_approval"]
           refused == k.copy.status \in Refused \/ (k.copy.status = "requested" /\ ~Writable(c, row))
<1>1. UNCHANGED <<ended, period, plan, events, used>> /\ End(c) /\ ~At(c, "idle")
  BY DEF CommitPayment, At
<1>2. /\ k.r \in Revisions /\ Known(k.r) /\ k.copy.status # "none"
      /\ (k.copy.status \in Answers /\ k.r \notin overwritten) => Answered(k.r)
  BY DEF IInv, Handlers, Sound, CommitPayment, At
<1>3. /\ k.copy.status \in Statuses
      /\ row \in Revision /\ row.status = "pending_approval"
  BY CopyIsTyped DEF Statuses, Revision
<1>4. CASE refused
  <2>1. UNCHANGED <<bill, confirmed, revision, overwritten>>
    BY <1>4 DEF CommitPayment
  <2>2. plan' \in {"old", "new"} /\ events' \subseteq Revisions
    BY <1>1 DEF IInv, TypeOK
  <2> HIDE DEF row
  <2>3. /\ Grows /\ Paid' /\ revision' \in [Revisions -> Revision]
        /\ confirmed' \subseteq Revisions /\ overwritten' \subseteq Revisions
    BY <2>1, RevisionsUntouched
  <2>4. call' \in [Calls -> Call] /\ Handlers'
    BY <1>1, <2>3, HandlersEnding DEF IInv
  <2>5. Bills' /\ UsageIsCovered' /\ PaidUpgradeIsPending'
    BY <1>1, <2>1, <2>3, Following
  <2>6. TypeOK'
    BY <1>1, <2>1, <2>3, <2>4 DEF IInv, TypeOK
  <2>7. QED
    BY <2>3, <2>4, <2>5, <2>6 DEF IInv
<1>5. CASE ~refused
  <2>1. /\ bill' = [bill EXCEPT ![k.r] = "paid"]
        /\ confirmed' = confirmed \cup {k.r}
        /\ IF k.copy.status = "requested" THEN Write(c, row) ELSE UNCHANGED <<revision, overwritten>>
    BY <1>5 DEF CommitPayment
  <2>2. k.copy.status = "requested" \/ k.copy.status \in Answers
    BY <1>2, <1>3, <1>5 DEF Refused, Statuses, Answers
  <2> HIDE DEF row, refused
  <2>3. /\ revision' \in [Revisions -> Revision] /\ overwritten' \subseteq Revisions
        /\ Grows
        /\ \A q \in Revisions : revision'[q] = revision[q] \/ (q = k.r /\ revision'[q] = row)
    BY <1>2, <1>3, <2>1, RowSaved DEF IInv, Answers
  <2>4. call' \in [Calls -> Call] /\ Handlers'
    BY <1>1, <2>3, HandlersEnding DEF IInv
  <2>5. Paid'
    BY <2>1, <2>3 DEF IInv, Paid
  <2>6. \A q \in Revisions : bill'[q] = IF q = k.r THEN "paid" ELSE bill[q]
    BY <2>1 DEF IInv, TypeOK
  <2>7. Bills'
    BY <1>2, <2>3, <2>6 DEF IInv, Bills, Grows
  <2>8. k.r \notin overwritten' => revision'[k.r].status \in Answers
    <3>1. CASE k.copy.status = "requested"
      <4>1. revision'[k.r] = row
        BY <1>2, <2>1, <3>1 DEF Write, IInv, TypeOK
      <4>2. QED
        BY <4>1, <1>3 DEF Answers
    <3>2. CASE k.copy.status \in Answers
      BY <1>2, <2>3, <3>2 DEF Grows, Answered
    <3>3. QED
      BY <2>2, <3>1, <3>2
  <2>9. PaidUpgradeIsPending'
    BY <2>3, <2>6, <2>8 DEF IInv, PaidUpgradeIsPending, Grows, Answered, Answers
  <2>10. UsageIsCovered'
    BY <1>1, <2>1, UpgradeAssumption DEF IInv, TypeOK, UsageIsCovered
  <2>11. TypeOK'
    <3>1. bill' \in [Revisions -> PaymentStatus] /\ confirmed' \subseteq Revisions
      BY <1>2, <2>1 DEF IInv, TypeOK, PaymentStatus
    <3>2. QED
      BY <1>1, <2>3, <2>4, <3>1 DEF IInv, TypeOK
  <2>12. QED
    BY <2>4, <2>5, <2>7, <2>9, <2>10, <2>11 DEF IInv
<1>6. QED
  BY <1>4, <1>5

LEMMA IInvStutter ==
    ASSUME IInv, UNCHANGED vars
    PROVE  IInv'
<1>1. TypeOK' /\ Handlers'
  BY DEF IInv, TypeOK, vars, Handlers, Sound, Known, Answered
<1>2. Bills' /\ Paid' /\ UsageIsCovered' /\ PaidUpgradeIsPending'
  BY DEF IInv, vars, Bills, Paid, Known, UsageIsCovered, PaidUpgradeIsPending
<1>3. QED
  BY <1>1, <1>2 DEF IInv

LEMMA IInvNext == IInv /\ [Next]_vars => IInv'
<1> SUFFICES ASSUME IInv, [Next]_vars PROVE IInv'
  OBVIOUS
<1>1. CASE MonthEnds \/ Expire
  BY <1>1, IInvMonth
<1>2. CASE Request
  BY <1>2, IInvRequest
<1>3. CASE Send \/ WriteOff
  BY <1>3, IInvUsage
<1>4. ASSUME NEW c \in Calls,
             BeginCancel(c) \/ CommitCancel(c) \/ BeginReject(c) \/ CommitReject(c)
                 \/ BeginApprove(c) \/ CommitApprove(c)
      PROVE  IInv'
  BY <1>4, IInvLoad, IInvCancel, IInvReject, IInvApprove
<1>5. ASSUME NEW c \in Calls,
             Confirm(c) \/ Reverse(c) \/ Touch(c) \/ SaveBill(c) \/ CommitPayment(c)
      PROVE  IInv'
  BY <1>5, IInvEdit, IInvSaveBill, IInvPayment
<1>6. CASE UNCHANGED vars
  BY <1>6, IInvStutter
<1>7. QED
  BY <1>1, <1>2, <1>3, <1>4, <1>5, <1>6 DEF Next

LEMMA Invariance == Spec => []IInv
BY IInvInit, IInvNext, PTL DEF Spec
-----------------------------------------------------------------------------
\* The variables keep their types: no more is ever used than both quotas, and no more
\* carried over than the old one.
THEOREM TypeCorrect == Spec => []TypeOK
<1>1. IInv => TypeOK
  BY DEF IInv
<1>2. QED
  BY <1>1, Invariance, PTL

\* For any number of upgrades and handlers on stale copies, a tenant never uses more
\* than the quotas of the plans whose invoices were confirmed.
THEOREM UsageStaysCovered == Spec => []UsageIsCovered
<1>1. IInv => UsageIsCovered
  BY DEF IInv
<1>2. QED
  BY <1>1, Invariance, PTL

\* An upgrade whose invoice stands as paid awaits its approval or has its answer,
\* unless a handler saved a copy of the revision that had changed.
THEOREM PaidUpgradeGetsItsAnswer == Spec => []PaidUpgradeIsPending
<1>1. IInv => PaidUpgradeIsPending
  BY DEF IInv
<1>2. QED
  BY <1>1, Invariance, PTL
=============================================================================
