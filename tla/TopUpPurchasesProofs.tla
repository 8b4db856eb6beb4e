------------------------ MODULE TopUpPurchasesProofs ------------------------
(***************************************************************************)
(* Theorems of top-up bundles, for every number of invoices, bundles,      *)
(* handlers, months and crashes.                                           *)
(*                                                                         *)
(* The inductive invariant has five parts on top of the types: what a      *)
(* handler holds exists (Handlers), a bundle has an invoice of its own     *)
(* (Links), what is paid was confirmed (Payments), the pass has copies of  *)
(* bundles that were open (Copies), and a confirmation that is recorded,   *)
(* or shown by the invoice, reached its bundle (Grants).                   *)
(***************************************************************************)
EXTENDS TopUpPurchases, TLAPS

Known(b) == bill[b].status # "absent"
Made(p) == purchase[p].status # "none"

Sound(k) ==
    /\ k.step = "requesting" => k.month \in Months /\ (k.b # 0 => k.b \in Bills /\ Known(k.b))
    /\ k.step \in {"saving", "granting"} =>
           k.b \in Bills /\ Known(k.b) /\ k.copy.status # "absent"
    /\ k.step = "granting" => k.copy.status = "paid"
    /\ k.step = "confirming" => k.p \in Purchases /\ Made(k.p)
Handlers == \A c \in Calls : Sound(call[c])

Links ==
    /\ \A p \in Purchases : ~Made(p) => purchase[p] = NoPurchase
    /\ \A p \in Purchases : Made(p) => purchase[p].bill \in Bills /\ Known(purchase[p].bill)
    /\ \A p, q \in Purchases :
           (p # q /\ Made(p) /\ Made(q)) => purchase[p].bill # purchase[q].bill

Payments ==
    /\ \A b \in Bills : bill[b].status = "paid" => b \in confirmed
    /\ \A p \in Purchases : purchase[p].paid => purchase[p].bill \in confirmed

Copies ==
    \A p \in Purchases : pass.copies[p] # NoPurchase =>
        /\ pass.copies[p].status \in {"pending", "active"}
        /\ Made(p) /\ pass.copies[p].bill = purchase[p].bill
        /\ pass.copies[p].paid => pass.copies[p].bill \in confirmed

Grants ==
    \A p \in Purchases : p \notin overtaken =>
        /\ purchase[p].recorded # {} => purchase[p].paid
        /\ (Made(p) /\ bill[purchase[p].bill].status = "paid" /\ bill[purchase[p].bill].topUp)
               => purchase[p].paid

IInv == TypeOK /\ Handlers /\ Links /\ Payments /\ Copies /\ Grants
-----------------------------------------------------------------------------
(* What the steps have in common. *)

\* Invoices and bundles are never unmade.
Grows == /\ \A b \in Bills : Known(b) => Known(b)'
         /\ \A p \in Purchases : Made(p) => Made(p)'

LEMMA IdleIsACall == Idle \in Call /\ NoBill \in Bill /\ NoPurchase \in Purchase /\ NoPass \in Pass
<1>1. NoBill \in Bill /\ NoPurchase \in Purchase
  BY DEF NoBill, Bill, NoPurchase, Purchase
<1>2. Idle \in Call
  BY <1>1, TopUpAssumption DEF Idle, Call, Steps
<1>3. NoPass \in Pass
  BY <1>1 DEF NoPass, Pass
<1>4. QED
  BY <1>1, <1>2, <1>3

\* A handler that changes its record for a sound one leaves all records sound.
LEMMA HandlersKept ==
    ASSUME TypeOK, Handlers, Grows, NEW c \in Calls, NEW k \in Call,
           call' = [call EXCEPT ![c] = k], Sound(k)'
    PROVE  call' \in [Calls -> Call] /\ Handlers'
<1>1. call' \in [Calls -> Call]
  BY DEF TypeOK
<1>2. ASSUME NEW d \in Calls PROVE Sound(call[d])'
  <2>1. CASE d = c
    BY <2>1 DEF TypeOK
  <2>2. CASE d # c
    <3>1. call'[d] = call[d] /\ Sound(call[d])
      BY <2>2 DEF TypeOK, Handlers
    <3>2. QED
      BY <3>1 DEF Sound, Grows
  <2>3. QED
    BY <2>1, <2>2
<1>3. QED
  BY <1>1, <1>2 DEF Handlers

LEMMA HandlersUntouched ==
    ASSUME TypeOK, Handlers, Grows, UNCHANGED call
    PROVE  call' \in [Calls -> Call] /\ Handlers'
BY DEF TypeOK, Handlers, Sound, Grows

LEMMA HandlersEnding ==
    ASSUME TypeOK, Handlers, Grows, NEW c \in Calls, End(c)
    PROVE  call' \in [Calls -> Call] /\ Handlers'
<1>1. Sound(Idle)'
  BY DEF Sound, Idle
<1>2. QED
  BY <1>1, IdleIsACall, HandlersKept DEF End

\* A bundle's place in the ledger: its invoice, and whether it is there at all.
SamePlace(p) == /\ purchase'[p].bill = purchase[p].bill
                /\ Made(p)' <=> Made(p)
                /\ ~Made(p) => purchase'[p] = purchase[p]

LEMMA LinksKept ==
    ASSUME TypeOK, Links, Grows, \A p \in Purchases : SamePlace(p)
    PROVE  Links'
BY DEF Links, Grows, SamePlace, Made

\* Steps that leave the invoices, the bundles and the pass alone keep all about them.
LEMMA LedgerUntouched ==
    ASSUME IInv, UNCHANGED <<bill, purchase, pass, confirmed, overtaken>>
    PROVE  /\ Grows /\ Links' /\ Payments' /\ Copies' /\ Grants'
BY DEF IInv, Grows, Known, Made, Links, Payments, Copies, Grants
-----------------------------------------------------------------------------
(* Every step keeps the invariant. *)

LEMMA IInvInit == Init => IInv
<1> SUFFICES ASSUME Init PROVE IInv
  OBVIOUS
<1>1. TypeOK
  BY IdleIsACall, TopUpAssumption DEF Init, TypeOK, Months
<1>2. Handlers
  BY DEF Init, Handlers, Sound, Idle
<1>3. Links /\ Payments
  BY DEF Init, Links, Payments, Made, NoPurchase, NoBill
<1>4. Copies /\ Grants
  BY DEF Init, Copies, Grants, Made, NoPass, NoPurchase
<1>5. QED
  BY <1>1, <1>2, <1>3, <1>4 DEF IInv

LEMMA IInvMonths ==
    ASSUME IInv, StartPeriod \/ Tick
    PROVE  IInv'
<1>1. UNCHANGED <<bill, purchase, call, pass, crashes, confirmed, overtaken, late>>
  BY DEF StartPeriod, Tick
<1>2. Grows /\ Links' /\ Payments' /\ Copies' /\ Grants'
  BY <1>1, LedgerUntouched
<1>3. call' \in [Calls -> Call] /\ Handlers'
  BY <1>1, <1>2, HandlersUntouched DEF IInv
<1>4. now' \in 1..Horizon + 1 /\ period' \in [Months -> {"none", "active", "expired"}]
  BY TopUpAssumption DEF IInv, TypeOK, StartPeriod, Tick, Months
<1>5. TypeOK'
  BY <1>1, <1>3, <1>4 DEF IInv, TypeOK
<1>6. QED
  BY <1>2, <1>3, <1>5 DEF IInv

\* A handler that begins, or takes its next step, without touching the ledger.
LEMMA IInvBegins ==
    ASSUME IInv, NEW c \in Calls, NEW k \in Call, call' = [call EXCEPT ![c] = k], Sound(k),
           UNCHANGED <<now, period, bill, purchase, pass, crashes, confirmed, overtaken, late>>
    PROVE  IInv'
<1>1. Grows /\ Links' /\ Payments' /\ Copies' /\ Grants'
  BY LedgerUntouched
<1>2. Sound(k)'
  BY DEF Sound, Known, Made
<1>3. call' \in [Calls -> Call] /\ Handlers'
  BY <1>1, <1>2, HandlersKept DEF IInv
<1>4. TypeOK'
  BY <1>3 DEF IInv, TypeOK
<1>5. QED
  BY <1>1, <1>3, <1>4 DEF IInv

LEMMA IInvRequests ==
    ASSUME IInv, NEW c \in Calls, BeginPurchase(c) \/ BeginConfirm(c)
    PROVE  IInv'
<1>1. CASE BeginPurchase(c)
  <2>1. PICK b \in Bills \cup {0} :
           /\ b # 0 => bill[b] = [status |-> "unpaid", topUp |-> TRUE, month |-> now]
           /\ Begin(c, [Idle EXCEPT !.step = "requesting", !.b = b, !.month = now])
    BY <1>1 DEF BeginPurchase
  <2> DEFINE k == [Idle EXCEPT !.step = "requesting", !.b = b, !.month = now]
  <2>2. now \in Months
    BY <1>1 DEF BeginPurchase, Operational
  <2>3. k \in Call
    <3>1. now \in 0..Horizon + 1
      BY <2>2, TopUpAssumption DEF Months
    <3>2. QED
      BY <2>1, <3>1, IdleIsACall DEF Call, Steps
  <2>4. Sound(k)
    BY <2>1, <2>2 DEF Sound, Idle, Known
  <2>5. call' = [call EXCEPT ![c] = k]
    BY <2>1 DEF Begin
  <2>6. QED
    BY <1>1, <2>3, <2>4, <2>5, IInvBegins DEF BeginPurchase
<1>2. CASE BeginConfirm(c)
  <2>1. PICK p \in Purchases :
           /\ purchase[p].status # "none"
           /\ Begin(c, [Idle EXCEPT !.step = "confirming", !.p = p, !.month = now])
    BY <1>2 DEF BeginConfirm
  <2> DEFINE k == [Idle EXCEPT !.step = "confirming", !.p = p, !.month = now]
  <2>2. k \in Call
    <3>1. now \in 0..Horizon + 1
      BY TopUpAssumption DEF IInv, TypeOK
    <3>2. QED
      BY <2>1, <3>1, IdleIsACall DEF Call, Steps
  <2>3. Sound(k)
    BY <2>1 DEF Sound, Idle, Made
  <2>4. call' = [call EXCEPT ![c] = k]
    BY <2>1 DEF Begin
  <2>5. QED
    BY <1>2, <2>2, <2>3, <2>4, IInvBegins DEF BeginConfirm
<1>3. QED
  BY <1>1, <1>2

LEMMA IInvEdits ==
    ASSUME IInv, NEW c \in Calls, Update(c) \/ Reverse(c) \/ SubmitProof(c)
    PROVE  IInv'
<1>1. \E b \in Bills, copy \in Bill : BeginEdit(c, b, copy) /\ copy.status # "absent"
  <2>1. CASE Update(c)
    <3>1. PICK b \in Bills, pays \in BOOLEAN, tag \in BOOLEAN :
             BeginEdit(c, b, Edited(bill[b], pays, tag))
      BY <2>1 DEF Update
    <3>2. bill[b] \in Bill /\ bill[b].status # "absent"
      BY <3>1 DEF BeginEdit, IInv, TypeOK
    <3>3. Edited(bill[b], pays, tag) \in Bill /\ Edited(bill[b], pays, tag).status # "absent"
      BY <3>2 DEF Edited, Bill
    <3>4. QED
      BY <3>1, <3>3
  <2>2. CASE Reverse(c)
    <3>1. PICK b \in Bills : BeginEdit(c, b, [bill[b] EXCEPT !.status = "unpaid"])
      BY <2>2 DEF Reverse
    <3>2. [bill[b] EXCEPT !.status = "unpaid"] \in Bill
      BY DEF IInv, TypeOK, Bill
    <3>3. [bill[b] EXCEPT !.status = "unpaid"].status # "absent"
      BY DEF IInv, TypeOK, Bill
    <3>4. QED
      BY <3>1, <3>2, <3>3
  <2>3. CASE SubmitProof(c)
    <3>1. PICK b \in Bills : BeginEdit(c, b, bill[b])
      BY <2>3 DEF SubmitProof
    <3>2. bill[b] \in Bill /\ bill[b].status # "absent"
      BY <3>1 DEF BeginEdit, IInv, TypeOK
    <3>3. QED
      BY <3>1, <3>2
  <2>4. QED
    BY <2>1, <2>2, <2>3
<1>2. PICK b \in Bills, copy \in Bill : BeginEdit(c, b, copy) /\ copy.status # "absent"
  BY <1>1
<1> DEFINE k == [Idle EXCEPT !.step = "saving", !.b = b, !.copy = copy]
<1>3. k \in Call
  BY IdleIsACall DEF Call, Steps
<1>4. Sound(k)
  BY <1>2 DEF Sound, Idle, BeginEdit, Known
<1>5. call' = [call EXCEPT ![c] = k]
  BY <1>2 DEF BeginEdit, Begin
<1>6. UNCHANGED <<now, period, bill, purchase, pass, crashes, confirmed, overtaken, late>>
  BY DEF Update, Reverse, SubmitProof
<1>7. QED
  BY <1>3, <1>4, <1>5, <1>6, IInvBegins

\* An invoice is made: nothing refers to it yet.
LEMMA IInvIssue ==
    ASSUME IInv, IssueBill
    PROVE  IInv'
<1>1. PICK b \in Bills, status \in {"unpaid", "paid"} :
         /\ NewBill(b)
         /\ bill' = [bill EXCEPT ![b] = [status |-> status, topUp |-> TRUE, month |-> now]]
         /\ confirmed' = IF status = "paid" THEN confirmed \cup {b} ELSE confirmed
  BY DEF IssueBill
<1>2. UNCHANGED <<now, period, purchase, call, pass, crashes, overtaken, late>>
  BY DEF IssueBill
<1>3. ~Known(b) /\ Known(b)' /\ \A d \in Bills : d # b => bill'[d] = bill[d]
  BY <1>1 DEF NewBill, NoBill, Known, IInv, TypeOK
<1>4. Grows
  BY <1>2, <1>3 DEF Grows, Known, Made
<1>5. call' \in [Calls -> Call] /\ Handlers'
  BY <1>2, <1>4, HandlersUntouched DEF IInv
<1>6. TypeOK'
  <2>1. [status |-> status, topUp |-> TRUE, month |-> now] \in Bill
    BY DEF IssueBill, Bill
  <2>2. bill' \in [Bills -> Bill] /\ confirmed' \subseteq Bills
    BY <1>1, <2>1 DEF IInv, TypeOK
  <2>3. QED
    BY <1>2, <1>5, <2>2 DEF IInv, TypeOK
<1>7. Links'
  BY <1>2, <1>4, LinksKept DEF IInv, SamePlace, Made
<1>8. Payments'
  <2>1. \A d \in Bills : bill'[d].status = "paid" => d \in confirmed'
    BY <1>1, <1>3 DEF IInv, TypeOK, Payments
  <2>2. QED
    BY <1>1, <1>2, <2>1 DEF IInv, Payments
<1>9. Copies'
  BY <1>1, <1>2 DEF IInv, Copies, Made
<1>10. Grants'
  BY <1>2, <1>3 DEF IInv, Grants, Links, Made
<1>11. QED
  BY <1>5, <1>6, <1>7, <1>8, <1>9, <1>10 DEF IInv

\* A request's transaction: the new bundle gets an invoice no other bundle has and
\* that is not paid.
LEMMA IInvPurchase ==
    ASSUME IInv, NEW c \in Calls, CommitPurchase(c)
    PROVE  IInv'
<1> DEFINE k == call[c]
<1>1. /\ End(c) /\ UNCHANGED <<now, period, pass, crashes, confirmed, overtaken>>
      /\ k.month \in Months /\ (k.b # 0 => k.b \in Bills /\ Known(k.b))
  BY DEF CommitPurchase, At, IInv, Handlers, Sound
<1>2. CASE UNCHANGED <<bill, purchase, late>>
  <2>1. Grows /\ Links' /\ Payments' /\ Copies' /\ Grants'
    BY <1>1, <1>2, LedgerUntouched
  <2>2. call' \in [Calls -> Call] /\ Handlers'
    BY <1>1, <2>1, HandlersEnding DEF IInv
  <2>3. TypeOK'
    BY <1>1, <1>2, <2>2 DEF IInv, TypeOK
  <2>4. QED
    BY <2>1, <2>2, <2>3 DEF IInv
<1>3. CASE \E p \in Purchases, b \in Bills :
             /\ NewPurchase(p)
             /\ \/ b = k.b /\ Attachable(b) /\ UNCHANGED bill
                \/ /\ NewBill(b)
                   /\ bill' = [bill EXCEPT ![b] =
                         [status |-> "unpaid", topUp |-> TRUE, month |-> k.month]]
             /\ purchase' = [purchase EXCEPT ![p] =
                   [NoPurchase EXCEPT !.status = "pending", !.bill = b, !.month = k.month]]
             /\ late' \in {late, late \cup {p}}
  <2>1. PICK p \in Purchases, b \in Bills :
             /\ NewPurchase(p)
             /\ \/ b = k.b /\ Attachable(b) /\ UNCHANGED bill
                \/ /\ NewBill(b)
                   /\ bill' = [bill EXCEPT ![b] =
                         [status |-> "unpaid", topUp |-> TRUE, month |-> k.month]]
             /\ purchase' = [purchase EXCEPT ![p] =
                   [NoPurchase EXCEPT !.status = "pending", !.bill = b, !.month = k.month]]
             /\ late' \in {late, late \cup {p}}
    BY <1>3
  <2> DEFINE row == [NoPurchase EXCEPT !.status = "pending", !.bill = b, !.month = k.month]
  <2>2. /\ row \in Purchase /\ row.status = "pending" /\ row.bill = b /\ ~row.paid
        /\ row.recorded = {}
    BY <1>1, IdleIsACall DEF Purchase, NoPurchase
  <2>3. /\ purchase'[p] = row /\ purchase[p] = NoPurchase /\ ~Made(p)
        /\ \A q \in Purchases : q # p => purchase'[q] = purchase[q]
    BY <2>1 DEF NewPurchase, NoPurchase, Made, IInv, TypeOK
  <2>4. /\ bill' \in [Bills -> Bill] /\ Known(b)'
        /\ bill'[b].status # "paid"
        /\ \A d \in Bills : d # b => bill'[d] = bill[d]
    <3>1. CASE b = k.b /\ Attachable(b) /\ UNCHANGED bill
      <4>1. b # 0 /\ bill[b].status # "paid"
        BY <3>1, TopUpAssumption DEF Attachable, Bills
      <4>2. QED
        BY <1>1, <3>1, <4>1 DEF Known, IInv, TypeOK
    <3>2. CASE bill' = [bill EXCEPT ![b] =
                  [status |-> "unpaid", topUp |-> TRUE, month |-> k.month]]
      <4>1. [status |-> "unpaid", topUp |-> TRUE, month |-> k.month] \in Bill
        BY <1>1 DEF Bill
      <4>2. QED
        BY <3>2, <4>1 DEF Known, IInv, TypeOK
    <3>3. QED
      BY <2>1, <3>1, <3>2
  <2> HIDE DEF row
  <2>5. \A q \in Purchases : Made(q) => purchase[q].bill # b
    <3>1. CASE Attachable(b)
      BY <3>1 DEF Attachable, Linked
    <3>2. CASE NewBill(b)
      BY <3>2 DEF NewBill, NoBill, Known, IInv, Links
    <3>3. QED
      BY <2>1, <3>1, <3>2
  <2>6. Grows
    BY <2>3, <2>4 DEF Grows, Known, Made
  <2>7. call' \in [Calls -> Call] /\ Handlers'
    BY <1>1, <2>6, HandlersEnding DEF IInv
  <2>8. TypeOK'
    <3>1. purchase' \in [Purchases -> Purchase] /\ late' \subseteq Purchases
      BY <2>1, <2>2 DEF IInv, TypeOK, row
    <3>2. QED
      BY <1>1, <2>4, <2>7, <3>1 DEF IInv, TypeOK
  <2>9. Links'
    <3>1. \A q \in Purchases : ~Made(q)' => purchase'[q] = NoPurchase
      BY <2>2, <2>3 DEF IInv, Links, Made
    <3>2. ASSUME NEW q \in Purchases, Made(q)'
          PROVE  purchase'[q].bill \in Bills /\ Known(purchase[q].bill)'
      <4>1. CASE q = p
        BY <2>2, <2>3, <2>4, <4>1
      <4>2. CASE q # p
        <5>1. purchase'[q] = purchase[q] /\ Made(q)
          BY <2>3, <3>2, <4>2 DEF Made
        <5>2. QED
          BY <2>6, <5>1 DEF IInv, Links, Grows, Known
      <4>3. QED
        BY <4>1, <4>2
    <3>3. ASSUME NEW q \in Purchases, NEW r \in Purchases, q # r, Made(q)', Made(r)'
          PROVE  purchase'[q].bill # purchase'[r].bill
      <4>1. \A x \in Purchases : x # p => purchase'[x] = purchase[x] /\ (Made(x)' => Made(x))
        BY <2>3 DEF Made
      <4>2. CASE q = p
        BY <2>2, <2>3, <2>5, <3>3, <4>1, <4>2
      <4>3. CASE r = p
        BY <2>2, <2>3, <2>5, <3>3, <4>1, <4>3
      <4>4. CASE q # p /\ r # p
        BY <3>3, <4>1, <4>4 DEF IInv, Links
      <4>5. QED
        BY <4>2, <4>3, <4>4
    <3>4. QED
      BY <3>1, <3>2, <3>3 DEF Links
  <2>10. Payments'
    BY <1>1, <2>2, <2>3, <2>4 DEF IInv, Payments
  <2>11. Copies'
    BY <1>1, <2>2, <2>3 DEF IInv, Copies, Made
  <2>12. Grants'
    <3> SUFFICES ASSUME NEW q \in Purchases, q \notin overtaken'
                 PROVE  /\ purchase'[q].recorded # {} => purchase'[q].paid
                        /\ (Made(q)' /\ bill'[purchase'[q].bill].status = "paid"
                               /\ bill'[purchase'[q].bill].topUp) => purchase'[q].paid
      BY DEF Grants
    <3>1. CASE q = p
      BY <2>2, <2>3, <2>4, <3>1
    <3>2. CASE q # p
      <4>1. purchase'[q] = purchase[q] /\ (Made(q)' => Made(q)) /\ q \notin overtaken
        BY <1>1, <2>3, <3>2 DEF Made
      <4>2. Made(q) => bill'[purchase[q].bill] = bill[purchase[q].bill]
        BY <2>4, <2>5 DEF IInv, Links
      <4>3. QED
        BY <4>1, <4>2 DEF IInv, Grants
    <3>3. QED
      BY <3>1, <3>2
  <2>13. QED
    BY <2>7, <2>8, <2>9, <2>10, <2>11, <2>12 DEF IInv
<1>4. QED
  BY <1>2, <1>3 DEF CommitPurchase, Attachable

\* Saving an invoice that is not paid, or opening the transaction of one that is.
LEMMA IInvSave ==
    ASSUME IInv, NEW c \in Calls, SaveBill(c)
    PROVE  IInv'
<1> DEFINE k == call[c]
<1>1. /\ UNCHANGED <<now, period, purchase, pass, crashes, confirmed, overtaken, late>>
      /\ k \in Call /\ k.b \in Bills /\ k.copy.status # "absent" /\ Known(k.b)
      /\ k.copy \in Bill /\ k.step = "saving"
  BY DEF SaveBill, At, IInv, TypeOK, Handlers, Sound, Call
<1>2. CASE k.copy.status = "paid"
  <2>1. /\ call' = [call EXCEPT ![c] = [k EXCEPT !.step = "granting", !.month = now]]
        /\ UNCHANGED bill
    BY <1>2 DEF SaveBill, IInv, TypeOK
  <2> DEFINE open == [k EXCEPT !.step = "granting", !.month = now]
  <2>2. open \in Call
    <3>1. now \in 0..Horizon + 1
      BY TopUpAssumption DEF IInv, TypeOK
    <3>2. QED
      BY <1>1, <3>1 DEF Call, Steps
  <2>3. Sound(open)
    BY <1>1, <1>2 DEF Sound, Call
  <2>4. QED
    BY <1>1, <2>1, <2>2, <2>3, IInvBegins
<1>3. CASE k.copy.status # "paid"
  <2>1. bill' = [bill EXCEPT ![k.b] = k.copy] /\ End(c)
    BY <1>3 DEF SaveBill
  <2>2. /\ bill' \in [Bills -> Bill] /\ bill'[k.b] = k.copy
        /\ \A d \in Bills : d # k.b => bill'[d] = bill[d]
    BY <1>1, <2>1 DEF IInv, TypeOK
  <2>3. Grows
    BY <1>1, <2>2 DEF Grows, Known, Made
  <2>4. call' \in [Calls -> Call] /\ Handlers'
    BY <2>1, <2>3, HandlersEnding DEF IInv
  <2>5. TypeOK'
    BY <1>1, <2>2, <2>4 DEF IInv, TypeOK
  <2>6. Links'
    BY <1>1, <2>3, LinksKept DEF IInv, SamePlace, Made
  <2>7. Payments' /\ Copies'
    BY <1>1, <1>3, <2>2 DEF IInv, Payments, Copies, Made
  <2>8. Grants'
    BY <1>1, <1>3, <2>2 DEF IInv, Grants, Links, Made
  <2>9. QED
    BY <2>4, <2>5, <2>6, <2>7, <2>8 DEF IInv
<1>4. QED
  BY <1>2, <1>3

\* A granted bundle stays in its place, is paid and has a record.
LEMMA Granting ==
    ASSUME NEW q \in Purchase, NEW key \in {"bill", "own"}
    PROVE  /\ Granted(q, key) \in Purchase
           /\ Granted(q, key).bill = q.bill
           /\ Granted(q, key).paid /\ Granted(q, key).status = "active"
<1>1. q.recorded \cup {key} \in SUBSET {"bill", "own"}
  BY DEF Purchase
<1>2. QED
  BY <1>1 DEF Granted, Purchase

\* Granting some of the bundles that pend keeps what does not depend on the invoices.
LEMMA GrantsKept ==
    ASSUME IInv, NEW key \in {"bill", "own"}, NEW S \in SUBSET Purchases,
           \A p \in S : purchase[p].status = "pending" /\ purchase[p].bill \in confirmed',
           purchase' = [p \in Purchases |->
               IF p \in S THEN Granted(purchase[p], key) ELSE purchase[p]],
           confirmed \subseteq confirmed', UNCHANGED pass,
           \A b \in Bills : Known(b) => Known(b)'
    PROVE  /\ purchase' \in [Purchases -> Purchase]
           /\ Grows /\ Links' /\ Copies'
           /\ \A p \in Purchases : SamePlace(p) /\ (purchase'[p].paid => purchase'[p].bill \in confirmed')
           /\ \A p \in S : purchase'[p].paid
           /\ \A p \in Purchases \ S : purchase'[p] = purchase[p]
<1>1. ASSUME NEW p \in Purchases
      PROVE  /\ purchase'[p] \in Purchase
             /\ SamePlace(p) /\ (purchase'[p].paid => purchase'[p].bill \in confirmed')
  <2>0. purchase[p] \in Purchase
    BY DEF IInv, TypeOK
  <2>1. CASE p \in S
    <3>1. purchase'[p] = Granted(purchase[p], key)
      BY <2>1
    <3>2. QED
      BY <2>0, <2>1, <3>1, Granting DEF SamePlace, Made
  <2>2. CASE p \notin S
    BY <2>0, <2>2 DEF SamePlace, Made, IInv, Payments
  <2>3. QED
    BY <2>1, <2>2
<1>2. purchase' \in [Purchases -> Purchase]
  BY <1>1
<1>3. Grows
  BY <1>1 DEF Grows, SamePlace
<1>4. Links'
  BY <1>1, <1>3, LinksKept DEF IInv
<1>5. Copies'
  BY <1>1 DEF IInv, Copies, SamePlace
<1>6. \A p \in S : purchase'[p].paid
  <2> SUFFICES ASSUME NEW p \in S PROVE purchase'[p].paid
    OBVIOUS
  <2>1. purchase[p] \in Purchase /\ purchase'[p] = Granted(purchase[p], key)
    BY DEF IInv, TypeOK
  <2>2. QED
    BY <2>1, Granting
<1>7. QED
  BY <1>1, <1>2, <1>3, <1>4, <1>5, <1>6

\* A payment's commit: the invoice says paid, and so does its bundle.
LEMMA IInvPayment ==
    ASSUME IInv, NEW c \in Calls, CommitPayment(c)
    PROVE  IInv'
<1> DEFINE k == call[c]
           waiting == {p \in Linked(k.b) : k.copy.topUp /\ ~Settled(purchase[p])}
<1>1. /\ End(c) /\ UNCHANGED <<now, period, pass, crashes, overtaken, late>>
      /\ k.b \in Bills /\ k.copy \in Bill /\ k.copy.status = "paid" /\ Known(k.b)
  BY DEF CommitPayment, At, IInv, TypeOK, Handlers, Sound, Call
<1>2. CASE UNCHANGED <<bill, confirmed, purchase>>
  <2>1. Grows /\ Links' /\ Payments' /\ Copies' /\ Grants'
    BY <1>1, <1>2, LedgerUntouched
  <2>2. call' \in [Calls -> Call] /\ Handlers'
    BY <1>1, <2>1, HandlersEnding DEF IInv
  <2>3. TypeOK'
    BY <1>1, <1>2, <2>2 DEF IInv, TypeOK
  <2>4. QED
    BY <2>1, <2>2, <2>3 DEF IInv
<1>3. CASE /\ \A p \in waiting : Grantable(purchase[p], k.month, "paid")
           /\ bill' = [bill EXCEPT ![k.b] = k.copy]
           /\ confirmed' = confirmed \cup {k.b}
           /\ purchase' = [p \in Purchases |->
                 IF p \in waiting THEN Granted(purchase[p], "bill") ELSE purchase[p]]
  <2>1. waiting \in SUBSET Purchases
    BY DEF Linked
  <2>2. \A p \in waiting : purchase[p].status = "pending" /\ purchase[p].bill = k.b
    BY <1>3 DEF Grantable, Linked
  <2>3. /\ bill' \in [Bills -> Bill] /\ bill'[k.b] = k.copy
        /\ \A d \in Bills : d # k.b => bill'[d] = bill[d]
    BY <1>1, <1>3 DEF IInv, TypeOK
  <2>4. \A b \in Bills : Known(b) => Known(b)'
    BY <1>1, <2>3 DEF Known
  <2> HIDE DEF waiting
  <2>5. /\ purchase' \in [Purchases -> Purchase]
        /\ Grows /\ Links' /\ Copies'
        /\ \A p \in Purchases : SamePlace(p) /\ (purchase'[p].paid => purchase'[p].bill \in confirmed')
        /\ \A p \in waiting : purchase'[p].paid
        /\ \A p \in Purchases \ waiting : purchase'[p] = purchase[p]
    BY <1>1, <1>3, <2>1, <2>2, <2>4, GrantsKept
  <2>6. call' \in [Calls -> Call] /\ Handlers'
    BY <1>1, <2>5, HandlersEnding DEF IInv
  <2>7. TypeOK'
    BY <1>1, <1>3, <2>3, <2>5, <2>6 DEF IInv, TypeOK
  <2>8. Payments'
    <3>1. \A b \in Bills : bill'[b].status = "paid" => b \in confirmed'
      BY <1>3, <2>3 DEF IInv, Payments
    <3>2. QED
      BY <2>5, <3>1 DEF Payments
  <2>9. Grants'
    <3> SUFFICES ASSUME NEW p \in Purchases, p \notin overtaken'
                 PROVE  /\ purchase'[p].recorded # {} => purchase'[p].paid
                        /\ (Made(p)' /\ bill'[purchase'[p].bill].status = "paid"
                               /\ bill'[purchase'[p].bill].topUp) => purchase'[p].paid
      BY DEF Grants
    <3>1. CASE p \in waiting
      BY <2>5, <3>1
    <3>2. CASE p \notin waiting
      <4>1. purchase'[p] = purchase[p] /\ p \notin overtaken /\ (Made(p)' => Made(p))
        BY <1>1, <2>5, <3>2 DEF SamePlace
      <4>2. CASE purchase[p].bill = k.b /\ k.copy.topUp
        <5>1. Settled(purchase[p])
          BY <3>2, <4>2 DEF waiting, Linked
        <5>2. purchase[p].paid
          BY <4>1, <5>1 DEF Settled, IInv, Grants
        <5>3. QED
          BY <4>1, <5>2
      <4>3. CASE purchase[p].bill = k.b /\ ~k.copy.topUp
        BY <2>3, <4>1, <4>3 DEF IInv, Grants
      <4>4. CASE purchase[p].bill # k.b
        BY <2>3, <4>1, <4>4 DEF IInv, Grants, Links
      <4>5. QED
        BY <4>2, <4>3, <4>4
    <3>3. QED
      BY <3>1, <3>2
  <2>10. QED
    BY <2>5, <2>6, <2>7, <2>8, <2>9 DEF IInv
<1>4. QED
  BY <1>2, <1>3 DEF CommitPayment

\* The operator's confirmation grants only on an invoice that says paid.
LEMMA IInvConfirm ==
    ASSUME IInv, NEW c \in Calls, CommitConfirm(c)
    PROVE  IInv'
<1> DEFINE k == call[c]
<1>1. /\ End(c) /\ UNCHANGED <<now, period, bill, pass, crashes, confirmed, overtaken, late>>
      /\ k.p \in Purchases /\ Made(k.p)
  BY DEF CommitConfirm, At, IInv, Handlers, Sound
<1>2. CASE UNCHANGED purchase
  <2>1. Grows /\ Links' /\ Payments' /\ Copies' /\ Grants'
    BY <1>1, <1>2, LedgerUntouched
  <2>2. call' \in [Calls -> Call] /\ Handlers'
    BY <1>1, <2>1, HandlersEnding DEF IInv
  <2>3. TypeOK'
    BY <1>1, <1>2, <2>2 DEF IInv, TypeOK
  <2>4. QED
    BY <2>1, <2>2, <2>3 DEF IInv
<1>3. CASE /\ Grantable(purchase[k.p], k.month, bill[purchase[k.p].bill].status)
           /\ purchase' = [purchase EXCEPT ![k.p] = Granted(purchase[k.p], "own")]
  <2>1. /\ purchase[k.p].status = "pending"
        /\ bill[purchase[k.p].bill].status = "paid" /\ purchase[k.p].bill \in Bills
    BY <1>1, <1>3 DEF Grantable, IInv, Links
  <2>2. purchase[k.p].bill \in confirmed'
    BY <1>1, <2>1 DEF IInv, Payments
  <2> DEFINE S == {k.p}
  <2>3. purchase' = [p \in Purchases |->
           IF p \in S THEN Granted(purchase[p], "own") ELSE purchase[p]]
    BY <1>1, <1>3 DEF IInv, TypeOK
  <2>4. /\ S \in SUBSET Purchases /\ k.p \in S
        /\ \A p \in S : purchase[p].status = "pending" /\ purchase[p].bill \in confirmed'
    BY <1>1, <2>1, <2>2
  <2>5. (\A b \in Bills : Known(b) => Known(b)') /\ confirmed \subseteq confirmed'
    BY <1>1 DEF Known
  <2> HIDE DEF S
  <2>6. /\ purchase' \in [Purchases -> Purchase]
        /\ Grows /\ Links' /\ Copies'
        /\ \A p \in Purchases : SamePlace(p) /\ (purchase'[p].paid => purchase'[p].bill \in confirmed')
        /\ \A p \in S : purchase'[p].paid
        /\ \A p \in Purchases \ S : purchase'[p] = purchase[p]
    BY <1>1, <2>3, <2>4, <2>5, GrantsKept
  <2>7. call' \in [Calls -> Call] /\ Handlers'
    BY <1>1, <2>6, HandlersEnding DEF IInv
  <2>8. TypeOK'
    BY <1>1, <2>6, <2>7 DEF IInv, TypeOK
  <2>9. Payments'
    BY <1>1, <2>6 DEF IInv, Payments
  <2>10. Grants'
    BY <1>1, <2>6 DEF IInv, Grants, SamePlace, Made
  <2>11. QED
    BY <2>6, <2>7, <2>8, <2>9, <2>10 DEF IInv
<1>4. QED
  BY <1>2, <1>3 DEF CommitConfirm

\* A cancellation changes a status that is neither absent nor paid.
LEMMA IInvCancel ==
    ASSUME IInv, NEW p \in Purchases, Cancel(p)
    PROVE  IInv'
<1>1. UNCHANGED <<now, period, bill, call, pass, crashes, confirmed, overtaken, late>>
  BY DEF Cancel
<1>2. /\ Made(p)
      /\ purchase' = [purchase EXCEPT ![p] = [purchase[p] EXCEPT !.status = "cancelled"]]
  BY DEF Cancel, Cancellable, Made, IInv, TypeOK
<1>3. [purchase[p] EXCEPT !.status = "cancelled"] \in Purchase
  BY DEF Purchase, IInv, TypeOK
<1>4. ASSUME NEW q \in Purchases
      PROVE  /\ purchase'[q] \in Purchase /\ SamePlace(q)
             /\ purchase'[q].paid = purchase[q].paid
             /\ purchase'[q].recorded = purchase[q].recorded
  <2>1. CASE q = p
    BY <1>2, <1>3, <2>1 DEF IInv, TypeOK, SamePlace, Made, Purchase
  <2>2. CASE q # p
    BY <1>2, <2>2 DEF IInv, TypeOK, SamePlace, Made
  <2>3. QED
    BY <2>1, <2>2
<1>5. Grows
  BY <1>1, <1>4 DEF Grows, SamePlace, Known
<1>6. Links'
  BY <1>4, <1>5, LinksKept DEF IInv
<1>7. call' \in [Calls -> Call] /\ Handlers'
  BY <1>1, <1>5, HandlersUntouched DEF IInv
<1>8. TypeOK'
  <2>1. purchase' \in [Purchases -> Purchase]
    BY <1>2, <1>3 DEF IInv, TypeOK
  <2>2. QED
    BY <1>1, <1>7, <2>1 DEF IInv, TypeOK
<1>9. Payments'
  BY <1>1, <1>4 DEF IInv, Payments, SamePlace
<1>10. Copies'
  BY <1>1, <1>4 DEF IInv, Copies, SamePlace
<1>11. Grants'
  BY <1>1, <1>4 DEF IInv, Grants, SamePlace
<1>12. QED
  BY <1>6, <1>7, <1>8, <1>9, <1>10, <1>11 DEF IInv

LEMMA IInvPassStart ==
    ASSUME IInv, PassStart
    PROVE  IInv'
<1>1. UNCHANGED <<now, period, bill, purchase, call, crashes, confirmed, overtaken, late>>
  BY DEF PassStart
<1>2. PICK m \in Months :
         pass' = [month |-> m, copies |-> [p \in Purchases |->
              IF purchase[p].month = m /\ Open(p) THEN purchase[p] ELSE NoPurchase]]
  BY DEF PassStart
<1>3. pass' \in Pass
  BY <1>2, IdleIsACall DEF Pass, IInv, TypeOK
<1>4. Grows
  BY <1>1 DEF Grows, Known, Made
<1>5. call' \in [Calls -> Call] /\ Handlers'
  BY <1>1, <1>4, HandlersUntouched DEF IInv
<1>6. Copies'
  <2> SUFFICES ASSUME NEW p \in Purchases, pass'.copies[p] # NoPurchase
               PROVE  /\ pass'.copies[p].status \in {"pending", "active"}
                      /\ Made(p)' /\ pass'.copies[p].bill = purchase'[p].bill
                      /\ pass'.copies[p].paid => pass'.copies[p].bill \in confirmed'
    BY DEF Copies
  <2>1. pass'.copies[p] = purchase[p] /\ Open(p)
    BY <1>2
  <2>2. QED
    BY <1>1, <2>1 DEF Open, Made, IInv, Payments
<1>7. TypeOK' /\ Links' /\ Payments' /\ Grants'
  BY <1>1, <1>3, <1>5 DEF IInv, TypeOK, Links, Payments, Grants, Made, Known
<1>8. QED
  BY <1>5, <1>6, <1>7 DEF IInv

\* What a pass's commit does to each bundle.
LEMMA Lapsing ==
    ASSUME IInv, PassCommit, NEW p \in Purchases
    PROVE  /\ purchase'[p] \in Purchase
           /\ SamePlace(p)
           /\ purchase'[p].recorded = purchase[p].recorded
           /\ purchase'[p].paid => purchase'[p].bill \in confirmed
           /\ p \notin overtaken' =>
                 /\ purchase'[p].paid = purchase[p].paid
                 /\ \/ purchase'[p] = purchase[p]
                    \/ purchase[p].status \in {"pending", "active"}
<1> DEFINE loaded == {q \in Purchases : pass.copies[q] # NoPurchase}
           changed == {q \in loaded : purchase[q] # pass.copies[q]}
<1>1. PICK kept \in SUBSET changed :
         purchase' = [q \in Purchases |->
            IF q \in loaded
            THEN Lapsed(purchase[q], IF q \in kept THEN purchase[q].paid ELSE pass.copies[q].paid)
            ELSE purchase[q]]
  BY DEF PassCommit
<1>2. overtaken' = overtaken \cup changed
  BY DEF PassCommit
<1>3. purchase[p] \in Purchase /\ pass.copies[p] \in Purchase
  BY DEF IInv, TypeOK, Pass
<1>4. CASE p \notin loaded
  BY <1>1, <1>3, <1>4 DEF SamePlace, Made, IInv, Payments
<1>5. CASE p \in loaded
  <2>1. PICK paid \in {purchase[p].paid, pass.copies[p].paid} :
            /\ purchase'[p] = Lapsed(purchase[p], paid)
            /\ p \notin changed => paid = purchase[p].paid
    BY <1>1, <1>5
  <2>2. paid \in BOOLEAN
    BY <1>3 DEF Purchase
  <2>3. /\ purchase'[p] \in Purchase /\ purchase'[p].bill = purchase[p].bill
        /\ purchase'[p].paid = paid /\ purchase'[p].status = "expired"
        /\ purchase'[p].recorded = purchase[p].recorded
    BY <1>3, <2>1, <2>2 DEF Lapsed, Purchase
  <2>4. /\ Made(p) /\ pass.copies[p].bill = purchase[p].bill
        /\ pass.copies[p].status \in {"pending", "active"}
        /\ pass.copies[p].paid => pass.copies[p].bill \in confirmed
    BY <1>5 DEF IInv, Copies
  <2>5. SamePlace(p)
    BY <2>3, <2>4 DEF SamePlace, Made
  <2>6. purchase'[p].paid => purchase'[p].bill \in confirmed
    BY <2>1, <2>3, <2>4 DEF IInv, Payments
  <2>7. p \notin overtaken' => purchase[p] = pass.copies[p] /\ p \notin changed
    BY <1>2, <1>5
  <2>8. QED
    BY <2>1, <2>3, <2>4, <2>5, <2>6, <2>7
<1>6. QED
  BY <1>4, <1>5

LEMMA IInvPassCommit ==
    ASSUME IInv, PassCommit
    PROVE  IInv'
<1>1. /\ UNCHANGED <<now, bill, call, crashes, confirmed, late>> /\ pass' = NoPass
      /\ period' = [period EXCEPT ![pass.month] = "expired"]
      /\ overtaken \subseteq overtaken'
  BY DEF PassCommit
<1>2. overtaken' \subseteq Purchases
  BY DEF PassCommit, IInv, TypeOK
<1>3. Grows
  BY <1>1, Lapsing DEF Grows, SamePlace, Known
<1>4. Links'
  BY <1>3, Lapsing, LinksKept DEF IInv
<1>5. call' \in [Calls -> Call] /\ Handlers'
  BY <1>1, <1>3, HandlersUntouched DEF IInv
<1>6. TypeOK'
  <2>1. \E f : purchase' = [q \in Purchases |-> f[q]]
    <3>1. purchase' = [q \in Purchases |-> purchase'[q]]
      BY DEF PassCommit
    <3>2. QED
      BY <3>1
  <2>2. purchase' \in [Purchases -> Purchase]
    BY <2>1, Lapsing
  <2>3. period' \in [Months -> {"none", "active", "expired"}]
    BY <1>1 DEF IInv, TypeOK
  <2>4. QED
    BY <1>1, <1>2, <1>5, <2>2, <2>3, IdleIsACall DEF IInv, TypeOK
<1>7. Payments'
  BY <1>1, Lapsing DEF IInv, Payments
<1>8. Copies'
  BY <1>1 DEF Copies, NoPass
<1>9. Grants'
  <2> SUFFICES ASSUME NEW p \in Purchases, p \notin overtaken'
               PROVE  /\ purchase'[p].recorded # {} => purchase'[p].paid
                      /\ (Made(p)' /\ bill'[purchase'[p].bill].status = "paid"
                             /\ bill'[purchase'[p].bill].topUp) => purchase'[p].paid
    BY DEF Grants
  <2>1. /\ p \notin overtaken /\ SamePlace(p)
        /\ purchase'[p].paid = purchase[p].paid /\ purchase'[p].recorded = purchase[p].recorded
    BY <1>1, Lapsing
  <2>2. QED
    BY <1>1, <2>1 DEF IInv, Grants, SamePlace
<1>10. QED
  BY <1>4, <1>5, <1>6, <1>7, <1>8, <1>9 DEF IInv

LEMMA IInvCutOff ==
    ASSUME IInv, CutOff
    PROVE  IInv'
<1>1. /\ UNCHANGED <<now, period, bill, purchase, confirmed, overtaken, late>>
      /\ crashes' \in 0..MaxCrashes
  BY TopUpAssumption DEF CutOff, IInv, TypeOK
<1>2. Grows
  BY <1>1 DEF Grows, Known, Made
<1>3. pass' \in {pass, NoPass}
  BY DEF CutOff
<1>4. call' \in [Calls -> Call] /\ Handlers'
  <2>1. CASE UNCHANGED call
    BY <1>2, <2>1, HandlersUntouched DEF IInv
  <2>2. CASE \E c \in Calls : End(c)
    BY <1>2, <2>2, HandlersEnding DEF IInv
  <2>3. QED
    BY <2>1, <2>2 DEF CutOff
<1>5. pass' \in Pass
  BY <1>3, IdleIsACall DEF IInv, TypeOK
<1>6. Copies'
  <2>1. CASE pass' = pass
    BY <1>1, <2>1 DEF IInv, Copies, Made
  <2>2. CASE pass' = NoPass
    BY <2>2 DEF Copies, NoPass
  <2>3. QED
    BY <1>3, <2>1, <2>2
<1>7. TypeOK' /\ Links' /\ Payments' /\ Grants'
  BY <1>1, <1>4, <1>5 DEF IInv, TypeOK, Links, Payments, Grants, Made, Known
<1>8. QED
  BY <1>4, <1>6, <1>7 DEF IInv

LEMMA IInvNext == IInv /\ [Next]_vars => IInv'
<1> SUFFICES ASSUME IInv, [Next]_vars PROVE IInv'
  OBVIOUS
<1>1. CASE StartPeriod \/ Tick
  BY <1>1, IInvMonths
<1>2. CASE IssueBill
  BY <1>2, IInvIssue
<1>3. CASE PassStart
  BY <1>3, IInvPassStart
<1>4. CASE PassCommit
  BY <1>4, IInvPassCommit
<1>5. CASE CutOff
  BY <1>5, IInvCutOff
<1>6. ASSUME NEW c \in Calls, BeginPurchase(c) \/ BeginConfirm(c) PROVE IInv'
  BY <1>6, IInvRequests
<1>7. ASSUME NEW c \in Calls, SubmitProof(c) \/ Update(c) \/ Reverse(c) PROVE IInv'
  BY <1>7, IInvEdits
<1>8. ASSUME NEW c \in Calls, CommitPurchase(c) \/ SaveBill(c) \/ CommitPayment(c) \/ CommitConfirm(c)
      PROVE  IInv'
  BY <1>8, IInvPurchase, IInvSave, IInvPayment, IInvConfirm
<1>9. ASSUME NEW p \in Purchases, Cancel(p) PROVE IInv'
  BY <1>9, IInvCancel
<1>10. CASE UNCHANGED vars
  <2>1. UNCHANGED <<now, period, bill, purchase, call, pass, crashes, confirmed, overtaken, late>>
    BY <1>10 DEF vars
  <2>2. Grows /\ Links' /\ Payments' /\ Copies' /\ Grants'
    BY <2>1, LedgerUntouched
  <2>3. call' \in [Calls -> Call] /\ Handlers'
    BY <2>1, <2>2, HandlersUntouched DEF IInv
  <2>4. TypeOK'
    BY <2>1 DEF IInv, TypeOK
  <2>5. QED
    BY <2>2, <2>3, <2>4 DEF IInv
<1>11. QED
  BY <1>1, <1>2, <1>3, <1>4, <1>5, <1>6, <1>7, <1>8, <1>9, <1>10 DEF Next

LEMMA IInvHolds == Spec => []IInv
<1>1. QED
  BY IInvInit, IInvNext, PTL DEF Spec
-----------------------------------------------------------------------------
(* What follows. *)

\* The variables keep their types.
THEOREM TypeCorrect == Spec => []TypeOK
<1>1. IInv => TypeOK
  BY DEF IInv
<1>2. QED
  BY <1>1, IInvHolds, PTL

\* Whatever handlers, passes and cut-offs overlap, a bundle that counts towards the
\* limits hangs on an invoice that was confirmed and that pays for nothing else.
THEOREM EveryGrantIsPaidFor == Spec => []GrantIsPaidFor
<1>1. IInv => GrantIsPaidFor
  <2> SUFFICES ASSUME IInv, NEW p \in Purchases, Counted(p)
               PROVE  /\ purchase[p].bill \in confirmed
                      /\ Linked(purchase[p].bill) = {p}
    BY DEF GrantIsPaidFor
  <2>1. Made(p) /\ purchase[p].paid
    BY DEF Counted, Made
  <2>2. purchase[p].bill \in confirmed /\ purchase[p].bill \in Bills
    BY <2>1 DEF IInv, Payments, Links
  <2>3. ASSUME NEW q \in Purchases, purchase[q].bill = purchase[p].bill PROVE q = p
    <3>1. purchase[q].bill # 0
      BY <2>2, <2>3, TopUpAssumption DEF Bills
    <3>2. Made(q)
      BY <3>1 DEF IInv, Links, NoPurchase
    <3>3. QED
      BY <2>1, <2>3, <3>2 DEF IInv, Links
  <2>4. QED
    BY <2>2, <2>3 DEF Linked
<1>2. QED
  BY <1>1, IInvHolds, PTL

\* A top-up invoice that stands as paid has granted its bundle, except where a pass
\* of the scheduler saved a copy of the bundle from before the confirmation.
THEOREM EveryPaymentIsGranted == Spec => []PaidIsGranted
<1>1. IInv => PaidIsGranted
  BY DEF IInv, Grants, PaidIsGranted, Made
<1>2. QED
  BY <1>1, IInvHolds, PTL

\* No step revives a bundle that was cancelled or has lapsed, and none takes back a
\* payment, except a pass saving a bundle that changed since it loaded it.
THEOREM EndIsFinal == Spec => EndedStaysEnded
<1> DEFINE Stays(p) ==
        p \notin overtaken' =>
        /\ purchase[p].status \in {"cancelled", "expired"} =>
               purchase'[p].status = purchase[p].status /\ purchase'[p].paid = purchase[p].paid
        /\ purchase[p].paid => purchase'[p].paid
<1>1. ASSUME IInv, [Next]_vars, NEW p \in Purchases PROVE Stays(p)
  <2>1. CASE UNCHANGED purchase
    BY <2>1
  <2>2. CASE PassCommit
    BY <1>1, <2>2, Lapsing
  <2>3. ASSUME NEW c \in Calls, CommitPurchase(c) PROVE Stays(p)
    <3>1. CASE UNCHANGED purchase
      BY <3>1
    <3>2. CASE \E q \in Purchases : \E row :
               NewPurchase(q) /\ purchase' = [purchase EXCEPT ![q] = row]
      <4>1. PICK q \in Purchases :
               NewPurchase(q) /\ \E row : purchase' = [purchase EXCEPT ![q] = row]
        BY <3>2
      <4>2. CASE q = p
        BY <4>1, <4>2 DEF NewPurchase, NoPurchase
      <4>3. CASE q # p
        BY <1>1, <4>1, <4>3 DEF IInv, TypeOK
      <4>4. QED
        BY <4>2, <4>3
    <3>3. QED
      BY <2>3, <3>1, <3>2 DEF CommitPurchase
  <2>4. ASSUME NEW key \in {"bill", "own"}, NEW S \in SUBSET Purchases,
               \A q \in S : purchase[q].status = "pending",
               purchase' = [q \in Purchases |->
                   IF q \in S THEN Granted(purchase[q], key) ELSE purchase[q]]
        PROVE  Stays(p)
    <3>1. purchase[p] \in Purchase
      BY <1>1 DEF IInv, TypeOK
    <3>2. CASE p \in S
      <4>1. purchase'[p] = Granted(purchase[p], key) /\ purchase[p].status = "pending"
        BY <2>4, <3>2
      <4>2. QED
        BY <3>1, <4>1, Granting
    <3>3. CASE p \notin S
      BY <2>4, <3>3
    <3>4. QED
      BY <3>2, <3>3
  <2>5. ASSUME NEW c \in Calls, CommitPayment(c) PROVE Stays(p)
    <3> DEFINE S == {q \in Linked(call[c].b) : call[c].copy.topUp /\ ~Settled(purchase[q])}
    <3>1. CASE UNCHANGED purchase
      BY <3>1
    <3>2. CASE /\ \A q \in S : Grantable(purchase[q], call[c].month, "paid")
               /\ purchase' = [q \in Purchases |->
                     IF q \in S THEN Granted(purchase[q], "bill") ELSE purchase[q]]
      <4>1. S \in SUBSET Purchases /\ \A q \in S : purchase[q].status = "pending"
        BY <3>2 DEF Linked, Grantable
      <4> HIDE DEF S
      <4>2. QED
        BY <2>4, <3>2, <4>1
    <3>3. QED
      BY <2>5, <3>1, <3>2 DEF CommitPayment
  <2>6. ASSUME NEW c \in Calls, CommitConfirm(c) PROVE Stays(p)
    <3> DEFINE q == call[c].p
    <3>1. CASE UNCHANGED purchase
      BY <3>1
    <3>2. CASE /\ purchase[q].status = "pending" /\ q \in Purchases
               /\ purchase' = [purchase EXCEPT ![q] = Granted(purchase[q], "own")]
      <4>1. purchase' = [r \in Purchases |->
               IF r \in {q} THEN Granted(purchase[r], "own") ELSE purchase[r]]
        BY <1>1, <3>2 DEF IInv, TypeOK
      <4>2. {q} \in SUBSET Purchases /\ \A r \in {q} : purchase[r].status = "pending"
        BY <3>2
      <4>3. QED
        BY <2>4, <4>1, <4>2
    <3>3. q \in Purchases
      BY <1>1, <2>6 DEF CommitConfirm, At, IInv, Handlers, Sound
    <3>4. QED
      BY <2>6, <3>1, <3>2, <3>3 DEF CommitConfirm, Grantable
  <2>7. ASSUME NEW q \in Purchases, Cancel(q) PROVE Stays(p)
    <3>1. /\ purchase[q].status = "pending" /\ ~purchase[q].paid
          /\ purchase' = [purchase EXCEPT ![q].status = "cancelled"]
      BY <2>7 DEF Cancel, Cancellable
    <3>2. QED
      BY <1>1, <3>1 DEF IInv, TypeOK
  <2>8. QED
    BY <1>1, <2>1, <2>2, <2>3, <2>5, <2>6, <2>7
       DEF Next, vars, StartPeriod, Tick, IssueBill, PassStart, CutOff, BeginPurchase,
           SubmitProof, Update, Reverse, SaveBill, BeginConfirm
<1>2. IInv /\ [Next]_vars => [\A p \in Purchases : Stays(p)]_vars
  BY <1>1
<1>3. Spec => [][\A p \in Purchases : Stays(p)]_vars
  BY <1>2, IInvHolds, PTL DEF Spec
<1>4. QED
  BY <1>3 DEF EndedStaysEnded
=============================================================================
