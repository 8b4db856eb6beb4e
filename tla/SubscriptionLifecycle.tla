----------------------- MODULE SubscriptionLifecycle -----------------------
(***************************************************************************)
(* What the period ledger promises about a tenant's paid periods, whoever  *)
(* acts: a period is bought once, with a window that never changes; its    *)
(* status follows PERIOD_STATUS_TRANSITIONS and the clock (it starts no    *)
(* earlier than its window and ends no earlier than its window's end);     *)
(* approval is given before the window ends and never taken back; at most  *)
(* one paid period is active.                                              *)
(*                                                                         *)
(* Requests, invoices, calls in flight, scheduler passes, the trial and    *)
(* the entitlement row are not in it.                                      *)
(***************************************************************************)
EXTENDS Naturals

CONSTANT Periods

VARIABLES now, status, approved, window

vars == <<now, status, approved, window>>

Transitions ==
    {<<"upcoming", "active">>, <<"upcoming", "cancelled">>,
     <<"upcoming", "expired">>, <<"active", "expired">>, <<"active", "cancelled">>}

Window == [start : Nat, end : Nat]

\* A status a window allows at this tick.
Timely(s, w) ==
    /\ s = "active" => w.start <= now
    /\ s = "expired" => w.end <= now

OneActive(st) ==
    \A p, q \in Periods : st[p] = "active" /\ st[q] = "active" => p = q

Buy(p) ==
    /\ status[p] = "absent"
    /\ \E s \in {"upcoming", "active", "expired"}, a \in BOOLEAN :
          /\ window'[p] \in Window
          /\ window' = [window EXCEPT ![p] = window'[p]]
          /\ Timely(s, window'[p])
          /\ status' = [status EXCEPT ![p] = s]
          /\ approved' = [approved EXCEPT ![p] = a]
    /\ OneActive(status')
    /\ UNCHANGED now

May(p, s) == <<status[p], s>> \in Transitions /\ Timely(s, window[p])

Move(p) ==
    /\ \E s \in {"active", "expired", "cancelled"} :
          /\ May(p, s)
          /\ status' = [status EXCEPT ![p] = s]
    /\ OneActive(status')
    /\ UNCHANGED <<now, approved, window>>

\* One transaction ends a period and starts its successor.
HandOver(p, q) ==
    /\ May(p, "expired")
    /\ May(q, "active")
    /\ approved[q]
    /\ status' = [status EXCEPT ![p] = "expired", ![q] = "active"]
    /\ OneActive(status')
    /\ UNCHANGED <<now, approved, window>>

Approve(p) ==
    /\ status[p] \in {"upcoming", "active"}
    /\ now < window[p].end
    /\ approved' = [approved EXCEPT ![p] = TRUE]
    /\ \/ UNCHANGED status
       \/ May(p, "active") /\ status' = [status EXCEPT ![p] = "active"]
    /\ OneActive(status')
    /\ UNCHANGED <<now, window>>

Tick == now' = now + 1 /\ UNCHANGED <<status, approved, window>>

Init ==
    /\ now = 0
    /\ status = [p \in Periods |-> "absent"]
    /\ approved = [p \in Periods |-> FALSE]
    /\ window = [p \in Periods |-> [start |-> 0, end |-> 0]]

Next ==
    \/ Tick
    \/ \E p \in Periods : Buy(p) \/ Move(p) \/ Approve(p)
    \/ \E p, q \in Periods : HandOver(p, q)

Spec == Init /\ [][Next]_vars
=============================================================================
