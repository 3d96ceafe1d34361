---------------------------- MODULE OrderLifecycle ----------------------------
(***************************************************************************)
(* src/internal/domain/order.go under the traffic it was written for: one  *)
(* order, payment callbacks that arrive twice, late and out of order,      *)
(* cancellation, provisioning with its retries, and refunds.               *)
(*                                                                         *)
(* The service around the transition table is not written yet.  It is      *)
(* taken to do what the comments of the table and of the schema ask: hold  *)
(* the order row from the check to the write (order.go:56-58), credit what *)
(* IsPaid calls a duplicate payment (order.go:84-89), keep one payments    *)
(* row per trade, and let a callback no edge admits bounce.  A worker may  *)
(* crash before it commits; its transaction then never happened.           *)
(***************************************************************************)
EXTENDS Naturals

CONSTANTS Workers,     \* connections to the database
          NoWorker,    \* nobody
          Trades       \* trade numbers of a payment channel

ASSUME OrderAssumption == NoWorker \notin Workers

-----------------------------------------------------------------------------
(* The table.                                                              *)

\* Mutant: without the branch for an order that could not be provisioned.
orderTransitionsMutant ==
    [pending             |-> {"paid", "cancelled"},
     paid                |-> {"completed", "provisioning_failed"},
     provisioning_failed |-> {},
     completed           |-> {"refunded"},
     cancelled           |-> {},
     refunded            |-> {}]

orderTransitions ==
    [pending             |-> {"paid", "cancelled"},
     paid                |-> {"completed", "provisioning_failed"},
     provisioning_failed |-> {"completed", "refunded"},
     completed           |-> {"refunded"},
     cancelled           |-> {},
     refunded            |-> {}]

OrderStatus == DOMAIN orderTransitions

\* Mutant: staying where one is counts as allowed.
CanTransitionMutant(from, to) == from = to \/ to \in orderTransitions[from]

CanTransition(from, to) == from \in OrderStatus /\ to \in orderTransitions[from]

IsTerminal(s) == s \in OrderStatus /\ orderTransitions[s] = {}

\* Mutant: an order that could not be provisioned counts as unpaid.
IsPaidMutant(s) == s \in {"paid", "completed", "refunded"}

IsPaid(s) == s \in {"paid", "completed", "provisioning_failed", "refunded"}

-----------------------------------------------------------------------------
VARIABLES status,      \* of the order row
          holder,      \* who holds the row
          payments,    \* the payments row of every trade
          granted,     \* subscriptions granted for the order and not revoked
          task,        \* what every worker is doing
          read         \* the status it read

vars == <<status, holder, payments, granted, task, read>>

Tasks == [op : {"callback"}, trade : Trades]
             \cup [op : {"cancel", "provision", "refund"}]

NoTask == [op |-> "none"]
NotRead == "unread"

TypeOK ==
    /\ status \in OrderStatus
    /\ holder \in Workers \cup {NoWorker}
    /\ payments \in [Trades -> {"none", "order", "surplus", "bounced"}]
    /\ granted \in Nat
    /\ task \in [Workers -> Tasks \cup {NoTask}]
    /\ read \in [Workers -> OrderStatus \cup {NotRead}]

Init ==
    /\ status = "pending" /\ holder = NoWorker
    /\ payments = [t \in Trades |-> "none"]
    /\ granted = 0
    /\ task = [w \in Workers |-> NoTask]
    /\ read = [w \in Workers |-> NotRead]

Start(w) ==
    /\ task[w] = NoTask
    /\ \E k \in Tasks : task' = [task EXCEPT ![w] = k]
    /\ UNCHANGED <<status, holder, payments, granted, read>>

\* Mutant: a plain SELECT.
CanHoldMutant(w) == TRUE
CanHold(w) == holder = NoWorker

\* SELECT status ... FOR UPDATE.
HoldRow(w) ==
    /\ task[w] # NoTask /\ read[w] = NotRead
    /\ CanHold(w)
    /\ holder' = w
    /\ read' = [read EXCEPT ![w] = status]
    /\ UNCHANGED <<status, payments, granted, task>>

\* The transaction is over and lets go of the row.
Over(w) ==
    /\ holder' = IF holder = w THEN NoWorker ELSE holder
    /\ task' = [task EXCEPT ![w] = NoTask]
    /\ read' = [read EXCEPT ![w] = NotRead]

Working(w, op) == task[w].op = op /\ read[w] # NotRead

\* A crash, or a deliberate rollback.
Rollback(w) ==
    /\ task[w] # NoTask
    /\ Over(w)
    /\ UNCHANGED <<status, payments, granted>>

-----------------------------------------------------------------------------
(* Payment callbacks.                                                      *)

Book(w, as) ==
    /\ payments[task[w].trade] = "none"
    /\ payments' = [payments EXCEPT ![task[w].trade] = as]
    /\ Over(w)

AcceptPayment(w) ==
    /\ Working(w, "callback")
    /\ ~IsPaid(read[w]) /\ CanTransition(read[w], "paid")
    /\ Book(w, "order")
    /\ status' = "paid"
    /\ UNCHANGED granted

\* A duplicate payment becomes balance.
CreditSurplus(w) ==
    /\ Working(w, "callback")
    /\ IsPaid(read[w])
    /\ Book(w, "surplus")
    /\ UNCHANGED <<status, granted>>

\* ErrIllegalTransition: the payment is on record and nothing else happens.
BouncePayment(w) ==
    /\ Working(w, "callback")
    /\ ~IsPaid(read[w]) /\ ~CanTransition(read[w], "paid")
    /\ Book(w, "bounced")
    /\ UNCHANGED <<status, granted>>

\* The trade is known already: the channel retried its notification.
RepeatedCallback(w) ==
    /\ Working(w, "callback")
    /\ payments[task[w].trade] # "none"
    /\ Over(w)
    /\ UNCHANGED <<status, payments, granted>>

-----------------------------------------------------------------------------
(* Cancellation, provisioning, refund.                                     *)

Cancel(w) ==
    /\ Working(w, "cancel")
    /\ CanTransition(read[w], "cancelled")
    /\ status' = "cancelled"
    /\ Over(w)
    /\ UNCHANGED <<payments, granted>>

Provision(w) ==
    /\ Working(w, "provision")
    /\ CanTransition(read[w], "completed")
    /\ status' = "completed"
    /\ granted' = granted + 1
    /\ Over(w)
    /\ UNCHANGED payments

ProvisioningFails(w) ==
    /\ Working(w, "provision")
    /\ CanTransition(read[w], "provisioning_failed")
    /\ status' = "provisioning_failed"
    /\ Over(w)
    /\ UNCHANGED <<payments, granted>>

Refund(w) ==
    /\ Working(w, "refund")
    /\ CanTransition(read[w], "refunded")
    /\ status' = "refunded"
    /\ granted' = 0
    /\ Over(w)
    /\ UNCHANGED payments

Next ==
    \E w \in Workers :
        \/ Start(w) \/ HoldRow(w) \/ Rollback(w)
        \/ AcceptPayment(w) \/ CreditSurplus(w) \/ BouncePayment(w)
        \/ RepeatedCallback(w)
        \/ Cancel(w) \/ Provision(w) \/ ProvisioningFails(w) \/ Refund(w)

Spec == Init /\ [][Next]_vars

\* The retry queue and the operator behind it (docs/design/v1.0.md 8.2): a
\* paid order is tried again and again, the attempts do not meet a locked row
\* or a crash for ever, and what they cannot provision is refunded by hand.
Unsettled == status \in {"paid", "provisioning_failed"}

Attempts(w, op) == Start(w) /\ Unsettled /\ holder = NoWorker /\ task'[w].op = op

Holds(w, op) == HoldRow(w) /\ Unsettled /\ task[w].op = op

Ends(w) ==
    \/ HoldRow(w) \/ Rollback(w) \/ RepeatedCallback(w)
    \/ AcceptPayment(w) \/ CreditSurplus(w) \/ BouncePayment(w)
    \/ Cancel(w) \/ Provision(w) \/ ProvisioningFails(w) \/ Refund(w)

Fairness ==
    /\ \A op \in {"provision", "refund"} : SF_vars(\E w \in Workers : Attempts(w, op))
    /\ \A w \in Workers :
          /\ WF_vars(Ends(w))
          /\ SF_vars(Holds(w, "provision")) /\ SF_vars(Holds(w, "refund"))
          /\ SF_vars(Provision(w) \/ ProvisioningFails(w))
          /\ SF_vars(Refund(w) /\ Unsettled)

FairSpec == Spec /\ Fairness

-----------------------------------------------------------------------------
(* What must hold.                                                         *)

\* However callbacks, retries and refunds interleave, the product is with the
\* user once while the order is completed and not at all otherwise
\* (order.go:24-26, "losing the payment or shipping twice").
ShippedOnce == granted = IF status = "completed" THEN 1 ELSE 0

\* One trade pays the order, exactly while the order says the money arrived;
\* a cancellation that races the callback cannot take that back
\* (order.go:84-89).
PaidByOneTrade ==
    /\ \A t, u \in Trades : payments[t] = "order" /\ payments[u] = "order" => t = u
    /\ IsPaid(status) <=> \E t \in Trades : payments[t] = "order"

\* Money that arrives for an order that is already paid is credited, whatever
\* became of the order since: it bounces off a cancelled order only
\* (order.go:86-97).
OnlyCancelledBounces ==
    \A t \in Trades : payments[t] = "bounced" => status = "cancelled"

\* What is over stays over: neither a late callback nor a retry, decided upon
\* while the order was still open, moves it out of a terminal status or changes
\* what was granted under it (order.go:17-21, 56-58).
OverIsOver == [][IsTerminal(status) => UNCHANGED <<status, granted>>]_vars

\* Money that arrived buys the product or comes back, however many attempts
\* fail or crash: "without it the only options are losing the payment or
\* shipping twice" (order.go:24-27).
PaidIsSettled == Unsettled ~> status \in {"completed", "refunded"}

\* Every payment pays the order or is credited: "status != 'pending' -> this
\* payment is a surplus payment -> credited to the balance" (v1.0.md §8.3).
EveryPaymentAccounted == \A t \in Trades : payments[t] # "bounced"

-----------------------------------------------------------------------------
\* Why: whoever has read the status holds the row, so what it read is still
\* what the row says.
ReadIsCurrent ==
    \A w \in Workers : read[w] # NotRead =>
        /\ task[w] # NoTask
        /\ holder = w
        /\ read[w] = status

IInv == TypeOK /\ ReadIsCurrent /\ ShippedOnce /\ PaidByOneTrade /\ OnlyCancelledBounces
=============================================================================
