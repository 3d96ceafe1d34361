------------------------- MODULE OrderLifecycleProofs -------------------------
(***************************************************************************)
(* OrderLifecycle, for every number of workers and of trades: an order is  *)
(* paid by one trade and shipped once, and what is over stays over.        *)
(***************************************************************************)
EXTENDS OrderLifecycle, TLAPS

-----------------------------------------------------------------------------
(* The table.                                                              *)

\* The edges of the table, one by one (order.go:22-32).
LEMMA Edges ==
    /\ OrderStatus = {"pending", "paid", "provisioning_failed",
                      "completed", "cancelled", "refunded"}
    /\ \A s : CanTransition(s, "paid") <=> s = "pending"
    /\ \A s : CanTransition(s, "cancelled") <=> s = "pending"
    /\ \A s : CanTransition(s, "completed") <=> s \in {"paid", "provisioning_failed"}
    /\ \A s : CanTransition(s, "provisioning_failed") <=> s = "paid"
    /\ \A s : CanTransition(s, "refunded") <=> s \in {"provisioning_failed", "completed"}
<1>1. OrderStatus = {"pending", "paid", "provisioning_failed",
                     "completed", "cancelled", "refunded"}
    BY DEF OrderStatus, orderTransitions
<1>2. /\ orderTransitions["pending"] = {"paid", "cancelled"}
      /\ orderTransitions["paid"] = {"completed", "provisioning_failed"}
      /\ orderTransitions["provisioning_failed"] = {"completed", "refunded"}
      /\ orderTransitions["completed"] = {"refunded"}
      /\ orderTransitions["cancelled"] = {}
      /\ orderTransitions["refunded"] = {}
    BY DEF orderTransitions
<1>3. QED
    BY <1>1, <1>2 DEF CanTransition

\* Nothing leads out of a terminal status, known or not (order.go:79-82).
LEMMA TerminalHasNoEdge ==
    ASSUME NEW s, IsTerminal(s), NEW t
    PROVE  ~CanTransition(s, t)
BY DEF IsTerminal, CanTransition

-----------------------------------------------------------------------------
(* Bookkeeping of the workers.                                             *)

\* A transaction that ends without writing the status leaves everybody else's
\* reading as current as it was.
LEMMA OverKeepsReadings ==
    ASSUME TypeOK, ReadIsCurrent, NEW w \in Workers, Over(w), UNCHANGED status
    PROVE  ReadIsCurrent'
<1> SUFFICES ASSUME NEW v \in Workers, read'[v] # NotRead
             PROVE  task'[v] # NoTask /\ holder' = v /\ read'[v] = status'
    BY DEF ReadIsCurrent
<1>1. v # w /\ read'[v] = read[v] /\ task'[v] = task[v]
    BY DEF Over, TypeOK
<1>2. holder = v /\ task[v] # NoTask /\ read[v] = status
    BY <1>1 DEF ReadIsCurrent
<1>3. QED
    BY <1>1, <1>2 DEF Over

\* A transaction that has read the status is the only one that has, so it may
\* write the status when it ends (order.go:56-58).
LEMMA HolderMayWrite ==
    ASSUME TypeOK, ReadIsCurrent, NEW w \in Workers, read[w] # NotRead, Over(w)
    PROVE  ReadIsCurrent'
<1> SUFFICES ASSUME NEW v \in Workers, read'[v] # NotRead
             PROVE  FALSE
    BY DEF ReadIsCurrent
<1>1. v # w /\ read'[v] = read[v]
    BY DEF Over, TypeOK
<1>2. QED
    BY <1>1 DEF ReadIsCurrent

\* The end of a transaction keeps the types of what it touches.
LEMMA OverTyped ==
    ASSUME TypeOK, NEW w \in Workers, Over(w)
    PROVE  /\ holder' \in Workers \cup {NoWorker}
           /\ task' \in [Workers -> Tasks \cup {NoTask}]
           /\ read' \in [Workers -> OrderStatus \cup {NotRead}]
BY DEF TypeOK, Over

\* A callback carries a trade.
LEMMA CallbackHasTrade ==
    ASSUME TypeOK, NEW w \in Workers, Working(w, "callback")
    PROVE  task[w].trade \in Trades
<1>1. task[w] \in Tasks \cup {NoTask} /\ task[w].op = "callback"
    BY DEF TypeOK, Working
<1>2. task[w] \in [op : {"callback"}, trade : Trades]
    BY <1>1 DEF Tasks, NoTask
<1>3. QED
    BY <1>2

-----------------------------------------------------------------------------
(* The invariant.                                                          *)

\* A new order satisfies the invariant.
LEMMA InitIInv == Init => IInv
<1> SUFFICES ASSUME Init PROVE IInv
    OBVIOUS
<1>1. TypeOK
    BY Edges DEF Init, TypeOK
<1>2. ReadIsCurrent /\ ShippedOnce /\ OnlyCancelledBounces
    BY DEF Init, ReadIsCurrent, ShippedOnce, OnlyCancelledBounces
<1>3. PaidByOneTrade
    BY DEF Init, PaidByOneTrade, IsPaid
<1>4. QED
    BY <1>1, <1>2, <1>3 DEF IInv

\* A step that leaves the order and its payments alone keeps what relates them.
LEMMA OrderUntouched ==
    ASSUME IInv, UNCHANGED <<status, payments, granted>>
    PROVE  ShippedOnce' /\ PaidByOneTrade' /\ OnlyCancelledBounces'
BY DEF IInv, ShippedOnce, PaidByOneTrade, OnlyCancelledBounces, IsPaid

\* Starting work reads and writes nothing.
LEMMA StartIInv ==
    ASSUME IInv, NEW w \in Workers, Start(w)
    PROVE  IInv'
<1>1. TypeOK'
    BY DEF IInv, TypeOK, Start
<1>2. ReadIsCurrent'
  <2> SUFFICES ASSUME NEW v \in Workers, read'[v] # NotRead
               PROVE  task'[v] # NoTask /\ holder' = v /\ read'[v] = status'
      BY DEF ReadIsCurrent
  <2>1. task[v] # NoTask /\ holder = v /\ read[v] = status
      BY DEF IInv, ReadIsCurrent, Start
  <2>2. v # w
      BY <2>1 DEF Start
  <2>3. QED
      BY <2>1, <2>2 DEF IInv, TypeOK, Start
<1>3. QED
    BY <1>1, <1>2, OrderUntouched DEF IInv, Start

\* Whoever takes the row finds nobody else with a reading of it
\* (order.go:56-58).
LEMMA HoldRowIInv ==
    ASSUME IInv, NEW w \in Workers, HoldRow(w)
    PROVE  IInv'
<1>1. TypeOK'
    BY DEF IInv, TypeOK, HoldRow
<1>2. ReadIsCurrent'
  <2> SUFFICES ASSUME NEW v \in Workers, read'[v] # NotRead
               PROVE  task'[v] # NoTask /\ holder' = v /\ read'[v] = status'
      BY DEF ReadIsCurrent
  <2>1. \A u \in Workers : read[u] = NotRead
      BY OrderAssumption DEF IInv, ReadIsCurrent, HoldRow, CanHold
  <2>2. v = w
      BY <2>1 DEF IInv, TypeOK, HoldRow
  <2>3. QED
      BY <2>2 DEF IInv, TypeOK, HoldRow
<1>3. QED
    BY <1>1, <1>2, OrderUntouched DEF IInv, HoldRow

\* A transaction that ends with order and payments as they were.
LEMMA NothingWrittenIInv ==
    ASSUME IInv, NEW w \in Workers, Over(w), UNCHANGED <<status, payments, granted>>
    PROVE  IInv'
<1>1. TypeOK'
    BY OverTyped DEF IInv, TypeOK
<1>2. ReadIsCurrent'
    BY OverKeepsReadings DEF IInv
<1>3. QED
    BY <1>1, <1>2, OrderUntouched DEF IInv

\* The first payment finds the order pending, so no other trade has paid it
\* (order.go:23).
LEMMA AcceptPaymentIInv ==
    ASSUME IInv, NEW w \in Workers, AcceptPayment(w)
    PROVE  IInv'
<1> DEFINE t == task[w].trade
<1>1. t \in Trades
    BY CallbackHasTrade DEF IInv, AcceptPayment
<1>2. status = "pending" /\ status' = "paid" /\ granted' = granted /\ Over(w)
    BY Edges DEF IInv, ReadIsCurrent, AcceptPayment, Working, Book
<1>3. payments' = [payments EXCEPT ![t] = "order"]
    BY DEF AcceptPayment, Book
<1>4. \A u \in Trades : payments[u] \notin {"order", "bounced"}
    BY <1>2 DEF IInv, PaidByOneTrade, OnlyCancelledBounces, IsPaid
<1>5. TypeOK'
    BY <1>1, <1>2, <1>3, OverTyped, Edges DEF IInv, TypeOK
<1>6. ReadIsCurrent'
    BY <1>2, HolderMayWrite DEF IInv, AcceptPayment, Working
<1>7. ShippedOnce'
    BY <1>2 DEF IInv, ShippedOnce
<1>8. \A u \in Trades : payments'[u] = IF u = t THEN "order" ELSE payments[u]
    BY <1>1, <1>3 DEF IInv, TypeOK
<1>9. PaidByOneTrade'
    BY <1>1, <1>2, <1>4, <1>8 DEF PaidByOneTrade, IsPaid
<1>10. OnlyCancelledBounces'
    BY <1>4, <1>8 DEF OnlyCancelledBounces
<1>11. QED
    BY <1>5, <1>6, <1>7, <1>9, <1>10 DEF IInv

\* A payment that does not pay the order changes who paid it for nobody
\* (order.go:86-89).
LEMMA OtherPaymentIInv ==
    ASSUME IInv, NEW w \in Workers, NEW as \in {"surplus", "bounced"},
           Working(w, "callback"), Book(w, as), UNCHANGED <<status, granted>>,
           as = "bounced" => status = "cancelled"
    PROVE  IInv'
<1> DEFINE t == task[w].trade
<1>1. t \in Trades /\ payments[t] = "none"
    BY CallbackHasTrade DEF IInv, Book
<1>2. payments' = [payments EXCEPT ![t] = as]
    BY DEF Book
<1>3. TypeOK'
    BY <1>1, <1>2, OverTyped DEF IInv, TypeOK, Book
<1>4. ReadIsCurrent'
    BY OverKeepsReadings DEF IInv, Book
<1>5. \A u \in Trades : payments'[u] = IF u = t THEN as ELSE payments[u]
    BY <1>1, <1>2 DEF IInv, TypeOK
<1>6. \A u \in Trades : payments'[u] = "order" <=> payments[u] = "order"
    BY <1>1, <1>5
<1>7. PaidByOneTrade'
    BY <1>6 DEF IInv, PaidByOneTrade, IsPaid
<1>8. OnlyCancelledBounces'
    BY <1>5 DEF IInv, OnlyCancelledBounces
<1>9. ShippedOnce'
    BY DEF IInv, ShippedOnce
<1>10. QED
    BY <1>3, <1>4, <1>7, <1>8, <1>9 DEF IInv

\* A status written by whoever read the one it replaces.
LEMMA StatusWrittenIInv ==
    ASSUME IInv, NEW w \in Workers, read[w] # NotRead, Over(w),
           status' \in OrderStatus, granted' \in Nat, UNCHANGED payments,
           ShippedOnce', IsPaid(status') <=> IsPaid(status),
           status = "cancelled" => status' = "cancelled"
    PROVE  IInv'
<1>1. TypeOK'
    BY OverTyped DEF IInv, TypeOK
<1>2. ReadIsCurrent'
    BY HolderMayWrite DEF IInv
<1>3. PaidByOneTrade'
    BY DEF IInv, PaidByOneTrade, IsPaid
<1>4. OnlyCancelledBounces'
    BY DEF IInv, OnlyCancelledBounces
<1>5. QED
    BY <1>1, <1>2, <1>3, <1>4 DEF IInv

\* Every step keeps the invariant.
LEMMA StepIInv == IInv /\ [Next]_vars => IInv'
<1> SUFFICES ASSUME IInv, [Next]_vars PROVE IInv'
    OBVIOUS
<1>1. ASSUME NEW w \in Workers, Start(w) PROVE IInv'
    BY <1>1, StartIInv
<1>2. ASSUME NEW w \in Workers, HoldRow(w) PROVE IInv'
    BY <1>2, HoldRowIInv
<1>3. ASSUME NEW w \in Workers, Rollback(w) PROVE IInv'
    BY <1>3, NothingWrittenIInv DEF Rollback
<1>4. ASSUME NEW w \in Workers, AcceptPayment(w) PROVE IInv'
    BY <1>4, AcceptPaymentIInv
<1>5. ASSUME NEW w \in Workers, CreditSurplus(w) PROVE IInv'
    BY <1>5, OtherPaymentIInv DEF CreditSurplus
<1>6. ASSUME NEW w \in Workers, BouncePayment(w) PROVE IInv'
  <2>1. status = "cancelled"
      BY <1>6, Edges DEF BouncePayment, Working, IInv, TypeOK, ReadIsCurrent, IsPaid
  <2>2. QED
      BY <1>6, <2>1, OtherPaymentIInv DEF BouncePayment
<1>7. ASSUME NEW w \in Workers, RepeatedCallback(w) PROVE IInv'
    BY <1>7, NothingWrittenIInv DEF RepeatedCallback
<1>8. ASSUME NEW w \in Workers, Cancel(w) PROVE IInv'
  <2>1. status = "pending" /\ status' = "cancelled" /\ read[w] # NotRead
      BY <1>8, Edges DEF Cancel, Working, IInv, ReadIsCurrent
  <2>2. granted = 0
      BY <2>1 DEF IInv, ShippedOnce
  <2>3. QED
      BY <1>8, <2>1, <2>2, StatusWrittenIInv, Edges DEF Cancel, ShippedOnce, IsPaid
<1>9. ASSUME NEW w \in Workers, Provision(w) PROVE IInv'
  <2>1. /\ status \in {"paid", "provisioning_failed"} /\ status' = "completed"
        /\ read[w] # NotRead
      BY <1>9, Edges DEF Provision, Working, IInv, ReadIsCurrent
  <2>2. granted = 0 /\ granted' = 1
      BY <1>9, <2>1 DEF Provision, IInv, ShippedOnce
  <2>3. QED
      BY <1>9, <2>1, <2>2, StatusWrittenIInv, Edges DEF Provision, ShippedOnce, IsPaid
<1>10. ASSUME NEW w \in Workers, ProvisioningFails(w) PROVE IInv'
  <2>1. status = "paid" /\ status' = "provisioning_failed" /\ read[w] # NotRead
      BY <1>10, Edges DEF ProvisioningFails, Working, IInv, ReadIsCurrent
  <2>2. granted = 0
      BY <2>1 DEF IInv, ShippedOnce
  <2>3. QED
      BY <1>10, <2>1, <2>2, StatusWrittenIInv, Edges
      DEF ProvisioningFails, ShippedOnce, IsPaid
<1>11. ASSUME NEW w \in Workers, Refund(w) PROVE IInv'
  <2>1. /\ status \in {"provisioning_failed", "completed"} /\ status' = "refunded"
        /\ read[w] # NotRead
      BY <1>11, Edges DEF Refund, Working, IInv, ReadIsCurrent
  <2>2. QED
      BY <1>11, <2>1, StatusWrittenIInv, Edges DEF Refund, ShippedOnce, IsPaid
<1>12. CASE UNCHANGED vars
  <2>1. TypeOK' /\ ReadIsCurrent'
      BY <1>12 DEF vars, IInv, TypeOK, ReadIsCurrent
  <2>2. QED
      BY <1>12, <2>1, OrderUntouched DEF vars, IInv
<1>13. QED
    BY <1>1, <1>2, <1>3, <1>4, <1>5, <1>6, <1>7, <1>8, <1>9, <1>10, <1>11, <1>12
    DEF Next

-----------------------------------------------------------------------------
(* The theorems.                                                           *)

\* The inductive invariant of the order (order.go:17-97).
THEOREM OrderInductive == Spec => []IInv
BY InitIInv, StepIInv, PTL DEF Spec

\* Every variable keeps its type, so the status never leaves the vocabulary
\* of the CHECK (0002_business.sql:16-17).
THEOREM OrderTypeCorrect == Spec => []TypeOK
<1>1. IInv => TypeOK
    BY DEF IInv
<1>2. QED
    BY <1>1, OrderInductive, PTL

\* However callbacks, retries and refunds interleave, what was bought is
\* granted once while the order is completed and not otherwise
\* (order.go:24-26).
THEOREM NeverShipsTwice == Spec => []ShippedOnce
<1>1. IInv => ShippedOnce
    BY DEF IInv
<1>2. QED
    BY <1>1, OrderInductive, PTL

\* The order says that its money arrived exactly while one trade has paid it
\* (order.go:84-89).
THEOREM OnePaysTheOrder == Spec => []PaidByOneTrade
<1>1. IInv => PaidByOneTrade
    BY DEF IInv
<1>2. QED
    BY <1>1, OrderInductive, PTL

\* A payment bounces off a cancelled order only (order.go:86-97).
THEOREM PaidOrdersBounceNothing == Spec => []OnlyCancelledBounces
<1>1. IInv => OnlyCancelledBounces
    BY DEF IInv
<1>2. QED
    BY <1>1, OrderInductive, PTL

\* A step taken in a terminal status leaves status and grants alone: what was
\* read is what the row says, and the table has no edge from there
\* (order.go:17-21, 56-58).
LEMMA TerminalStep ==
    IInv /\ [Next]_vars => [IsTerminal(status) => UNCHANGED <<status, granted>>]_vars
<1> SUFFICES ASSUME IInv, Next, IsTerminal(status)
             PROVE  UNCHANGED <<status, granted>>
    OBVIOUS
<1>1. PICK w \in Workers :
        \/ Start(w) \/ HoldRow(w) \/ Rollback(w)
        \/ AcceptPayment(w) \/ CreditSurplus(w) \/ BouncePayment(w)
        \/ RepeatedCallback(w)
        \/ Cancel(w) \/ Provision(w) \/ ProvisioningFails(w) \/ Refund(w)
    BY DEF Next
<1>2. read[w] # NotRead => \A t : ~CanTransition(read[w], t)
    BY TerminalHasNoEdge DEF IInv, ReadIsCurrent
<1>3. ~(AcceptPayment(w) \/ Cancel(w) \/ Provision(w) \/ ProvisioningFails(w) \/ Refund(w))
    BY <1>2 DEF AcceptPayment, Cancel, Provision, ProvisioningFails, Refund, Working
<1>4. QED
    BY <1>1, <1>3 DEF Start, HoldRow, Rollback, CreditSurplus, BouncePayment, RepeatedCallback

\* What is over stays over, whatever was decided before it was
\* (order.go:17-21).
THEOREM TerminalForGood == Spec => OverIsOver
BY OrderInductive, TerminalStep, PTL DEF Spec, OverIsOver
=============================================================================
