------------------------------ MODULE Waterfall ------------------------------
(***************************************************************************)
(* What attribution promises, stated without its loop: allowance is a row  *)
(* of vessels in deduction order, billed traffic is poured over them, each *)
(* vessel takes what reaches it up to what it can hold, and what runs past *)
(* the last one is overflow.                                               *)
(***************************************************************************)
EXTENDS Deduction

\* What subscription s can take in the bucket at.
Room(s, at) == IF ActiveAt(s, at) THEN Available(s) ELSE 0

\* What is poured away before it reaches entry i.
TakenBefore(list, at, i) ==
    SumFunctionOnSet([j \in DOMAIN list |-> Room(list[j], at)], 1 .. i - 1)

Poured(billed, list, at, i) ==
    LET reaching == billed - TakenBefore(list, at, i)
    IN  IF reaching <= 0 THEN 0 ELSE Lesser(Room(list[i], at), reaching)

Overflowing(billed, list, at) ==
    LET rest == billed - TakenBefore(list, at, Len(list) + 1)
    IN  IF rest <= 0 THEN 0 ELSE rest

\* A row for what is poured, none for nothing.
RowOf(id, n) == IF n > 0 THEN <<[SubscriptionID |-> id, Billed |-> n]>> ELSE <<>>

PouredRows(billed, list, at) ==
    LET upTo[i \in 0 .. Len(list)] ==
            IF i = 0 THEN <<>>
            ELSE upTo[i - 1] \o RowOf(list[i].ID, Poured(billed, list, at, i))
    IN  upTo[Len(list)]

\* The rows for a list without repeated IDs, in deduction order.
WaterfallRows(billed, list, at) ==
    IF billed <= 0 THEN <<>>
    ELSE PouredRows(billed, list, at)
             \o RowOf(OverflowSubscriptionID, Overflowing(billed, list, at))
=============================================================================
