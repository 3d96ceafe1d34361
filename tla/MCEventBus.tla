------------------------------ MODULE MCEventBus ------------------------------
(***************************************************************************)
(* Small instances of EventBus for TLC: two event types of a linkage       *)
(* matrix, two subscribers and handlers that call back into the bus.       *)
(***************************************************************************)
EXTENDS EventBus, TLC

CONSTANTS ban, change,       \* event types
          revoke, audit      \* subscribers

Request(call, t, n) == [call |-> call, type |-> t, name |-> n]

MCTypeOrder == <<change, ban>>

MCRequired == (ban :> {revoke, audit}) @@ (change :> {audit})

MCCalls ==
    { Request("Subscribe", ban, revoke), Request("Subscribe", ban, audit),
      Request("Subscribe", change, audit),
      Request("Publish", ban, audit), Request("VerifyWiring", ban, audit) }

\* A handler that registers a subscriber, perhaps one that is there already,
\* and one that publishes a second event.
MCHandlerCalls ==
    { Request("Subscribe", ban, audit), Request("Publish", change, audit) }

\* For liveness: readers, writers and re-entrancy, on one type.
LiveCalls ==
    { Request("Subscribe", ban, revoke), Request("Publish", ban, audit),
      Request("Subscribers", ban, audit) }

LiveHandlerCalls == { Request("Subscribe", ban, audit), Request("Publish", ban, audit) }
=============================================================================
