-------------------------------- MODULE Linkage --------------------------------
(***************************************************************************)
(* What the bus of src/internal/events/bus.go is for: a handler commits a  *)
(* primary state, publishes, and the side effects of the linkage matrix    *)
(* follow.  The primary state is whether a user is banned, the side effect *)
(* followed here is the node-plane authorisation.                          *)
(*                                                                         *)
(* Publish is module EventBus seen from outside: a copy of the registry    *)
(* and a fan-out under no lock.  The admin actions, the subscribers and    *)
(* the retry queue are external.  The errors Publish returns do not say    *)
(* whose they are, so a retry publishes the event again, to everybody.     *)
(***************************************************************************)
EXTENDS Naturals, Sequences
LOCAL INSTANCE SequencesExt

CONSTANTS Procs,          \* goroutines: admin handlers and queue workers
          RequiredSubscribers,
          EffectFrom,     \* "state": a subscriber recomputes its effect from
                          \* the primary state; "event": it does what the
                          \* event's type says
          MaxEvents, MaxFailures

EventTypes == {"user.banned", "user.unbanned"}

ASSUME LinkageAssumption ==
    /\ RequiredSubscribers \in [EventTypes -> Seq(STRING)]
    /\ EffectFrom \in {"state", "event"}
    /\ MaxEvents \in Nat /\ MaxFailures \in Nat

VARIABLES banned,     \* the primary state
          access,     \* the node plane lets the user in
          events,     \* the types of the events so far; an event is an index
          call,       \* the call every goroutine is in
          retries,    \* the retry queue
          reached,    \* per event: the subscribers that have succeeded
          failures

vars == <<banned, access, events, call, retries, reached, failures>>

Events == DOMAIN events
SubscribersOf(e) == RequiredSubscribers[events[e]]
NodePlane == {"nodeplane.revoke", "nodeplane.grant"}

NoCall == [at |-> "idle"]
FanOuts == [at : {"fanout"}, e : 1 .. MaxEvents, next : Nat \ {0}, failed : BOOLEAN]
Calls == [at : {"publish"}, e : 1 .. MaxEvents] \cup FanOuts

Init ==
    /\ banned = FALSE /\ access = TRUE
    /\ events = <<>> /\ reached = <<>>
    /\ call = [p \in Procs |-> NoCall]
    /\ retries = {}
    /\ failures = 0

-----------------------------------------------------------------------------
\* A handler commits the opposite of the user's state, and is about to publish.
Commit(p) ==
    /\ call[p] = NoCall /\ Len(events) < MaxEvents
    /\ banned' = ~banned
    /\ events' = Append(events, IF banned THEN "user.unbanned" ELSE "user.banned")
    /\ reached' = Append(reached, {})
    /\ call' = [call EXCEPT ![p] = [at |-> "publish", e |-> Len(events')]]
    /\ UNCHANGED <<access, retries, failures>>

\* A worker takes an event off the retry queue.
Retry(p) ==
    /\ call[p] = NoCall
    /\ \E e \in retries :
          /\ retries' = retries \ {e}
          /\ call' = [call EXCEPT ![p] = [at |-> "publish", e |-> e]]
    /\ UNCHANGED <<banned, access, events, reached, failures>>

Publish(p) ==
    /\ call[p].at = "publish"
    /\ call' = [call EXCEPT ![p] = [at |-> "fanout", e |-> call[p].e, next |-> 1,
                                    failed |-> FALSE]]
    /\ UNCHANGED <<banned, access, events, retries, reached, failures>>

FanningOut(p) == call[p].at = "fanout" /\ call[p].next <= Len(SubscribersOf(call[p].e))

\* The next subscriber does its work.  The bus only calls it; that it reads
\* the primary state and applies its effect as one is what EffectFrom "state"
\* asks of the subscribers, as one statement or transaction of theirs would.
Deliver(p) ==
    /\ FanningOut(p)
    /\ LET e == call[p].e
           name == SubscribersOf(e)[call[p].next]
           effect == IF EffectFrom = "state" THEN ~banned
                                             ELSE events[e] = "user.unbanned"
       IN  /\ access' = IF name \in NodePlane THEN effect ELSE access
           /\ reached' = [reached EXCEPT ![e] = @ \cup {name}]
    /\ call' = [call EXCEPT ![p].next = @ + 1]
    /\ UNCHANGED <<banned, events, retries, failures>>

\* Mutant: the first failure ends the fan-out and its error is the last one.
DeliveryFailsMutant(p) ==
    /\ FanningOut(p) /\ failures < MaxFailures
    /\ call' = [call EXCEPT ![p].next = Len(SubscribersOf(call[p].e)) + 1]
    /\ failures' = failures + 1
    /\ UNCHANGED <<banned, access, events, retries, reached>>

\* It returns an error or panics.
DeliveryFails(p) ==
    /\ FanningOut(p) /\ failures < MaxFailures
    /\ call' = [call EXCEPT ![p].next = @ + 1, ![p].failed = TRUE]
    /\ failures' = failures + 1
    /\ UNCHANGED <<banned, access, events, retries, reached>>

\* Mutant: the subscribers that came before the failure are not told again,
\* and those after it have been told: nothing is queued.
PublishReturnsMutant(p) ==
    /\ call[p].at = "fanout" /\ ~FanningOut(p)
    /\ call' = [call EXCEPT ![p] = NoCall]
    /\ UNCHANGED <<banned, access, events, reached, failures, retries>>

\* Publish returns; its caller hands the failures to the queue.
PublishReturns(p) ==
    /\ call[p].at = "fanout" /\ ~FanningOut(p)
    /\ retries' = IF call[p].failed THEN retries \cup {call[p].e} ELSE retries
    /\ call' = [call EXCEPT ![p] = NoCall]
    /\ UNCHANGED <<banned, access, events, reached, failures>>

Step(p) == Retry(p) \/ Publish(p) \/ Deliver(p) \/ DeliveryFails(p) \/ PublishReturns(p)

Next == \E p \in Procs : Commit(p) \/ Step(p)

Spec == Init /\ [][Next]_vars

\* Goroutines run and the queue is worked off.
FairSpec == Spec /\ \A p \in Procs : WF_vars(Step(p))

-----------------------------------------------------------------------------
Quiet == retries = {} /\ \A p \in Procs : call[p] = NoCall

\* "I banned them and they can still connect" (bus.go:3-8): once every event
\* has been delivered and every failure retried, the node plane lets in
\* exactly the users that are not banned, in whatever order two handlers
\* publish what they committed and the queue redelivers what failed.
AccessFollowsState == Quiet => access = ~banned

\* The half of it the package comment quotes, for subscribers that are
\* idempotent and fail in isolation (bus.go:56-60) and act on the event alone.
BannedStaysOut == Quiet /\ banned => ~access

\* No side effect of the matrix is ever lost: for every event each subscriber
\* succeeds in the end, whatever failed before (bus.go:62-64, 125-129).
EveryEffectHappens ==
    \A e \in 1 .. MaxEvents :
        e \in Events ~> e \in Events /\ reached[e] = ToSet(SubscribersOf(e))
=============================================================================
