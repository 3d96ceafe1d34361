----------------------------- MODULE LinkageProofs -----------------------------
(***************************************************************************)
(* Theorems about module Linkage, for any number of goroutines, events and *)
(* failures and any matrix of required subscribers.  The argument is one   *)
(* for both: an effect that has not happened yet is pending, and a step    *)
(* that takes it from one place it may be pending in puts it into another  *)
(* one, or makes it happen.                                                *)
(***************************************************************************)
EXTENDS Linkage, SequenceTheorems, TLAPS

TypeOK ==
    /\ banned \in BOOLEAN /\ access \in BOOLEAN
    /\ events \in Seq(EventTypes)
    /\ Len(events) <= MaxEvents
    /\ reached \in Seq(SUBSET STRING) /\ Len(reached) = Len(events)
    /\ call \in [Procs -> {NoCall} \cup Calls]
    /\ \A p \in Procs : call[p] # NoCall => call[p].e \in Events
    /\ retries \subseteq Events
    /\ failures \in Nat

\* A call in state c has still to bring event e to one of the subscribers Names,
\* or its caller is going to queue e once more.
StillOwes(c, e, Names) ==
    /\ c.at \in {"publish", "fanout"}
    /\ c.e = e
    /\ \/ c.at = "publish"
       \/ c.failed
       \/ \E i \in c.next .. Len(SubscribersOf(e)) : SubscribersOf(e)[i] \in Names

\* Some subscriber of Names is going to be told of event e.
Pending(e, Names) == e \in retries \/ \E p \in Procs : StillOwes(call[p], e, Names)

\* When the node plane disagrees with the primary state, it is going to be told.
AccessOwed == access = ~banned \/ \E e \in Events : Pending(e, NodePlane)

Requested(type, name) ==
    \E i \in 1 .. Len(RequiredSubscribers[type]) : RequiredSubscribers[type][i] = name

\* A required effect that has not happened is pending.
EffectsOwed ==
    \A e \in Events, name \in STRING :
        Requested(events[e], name) => name \in reached[e] \/ Pending(e, {name})

Requires(Names) ==
    \A t \in EventTypes :
        \E i \in 1 .. Len(RequiredSubscribers[t]) : RequiredSubscribers[t][i] \in Names

-----------------------------------------------------------------------------
USE DEF FanOuts

LEMMA Lists ==
    ASSUME TypeOK, NEW e \in Events
    PROVE  /\ events[e] \in EventTypes
           /\ SubscribersOf(e) \in Seq(STRING)
           /\ Len(SubscribersOf(e)) \in Nat
           /\ \A i \in 1 .. Len(SubscribersOf(e)) : SubscribersOf(e)[i] \in STRING
<1>1. events[e] \in EventTypes
    BY DEF TypeOK, Events
<1>2. SubscribersOf(e) \in Seq(STRING)
    BY <1>1, LinkageAssumption DEF SubscribersOf
<1>3. QED
    BY <1>1, <1>2

LEMMA FanOutCall ==
    ASSUME TypeOK, NEW p \in Procs, call[p].at = "fanout"
    PROVE  /\ call[p] \in FanOuts
           /\ call[p].e \in Events /\ call[p].next \in Nat \ {0} /\ call[p].failed \in BOOLEAN
<1>1. call[p] \in {NoCall} \cup Calls /\ (call[p] # NoCall => call[p].e \in Events)
    BY DEF TypeOK
<1>2. QED
    BY <1>1 DEF NoCall, Calls

LEMMA PublishCall ==
    ASSUME TypeOK, NEW p \in Procs, call[p].at = "publish"
    PROVE  call[p] \in [at : {"publish"}, e : 1 .. MaxEvents] /\ call[p].e \in Events
<1>1. call[p] \in {NoCall} \cup Calls /\ (call[p] # NoCall => call[p].e \in Events)
    BY DEF TypeOK
<1>2. QED
    BY <1>1 DEF NoCall, Calls

\* What a step makes of the call it takes.
LEMMA CallBecomes ==
    ASSUME TypeOK, NEW p \in Procs, NEW c \in {NoCall} \cup Calls,
           call' = [call EXCEPT ![p] = c], c # NoCall => c.e \in Events', Events \subseteq Events'
    PROVE  /\ call' \in [Procs -> {NoCall} \cup Calls]
           /\ call'[p] = c
           /\ \A q \in Procs : q # p => call'[q] = call[q]
           /\ \A q \in Procs : call'[q] # NoCall => call'[q].e \in Events'
BY DEF TypeOK

LEMMA DeliverCall ==
    ASSUME TypeOK, NEW p \in Procs, FanningOut(p), NEW f \in BOOLEAN,
           call' = [call EXCEPT ![p].next = @ + 1, ![p].failed = f]
    PROVE  \E c \in Calls : /\ c = [at |-> "fanout", e |-> call[p].e,
                                    next |-> call[p].next + 1, failed |-> f]
                            /\ call' = [call EXCEPT ![p] = c]
<1>1. PICK d \in FanOuts :
         d = call[p]
    BY FanOutCall DEF FanningOut
<1>2. PICK m \in FanOuts :
         m = [d EXCEPT !.next = @ + 1]
    <2>1. PICK n \in Nat \ {0} : n = d.next + 1
        OBVIOUS
    <2>2. [d EXCEPT !.next = n] \in FanOuts
        OBVIOUS
    <2>3. QED
        BY <2>1, <2>2
<1>3. m.e = d.e /\ m.next = d.next + 1
    BY <1>2
<1>4. PICK c \in FanOuts :
         c = [m EXCEPT !.failed = f]
    OBVIOUS
<1>5. c.at = "fanout" /\ c.e = d.e /\ c.next = d.next + 1 /\ c.failed = f
    BY <1>3, <1>4
<1>6. c = [at |-> "fanout", e |-> d.e, next |-> d.next + 1, failed |-> f]
    BY <1>5
<1>7. call' = [call EXCEPT ![p] = c]
    BY <1>1, <1>2, <1>4 DEF TypeOK
<1>8. QED
    BY <1>1, <1>6, <1>7 DEF Calls

LEMMA DeliveredCall ==
    ASSUME TypeOK, NEW p \in Procs, FanningOut(p), call' = [call EXCEPT ![p].next = @ + 1]
    PROVE  \E c \in Calls : /\ c = [at |-> "fanout", e |-> call[p].e,
                                    next |-> call[p].next + 1, failed |-> call[p].failed]
                            /\ call' = [call EXCEPT ![p] = c]
<1>1. PICK d \in FanOuts :
         d = call[p]
    BY FanOutCall DEF FanningOut
<1>2. PICK n \in Nat \ {0} : n = d.next + 1
    OBVIOUS
<1>3. PICK c \in FanOuts :
         c = [d EXCEPT !.next = n]
    OBVIOUS
<1>4. c.at = "fanout" /\ c.e = d.e /\ c.next = d.next + 1 /\ c.failed = d.failed
    BY <1>2, <1>3
<1>5. c = [at |-> "fanout", e |-> d.e, next |-> d.next + 1, failed |-> d.failed]
    BY <1>4
<1>6. call' = [call EXCEPT ![p] = c]
    BY <1>1, <1>2, <1>3 DEF TypeOK
<1>7. QED
    BY <1>1, <1>5, <1>6 DEF Calls

-----------------------------------------------------------------------------
\* What is pending stays pending in a step of p, unless p alone had it and
\* neither its call nor the queue has it afterwards.
LEMMA PendingStays ==
    ASSUME TypeOK, NEW p \in Procs, NEW c \in {NoCall} \cup Calls,
           call' = [call EXCEPT ![p] = c], NEW e \in Events, NEW Names,
           events' = events, Pending(e, Names),
           e \in retries => e \in retries' \/ StillOwes(c, e, Names),
           StillOwes(call[p], e, Names) => e \in retries' \/ StillOwes(c, e, Names)
    PROVE  Pending(e, Names)'
<1>1. call'[p] = c /\ \A q \in Procs : q # p => call'[q] = call[q]
    BY DEF TypeOK
<1>2. \A q \in Procs : StillOwes(call[q], e, Names)'
                           <=> IF q = p THEN StillOwes(c, e, Names)
                                        ELSE StillOwes(call[q], e, Names)
    BY <1>1 DEF StillOwes, SubscribersOf
<1>3. CASE \E q \in Procs \ {p} : StillOwes(call[q], e, Names)
    BY <1>2, <1>3 DEF Pending
<1>4. CASE e \in retries' \/ StillOwes(c, e, Names)
    BY <1>2, <1>4 DEF Pending
<1>5. QED
    BY <1>3, <1>4 DEF Pending

LEMMA InitTypeOK == Init => TypeOK
<1> SUFFICES ASSUME Init PROVE TypeOK
    OBVIOUS
<1>2. events = <<>> /\ reached = <<>>
    BY DEF Init
<1>3. events \in Seq(EventTypes) /\ Len(events) = 0
    BY <1>2, EmptySeq
<1>4. reached \in Seq(SUBSET STRING) /\ Len(reached) = 0
    BY <1>2, EmptySeq
<1>5. Len(events) <= MaxEvents
    BY <1>3, LinkageAssumption
<1>6. \A S : NoCall \in S => call \in [Procs -> S]
    BY DEF Init
<1>7. call \in [Procs -> {NoCall} \cup Calls]
    BY <1>6
<1>8. \A p \in Procs : call[p] = NoCall
    BY DEF Init
<1>9. QED
    BY <1>3, <1>4, <1>5, <1>7, <1>8 DEF Init, TypeOK

-----------------------------------------------------------------------------
IInv == TypeOK /\ EffectsOwed

\* What every step does; the second part is about matrices in which somebody tells
\* the node plane of every event.
Kept == IInv' /\ (Requires(NodePlane) /\ AccessOwed => AccessOwed')

\* One event more leaves the others pending where they were.
LEMMA CommitKeeps ==
    ASSUME IInv, NEW p \in Procs, Commit(p)
    PROVE  Kept
<1>1. PICK n \in Nat : n = Len(events) + 1 /\ n \in 1 .. MaxEvents
    BY LinkageAssumption DEF IInv, TypeOK, Commit
<1>2. PICK t \in EventTypes : events' = Append(events, t)
    BY DEF Commit, EventTypes
<1>3. /\ events' \in Seq(EventTypes) /\ Len(events') = n
      /\ Events' = 1 .. n /\ Events = 1 .. n - 1
      /\ events'[n] = t /\ \A e \in Events : events'[e] = events[e]
    BY <1>1, <1>2, AppendProperties DEF IInv, TypeOK, Events
<1>4. /\ reached' \in Seq(SUBSET STRING) /\ Len(reached') = n
      /\ reached'[n] = {} /\ \A e \in Events : reached'[e] = reached[e]
    BY <1>1, <1>3, AppendProperties DEF IInv, TypeOK, Commit
<1>5. PICK c \in [at : {"publish"}, e : 1 .. MaxEvents] : c = [at |-> "publish", e |-> n]
    BY <1>1
<1>6. c \in {NoCall} \cup Calls /\ c.e \in Events' /\ c.at = "publish" /\ c.e = n
    BY <1>1, <1>3, <1>5 DEF Calls
<1>7. call' = [call EXCEPT ![p] = c]
    BY <1>3, <1>5 DEF Commit
<1>8. /\ call' \in [Procs -> {NoCall} \cup Calls]
      /\ call'[p] = c
      /\ \A q \in Procs : q # p => call'[q] = call[q]
      /\ \A q \in Procs : call'[q] # NoCall => call'[q].e \in Events'
    <2>1. Events \subseteq Events'
        BY <1>1, <1>3
    <2>2. QED
        BY <1>6, <1>7, <2>1, CallBecomes DEF IInv
<1>9. TypeOK'
    BY <1>1, <1>3, <1>4, <1>8 DEF IInv, TypeOK, Commit
<1>10. \A e \in Events : SubscribersOf(e)' = SubscribersOf(e)
    BY <1>3 DEF SubscribersOf
<1>11. \A Names : Pending(n, Names)'
    BY <1>6, <1>8 DEF Pending, StillOwes
<1>12. ASSUME NEW e \in Events, NEW Names, Pending(e, Names)
       PROVE  Pending(e, Names)'
    <2>1. \A q \in Procs : StillOwes(call[q], e, Names) => q # p
        BY DEF Commit, StillOwes, NoCall
    <2>2. \A q \in Procs : StillOwes(call[q], e, Names) => StillOwes(call[q], e, Names)'
        BY <1>8, <1>10, <2>1 DEF StillOwes
    <2>3. retries' = retries
        BY DEF Commit
    <2>4. QED
        BY <1>12, <2>2, <2>3 DEF Pending
<1>13. AccessOwed => AccessOwed'
    BY <1>1, <1>3, <1>11 DEF AccessOwed
<1>14. ASSUME NEW e \in Events', NEW name \in STRING, Requested(events'[e], name)
       PROVE  name \in reached'[e] \/ Pending(e, {name})'
    <2>1. CASE e = n
        BY <1>11, <2>1
    <2>2. CASE e # n
        <3>1. e \in Events
            BY <1>1, <1>3, <2>2
        <3>2. name \in reached[e] \/ Pending(e, {name})
            BY <1>3, <1>14, <3>1 DEF IInv, EffectsOwed
        <3>3. QED
            BY <1>4, <1>12, <3>1, <3>2
    <2>3. QED
        BY <2>1, <2>2
<1>15. EffectsOwed'
    BY <1>14 DEF EffectsOwed, Requested
<1>16. QED
    BY <1>9, <1>13, <1>15 DEF IInv, Kept

Meets(e, Names) == \E i \in 1 .. Len(SubscribersOf(e)) : SubscribersOf(e)[i] \in Names

\* A step that only moves a call and the queue, and loses nothing that either owed.
LEMMA MoveKeeps ==
    ASSUME IInv, NEW p \in Procs, NEW c \in {NoCall} \cup Calls,
           call' = [call EXCEPT ![p] = c], c # NoCall => c.e \in Events,
           UNCHANGED <<banned, access, events, reached>>,
           retries' \subseteq Events, failures' \in Nat,
           \A e \in Events : \A Names :
               /\ Meets(e, Names)
               /\ e \in retries \/ StillOwes(call[p], e, Names)
               => e \in retries' \/ StillOwes(c, e, Names)
    PROVE  Kept
<1>1. events' = events /\ Events' = Events
    BY DEF Events
<1>2. TypeOK'
    BY <1>1, CallBecomes DEF IInv, TypeOK
<1>3. ASSUME NEW e \in Events, NEW Names, Meets(e, Names), Pending(e, Names)
      PROVE  Pending(e, Names)'
    <2>1. e \in retries \/ StillOwes(call[p], e, Names)
              => e \in retries' \/ StillOwes(c, e, Names)
        BY <1>3
    <2>2. QED
        BY <1>1, <1>3, <2>1, PendingStays DEF IInv
<1>4. ASSUME NEW e \in Events, Requires(NodePlane)
      PROVE  Meets(e, NodePlane)
    <2>1. events[e] \in EventTypes
        BY Lists DEF IInv
    <2>2. QED
        BY <1>4, <2>1 DEF Meets, Requires, SubscribersOf
<1>5. ASSUME NEW e \in Events, NEW name, Requested(events[e], name)
      PROVE  Meets(e, {name})
    BY <1>5 DEF Meets, Requested, SubscribersOf
<1>6. Requires(NodePlane) /\ AccessOwed => AccessOwed'
    BY <1>1, <1>3, <1>4 DEF AccessOwed
<1>7. EffectsOwed'
    <2>1. SUFFICES ASSUME NEW e \in Events, NEW name \in STRING, Requested(events[e], name)
                   PROVE  name \in reached[e] \/ Pending(e, {name})'
        BY <1>1 DEF EffectsOwed, Requested
    <2>2. name \in reached[e] \/ Pending(e, {name})
        BY <2>1 DEF IInv, EffectsOwed
    <2>3. QED
        BY <1>3, <1>5, <2>1, <2>2
<1>8. QED
    BY <1>2, <1>6, <1>7 DEF IInv, Kept

LEMMA RetryKeeps ==
    ASSUME IInv, NEW p \in Procs, Retry(p)
    PROVE  Kept
<1>1. PICK e \in retries : /\ retries' = retries \ {e}
                           /\ call' = [call EXCEPT ![p] = [at |-> "publish", e |-> e]]
    BY DEF Retry
<1>2. e \in Events /\ e \in 1 .. MaxEvents
    BY LinkageAssumption DEF IInv, TypeOK, Events
<1>3. PICK c \in [at : {"publish"}, e : 1 .. MaxEvents] : c = [at |-> "publish", e |-> e]
    BY <1>2
<1>4. c \in {NoCall} \cup Calls /\ c.at = "publish" /\ c.e = e
    BY <1>3 DEF Calls
<1>5. \A d \in Events : \A Names :
          d \in retries \/ StillOwes(call[p], d, Names)
              => d \in retries' \/ StillOwes(c, d, Names)
    BY <1>1, <1>4 DEF Retry, StillOwes, NoCall
<1>6. retries' \subseteq Events /\ failures' \in Nat
    BY <1>1 DEF IInv, TypeOK, Retry
<1>7. UNCHANGED <<banned, access, events, reached>>
    BY DEF Retry
<1>8. call' = [call EXCEPT ![p] = c]
    BY <1>1, <1>3
<1>9. QED
    BY <1>2, <1>4, <1>5, <1>6, <1>7, <1>8, MoveKeeps

LEMMA PublishKeeps ==
    ASSUME IInv, NEW p \in Procs, Publish(p)
    PROVE  Kept
<1>1. PICK d \in [at : {"publish"}, e : 1 .. MaxEvents] : d = call[p] /\ d.e \in Events
    BY PublishCall DEF Publish, IInv
<1>2. PICK c \in FanOuts :
         c = [at |-> "fanout", e |-> d.e, next |-> 1, failed |-> FALSE]
    <2>1. d.e \in 1 .. MaxEvents /\ 1 \in Nat \ {0}
        OBVIOUS
    <2>2. QED
        BY <2>1
<1>3. c.at = "fanout" /\ c.e = d.e /\ c.next = 1 /\ c \in {NoCall} \cup Calls
    BY <1>2 DEF Calls
<1>4. call' = [call EXCEPT ![p] = c]
    BY <1>1, <1>2 DEF Publish
<1>5. \A e \in Events : \A Names :
          /\ Meets(e, Names)
          /\ e \in retries \/ StillOwes(call[p], e, Names)
          => e \in retries \/ StillOwes(c, e, Names)
    BY <1>1, <1>3 DEF Meets, StillOwes
<1>6. /\ UNCHANGED <<banned, access, events, reached>>
      /\ retries' = retries /\ retries' \subseteq Events /\ failures' \in Nat
    BY DEF Publish, IInv, TypeOK
<1>7. QED
    BY <1>1, <1>3, <1>4, <1>5, <1>6, MoveKeeps

LEMMA DeliveryFailsKeeps ==
    ASSUME IInv, NEW p \in Procs, DeliveryFails(p)
    PROVE  Kept
<1>1. PICK d \in FanOuts :
         d = call[p] /\ d.e \in Events
    BY FanOutCall DEF DeliveryFails, FanningOut, IInv
<1>2. PICK c \in Calls : /\ c = [at |-> "fanout", e |-> d.e, next |-> d.next + 1, failed |-> TRUE]
                         /\ call' = [call EXCEPT ![p] = c]
    BY <1>1, DeliverCall DEF DeliveryFails, IInv
<1>3. c.at = "fanout" /\ c.e = d.e /\ c.failed /\ c \in {NoCall} \cup Calls
    BY <1>2
<1>4. \A e \in Events : \A Names :
          e \in retries \/ StillOwes(call[p], e, Names)
              => e \in retries \/ StillOwes(c, e, Names)
    BY <1>1, <1>3 DEF StillOwes
<1>5. /\ UNCHANGED <<banned, access, events, reached>>
      /\ retries' = retries /\ retries' \subseteq Events /\ failures' \in Nat
    BY DEF DeliveryFails, IInv, TypeOK
<1>6. QED
    BY <1>1, <1>2, <1>3, <1>4, <1>5, MoveKeeps

LEMMA PublishReturnsKeeps ==
    ASSUME IInv, NEW p \in Procs, PublishReturns(p)
    PROVE  Kept
<1>1. PICK d \in FanOuts :
         d = call[p] /\ d.e \in Events
    BY FanOutCall DEF PublishReturns, IInv
<1>2. d.next \in Nat /\ ~(d.next <= Len(SubscribersOf(d.e))) /\ Len(SubscribersOf(d.e)) \in Nat
    BY <1>1, Lists DEF PublishReturns, FanningOut, IInv
<1>3. retries' = IF d.failed THEN retries \cup {d.e} ELSE retries
    BY <1>1 DEF PublishReturns
<1>4. \A e \in Events : \A Names :
          e \in retries \/ StillOwes(call[p], e, Names)
              => e \in retries' \/ StillOwes(NoCall, e, Names)
    BY <1>1, <1>2, <1>3 DEF StillOwes
<1>5. /\ UNCHANGED <<banned, access, events, reached>>
      /\ retries' \subseteq Events /\ failures' \in Nat
    BY <1>1, <1>3 DEF PublishReturns, IInv, TypeOK
<1>6. call' = [call EXCEPT ![p] = NoCall]
    BY DEF PublishReturns
<1>7. QED
    BY <1>4, <1>5, <1>6, MoveKeeps

\* A subscriber that is told happens; if it is the node plane's and goes by the
\* primary state, it leaves nothing owed.
LEMMA DeliverKeeps ==
    ASSUME IInv, NEW p \in Procs, Deliver(p)
    PROVE  IInv' /\ (EffectFrom = "state" /\ AccessOwed => AccessOwed')
<1>1. PICK d \in FanOuts :
         d = call[p] /\ d.e \in Events
    BY FanOutCall DEF Deliver, FanningOut, IInv
<1>2. PICK c \in Calls :
         /\ c = [at |-> "fanout", e |-> d.e, next |-> d.next + 1, failed |-> d.failed]
         /\ call' = [call EXCEPT ![p] = c]
    BY <1>1, DeliveredCall DEF Deliver, IInv
<1>3. /\ c.at = "fanout" /\ c.e = d.e /\ c.next = d.next + 1 /\ c.failed = d.failed
      /\ c \in {NoCall} \cup Calls
    BY <1>2
<1>4. PICK name \in STRING : name = SubscribersOf(d.e)[d.next]
    <2>1. d.next <= Len(SubscribersOf(d.e)) /\ d.next \in Nat \ {0}
        BY <1>1 DEF Deliver, FanningOut
    <2>2. PICK told \in Seq(STRING) : told = SubscribersOf(d.e)
        BY <1>1, Lists DEF IInv
    <2>3. d.next \in 1 .. Len(told)
        BY <2>1, <2>2
    <2>4. told[d.next] \in STRING
        BY <2>3
    <2>5. QED
        BY <2>2, <2>4
<1>5. /\ access' = IF name \in NodePlane
                   THEN IF EffectFrom = "state" THEN ~banned ELSE events[d.e] = "user.unbanned"
                   ELSE access
      /\ reached' = [reached EXCEPT ![d.e] = @ \cup {name}]
      /\ UNCHANGED <<banned, events, retries, failures>>
    BY <1>1, <1>4 DEF Deliver
<1>6. reached' \in Seq(SUBSET STRING) /\ Len(reached') = Len(events)
    BY <1>1, <1>5 DEF IInv, TypeOK, Events
<1>7. \A e \in Events : reached[e] \subseteq reached'[e]
    BY <1>1, <1>5 DEF IInv, TypeOK, Events
<1>8. name \in reached'[d.e]
    BY <1>1, <1>5 DEF IInv, TypeOK, Events
<1>9. Events' = Events /\ events' = events
    BY <1>5 DEF Events
<1>10. TypeOK'
    <2>1. c # NoCall => c.e \in Events'
        BY <1>1, <1>3, <1>9
    <2>2. /\ call' \in [Procs -> {NoCall} \cup Calls]
          /\ \A q \in Procs : call'[q] # NoCall => call'[q].e \in Events'
        BY <1>2, <1>3, <1>9, <2>1, CallBecomes DEF IInv
    <2>3. access' \in BOOLEAN
        BY <1>5 DEF IInv, TypeOK
    <2>4. QED
        BY <1>5, <1>6, <1>9, <2>2, <2>3 DEF IInv, TypeOK
<1>11. ASSUME NEW e \in Events, NEW Names, Pending(e, Names), ~(e = d.e /\ name \in Names)
       PROVE  Pending(e, Names)'
    <2>1. StillOwes(call[p], e, Names) => StillOwes(c, e, Names)
        <3>1. ASSUME d.e = e, NEW i \in d.next .. Len(SubscribersOf(e)),
                     SubscribersOf(e)[i] \in Names
              PROVE  i \in c.next .. Len(SubscribersOf(e))
            <4>1. i # d.next
                BY <1>4, <1>11, <3>1
            <4>2. QED
                BY <1>3, <4>1
        <3>2. QED
            BY <1>1, <1>3, <3>1 DEF StillOwes
    <2>2. TypeOK
        BY DEF IInv
    <2>3. QED
        BY <1>2, <1>3, <1>5, <1>11, <2>1, <2>2, PendingStays
<1>12. ASSUME EffectFrom = "state", AccessOwed
       PROVE  AccessOwed'
    <2>1. CASE name \in NodePlane
        BY <1>5, <1>12, <2>1 DEF AccessOwed
    <2>2. CASE name \notin NodePlane
        BY <1>5, <1>9, <1>11, <1>12, <2>2 DEF AccessOwed
    <2>3. QED
        BY <2>1, <2>2
<1>13. EffectsOwed'
    <2>1. SUFFICES ASSUME NEW e \in Events, NEW other \in STRING, Requested(events[e], other)
                   PROVE  other \in reached'[e] \/ Pending(e, {other})'
        BY <1>9 DEF EffectsOwed, Requested
    <2>2. other \in reached[e] \/ Pending(e, {other})
        BY <2>1 DEF IInv, EffectsOwed
    <2>3. CASE e = d.e /\ other = name
        BY <1>8, <2>3
    <2>4. CASE ~(e = d.e /\ other = name)
        BY <1>7, <1>11, <2>2, <2>4
    <2>5. QED
        BY <2>3, <2>4
<1>14. QED
    BY <1>10, <1>12, <1>13 DEF IInv

-----------------------------------------------------------------------------
LEMMA NextKeeps ==
    ASSUME IInv, [Next]_vars
    PROVE  /\ IInv'
           /\ EffectFrom = "state" /\ Requires(NodePlane) /\ AccessOwed => AccessOwed'
<1>1. ASSUME NEW p \in Procs, Commit(p) \/ Step(p)
      PROVE  /\ IInv'
             /\ EffectFrom = "state" /\ Requires(NodePlane) /\ AccessOwed => AccessOwed'
    <2>1. CASE Commit(p)
        BY <2>1, CommitKeeps DEF Kept
    <2>2. CASE Retry(p)
        BY <2>2, RetryKeeps DEF Kept
    <2>3. CASE Publish(p)
        BY <2>3, PublishKeeps DEF Kept
    <2>4. CASE Deliver(p)
        BY <2>4, DeliverKeeps
    <2>5. CASE DeliveryFails(p)
        BY <2>5, DeliveryFailsKeeps DEF Kept
    <2>6. CASE PublishReturns(p)
        BY <2>6, PublishReturnsKeeps DEF Kept
    <2>7. QED
        BY <1>1, <2>1, <2>2, <2>3, <2>4, <2>5, <2>6 DEF Step
<1>2. CASE UNCHANGED vars
    BY <1>2 DEF vars, IInv, TypeOK, EffectsOwed, AccessOwed, Pending, StillOwes, Events,
       SubscribersOf, Requested
<1>3. QED
    BY <1>1, <1>2 DEF Next

LEMMA QuietOwesNothing == Quiet => \A e, Names : ~Pending(e, Names)
BY DEF Quiet, Pending, StillOwes, NoCall

LEMMA InitIInv == Init => IInv /\ AccessOwed
<1>1. Init => Events = {}
    BY DEF Init, Events
<1>2. Init => EffectsOwed
    BY <1>1 DEF EffectsOwed
<1>3. Init => AccessOwed
    BY DEF Init, AccessOwed
<1>4. QED
    BY <1>2, <1>3, InitTypeOK DEF IInv

\* In every reachable state each required effect of each event has happened or is
\* pending: in a call that will still come to that subscriber, in a call whose
\* failures its caller is about to queue, or in the queue (bus.go:62-64, 125-129).
THEOREM EffectsArePending == Spec => [](TypeOK /\ EffectsOwed)
<1>1. Init => IInv
    BY InitIInv
<1>2. IInv /\ [Next]_vars => IInv'
    BY NextKeeps
<1>3. QED
    BY <1>1, <1>2, PTL DEF Spec, IInv

\* When nobody is in a call and nothing is queued, every subscriber of every event
\* has succeeded, whatever failed, panicked and was redelivered on the way.
NoEffectIsLost ==
    Quiet => \A e \in Events, name \in STRING : Requested(events[e], name) => name \in reached[e]

THEOREM NothingIsLost == Spec => []NoEffectIsLost
<1>1. TypeOK /\ EffectsOwed => NoEffectIsLost
    BY QuietOwesNothing DEF NoEffectIsLost, EffectsOwed
<1>2. QED
    BY <1>1, EffectsArePending, PTL

\* "I banned them and they can still connect" (bus.go:3-8) cannot be the end of it,
\* whenever every row of the matrix tells the node plane and its subscribers go by the
\* primary state: then two handlers may publish in the order opposite to their
\* commits, and the queue may redeliver as late as it likes.
THEOREM BannedStayOut ==
    ASSUME EffectFrom = "state", Requires(NodePlane)
    PROVE  Spec => []AccessFollowsState
<1>1. Init => IInv /\ AccessOwed
    BY InitIInv
<1>2. IInv /\ AccessOwed /\ [Next]_vars => IInv' /\ AccessOwed'
    BY NextKeeps
<1>3. IInv /\ AccessOwed => AccessFollowsState
    BY QuietOwesNothing DEF AccessFollowsState, AccessOwed
<1>4. QED
    BY <1>1, <1>2, <1>3, PTL DEF Spec
=============================================================================
