------------------------------- MODULE EventBus -------------------------------
(***************************************************************************)
(* src/internal/events/bus.go: the registry of subscribers behind an       *)
(* RWMutex, the fan-out of an event over a copy of it, and the check of    *)
(* the registry against the linkage matrix.                                *)
(*                                                                         *)
(* A goroutine is a stack of calls into the bus, because a handler may     *)
(* call the bus again: publish another event or subscribe somebody.  A     *)
(* handler ends in one of four ways: it returns nil, returns an error,     *)
(* panics, or returns an error whose Error method panics when Publish logs *)
(* it (a typed nil pointer).                                               *)
(***************************************************************************)
EXTENDS RWMutex, SequencesExt

CONSTANTS Types,         \* event types
          Names,         \* subscriber names; the name stands for the handler
          TypeOrder,     \* sortedTypes(RequiredSubscribers)
          RequiredSubscribers,
          Calls,         \* calls goroutines make
          HandlerCalls,  \* calls handlers make
          Outcomes,      \* how handlers may end
          MaxDepth       \* bound on nested calls

\* A call; name matters to Subscribe alone, type to all but VerifyWiring.
Requests == [call : {"Subscribe", "Publish", "Subscribers", "VerifyWiring"},
             type : Types, name : Names]

ASSUME EventBusAssumption ==
    /\ TypeOrder \in Seq(Types)
    /\ RequiredSubscribers \in [Types -> SUBSET Names]
    /\ Calls \subseteq Requests /\ HandlerCalls \subseteq Requests
    /\ Outcomes \subseteq {"ok", "error", "panic", "badError"}
    /\ MaxDepth \in Nat \ {0}

VARIABLES subs,      \* the registry: the names of every type, as registered
          mu,        \* its lock
          stack,     \* the calls every goroutine is in, innermost last
          verified   \* some VerifyWiring has returned no error

vars == <<subs, mu, stack, verified>>

-----------------------------------------------------------------------------
(* Calls in progress.                                                      *)

Places == {"lock", "drain", "body", "append", "unlock", "panic",
           "read", "runlock", "next", "handler"}

\* subs and next: Publish's copy and its position in it (VerifyWiring's
\* position in the matrix); errs: what the call has collected; nested: the
\* running handler has called the bus.  owed is history: who was subscribed
\* when the call was made.
Frames == [req    : Requests,
           at     : Places,
           subs   : Seq(Names),
           next   : Nat \ {0},
           errs   : SUBSET (Types \X Names),
           nested : BOOLEAN,
           owed   : SUBSET Names]

Registered(t) == {subs[t][i] : i \in DOMAIN subs[t]}

Opened(r) == [req |-> r, at |-> "lock", subs |-> <<>>, next |-> 1, errs |-> {},
              nested |-> FALSE, owed |-> Registered(r.type)]

Top(p) == stack[p][Len(stack[p])]
At(p, place) == stack[p] # <<>> /\ Top(p).at = place
Calling(p, call) == stack[p] # <<>> /\ Top(p).req.call = call

\* The innermost call of p becomes f; it returns; it is joined by another.
Becomes(p, f) == stack' = [stack EXCEPT ![p] = Append(Front(@), f)]
Goto(p, from, to) == At(p, from) /\ Becomes(p, [Top(p) EXCEPT !.at = to])
Returned(p) == stack' = [stack EXCEPT ![p] = Front(@)]

\* The handler f was running has ended and failed or not.
Ended(f, failed) ==
    [f EXCEPT !.at = "next",
              !.next = @ + 1,
              !.nested = FALSE,
              !.errs = IF failed THEN @ \cup {<<f.req.type, f.subs[f.next]>>} ELSE @]

\* Mutant: deliver does not recover.
RecoveredMutant(calls) == <<>>

\* A panic in the handler of the innermost Publish stops at deliver.
Recovered(calls) == Append(Front(calls), Ended(Last(calls), TRUE))

\* A panic in a call itself reaches the handler that made it, if one did.
Unwound(calls) == IF Len(calls) = 1 THEN <<>> ELSE Recovered(Front(calls))

Init ==
    /\ subs = [t \in Types |-> <<>>]
    /\ mu = Unlocked
    /\ stack = [p \in Procs |-> <<>>]
    /\ verified = FALSE

-----------------------------------------------------------------------------
(* Entering the bus and its lock.                                          *)

Call(p) ==
    /\ stack[p] = <<>>
    /\ \E r \in Calls : stack' = [stack EXCEPT ![p] = <<Opened(r)>>]
    /\ UNCHANGED <<subs, mu, verified>>

\* A handler calls the bus, once.
HandlerCall(p) ==
    /\ At(p, "handler") /\ ~Top(p).nested /\ Len(stack[p]) < MaxDepth
    /\ \E r \in HandlerCalls :
          stack' = [stack EXCEPT ![p] =
                       Front(@) \o <<[Top(p) EXCEPT !.nested = TRUE], Opened(r)>>]
    /\ UNCHANGED <<subs, mu, verified>>

AnnounceWriter(p) ==
    /\ Calling(p, "Subscribe")
    /\ Goto(p, "lock", "drain")
    /\ CanAnnounce(mu)
    /\ mu' = Announced(mu, p)
    /\ UNCHANGED <<subs, verified>>

EnterWriter(p) ==
    /\ Goto(p, "drain", "body")
    /\ WriterEnters(mu, p)
    /\ UNCHANGED <<subs, mu, verified>>

EnterReader(p) ==
    /\ ~Calling(p, "Subscribe")
    /\ Goto(p, "lock", "read")
    /\ CanRLock(mu)
    /\ mu' = RLocked(mu, p)
    /\ UNCHANGED <<subs, verified>>

-----------------------------------------------------------------------------
(* Subscribe.                                                              *)

AlreadySubscribed(t, n) == \E i \in DOMAIN subs[t] : subs[t][i] = n

\* Mutant: the lock is let go between the check and the append.
CheckDuplicateMutant(p) ==
    /\ Goto(p, "body", "append")
    /\ ~AlreadySubscribed(Top(p).req.type, Top(p).req.name)
    /\ mu' = Unlock(mu)
    /\ UNCHANGED <<subs, verified>>

\* The loop over the names of the type has found no duplicate.
CheckDuplicate(p) ==
    /\ Goto(p, "body", "append")
    /\ ~AlreadySubscribed(Top(p).req.type, Top(p).req.name)
    /\ UNCHANGED <<subs, mu, verified>>

Register(p) ==
    /\ Goto(p, "append", "unlock")
    /\ subs' = [subs EXCEPT ![Top(p).req.type] = Append(@, Top(p).req.name)]
    /\ UNCHANGED <<mu, verified>>

RefuseDuplicate(p) ==
    /\ Goto(p, "body", "panic")
    /\ AlreadySubscribed(Top(p).req.type, Top(p).req.name)
    /\ UNCHANGED <<subs, mu, verified>>

ExitWriter(p) ==
    /\ At(p, "unlock")
    /\ mu' = Unlock(mu)
    /\ Returned(p)
    /\ UNCHANGED <<subs, verified>>

\* The deferred Unlock runs while the panic unwinds.
ExitPanicking(p) ==
    /\ At(p, "panic")
    /\ mu' = Unlock(mu)
    /\ stack' = [stack EXCEPT ![p] = Unwound(@)]
    /\ UNCHANGED <<subs, verified>>

-----------------------------------------------------------------------------
(* Reading the registry: Subscribers, VerifyWiring and the copy Publish    *)
(* makes.                                                                  *)

CopySubscribers(p) ==
    /\ ~Calling(p, "VerifyWiring")
    /\ At(p, "read")
    /\ Becomes(p, [Top(p) EXCEPT !.at = "runlock", !.subs = subs[Top(p).req.type]])
    /\ UNCHANGED <<subs, mu, verified>>

Missing(t) == {<<t, n>> : n \in RequiredSubscribers[t] \ Registered(t)}

\* Mutant: the registry is asked type by type, each time under the lock.
CheckTypeMutant(p) ==
    /\ Calling(p, "VerifyWiring") /\ At(p, "read")
    /\ Top(p).next <= Len(TypeOrder)
    /\ Becomes(p, [Top(p) EXCEPT !.at = "lock", !.next = @ + 1,
                                 !.errs = @ \cup Missing(TypeOrder[Top(p).next])])
    /\ mu' = RUnlocked(mu, p)
    /\ UNCHANGED <<subs, verified>>

CheckType(p) ==
    /\ Calling(p, "VerifyWiring") /\ At(p, "read")
    /\ Top(p).next <= Len(TypeOrder)
    /\ Becomes(p, [Top(p) EXCEPT !.next = @ + 1,
                                 !.errs = @ \cup Missing(TypeOrder[Top(p).next])])
    /\ UNCHANGED <<subs, mu, verified>>

CheckDone(p) ==
    /\ Calling(p, "VerifyWiring")
    /\ Goto(p, "read", "runlock")
    /\ Top(p).next > Len(TypeOrder)
    /\ UNCHANGED <<subs, mu, verified>>

\* Mutant: handlers run under the read lock.
StartFanOutMutant(p) ==
    /\ Calling(p, "Publish")
    /\ Goto(p, "runlock", "next")
    /\ UNCHANGED <<subs, mu, verified>>

\* Publish lets go of the lock before the first handler runs.
StartFanOut(p) ==
    /\ Calling(p, "Publish")
    /\ Goto(p, "runlock", "next")
    /\ mu' = RUnlocked(mu, p)
    /\ UNCHANGED <<subs, verified>>

ExitReader(p) ==
    /\ ~Calling(p, "Publish") /\ At(p, "runlock")
    /\ mu' = RUnlocked(mu, p)
    /\ Returned(p)
    /\ verified' = (\/ verified
                    \/ Calling(p, "VerifyWiring") /\ Top(p).errs = {})
    /\ UNCHANGED subs

-----------------------------------------------------------------------------
(* The fan-out.                                                            *)

Deliver(p) ==
    /\ Goto(p, "next", "handler")
    /\ Top(p).next <= Len(Top(p).subs)
    /\ UNCHANGED <<subs, mu, verified>>

HandlerReturns(p) ==
    /\ At(p, "handler")
    /\ \E o \in Outcomes \cap {"ok", "error"} : Becomes(p, Ended(Top(p), o = "error"))
    /\ UNCHANGED <<subs, mu, verified>>

HandlerPanics(p) ==
    /\ At(p, "handler") /\ "panic" \in Outcomes
    /\ stack' = [stack EXCEPT ![p] = Recovered(@)]
    /\ UNCHANGED <<subs, mu, verified>>

\* Publish itself panics while it logs the failure, outside deliver.
LoggingPanics(p) ==
    /\ At(p, "handler") /\ "badError" \in Outcomes
    /\ stack' = [stack EXCEPT ![p] = Unwound(@)]
    /\ UNCHANGED <<subs, mu, verified>>

PublishReturns(p) ==
    /\ At(p, "next")
    /\ Top(p).next > Len(Top(p).subs)
    /\ Returned(p)
    /\ UNCHANGED <<subs, mu, verified>>

-----------------------------------------------------------------------------
Step(p) ==
    \/ HandlerCall(p)
    \/ AnnounceWriter(p) \/ EnterWriter(p) \/ EnterReader(p)
    \/ CheckDuplicate(p) \/ Register(p) \/ RefuseDuplicate(p)
    \/ ExitWriter(p) \/ ExitPanicking(p)
    \/ CopySubscribers(p) \/ CheckType(p) \/ CheckDone(p)
    \/ StartFanOut(p) \/ ExitReader(p)
    \/ Deliver(p) \/ HandlerReturns(p) \/ HandlerPanics(p) \/ LoggingPanics(p)
    \/ PublishReturns(p)

Next == \E p \in Procs : Call(p) \/ Step(p)

Spec == Init /\ [][Next]_vars

\* Handlers end, goroutines run, and a lock is not withheld for ever from
\* somebody who keeps waiting for it.
FairSpec ==
    /\ Spec
    /\ \A p \in Procs : WF_vars(Step(p))
    /\ \A p \in Procs : SF_vars(AnnounceWriter(p)) /\ SF_vars(EnterReader(p))

-----------------------------------------------------------------------------
(* What must hold.                                                         *)

Distinct(names) == \A i, j \in DOMAIN names : names[i] = names[j] => i = j

\* No side effect fires twice for one event: neither the registry nor a copy
\* some Publish works through names a subscriber twice, however Subscribe
\* calls race (bus.go:95-98).
OneDeliveryEach ==
    /\ \A t \in Types : Distinct(subs[t])
    /\ \A p \in Procs : \A i \in DOMAIN stack[p] : Distinct(stack[p][i].subs)

\* The subscribers a Publish has reached: those behind it and the running one.
Reached(f) == {f.subs[i] : i \in {i \in DOMAIN f.subs :
                  i < f.next \/ (i = f.next /\ f.at = "handler")}}

\* A Publish that is over, in whatever way, has reached everybody who was
\* subscribed when it was called: no failure of a handler abandons the rest
\* of the fan-out (bus.go:125-138).
FanOutComplete ==
    [][\A p \in Procs : \A i \in DOMAIN stack[p] :
          LET f == stack[p][i]
          IN  i > Len(stack'[p]) /\ f.req.call = "Publish" => f.owed \subseteq Reached(f)]_vars

\* Once VerifyWiring has found nothing missing, nothing goes missing: every
\* later event finds all the subscribers the matrix demands (bus.go:191-198).
VerifiedMeansWired ==
    verified => \A i \in DOMAIN TypeOrder :
                   RequiredSubscribers[TypeOrder[i]] \subseteq Registered(TypeOrder[i])

\* What a caller knows of a call.  Subscribe has taken effect with the append,
\* VerifyWiring with its walk, a Publish with its copy.
PlaceOf(f) ==
    CASE f.at \in {"lock", "drain", "body", "append", "read"} -> "called"
      [] f.at = "unlock" -> "done"
      [] f.at = "panic" -> "refused"
      [] f.at = "runlock" -> IF f.req.call = "Publish" THEN "fanout" ELSE "done"
      [] f.at = "next" -> "fanout"
      [] f.at = "handler" -> "running"

Seen(f) ==
    [req   |-> f.req,
     at    |-> PlaceOf(f),
     names |-> IF f.req.call = "Publish" THEN SubSeq(f.subs, f.next, Len(f.subs)) ELSE f.subs,
     errs  |-> IF PlaceOf(f) = "called" THEN {} ELSE f.errs]

SeenStacks == [p \in Procs |-> [i \in DOMAIN stack[p] |-> Seen(stack[p][i])]]

Atomic == INSTANCE BusAtomic WITH stack <- SeenStacks

\* Concurrent callers see the bus as if each call dealt with the registry at
\* one instant: a verdict of VerifyWiring is about one registry and not about
\* several, an event goes to the subscribers of one, in their order, and all
\* are told although some fail (bus.go:111-112, 125-138, 191-198).
CallsTakeTurns == Atomic!Spec

\* Every call into the bus comes back, handlers that call the bus included:
\* no handler runs under the lock, not even a read lock that a waiting
\* Subscribe would turn into a deadlock (bus.go:140-147).
EveryCallEnds == \A p \in Procs : stack[p] # <<>> ~> stack[p] = <<>>
=============================================================================
