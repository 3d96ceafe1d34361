------------------------------- MODULE BusAtomic -------------------------------
(***************************************************************************)
(* What the bus promises its callers: every call deals with the registry   *)
(* at one instant between its beginning and its end, as if the callers     *)
(* took turns.  A Subscribe registers or refuses, a VerifyWiring judges    *)
(* the whole registry as it is at that instant, and a Publish takes the    *)
(* subscribers it finds and tells every one of them, in the order of       *)
(* registration, whatever becomes of the others.  No lock, no copy, no     *)
(* walk.  EventBus implements this specification under the mapping given   *)
(* there.                                                                  *)
(***************************************************************************)
EXTENDS Integers, Sequences

CONSTANTS Procs, Types, RequiredSubscribers, TypeOrder, Calls, HandlerCalls

VARIABLES subs,   \* the registry
          stack   \* the calls every goroutine is in, innermost last

vars == <<subs, stack>>

\* names: the answer of Subscribers, and who a Publish has still to tell,
\* the running handler first; errs: what the call returns.
Opened(r) == [req |-> r, at |-> "called", names |-> <<>>, errs |-> {}]

Depth(p) == Len(stack[p])
Top(p) == stack[p][Depth(p)]
At(p, place) == stack[p] # <<>> /\ Top(p).at = place

Becomes(p, f) == stack' = [stack EXCEPT ![p][Depth(p)] = f]

\* A handler of the Publish f is over.
Ended(f, failed) ==
    [f EXCEPT !.at = "fanout",
              !.names = Tail(@),
              !.errs = IF failed THEN @ \cup {<<f.req.type, Head(f.names)>>} ELSE @]

Init ==
    /\ subs = [t \in Types |-> <<>>]
    /\ stack = [p \in Procs |-> <<>>]

Call(p) ==
    /\ \/ stack[p] = <<>> /\ \E r \in Calls : stack' = [stack EXCEPT ![p] = <<Opened(r)>>]
       \/ /\ At(p, "running")
          /\ \E r \in HandlerCalls : stack' = [stack EXCEPT ![p] = Append(@, Opened(r))]
    /\ UNCHANGED subs

-----------------------------------------------------------------------------
(* The instants.                                                           *)

Registered(t) == {subs[t][i] : i \in DOMAIN subs[t]}

Subscribe(p) ==
    LET r == Top(p).req
    IN  \/ /\ r.name \notin Registered(r.type)
           /\ subs' = [subs EXCEPT ![r.type] = Append(@, r.name)]
           /\ Becomes(p, [Top(p) EXCEPT !.at = "done"])
        \/ /\ r.name \in Registered(r.type)
           /\ Becomes(p, [Top(p) EXCEPT !.at = "refused"])
           /\ UNCHANGED subs

\* Everything the matrix demands and the registry lacks.
Missing(t) == {<<t, n>> : n \in RequiredSubscribers[t] \ Registered(t)}
AllMissing == UNION {Missing(TypeOrder[i]) : i \in DOMAIN TypeOrder}

VerifyWiring(p) ==
    /\ Becomes(p, [Top(p) EXCEPT !.at = "done", !.errs = AllMissing])
    /\ UNCHANGED subs

TakeNames(p, place) ==
    /\ Becomes(p, [Top(p) EXCEPT !.at = place, !.names = subs[Top(p).req.type]])
    /\ UNCHANGED subs

Perform(p) ==
    /\ At(p, "called")
    /\ \/ Top(p).req.call = "Subscribe" /\ Subscribe(p)
       \/ Top(p).req.call = "VerifyWiring" /\ VerifyWiring(p)
       \/ Top(p).req.call = "Subscribers" /\ TakeNames(p, "done")
       \/ Top(p).req.call = "Publish" /\ TakeNames(p, "fanout")

-----------------------------------------------------------------------------
(* Handlers and returns.                                                   *)

Deliver(p) ==
    /\ At(p, "fanout") /\ Top(p).names # <<>>
    /\ Becomes(p, [Top(p) EXCEPT !.at = "running"])
    /\ UNCHANGED subs

HandlerEnds(p) ==
    /\ At(p, "running")
    /\ \E failed \in BOOLEAN : Becomes(p, Ended(Top(p), failed))
    /\ UNCHANGED subs

\* A Publish returns when nobody is left to be told.
Return(p) ==
    /\ \/ At(p, "done")
       \/ At(p, "fanout") /\ Top(p).names = <<>>
    /\ stack' = [stack EXCEPT ![p] = SubSeq(@, 1, Depth(p) - 1)]
    /\ UNCHANGED subs

\* A refused Subscribe panics, and the handler that made the call with it.
Panic(p) ==
    /\ At(p, "refused")
    /\ stack' = [stack EXCEPT ![p] =
                    [i \in 1 .. Depth(p) - 1 |->
                        IF i = Depth(p) - 1 THEN Ended(@[i], TRUE) ELSE @[i]]]
    /\ UNCHANGED subs

Next == \E p \in Procs :
           Call(p) \/ Perform(p) \/ Deliver(p) \/ HandlerEnds(p) \/ Return(p) \/ Panic(p)

Spec == Init /\ [][Next]_vars
=============================================================================
