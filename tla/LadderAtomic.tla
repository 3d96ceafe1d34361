----------------------------- MODULE LadderAtomic ----------------------------
(***************************************************************************)
(* What the quota ladder promises its callers: every operation takes       *)
(* effect at one instant between its call and its return, as if the        *)
(* callers took turns.  No lock, no loops; attribution is the waterfall of *)
(* module Waterfall.  QuotaLadder implements this specification under the  *)
(* mapping given in QuotaLadder.                                           *)
(***************************************************************************)
EXTENDS Waterfall

CONSTANTS Procs, Users, Requests, NoRequest, Nothing

VARIABLES held, subs, phase, req, reply

vars == <<held, subs, phase, req, reply>>

Init ==
    /\ held = {}
    /\ subs = [u \in Users |-> <<>>]
    /\ phase = [p \in Procs |-> "idle"]
    /\ req = [p \in Procs |-> NoRequest]
    /\ reply = [p \in Procs |-> Nothing]

Call(p) ==
    /\ phase[p] = "idle"
    /\ phase' = [phase EXCEPT ![p] = "called"]
    /\ \E r \in Requests : req' = [req EXCEPT ![p] = r]
    /\ UNCHANGED <<held, subs, reply>>

Return(p) ==
    /\ phase[p] = "done"
    /\ phase' = [phase EXCEPT ![p] = "idle"]
    /\ req' = [req EXCEPT ![p] = NoRequest]
    /\ reply' = [reply EXCEPT ![p] = Nothing]
    /\ UNCHANGED <<held, subs>>

\* The instant an operation takes effect: the user's list becomes list, the
\* set of known users becomes users, and the caller will be told result.
Effect(p, users, list, result) ==
    /\ held' = users
    /\ subs' = [subs EXCEPT ![req[p].user] = list]
    /\ reply' = [reply EXCEPT ![p] = result]

\* The list with the counter of every known subscription carried over.
Carried(list, old) ==
    [i \in DOMAIN list |->
        [list[i] EXCEPT !.UsedBytes =
            IF HasID(old, list[i].ID)
            THEN (CHOOSE s \in {old[j] : j \in DOMAIN old} : s.ID = list[i].ID).UsedBytes
            ELSE @]]

Install(p) ==
    \E list \in Prepared(req[p].subs) :
        Effect(p, held \cup {req[p].user},
               IF req[p].op = "Sync" THEN Carried(list, subs[req[p].user]) ELSE list,
               Nothing)

\* Each subscription live in the bucket takes what the waterfall gives it;
\* its counter moves only if the bucket belongs to its current period.
Attributed(p) ==
    LET old == subs[req[p].user]
        rows == IF req[p].user \in held
                THEN WaterfallRows(req[p].billed, old, req[p].at)
                ELSE WaterfallRows(req[p].billed, <<>>, req[p].at)
        counted(s) == CountsTowardCurrentPeriod(req[p].at, s.LastResetAt)
    IN  Effect(p, held,
               [i \in DOMAIN old |->
                   IF counted(old[i])
                   THEN [old[i] EXCEPT !.UsedBytes = @ + BilledTo(rows, old[i].ID)]
                   ELSE old[i]],
               [rows |-> rows])

\* Reset and Reconcile act on the one subscription they name, if it is there.
Written(p) ==
    LET old == subs[req[p].user]
        new(s) == IF req[p].op = "Reconcile"
                  THEN [s EXCEPT !.UsedBytes = req[p].used]
                  ELSE [s EXCEPT !.UsedBytes = 0, !.ResetEpoch = req[p].epoch,
                                 !.LastResetAt = AlignBucket(req[p].at)]
    IN  Effect(p, held,
               [i \in DOMAIN old |->
                   IF old[i].ID = req[p].id THEN new(old[i]) ELSE old[i]],
               [found |-> \E i \in DOMAIN old : old[i].ID = req[p].id])

Read(p) ==
    /\ UNCHANGED <<held, subs>>
    /\ reply' = [reply EXCEPT ![p] =
                    IF req[p].op = "Users" THEN [users |-> held]
                                           ELSE [copy |-> subs[req[p].user]]]

Perform(p) ==
    /\ phase[p] = "called"
    /\ phase' = [phase EXCEPT ![p] = "done"]
    /\ UNCHANGED req
    /\ \/ req[p].op \in {"Rebuild", "Sync"} /\ Install(p)
       \/ req[p].op = "Drop" /\ Effect(p, held \ {req[p].user}, <<>>, Nothing)
       \/ req[p].op = "Attribute" /\ Attributed(p)
       \/ req[p].op \in {"Reconcile", "Reset"} /\ Written(p)
       \/ req[p].op \in {"Snapshot", "Users"} /\ Read(p)

Next == \E p \in Procs : Call(p) \/ Perform(p) \/ Return(p)

Spec == Init /\ [][Next]_vars
=============================================================================
