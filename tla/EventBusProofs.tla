---------------------------- MODULE EventBusProofs ----------------------------
(***************************************************************************)
(* EventBus, for every set of goroutines, event types, subscribers and     *)
(* calls, and any depth of nesting: who holds the lock, that a fan-out     *)
(* names nobody twice and forgets nobody, that what VerifyWiring has found *)
(* stays true, and that no caller can tell the bus from BusAtomic.         *)
(***************************************************************************)
EXTENDS EventBus, SequenceTheorems, TLAPS

-----------------------------------------------------------------------------
(* The inductive invariant.                                                *)

TypeOK ==
    /\ subs \in [Types -> Seq(Names)]
    /\ mu \in RWMutexType
    /\ stack \in [Procs -> Seq(Frames)]
    /\ verified \in BOOLEAN

InWriter == {"drain", "body", "append", "unlock", "panic"}
InReader == {"read", "runlock"}
InFanOut == {"next", "handler"}

\* Which method a frame can be in at each place.
PlaceInv(f) ==
    /\ f.at \in InWriter => f.req.call = "Subscribe"
    /\ f.at \in InReader => f.req.call # "Subscribe"
    /\ f.at \in InFanOut => f.req.call = "Publish"

\* A copy of the registry has everybody the call owes the event to, once.
CopyInv(f) ==
    /\ Distinct(f.subs)
    /\ f.owed \subseteq Registered(f.req.type)
    /\ f.req.call = "Publish" /\ f.at \in InFanOut \cup {"runlock"} =>
          f.owed \subseteq {f.subs[i] : i \in DOMAIN f.subs}
    /\ f.at = "handler" => f.next <= Len(f.subs)

Wired(t) == RequiredSubscribers[t] \subseteq Registered(t)

\* What a VerifyWiring that has found nothing missing has looked at.
CheckInv(f) ==
    f.req.call = "VerifyWiring" /\ f.at \in {"lock"} \cup InReader /\ f.errs = {} =>
        /\ \A i \in DOMAIN TypeOrder : i < f.next => Wired(TypeOrder[i])
        /\ f.at = "runlock" => Len(TypeOrder) < f.next

FrameInv(f) == PlaceInv(f) /\ CopyInv(f) /\ CheckInv(f)

\* Every call but the innermost waits in a handler.
StackInv ==
    \A p \in Procs : \A i \in DOMAIN stack[p] :
        /\ FrameInv(stack[p][i])
        /\ i < Len(stack[p]) => stack[p][i].at = "handler"

\* The innermost call of p is somewhere in places.
Within(p, places) == stack[p] # <<>> /\ Top(p).at \in places

\* The lock knows who is inside; past its drain, a writer is alone.
LockInv ==
    \A p \in Procs :
        /\ mu.writer = p <=> Within(p, InWriter)
        /\ mu.readers[p] = IF Within(p, InReader) THEN 1 ELSE 0
        /\ Within(p, InWriter \ {"drain"}) => \A r \in Procs : mu.readers[r] = 0

RegistryInv == \A t \in Types : Distinct(subs[t])

Waiting == {"lock", "drain", "body", "append", "read"}

\* What a walk over the matrix finds missing before it comes to the n-th type.
Walked(n) == UNION {Missing(TypeOrder[i]) : i \in {i \in DOMAIN TypeOrder : i < n}}

\* Before its instant a call has no copy and nothing to report; VerifyWiring
\* has walked part of the way over the registry as it is, and the name a
\* Subscribe is about to append is still missing from it.
WalkInv(f) ==
    f.at \in Waiting =>
        /\ f.subs = <<>>
        /\ f.at = "lock" \/ f.req.call # "VerifyWiring" => f.next = 1 /\ f.errs = {}
        /\ f.at = "read" /\ f.req.call = "VerifyWiring" => f.errs = Walked(f.next)
        /\ f.at = "append" => ~AlreadySubscribed(f.req.type, f.req.name)

WalksInv == \A p \in Procs : stack[p] # <<>> => WalkInv(Top(p))

IInv ==
    /\ TypeOK /\ StackInv /\ LockInv /\ RegistryInv /\ WalksInv
    /\ VerifiedMeansWired

-----------------------------------------------------------------------------
(* Stacks.                                                                 *)

\* Returning leaves the calls below.
LEMMA TopRemoved ==
    ASSUME NEW S, NEW s \in Seq(S), s # <<>>
    PROVE  /\ Len(s) \in Nat \ {0}
           /\ DOMAIN s = 1 .. Len(s)
           /\ Front(s) \in Seq(S)
           /\ Len(Front(s)) = Len(s) - 1
           /\ \A i \in 1 .. Len(s) - 1 : Front(s)[i] = s[i]
<1>1. Len(s) \in Nat \ {0} /\ DOMAIN s = 1 .. Len(s) /\ \A i \in 1 .. Len(s) : s[i] \in S
    OBVIOUS
<1>2. QED
    BY <1>1 DEF Front

\* Replacing the innermost call leaves the others alone.
LEMMA TopReplaced ==
    ASSUME NEW S, NEW s \in Seq(S), s # <<>>, NEW g \in S
    PROVE  LET n == Append(Front(s), g)
           IN  /\ n \in Seq(S)
               /\ n # <<>>
               /\ Len(n) = Len(s)
               /\ \A i \in 1 .. Len(s) : n[i] = IF i = Len(s) THEN g ELSE s[i]
<1>1. PICK f \in Seq(S) : f = Front(s)
    BY TopRemoved
<1>2. /\ Len(s) \in Nat \ {0}
      /\ Len(f) = Len(s) - 1
      /\ \A i \in 1 .. Len(s) - 1 : f[i] = s[i]
    BY <1>1, TopRemoved
<1>3. /\ Append(f, g) \in Seq(S)
      /\ Append(f, g) # <<>>
      /\ Len(Append(f, g)) = Len(f) + 1
      /\ \A i \in 1 .. Len(f) : Append(f, g)[i] = f[i]
      /\ Append(f, g)[Len(f) + 1] = g
    BY AppendProperties
<1>4. QED
    BY <1>1, <1>2, <1>3

\* A handler's call goes on top of the Publish that runs the handler.
LEMMA TopJoined ==
    ASSUME NEW S, NEW s \in Seq(S), s # <<>>, NEW g \in S, NEW h \in S
    PROVE  LET n == Front(s) \o <<g, h>>
           IN  /\ n \in Seq(S)
               /\ Len(n) = Len(s) + 1
               /\ \A i \in 1 .. Len(s) + 1 :
                     n[i] = IF i = Len(s) + 1 THEN h ELSE IF i = Len(s) THEN g ELSE s[i]
<1>1. PICK f \in Seq(S) : f = Front(s)
    BY TopRemoved
<1>2. /\ Len(s) \in Nat \ {0}
      /\ Len(f) = Len(s) - 1
      /\ \A i \in 1 .. Len(s) - 1 : f[i] = s[i]
    BY <1>1, TopRemoved
<1>3. <<g, h>> \in Seq(S) /\ Len(<<g, h>>) = 2 /\ <<g, h>>[1] = g /\ <<g, h>>[2] = h
    OBVIOUS
<1>4. PICK t \in Seq(S) : t = <<g, h>> /\ Len(t) = 2 /\ t[1] = g /\ t[2] = h
    BY <1>3
<1>5. /\ f \o t \in Seq(S)
      /\ Len(f \o t) = Len(f) + Len(t)
      /\ \A i \in 1 .. Len(f) + Len(t) :
            (f \o t)[i] = IF i <= Len(f) THEN f[i] ELSE t[i - Len(f)]
    BY ConcatProperties
<1>6. \A i \in 1 .. Len(s) + 1 :
         (f \o t)[i] = IF i = Len(s) + 1 THEN h ELSE IF i = Len(s) THEN g ELSE s[i]
    BY <1>2, <1>4, <1>5
<1>7. QED
    BY <1>1, <1>2, <1>4, <1>5, <1>6

-----------------------------------------------------------------------------
(* Frames.                                                                 *)

\* What a frame has seen stays true while the registry only grows, which is
\* all that ever happens to it (bus.go:108).
LEMMA FrameKept ==
    ASSUME NEW f \in Frames, FrameInv(f),
           \A t \in Types : Registered(t) \subseteq Registered(t)'
    PROVE  FrameInv(f)'
<1>1. f.req.type \in Types /\ \A i \in DOMAIN TypeOrder : TypeOrder[i] \in Types
    BY EventBusAssumption DEF Frames, Requests
<1>2. PlaceInv(f)'
    BY DEF FrameInv, PlaceInv
<1>3. CopyInv(f)'
    BY <1>1 DEF FrameInv, CopyInv, Distinct
<1>4. CheckInv(f)'
    BY <1>1 DEF FrameInv, CheckInv, Wired
<1>5. QED
    BY <1>2, <1>3, <1>4 DEF FrameInv

LEMMA FrameKeptAsIs ==
    ASSUME NEW f \in Frames, FrameInv(f), UNCHANGED subs
    PROVE  FrameInv(f)'
BY FrameKept DEF Registered

\* A call that has just been made (bus.go:99, 113, 139, 199).
LEMMA OpenedFrame ==
    ASSUME TypeOK, NEW r \in Requests
    PROVE  Opened(r) \in Frames /\ FrameInv(Opened(r)) /\ Opened(r).at = "lock"
<1>1. r.type \in Types /\ Registered(r.type) \subseteq Names
    BY DEF TypeOK, Registered, Requests
<1>2. Opened(r) \in Frames
    BY <1>1 DEF Opened, Frames, Places
<1>3. FrameInv(Opened(r))
    <2>1. \A i \in DOMAIN TypeOrder : ~(i < 1)
        BY EventBusAssumption
    <2>2. QED
        BY <2>1 DEF Opened, FrameInv, PlaceInv, CopyInv, CheckInv, Distinct,
                    InWriter, InReader, InFanOut
<1>4. QED
    BY <1>2, <1>3 DEF Opened

\* A frame that goes on elsewhere.
LEMMA RelocatedFrame ==
    ASSUME NEW f \in Frames, NEW place \in Places
    PROVE  LET g == [f EXCEPT !.at = place]
           IN  /\ g \in Frames
               /\ g.req = f.req /\ g.at = place /\ g.subs = f.subs
               /\ g.next = f.next /\ g.errs = f.errs /\ g.owed = f.owed
BY DEF Frames

\* A handler that has ended leaves its Publish with the next one to run.
LEMMA EndedFrame ==
    ASSUME NEW f \in Frames, FrameInv(f), f.at = "handler", NEW failed \in BOOLEAN
    PROVE  /\ Ended(f, failed) \in Frames
           /\ FrameInv(Ended(f, failed))
           /\ Ended(f, failed).at = "next"
<1> DEFINE g == Ended(f, failed)
           culprit == <<f.req.type, f.subs[f.next]>>
<1>1. f.next \in DOMAIN f.subs /\ f.req.call = "Publish"
    <2>1. f.subs \in Seq(Names) /\ f.next \in Nat \ {0}
        BY DEF Frames
    <2>2. f.next <= Len(f.subs) /\ f.req.call = "Publish"
        BY DEF FrameInv, PlaceInv, CopyInv, InFanOut
    <2>3. QED
        BY <2>1, <2>2
<1>2. culprit \in Types \X Names
    BY <1>1 DEF Frames, Requests
<1> HIDE DEF culprit
<1>3. PICK e \in SUBSET (Types \X Names) :
         g = [f EXCEPT !.at = "next", !.next = f.next + 1, !.nested = FALSE, !.errs = e]
    <2>1. CASE failed
        BY <1>2, <2>1 DEF Ended, Frames, culprit
    <2>2. CASE ~failed
        BY <2>2 DEF Ended, Frames
    <2>3. QED
        BY <2>1, <2>2
<1> HIDE DEF g
<1>4. /\ g \in Frames
      /\ g.at = "next" /\ g.req = f.req /\ g.subs = f.subs /\ g.owed = f.owed
    <2>1. "next" \in Places /\ f.next + 1 \in Nat \ {0}
        BY DEF Places, Frames
    <2>2. PICK n \in Nat \ {0} : n = f.next + 1
        BY <2>1
    <2>3. PICK place \in Places : place = "next"
        BY <2>1
    <2>4. g = [f EXCEPT !.at = place, !.next = n, !.nested = FALSE, !.errs = e]
        BY <1>3, <2>2, <2>3
    <2>5. g \in Frames
        BY <2>4 DEF Frames
    <2>6. QED
        BY <2>3, <2>4, <2>5 DEF Frames
<1>5. FrameInv(g)
    BY <1>1, <1>4 DEF FrameInv, PlaceInv, CopyInv, CheckInv, InWriter, InReader, InFanOut
<1>6. QED
    BY <1>4, <1>5 DEF g

-----------------------------------------------------------------------------
(* What a step does to the stacks.                                         *)

\* The stack of p becomes n and nobody else's changes.
LEMMA StackBecomes ==
    ASSUME TypeOK, StackInv, NEW p \in Procs, NEW n \in Seq(Frames),
           stack' = [stack EXCEPT ![p] = n],
           \A f \in Frames : FrameInv(f) => FrameInv(f)',
           \A i \in 1 .. Len(n) : FrameInv(n[i])',
           \A i \in 1 .. Len(n) - 1 : n[i].at = "handler"
    PROVE  /\ stack' \in [Procs -> Seq(Frames)]
           /\ StackInv'
           /\ stack'[p] = n
           /\ \A q \in Procs : q # p => stack'[q] = stack[q]
<1>1. stack \in [Procs -> Seq(Frames)]
    BY DEF TypeOK
<1>2. /\ stack' \in [Procs -> Seq(Frames)]
      /\ stack'[p] = n
      /\ \A q \in Procs : q # p => stack'[q] = stack[q]
    BY <1>1
<1>3. ASSUME NEW q \in Procs, NEW i \in DOMAIN stack'[q]
      PROVE  \E f \in Frames : /\ f = stack'[q][i]
                               /\ FrameInv(f)'
                               /\ i < Len(stack'[q]) => f.at = "handler"
    <2>1. CASE q = p
        <3>1. i \in 1 .. Len(n) /\ n[i] \in Frames
            BY <1>2, <1>3, <2>1
        <3>2. FrameInv(n[i])' /\ (i < Len(n) => n[i].at = "handler")
            BY <3>1
        <3>3. QED
            BY <1>2, <2>1, <3>1, <3>2
    <2>2. CASE q # p
        <3>1. /\ i \in DOMAIN stack[q]
              /\ stack'[q][i] = stack[q][i]
              /\ Len(stack'[q]) = Len(stack[q])
            BY <1>2, <1>3, <2>2
        <3>2. PICK f \in Frames : f = stack[q][i]
            BY <1>1, <3>1
        <3>3. FrameInv(f) /\ (i < Len(stack[q]) => f.at = "handler")
            BY <3>1, <3>2 DEF StackInv
        <3>4. FrameInv(f)'
            BY <3>3
        <3>5. QED
            BY <3>1, <3>2, <3>3, <3>4
    <2>3. QED
        BY <2>1, <2>2
<1>4. StackInv'
    <2>1. ASSUME NEW q \in Procs, NEW i \in DOMAIN stack'[q]
          PROVE  FrameInv(stack[q][i])' /\ (i < Len(stack'[q]) => stack'[q][i].at = "handler")
        <3>1. PICK f \in Frames : /\ f = stack'[q][i]
                                  /\ FrameInv(f)'
                                  /\ i < Len(stack'[q]) => f.at = "handler"
            BY <1>3, <2>1
        <3>2. FrameInv(stack[q][i])'
            BY <3>1 DEF FrameInv, PlaceInv, CopyInv, CheckInv
        <3>3. QED
            BY <3>1, <3>2
    <2>2. QED
        BY <2>1 DEF StackInv
<1>5. QED
    BY <1>2, <1>4

\* The innermost call of somebody who is in a call.
LEMMA TopFrame ==
    ASSUME TypeOK, StackInv, NEW p \in Procs, stack[p] # <<>>
    PROVE  /\ stack[p] \in Seq(Frames)
           /\ Len(stack[p]) \in Nat \ {0}
           /\ DOMAIN stack[p] = 1 .. Len(stack[p])
           /\ \A i \in 1 .. Len(stack[p]) : stack[p][i] \in Frames /\ FrameInv(stack[p][i])
           /\ \A i \in 1 .. Len(stack[p]) - 1 : stack[p][i].at = "handler"
           /\ Top(p) \in Frames
           /\ FrameInv(Top(p))
<1>1. /\ stack[p] \in Seq(Frames)
      /\ Len(stack[p]) \in Nat \ {0}
      /\ DOMAIN stack[p] = 1 .. Len(stack[p])
      /\ \A i \in 1 .. Len(stack[p]) : stack[p][i] \in Frames
    BY TopRemoved DEF TypeOK
<1>2. /\ \A i \in 1 .. Len(stack[p]) : FrameInv(stack[p][i])
      /\ \A i \in 1 .. Len(stack[p]) - 1 : stack[p][i].at = "handler"
    BY <1>1 DEF StackInv
<1>3. QED
    BY <1>1, <1>2 DEF Top

\* The innermost call of p goes on as g.
LEMMA TopBecomes ==
    ASSUME TypeOK, StackInv, NEW p \in Procs, stack[p] # <<>>, NEW g \in Frames,
           Becomes(p, g), FrameInv(g)',
           \A f \in Frames : FrameInv(f) => FrameInv(f)'
    PROVE  /\ stack' \in [Procs -> Seq(Frames)]
           /\ StackInv'
           /\ \A places : Within(p, places)' <=> g.at \in places
           /\ \A q \in Procs : q # p => stack'[q] = stack[q]
<1>1. PICK s \in Seq(Frames) : s = stack[p]
    BY DEF TypeOK
<1>2. PICK n \in Seq(Frames) : n = Append(Front(s), g)
    BY <1>1, TopReplaced
<1>3. /\ n # <<>>
      /\ Len(n) = Len(s) /\ Len(s) \in Nat \ {0}
      /\ \A i \in 1 .. Len(s) : n[i] = IF i = Len(s) THEN g ELSE s[i]
    BY <1>1, <1>2, TopReplaced, TopRemoved
<1>4. stack' = [stack EXCEPT ![p] = n]
    BY <1>1, <1>2 DEF Becomes
<1>5. \A i \in 1 .. Len(n) : FrameInv(n[i])'
    <2>1. TAKE i \in 1 .. Len(n)
    <2>2. CASE i = Len(s)
        BY <1>3, <2>2
    <2>3. CASE i # Len(s)
        <3>1. n[i] = s[i] /\ s[i] \in Frames /\ FrameInv(s[i])
            BY <1>1, <1>3, <2>3, TopFrame
        <3>2. QED
            BY <3>1
    <2>4. QED
        BY <2>2, <2>3
<1>6. \A i \in 1 .. Len(n) - 1 : n[i].at = "handler"
    BY <1>1, <1>3, TopFrame
<1>7. /\ stack' \in [Procs -> Seq(Frames)]
      /\ StackInv'
      /\ stack'[p] = n
      /\ \A q \in Procs : q # p => stack'[q] = stack[q]
    BY <1>4, <1>5, <1>6, StackBecomes
<1>8. Top(p)' = g
    BY <1>3, <1>7 DEF Top
<1>9. QED
    BY <1>3, <1>7, <1>8 DEF Within

\* The innermost call of p is over.
LEMMA TopReturns ==
    ASSUME TypeOK, StackInv, NEW p \in Procs, stack[p] # <<>>, Returned(p), UNCHANGED subs
    PROVE  /\ stack' \in [Procs -> Seq(Frames)]
           /\ StackInv'
           /\ \A places : Within(p, places)' => "handler" \in places
           /\ \A q \in Procs : q # p => stack'[q] = stack[q]
<1>1. PICK s \in Seq(Frames) : s = stack[p]
    BY DEF TypeOK
<1>2. PICK n \in Seq(Frames) : n = Front(s)
    BY <1>1, TopRemoved
<1>3. /\ Len(s) \in Nat \ {0} /\ Len(n) = Len(s) - 1
      /\ \A i \in 1 .. Len(s) - 1 : n[i] = s[i]
    BY <1>1, <1>2, TopRemoved
<1>4. stack' = [stack EXCEPT ![p] = n]
    BY <1>1, <1>2 DEF Returned
<1>5. \A i \in 1 .. Len(n) : n[i] \in Frames /\ FrameInv(n[i]) /\ n[i].at = "handler"
    BY <1>1, <1>3, TopFrame
<1>6. \A f \in Frames : FrameInv(f) => FrameInv(f)'
    BY FrameKeptAsIs
<1>7. \A i \in 1 .. Len(n) : FrameInv(n[i])'
    BY <1>5, <1>6
<1>8. \A i \in 1 .. Len(n) - 1 : n[i].at = "handler"
    BY <1>3, <1>5
<1>9. /\ stack' \in [Procs -> Seq(Frames)]
      /\ StackInv'
      /\ stack'[p] = n
      /\ \A q \in Procs : q # p => stack'[q] = stack[q]
    BY <1>4, <1>6, <1>7, <1>8, StackBecomes
<1>10. n # <<>> => Len(n) \in 1 .. Len(n)
    OBVIOUS
<1>11. QED
    BY <1>5, <1>9, <1>10 DEF Within, Top

\* A panic that leaves the innermost call of p ends it, and stops in the
\* handler that made the call (bus.go:160-167).
LEMMA TopUnwinds ==
    ASSUME TypeOK, StackInv, NEW p \in Procs, stack[p] # <<>>,
           stack' = [stack EXCEPT ![p] = Unwound(@)], UNCHANGED subs
    PROVE  /\ stack' \in [Procs -> Seq(Frames)]
           /\ StackInv'
           /\ \A places : Within(p, places)' => "next" \in places
           /\ \A q \in Procs : q # p => stack'[q] = stack[q]
<1>1. PICK s \in Seq(Frames) : s = stack[p]
    BY DEF TypeOK
<1>2. PICK below \in Seq(Frames) : below = Front(s)
    BY <1>1, TopRemoved
<1>3. /\ Len(s) \in Nat \ {0} /\ Len(below) = Len(s) - 1
      /\ \A i \in 1 .. Len(s) - 1 : below[i] = s[i]
    BY <1>1, <1>2, TopRemoved
<1>4. \A f \in Frames : FrameInv(f) => FrameInv(f)'
    BY FrameKeptAsIs
<1>5. \A i \in 1 .. Len(below) :
         below[i] \in Frames /\ FrameInv(below[i]) /\ below[i].at = "handler"
    BY <1>1, <1>3, TopFrame
<1>6. CASE Len(s) = 1
    <2>1. PICK n \in Seq(Frames) : n = <<>>
        BY EmptySeq
    <2>2. stack' = [stack EXCEPT ![p] = n] /\ Len(n) = 0
        BY <1>1, <1>6, <2>1 DEF Unwound
    <2>3. (\A i \in 1 .. Len(n) : FrameInv(n[i])')
        BY <2>2
    <2>4. \A i \in 1 .. Len(n) - 1 : n[i].at = "handler"
        BY <2>2
    <2>5. /\ stack' \in [Procs -> Seq(Frames)]
          /\ StackInv'
          /\ stack'[p] = n
          /\ \A q \in Procs : q # p => stack'[q] = stack[q]
        BY <1>4, <2>2, <2>3, <2>4, StackBecomes
    <2>6. QED
        BY <2>1, <2>5 DEF Within
<1>7. CASE Len(s) # 1
    <2>1. below # <<>> /\ Len(below) \in 1 .. Len(below)
        BY <1>3, <1>7
    <2>2. PICK f \in Frames : f = below[Len(below)]
        BY <1>5, <2>1
    <2>3. FrameInv(f) /\ f.at = "handler"
        BY <1>5, <2>1, <2>2
    <2>4. PICK g \in Frames : g = Ended(f, TRUE)
        BY <2>3, EndedFrame
    <2>5. FrameInv(g) /\ g.at = "next"
        BY <2>3, <2>4, EndedFrame
    <2>6. PICK n \in Seq(Frames) : n = Append(Front(below), g)
        BY <2>1, TopReplaced
    <2>7. /\ n # <<>> /\ Len(n) = Len(below)
          /\ \A i \in 1 .. Len(below) : n[i] = IF i = Len(below) THEN g ELSE below[i]
        BY <2>1, <2>6, TopReplaced
    <2>8. Unwound(s) = n
        BY <1>2, <1>7, <2>2, <2>4, <2>6 DEF Unwound, Recovered, Last
    <2>9. stack' = [stack EXCEPT ![p] = n]
        BY <1>1, <2>8
    <2>10. \A i \in 1 .. Len(n) : n[i] \in Frames /\ FrameInv(n[i])
        BY <1>5, <2>5, <2>7
    <2>11. \A i \in 1 .. Len(n) : FrameInv(n[i])'
        BY <1>4, <2>10
    <2>12. \A i \in 1 .. Len(n) - 1 : n[i].at = "handler"
        BY <1>5, <2>7
    <2>13. /\ stack' \in [Procs -> Seq(Frames)]
           /\ StackInv'
           /\ stack'[p] = n
           /\ \A q \in Procs : q # p => stack'[q] = stack[q]
        BY <1>4, <2>9, <2>11, <2>12, StackBecomes
    <2>14. Top(p)' = g
        BY <2>1, <2>7, <2>13 DEF Top
    <2>15. QED
        BY <2>5, <2>13, <2>14 DEF Within
<1>8. QED
    BY <1>6, <1>7

-----------------------------------------------------------------------------
(* The lock.                                                               *)

\* A step of p that neither enters nor leaves the lock.
LEMMA LockKept ==
    ASSUME LockInv, NEW p \in Procs, UNCHANGED mu,
           \A q \in Procs : q # p => stack'[q] = stack[q],
           Within(p, InWriter)' <=> Within(p, InWriter),
           Within(p, InReader)' <=> Within(p, InReader),
           Within(p, InWriter \ {"drain"})' => Within(p, InWriter \ {"drain"})
    PROVE  LockInv'
<1>1. \A places : \A q \in Procs : q # p => (Within(q, places)' <=> Within(q, places))
    BY DEF Within, Top
<1> SUFFICES ASSUME NEW q \in Procs
             PROVE  /\ mu'.writer = q <=> Within(q, InWriter)'
                    /\ mu'.readers[q] = IF Within(q, InReader)' THEN 1 ELSE 0
                    /\ Within(q, InWriter \ {"drain"})' => \A r \in Procs : mu'.readers[r] = 0
    BY DEF LockInv
<1>2. CASE q = p
    BY <1>2 DEF LockInv
<1>3. CASE q # p
    BY <1>1, <1>3 DEF LockInv
<1>4. QED
    BY <1>2, <1>3

\* A writer takes the lock, and leaves it to others when it is done.
LEMMA WriterComes ==
    ASSUME LockInv, mu \in RWMutexType, NEW p \in Procs,
           CanAnnounce(mu), mu' = Announced(mu, p),
           \A q \in Procs : q # p => stack'[q] = stack[q],
           Within(p, InWriter)', ~Within(p, InReader), ~Within(p, InReader)',
           ~Within(p, InWriter \ {"drain"})'
    PROVE  mu' \in RWMutexType /\ LockInv'
<1>1. \A places : \A q \in Procs : q # p => (Within(q, places)' <=> Within(q, places))
    BY DEF Within, Top
<1>2. /\ mu' \in RWMutexType /\ mu'.writer = p /\ mu'.readers = mu.readers
      /\ mu.writer = NoProc
    BY DEF CanAnnounce, Announced, RWMutexType
<1>3. \A q \in Procs : ~Within(q, InWriter)
    BY <1>2, RWMutexAssumption DEF LockInv
<1>4. \A q \in Procs : ~Within(q, InWriter \ {"drain"})
    BY <1>3 DEF Within
<1> SUFFICES ASSUME NEW q \in Procs
             PROVE  /\ mu'.writer = q <=> Within(q, InWriter)'
                    /\ mu'.readers[q] = IF Within(q, InReader)' THEN 1 ELSE 0
                    /\ Within(q, InWriter \ {"drain"})' => \A r \in Procs : mu'.readers[r] = 0
    BY <1>2 DEF LockInv
<1>5. CASE q = p
    BY <1>2, <1>5 DEF LockInv
<1>6. CASE q # p
    BY <1>1, <1>2, <1>3, <1>4, <1>6 DEF LockInv
<1>7. QED
    BY <1>5, <1>6

LEMMA WriterGoes ==
    ASSUME LockInv, mu \in RWMutexType, NEW p \in Procs,
           Within(p, InWriter), mu' = Unlock(mu),
           \A q \in Procs : q # p => stack'[q] = stack[q],
           ~Within(p, InReader), \A places : Within(p, places)' => places \cap InFanOut # {}
    PROVE  mu' \in RWMutexType /\ LockInv'
<1>1. \A places : \A q \in Procs : q # p => (Within(q, places)' <=> Within(q, places))
    BY DEF Within, Top
<1>2. /\ mu' \in RWMutexType /\ mu'.writer = NoProc /\ mu'.readers = mu.readers
      /\ mu.writer = p
    BY DEF Unlock, RWMutexType, LockInv
<1>3. ~Within(p, InWriter)' /\ ~Within(p, InReader)' /\ ~Within(p, InWriter \ {"drain"})'
    BY DEF InWriter, InReader, InFanOut
<1> SUFFICES ASSUME NEW q \in Procs
             PROVE  /\ mu'.writer = q <=> Within(q, InWriter)'
                    /\ mu'.readers[q] = IF Within(q, InReader)' THEN 1 ELSE 0
                    /\ Within(q, InWriter \ {"drain"})' => \A r \in Procs : mu'.readers[r] = 0
    BY <1>2 DEF LockInv
<1>4. CASE q = p
    BY <1>2, <1>3, <1>4, RWMutexAssumption DEF LockInv
<1>5. CASE q # p
    BY <1>1, <1>2, <1>5, RWMutexAssumption DEF LockInv
<1>6. QED
    BY <1>4, <1>5

\* A reader comes in while there is no writer, and goes.
LEMMA ReaderComes ==
    ASSUME LockInv, mu \in RWMutexType, NEW p \in Procs,
           CanRLock(mu), mu' = RLocked(mu, p),
           \A q \in Procs : q # p => stack'[q] = stack[q],
           ~Within(p, InReader), Within(p, InReader)', ~Within(p, InWriter)',
           ~Within(p, InWriter \ {"drain"})'
    PROVE  mu' \in RWMutexType /\ LockInv'
<1>1. \A places : \A q \in Procs : q # p => (Within(q, places)' <=> Within(q, places))
    BY DEF Within, Top
<1>2. mu.writer = NoProc /\ mu.readers \in [Procs -> Nat] /\ mu.readers[p] = 0
    BY DEF CanRLock, RWMutexType, LockInv
<1>3. /\ mu' \in RWMutexType /\ mu'.writer = NoProc
      /\ mu'.readers = [mu.readers EXCEPT ![p] = 1]
    BY <1>2 DEF RLocked, RWMutexType
<1>4. \A q \in Procs : ~Within(q, InWriter)
    BY <1>2, RWMutexAssumption DEF LockInv
<1>5. \A q \in Procs : ~Within(q, InWriter \ {"drain"})
    BY <1>4 DEF Within
<1> SUFFICES ASSUME NEW q \in Procs
             PROVE  /\ mu'.writer = q <=> Within(q, InWriter)'
                    /\ mu'.readers[q] = IF Within(q, InReader)' THEN 1 ELSE 0
                    /\ Within(q, InWriter \ {"drain"})' => \A r \in Procs : mu'.readers[r] = 0
    BY <1>3 DEF LockInv
<1>6. CASE q = p
    BY <1>2, <1>3, <1>6, RWMutexAssumption DEF LockInv
<1>7. CASE q # p
    BY <1>1, <1>2, <1>3, <1>4, <1>5, <1>7, RWMutexAssumption DEF LockInv
<1>8. QED
    BY <1>6, <1>7

LEMMA ReaderGoes ==
    ASSUME LockInv, mu \in RWMutexType, NEW p \in Procs,
           Within(p, InReader), mu' = RUnlocked(mu, p),
           \A q \in Procs : q # p => stack'[q] = stack[q],
           ~Within(p, InWriter), \A places : Within(p, places)' => places \cap InFanOut # {}
    PROVE  mu' \in RWMutexType /\ LockInv'
<1>1. \A places : \A q \in Procs : q # p => (Within(q, places)' <=> Within(q, places))
    BY DEF Within, Top
<1>2. mu.readers \in [Procs -> Nat] /\ mu.readers[p] = 1
    BY DEF RWMutexType, LockInv
<1>3. /\ mu' \in RWMutexType /\ mu'.writer = mu.writer
      /\ mu'.readers = [mu.readers EXCEPT ![p] = 0]
    BY <1>2 DEF RUnlocked, RWMutexType
<1>4. ~Within(p, InWriter)' /\ ~Within(p, InReader)' /\ ~Within(p, InWriter \ {"drain"})'
    BY DEF InWriter, InReader, InFanOut
<1> SUFFICES ASSUME NEW q \in Procs
             PROVE  /\ mu'.writer = q <=> Within(q, InWriter)'
                    /\ mu'.readers[q] = IF Within(q, InReader)' THEN 1 ELSE 0
                    /\ Within(q, InWriter \ {"drain"})' => \A r \in Procs : mu'.readers[r] = 0
    BY <1>3 DEF LockInv
<1>5. CASE q = p
    BY <1>2, <1>3, <1>4, <1>5 DEF LockInv
<1>6. CASE q # p
    <2>1. mu'.readers[q] = mu.readers[q]
        BY <1>2, <1>3, <1>6
    <2>2. \A r \in Procs : mu.readers[r] = 0 => mu'.readers[r] = 0
        BY <1>2, <1>3
    <2>3. QED
        BY <1>1, <1>3, <1>6, <2>1, <2>2 DEF LockInv
<1>7. QED
    BY <1>5, <1>6

-----------------------------------------------------------------------------
(* Every step keeps who is where, and what the registry is good for.       *)

BusInv == TypeOK /\ StackInv /\ LockInv

\* At and Within say the same thing of one place.
LEMMA AtIsWithin ==
    ASSUME NEW p, NEW place, At(p, place)
    PROVE  /\ stack[p] # <<>> /\ Top(p).at = place
           /\ \A places : Within(p, places) <=> place \in places
BY DEF At, Within

\* The bus starts empty and unlocked (bus.go:81-87).
LEMMA InitBus == Init => BusInv
<1> SUFFICES ASSUME Init PROVE BusInv
    OBVIOUS
<1>1. mu \in RWMutexType /\ mu.writer = NoProc /\ \A p \in Procs : mu.readers[p] = 0
    BY DEF Init, RWMutexType, Unlocked
<1>2. TypeOK
    BY <1>1, EmptySeq DEF Init, TypeOK
<1>3. \A p \in Procs : stack[p] = <<>>
    BY DEF Init
<1>4. StackInv /\ LockInv
    BY <1>1, <1>3, RWMutexAssumption DEF StackInv, LockInv, Within
<1>5. QED
    BY <1>2, <1>4 DEF BusInv

\* A goroutine calls the bus (bus.go:99, 113, 139, 199).
LEMMA CallKeeps ==
    ASSUME BusInv, NEW p \in Procs, Call(p)
    PROVE  BusInv'
<1>1. PICK r \in Calls : stack[p] = <<>> /\ stack' = [stack EXCEPT ![p] = <<Opened(r)>>]
    BY DEF Call
<1>2. r \in Requests
    BY EventBusAssumption
<1>3. PICK f \in Frames : f = Opened(r) /\ FrameInv(f) /\ f.at = "lock"
    BY <1>2, OpenedFrame DEF BusInv
<1>4. \A g \in Frames : FrameInv(g) => FrameInv(g)'
    BY FrameKeptAsIs DEF Call
<1>5. <<f>> \in Seq(Frames) /\ Len(<<f>>) = 1 /\ <<f>>[1] = f
    OBVIOUS
<1>6. PICK n \in Seq(Frames) : n = <<f>> /\ Len(n) = 1 /\ n[1] = f
    BY <1>5
<1>7. stack' = [stack EXCEPT ![p] = n]
    BY <1>1, <1>3, <1>6
<1>8. (\A i \in 1 .. Len(n) : FrameInv(n[i])') /\ (\A i \in 1 .. Len(n) - 1 : n[i].at = "handler")
    BY <1>3, <1>4, <1>6
<1>9. /\ stack' \in [Procs -> Seq(Frames)]
      /\ StackInv'
      /\ stack'[p] = n
      /\ \A q \in Procs : q # p => stack'[q] = stack[q]
    BY <1>4, <1>7, <1>8, StackBecomes DEF BusInv
<1>10. \A places : ~Within(p, places) /\ (Within(p, places)' <=> "lock" \in places)
    BY <1>1, <1>3, <1>6, <1>9 DEF Within, Top
<1>11. LockInv'
    BY <1>9, <1>10, LockKept DEF BusInv, Call, InWriter, InReader
<1>12. QED
    BY <1>9, <1>11 DEF BusInv, TypeOK, Call

\* A handler calls the bus; the Publish that runs it waits (bus.go:147, 166).
LEMMA HandlerCallKeeps ==
    ASSUME BusInv, NEW p \in Procs, HandlerCall(p)
    PROVE  BusInv'
<1>1. PICK r \in HandlerCalls :
         stack' = [stack EXCEPT ![p] = Front(@) \o <<[Top(p) EXCEPT !.nested = TRUE], Opened(r)>>]
    BY DEF HandlerCall
<1>2. r \in Requests
    BY EventBusAssumption
<1>3. PICK h \in Frames : h = Opened(r) /\ FrameInv(h) /\ h.at = "lock"
    BY <1>2, OpenedFrame DEF BusInv
<1>4. /\ stack[p] # <<>> /\ Top(p).at = "handler"
      /\ \A places : Within(p, places) <=> "handler" \in places
    BY AtIsWithin DEF HandlerCall
<1>5. PICK f \in Frames : f = Top(p) /\ FrameInv(f) /\ f.at = "handler"
    BY <1>4, TopFrame DEF BusInv
<1>6. PICK g \in Frames : g = [f EXCEPT !.nested = TRUE]
    BY DEF Frames
<1>7. g.req = f.req /\ g.at = f.at /\ g.subs = f.subs /\ g.next = f.next
      /\ g.errs = f.errs /\ g.owed = f.owed
    BY <1>6 DEF Frames
<1>8. FrameInv(g) /\ g.at = "handler"
    BY <1>5, <1>7 DEF FrameInv, PlaceInv, CopyInv, CheckInv
<1>9. \A k \in Frames : FrameInv(k) => FrameInv(k)'
    BY FrameKeptAsIs DEF HandlerCall
<1>10. PICK s \in Seq(Frames) : s = stack[p] /\ s # <<>>
    BY <1>4 DEF BusInv, TypeOK
<1>11. PICK n \in Seq(Frames) : n = Front(s) \o <<g, h>>
    BY <1>10, TopJoined
<1>12. /\ Len(s) \in Nat \ {0} /\ Len(n) = Len(s) + 1
       /\ \A i \in 1 .. Len(s) + 1 :
             n[i] = IF i = Len(s) + 1 THEN h ELSE IF i = Len(s) THEN g ELSE s[i]
    BY <1>10, <1>11, TopJoined, TopRemoved
<1>13. stack' = [stack EXCEPT ![p] = n]
    BY <1>1, <1>3, <1>5, <1>6, <1>10, <1>11
<1>14. \A i \in 1 .. Len(s) : s[i] \in Frames /\ FrameInv(s[i])
    BY <1>10, TopFrame DEF BusInv
<1>15. \A i \in 1 .. Len(n) : n[i] \in Frames /\ FrameInv(n[i])
    BY <1>3, <1>8, <1>12, <1>14
<1>16. \A i \in 1 .. Len(n) : FrameInv(n[i])'
    BY <1>9, <1>15
<1>17. \A i \in 1 .. Len(s) - 1 : s[i].at = "handler"
    BY <1>10, TopFrame DEF BusInv
<1>18. \A i \in 1 .. Len(n) - 1 : n[i].at = "handler"
    BY <1>8, <1>12, <1>17
<1>19. /\ stack' \in [Procs -> Seq(Frames)]
       /\ StackInv'
       /\ stack'[p] = n
       /\ \A q \in Procs : q # p => stack'[q] = stack[q]
    BY <1>9, <1>13, <1>16, <1>18, StackBecomes DEF BusInv
<1>20. Top(p)' = h /\ stack'[p] # <<>>
    BY <1>12, <1>19 DEF Top
<1>21. \A places : Within(p, places)' <=> "lock" \in places
    BY <1>3, <1>20 DEF Within
<1>22. LockInv'
    BY <1>4, <1>19, <1>21, LockKept DEF BusInv, HandlerCall, InWriter, InReader
<1>23. QED
    BY <1>19, <1>22 DEF BusInv, TypeOK, HandlerCall

\* The innermost call of p goes to another place and touches nothing else.
LEMMA GotoStep ==
    ASSUME TypeOK, StackInv, NEW p \in Procs, NEW from, NEW to \in Places, Goto(p, from, to),
           \A f \in Frames : FrameInv(f) => FrameInv(f)',
           \A g \in Frames : /\ g.req = Top(p).req /\ g.at = to /\ g.subs = Top(p).subs
                             /\ g.next = Top(p).next /\ g.errs = Top(p).errs
                             /\ g.owed = Top(p).owed
                             => FrameInv(g)'
    PROVE  /\ stack' \in [Procs -> Seq(Frames)]
           /\ StackInv'
           /\ \A places : Within(p, places) <=> from \in places
           /\ \A places : Within(p, places)' <=> to \in places
           /\ \A q \in Procs : q # p => stack'[q] = stack[q]
<1>1. stack[p] # <<>> /\ \A places : Within(p, places) <=> from \in places
    BY AtIsWithin DEF Goto
<1>2. PICK f \in Frames : f = Top(p)
    BY <1>1, TopFrame
<1>3. PICK g \in Frames : g = [f EXCEPT !.at = to]
    BY RelocatedFrame
<1>4. g.req = f.req /\ g.at = to /\ g.subs = f.subs /\ g.next = f.next
      /\ g.errs = f.errs /\ g.owed = f.owed
    BY <1>3, RelocatedFrame
<1>5. FrameInv(g)' /\ Becomes(p, g)
    BY <1>2, <1>3, <1>4 DEF Goto
<1>6. /\ stack' \in [Procs -> Seq(Frames)]
      /\ StackInv'
      /\ \A places : Within(p, places)' <=> g.at \in places
      /\ \A q \in Procs : q # p => stack'[q] = stack[q]
    BY <1>1, <1>5, TopBecomes
<1>7. QED
    BY <1>1, <1>4, <1>6

\* Lock, in its two halves, and RLock (bus.go:100, 114, 140, 200).
LEMMA EnteringKeeps ==
    ASSUME BusInv, NEW p \in Procs,
           AnnounceWriter(p) \/ EnterWriter(p) \/ EnterReader(p)
    PROVE  BusInv'
<1>1. \A f \in Frames : FrameInv(f) => FrameInv(f)'
    BY FrameKeptAsIs DEF AnnounceWriter, EnterWriter, EnterReader
<1>2. stack[p] # <<>>
    BY DEF AnnounceWriter, EnterWriter, EnterReader, Goto, At
<1>3. PICK f \in Frames : f = Top(p) /\ FrameInv(f)
    BY <1>2, TopFrame DEF BusInv
<1>4. FrameInv(f)'
    BY <1>1, <1>3
<1>5. CASE AnnounceWriter(p)
    <2>1. Goto(p, "lock", "drain") /\ f.req.call = "Subscribe"
        BY <1>3, <1>5 DEF AnnounceWriter, Calling
    <2>2. \A g \in Frames : /\ g.req = f.req /\ g.at = "drain" /\ g.subs = f.subs
                            /\ g.next = f.next /\ g.errs = f.errs /\ g.owed = f.owed
                            => FrameInv(g)'
        BY <1>4, <2>1 DEF FrameInv, PlaceInv, CopyInv, CheckInv, InWriter, InReader, InFanOut
    <2>3. /\ stack' \in [Procs -> Seq(Frames)]
          /\ StackInv'
          /\ \A places : Within(p, places) <=> "lock" \in places
          /\ \A places : Within(p, places)' <=> "drain" \in places
          /\ \A q \in Procs : q # p => stack'[q] = stack[q]
        BY <1>1, <1>3, <2>1, <2>2, GotoStep DEF BusInv, Places
    <2>4. mu' \in RWMutexType /\ LockInv'
        BY <1>5, <2>3, WriterComes DEF BusInv, TypeOK, AnnounceWriter, InWriter, InReader
    <2>5. QED
        BY <1>5, <2>3, <2>4 DEF BusInv, TypeOK, AnnounceWriter
<1>6. CASE EnterWriter(p)
    <2>1. Goto(p, "drain", "body") /\ f.req.call = "Subscribe"
        BY <1>3, <1>6 DEF EnterWriter, Goto, At, FrameInv, PlaceInv, InWriter
    <2>2. \A g \in Frames : /\ g.req = f.req /\ g.at = "body" /\ g.subs = f.subs
                            /\ g.next = f.next /\ g.errs = f.errs /\ g.owed = f.owed
                            => FrameInv(g)'
        BY <1>4, <2>1 DEF FrameInv, PlaceInv, CopyInv, CheckInv, InWriter, InReader, InFanOut
    <2>3. /\ stack' \in [Procs -> Seq(Frames)]
          /\ StackInv'
          /\ \A places : Within(p, places) <=> "drain" \in places
          /\ \A places : Within(p, places)' <=> "body" \in places
          /\ \A q \in Procs : q # p => stack'[q] = stack[q]
        BY <1>1, <1>3, <2>1, <2>2, GotoStep DEF BusInv, Places
    <2>4. UNCHANGED <<subs, mu, verified>> /\ \A r \in Procs : mu.readers[r] = 0
        BY <1>6 DEF EnterWriter, WriterEnters
    <2>5. \A places : \A q \in Procs : q # p => (Within(q, places)' <=> Within(q, places))
        BY <2>3 DEF Within, Top
    <2>6. ASSUME NEW q \in Procs
          PROVE  /\ mu'.writer = q <=> Within(q, InWriter)'
                 /\ mu'.readers[q] = IF Within(q, InReader)' THEN 1 ELSE 0
                 /\ Within(q, InWriter \ {"drain"})' => \A r \in Procs : mu'.readers[r] = 0
        BY <2>3, <2>4, <2>5 DEF BusInv, LockInv, InWriter, InReader
    <2>7. QED
        BY <2>3, <2>4, <2>6 DEF BusInv, TypeOK, LockInv
<1>7. CASE EnterReader(p)
    <2>1. Goto(p, "lock", "read") /\ f.req.call # "Subscribe" /\ f.at = "lock"
        BY <1>2, <1>3, <1>7 DEF EnterReader, Calling, Goto, At
    <2>2. \A g \in Frames : /\ g.req = f.req /\ g.at = "read" /\ g.subs = f.subs
                            /\ g.next = f.next /\ g.errs = f.errs /\ g.owed = f.owed
                            => FrameInv(g)'
        BY <1>4, <2>1 DEF FrameInv, PlaceInv, CopyInv, CheckInv, InWriter, InReader, InFanOut
    <2>3. /\ stack' \in [Procs -> Seq(Frames)]
          /\ StackInv'
          /\ \A places : Within(p, places) <=> "lock" \in places
          /\ \A places : Within(p, places)' <=> "read" \in places
          /\ \A q \in Procs : q # p => stack'[q] = stack[q]
        BY <1>1, <1>3, <2>1, <2>2, GotoStep DEF BusInv, Places
    <2>4. mu' \in RWMutexType /\ LockInv'
        BY <1>7, <2>3, ReaderComes DEF BusInv, TypeOK, EnterReader, InWriter, InReader
    <2>5. QED
        BY <1>7, <2>3, <2>4 DEF BusInv, TypeOK, EnterReader
<1>8. QED
    BY <1>5, <1>6, <1>7

\* Subscribe registers a name or refuses it, and leaves the lock either way
\* (bus.go:99-109).
LEMMA RegistryGrows ==
    ASSUME TypeOK, NEW r \in Requests, ~AlreadySubscribed(r.type, r.name),
           subs' = [subs EXCEPT ![r.type] = Append(@, r.name)]
    PROVE  /\ subs' \in [Types -> Seq(Names)]
           /\ \A t \in Types : Registered(t) \subseteq Registered(t)'
           /\ RegistryInv => RegistryInv'
<1>1. r.type \in Types /\ r.name \in Names /\ subs \in [Types -> Seq(Names)]
    BY DEF TypeOK, Requests
<1>2. PICK old \in Seq(Names) : old = subs[r.type]
    BY <1>1
<1>3. PICK new \in Seq(Names) : new = Append(old, r.name)
    BY <1>1, AppendProperties
<1>4. /\ Len(new) = Len(old) + 1 /\ Len(old) \in Nat
      /\ DOMAIN old = 1 .. Len(old) /\ DOMAIN new = 1 .. Len(new)
      /\ \A i \in 1 .. Len(old) : new[i] = old[i]
      /\ new[Len(old) + 1] = r.name
    BY <1>1, <1>3, AppendProperties
<1>5. subs' = [subs EXCEPT ![r.type] = new]
    BY <1>2, <1>3
<1>6. subs'[r.type] = new /\ \A t \in Types : t # r.type => subs'[t] = subs[t]
    BY <1>1, <1>5
<1>7. subs' \in [Types -> Seq(Names)]
    BY <1>1, <1>5
<1>8. ASSUME NEW t \in Types
      PROVE  Registered(t) \subseteq Registered(t)'
    <2>1. CASE t = r.type
        <3>1. \A i \in DOMAIN old : i \in DOMAIN new /\ new[i] = old[i]
            BY <1>4
        <3>2. {old[i] : i \in DOMAIN old} \subseteq {new[i] : i \in DOMAIN new}
            BY <3>1
        <3>3. QED
            BY <1>2, <1>6, <2>1, <3>2 DEF Registered
    <2>2. CASE t # r.type
        BY <1>6, <2>2 DEF Registered
    <2>3. QED
        BY <2>1, <2>2
<1>9. ASSUME RegistryInv, NEW t \in Types
      PROVE  Distinct(subs'[t])
    <2>1. CASE t = r.type
        <3>1. \A i \in 1 .. Len(old) : old[i] # r.name
            BY <1>2, <1>4 DEF AlreadySubscribed
        <3>2. \A i, j \in 1 .. Len(old) : old[i] = old[j] => i = j
            BY <1>1, <1>2, <1>4, <1>9 DEF RegistryInv, Distinct
        <3>3. \A i, j \in 1 .. Len(new) : new[i] = new[j] => i = j
            BY <1>4, <3>1, <3>2
        <3>4. QED
            BY <1>4, <1>6, <2>1, <3>3 DEF Distinct
    <2>2. CASE t # r.type
        BY <1>6, <1>9, <2>2 DEF RegistryInv
    <2>3. QED
        BY <2>1, <2>2
<1>10. RegistryInv => RegistryInv'
    BY <1>9 DEF RegistryInv, Distinct
<1>11. QED
    BY <1>7, <1>8, <1>10

LEMMA SubscribeKeeps ==
    ASSUME BusInv, WalksInv, NEW p \in Procs,
           CheckDuplicate(p) \/ Register(p) \/ RefuseDuplicate(p)
    PROVE  BusInv' /\ \A t \in Types : Registered(t) \subseteq Registered(t)'
<1>1. PICK from \in {"body", "append"}, to \in {"append", "unlock", "panic"} :
          Goto(p, from, to)
    BY DEF CheckDuplicate, Register, RefuseDuplicate
<1>13. stack[p] # <<>> /\ Top(p).at = from
    BY <1>1 DEF Goto, At
<1>2. PICK f \in Frames : f = Top(p) /\ FrameInv(f)
    BY <1>13, TopFrame DEF BusInv
<1>3. f.req.call = "Subscribe"
    BY <1>2, <1>13 DEF FrameInv, PlaceInv, InWriter
<1>4. /\ subs' \in [Types -> Seq(Names)]
      /\ \A t \in Types : Registered(t) \subseteq Registered(t)'
    <2>1. CASE Register(p)
        <3>1. f.req \in Requests
            BY DEF Frames
        <3>2. f.at = "append"
            BY <1>2, <2>1 DEF Register, Goto, At
        <3>3. ~AlreadySubscribed(f.req.type, f.req.name)
            BY <1>2, <1>13, <3>2 DEF WalksInv, WalkInv, Waiting
        <3>4. QED
            BY <1>2, <2>1, <3>1, <3>3, RegistryGrows DEF Register, BusInv
    <2>2. CASE CheckDuplicate(p) \/ RefuseDuplicate(p)
        BY <2>2 DEF CheckDuplicate, RefuseDuplicate, BusInv, TypeOK, Registered
    <2>3. QED
        BY <2>1, <2>2
<1>5. \A g \in Frames : FrameInv(g) => FrameInv(g)'
    BY <1>4, FrameKept
<1>7. FrameInv(f)'
    BY <1>2, <1>5
<1>8. \A g \in Frames : /\ g.req = f.req /\ g.at = to /\ g.subs = f.subs
                        /\ g.next = f.next /\ g.errs = f.errs /\ g.owed = f.owed
                        => FrameInv(g)'
    BY <1>3, <1>7 DEF FrameInv, PlaceInv, CopyInv, CheckInv, InWriter, InReader, InFanOut
<1>9. /\ stack' \in [Procs -> Seq(Frames)]
      /\ StackInv'
      /\ \A places : Within(p, places) <=> from \in places
      /\ \A places : Within(p, places)' <=> to \in places
      /\ \A q \in Procs : q # p => stack'[q] = stack[q]
    BY <1>1, <1>2, <1>5, <1>8, GotoStep DEF BusInv, Places
<1>10. UNCHANGED <<mu, verified>>
    BY DEF CheckDuplicate, Register, RefuseDuplicate
<1>11. LockInv'
    BY <1>1, <1>9, <1>10, LockKept DEF BusInv, InWriter, InReader
<1>12. QED
    BY <1>4, <1>9, <1>10, <1>11 DEF BusInv, TypeOK

LEMMA WriterExitKeeps ==
    ASSUME BusInv, NEW p \in Procs, ExitWriter(p) \/ ExitPanicking(p)
    PROVE  BusInv'
<1>1. PICK place \in {"unlock", "panic"} : At(p, place)
    BY DEF ExitWriter, ExitPanicking
<1>2. stack[p] # <<>> /\ \A places : Within(p, places) <=> place \in places
    BY <1>1, AtIsWithin
<1>3. UNCHANGED <<subs, verified>> /\ mu' = Unlock(mu)
    BY DEF ExitWriter, ExitPanicking
<1>4. /\ stack' \in [Procs -> Seq(Frames)]
      /\ StackInv'
      /\ \A places : Within(p, places)' => places \cap InFanOut # {}
      /\ \A q \in Procs : q # p => stack'[q] = stack[q]
    <2>1. CASE ExitWriter(p)
        BY <1>2, <1>3, <2>1, TopReturns DEF BusInv, ExitWriter, InFanOut
    <2>2. CASE ExitPanicking(p)
        BY <1>2, <1>3, <2>2, TopUnwinds DEF BusInv, ExitPanicking, InFanOut
    <2>3. QED
        BY <2>1, <2>2
<1>5. mu' \in RWMutexType /\ LockInv'
    BY <1>2, <1>3, <1>4, WriterGoes DEF BusInv, TypeOK, InWriter, InReader
<1>6. QED
    BY <1>3, <1>4, <1>5 DEF BusInv, TypeOK

\* The copy Publish and Subscribers make, and the walk of VerifyWiring over
\* the matrix (bus.go:116-120, 141-142, 203-215).
LEMMA ReadingKeeps ==
    ASSUME BusInv, RegistryInv, NEW p \in Procs,
           CopySubscribers(p) \/ CheckType(p) \/ CheckDone(p)
    PROVE  BusInv'
<1>1. stack[p] # <<>> /\ Top(p).at = "read" /\ \A places : Within(p, places) <=> "read" \in places
    BY AtIsWithin DEF CopySubscribers, CheckType, CheckDone, Goto
<1>2. PICK f \in Frames : f = Top(p) /\ FrameInv(f) /\ f.at = "read"
    BY <1>1, TopFrame DEF BusInv
<1>3. UNCHANGED <<subs, mu, verified>>
    BY DEF CopySubscribers, CheckType, CheckDone
<1>4. \A g \in Frames : FrameInv(g) => FrameInv(g)'
    BY <1>3, FrameKeptAsIs
<1>5. f.req \in Requests /\ f.req.type \in Types /\ f.subs \in Seq(Names)
      /\ f.next \in Nat \ {0} /\ f.errs \in SUBSET (Types \X Names)
    BY DEF Frames, Requests
<1>6. \E g \in Frames : Becomes(p, g) /\ FrameInv(g) /\ g.at \in InReader
    <2>1. CASE CopySubscribers(p)
        <3>1. PICK c \in Seq(Names) : c = subs[f.req.type]
            BY <1>5 DEF BusInv, TypeOK
        <3>2. Distinct(c) /\ Registered(f.req.type) = {c[i] : i \in DOMAIN c}
            BY <1>5, <3>1 DEF RegistryInv, Registered
        <3>3. PICK g \in Frames : g = [f EXCEPT !.at = "runlock", !.subs = c]
            BY DEF Frames, Places
        <3>4. /\ g.req = f.req /\ g.at = "runlock" /\ g.subs = c /\ g.owed = f.owed
              /\ g.errs = f.errs /\ g.next = f.next
            BY <3>3 DEF Frames
        <3>5. f.req.call # "VerifyWiring" /\ Becomes(p, g)
            <4>1. f.req.call # "VerifyWiring"
                BY <1>1, <1>2, <2>1 DEF CopySubscribers, Calling
            <4>2. Becomes(p, [f EXCEPT !.at = "runlock", !.subs = subs[f.req.type]])
                BY <1>2, <2>1 DEF CopySubscribers
            <4>3. QED
                BY <3>1, <3>3, <4>1, <4>2
        <3>6. PlaceInv(g) /\ CheckInv(g)
            BY <1>2, <3>4, <3>5 DEF FrameInv, PlaceInv, CheckInv, InWriter, InReader, InFanOut
        <3>7. CopyInv(g)
            BY <1>2, <3>2, <3>4 DEF FrameInv, CopyInv
        <3>8. QED
            BY <3>4, <3>5, <3>6, <3>7 DEF FrameInv, InReader
    <2>2. CASE CheckType(p)
        <3> DEFINE t == TypeOrder[f.next]
        <3>1. f.next \in DOMAIN TypeOrder /\ t \in Types /\ DOMAIN TypeOrder = 1 .. Len(TypeOrder)
            BY <1>2, <1>5, <2>2, EventBusAssumption DEF CheckType
        <3>2. PICK e \in SUBSET (Types \X Names) : e = f.errs \cup Missing(t)
            <4>1. RequiredSubscribers[t] \subseteq Names
                BY <3>1, EventBusAssumption
            <4> HIDE DEF t
            <4>2. Missing(t) \subseteq Types \X Names
                BY <3>1, <4>1 DEF Missing
            <4>3. QED
                BY <1>5, <4>2
        <3> HIDE DEF t
        <3>3. PICK n \in Nat \ {0} : n = f.next + 1
            BY <1>5
        <3>4. PICK g \in Frames : g = [f EXCEPT !.next = n, !.errs = e]
            BY DEF Frames
        <3>5. /\ g.req = f.req /\ g.at = f.at /\ g.subs = f.subs /\ g.owed = f.owed
              /\ g.errs = e /\ g.next = n
            BY <3>4 DEF Frames
        <3>6. f.req.call = "VerifyWiring" /\ Becomes(p, g)
            BY <1>2, <2>2, <3>2, <3>3, <3>4 DEF CheckType, Calling, t
        <3>7. PlaceInv(g) /\ CopyInv(g)
            BY <1>2, <3>5 DEF FrameInv, PlaceInv, CopyInv
        <3>8. ASSUME e = {} PROVE Wired(t)
            <4>1. Missing(t) = {}
                BY <3>2, <3>8
            <4>2. QED
                BY <4>1 DEF Missing, Wired
        <3>9. ASSUME e = {}, NEW i \in DOMAIN TypeOrder, i < n
              PROVE  Wired(TypeOrder[i])
            <4>1. CASE i < f.next
                <5>1. f.errs = {}
                    BY <3>2, <3>9
                <5>2. QED
                    BY <1>2, <3>6, <4>1, <5>1 DEF FrameInv, CheckInv, InReader
            <4>2. CASE i = f.next
                BY <3>8, <3>9, <4>2 DEF t
            <4>3. QED
                BY <1>5, <3>1, <3>3, <3>9, <4>1, <4>2
        <3>10. CheckInv(g)
            BY <1>2, <3>5, <3>9 DEF CheckInv
        <3>11. QED
            BY <1>2, <3>5, <3>6, <3>7, <3>10 DEF FrameInv, InReader
    <2>3. CASE CheckDone(p)
        <3>1. PICK g \in Frames : g = [f EXCEPT !.at = "runlock"]
            BY RelocatedFrame DEF Places
        <3>2. /\ g.req = f.req /\ g.at = "runlock" /\ g.subs = f.subs /\ g.owed = f.owed
              /\ g.errs = f.errs /\ g.next = f.next
            BY <3>1 DEF Frames
        <3>3. f.req.call = "VerifyWiring" /\ Becomes(p, g) /\ Len(TypeOrder) < f.next
            BY <1>2, <1>5, <2>3, <3>1, EventBusAssumption DEF CheckDone, Calling, Goto
        <3>4. FrameInv(g)
            BY <1>2, <3>2, <3>3
               DEF FrameInv, PlaceInv, CopyInv, CheckInv, InWriter, InReader, InFanOut
        <3>5. QED
            BY <3>2, <3>3, <3>4 DEF InReader
    <2>4. QED
        BY <2>1, <2>2, <2>3
<1>7. PICK g \in Frames : Becomes(p, g) /\ FrameInv(g) /\ g.at \in InReader
    BY <1>6
<1>8. FrameInv(g)'
    BY <1>4, <1>7
<1>9. /\ stack' \in [Procs -> Seq(Frames)]
      /\ StackInv'
      /\ \A places : Within(p, places)' <=> g.at \in places
      /\ \A q \in Procs : q # p => stack'[q] = stack[q]
    BY <1>1, <1>4, <1>7, <1>8, TopBecomes DEF BusInv
<1>10. LockInv'
    BY <1>1, <1>3, <1>7, <1>9, LockKept DEF BusInv, InWriter, InReader
<1>11. QED
    BY <1>3, <1>9, <1>10 DEF BusInv, TypeOK

\* Giving the read lock back, before the first handler or on return
\* (bus.go:115, 143, 201).
LEMMA ReaderExitKeeps ==
    ASSUME BusInv, NEW p \in Procs, StartFanOut(p) \/ ExitReader(p)
    PROVE  BusInv'
<1>1. /\ stack[p] # <<>> /\ Top(p).at = "runlock"
      /\ \A places : Within(p, places) <=> "runlock" \in places
    BY AtIsWithin DEF StartFanOut, ExitReader, Goto
<1>2. PICK f \in Frames : f = Top(p) /\ FrameInv(f) /\ f.at = "runlock"
    BY <1>1, TopFrame DEF BusInv
<1>3. UNCHANGED subs /\ mu' = RUnlocked(mu, p)
    BY DEF StartFanOut, ExitReader
<1>4. verified' \in BOOLEAN
    BY DEF StartFanOut, ExitReader, BusInv, TypeOK, Calling
<1>5. \A g \in Frames : FrameInv(g) => FrameInv(g)'
    BY <1>3, FrameKeptAsIs
<1>6. /\ stack' \in [Procs -> Seq(Frames)]
      /\ StackInv'
      /\ \A places : Within(p, places)' => places \cap InFanOut # {}
      /\ \A q \in Procs : q # p => stack'[q] = stack[q]
    <2>1. CASE StartFanOut(p)
        <3>1. FrameInv(f)' /\ f.req.call = "Publish" /\ Goto(p, "runlock", "next")
            BY <1>2, <1>5, <2>1 DEF StartFanOut, Calling
        <3>2. \A g \in Frames : /\ g.req = f.req /\ g.at = "next" /\ g.subs = f.subs
                                /\ g.next = f.next /\ g.errs = f.errs /\ g.owed = f.owed
                                => FrameInv(g)'
            BY <1>2, <3>1 DEF FrameInv, PlaceInv, CopyInv, CheckInv, InWriter, InReader, InFanOut
        <3>3. /\ stack' \in [Procs -> Seq(Frames)]
              /\ StackInv'
              /\ \A places : Within(p, places)' <=> "next" \in places
              /\ \A q \in Procs : q # p => stack'[q] = stack[q]
            BY <1>2, <1>5, <3>1, <3>2, GotoStep DEF BusInv, Places
        <3>4. QED
            BY <3>3 DEF InFanOut
    <2>2. CASE ExitReader(p)
        BY <1>1, <1>3, <2>2, TopReturns DEF BusInv, ExitReader, InFanOut
    <2>3. QED
        BY <2>1, <2>2
<1>7. mu' \in RWMutexType /\ LockInv'
    BY <1>1, <1>3, <1>6, ReaderGoes DEF BusInv, TypeOK, InWriter, InReader
<1>8. QED
    BY <1>3, <1>4, <1>6, <1>7 DEF BusInv, TypeOK

\* The fan-out: a handler starts, ends in one of its ways, or was the last
\* (bus.go:146-167).
LEMMA FanOutKeeps ==
    ASSUME BusInv, NEW p \in Procs,
           \/ Deliver(p) \/ HandlerReturns(p) \/ HandlerPanics(p)
           \/ LoggingPanics(p) \/ PublishReturns(p)
    PROVE  BusInv'
<1>1. PICK place \in InFanOut : At(p, place)
    BY DEF Deliver, HandlerReturns, HandlerPanics, LoggingPanics, PublishReturns, Goto, InFanOut
<1>2. stack[p] # <<>> /\ Top(p).at = place /\ \A places : Within(p, places) <=> place \in places
    BY <1>1, AtIsWithin
<1>3. PICK f \in Frames : f = Top(p) /\ FrameInv(f) /\ f.at = place
    BY <1>2, TopFrame DEF BusInv
<1>4. UNCHANGED <<subs, mu, verified>>
    BY DEF Deliver, HandlerReturns, HandlerPanics, LoggingPanics, PublishReturns
<1>5. \A g \in Frames : FrameInv(g) => FrameInv(g)'
    BY <1>4, FrameKeptAsIs
<1>6. /\ stack' \in [Procs -> Seq(Frames)]
      /\ StackInv'
      /\ \A places : Within(p, places)' => places \cap InFanOut # {}
      /\ \A q \in Procs : q # p => stack'[q] = stack[q]
    <2>1. CASE Deliver(p)
        <3>1. FrameInv(f)' /\ Goto(p, "next", "handler") /\ f.next <= Len(f.subs) /\ f.at = "next"
            BY <1>2, <1>3, <1>5, <2>1 DEF Deliver, Goto, At
        <3>2. \A g \in Frames : /\ g.req = f.req /\ g.at = "handler" /\ g.subs = f.subs
                                /\ g.next = f.next /\ g.errs = f.errs /\ g.owed = f.owed
                                => FrameInv(g)'
            BY <3>1 DEF FrameInv, PlaceInv, CopyInv, CheckInv, InWriter, InReader, InFanOut
        <3>3. /\ stack' \in [Procs -> Seq(Frames)]
              /\ StackInv'
              /\ \A places : Within(p, places)' <=> "handler" \in places
              /\ \A q \in Procs : q # p => stack'[q] = stack[q]
            BY <1>3, <1>5, <3>1, <3>2, GotoStep DEF BusInv, Places
        <3>4. QED
            BY <3>3 DEF InFanOut
    <2>2. CASE HandlerReturns(p) \/ HandlerPanics(p)
        <3>1. f.at = "handler"
            BY <1>3, <2>2 DEF HandlerReturns, HandlerPanics, At
        <3>2. PICK failed \in BOOLEAN : Becomes(p, Ended(f, failed))
            <4>1. CASE HandlerReturns(p)
                BY <1>3, <4>1 DEF HandlerReturns
            <4>2. CASE HandlerPanics(p)
                <5>1. Recovered(stack[p]) = Append(Front(stack[p]), Ended(f, TRUE))
                    BY <1>3 DEF Recovered, Last, Top
                <5>2. QED
                    BY <4>2, <5>1 DEF HandlerPanics, Becomes
            <4>3. QED
                BY <2>2, <4>1, <4>2
        <3>3. PICK g \in Frames : g = Ended(f, failed) /\ FrameInv(g) /\ g.at = "next"
            BY <1>3, <3>1, EndedFrame
        <3>4. FrameInv(g)' /\ Becomes(p, g)
            BY <1>5, <3>2, <3>3
        <3>5. /\ stack' \in [Procs -> Seq(Frames)]
              /\ StackInv'
              /\ \A places : Within(p, places)' <=> g.at \in places
              /\ \A q \in Procs : q # p => stack'[q] = stack[q]
            BY <1>2, <1>5, <3>4, TopBecomes DEF BusInv
        <3>6. QED
            BY <3>3, <3>5 DEF InFanOut
    <2>3. CASE LoggingPanics(p)
        BY <1>2, <1>4, <2>3, TopUnwinds DEF BusInv, LoggingPanics, InFanOut
    <2>4. CASE PublishReturns(p)
        BY <1>2, <1>4, <2>4, TopReturns DEF BusInv, PublishReturns, InFanOut
    <2>5. QED
        BY <2>1, <2>2, <2>3, <2>4
<1>7. ~Within(p, InWriter)' /\ ~Within(p, InReader)' /\ ~Within(p, InWriter \ {"drain"})'
    BY <1>6 DEF InWriter, InReader, InFanOut
<1>8. LockInv'
    BY <1>2, <1>4, <1>6, <1>7, LockKept DEF BusInv, InWriter, InReader, InFanOut
<1>9. QED
    BY <1>4, <1>6, <1>8 DEF BusInv, TypeOK

-----------------------------------------------------------------------------
(* What a call has before its instant.                                     *)

\* The walk begins with nothing, ends with everything, and takes one type at a
\* time; it finds what it found while the registry is as it was.
LEMMA WalkSteps ==
    /\ Walked(1) = {}
    /\ \A n \in DOMAIN TypeOrder : Walked(n + 1) = Walked(n) \cup Missing(TypeOrder[n])
    /\ \A n \in Nat : n > Len(TypeOrder) => Walked(n) = Atomic!AllMissing
    /\ UNCHANGED subs => \A n : Walked(n)' = Walked(n)
<1>1. DOMAIN TypeOrder = 1 .. Len(TypeOrder) /\ Len(TypeOrder) \in Nat
    BY EventBusAssumption
<1>2. Walked(1) = {}
    BY <1>1 DEF Walked
<1>3. ASSUME NEW n \in DOMAIN TypeOrder
      PROVE  Walked(n + 1) = Walked(n) \cup Missing(TypeOrder[n])
    <2>1. {i \in DOMAIN TypeOrder : i < n + 1} = {i \in DOMAIN TypeOrder : i < n} \cup {n}
        BY <1>1, <1>3
    <2> QED  BY <2>1, Zenon DEF Walked
<1>4. ASSUME NEW n \in Nat, n > Len(TypeOrder) PROVE Walked(n) = Atomic!AllMissing
    <2>1. {i \in DOMAIN TypeOrder : i < n} = DOMAIN TypeOrder
        BY <1>1, <1>4
    <2>2. \A t : Missing(t) = Atomic!Missing(t)
        BY DEF Missing, Atomic!Missing, Registered, Atomic!Registered
    <2> QED  BY <2>1, <2>2, Zenon DEF Walked, Atomic!AllMissing
<1>5. ASSUME UNCHANGED subs, NEW n PROVE Walked(n)' = Walked(n)
    <2>1. \A t : Missing(t)' = Missing(t)
        BY <1>5 DEF Missing, Registered
    <2> QED  BY <2>1, Zenon DEF Walked
<1> QED  BY <1>2, <1>3, <1>4, <1>5

\* The innermost call, when it goes on as g.
LEMMA TopIs ==
    ASSUME TypeOK, NEW p \in Procs, stack[p] # <<>>, NEW g \in Frames, Becomes(p, g)
    PROVE  stack'[p] # <<>> /\ Top(p)' = g
<1>1. PICK s \in Seq(Frames) : s = stack[p]
    BY DEF TypeOK
<1>2. PICK n \in Seq(Frames) : n = Append(Front(s), g)
    BY <1>1, TopReplaced
<1>3. n # <<>> /\ Len(n) = Len(s) /\ \A i \in 1 .. Len(s) : n[i] = IF i = Len(s) THEN g ELSE s[i]
    BY <1>1, <1>2, TopReplaced
<1>4. Len(s) \in 1 .. Len(s)
    <2>1. Len(s) \in Nat \ {0}
        BY <1>1, TopRemoved
    <2> QED  BY <2>1
<1>5. stack'[p] = n
    BY <1>1, <1>2 DEF TypeOK, Becomes
<1> QED  BY <1>3, <1>4, <1>5 DEF Top

\* The innermost call, when it goes to another place.
LEMMA TopGoes ==
    ASSUME TypeOK, StackInv, NEW p \in Procs, NEW from, NEW to \in Places, Goto(p, from, to)
    PROVE  \E f \in Frames, g \in Frames :
              /\ f = Top(p) /\ stack[p] # <<>> /\ f.at = from /\ FrameInv(f)
              /\ g.req = f.req /\ g.at = to /\ g.subs = f.subs
              /\ g.next = f.next /\ g.errs = f.errs
              /\ Becomes(p, g)
              /\ Top(p)' = g
<1>1. stack[p] # <<>> /\ Top(p).at = from
    BY DEF Goto, At
<1>2. PICK f \in Frames : f = Top(p) /\ FrameInv(f)
    BY <1>1, TopFrame
<1>3. PICK g \in Frames : g = [f EXCEPT !.at = to]
    BY RelocatedFrame
<1>4. g.req = f.req /\ g.at = to /\ g.subs = f.subs /\ g.next = f.next /\ g.errs = f.errs
    BY <1>3, RelocatedFrame
<1>5. Becomes(p, g)
    BY <1>2, <1>3 DEF Goto
<1>6. Top(p)' = g
    BY <1>1, <1>5, TopIs
<1> QED  BY <1>1, <1>2, <1>4, <1>5, <1>6

\* The calls in progress of the others are as they were.
LEMMA OthersStay ==
    ASSUME TypeOK, NEW p \in Procs, Call(p) \/ Step(p), NEW q \in Procs, q # p
    PROVE  stack'[q] = stack[q]
BY DEF TypeOK, Step, Call, HandlerCall, AnnounceWriter, EnterWriter, EnterReader,
   CheckDuplicate, Register,
   RefuseDuplicate, ExitWriter, ExitPanicking, CopySubscribers, CheckType, CheckDone,
   StartFanOut, ExitReader, Deliver, HandlerReturns, HandlerPanics, LoggingPanics,
   PublishReturns, Goto, Becomes, Returned

\* Whoever walks over the registry keeps writers out.
LEMMA OthersWalkOn ==
    ASSUME IInv, NEW p \in Procs, Call(p) \/ Step(p), NEW q \in Procs, q # p,
           stack'[q] # <<>>
    PROVE  WalkInv(Top(q))'
<1>1. stack'[q] = stack[q]
    BY OthersStay DEF IInv
<1>2. stack[q] # <<>> /\ Top(q)' = Top(q)
    BY <1>1 DEF Top
<1>3. PICK f \in Frames : f = Top(q) /\ WalkInv(f)
    BY <1>2, TopFrame DEF IInv, WalksInv
<1>4. CASE Register(p)
    <2>1. Within(p, InWriter) /\ Within(p, InWriter \ {"drain"})
        BY <1>4 DEF Register, Goto, At, Within, InWriter
    <2>2. mu.writer = p /\ mu.readers[q] = 0
        BY <2>1 DEF IInv, LockInv
    <2>3. ~ Within(q, InReader) /\ ~ Within(q, InWriter)
        BY <2>2 DEF IInv, LockInv
    <2>4. f.at # "read" /\ f.at # "append"
        BY <1>2, <1>3, <2>3 DEF Within, InReader, InWriter
    <2>5. WalkInv(f)'
        BY <1>3, <2>4 DEF WalkInv
    <2> QED  BY <1>2, <1>3, <2>5 DEF WalkInv
<1>5. CASE ~ Register(p)
    <2>1. UNCHANGED subs
        BY <1>5 DEF Step, Call, HandlerCall, AnnounceWriter, EnterWriter, EnterReader,
           CheckDuplicate, RefuseDuplicate, ExitWriter, ExitPanicking, CopySubscribers,
           CheckType, CheckDone,
           StartFanOut, ExitReader, Deliver, HandlerReturns, HandlerPanics, LoggingPanics,
           PublishReturns
    <2>2. WalkInv(f)'
        <3>1. Walked(f.next)' = Walked(f.next)
            BY <2>1, WalkSteps
        <3>2. \A t, n : AlreadySubscribed(t, n)' <=> AlreadySubscribed(t, n)
            BY <2>1 DEF AlreadySubscribed
        <3> QED  BY <1>3, <3>1, <3>2 DEF WalkInv
    <2> QED  BY <1>2, <1>3, <2>2 DEF WalkInv
<1> QED  BY <1>4, <1>5

\* A call that has just been made has nothing, and past its instant a call may
\* have anything.
LEMMA FreshWalks ==
    ASSUME NEW f, f.at = "lock", f.subs = <<>>, f.next = 1, f.errs = {}
    PROVE  WalkInv(f)'
BY DEF WalkInv

LEMMA PastWalks ==
    ASSUME NEW f, f.at \notin Waiting
    PROVE  WalkInv(f)'
BY DEF WalkInv

\* A call on its way to its instant, before it has looked at anything.
LEMMA OnTheWay ==
    ASSUME TypeOK, StackInv, WalksInv, NEW p \in Procs,
           AnnounceWriter(p) \/ EnterWriter(p) \/ EnterReader(p) \/ CheckDuplicate(p)
    PROVE  WalkInv(Top(p))'
<1>1. PICK from \in Places, to \in Places :
          /\ Goto(p, from, to)
          /\ \/ from = "lock" /\ to \in {"drain", "read"}
             \/ from = "drain" /\ to = "body"
             \/ from = "body" /\ to = "append" /\ CheckDuplicate(p)
    BY DEF AnnounceWriter, EnterWriter, EnterReader, CheckDuplicate, Places
<1>2. PICK f \in Frames, g \in Frames :
          /\ f = Top(p) /\ stack[p] # <<>> /\ f.at = from /\ FrameInv(f)
          /\ g.req = f.req /\ g.at = to /\ g.subs = f.subs
          /\ g.next = f.next /\ g.errs = f.errs
          /\ Becomes(p, g)
          /\ Top(p)' = g
    BY <1>1, TopGoes
<1>3. f.subs = <<>> /\ f.next = 1 /\ f.errs = {}
    <2>1. from \in {"drain", "body"} => f.req.call # "VerifyWiring"
        BY <1>2 DEF FrameInv, PlaceInv, InWriter
    <2> QED  BY <1>1, <1>2, <2>1 DEF WalksInv, WalkInv, Waiting
<1>4. Walked(1)' = {}
    <2>1. UNCHANGED subs
        BY DEF AnnounceWriter, EnterWriter, EnterReader, CheckDuplicate
    <2> QED  BY <2>1, WalkSteps
<1>5. ASSUME to = "append" PROVE ~AlreadySubscribed(f.req.type, f.req.name)'
    <2>1. CheckDuplicate(p)
        BY <1>1, <1>5
    <2> QED  BY <1>2, <2>1 DEF CheckDuplicate, AlreadySubscribed
<1>6. WalkInv(g)'
    BY <1>1, <1>2, <1>3, <1>4, <1>5 DEF WalkInv
<1> QED  BY <1>2, <1>6 DEF WalkInv

\* One type further.
LEMMA WalkGoesOn ==
    ASSUME TypeOK, StackInv, WalksInv, NEW p \in Procs, CheckType(p)
    PROVE  \E f \in Frames, g \in Frames :
              /\ f = Top(p) /\ f.at = "read" /\ f.req.call = "VerifyWiring"
              /\ g.req = f.req /\ g.at = "read" /\ g.subs = f.subs
              /\ stack[p] # <<>> /\ Becomes(p, g)
              /\ WalkInv(Top(p))'
<1>1. stack[p] # <<>> /\ Top(p).at = "read" /\ Top(p).req.call = "VerifyWiring"
    BY DEF CheckType, At, Calling
<1>2. PICK f \in Frames : f = Top(p) /\ FrameInv(f)
    BY <1>1, TopFrame
<1>3. f.next \in DOMAIN TypeOrder /\ f.next \in Nat
    BY <1>2, EventBusAssumption DEF CheckType, Frames
<1>4. PICK e \in SUBSET (Types \X Names) : e = f.errs \cup Missing(TypeOrder[f.next])
    <2>1. TypeOrder[f.next] \in Types
        BY <1>3, EventBusAssumption
    <2>2. Missing(TypeOrder[f.next]) \subseteq Types \X Names
        BY <2>1, EventBusAssumption DEF Missing
    <2> QED  BY <2>2 DEF Frames
<1>5. PICK k \in Nat \ {0} : k = f.next + 1
    BY <1>3
<1>51. PICK g \in Frames : g = [f EXCEPT !.next = k, !.errs = e]
    BY DEF Frames
<1>6. /\ g.req = f.req /\ g.at = f.at /\ g.subs = f.subs
      /\ g.next = f.next + 1 /\ g.errs = e
    BY <1>5, <1>51 DEF Frames
<1>7. Becomes(p, g)
    BY <1>2, <1>4, <1>5, <1>51 DEF CheckType
<1>8. Top(p)' = g
    BY <1>1, <1>7, TopIs
<1>9. f.subs = <<>> /\ f.errs = Walked(f.next)
    BY <1>1, <1>2 DEF WalksInv, WalkInv, Waiting
<1>10. g.errs = Walked(g.next)'
    <2>1. UNCHANGED subs
        BY DEF CheckType
    <2>2. Walked(f.next + 1) = Walked(f.next) \cup Missing(TypeOrder[f.next])
        BY <1>3, WalkSteps
    <2>3. Walked(f.next + 1)' = Walked(f.next + 1)
        BY <2>1, WalkSteps
    <2> QED  BY <1>4, <1>6, <1>9, <2>2, <2>3
<1>11. WalkInv(g)'
    BY <1>1, <1>2, <1>6, <1>9, <1>10 DEF WalkInv
<1>12. WalkInv(Top(p))'
    BY <1>8, <1>11 DEF WalkInv
<1> QED  BY <1>1, <1>2, <1>6, <1>7, <1>12

\* What the innermost call becomes when a call is made.
LEMMA CalledTop ==
    ASSUME TypeOK, StackInv, NEW p \in Procs, Call(p) \/ HandlerCall(p)
    PROVE  WalkInv(Top(p))'
<1>1. stack \in [Procs -> Seq(Frames)]
    BY DEF TypeOK
<1>2. CASE Call(p)
    <2>1. PICK r \in Calls : stack' = [stack EXCEPT ![p] = <<Opened(r)>>]
        BY <1>2 DEF Call
    <2>2. PICK g : g = Opened(r)
        OBVIOUS
    <2>3. Top(p)' = g
        BY <1>1, <2>1, <2>2 DEF Top
    <2>4. WalkInv(g)'
        BY <2>2, FreshWalks DEF Opened
    <2> QED  BY <2>3, <2>4 DEF WalkInv
<1>3. CASE HandlerCall(p)
    <2>1. PICK r \in HandlerCalls :
              stack' = [stack EXCEPT ![p] = Front(@) \o <<[Top(p) EXCEPT !.nested = TRUE], Opened(r)>>]
        BY <1>3 DEF HandlerCall
    <2>2. stack[p] # <<>>
        BY <1>3 DEF HandlerCall, At
    <2>3. PICK f \in Frames : f = Top(p)
        BY <2>2, TopFrame
    <2>4. PICK g \in Frames : g = [f EXCEPT !.nested = TRUE]
        BY DEF Frames
    <2>5. PICK h \in Frames : h = Opened(r)
        <3>1. r \in Requests
            BY EventBusAssumption
        <3> QED  BY <3>1, OpenedFrame
    <2>6. PICK s \in Seq(Frames) : s = stack[p]
        BY <1>1
    <2>7. PICK n \in Seq(Frames) : n = Front(s) \o <<g, h>>
        BY <2>2, <2>6, TopJoined
    <2>8. Len(n) = Len(s) + 1 /\ n[Len(s) + 1] = h
        <3>1. Len(s) \in Nat \ {0}
            BY <2>2, <2>6, TopRemoved
        <3>2. /\ Len(n) = Len(s) + 1
              /\ \A i \in 1 .. Len(s) + 1 :
                    n[i] = IF i = Len(s) + 1 THEN h ELSE IF i = Len(s) THEN g ELSE s[i]
            BY <2>2, <2>6, <2>7, TopJoined
        <3>3. Len(s) + 1 \in 1 .. Len(s) + 1
            BY <3>1
        <3> QED  BY <3>2, <3>3
    <2>9. stack'[p] = n
        BY <1>1, <2>1, <2>3, <2>4, <2>5, <2>6, <2>7
    <2>10. Top(p)' = h
        BY <2>8, <2>9 DEF Top
    <2>11. WalkInv(h)'
        BY <2>5, FreshWalks DEF Opened
    <2> QED  BY <2>10, <2>11 DEF WalkInv
<1> QED  BY <1>2, <1>3

\* The walks are kept by whoever makes a step.
LEMMA OwnWalksOn ==
    ASSUME IInv, NEW p \in Procs, Call(p) \/ Step(p), stack'[p] # <<>>
    PROVE  WalkInv(Top(p))'
<1>1. TypeOK /\ StackInv
    BY DEF IInv
<1>2. CASE AnnounceWriter(p) \/ EnterWriter(p) \/ EnterReader(p) \/ CheckDuplicate(p)
    BY <1>1, <1>2, OnTheWay DEF IInv
<1>3. CASE CheckType(p)
    BY <1>1, <1>3, WalkGoesOn DEF IInv
<1>4. CASE Call(p) \/ HandlerCall(p)
    BY <1>1, <1>4, CalledTop
<1>5. ASSUME Top(p)'.at \notin Waiting PROVE WalkInv(Top(p))'
    <2>1. PICK f : f = Top(p)'
        OBVIOUS
    <2>2. WalkInv(f)'
        BY <1>5, <2>1, PastWalks
    <2> QED  BY <2>1, <2>2 DEF WalkInv
<1>6. CASE Register(p) \/ RefuseDuplicate(p) \/ CheckDone(p) \/ StartFanOut(p) \/ Deliver(p)
    <2>1. PICK from \in Places, to \in Places \ Waiting : Goto(p, from, to)
        BY <1>6 DEF Register, RefuseDuplicate, CheckDone, StartFanOut, Deliver, Places, Waiting
    <2>2. Top(p)'.at = to
        BY <1>1, <2>1, TopGoes
    <2> QED  BY <1>5, <2>1, <2>2
<1>7. CASE CopySubscribers(p)
    <2>1. PICK f \in Frames : f = Top(p) /\ stack[p] # <<>>
        BY <1>1, <1>7, TopFrame DEF CopySubscribers, At
    <2>2. PICK c \in Seq(Names) : c = subs[f.req.type]
        BY <1>1 DEF TypeOK, Frames, Requests
    <2>3. PICK g \in Frames : g = [f EXCEPT !.at = "runlock", !.subs = c]
        BY DEF Frames, Places
    <2>4. Becomes(p, g)
        BY <1>7, <2>1, <2>2, <2>3 DEF CopySubscribers
    <2>5. Top(p)' = g /\ g.at = "runlock"
        BY <1>1, <2>1, <2>3, <2>4, TopIs DEF Frames
    <2> QED  BY <1>5, <2>5 DEF Waiting
<1>8. CASE HandlerReturns(p) \/ HandlerPanics(p)
    <2>1. PICK f \in Frames : f = Top(p) /\ stack[p] # <<>> /\ FrameInv(f) /\ f.at = "handler"
        BY <1>1, <1>8, TopFrame DEF HandlerReturns, HandlerPanics, At
    <2>2. PICK failed \in BOOLEAN : Becomes(p, Ended(f, failed))
        <3>1. Recovered(stack[p]) = Append(Front(stack[p]), Ended(f, TRUE))
            BY <2>1 DEF Recovered, Last, Top
        <3> QED  BY <1>8, <2>1, <3>1 DEF HandlerReturns, HandlerPanics, Becomes
    <2>3. PICK g \in Frames : g = Ended(f, failed) /\ g.at = "next"
        BY <2>1, EndedFrame
    <2>4. Top(p)' = g
        BY <1>1, <2>1, <2>2, <2>3, TopIs
    <2> QED  BY <1>5, <2>3, <2>4 DEF Waiting
<1>9. CASE ExitWriter(p) \/ ExitReader(p) \/ PublishReturns(p)
    <2>1. stack[p] # <<>> /\ Returned(p) /\ UNCHANGED subs
        BY <1>9 DEF ExitWriter, ExitReader, PublishReturns, At
    <2>2. \A places : Within(p, places)' => "handler" \in places
        BY <1>1, <2>1, TopReturns
    <2>3. Top(p)'.at = "handler"
        BY <2>2 DEF Within
    <2> QED  BY <1>5, <2>3 DEF Waiting
<1>10. CASE ExitPanicking(p) \/ LoggingPanics(p)
    <2>1. stack[p] # <<>> /\ stack' = [stack EXCEPT ![p] = Unwound(@)] /\ UNCHANGED subs
        BY <1>10 DEF ExitPanicking, LoggingPanics, At
    <2>2. \A places : Within(p, places)' => "next" \in places
        BY <1>1, <2>1, TopUnwinds
    <2>3. Top(p)'.at = "next"
        BY <2>2 DEF Within
    <2> QED  BY <1>5, <2>3 DEF Waiting
<1> QED  BY <1>2, <1>3, <1>4, <1>6, <1>7, <1>8, <1>9, <1>10 DEF Step

\* One step of anybody.
LEMMA WalksKept ==
    ASSUME IInv, NEW p \in Procs, Call(p) \/ Step(p)
    PROVE  WalksInv'
BY OwnWalksOn, OthersWalkOn DEF WalksInv

-----------------------------------------------------------------------------
(* One step of anybody.                                                   *)

\* Who is where, and who holds the lock.
LEMMA StepKeeps ==
    ASSUME IInv, NEW p \in Procs, Call(p) \/ Step(p)
    PROVE  BusInv'
<1>1. BusInv /\ RegistryInv /\ WalksInv
    BY DEF IInv, BusInv
<1>2. CASE Call(p)
    BY <1>1, <1>2, CallKeeps
<1>3. CASE HandlerCall(p)
    BY <1>1, <1>3, HandlerCallKeeps
<1>4. CASE AnnounceWriter(p) \/ EnterWriter(p) \/ EnterReader(p)
    BY <1>1, <1>4, EnteringKeeps
<1>5. CASE CheckDuplicate(p) \/ Register(p) \/ RefuseDuplicate(p)
    BY <1>1, <1>5, SubscribeKeeps
<1>6. CASE ExitWriter(p) \/ ExitPanicking(p)
    BY <1>1, <1>6, WriterExitKeeps
<1>7. CASE CopySubscribers(p) \/ CheckType(p) \/ CheckDone(p)
    BY <1>1, <1>7, ReadingKeeps
<1>8. CASE StartFanOut(p) \/ ExitReader(p)
    BY <1>1, <1>8, ReaderExitKeeps
<1>9. CASE \/ Deliver(p) \/ HandlerReturns(p) \/ HandlerPanics(p)
           \/ LoggingPanics(p) \/ PublishReturns(p)
    BY <1>1, <1>9, FanOutKeeps
<1>10. QED
    BY <1>2, <1>3, <1>4, <1>5, <1>6, <1>7, <1>8, <1>9 DEF Step

\* The registry is changed by Register alone, which adds a name that is not
\* there (bus.go:103-108).
LEMMA RegistryOnlyGrows ==
    ASSUME IInv, NEW p \in Procs, Call(p) \/ Step(p)
    PROVE  RegistryInv' /\ \A t \in Types : Registered(t) \subseteq Registered(t)'
<1>1. CASE Register(p)
    <2>1. stack[p] # <<>>
        BY <1>1 DEF Register, Goto, At
    <2>2. PICK f \in Frames : f = Top(p)
        BY <2>1, TopFrame DEF IInv
    <2>3. f.req \in Requests
        BY DEF Frames
    <2>4. f.at = "append"
        BY <1>1, <2>2 DEF Register, Goto, At
    <2>5. ~AlreadySubscribed(f.req.type, f.req.name)
        BY <2>1, <2>2, <2>4 DEF IInv, WalksInv, WalkInv, Waiting
    <2>6. QED
        BY <1>1, <2>2, <2>3, <2>5, RegistryGrows DEF IInv, Register
<1>2. CASE ~Register(p)
    <2>1. UNCHANGED subs
        BY <1>2 DEF Step, Call, HandlerCall, AnnounceWriter, EnterWriter, EnterReader,
           CheckDuplicate, RefuseDuplicate, ExitWriter, ExitPanicking, CopySubscribers,
           CheckType, CheckDone,
           StartFanOut, ExitReader, Deliver, HandlerReturns, HandlerPanics, LoggingPanics,
           PublishReturns
    <2>2. QED
        BY <2>1 DEF IInv, RegistryInv, Registered
<1>3. QED
    BY <1>1, <1>2

\* What VerifyWiring vouches for has been looked at, type by type, and does
\* not go away (bus.go:203-215).
LEMMA VerifiedStaysWired ==
    ASSUME IInv, NEW p \in Procs, Call(p) \/ Step(p)
    PROVE  VerifiedMeansWired'
<1>1. \A t \in Types : Registered(t) \subseteq Registered(t)'
    BY RegistryOnlyGrows
<1>2. \A i \in DOMAIN TypeOrder : TypeOrder[i] \in Types
    BY EventBusAssumption
<1>3. ASSUME verified' PROVE \A i \in DOMAIN TypeOrder : Wired(TypeOrder[i])
    <2>1. CASE verified
        BY <2>1 DEF IInv, VerifiedMeansWired, Wired
    <2>2. CASE ~verified
        <3>1. ExitReader(p) /\ Calling(p, "VerifyWiring") /\ Top(p).errs = {}
            BY <1>3, <2>2 DEF Step, Call, HandlerCall, AnnounceWriter, EnterWriter, EnterReader,
               CheckDuplicate, Register, RefuseDuplicate, ExitWriter, ExitPanicking,
               CopySubscribers, CheckType,
               CheckDone, StartFanOut, ExitReader, Deliver, HandlerReturns, HandlerPanics,
               LoggingPanics, PublishReturns
        <3>2. stack[p] # <<>> /\ Top(p).at = "runlock"
            BY <3>1 DEF ExitReader, At
        <3>3. PICK f \in Frames : f = Top(p) /\ FrameInv(f)
            BY <3>2, TopFrame DEF IInv
        <3>4. Len(TypeOrder) < f.next /\ \A i \in DOMAIN TypeOrder : i < f.next => Wired(TypeOrder[i])
            BY <3>1, <3>2, <3>3 DEF FrameInv, CheckInv, Calling, InReader
        <3>5. f.next \in Nat
            BY DEF Frames
        <3>6. QED
            BY <3>4, <3>5, EventBusAssumption
    <2>3. QED
        BY <2>1, <2>2
<1>4. QED
    BY <1>1, <1>2, <1>3 DEF VerifiedMeansWired, Wired

\* The inductive invariant, for all instances.
THEOREM Inductive == Spec => []IInv
<1>1. Init => IInv
    <2> SUFFICES ASSUME Init PROVE IInv
        OBVIOUS
    <2>1. BusInv
        BY InitBus
    <2>2. RegistryInv /\ WalksInv /\ VerifiedMeansWired
        BY DEF Init, RegistryInv, Distinct, WalksInv, VerifiedMeansWired
    <2>3. QED
        BY <2>1, <2>2 DEF IInv, BusInv
<1>2. IInv /\ [Next]_vars => IInv'
    <2> SUFFICES ASSUME IInv, [Next]_vars PROVE IInv'
        OBVIOUS
    <2>1. CASE Next
        <3>1. PICK p \in Procs : Call(p) \/ Step(p)
            BY <2>1 DEF Next
        <3>2. BusInv' /\ RegistryInv' /\ WalksInv' /\ VerifiedMeansWired'
            BY <3>1, StepKeeps, RegistryOnlyGrows, WalksKept, VerifiedStaysWired
        <3>3. QED
            BY <3>2 DEF IInv, BusInv
    <2>2. CASE UNCHANGED vars
        <3>1. UNCHANGED subs /\ UNCHANGED mu /\ UNCHANGED stack /\ UNCHANGED verified
            BY <2>2 DEF vars
        <3>2. TypeOK' /\ RegistryInv' /\ VerifiedMeansWired'
            BY <3>1 DEF IInv, TypeOK, RegistryInv, VerifiedMeansWired, Registered
        <3>3. LockInv'
            BY <3>1 DEF IInv, LockInv, Within, Top
        <3>4. StackInv'
            BY <3>1 DEF IInv, StackInv, FrameInv, PlaceInv, CopyInv, CheckInv, Wired, Registered
        <3>5. WalksInv'
            <4>1. ASSUME NEW q \in Procs, stack'[q] # <<>> PROVE WalkInv(Top(q))'
                <5>1. PICK f : f = Top(q)
                    OBVIOUS
                <5>2. WalkInv(f) /\ Top(q)' = f
                    BY <3>1, <4>1, <5>1 DEF IInv, WalksInv, Top
                <5>3. Walked(f.next)' = Walked(f.next)
                    BY <3>1, WalkSteps
                <5>4. \A t, n : AlreadySubscribed(t, n)' <=> AlreadySubscribed(t, n)
                    BY <3>1 DEF AlreadySubscribed
                <5>5. QED
                    BY <5>2, <5>3, <5>4 DEF WalkInv
            <4>2. QED
                BY <4>1 DEF WalksInv
        <3>6. QED
            BY <3>2, <3>3, <3>4, <3>5 DEF IInv
    <2>3. QED
        BY <2>1, <2>2
<1>3. QED
    BY <1>1, <1>2, PTL DEF Spec

-----------------------------------------------------------------------------
(* What follows.                                                           *)

\* No subscriber is told of an event twice: neither the registry nor the copy
\* of any Publish in progress names one twice, however Subscribe calls race
\* and wherever they are made from (bus.go:95-98).
THEOREM NobodyIsToldTwice == Spec => []OneDeliveryEach
<1>1. IInv => OneDeliveryEach
    BY DEF IInv, RegistryInv, StackInv, FrameInv, CopyInv, OneDeliveryEach
<1>2. QED
    BY <1>1, Inductive, PTL

\* What startup has verified stays wired while the program runs
\* (bus.go:191-215).
THEOREM VerifiedForGood == Spec => []VerifiedMeansWired
<1>1. IInv => VerifiedMeansWired
    BY DEF IInv
<1>2. QED
    BY <1>1, Inductive, PTL

\* No handler runs under the lock of the bus, and while Subscribe looks at the
\* registry and changes it nobody else is inside (bus.go:100-108, 140-147).
LockIsKeptShort ==
    \A p \in Procs :
        /\ At(p, "handler") => mu.writer # p /\ mu.readers[p] = 0
        /\ Within(p, {"body", "append"}) =>
              \A q \in Procs \ {p} : ~Within(q, InReader \cup {"body", "append"})

THEOREM HandlersRunUnlocked == Spec => []LockIsKeptShort
<1>1. IInv => LockIsKeptShort
    <2> SUFFICES ASSUME IInv, NEW p \in Procs
                 PROVE  /\ At(p, "handler") => mu.writer # p /\ mu.readers[p] = 0
                        /\ Within(p, {"body", "append"}) =>
                              \A q \in Procs \ {p} :
                                  ~Within(q, InReader \cup {"body", "append"})
        BY DEF LockIsKeptShort
    <2>1. ASSUME At(p, "handler")
          PROVE  mu.writer # p /\ mu.readers[p] = 0
        <3>1. ~Within(p, InWriter) /\ ~Within(p, InReader)
            BY <2>1, AtIsWithin DEF InWriter, InReader
        <3>2. QED
            BY <3>1 DEF IInv, LockInv
    <2>2. ASSUME Within(p, {"body", "append"}), NEW q \in Procs \ {p}
          PROVE  ~Within(q, InReader \cup {"body", "append"})
        <3>1. Within(p, InWriter) /\ Within(p, InWriter \ {"drain"})
            BY <2>2 DEF Within, InWriter
        <3>2. mu.writer = p /\ mu.readers[q] = 0
            BY <3>1 DEF IInv, LockInv
        <3>3. ~Within(q, InWriter) /\ ~Within(q, InReader)
            BY <3>2 DEF IInv, LockInv
        <3>4. QED
            BY <3>3 DEF Within, InWriter
    <2>3. QED
        BY <2>1, <2>2
<1>2. QED
    BY <1>1, Inductive, PTL

\* Which steps end a call: the exits of the lock and the end of a fan-out.
LEMMA WhoReturns ==
    ASSUME IInv, "badError" \notin Outcomes, NEW p \in Procs, Call(p) \/ Step(p),
           stack[p] # <<>>, ~PublishReturns(p)
    PROVE  \/ Len(stack'[p]) >= Len(stack[p])
           \/ /\ Len(stack'[p]) = Len(stack[p]) - 1
              /\ Top(p).req.call # "Publish"
<1>1. PICK s \in Seq(Frames) : s = stack[p] /\ s # <<>> /\ Len(s) \in Nat \ {0}
    BY TopFrame DEF IInv, TypeOK
<1>2. PICK f \in Frames : f = Top(p) /\ FrameInv(f)
    BY TopFrame DEF IInv
<1>3. stack \in [Procs -> Seq(Frames)] /\ StackInv /\ TypeOK
    BY DEF IInv, TypeOK
<1>4. ASSUME NEW g \in Frames, Becomes(p, g)
      PROVE  Len(stack'[p]) = Len(stack[p])
    BY <1>1, <1>3, <1>4, TopReplaced DEF Becomes
<1>5. CASE HandlerCall(p)
    <2>1. PICK r \in HandlerCalls :
             stack' = [stack EXCEPT ![p] = Front(@) \o <<[Top(p) EXCEPT !.nested = TRUE], Opened(r)>>]
        BY <1>5 DEF HandlerCall
    <2>2. PICK g \in Frames : g = [f EXCEPT !.nested = TRUE]
        BY DEF Frames
    <2>3. PICK h \in Frames : h = Opened(r)
        <3>1. r \in Requests
            BY EventBusAssumption
        <3>2. QED
            BY <1>3, <3>1, OpenedFrame
    <2>4. PICK t \in Seq(Frames) : t = s /\ t # <<>>
        BY <1>1
    <2>5. PICK n \in Seq(Frames) : n = Front(t) \o <<g, h>>
        BY <2>4, TopJoined
    <2>6. Len(n) = Len(t) + 1
        BY <2>4, <2>5, TopJoined, TopRemoved
    <2>7. stack'[p] = n
        BY <1>1, <1>2, <1>3, <2>1, <2>2, <2>3, <2>4, <2>5
    <2>8. QED
        BY <1>1, <2>4, <2>6, <2>7
<1>6. ASSUME NEW from, NEW to \in Places, Goto(p, from, to)
      PROVE  Len(stack'[p]) = Len(stack[p])
    <2>1. PICK g \in Frames : g = [f EXCEPT !.at = to]
        BY RelocatedFrame
    <2>2. QED
        BY <1>2, <1>4, <1>6, <2>1 DEF Goto
<1>7. CASE AnnounceWriter(p) \/ EnterWriter(p) \/ EnterReader(p) \/ CheckDuplicate(p)
           \/ Register(p) \/ RefuseDuplicate(p) \/ CheckDone(p) \/ StartFanOut(p) \/ Deliver(p)
    <2>1. PICK from, to \in Places : Goto(p, from, to)
        BY <1>7 DEF AnnounceWriter, EnterWriter, EnterReader, CheckDuplicate, Register, RefuseDuplicate,
           CheckDone, StartFanOut, Deliver, Places
    <2>2. QED
        BY <1>1, <1>6, <2>1
<1>8. CASE ExitWriter(p) \/ ExitReader(p)
    <2>1. stack'[p] = Front(s)
        BY <1>1, <1>3, <1>8 DEF ExitWriter, ExitReader, Returned
    <2>2. f.req.call # "Publish"
        BY <1>2, <1>8 DEF ExitWriter, ExitReader, Calling, At, FrameInv, PlaceInv, InWriter
    <2>3. QED
        BY <1>1, <1>2, <2>1, <2>2, TopRemoved
<1>9. CASE ExitPanicking(p)
    <2>1. stack'[p] = Unwound(s)
        BY <1>1, <1>3, <1>9 DEF ExitPanicking
    <2>2. f.req.call # "Publish"
        BY <1>2, <1>9 DEF ExitPanicking, At, FrameInv, PlaceInv, InWriter
    <2>3. Len(Unwound(s)) = Len(s) - 1
        <3>1. CASE Len(s) = 1
            BY <3>1 DEF Unwound
        <3>2. CASE Len(s) # 1
            <4>1. PICK below \in Seq(Frames) : below = Front(s)
                BY <1>1, TopRemoved
            <4>2. Len(below) = Len(s) - 1 /\ \A i \in 1 .. Len(s) - 1 : below[i] = s[i]
                BY <1>1, <4>1, TopRemoved
            <4>3. below # <<>> /\ Len(below) \in 1 .. Len(s) - 1
                <5>1. Len(s) \in Nat \ {0, 1}
                    BY <1>1, <3>2
                <5>2. Len(below) \in Nat \ {0} /\ Len(below) \in 1 .. Len(s) - 1
                    BY <4>2, <5>1
                <5>3. QED
                    BY <5>2
            <4>4. PICK h \in Frames : h = below[Len(below)]
                BY <4>1, <4>3, TopRemoved
            <4>5. h = stack[p][Len(below)]
                BY <1>1, <4>2, <4>3, <4>4
            <4>6. FrameInv(h) /\ h.at = "handler"
                BY <1>1, <1>3, <4>3, <4>5, TopFrame
            <4>7. PICK g \in Frames : g = Ended(h, TRUE)
                BY <4>6, EndedFrame
            <4>8. Unwound(s) = Append(Front(below), g)
                BY <3>2, <4>1, <4>4, <4>7 DEF Unwound, Recovered, Last
            <4>9. QED
                BY <4>2, <4>3, <4>8, TopReplaced
        <3>3. QED
            BY <3>1, <3>2
    <2>4. QED
        BY <1>1, <1>2, <2>1, <2>2, <2>3
<1>10. CASE CopySubscribers(p)
    <2>1. PICK c \in Seq(Names) : c = subs[f.req.type]
        BY DEF IInv, TypeOK, Frames, Requests
    <2>2. PICK g \in Frames : g = [f EXCEPT !.at = "runlock", !.subs = c]
        BY DEF Frames, Places
    <2>3. Becomes(p, [f EXCEPT !.at = "runlock", !.subs = subs[f.req.type]])
        BY <1>2, <1>10 DEF CopySubscribers
    <2>4. QED
        BY <1>1, <1>4, <2>1, <2>2, <2>3
<1>11. CASE CheckType(p)
    <2>1. PICK e : e = f.errs \cup Missing(TypeOrder[f.next])
        OBVIOUS
    <2>2. stack'[p] = Append(Front(s), [f EXCEPT !.next = f.next + 1, !.errs = e])
        BY <1>1, <1>2, <1>3, <1>11, <2>1 DEF CheckType, Becomes
    <2>3. PICK g : g = [f EXCEPT !.next = f.next + 1, !.errs = e]
        OBVIOUS
    <2>4. Front(s) \in Seq(Frames) /\ Len(Front(s)) = Len(s) - 1
        BY <1>1, TopRemoved
    <2>5. PICK b \in Seq(Frames \cup {g}) : b = Front(s)
        BY <2>4, SeqMonotonic
    <2>6. Len(Append(b, g)) = Len(b) + 1
        BY AppendProperties
    <2>7. QED
        BY <1>1, <2>2, <2>3, <2>4, <2>5, <2>6
<1>12. CASE HandlerReturns(p) \/ HandlerPanics(p)
    <2>1. f.at = "handler"
        BY <1>2, <1>12 DEF HandlerReturns, HandlerPanics, At
    <2>2. PICK failed \in BOOLEAN : Becomes(p, Ended(f, failed))
        <3>1. Recovered(stack[p]) = Append(Front(stack[p]), Ended(f, TRUE))
            BY <1>2 DEF Recovered, Last, Top
        <3>2. QED
            BY <1>2, <1>12, <3>1 DEF HandlerReturns, HandlerPanics, Becomes
    <2>3. QED
        BY <1>1, <1>2, <1>4, <2>1, <2>2, EndedFrame
<1>13. ~Call(p) /\ ~LoggingPanics(p)
    BY DEF Call, LoggingPanics
<1>14. QED
    BY <1>5, <1>7, <1>8, <1>9, <1>10, <1>11, <1>12, <1>13 DEF Step

\* A Publish that returns has told everybody who was subscribed when it was
\* called (bus.go:125-138), as long as the errors handlers return can be
\* printed: the log line of bus.go:152 is outside deliver's recover.
THEOREM FanOutIsComplete ==
    ASSUME "badError" \notin Outcomes
    PROVE  Spec => FanOutComplete
<1>1. IInv /\ [Next]_vars =>
         [\A p \in Procs : \A i \in DOMAIN stack[p] :
             LET f == stack[p][i]
             IN  i > Len(stack'[p]) /\ f.req.call = "Publish" => f.owed \subseteq Reached(f)]_vars
    <2> SUFFICES ASSUME IInv, Next, NEW p \in Procs, NEW i \in DOMAIN stack[p],
                        i > Len(stack'[p]), stack[p][i].req.call = "Publish"
                 PROVE  stack[p][i].owed \subseteq Reached(stack[p][i])
        OBVIOUS
    <2>1. /\ stack[p] # <<>>
          /\ Len(stack[p]) \in Nat \ {0} /\ i \in 1 .. Len(stack[p])
        <3>1. stack[p] \in Seq(Frames)
            BY DEF IInv, TypeOK
        <3>2. stack[p] # <<>>
            OBVIOUS
        <3>3. QED
            BY <3>1, <3>2, TopFrame DEF IInv
    <2>2. PICK q \in Procs : Call(q) \/ Step(q)
        BY DEF Next
    <2>3. BusInv' /\ BusInv
        BY <2>2, StepKeeps DEF IInv, BusInv
    <2>4. Len(stack'[p]) \in Nat
        BY <2>3 DEF BusInv, TypeOK
    <2>5. q = p
        <3>1. CASE q # p
            <4>1. stack'[p] = stack[p]
                BY <2>2, <3>1 DEF IInv, TypeOK, Step, Call, HandlerCall, AnnounceWriter, EnterWriter,
                   EnterReader, CheckDuplicate, Register, RefuseDuplicate, ExitWriter,
                   ExitPanicking,
                   CopySubscribers, CheckType, CheckDone, StartFanOut, ExitReader, Deliver,
                   HandlerReturns, HandlerPanics, LoggingPanics, PublishReturns, Goto, Becomes,
                   Returned
            <4>2. QED
                BY <2>1, <2>4, <4>1
        <3>2. QED
            BY <3>1
    <2>6. PublishReturns(p) /\ i = Len(stack[p])
        <3>1. CASE ~PublishReturns(p)
            <4>1. \/ Len(stack'[p]) >= Len(stack[p])
                  \/ /\ Len(stack'[p]) = Len(stack[p]) - 1
                     /\ Top(p).req.call # "Publish"
                BY <2>1, <2>2, <2>5, <3>1, WhoReturns
            <4>2. i = Len(stack[p]) /\ Top(p).req.call # "Publish"
                BY <2>1, <2>4, <4>1
            <4>3. QED
                BY <4>2 DEF Top
        <3>2. CASE PublishReturns(p)
            <4>1. stack'[p] = Front(stack[p])
                BY <3>2 DEF PublishReturns, Returned, IInv, TypeOK
            <4>2. Len(stack'[p]) = Len(stack[p]) - 1
                BY <2>1, <4>1, TopRemoved DEF IInv, TypeOK
            <4>3. QED
                BY <2>1, <3>2, <4>2
        <3>3. QED
            BY <3>1, <3>2
    <2>7. PICK f \in Frames : f = Top(p) /\ FrameInv(f)
        BY <2>1, TopFrame DEF IInv
    <2>8. f = stack[p][i] /\ f.at = "next" /\ f.next > Len(f.subs)
        BY <2>6, <2>7 DEF Top, PublishReturns, At
    <2>9. f.owed \subseteq {f.subs[k] : k \in DOMAIN f.subs}
        BY <2>7, <2>8 DEF FrameInv, CopyInv, InFanOut
    <2>10. f.subs \in Seq(Names) /\ f.next \in Nat
        BY DEF Frames
    <2>11. \A k \in DOMAIN f.subs : k < f.next
        BY <2>8, <2>10
    <2>12. QED
        BY <2>8, <2>9, <2>11 DEF Reached
<1>2. QED
    BY <1>1, Inductive, PTL DEF Spec, FanOutComplete

-----------------------------------------------------------------------------
(* The bus as its callers see it.                                          *)

\* A stack of calls, as seen.
SeenSeq(s) == [i \in DOMAIN s |-> Seen(s[i])]
SeenFrames == {Seen(f) : f \in Frames}

\* Where a call is, for its caller.
LEMMA PlaceIs ==
    ASSUME NEW f
    PROVE  /\ f.at \in {"lock", "drain", "body", "append", "read"} => PlaceOf(f) = "called"
           /\ f.at = "unlock" => PlaceOf(f) = "done"
           /\ f.at = "panic" => PlaceOf(f) = "refused"
           /\ f.at = "runlock" /\ f.req.call = "Publish" => PlaceOf(f) = "fanout"
           /\ f.at = "runlock" /\ f.req.call # "Publish" => PlaceOf(f) = "done"
           /\ f.at = "next" => PlaceOf(f) = "fanout"
           /\ f.at = "handler" => PlaceOf(f) = "running"
BY DEF PlaceOf

\* What is seen of a stack is as deep as the stack.
LEMMA SeenLength ==
    ASSUME NEW s \in Seq(Frames)
    PROVE  /\ SeenSeq(s) \in Seq(SeenFrames)
           /\ Len(SeenSeq(s)) = Len(s) /\ Len(s) \in Nat
           /\ DOMAIN SeenSeq(s) = 1 .. Len(s) /\ DOMAIN s = 1 .. Len(s)
           /\ \A i \in 1 .. Len(s) : s[i] \in Frames /\ SeenSeq(s)[i] = Seen(s[i])
           /\ SeenSeq(s) = <<>> <=> s = <<>>
<1>1. /\ DOMAIN s = 1 .. Len(s) /\ Len(s) \in Nat
      /\ \A i \in 1 .. Len(s) : s[i] \in Frames
    OBVIOUS
<1>2. PICK t : t = SeenSeq(s)
    OBVIOUS
<1>3. /\ t = [i \in 1 .. Len(s) |-> Seen(s[i])]
      /\ \A i \in 1 .. Len(s) : Seen(s[i]) \in SeenFrames
    BY <1>1, <1>2 DEF SeenSeq, SeenFrames
<1>4. t \in Seq(SeenFrames) /\ DOMAIN t = 1 .. Len(s)
    BY <1>1, <1>3, IsASeq
<1>5. Len(t) = Len(s)
    BY <1>1, <1>4, LenProperties
<1>6. t = <<>> <=> Len(t) = 0
    BY <1>4, EmptySeq
<1>7. s = <<>> <=> Len(s) = 0
    BY EmptySeq
<1> QED  BY <1>1, <1>2, <1>3, <1>4, <1>5, <1>6, <1>7

\* Two sequences that agree.
LEMMA SameSequence ==
    ASSUME NEW S, NEW T, NEW s \in Seq(S), NEW t \in Seq(T), Len(s) = Len(t),
           \A i \in 1 .. Len(s) : s[i] = t[i]
    PROVE  s = t
OBVIOUS

\* When the stack of p becomes n, what is seen of it becomes what is seen of n.
LEMMA StacksBecome ==
    ASSUME TypeOK, NEW p \in Procs, NEW n \in Seq(Frames), stack' = [stack EXCEPT ![p] = n]
    PROVE  SeenStacks' = [SeenStacks EXCEPT ![p] = SeenSeq(n)]
<1>1. stack \in [Procs -> Seq(Frames)]
    BY DEF TypeOK
<1>2. /\ SeenStacks = [q \in Procs |-> SeenSeq(stack[q])]
      /\ SeenStacks' = [q \in Procs |-> SeenSeq(stack'[q])]
    BY DEF SeenStacks, SeenSeq
<1>3. \A q \in Procs : stack'[q] = IF q = p THEN n ELSE stack[q]
    BY <1>1
<1> QED  BY <1>2, <1>3

\* The innermost call of p, as seen.
LEMMA SeenTop ==
    ASSUME TypeOK, StackInv, NEW p \in Procs, stack[p] # <<>>
    PROVE  /\ SeenStacks[p] = SeenSeq(stack[p])
           /\ SeenStacks[p] # <<>>
           /\ Atomic!Depth(p) = Len(stack[p])
           /\ Atomic!Top(p) = Seen(Top(p))
           /\ \A place : Atomic!At(p, place) <=> PlaceOf(Top(p)) = place
<1>1. SeenStacks[p] = SeenSeq(stack[p])
    BY DEF SeenStacks, SeenSeq
<1>2. stack[p] \in Seq(Frames) /\ Len(stack[p]) \in 1 .. Len(stack[p])
    BY TopFrame
<1>3. SeenStacks[p] # <<>> /\ Atomic!Depth(p) = Len(stack[p])
    BY <1>1, <1>2, SeenLength DEF Atomic!Depth
<1>4. Atomic!Top(p) = Seen(Top(p))
    BY <1>1, <1>2, <1>3, SeenLength DEF Atomic!Top, Top
<1>5. Seen(Top(p)).at = PlaceOf(Top(p))
    BY DEF Seen
<1> QED  BY <1>1, <1>3, <1>4, <1>5 DEF Atomic!At

\* A call that goes on is seen to go on.
LEMMA SeenBecomes ==
    ASSUME TypeOK, StackInv, NEW p \in Procs, stack[p] # <<>>, NEW g \in Frames, Becomes(p, g)
    PROVE  /\ Atomic!Becomes(p, Seen(g))
           /\ Seen(g) = Seen(Top(p)) => SeenStacks' = SeenStacks
<1>1. PICK s \in Seq(Frames) : s = stack[p]
    BY DEF TypeOK
<1>2. PICK n \in Seq(Frames) : /\ n = Append(Front(s), g)
                               /\ Len(n) = Len(s) /\ Len(s) \in Nat \ {0}
                               /\ \A i \in 1 .. Len(s) : n[i] = IF i = Len(s) THEN g ELSE s[i]
    <2>1. PICK n \in Seq(Frames) : n = Append(Front(s), g)
        BY <1>1, TopReplaced
    <2>2. Len(n) = Len(s) /\ \A i \in 1 .. Len(s) : n[i] = IF i = Len(s) THEN g ELSE s[i]
        BY <1>1, <2>1, TopReplaced
    <2>3. Len(s) \in Nat \ {0}
        BY <1>1, TopRemoved
    <2> QED  BY <2>1, <2>2, <2>3
<1>3. SeenStacks' = [SeenStacks EXCEPT ![p] = SeenSeq(n)]
    BY <1>1, <1>2, StacksBecome DEF Becomes
<1>4. SeenStacks[p] = SeenSeq(s) /\ Atomic!Depth(p) = Len(s) /\ SeenSeq(s)[Len(s)] = Seen(Top(p))
    BY <1>1, <1>2, SeenTop, SeenLength DEF Top
<1>5. SeenSeq(n) = [SeenSeq(s) EXCEPT ![Len(s)] = Seen(g)]
    <2>1. /\ SeenSeq(n) = [i \in 1 .. Len(s) |-> Seen(n[i])]
          /\ SeenSeq(s) = [i \in 1 .. Len(s) |-> Seen(s[i])]
        BY <1>2, SeenLength DEF SeenSeq
    <2> QED  BY <1>2, <2>1
<1>6. SeenStacks = [q \in Procs |-> SeenStacks[q]] /\ DOMAIN SeenSeq(s) = 1 .. Len(s)
    BY SeenLength DEF SeenStacks
<1>7. Atomic!Becomes(p, Seen(g))
    BY <1>3, <1>4, <1>5, <1>6 DEF Atomic!Becomes
<1>8. ASSUME Seen(g) = Seen(Top(p)) PROVE SeenStacks' = SeenStacks
    <2>1. SeenSeq(n) = SeenSeq(s)
        <3>1. SeenSeq(s) = [i \in 1 .. Len(s) |-> SeenSeq(s)[i]]
            BY SeenLength DEF SeenSeq
        <3> QED  BY <1>4, <1>5, <1>8, <3>1
    <2> QED  BY <1>3, <1>4, <1>6, <2>1
<1> QED  BY <1>7, <1>8

\* A call that is over is seen to be over.
LEMMA SeenReturned ==
    ASSUME TypeOK, StackInv, NEW p \in Procs, stack[p] # <<>>, Returned(p)
    PROVE  SeenStacks' = [SeenStacks EXCEPT ![p] = SubSeq(@, 1, Atomic!Depth(p) - 1)]
<1>1. PICK s \in Seq(Frames) : s = stack[p]
    BY DEF TypeOK
<1>2. PICK n \in Seq(Frames) : /\ n = Front(s)
                               /\ Len(n) = Len(s) - 1 /\ Len(s) \in Nat \ {0}
                               /\ \A i \in 1 .. Len(s) - 1 : n[i] = s[i]
    BY <1>1, TopRemoved
<1>3. SeenStacks' = [SeenStacks EXCEPT ![p] = SeenSeq(n)]
    BY <1>1, <1>2, StacksBecome DEF Returned
<1>4. SeenStacks[p] = SeenSeq(s) /\ Atomic!Depth(p) = Len(s)
    BY <1>1, SeenTop
<1>5. PICK t \in Seq(SeenFrames) : /\ t = SeenSeq(s) /\ Len(t) = Len(s)
                                   /\ \A i \in 1 .. Len(s) : t[i] = Seen(s[i])
    BY SeenLength
<1>6. PICK k \in Nat : k = Len(s) - 1
    BY <1>2
<1>7. PICK u \in Seq(SeenFrames) : /\ u = SubSeq(t, 1, k) /\ Len(u) = k
                                   /\ \A i \in 1 .. k : u[i] = t[i]
    <2>1. \A i \in 1 .. k : t[i] \in SeenFrames
        BY <1>5, <1>6
    <2>2. /\ SubSeq(t, 1, k) \in Seq(SeenFrames)
          /\ Len(SubSeq(t, 1, k)) = IF 1 <= k THEN k - 1 + 1 ELSE 0
          /\ \A i \in 1 .. k - 1 + 1 : SubSeq(t, 1, k)[i] = t[1 + i - 1]
        BY <2>1, SubSeqProperties
    <2>3. PICK u \in Seq(SeenFrames) : u = SubSeq(t, 1, k)
        BY <2>2
    <2>4. Len(u) = k
        BY <2>2, <2>3
    <2>5. \A i \in 1 .. k : u[i] = t[i]
        BY <2>2, <2>3
    <2> QED  BY <2>3, <2>4, <2>5
<1>8. SeenSeq(n) = u
    <2>1. PICK v \in Seq(SeenFrames) : /\ v = SeenSeq(n) /\ Len(v) = Len(n)
                                       /\ \A i \in 1 .. Len(n) : v[i] = Seen(n[i])
        BY SeenLength
    <2>2. Len(v) = Len(u) /\ \A i \in 1 .. Len(v) : v[i] = u[i]
        BY <1>2, <1>5, <1>6, <1>7, <2>1
    <2> QED  BY <2>1, <2>2, SameSequence
<1> QED  BY <1>3, <1>4, <1>5, <1>6, <1>7, <1>8

\* A handler is seen to end when it ends: who is left to be told is everybody
\* behind it in the copy.
LEMMA SeenEnded ==
    ASSUME NEW f \in Frames, FrameInv(f), f.at = "handler", NEW failed \in BOOLEAN
    PROVE  /\ Seen(Ended(f, failed)) = Atomic!Ended(Seen(f), failed)
           /\ Seen(f).at = "running"
<1>1. /\ f.req.call = "Publish" /\ f.subs \in Seq(Names)
      /\ f.next \in 1 .. Len(f.subs) /\ Len(f.subs) \in f.next .. Len(f.subs)
    <2>1. f.subs \in Seq(Names) /\ f.next \in Nat \ {0}
        BY DEF Frames
    <2>2. f.next <= Len(f.subs) /\ f.req.call = "Publish"
        BY DEF FrameInv, PlaceInv, CopyInv, InFanOut
    <2> QED  BY <2>1, <2>2
<1>2. /\ Head(SubSeq(f.subs, f.next, Len(f.subs))) = f.subs[f.next]
      /\ Tail(SubSeq(f.subs, f.next, Len(f.subs))) = SubSeq(f.subs, f.next + 1, Len(f.subs))
    BY <1>1, HeadTailOfSubSeq
<1>3. Seen(f) = [req |-> f.req, at |-> "running",
                 names |-> SubSeq(f.subs, f.next, Len(f.subs)), errs |-> f.errs]
    BY <1>1, PlaceIs DEF Seen
<1>4. PICK e : e = IF failed THEN f.errs \cup {<<f.req.type, f.subs[f.next]>>} ELSE f.errs
    OBVIOUS
<1>5. Atomic!Ended(Seen(f), failed) =
          [req |-> f.req, at |-> "fanout",
           names |-> SubSeq(f.subs, f.next + 1, Len(f.subs)), errs |-> e]
    <2>1. PICK names, errs, req, h :
              /\ names = SubSeq(f.subs, f.next, Len(f.subs)) /\ errs = f.errs /\ req = f.req
              /\ h = [req |-> req, at |-> "running", names |-> names, errs |-> errs]
        OBVIOUS
    <2>2. h = Seen(f)
        BY <1>3, <2>1
    <2>3. h.errs = f.errs /\ h.req = f.req /\ h.names = names
        BY <2>1
    <2>4. Head(h.names) = f.subs[f.next] /\ Tail(h.names) = SubSeq(f.subs, f.next + 1, Len(f.subs))
        BY <1>2, <2>1, <2>3
    <2>5. PICK rest : rest = Tail(h.names)
        OBVIOUS
    <2>6. Atomic!Ended(h, failed) = [h EXCEPT !.at = "fanout", !.names = rest, !.errs = e]
        <3>1. CASE failed
            BY <1>4, <2>3, <2>4, <2>5, <3>1 DEF Atomic!Ended
        <3>2. CASE ~ failed
            BY <1>4, <2>3, <2>4, <2>5, <3>2 DEF Atomic!Ended
        <3> QED  BY <3>1, <3>2
    <2>7. Atomic!Ended(h, failed) = [req |-> req, at |-> "fanout", names |-> rest, errs |-> e]
        BY <2>1, <2>6
    <2> QED  BY <2>1, <2>2, <2>4, <2>5, <2>7
<1>6. PICK g : g = Ended(f, failed)
    OBVIOUS
<1>7. g.req = f.req /\ g.at = "next" /\ g.subs = f.subs /\ g.next = f.next + 1 /\ g.errs = e
    BY <1>4, <1>6 DEF Ended, Frames
<1>8. Seen(g) = [req |-> f.req, at |-> "fanout",
                 names |-> SubSeq(f.subs, f.next + 1, Len(f.subs)), errs |-> e]
    BY <1>1, <1>7, PlaceIs DEF Seen
<1> QED  BY <1>3, <1>5, <1>6, <1>8

\* A panic is seen to end the call and, with it, the handler that made it.
LEMMA SeenUnwound ==
    ASSUME TypeOK, StackInv, NEW p \in Procs, stack[p] # <<>>,
           stack' = [stack EXCEPT ![p] = Unwound(@)]
    PROVE  SeenStacks' = [SeenStacks EXCEPT ![p] =
                             [i \in 1 .. Atomic!Depth(p) - 1 |->
                                 IF i = Atomic!Depth(p) - 1 THEN Atomic!Ended(@[i], TRUE) ELSE @[i]]]
<1>1. PICK s \in Seq(Frames) : s = stack[p]
    BY DEF TypeOK
<1>2. /\ \A i \in 1 .. Len(s) - 1 : s[i].at = "handler"
      /\ \A i \in 1 .. Len(s) : s[i] \in Frames /\ FrameInv(s[i])
      /\ Len(s) \in Nat \ {0}
    BY <1>1, TopFrame
<1>3. PICK k \in Nat : k = Len(s) - 1
    BY <1>2
<1>4. PICK below \in Seq(Frames) : /\ below = Front(s) /\ Len(below) = k
                                   /\ \A i \in 1 .. k : below[i] = s[i]
    <2>1. PICK below \in Seq(Frames) : below = Front(s)
        BY <1>1, TopRemoved
    <2>2. Len(below) = Len(s) - 1 /\ \A i \in 1 .. Len(s) - 1 : below[i] = s[i]
        BY <1>1, <2>1, TopRemoved
    <2> QED  BY <1>3, <2>1, <2>2
<1>5. PICK n : n = Unwound(s)
    OBVIOUS
<1>6. /\ n \in Seq(Frames) /\ Len(n) = k
      /\ \A i \in 1 .. k : n[i] = IF i = k THEN Ended(s[i], TRUE) ELSE s[i]
    <2>1. CASE Len(s) = 1
        <3>1. n = <<>> /\ k = 0
            BY <1>3, <1>5, <2>1 DEF Unwound
        <3>2. n \in Seq(Frames) /\ Len(n) = 0
            BY <3>1
        <3> QED  BY <3>1, <3>2
    <2>2. CASE Len(s) # 1
        <3>1. /\ k \in 1 .. k /\ k \in 1 .. Len(s) - 1 /\ k \in 1 .. Len(s)
            BY <1>2, <1>3, <2>2
        <3>2. below # <<>>
            BY <1>4, <3>1, EmptySeq
        <3>3. below[Len(below)] = s[k]
            BY <1>4, <3>1
        <3>4. PICK g \in Frames : g = Ended(s[k], TRUE)
            BY <1>2, <3>1, EndedFrame
        <3>5. n = Append(Front(below), g)
            BY <1>4, <1>5, <2>2, <3>3, <3>4 DEF Unwound, Recovered, Last
        <3>6. n \in Seq(Frames) /\ Len(n) = Len(below)
            BY <3>2, <3>5, TopReplaced
        <3>7. \A i \in 1 .. Len(below) : n[i] = IF i = Len(below) THEN g ELSE below[i]
            BY <3>2, <3>5, TopReplaced
        <3>8. ASSUME NEW i \in 1 .. k
              PROVE  n[i] = IF i = k THEN Ended(s[i], TRUE) ELSE s[i]
            <4>1. n[i] = IF i = k THEN g ELSE s[i]
                BY <1>4, <3>7
            <4> QED  BY <3>4, <4>1
        <3> QED  BY <1>4, <3>6, <3>8
    <2> QED  BY <2>1, <2>2
<1>7. SeenStacks' = [SeenStacks EXCEPT ![p] = SeenSeq(n)]
    BY <1>1, <1>5, <1>6, StacksBecome
<1>8. SeenStacks[p] = SeenSeq(s) /\ Atomic!Depth(p) - 1 = k
    BY <1>1, <1>3, SeenTop
<1>9. SeenSeq(n) = [i \in 1 .. k |-> IF i = k THEN Atomic!Ended(SeenSeq(s)[i], TRUE)
                                             ELSE SeenSeq(s)[i]]
    <2>1. SeenSeq(n) = [i \in 1 .. k |-> Seen(n[i])]
        BY <1>6, SeenLength DEF SeenSeq
    <2>2. ASSUME NEW i \in 1 .. k
          PROVE  Seen(n[i]) = IF i = k THEN Atomic!Ended(SeenSeq(s)[i], TRUE) ELSE SeenSeq(s)[i]
        <3>1. i \in 1 .. Len(s) /\ i \in 1 .. Len(s) - 1
            BY <1>2, <1>3
        <3>2. SeenSeq(s)[i] = Seen(s[i])
            BY <3>1, SeenLength
        <3>3. s[i] \in Frames /\ FrameInv(s[i]) /\ s[i].at = "handler"
            BY <1>2, <3>1
        <3>4. Seen(Ended(s[i], TRUE)) = Atomic!Ended(Seen(s[i]), TRUE)
            BY <3>3, SeenEnded
        <3>5. CASE i = k
            BY <1>6, <3>2, <3>4, <3>5
        <3>6. CASE i # k
            BY <1>6, <3>2, <3>6
        <3> QED  BY <3>5, <3>6
    <2> QED  BY <2>1, <2>2
<1>10. SeenStacks = [q \in Procs |-> SeenStacks[q]]
    BY DEF SeenStacks
<1> QED  BY <1>7, <1>8, <1>9, <1>10

-----------------------------------------------------------------------------
(* Every step is a step of the atomic bus, or none.                        *)

\* What is seen of a call, field by field.
NamesOf(f) == IF f.req.call = "Publish" THEN SubSeq(f.subs, f.next, Len(f.subs)) ELSE f.subs
ErrsOf(f) == IF PlaceOf(f) = "called" THEN {} ELSE f.errs

\* A call in another place, with other names or other errors.
Moved(s, place) == [s EXCEPT !.at = place]
MovedWithNames(s, place, names) == [s EXCEPT !.at = place, !.names = names]
MovedWithErrs(s, place, errs) == [s EXCEPT !.at = place, !.errs = errs]

\* They leave the rest of it alone.
LEMMA MovedRecord ==
    ASSUME NEW r, NEW a, NEW n, NEW e, NEW place, NEW names, NEW errs
    PROVE  LET x == [req |-> r, at |-> a, names |-> n, errs |-> e]
           IN  /\ Moved(x, place) = [req |-> r, at |-> place, names |-> n, errs |-> e]
               /\ MovedWithNames(x, place, names) =
                      [req |-> r, at |-> place, names |-> names, errs |-> e]
               /\ MovedWithErrs(x, place, errs) =
                      [req |-> r, at |-> place, names |-> n, errs |-> errs]
<1>1. PICK x : x = [req |-> r, at |-> a, names |-> n, errs |-> e]
    OBVIOUS
<1>2. PICK y : y = [req |-> r, at |-> place, names |-> n, errs |-> e]
    OBVIOUS
<1>3. [x EXCEPT !.at = place] = y
    BY <1>1, <1>2
<1>4. [x EXCEPT !.at = place, !.names = names] =
          [req |-> r, at |-> place, names |-> names, errs |-> e]
    <2>1. [y EXCEPT !.names = names] = [req |-> r, at |-> place, names |-> names, errs |-> e]
        BY <1>2
    <2>2. [x EXCEPT !.at = place, !.names = names] = [y EXCEPT !.names = names]
        BY <1>3, Zenon
    <2> QED  BY <2>1, <2>2
<1>5. [x EXCEPT !.at = place, !.errs = errs] =
          [req |-> r, at |-> place, names |-> n, errs |-> errs]
    <2>1. [y EXCEPT !.errs = errs] = [req |-> r, at |-> place, names |-> n, errs |-> errs]
        BY <1>2
    <2>2. [x EXCEPT !.at = place, !.errs = errs] = [y EXCEPT !.errs = errs]
        BY <1>3, Zenon
    <2> QED  BY <2>1, <2>2
<1>6. /\ Moved(x, place) = y
      /\ MovedWithNames(x, place, names) = [req |-> r, at |-> place, names |-> names, errs |-> e]
      /\ MovedWithErrs(x, place, errs) = [req |-> r, at |-> place, names |-> n, errs |-> errs]
    BY <1>3, <1>4, <1>5, Zenon DEF Moved, MovedWithNames, MovedWithErrs
<1> QED  BY <1>1, <1>2, <1>6

\* What is seen of g, when it is f moved.
LEMMA SeenAs ==
    ASSUME NEW f, NEW g, NEW place, g.req = f.req, PlaceOf(g) = place
    PROVE  /\ NamesOf(g) = NamesOf(f) /\ ErrsOf(g) = ErrsOf(f) => Seen(g) = Moved(Seen(f), place)
           /\ \A names : NamesOf(g) = names /\ ErrsOf(g) = ErrsOf(f) =>
                  Seen(g) = MovedWithNames(Seen(f), place, names)
           /\ \A errs : NamesOf(g) = NamesOf(f) /\ ErrsOf(g) = errs =>
                  Seen(g) = MovedWithErrs(Seen(f), place, errs)
           /\ (PlaceOf(f) = place /\ NamesOf(g) = NamesOf(f) /\ ErrsOf(g) = ErrsOf(f)) =>
                  Seen(g) = Seen(f)
<1>1. /\ Seen(g) = [req |-> f.req, at |-> place, names |-> NamesOf(g), errs |-> ErrsOf(g)]
      /\ Seen(f) = [req |-> f.req, at |-> PlaceOf(f), names |-> NamesOf(f), errs |-> ErrsOf(f)]
    BY DEF Seen, NamesOf, ErrsOf
<1>2. ASSUME NEW names, NEW errs
      PROVE  /\ Moved(Seen(f), place) =
                    [req |-> f.req, at |-> place, names |-> NamesOf(f), errs |-> ErrsOf(f)]
             /\ MovedWithNames(Seen(f), place, names) =
                    [req |-> f.req, at |-> place, names |-> names, errs |-> ErrsOf(f)]
             /\ MovedWithErrs(Seen(f), place, errs) =
                    [req |-> f.req, at |-> place, names |-> NamesOf(f), errs |-> errs]
    BY <1>1, MovedRecord
<1> QED  BY <1>1, <1>2

\* Calls begin as calls.
LEMMA SeenOpened ==
    ASSUME NEW r
    PROVE  Seen(Opened(r)) = Atomic!Opened(r)
<1>1. PICK f : f = Opened(r)
    OBVIOUS
<1>2. f.req = r /\ f.at = "lock" /\ f.subs = <<>> /\ f.next = 1 /\ f.errs = {}
    BY <1>1 DEF Opened
<1>3. SubSeq(f.subs, f.next, Len(f.subs)) = <<>>
    BY <1>2
<1>4. PlaceOf(f) = "called"
    BY <1>2, PlaceIs
<1> QED  BY <1>1, <1>2, <1>3, <1>4 DEF Seen, Atomic!Opened

\* A goroutine calls the bus, or a handler does, on top of the Publish it runs
\* under.
LEMMA CallsSeen ==
    ASSUME TypeOK, StackInv, NEW p \in Procs, Call(p)
    PROVE  Atomic!Call(p)
<1>1. PICK r \in Calls : stack[p] = <<>> /\ stack' = [stack EXCEPT ![p] = <<Opened(r)>>]
    BY DEF Call
<1>2. PICK h \in Frames : h = Opened(r)
    <2>1. r \in Requests
        BY EventBusAssumption
    <2> QED  BY <2>1, OpenedFrame
<1>3. PICK n \in Seq(Frames) : n = <<h>>
    <2>1. <<h>> \in Seq(Frames)
        OBVIOUS
    <2> QED  BY <2>1
<1>4. SeenStacks' = [SeenStacks EXCEPT ![p] = SeenSeq(n)]
    BY <1>1, <1>2, <1>3, StacksBecome
<1>5. SeenSeq(n) = <<Atomic!Opened(r)>>
    <2>1. n = [i \in 1 .. 1 |-> h]
        BY <1>3
    <2>2. SeenSeq(n) = [i \in 1 .. 1 |-> Seen(h)]
        BY <2>1 DEF SeenSeq
    <2>3. Seen(h) = Atomic!Opened(r)
        BY <1>2, SeenOpened
    <2> QED  BY <2>2, <2>3
<1>6. SeenStacks[p] = <<>>
    BY <1>1, EmptySeq DEF SeenStacks
<1>7. UNCHANGED subs
    BY DEF Call
<1> QED  BY <1>4, <1>5, <1>6, <1>7 DEF Atomic!Call

LEMMA HandlerCallsSeen ==
    ASSUME TypeOK, StackInv, NEW p \in Procs, HandlerCall(p)
    PROVE  Atomic!Call(p)
<1>1. PICK r \in HandlerCalls :
          stack' = [stack EXCEPT ![p] = Front(@) \o <<[Top(p) EXCEPT !.nested = TRUE], Opened(r)>>]
    BY DEF HandlerCall
<1>2. stack[p] # <<>> /\ Top(p).at = "handler"
    BY DEF HandlerCall, At
<1>3. PICK f \in Frames : f = Top(p)
    BY <1>2, TopFrame
<1>4. PICK g \in Frames : g = [f EXCEPT !.nested = TRUE]
    BY DEF Frames
<1>5. Seen(g) = Seen(f)
    <2>1. g.req = f.req /\ g.at = f.at /\ g.subs = f.subs /\ g.next = f.next /\ g.errs = f.errs
        BY <1>4 DEF Frames
    <2> QED  BY <2>1 DEF Seen, PlaceOf
<1>6. PICK h \in Frames : h = Opened(r)
    <2>1. r \in Requests
        BY EventBusAssumption
    <2> QED  BY <2>1, OpenedFrame
<1>7. PICK s \in Seq(Frames) : s = stack[p]
    BY DEF TypeOK
<1>8. PICK k \in Nat \ {0} : k = Len(s)
    BY <1>2, <1>7, TopRemoved
<1>9. PICK n \in Seq(Frames) : n = Front(s) \o <<g, h>>
    BY <1>2, <1>7, TopJoined
<1>10. /\ Len(n) = k + 1
       /\ \A i \in 1 .. k + 1 :
             n[i] = IF i = k + 1 THEN h ELSE IF i = k THEN g ELSE s[i]
    BY <1>2, <1>7, <1>8, <1>9, TopJoined
<1>11. SeenStacks' = [SeenStacks EXCEPT ![p] = SeenSeq(n)]
    BY <1>1, <1>3, <1>4, <1>6, <1>7, <1>9, StacksBecome
<1>12. PICK t \in Seq(SeenFrames) : /\ t = SeenSeq(s) /\ Len(t) = k
                                    /\ \A i \in 1 .. k : t[i] = Seen(s[i])
    BY <1>8, SeenLength
<1>13. PICK v \in Seq(SeenFrames) : /\ v = SeenSeq(n) /\ Len(v) = k + 1
                                    /\ \A i \in 1 .. k + 1 : v[i] = Seen(n[i])
    BY <1>10, SeenLength
<1>14. Seen(h) \in SeenFrames /\ Seen(h) = Atomic!Opened(r)
    BY <1>6, SeenOpened DEF SeenFrames
<1>15. PICK w \in Seq(SeenFrames) : /\ w = Append(t, Seen(h)) /\ Len(w) = k + 1
                                    /\ \A i \in 1 .. k : w[i] = t[i]
                                    /\ w[k + 1] = Seen(h)
    <2>1. PICK m \in SeenFrames : m = Seen(h)
        BY <1>14
    <2>2. PICK w : w = Append(t, m)
        OBVIOUS
    <2>3. /\ w \in Seq(SeenFrames) /\ Len(w) = Len(t) + 1
          /\ \A i \in 1 .. Len(t) : w[i] = t[i]
          /\ w[Len(t) + 1] = m
        BY <2>2, AppendProperties
    <2> QED  BY <1>12, <2>1, <2>2, <2>3
<1>16. v = w
    <2>1. s[k] = f
        BY <1>3, <1>7, <1>8 DEF Top
    <2>2. ASSUME NEW i \in 1 .. k + 1 PROVE v[i] = w[i]
        <3>1. CASE i = k + 1
            BY <1>10, <1>13, <1>15, <3>1
        <3>2. CASE i = k
            BY <1>5, <1>10, <1>12, <1>13, <1>15, <2>1, <3>2
        <3>3. CASE i # k /\ i # k + 1
            <4>1. i \in 1 .. k
                BY <3>3
            <4>2. n[i] = s[i]
                BY <1>10, <3>3
            <4> QED  BY <1>12, <1>13, <1>15, <4>1, <4>2
        <3> QED  BY <3>1, <3>2, <3>3
    <2> QED  BY <1>13, <1>15, <2>2, SameSequence
<1>17. SeenStacks[p] = t /\ Atomic!At(p, "running")
    BY <1>2, <1>7, <1>12, SeenTop, PlaceIs
<1>18. SeenStacks' = [SeenStacks EXCEPT ![p] = Append(@, Atomic!Opened(r))]
    BY <1>11, <1>13, <1>14, <1>15, <1>16, <1>17 DEF SeenStacks
<1>19. UNCHANGED subs
    BY DEF HandlerCall
<1> QED  BY <1>17, <1>18, <1>19 DEF Atomic!Call

\* Nobody sees who takes the lock, walks over the matrix, or lets go of the
\* lock before the first handler.
LEMMA QuietSteps ==
    ASSUME TypeOK, StackInv, WalksInv, NEW p \in Procs,
           \/ AnnounceWriter(p) \/ EnterWriter(p) \/ EnterReader(p) \/ CheckDuplicate(p)
           \/ CheckType(p) \/ StartFanOut(p)
    PROVE  UNCHANGED Atomic!vars
<1>1. UNCHANGED subs
    BY DEF AnnounceWriter, EnterWriter, EnterReader, CheckDuplicate, CheckType, StartFanOut
<1>2. PICK f \in Frames, g \in Frames :
          /\ f = Top(p) /\ stack[p] # <<>> /\ Becomes(p, g) /\ g.req = f.req /\ g.subs = f.subs
          /\ f.req.call = "Publish" => g.next = f.next
          /\ PlaceOf(g) = PlaceOf(f)
          /\ PlaceOf(f) = "called" \/ g.errs = f.errs
    <2>1. CASE CheckType(p)
        <3>1. PICK f \in Frames, g \in Frames :
                  /\ f = Top(p) /\ f.at = "read" /\ f.req.call = "VerifyWiring"
                  /\ g.req = f.req /\ g.at = "read" /\ g.subs = f.subs
                  /\ stack[p] # <<>> /\ Becomes(p, g)
            BY <2>1, WalkGoesOn
        <3>2. PlaceOf(g) = "called" /\ PlaceOf(f) = "called"
            BY <3>1, PlaceIs
        <3> QED  BY <3>1, <3>2
    <2>2. CASE StartFanOut(p)
        <3>1. Goto(p, "runlock", "next") /\ Top(p).req.call = "Publish"
            BY <2>2 DEF StartFanOut, Calling
        <3>2. PICK f \in Frames, g \in Frames :
                  /\ f = Top(p) /\ stack[p] # <<>> /\ f.at = "runlock"
                  /\ g.req = f.req /\ g.at = "next" /\ g.subs = f.subs
                  /\ g.next = f.next /\ g.errs = f.errs /\ Becomes(p, g)
            BY <3>1, TopGoes DEF Places
        <3>3. PlaceOf(g) = "fanout" /\ PlaceOf(f) = "fanout"
            BY <3>1, <3>2, PlaceIs
        <3> QED  BY <3>2, <3>3
    <2>3. CASE AnnounceWriter(p) \/ EnterWriter(p) \/ EnterReader(p) \/ CheckDuplicate(p)
        <3>1. PICK from \in {"lock", "drain", "body"},
                   to \in {"drain", "body", "append", "read"} : Goto(p, from, to)
            BY <2>3 DEF AnnounceWriter, EnterWriter, EnterReader, CheckDuplicate
        <3>2. PICK f \in Frames, g \in Frames :
                  /\ f = Top(p) /\ stack[p] # <<>> /\ f.at = from
                  /\ g.req = f.req /\ g.at = to /\ g.subs = f.subs
                  /\ g.next = f.next /\ g.errs = f.errs /\ Becomes(p, g)
            BY <3>1, TopGoes DEF Places
        <3>3. PlaceOf(g) = "called" /\ PlaceOf(f) = "called"
            BY <3>2, PlaceIs
        <3> QED  BY <3>2, <3>3
    <2> QED  BY <2>1, <2>2, <2>3
<1>3. Seen(g) = Seen(f)
    <2>1. NamesOf(g) = NamesOf(f)
        BY <1>2 DEF NamesOf
    <2>2. g.req = f.req /\ PlaceOf(g) = PlaceOf(f) /\ ErrsOf(g) = ErrsOf(f)
        BY <1>2 DEF ErrsOf
    <2> QED  BY <1>2, <2>1, <2>2, SeenAs
<1>4. SeenStacks' = SeenStacks
    BY <1>2, <1>3, SeenBecomes
<1> QED  BY <1>1, <1>4 DEF Atomic!vars

\* A Subscribe has its instant with the append, or when it finds the name.
LEMMA SubscribesSeen ==
    ASSUME TypeOK, StackInv, WalksInv, NEW p \in Procs, Register(p) \/ RefuseDuplicate(p)
    PROVE  Atomic!Perform(p)
<1>1. PICK from \in {"body", "append"}, to \in {"unlock", "panic"} :
          Goto(p, from, to) /\ (to = "unlock" <=> Register(p))
    <2>1. CASE Register(p)
        BY <2>1 DEF Register
    <2>2. CASE ~ Register(p)
        BY <2>2 DEF RefuseDuplicate
    <2> QED  BY <2>1, <2>2
<1>2. PICK f \in Frames, g \in Frames :
          /\ f = Top(p) /\ stack[p] # <<>> /\ f.at = from /\ FrameInv(f)
          /\ g.req = f.req /\ g.at = to /\ g.subs = f.subs
          /\ g.next = f.next /\ g.errs = f.errs /\ Becomes(p, g)
    BY <1>1, TopGoes DEF Places
<1>3. PICK seen : seen = Seen(f) /\ seen = Atomic!Top(p) /\ seen.req = f.req
    BY <1>2, SeenTop DEF Seen
<1>4. Atomic!At(p, "called") /\ f.req.call = "Subscribe"
    BY <1>2, SeenTop, PlaceIs DEF FrameInv, PlaceInv, InWriter
<1>5. Atomic!Becomes(p, [seen EXCEPT !.at = IF to = "unlock" THEN "done" ELSE "refused"])
    <2>1. PlaceOf(g) = IF to = "unlock" THEN "done" ELSE "refused"
        BY <1>2, PlaceIs
    <2>2. NamesOf(g) = NamesOf(f) /\ ErrsOf(g) = ErrsOf(f)
        <3>1. f.errs = {}
            BY <1>2, <1>4 DEF WalksInv, WalkInv, Waiting
        <3> QED  BY <1>2, <3>1 DEF NamesOf, ErrsOf
    <2>3. Seen(g) = [seen EXCEPT !.at = IF to = "unlock" THEN "done" ELSE "refused"]
        <3>1. Seen(g) = Moved(Seen(f), IF to = "unlock" THEN "done" ELSE "refused")
            BY <1>2, <2>1, <2>2, SeenAs
        <3> QED  BY <1>3, <3>1, Zenon DEF Moved, MovedWithNames, MovedWithErrs
    <2> QED  BY <1>2, <2>3, SeenBecomes
<1>6. AlreadySubscribed(f.req.type, f.req.name) <=> f.req.name \in Atomic!Registered(f.req.type)
    BY DEF AlreadySubscribed, Atomic!Registered
<1>7. CASE Register(p)
    <2>4. f.at = "append"
        BY <1>2, <1>7 DEF Register, Goto, At
    <2>5. ~ AlreadySubscribed(f.req.type, f.req.name)
        BY <1>2, <2>4 DEF WalksInv, WalkInv, Waiting
    <2>1. /\ f.req.name \notin Atomic!Registered(f.req.type)
          /\ subs' = [subs EXCEPT ![f.req.type] = Append(@, f.req.name)]
        BY <1>2, <1>6, <1>7, <2>5 DEF Register
    <2>2. Atomic!Becomes(p, [seen EXCEPT !.at = "done"])
        BY <1>1, <1>5, <1>7
    <2>3. Atomic!Subscribe(p)
        BY <1>3, <2>1, <2>2 DEF Atomic!Subscribe
    <2> QED  BY <1>3, <1>4, <2>3 DEF Atomic!Perform
<1>8. CASE ~ Register(p)
    <2>1. f.req.name \in Atomic!Registered(f.req.type) /\ UNCHANGED subs
        BY <1>2, <1>6, <1>8 DEF RefuseDuplicate
    <2>2. Atomic!Becomes(p, [seen EXCEPT !.at = "refused"])
        BY <1>1, <1>5, <1>8
    <2>3. Atomic!Subscribe(p)
        BY <1>3, <2>1, <2>2 DEF Atomic!Subscribe
    <2> QED  BY <1>3, <1>4, <2>3 DEF Atomic!Perform
<1> QED  BY <1>7, <1>8

\* A VerifyWiring has its instant when it has come to the end of the matrix:
\* nothing was registered since it began to look.
LEMMA VerdictSeen ==
    ASSUME TypeOK, StackInv, WalksInv, NEW p \in Procs, CheckDone(p)
    PROVE  Atomic!Perform(p)
<1>1. /\ Goto(p, "read", "runlock") /\ Top(p).next > Len(TypeOrder)
      /\ Top(p).req.call = "VerifyWiring" /\ UNCHANGED subs
    BY DEF CheckDone, Calling
<1>2. PICK f \in Frames, g \in Frames :
          /\ f = Top(p) /\ stack[p] # <<>> /\ f.at = "read"
          /\ g.req = f.req /\ g.at = "runlock" /\ g.subs = f.subs
          /\ g.next = f.next /\ g.errs = f.errs /\ Becomes(p, g)
    BY <1>1, TopGoes DEF Places
<1>3. PICK seen : seen = Seen(f) /\ seen = Atomic!Top(p) /\ seen.req = f.req
    BY <1>2, SeenTop DEF Seen
<1>4. Atomic!At(p, "called") /\ f.req.call = "VerifyWiring"
    BY <1>1, <1>2, SeenTop, PlaceIs
<1>5. g.errs = Atomic!AllMissing
    <2>1. f.errs = Walked(f.next)
        BY <1>2, <1>4 DEF WalksInv, WalkInv, Waiting
    <2>2. f.next \in Nat
        BY DEF Frames
    <2> QED  BY <1>1, <1>2, <2>1, <2>2, WalkSteps
<1>6. Atomic!Becomes(p, [seen EXCEPT !.at = "done", !.errs = Atomic!AllMissing])
    <2>1. PlaceOf(g) = "done"
        BY <1>2, <1>4, PlaceIs
    <2>2. NamesOf(g) = NamesOf(f) /\ ErrsOf(g) = Atomic!AllMissing
        BY <1>2, <1>5, <2>1 DEF NamesOf, ErrsOf
    <2>3. Seen(g) = [seen EXCEPT !.at = "done", !.errs = Atomic!AllMissing]
        <3>1. Seen(g) = MovedWithErrs(Seen(f), "done", Atomic!AllMissing)
            BY <1>2, <2>1, <2>2, SeenAs
        <3> QED  BY <1>3, <3>1, Zenon DEF Moved, MovedWithNames, MovedWithErrs
    <2> QED  BY <1>2, <2>3, SeenBecomes
<1>7. Atomic!VerifyWiring(p)
    BY <1>1, <1>3, <1>6 DEF Atomic!VerifyWiring
<1> QED  BY <1>3, <1>4, <1>7 DEF Atomic!Perform

\* A sequence is all of itself.
LEMMA AllOfIt ==
    ASSUME NEW S, NEW s \in Seq(S)
    PROVE  SubSeq(s, 1, Len(s)) = s
<1>1. \A i \in 1 .. Len(s) : s[i] \in S
    OBVIOUS
<1>2. PICK k \in Nat : k = Len(s)
    OBVIOUS
<1>3. /\ SubSeq(s, 1, k) \in Seq(S)
      /\ Len(SubSeq(s, 1, k)) = IF 1 <= k THEN k - 1 + 1 ELSE 0
      /\ \A i \in 1 .. k - 1 + 1 : SubSeq(s, 1, k)[i] = s[1 + i - 1]
    BY <1>1, <1>2, SubSeqProperties
<1>4. PICK t \in Seq(S) : t = SubSeq(s, 1, k)
    BY <1>3
<1>5. Len(t) = Len(s)
    BY <1>2, <1>3, <1>4
<1>6. \A i \in 1 .. Len(t) : t[i] = s[i]
    BY <1>2, <1>3, <1>4, <1>5
<1> QED  BY <1>2, <1>4, <1>5, <1>6, SameSequence

\* A Publish and a Subscribers have theirs with the copy.
LEMMA CopiesSeen ==
    ASSUME TypeOK, StackInv, WalksInv, NEW p \in Procs, CopySubscribers(p)
    PROVE  Atomic!Perform(p)
<1>1. stack[p] # <<>> /\ Top(p).at = "read" /\ Top(p).req.call # "VerifyWiring" /\ UNCHANGED subs
    BY DEF CopySubscribers, At, Calling
<1>2. PICK f \in Frames : f = Top(p) /\ FrameInv(f)
    BY <1>1, TopFrame
<1>3. f.req.call \in {"Publish", "Subscribers"} /\ f.next = 1 /\ f.errs = {}
    <2>1. f.req.call # "Subscribe"
        BY <1>1, <1>2 DEF FrameInv, PlaceInv, InReader
    <2>2. f.req.call \in {"Subscribe", "Publish", "Subscribers", "VerifyWiring"}
        BY DEF Frames, Requests
    <2> QED  BY <1>1, <1>2, <2>1, <2>2 DEF WalksInv, WalkInv, Waiting
<1>4. PICK c \in Seq(Names) : c = subs[f.req.type]
    BY DEF TypeOK, Frames, Requests
<1>5. PICK g \in Frames : g = [f EXCEPT !.at = "runlock", !.subs = c]
    BY DEF Frames, Places
<1>6. g.req = f.req /\ g.at = "runlock" /\ g.subs = c /\ g.next = f.next /\ g.errs = f.errs
    BY <1>5 DEF Frames
<1>7. Becomes(p, g)
    BY <1>2, <1>4, <1>5 DEF CopySubscribers
<1>8. PICK seen : seen = Seen(f) /\ seen = Atomic!Top(p) /\ seen.req = f.req
    BY <1>1, <1>2, SeenTop DEF Seen
<1>9. Atomic!At(p, "called")
    BY <1>1, <1>2, SeenTop, PlaceIs
<1>10. PICK place : place = IF f.req.call = "Publish" THEN "fanout" ELSE "done"
    OBVIOUS
<1>11. Atomic!Becomes(p, [seen EXCEPT !.at = place, !.names = c])
    <2>1. PlaceOf(g) = place
        BY <1>6, <1>10, PlaceIs
    <2>2. NamesOf(g) = c
        <3>1. SubSeq(c, 1, Len(c)) = c
            BY AllOfIt
        <3> QED  BY <1>3, <1>6, <3>1 DEF NamesOf
    <2>3. ErrsOf(g) = ErrsOf(f)
        BY <1>3, <1>6 DEF ErrsOf
    <2>4. Seen(g) = [seen EXCEPT !.at = place, !.names = c]
        <3>1. Seen(g) = MovedWithNames(Seen(f), place, c)
            BY <1>6, <2>1, <2>2, <2>3, SeenAs
        <3> QED  BY <1>8, <3>1, Zenon DEF Moved, MovedWithNames, MovedWithErrs
    <2> QED  BY <1>1, <1>7, <2>4, SeenBecomes
<1>12. Atomic!TakeNames(p, place)
    BY <1>1, <1>4, <1>8, <1>11 DEF Atomic!TakeNames
<1> QED  BY <1>3, <1>8, <1>9, <1>10, <1>12 DEF Atomic!Perform

\* A handler begins.
LEMMA DeliveriesSeen ==
    ASSUME TypeOK, StackInv, NEW p \in Procs, Deliver(p)
    PROVE  Atomic!Deliver(p)
<1>1. Goto(p, "next", "handler") /\ Top(p).next <= Len(Top(p).subs) /\ UNCHANGED subs
    BY DEF Deliver
<1>2. PICK f \in Frames, g \in Frames :
          /\ f = Top(p) /\ stack[p] # <<>> /\ f.at = "next" /\ FrameInv(f)
          /\ g.req = f.req /\ g.at = "handler" /\ g.subs = f.subs
          /\ g.next = f.next /\ g.errs = f.errs /\ Becomes(p, g)
    BY <1>1, TopGoes DEF Places
<1>3. PICK seen : seen = Seen(f) /\ seen = Atomic!Top(p) /\ seen.names = NamesOf(f)
    <2>1. Atomic!Top(p) = Seen(f)
        BY <1>2, SeenTop
    <2>2. Seen(f).names = NamesOf(f)
        BY DEF Seen, NamesOf
    <2> QED  BY <2>1, <2>2
<1>4. Atomic!At(p, "fanout")
    BY <1>2, SeenTop, PlaceIs
<1>5. NamesOf(f) # <<>>
    <2>1. f.req.call = "Publish" /\ f.subs \in Seq(Names) /\ f.next \in Nat \ {0}
        BY <1>2 DEF FrameInv, PlaceInv, InFanOut, Frames
    <2>2. PICK k \in Nat : k = Len(f.subs) /\ f.next <= k
        BY <1>1, <1>2, <2>1
    <2>3. \A i \in f.next .. k : f.subs[i] \in Names
        BY <2>1, <2>2
    <2>4. /\ SubSeq(f.subs, f.next, k) \in Seq(Names)
          /\ Len(SubSeq(f.subs, f.next, k)) = IF f.next <= k THEN k - f.next + 1 ELSE 0
        BY <2>1, <2>2, <2>3, SubSeqProperties
    <2>5. Len(SubSeq(f.subs, f.next, k)) # 0
        BY <2>1, <2>2, <2>4
    <2>6. SubSeq(f.subs, f.next, k) # <<>>
        BY <2>4, <2>5, EmptySeq
    <2> QED  BY <2>1, <2>2, <2>6 DEF NamesOf
<1>6. Atomic!Becomes(p, [seen EXCEPT !.at = "running"])
    <2>1. PlaceOf(g) = "running" /\ PlaceOf(f) = "fanout"
        BY <1>2, PlaceIs
    <2>2. NamesOf(g) = NamesOf(f) /\ ErrsOf(g) = ErrsOf(f)
        BY <1>2, <2>1 DEF NamesOf, ErrsOf
    <2>3. Seen(g) = [seen EXCEPT !.at = "running"]
        <3>1. Seen(g) = Moved(Seen(f), "running")
            BY <1>2, <2>1, <2>2, SeenAs
        <3> QED  BY <1>3, <3>1, Zenon DEF Moved, MovedWithNames, MovedWithErrs
    <2> QED  BY <1>2, <2>3, SeenBecomes
<1> QED  BY <1>1, <1>3, <1>4, <1>5, <1>6 DEF Atomic!Deliver

\* A handler ends, by itself or with a panic that deliver recovers.
LEMMA HandlersSeen ==
    ASSUME TypeOK, StackInv, NEW p \in Procs, HandlerReturns(p) \/ HandlerPanics(p)
    PROVE  Atomic!HandlerEnds(p)
<1>1. stack[p] # <<>> /\ Top(p).at = "handler" /\ UNCHANGED subs
    BY DEF HandlerReturns, HandlerPanics, At
<1>2. PICK f \in Frames : f = Top(p) /\ FrameInv(f) /\ f.at = "handler"
    BY <1>1, TopFrame
<1>3. PICK failed \in BOOLEAN : Becomes(p, Ended(f, failed))
    <2>1. Recovered(stack[p]) = Append(Front(stack[p]), Ended(f, TRUE))
        BY <1>2 DEF Recovered, Last, Top
    <2> QED  BY <1>2, <2>1 DEF HandlerReturns, HandlerPanics, Becomes
<1>4. PICK g \in Frames : g = Ended(f, failed)
    BY <1>2, EndedFrame
<1>5. Seen(g) = Atomic!Ended(Atomic!Top(p), failed)
    BY <1>1, <1>2, <1>4, SeenEnded, SeenTop
<1>6. Atomic!Becomes(p, Seen(g))
    BY <1>1, <1>3, <1>4, SeenBecomes
<1>7. Atomic!At(p, "running")
    BY <1>1, <1>2, SeenTop, PlaceIs
<1> QED  BY <1>1, <1>5, <1>6, <1>7 DEF Atomic!HandlerEnds

\* A call that is done returns, and a Publish when nobody is left.
LEMMA ReturnsSeen ==
    ASSUME TypeOK, StackInv, NEW p \in Procs,
           ExitWriter(p) \/ ExitReader(p) \/ PublishReturns(p)
    PROVE  Atomic!Return(p)
<1>1. stack[p] # <<>> /\ Returned(p) /\ UNCHANGED subs
    BY DEF ExitWriter, ExitReader, PublishReturns, At
<1>2. SeenStacks' = [SeenStacks EXCEPT ![p] = SubSeq(@, 1, Atomic!Depth(p) - 1)]
    BY <1>1, SeenReturned
<1>3. PICK f \in Frames : f = Top(p) /\ FrameInv(f)
    BY <1>1, TopFrame
<1>4. CASE ExitWriter(p) \/ ExitReader(p)
    <2>1. f.at = "unlock" \/ (f.at = "runlock" /\ f.req.call # "Publish")
        BY <1>1, <1>3, <1>4 DEF ExitWriter, ExitReader, At, Calling
    <2>2. Atomic!At(p, "done")
        BY <1>1, <1>3, <2>1, SeenTop, PlaceIs
    <2> QED  BY <1>1, <1>2, <2>2 DEF Atomic!Return
<1>5. CASE PublishReturns(p)
    <2>1. f.at = "next" /\ f.next > Len(f.subs)
        BY <1>3, <1>5 DEF PublishReturns, At
    <2>2. Atomic!At(p, "fanout")
        BY <1>1, <1>3, <2>1, SeenTop, PlaceIs
    <2>3. SubSeq(f.subs, f.next, Len(f.subs)) = <<>>
        <3>1. f.req.call = "Publish" /\ f.subs \in Seq(Names) /\ f.next \in Nat \ {0}
            BY <1>3, <2>1 DEF FrameInv, PlaceInv, InFanOut, Frames
        <3>2. PICK k \in Nat : k = Len(f.subs) /\ f.next > k
            BY <2>1, <3>1
        <3>3. \A i \in f.next .. k : f.subs[i] \in Names
            BY <3>1, <3>2
        <3>4. /\ SubSeq(f.subs, f.next, k) \in Seq(Names)
              /\ Len(SubSeq(f.subs, f.next, k)) = IF f.next <= k THEN k - f.next + 1 ELSE 0
            BY <3>1, <3>2, <3>3, SubSeqProperties
        <3>5. Len(SubSeq(f.subs, f.next, k)) = 0
            BY <3>1, <3>2, <3>4
        <3> QED  BY <3>2, <3>4, <3>5, EmptySeq
    <2>4. Atomic!Top(p).names = <<>>
        <3>1. f.req.call = "Publish"
            BY <1>3, <2>1 DEF FrameInv, PlaceInv, InFanOut
        <3>2. Atomic!Top(p) = Seen(f)
            BY <1>1, <1>3, SeenTop
        <3> QED  BY <2>3, <3>1, <3>2 DEF Seen
    <2> QED  BY <1>1, <1>2, <2>2, <2>4 DEF Atomic!Return
<1> QED  BY <1>4, <1>5

\* A refused Subscribe panics.
LEMMA PanicsSeen ==
    ASSUME TypeOK, StackInv, NEW p \in Procs, ExitPanicking(p)
    PROVE  Atomic!Panic(p)
<1>1. /\ stack[p] # <<>> /\ Top(p).at = "panic" /\ UNCHANGED subs
      /\ stack' = [stack EXCEPT ![p] = Unwound(@)]
    BY DEF ExitPanicking, At
<1>2. Atomic!At(p, "refused")
    BY <1>1, SeenTop, PlaceIs
<1>3. SeenStacks' = [SeenStacks EXCEPT ![p] =
                        [i \in 1 .. Atomic!Depth(p) - 1 |->
                            IF i = Atomic!Depth(p) - 1 THEN Atomic!Ended(@[i], TRUE) ELSE @[i]]]
    BY <1>1, SeenUnwound
<1> QED  BY <1>1, <1>2, <1>3 DEF Atomic!Panic

-----------------------------------------------------------------------------
(* The refinement.                                                         *)

\* Concurrent callers cannot tell the bus from one whose calls take turns, for
\* any number of goroutines, types, subscribers and any depth of calls from
\* handlers: a verdict of VerifyWiring is about one registry, an event goes to
\* the subscribers of one, in their order, and all are told although some fail
\* (bus.go:111-112, 125-138, 191-198); as long as the errors handlers return
\* can be printed (bus.go:152).
THEOREM BusIsAtomic ==
    ASSUME "badError" \notin Outcomes
    PROVE  Spec => CallsTakeTurns
<1>1. Init => Atomic!Init
    <2> SUFFICES ASSUME Init PROVE Atomic!Init
        OBVIOUS
    <2>1. \A p \in Procs : stack[p] = <<>>
        BY DEF Init
    <2>2. ASSUME NEW p \in Procs PROVE [i \in DOMAIN stack[p] |-> Seen(stack[p][i])] = <<>>
        BY <2>1, EmptySeq
    <2>3. SeenStacks = [p \in Procs |-> <<>>]
        BY <2>2 DEF SeenStacks
    <2> QED  BY <2>3 DEF Atomic!Init, Init
<1>2. IInv /\ [Next]_vars => [Atomic!Next]_(Atomic!vars)
    <2> SUFFICES ASSUME IInv, [Next]_vars
                 PROVE  Atomic!Next \/ UNCHANGED Atomic!vars
        OBVIOUS
    <2>1. TypeOK /\ StackInv /\ WalksInv
        BY DEF IInv
    <2>2. ASSUME NEW p \in Procs, Call(p) \/ Step(p)
          PROVE  \/ Atomic!Call(p) \/ Atomic!Perform(p) \/ Atomic!Deliver(p)
                 \/ Atomic!HandlerEnds(p) \/ Atomic!Return(p) \/ Atomic!Panic(p)
                 \/ UNCHANGED Atomic!vars
        <3>1. ~ LoggingPanics(p)
            BY DEF LoggingPanics
        <3> QED
            BY <2>1, <2>2, <3>1, CallsSeen, HandlerCallsSeen, QuietSteps, SubscribesSeen,
               VerdictSeen, CopiesSeen, DeliveriesSeen, HandlersSeen, ReturnsSeen, PanicsSeen
               DEF Step
    <2>3. CASE Next
        <3>1. PICK p \in Procs : Call(p) \/ Step(p)
            BY <2>3 DEF Next
        <3> QED  BY <2>2, <3>1 DEF Atomic!Next
    <2>4. CASE UNCHANGED vars
        BY <2>4 DEF vars, Atomic!vars, SeenStacks
    <2> QED  BY <2>3, <2>4
<1> QED  BY <1>1, <1>2, Inductive, PTL DEF Spec, CallsTakeTurns, Atomic!Spec
=============================================================================
