---------------------------- MODULE SubplaneProofs ----------------------------
(***************************************************************************)
(* The subscription endpoint, for every table, every set of users and      *)
(* every number of requests: what a user is served is always the skeleton  *)
(* of that user's own selector at some moment of the request (Subplane);   *)
(* the rules demote no engine and open no gate to a version that is not a  *)
(* core's (ClientDetection); upgrading a core never takes a node away; and *)
(* a document with a secret in it never leaves (HttpResponse).             *)
(***************************************************************************)
EXTENDS Subplane, HttpResponse, TLAPS

-----------------------------------------------------------------------------
(* Versions and the matrix.                                                *)

\* Version order is total: of two versions one is at least the other
\* (detect.go:134-142).
LEMMA VersionsAreOrdered ==
    ASSUME NEW v \in Version, NEW o \in Version
    PROVE  Less(v, o) \/ Less(o, v) \/ v = o
BY DEF Less, Version

\* What is not older than a version that is known is known itself
\* (detect.go:144-154).
LEMMA NewerStaysEnough ==
    ASSUME NEW v \in Version, NEW w \in Version, NEW min \in Version,
           ~Less(w, v), AtLeast(v, min)
    PROVE  AtLeast(w, min)
<1>1. ~Less(w, min)
    BY DEF AtLeast, Less, Version
<1>2. w # Unknown
    <2>1. SUFFICES ASSUME w = Unknown PROVE FALSE
        OBVIOUS
    <2>2. v.major = 0 /\ v.minor = 0 /\ v.patch = 0
        BY <2>1 DEF Less, Version, Unknown, V
    <2>3. v = Unknown
        BY <2>2 DEF Version, Unknown, V
    <2>4. QED
        BY <2>3 DEF AtLeast
<1>3. QED
    BY <1>1, <1>2 DEF AtLeast

\* Every cell of the matrix asks for a version or for none
\* (capability.go:75-104).
LEMMA CellVersions ==
    ASSUME NEW p \in Profiles, NEW proto \in Protocols
    PROVE  CellOf(p, proto).min \in Version
BY DEF CellOf, matrix, Modern, Yes, No, Maybe, Since, Cell, Profiles, Protocols,
       Classic, Version, V, Unknown

\* Upgrading a core never takes a protocol away from its user
\* (capability.go:111-120).
THEOREM UpgradeLosesNothing ==
    ASSUME NEW p \in Profiles, NEW proto \in Protocols,
           NEW v \in Version, NEW w \in Version, ~Less(w, v),
           Supports([profile |-> p, version |-> v], proto)
    PROVE  Supports([profile |-> p, version |-> w], proto)
<1> DEFINE r == CellOf(p, proto)
<1>1. r.level = "supported" /\ (r.min = Unknown \/ AtLeast(v, r.min))
    BY DEF Supports
<1>2. r.min \in Version
    BY CellVersions
<1>3. r.min = Unknown \/ AtLeast(w, r.min)
    BY <1>1, <1>2, NewerStaysEnough
<1>4. QED
    BY <1>1, <1>3 DEF Supports

-----------------------------------------------------------------------------
(* Serving.                                                                *)

Phases == {"asked", "read", "answered"}
Shape(q) == q \in [phase : Phases, asker : {q.asker}, target : {q.target}, seen : {q.seen},
                   rows : {q.rows}, ir : {q.ir}, resolution : {q.resolution}]

\* The shape of a request being served, and what it has seen: the table it
\* would read now unless it is answered, and the rows it has read.
Serving(q, tbl) ==
    /\ Shape(q)
    /\ q.phase # "answered" => tbl \in q.seen
    /\ q.rows \in q.seen
    /\ q.phase = "answered" =>
           \E t \in q.seen : q.ir = BuildSkeleton(SelectorOf(q), t)

\* A request is made of its fields, and its updates change the fields they name.
LEMMA RequestUpdates ==
    ASSUME NEW q, Shape(q), NEW x \in Phases, NEW w, NEW i
    PROVE  /\ [q EXCEPT !.phase = x, !.ir = i] =
                  [phase |-> x, asker |-> q.asker, target |-> q.target, seen |-> q.seen,
                   rows |-> q.rows, ir |-> i, resolution |-> q.resolution]
           /\ [q EXCEPT !.phase = x, !.rows = w] =
                  [phase |-> x, asker |-> q.asker, target |-> q.target, seen |-> q.seen,
                   rows |-> w, ir |-> q.ir, resolution |-> q.resolution]
<1> DEFINE Q == [phase : Phases, asker : {q.asker}, target : {q.target}, seen : {q.seen},
                 rows : {q.rows, w}, ir : {q.ir, i}, resolution : {q.resolution}]
           t == [q EXCEPT !.phase = x, !.ir = i]
           u == [q EXCEPT !.phase = x, !.rows = w]
<1>0. q \in Q
    BY DEF Shape
<1>1. t \in Q /\ u \in Q
    BY <1>0
<1>2. /\ t.phase = x /\ t.ir = i /\ t.rows = q.rows
      /\ u.phase = x /\ u.ir = q.ir /\ u.rows = w
      /\ t.asker = q.asker /\ t.target = q.target /\ t.seen = q.seen
      /\ u.asker = q.asker /\ u.target = q.target /\ u.seen = q.seen
      /\ t.resolution = q.resolution /\ u.resolution = q.resolution
    BY <1>0
<1> HIDE DEF t, u
<1>3. /\ t = [phase |-> t.phase, asker |-> t.asker, target |-> t.target, seen |-> t.seen,
              rows |-> t.rows, ir |-> t.ir, resolution |-> t.resolution]
      /\ u = [phase |-> u.phase, asker |-> u.asker, target |-> u.target, seen |-> u.seen,
              rows |-> u.rows, ir |-> u.ir, resolution |-> u.resolution]
    BY <1>1
<1>4. /\ t = [phase |-> x, asker |-> q.asker, target |-> q.target, seen |-> q.seen,
              rows |-> q.rows, ir |-> i, resolution |-> q.resolution]
      /\ u = [phase |-> x, asker |-> q.asker, target |-> q.target, seen |-> q.seen,
              rows |-> w, ir |-> q.ir, resolution |-> q.resolution]
    BY <1>2, <1>3, Zenon
<1>5. QED
    BY <1>4 DEF t, u

\* A true answer needs a true cache, and a request that has seen every table
\* since it was asked.
IInv ==
    /\ CacheIsCurrent
    /\ req = [r \in Requests |-> req[r]]
    /\ \A r \in Requests : req[r] = Idle \/ Serving(req[r], table)

\* Replacing one request by one that is served truly keeps the invariant.
LEMMA OneRequestMoves ==
    ASSUME IInv, NEW r \in Requests, NEW q,
           req' = [req EXCEPT ![r] = q], q = Idle \/ Serving(q, table),
           table' = table, CacheIsCurrent'
    PROVE  IInv'
<1>1. \A s \in Requests : req'[s] = Idle \/ Serving(req'[s], table)
    BY DEF IInv
<1>2. req' = [s \in Requests |-> req'[s]]
    BY DEF IInv
<1>3. QED
    BY <1>1, <1>2 DEF IInv

\* Answering a request with the skeleton of its selector over a table it has
\* seen is true.
LEMMA AnsweringTruly ==
    ASSUME NEW q, NEW ir, NEW t \in q.seen, Serving(q, table),
           ir = BuildSkeleton(SelectorOf(q), t)
    PROVE  Serving([q EXCEPT !.phase = "answered", !.ir = ir], table)
<1> DEFINE new == [q EXCEPT !.phase = "answered", !.ir = ir]
<1>1. new = [phase |-> "answered", asker |-> q.asker, target |-> q.target, seen |-> q.seen,
             rows |-> q.rows, ir |-> ir, resolution |-> q.resolution]
    BY RequestUpdates, Zenon DEF Serving, Phases
<1>2. SelectorOf(new) = SelectorOf(q)
    BY <1>1 DEF SelectorOf
<1> HIDE DEF new
<1>3. new.seen = q.seen /\ new.ir = ir /\ new.rows = q.rows /\ new.phase = "answered"
    BY <1>1
<1>4. Shape(new)
    BY <1>1 DEF Shape, Phases
<1>5. QED
    BY <1>2, <1>3, <1>4 DEF Serving, new

LEMMA IInvHolds == Spec => []IInv
<1>1. Init => IInv
    BY DEF Init, IInv, CacheIsCurrent
<1>2. IInv /\ [Next]_vars => IInv'
    <2> SUFFICES ASSUME IInv, [Next]_vars PROVE IInv'
        OBVIOUS
    <2> USE DEF IInv
    <2>1. ASSUME NEW r \in Requests, NEW a \in Askers, NEW target \in Targets,
                 NEW flag \in Targets, Ask(r, a, target, flag)
          PROVE  IInv'
        <3> DEFINE res == Resolve([target |-> target, flag |-> flag, ua |-> a.app.ua,
                                   preference |-> a.preference])
                   q == [phase |-> "asked", asker |-> a, target |-> target, seen |-> {table},
                         rows |-> table, ir |-> NoSkeleton, resolution |-> res]
        <3>1. req' = [req EXCEPT ![r] = q]
            BY <2>1 DEF Ask
        <3> HIDE DEF res
        <3>2. Shape(q)
            BY DEF Shape, Phases
        <3>6. q.phase = "asked" /\ q.rows = table /\ q.seen = {table}
            OBVIOUS
        <3> HIDE DEF q
        <3>7. Serving(q, table)
            BY <3>2, <3>6 DEF Serving
        <3>3. CacheIsCurrent'
            BY <2>1 DEF Ask, CacheIsCurrent
        <3>4. \A s \in Requests : req'[s] = Idle \/ Serving(req'[s], table)
            BY <3>1, <3>7
        <3>5. QED
            BY <2>1, <3>1, <3>3, <3>4 DEF Ask
    <2>2. ASSUME NEW r \in Requests, Hit(r)
          PROVE  IInv'
        <3>1. req[r].phase = "asked"
            BY <2>2 DEF Hit
        <3>2. Serving(req[r], table)
            BY <3>1 DEF Idle
        <3>3. PICK e \in Kept(SelectorOf(req[r])) :
                  req' = [req EXCEPT ![r].phase = "answered", ![r].ir = e.ir]
            BY <2>2 DEF Hit
        <3>4. e \in cache /\ e.key = SelectorOf(req[r])
            BY DEF Kept, Key
        <3>5. e.ir = BuildSkeleton(SelectorOf(req[r]), table)
            BY <3>4 DEF CacheIsCurrent
        <3>6. req' = [req EXCEPT ![r] =
                         [req[r] EXCEPT !.phase = "answered", !.ir = e.ir]]
            BY <3>3
        <3>7. CacheIsCurrent' /\ table' = table
            BY <2>2 DEF Hit, CacheIsCurrent
        <3>8. table \in req[r].seen
            BY <3>1, <3>2 DEF Serving
        <3>9. QED
            BY <3>2, <3>5, <3>6, <3>7, <3>8, AnsweringTruly, OneRequestMoves
    <2>3. ASSUME NEW r \in Requests, Query(r)
          PROVE  IInv'
        <3> DEFINE q == [req[r] EXCEPT !.phase = "read", !.rows = table]
        <3>1. req[r].phase = "asked"
            BY <2>3 DEF Query
        <3>2. Serving(req[r], table)
            BY <3>1 DEF Idle
        <3>3. q = [phase |-> "read", asker |-> req[r].asker, target |-> req[r].target,
                   seen |-> req[r].seen, rows |-> table, ir |-> req[r].ir,
                   resolution |-> req[r].resolution]
            BY <3>2, RequestUpdates, Zenon DEF Serving, Phases
        <3>4. req' = [req EXCEPT ![r] = q]
            BY <2>3 DEF Query
        <3>5. CacheIsCurrent' /\ table' = table
            BY <2>3 DEF Query, CacheIsCurrent
        <3> HIDE DEF q
        <3>7. Shape(q)
            BY <3>3 DEF Shape, Phases
        <3>8. Serving(q, table)
            BY <3>1, <3>2, <3>3, <3>7 DEF Serving
        <3>6. QED
            BY <3>4, <3>5, <3>8, OneRequestMoves
    <2>4. ASSUME NEW r \in Requests, Build(r)
          PROVE  IInv'
        <3> DEFINE sel == SelectorOf(req[r])
                   ir == BuildSkeleton(sel, req[r].rows)
        <3>1. req[r].phase = "read"
            BY <2>4 DEF Build
        <3>2. Serving(req[r], table)
            BY <3>1 DEF Idle
        <3>3. req' = [req EXCEPT ![r] =
                         [req[r] EXCEPT !.phase = "answered", !.ir = ir]]
            BY <2>4 DEF Build
        <3>4. /\ cache' = IF req[r].rows = table
                          THEN cache \cup {[key |-> Key(sel), ir |-> ir]} ELSE cache
              /\ table' = table
            BY <2>4 DEF Build
        <3>5. CacheIsCurrent'
            BY <3>4 DEF CacheIsCurrent, Key
        <3>6. req[r].rows \in req[r].seen
            BY <3>2 DEF Serving
        <3> HIDE DEF ir
        <3>7. QED
            BY <3>2, <3>3, <3>4, <3>5, <3>6, AnsweringTruly, OneRequestMoves DEF ir
    <2>5. ASSUME NEW r \in Requests, Close(r)
          PROVE  IInv'
        <3>1. req' = [req EXCEPT ![r] = Idle] /\ table' = table /\ cache' = cache
            BY <2>5 DEF Close
        <3>2. QED
            BY <3>1, OneRequestMoves DEF CacheIsCurrent
    <2>6. ASSUME NEW n \in Nodes, NEW row \in Rows, Edit(n, row)
          PROVE  IInv'
        <3>1. cache' = {}
            BY <2>6 DEF Edit
        <3>2. req' = [r \in Requests |->
                         IF req[r].phase \in {"asked", "read"}
                         THEN [req[r] EXCEPT !.seen = @ \cup {table'}] ELSE req[r]]
            BY <2>6 DEF Edit
        <3>3. ASSUME NEW r \in Requests
              PROVE  req'[r] = Idle \/ Serving(req'[r], table')
            <4>1. CASE req[r].phase \in {"asked", "read"}
                <5> DEFINE q == [req[r] EXCEPT !.seen = @ \cup {table'}]
                <5>1. Serving(req[r], table)
                    BY <4>1 DEF Idle
                <5>2. q = [phase |-> req[r].phase, asker |-> req[r].asker,
                           target |-> req[r].target, seen |-> req[r].seen \cup {table'},
                           rows |-> req[r].rows, ir |-> req[r].ir,
                           resolution |-> req[r].resolution]
                    <6>1. req[r] \in [phase : Phases, asker : {req[r].asker},
                              target : {req[r].target},
                              seen : {req[r].seen, req[r].seen \cup {table'}},
                              rows : {req[r].rows}, ir : {req[r].ir},
                              resolution : {req[r].resolution}]
                        BY <5>1 DEF Serving, Shape
                    <6>2. QED
                        BY <6>1
                <5>3. req'[r] = q
                    BY <3>2, <4>1
                <5> HIDE DEF q
                <5>4. Shape(q)
                    BY <5>1, <5>2 DEF Serving, Shape
                <5>5. /\ q.phase \in {"asked", "read"}
                      /\ q.rows \in q.seen
                      /\ table' \in q.seen
                    BY <5>1, <5>2, <4>1 DEF Serving
                <5>6. Serving(q, table')
                    BY <5>4, <5>5 DEF Serving
                <5>7. QED
                    BY <5>3, <5>6
            <4>2. CASE req[r].phase \notin {"asked", "read"}
                <5>1. req'[r] = req[r]
                    BY <3>2, <4>2
                <5>2. CASE req[r] = Idle
                    BY <5>1, <5>2
                <5>3. CASE Serving(req[r], table)
                    BY <5>1, <5>3, <4>2 DEF Serving, Shape, Phases
                <5>4. QED
                    BY <5>2, <5>3
            <4>3. QED
                BY <4>1, <4>2
        <3>4. req' = [r \in Requests |-> req'[r]]
            BY <3>2
        <3>5. QED
            BY <3>1, <3>3, <3>4 DEF CacheIsCurrent
    <2>7. CASE UNCHANGED vars
        BY <2>7 DEF vars, CacheIsCurrent
    <2>8. QED
        BY <2>1, <2>2, <2>3, <2>4, <2>5, <2>6, <2>7 DEF Next
<1>3. QED
    BY <1>1, <1>2, PTL DEF Spec

\* Every answer is the skeleton of the asker's own selector over the node table
\* at some moment of the request (ir.go:100-105).
THEOREM AnswersAreTrue == Spec => []AnswerWasTrue
<1>1. IInv => AnswerWasTrue
    BY DEF IInv, AnswerWasTrue, Answered, Serving, Idle
<1>2. QED
    BY <1>1, IInvHolds, PTL

\* No skeleton that is kept is ever out of date (ir.go:103-104).
THEOREM CacheStaysCurrent == Spec => []CacheIsCurrent
<1>1. IInv => CacheIsCurrent
    BY DEF IInv
<1>2. QED
    BY <1>1, IInvHolds, PTL

-----------------------------------------------------------------------------
(***************************************************************************)
(* What the answers mean for users.  Which protocols an application parses *)
(* is a fact about the application; what is proved is what the code does   *)
(* with what it does not know.                                             *)
(***************************************************************************)

\* A cell asks for no version or for one that is not the oldest there is
\* (capability.go:75-104).
LEMMA GatesExcludeTheOldest ==
    ASSUME NEW p \in Profiles, NEW proto \in Protocols
    PROVE  LET min == CellOf(p, proto).min
           IN  min = Unknown \/ Less(V(0, 0, 1), min)
<1>1. /\ Yes.min = Unknown /\ Maybe.min = Unknown /\ No.min = Unknown
      /\ \A a, b : Since(a, b).min = V(a, b, 0)
    BY DEF Yes, Maybe, No, Since, Cell
<1>2. /\ Less(V(0, 0, 1), V(1, 15, 0)) /\ Less(V(0, 0, 1), V(1, 19, 0))
      /\ Less(V(0, 0, 1), V(1, 12, 0))
    BY DEF Less, V
<1>3. CASE proto \in Classic
    BY <1>1, <1>3 DEF CellOf
<1>4. CASE proto \notin Classic
    <2>1. proto \in {"vless", "hysteria2", "tuic", "anytls", "lumi"}
        BY <1>4 DEF Protocols, Classic
    <2>2. CellOf(p, proto) = matrix[p][proto]
        BY <1>4 DEF CellOf
    <2>3. CASE p = "mihomo"
        BY <1>1, <1>2, <2>1, <2>2, <2>3 DEF matrix, Modern
    <2>4. CASE p = "singbox"
        BY <1>1, <1>2, <2>1, <2>2, <2>4 DEF matrix, Modern
    <2>5. CASE p = "clash_premium"
        BY <1>1, <1>2, <2>1, <2>2, <2>5 DEF matrix, Modern
    <2>6. CASE p = "base64"
        BY <1>1, <1>2, <2>1, <2>2, <2>6 DEF matrix, Modern
    <2> QED  BY <2>3, <2>4, <2>5, <2>6 DEF Profiles
<1> QED  BY <1>3, <1>4

\* A client of unknown version is granted exactly what every known version of
\* its dialect is: not knowing opens no gate (detect.go:144-154,
\* capability.go:111-120).
THEOREM UnknownGetsTheLeast ==
    ASSUME NEW p \in Profiles, NEW proto \in Protocols
    PROVE  Supports([profile |-> p, version |-> Unknown], proto)
               <=> \A v \in Version \ {Unknown} : Supports([profile |-> p, version |-> v], proto)
<1> DEFINE cell == CellOf(p, proto)
<1>1. ASSUME NEW v
      PROVE  Supports([profile |-> p, version |-> v], proto)
                 <=> cell.level = "supported" /\ (cell.min = Unknown \/ AtLeast(v, cell.min))
    BY DEF Supports
<1>2. Supports([profile |-> p, version |-> Unknown], proto)
          <=> cell.level = "supported" /\ cell.min = Unknown
    BY <1>1 DEF AtLeast
<1>3. V(0, 0, 1) \in Version \ {Unknown}
    BY DEF V, Version, Unknown
<1>4. cell.min = Unknown \/ ~ AtLeast(V(0, 0, 1), cell.min)
    BY GatesExcludeTheOldest DEF AtLeast
<1> HIDE DEF cell
<1> QED  BY <1>1, <1>2, <1>3, <1>4

\* And so what the oldest known version is.
LEMMA UnknownGetsTheOldest ==
    ASSUME NEW p \in Profiles, NEW proto \in Protocols,
           Supports([profile |-> p, version |-> Unknown], proto)
    PROVE  proto \in OldestGets(p)
<1>1. V(0, 0, 1) \in Version \ {Unknown}
    BY DEF V, Version, Unknown
<1> QED  BY <1>1, UnknownGetsTheLeast DEF OldestGets

-----------------------------------------------------------------------------
(***************************************************************************)
(* The rules, for every User-Agent there can be.                           *)
(***************************************************************************)

\* The text contains a needle of the rule.
Mentions(ua, rule) == \E n \in rule.needles : ContainsNeedle(ua, n)

\* The rules by their place.
LEMMA RulesInOrder ==
    /\ DOMAIN uaRules = 1 .. 8
    /\ uaRules[1] = MihomoCore /\ uaRules[2] = MihomoWrappers /\ uaRules[3] = HiddifyClash
    /\ uaRules[4] = SingBoxCore /\ uaRules[5] = SingBoxWrappers /\ uaRules[6] = StashRule
    /\ uaRules[7] = PremiumFloor /\ uaRules[8] = LinkLists
BY DEF uaRules

\* The rule that decides is one the text mentions, and none before it is.
LEMMA FirstMatchWins ==
    ASSUME NEW ua, Matching(ua) # {}
    PROVE  \E k \in 1 .. 8 : /\ Mentions(ua, uaRules[k])
                             /\ \A j \in 1 .. 8 : j < k => ~ Mentions(ua, uaRules[j])
                             /\ DetectUA(ua) = ClientOf(ua, uaRules[k])
<1>1. PICK S : S = Matching(ua) /\ S \in SUBSET (1 .. 8) /\ S # {}
    BY RulesInOrder DEF Matching
<1>2. \E x \in S : \A y \in S : x <= y
    <2>1. ASSUME NEW k \in 1 .. 8, k \in S, \A j \in 1 .. 8 : j < k => j \notin S
          PROVE  \A y \in S : k <= y
        BY <1>1, <2>1
    <2>2. \/ 1 \in S
          \/ 1 \notin S /\ 2 \in S
          \/ {1, 2} \cap S = {} /\ 3 \in S
          \/ {1, 2, 3} \cap S = {} /\ 4 \in S
          \/ {1, 2, 3, 4} \cap S = {} /\ 5 \in S
          \/ {1, 2, 3, 4, 5} \cap S = {} /\ 6 \in S
          \/ {1, 2, 3, 4, 5, 6} \cap S = {} /\ 7 \in S
          \/ {1, 2, 3, 4, 5, 6, 7} \cap S = {} /\ 8 \in S
        BY <1>1
    <2>3. \E k \in 1 .. 8 : k \in S /\ \A j \in 1 .. 8 : j < k => j \notin S
        BY <2>2
    <2> QED  BY <2>1, <2>3
<1>3. PICK k : k = Min(S) /\ k \in S /\ \A y \in S : k <= y
    BY <1>2 DEF Min
<1>4. \A j \in 1 .. 8 : j \in S <=> Mentions(ua, uaRules[j])
    BY <1>1, RulesInOrder DEF Matching, Mentions
<1>5. k \in 1 .. 8 /\ \A j \in 1 .. 8 : j < k => j \notin S
    BY <1>1, <1>3
<1> QED  BY <1>1, <1>3, <1>4, <1>5 DEF DetectUA

\* A text that mentions mihomo or one of its wrappers is mihomo's, and one that
\* mentions sing-box or one of its wrappers keeps an engine with the modern
\* protocols unless it is Hiddify's with the Clash core: no other name the text
\* also contains, and "clash" is in most of them, demotes it (detect.go:76-85).
THEOREM EnginesAreNotDemoted ==
    ASSUME NEW ua
    PROVE  /\ Mentions(ua, MihomoCore) \/ Mentions(ua, MihomoWrappers) =>
                  Matching(ua) # {} /\ DetectUA(ua).profile = "mihomo"
           /\ /\ Mentions(ua, SingBoxCore) \/ Mentions(ua, SingBoxWrappers)
              /\ ~ Mentions(ua, HiddifyClash)
              => Matching(ua) # {} /\ DetectUA(ua).profile \in {"mihomo", "singbox"}
           /\ Mentions(ua, StashRule) /\ ~ Mentions(ua, HiddifyClash) =>
                  Matching(ua) # {} /\ DetectUA(ua).profile \in {"mihomo", "singbox"}
<1>1. \A j \in 1 .. 8 : Mentions(ua, uaRules[j]) => Matching(ua) # {}
    BY RulesInOrder DEF Matching, Mentions
<1>2. \A rule : ClientOf(ua, rule).profile = rule.profile
    BY DEF ClientOf
<1>3. /\ MihomoCore.profile = "mihomo" /\ MihomoWrappers.profile = "mihomo"
      /\ SingBoxCore.profile = "singbox" /\ SingBoxWrappers.profile = "singbox"
      /\ StashRule.profile = "mihomo"
    BY DEF MihomoCore, MihomoWrappers, SingBoxCore, SingBoxWrappers, StashRule, Rule
<1>4. ASSUME NEW r \in 1 .. 6, Mentions(ua, uaRules[r])
      PROVE  /\ Matching(ua) # {}
             /\ \E k \in 1 .. 6 : /\ k <= r /\ Mentions(ua, uaRules[k])
                                  /\ DetectUA(ua).profile = uaRules[k].profile
    <2>1. Matching(ua) # {}
        BY <1>1, <1>4
    <2>2. PICK k \in 1 .. 8 : /\ Mentions(ua, uaRules[k])
                              /\ \A j \in 1 .. 8 : j < k => ~ Mentions(ua, uaRules[j])
                              /\ DetectUA(ua) = ClientOf(ua, uaRules[k])
        BY <2>1, FirstMatchWins
    <2>3. k <= r
        BY <1>4, <2>2
    <2> QED  BY <1>2, <2>1, <2>2, <2>3
<1>5. ASSUME Mentions(ua, MihomoCore) \/ Mentions(ua, MihomoWrappers)
      PROVE  Matching(ua) # {} /\ DetectUA(ua).profile = "mihomo"
    <2>1. PICK r \in 1 .. 2 : Mentions(ua, uaRules[r])
        BY <1>5, RulesInOrder
    <2>2. PICK k \in 1 .. 2 : DetectUA(ua).profile = uaRules[k].profile
        BY <1>4, <2>1
    <2>3. k = 1 \/ k = 2
        OBVIOUS
    <2> QED  BY <1>3, <1>4, <2>1, <2>2, <2>3, RulesInOrder
<1>6. ASSUME NEW r \in 1 .. 6, Mentions(ua, uaRules[r]), ~ Mentions(ua, HiddifyClash)
      PROVE  Matching(ua) # {} /\ DetectUA(ua).profile \in {"mihomo", "singbox"}
    <2>1. PICK k \in 1 .. 6 : Mentions(ua, uaRules[k]) /\ DetectUA(ua).profile = uaRules[k].profile
        BY <1>4, <1>6
    <2>2. k # 3
        BY <1>6, <2>1, RulesInOrder
    <2>3. k = 1 \/ k = 2 \/ k = 4 \/ k = 5 \/ k = 6
        BY <2>2
    <2> QED  BY <1>3, <1>4, <1>6, <2>1, <2>3, RulesInOrder
<1>7. /\ Mentions(ua, SingBoxCore) => Mentions(ua, uaRules[4])
      /\ Mentions(ua, SingBoxWrappers) => Mentions(ua, uaRules[5])
      /\ Mentions(ua, StashRule) => Mentions(ua, uaRules[6])
    BY RulesInOrder
<1> QED  BY <1>5, <1>6, <1>7

\* A version is only ever taken from a text that mentions a core: the version
\* of a wrapper or of a link list's reader opens no gate (detect.go:56-61).
THEOREM OnlyCoresHaveVersions ==
    ASSUME NEW ua, Matching(ua) # {}, DetectUA(ua).version # Unknown
    PROVE  Mentions(ua, MihomoCore) \/ Mentions(ua, SingBoxCore)
<1>1. PICK k \in 1 .. 8 : Mentions(ua, uaRules[k]) /\ DetectUA(ua) = ClientOf(ua, uaRules[k])
    BY FirstMatchWins
<1>2. uaRules[k].coreVersion
    BY <1>1 DEF ClientOf
<1>3. /\ ~ MihomoWrappers.coreVersion /\ ~ HiddifyClash.coreVersion
      /\ ~ SingBoxWrappers.coreVersion /\ ~ StashRule.coreVersion
      /\ ~ PremiumFloor.coreVersion /\ ~ LinkLists.coreVersion
    BY DEF MihomoWrappers, HiddifyClash, SingBoxWrappers, StashRule, PremiumFloor, LinkLists, Rule
<1>4. \/ k = 1 \/ k = 2 \/ k = 3 \/ k = 4 \/ k = 5 \/ k = 6 \/ k = 7 \/ k = 8
    OBVIOUS
<1> QED  BY <1>1, <1>2, <1>3, <1>4, RulesInOrder

\* Every alias names a dialect (detect.go:303-330).
LEMMA AliasesNameProfiles ==
    ASSUME NEW s, Named(s)
    PROVE  Aliases[s] \in Profiles
<1>1. s \in UNION {Names[p] : p \in Profiles}
    BY DEF Named, Aliases
<1>2. \E p \in Profiles : s \in Names[p]
    BY <1>1
<1>3. (CHOOSE p \in Profiles : s \in Names[p]) \in Profiles
    BY <1>2
<1> QED  BY <1>1, <1>3 DEF Aliases

\* What a request was resolved from, and the tables it has seen.
Resolved(q) ==
    /\ q.asker \in Askers
    /\ q.seen \subseteq [Nodes -> Rows]
    /\ \E f : q.resolution = Resolve([target |-> q.target, flag |-> f, ua |-> q.asker.app.ua,
                                      preference |-> q.asker.preference])

ResolvedInv ==
    /\ table \in [Nodes -> Rows]
    /\ \A r \in Requests : req[r] = Idle \/ Resolved(req[r])

\* The User-Agent decided, or an explicit target did (detect.go:258-301).
LEMMA WhoDecided ==
    ASSUME NEW q, Resolved(q)
    PROVE  /\ q.resolution.source = "ua" =>
                  /\ Matching(q.asker.app.ua) # {}
                  /\ q.resolution.client = DetectUA(q.asker.app.ua)
           /\ Named(q.target) => q.resolution.client = Asked(q.target)
<1>1. PICK f : q.resolution = Resolve([target |-> q.target, flag |-> f, ua |-> q.asker.app.ua,
                                       preference |-> q.asker.preference])
    BY DEF Resolved
<1> QED  BY <1>1 DEF Resolve, Resolution

LEMMA ResolvedStep == IInv /\ ResolvedInv /\ [Next]_vars => ResolvedInv'
<1> SUFFICES ASSUME IInv, ResolvedInv, [Next]_vars PROVE ResolvedInv'
    OBVIOUS
<1>0. ASSUME NEW r \in Requests, req[r] # Idle PROVE Shape(req[r]) /\ Resolved(req[r])
    BY <1>0 DEF IInv, Serving, ResolvedInv
<1>1. ASSUME NEW r \in Requests, NEW a \in Askers, NEW target \in Targets, NEW flag \in Targets,
             Ask(r, a, target, flag)
      PROVE  ResolvedInv'
    <2> DEFINE res == Resolve([target |-> target, flag |-> flag, ua |-> a.app.ua,
                               preference |-> a.preference])
               q == [phase |-> "asked", asker |-> a, target |-> target, seen |-> {table},
                     rows |-> table, ir |-> NoSkeleton, resolution |-> res]
    <2>1. req' = [req EXCEPT ![r] = q] /\ table' = table
        BY <1>1 DEF Ask
    <2>2. \E f : res = Resolve([target |-> target, flag |-> f, ua |-> a.app.ua,
                                preference |-> a.preference])
        OBVIOUS
    <2> HIDE DEF res
    <2>3. q.asker = a /\ q.target = target /\ q.seen = {table} /\ q.resolution = res
        OBVIOUS
    <2> HIDE DEF q
    <2>4. Resolved(q)
        BY <2>2, <2>3 DEF Resolved, ResolvedInv
    <2> QED  BY <2>1, <2>4 DEF ResolvedInv, IInv
<1>2. ASSUME NEW r \in Requests, NEW q,
             req[r] # Idle, req' = [req EXCEPT ![r] = q], table' = table,
             \/ q = Idle
             \/ /\ q.asker = req[r].asker /\ q.target = req[r].target
                /\ q.seen = req[r].seen /\ q.resolution = req[r].resolution
      PROVE  ResolvedInv'
    <2>1. q = Idle \/ Resolved(q)
        BY <1>0, <1>2 DEF Resolved
    <2> QED  BY <1>2, <2>1 DEF ResolvedInv, IInv
<1>3. ASSUME NEW r \in Requests, Hit(r) PROVE ResolvedInv'
    <2>1. req[r] # Idle /\ table' = table
        BY <1>3 DEF Hit, Idle
    <2>2. PICK ir : req' = [req EXCEPT ![r].phase = "answered", ![r].ir = ir]
        BY <1>3 DEF Hit
    <2> DEFINE q == [req[r] EXCEPT !.phase = "answered", !.ir = ir]
    <2>3. req' = [req EXCEPT ![r] = q]
        BY <2>2
    <2>4. q = [phase |-> "answered", asker |-> req[r].asker, target |-> req[r].target,
               seen |-> req[r].seen, rows |-> req[r].rows, ir |-> ir,
               resolution |-> req[r].resolution]
        BY <1>0, <2>1, RequestUpdates, Zenon DEF Phases
    <2> HIDE DEF q
    <2>5. /\ q.asker = req[r].asker /\ q.target = req[r].target
          /\ q.seen = req[r].seen /\ q.resolution = req[r].resolution
        BY <2>4
    <2> QED  BY <1>2, <2>1, <2>3, <2>5
<1>4. ASSUME NEW r \in Requests, Query(r) PROVE ResolvedInv'
    <2>1. req[r] # Idle /\ table' = table
        BY <1>4 DEF Query, Idle
    <2> DEFINE q == [req[r] EXCEPT !.phase = "read", !.rows = table]
    <2>3. req' = [req EXCEPT ![r] = q]
        BY <1>4 DEF Query
    <2>4. q = [phase |-> "read", asker |-> req[r].asker, target |-> req[r].target,
               seen |-> req[r].seen, rows |-> table, ir |-> req[r].ir,
               resolution |-> req[r].resolution]
        BY <1>0, <2>1, RequestUpdates, Zenon DEF Phases
    <2> HIDE DEF q
    <2>5. /\ q.asker = req[r].asker /\ q.target = req[r].target
          /\ q.seen = req[r].seen /\ q.resolution = req[r].resolution
        BY <2>4
    <2> QED  BY <1>2, <2>1, <2>3, <2>5
<1>5. ASSUME NEW r \in Requests, Build(r) PROVE ResolvedInv'
    <2>1. req[r] # Idle /\ table' = table
        BY <1>5 DEF Build, Idle
    <2>2. PICK ir : req' = [req EXCEPT ![r].phase = "answered", ![r].ir = ir]
        BY <1>5 DEF Build
    <2> DEFINE q == [req[r] EXCEPT !.phase = "answered", !.ir = ir]
    <2>3. req' = [req EXCEPT ![r] = q]
        BY <2>2
    <2>4. q = [phase |-> "answered", asker |-> req[r].asker, target |-> req[r].target,
               seen |-> req[r].seen, rows |-> req[r].rows, ir |-> ir,
               resolution |-> req[r].resolution]
        BY <1>0, <2>1, RequestUpdates, Zenon DEF Phases
    <2> HIDE DEF q
    <2>5. /\ q.asker = req[r].asker /\ q.target = req[r].target
          /\ q.seen = req[r].seen /\ q.resolution = req[r].resolution
        BY <2>4
    <2> QED  BY <1>2, <2>1, <2>3, <2>5
<1>6. ASSUME NEW r \in Requests, Close(r) PROVE ResolvedInv'
    <2>1. req[r] # Idle /\ req' = [req EXCEPT ![r] = Idle] /\ table' = table
        BY <1>6 DEF Close, Idle
    <2> QED  BY <1>2, <2>1
<1>7. ASSUME NEW n \in Nodes, NEW row \in Rows, Edit(n, row) PROVE ResolvedInv'
    <2>1. /\ table' = [table EXCEPT ![n] = row]
          /\ req' = [r \in Requests |->
                  IF req[r].phase \in {"asked", "read"}
                  THEN [req[r] EXCEPT !.seen = @ \cup {table'}] ELSE req[r]]
        BY <1>7 DEF Edit
    <2>2. table' \in [Nodes -> Rows]
        BY <2>1 DEF ResolvedInv
    <2>3. ASSUME NEW r \in Requests PROVE req'[r] = Idle \/ Resolved(req'[r])
        <3>1. CASE req[r].phase \notin {"asked", "read"}
            BY <2>1, <3>1 DEF ResolvedInv
        <3>2. CASE req[r].phase \in {"asked", "read"}
            <4>1. req[r] # Idle
                BY <3>2 DEF Idle
            <4> DEFINE s == req[r].seen \cup {table'}
                       q == [req[r] EXCEPT !.seen = s]
            <4>2. req'[r] = q
                BY <2>1, <3>2
            <4>3. /\ q.asker = req[r].asker /\ q.target = req[r].target
                  /\ q.seen = s /\ q.resolution = req[r].resolution
                BY <1>0, <4>1 DEF Shape
            <4> HIDE DEF q
            <4>4. s \subseteq [Nodes -> Rows]
                BY <1>0, <2>2, <4>1 DEF Resolved
            <4> HIDE DEF s
            <4> QED  BY <1>0, <4>1, <4>2, <4>3, <4>4 DEF Resolved
        <3> QED  BY <3>1, <3>2
    <2> QED  BY <2>2, <2>3 DEF ResolvedInv
<1>8. CASE UNCHANGED vars
    BY <1>8 DEF vars, ResolvedInv
<1> QED  BY <1>1, <1>3, <1>4, <1>5, <1>6, <1>7, <1>8 DEF Next

LEMMA ResolvedHolds == Spec => [](IInv /\ ResolvedInv)
<1>1. Init => ResolvedInv
    BY SubplaneAssumption DEF Init, ResolvedInv
<1> QED  BY <1>1, IInvHolds, ResolvedStep, PTL DEF Spec

-----------------------------------------------------------------------------
\* What an answered request holds: the skeleton of its selector over a table
\* it has seen.
LEMMA AnsweredFrom ==
    ASSUME IInv, ResolvedInv, NEW r \in Requests, Answered(r)
    PROVE  /\ Resolved(req[r])
           /\ \E t \in req[r].seen :
                 t \in [Nodes -> Rows] /\ req[r].ir = BuildSkeleton(SelectorOf(req[r]), t)
<1>1. req[r] # Idle
    BY DEF Answered, Idle
<1>2. Resolved(req[r])
    BY <1>1 DEF ResolvedInv
<1>3. Serving(req[r], table) /\ req[r].phase = "answered"
    BY <1>1 DEF IInv, Answered
<1> QED  BY <1>2, <1>3 DEF Serving, Resolved

\* The code's filter is what the user is entitled to (ir.go:107-138).
LEMMA EntitledAgrees ==
    ASSUME NEW q, q.asker \in Askers, NEW t \in [Nodes -> Rows]
    PROVE  {n \in Nodes : Entitled(SelectorOf(q), t[n])} = EntitledNodes(q.asker, t)
<1>1. \A n \in Nodes : t[n] \in Rows /\ t[n].visibleTo \in {"all", "lumi_only"}
    BY SubplaneAssumption
<1>2. ASSUME NEW n \in Nodes
      PROVE  Entitled(SelectorOf(q), t[n]) <=> n \in EntitledNodes(q.asker, t)
    <2>1. SelectorOf(q).groups = q.asker.groups /\ SelectorOf(q).lumiOnly = q.asker.native
        BY DEF SelectorOf, Selector
    <2>2. (t[n].groups \cap q.asker.groups # {}) <=> \E g \in q.asker.groups : g \in t[n].groups
        OBVIOUS
    <2>3. (t[n].visibleTo = "lumi_only" => q.asker.native)
              <=> (t[n].visibleTo = "all" \/ q.asker.native)
        BY <1>1
    <2> QED  BY <2>1, <2>2, <2>3 DEF Entitled, EntitledNodes
<1> QED  BY <1>2 DEF EntitledNodes

\* So the nodes served are those the user is entitled to and the client
\* supports, and the rest of them are counted.
LEMMA ServedNodes ==
    ASSUME NEW q, q.asker \in Askers, NEW t \in [Nodes -> Rows],
           q.ir = BuildSkeleton(SelectorOf(q), t)
    PROVE  /\ q.ir.nodes = {n \in EntitledNodes(q.asker, t) :
                                Supports(q.resolution.client, t[n].protocol)}
           /\ q.ir.dropped = Cardinality(EntitledNodes(q.asker, t) \ q.ir.nodes)
<1>1. {n \in Nodes : Entitled(SelectorOf(q), t[n])} = EntitledNodes(q.asker, t)
    BY EntitledAgrees
<1>2. SelectorOf(q).client = q.resolution.client
    BY DEF SelectorOf, Selector
<1> DEFINE e == EntitledNodes(q.asker, t)
           k == {n \in e : Supports(q.resolution.client, t[n].protocol)}
<1>3. BuildSkeleton(SelectorOf(q), t) = [nodes |-> k, dropped |-> Cardinality(e \ k)]
    BY <1>1, <1>2 DEF BuildSkeleton
<1> HIDE DEF e, k
<1>4. q.ir.nodes = k /\ q.ir.dropped = Cardinality(e \ k)
    BY <1>3
<1> QED  BY <1>4 DEF e, k

\* The protocol of a node in a table is one of the schema's.
LEMMA NodeProtocols ==
    ASSUME NEW a, NEW t \in [Nodes -> Rows], NEW n \in EntitledNodes(a, t)
    PROVE  t[n].protocol \in Protocols
BY SubplaneAssumption DEF EntitledNodes

-----------------------------------------------------------------------------
\* No node of another group or of the native client is served or counted,
\* whoever the skeleton was built for and whatever was edited meanwhile
\* (ir.go:47-55, 118-138).
THEOREM ServedIsEntitled == Spec => []OnlyEntitled
<1>1. IInv /\ ResolvedInv => OnlyEntitled
    <2> SUFFICES ASSUME IInv, ResolvedInv, NEW r \in Requests, Answered(r)
                 PROVE  \E t \in req[r].seen : EntitledIn(req[r], t)
        BY DEF OnlyEntitled
    <2>1. req[r].asker \in Askers
        BY AnsweredFrom DEF Resolved
    <2>2. PICK t \in req[r].seen :
              t \in [Nodes -> Rows] /\ req[r].ir = BuildSkeleton(SelectorOf(req[r]), t)
        BY AnsweredFrom
    <2>3. EntitledIn(req[r], t)
        <3>1. EntitledNodes(req[r].asker, t) \subseteq Nodes
            BY DEF EntitledNodes
        <3> QED  BY <2>1, <2>2, ServedNodes DEF EntitledIn
    <2> QED  BY <2>3
<1> QED  BY <1>1, ResolvedHolds, PTL

\* What the wrappers are served: nothing that a version gate holds back.
GatesStayShut ==
    \A r \in Requests :
        /\ Answered(r) /\ req[r].resolution.source = "ua"
        /\ ~ Mentions(req[r].asker.app.ua, MihomoCore)
        /\ ~ Mentions(req[r].asker.app.ua, SingBoxCore)
        => \E t \in req[r].seen :
               \A n \in req[r].ir.nodes :
                   t[n].protocol \in OldestGets(req[r].resolution.client.profile)

\* A user whose application names no core is never served a node that a version
\* gate holds back from the oldest build, from whatever version the application
\* claims for itself and whoever filled the cache (detect.go:56-61,
\* capability.go:111-120, ir.go:100-105).
THEOREM WrappersOpenNoGate == Spec => []GatesStayShut
<1>1. IInv /\ ResolvedInv => GatesStayShut
    <2> SUFFICES ASSUME IInv, ResolvedInv, NEW r \in Requests, Answered(r),
                        req[r].resolution.source = "ua",
                        ~ Mentions(req[r].asker.app.ua, MihomoCore),
                        ~ Mentions(req[r].asker.app.ua, SingBoxCore)
                 PROVE  \E t \in req[r].seen :
                            \A n \in req[r].ir.nodes :
                                t[n].protocol \in OldestGets(req[r].resolution.client.profile)
        BY DEF GatesStayShut
    <2>1. Resolved(req[r])
        BY AnsweredFrom
    <2>2. PICK t \in req[r].seen :
              t \in [Nodes -> Rows] /\ req[r].ir = BuildSkeleton(SelectorOf(req[r]), t)
        BY AnsweredFrom
    <2>3. req[r].ir.nodes = {n \in EntitledNodes(req[r].asker, t) :
                                 Supports(req[r].resolution.client, t[n].protocol)}
        BY <2>1, <2>2, ServedNodes DEF Resolved
    <2>4. PICK ua : ua = req[r].asker.app.ua /\ Matching(ua) # {}
                    /\ req[r].resolution.client = DetectUA(ua)
        BY <2>1, WhoDecided
    <2>5. DetectUA(ua).version = Unknown
        BY <2>4, OnlyCoresHaveVersions
    <2>6. PICK k \in 1 .. 8 : DetectUA(ua) = ClientOf(ua, uaRules[k])
        BY <2>4, FirstMatchWins
    <2>7. uaRules[k].profile \in Profiles
        <3>1. /\ MihomoCore.profile \in Profiles /\ MihomoWrappers.profile \in Profiles
              /\ HiddifyClash.profile \in Profiles /\ SingBoxCore.profile \in Profiles
              /\ SingBoxWrappers.profile \in Profiles /\ StashRule.profile \in Profiles
              /\ PremiumFloor.profile \in Profiles /\ LinkLists.profile \in Profiles
            BY DEF MihomoCore, MihomoWrappers, HiddifyClash, SingBoxCore, SingBoxWrappers,
                   StashRule, PremiumFloor, LinkLists, Rule, Profiles
        <3>2. k = 1 \/ k = 2 \/ k = 3 \/ k = 4 \/ k = 5 \/ k = 6 \/ k = 7 \/ k = 8
            OBVIOUS
        <3> QED  BY <3>1, <3>2, RulesInOrder
    <2>8. PICK p \in Profiles : req[r].resolution.client = [profile |-> p, version |-> Unknown]
        BY <2>4, <2>5, <2>6, <2>7 DEF ClientOf
    <2>9. ASSUME NEW n \in req[r].ir.nodes PROVE t[n].protocol \in OldestGets(p)
        <3>1. PICK proto \in Protocols : proto = t[n].protocol
            BY <2>2, <2>3, NodeProtocols
        <3>2. Supports([profile |-> p, version |-> Unknown], proto)
            BY <2>3, <2>8, <3>1
        <3> QED  BY <3>1, <3>2, UnknownGetsTheOldest
    <2> QED  BY <2>8, <2>9
<1> QED  BY <1>1, ResolvedHolds, PTL

\* An explicit ?target= decides whatever else the request says, and every node
\* of the answer is one the oldest build of that dialect is granted too: for every
\* application, table and history of the cache (detect.go:286-301).
THEOREM ForcedDialectIsSafe == Spec => []ForcedDialectSuitsEveryBuild
<1>1. IInv /\ ResolvedInv => ForcedDialectSuitsEveryBuild
    <2> SUFFICES ASSUME IInv, ResolvedInv, NEW r \in Requests, Answered(r), Named(req[r].target)
                 PROVE  \E t \in req[r].seen :
                            \A n \in req[r].ir.nodes :
                                t[n].protocol \in OldestGets(Aliases[req[r].target])
        BY DEF ForcedDialectSuitsEveryBuild
    <2>1. Resolved(req[r])
        BY AnsweredFrom
    <2>2. PICK t \in req[r].seen :
              t \in [Nodes -> Rows] /\ req[r].ir = BuildSkeleton(SelectorOf(req[r]), t)
        BY AnsweredFrom
    <2>3. req[r].ir.nodes = {n \in EntitledNodes(req[r].asker, t) :
                                 Supports(req[r].resolution.client, t[n].protocol)}
        BY <2>1, <2>2, ServedNodes DEF Resolved
    <2>4. PICK p \in Profiles : p = Aliases[req[r].target]
        BY AliasesNameProfiles
    <2>5. req[r].resolution.client = [profile |-> p, version |-> Unknown]
        BY <2>1, <2>4, WhoDecided DEF Asked
    <2>6. ASSUME NEW n \in req[r].ir.nodes PROVE t[n].protocol \in OldestGets(p)
        <3>1. PICK proto \in Protocols : proto = t[n].protocol
            BY <2>2, <2>3, NodeProtocols
        <3>2. Supports([profile |-> p, version |-> Unknown], proto)
            BY <2>3, <2>5, <3>1
        <3> QED  BY <3>1, <3>2, UnknownGetsTheOldest
    <2> QED  BY <2>4, <2>6
<1> QED  BY <1>1, ResolvedHolds, PTL

-----------------------------------------------------------------------------
(***************************************************************************)
(* The JSON answers.  What is still to be written tells what has been: the *)
(* wire stays empty until the encode has succeeded or been refused.        *)
(***************************************************************************)

\* What a call may answer: its document, or the refusal in its place.
Settled ==
    \/ asked.op = "error" /\ buffer = asked.doc
    \/ asked.op = "json" /\ ~MarshalFails(asked.doc) /\ buffer = asked.doc
    \/ /\ asked.op = "refused" /\ MarshalFails(asked.doc)
       /\ asked.status = 500 /\ buffer = Envelope("internal_error")

HttpInv ==
    /\ buffer \in Seq(Leaves \cup Codes \cup {"internal_error"})
    /\ asked.status \in Nat \ {0}
    /\ DOMAIN asked = {"op", "status", "doc"}
    /\ \/ /\ todo = <<"encode", "headers", "status", "body">>
          /\ asked.op = "json" /\ wire = Unsent
          /\ asked.doc \in Seq(Leaves \cup Codes \cup {"internal_error"})
       \/ Settled /\ todo = <<"headers", "status", "body">> /\ wire = Unsent
       \/ Settled /\ todo = <<"status", "body">> /\ wire = Unsent /\ headers = TRUE
       \/ /\ Settled /\ todo = <<"body">>
          /\ wire = [status |-> asked.status, safe |-> TRUE, body |-> <<>>]
       \/ /\ Settled /\ todo = <<>>
          /\ \E n \in 0 .. Len(buffer) :
                wire = [status |-> asked.status, safe |-> TRUE, body |-> SubSeq(buffer, 1, n)]

\* A write of the body leaves the status and the headers as they were.
LEMMA BodyReplaced ==
    ASSUME NEW s, NEW safe, NEW b, NEW t
    PROVE  [[status |-> s, safe |-> safe, body |-> b] EXCEPT !.body = t] =
               [status |-> s, safe |-> safe, body |-> t]
<1> DEFINE w == [status |-> s, safe |-> safe, body |-> b]
           u == [w EXCEPT !.body = t]
<1>1. w \in [status : {s}, safe : {safe}, body : {b, t}]
    OBVIOUS
<1>2. u \in [status : {s}, safe : {safe}, body : {b, t}]
    BY <1>1
<1>3. u.body = t
    BY <1>1
<1> HIDE DEF u
<1>4. u = [status |-> u.status, safe |-> u.safe, body |-> u.body]
    BY <1>2
<1>5. u.status = s /\ u.safe = safe
    BY <1>2
<1>6. u = [status |-> s, safe |-> safe, body |-> t]
    BY <1>3, <1>4, <1>5
<1> QED  BY <1>6 DEF u

LEMMA HttpInitial == Statuses \subseteq Nat \ {0} /\ HttpInit => HttpInv
<1> SUFFICES ASSUME Statuses \subseteq Nat \ {0}, HttpInit PROVE HttpInv
    OBVIOUS
<1>1. wire = Unsent
    BY DEF HttpInit
<1>2. CASE asked \in [op : {"json"}, status : Statuses, doc : Documents]
    <2>1. asked.op = "json" /\ asked.status \in Nat \ {0} /\ asked.doc \in Documents
        BY <1>2
    <2>2. DOMAIN asked = {"op", "status", "doc"}
        BY <1>2
    <2>3. PICK n \in 0 .. MaxLeaves : asked.doc \in [1 .. n -> Leaves]
        BY <2>1 DEF Documents
    <2>4. asked.doc \in Seq(Leaves \cup Codes \cup {"internal_error"})
        BY <2>3
    <2>5. todo = <<"encode", "headers", "status", "body">> /\ buffer = <<>>
        BY <2>1 DEF HttpInit, WriteJSON
    <2>6. buffer \in Seq(Leaves \cup Codes \cup {"internal_error"})
        BY <2>5
    <2> QED  BY <1>1, <2>1, <2>2, <2>4, <2>5, <2>6 DEF HttpInv
<1>3. CASE asked \in [op : {"error"}, status : Statuses, doc : {Envelope(c) : c \in Codes}]
    <2>1. asked.op = "error" /\ asked.status \in Nat \ {0}
        BY <1>3
    <2>2. DOMAIN asked = {"op", "status", "doc"}
        BY <1>3
    <2>3. PICK c \in Codes : asked.doc = <<c>>
        BY <1>3 DEF Envelope
    <2>4. todo = <<"headers", "status", "body">> /\ buffer = asked.doc
        BY <2>1 DEF HttpInit, writeError
    <2>5. buffer \in Seq(Leaves \cup Codes \cup {"internal_error"})
        BY <2>3, <2>4
    <2>6. Settled
        BY <2>1, <2>4 DEF Settled
    <2> QED  BY <1>1, <2>1, <2>2, <2>4, <2>5, <2>6 DEF HttpInv
<1> QED  BY <1>2, <1>3 DEF HttpInit

\* What is left to do decides which step is next.
LEMMA StepsInOrder ==
    /\ Head(<<"encode", "headers", "status", "body">>) = "encode"
    /\ Tail(<<"encode", "headers", "status", "body">>) = <<"headers", "status", "body">>
    /\ Head(<<"headers", "status", "body">>) = "headers"
    /\ Tail(<<"headers", "status", "body">>) = <<"status", "body">>
    /\ Head(<<"status", "body">>) = "status"
    /\ Tail(<<"status", "body">>) = <<"body">>
    /\ Head(<<"body">>) = "body"
    /\ Tail(<<"body">>) = <<>>
OBVIOUS

LEMMA HttpStep == HttpInv /\ [HttpNext]_httpVars => HttpInv'
<1> SUFFICES ASSUME HttpInv, [HttpNext]_httpVars PROVE HttpInv'
    OBVIOUS
<1>1. CASE Encode
    <2>1. todo # <<>> /\ Head(todo) = "encode"
        BY <1>1 DEF Encode, At
    <2>2. /\ todo = <<"encode", "headers", "status", "body">>
          /\ asked.op = "json" /\ wire = Unsent
          /\ asked.doc \in Seq(Leaves \cup Codes \cup {"internal_error"})
        BY <2>1, StepsInOrder DEF HttpInv
    <2>3. /\ buffer' = asked.doc /\ todo' = <<"headers", "status", "body">>
          /\ asked' = asked /\ wire' = wire /\ ~MarshalFails(asked.doc)
        BY <1>1, <2>2, StepsInOrder DEF Encode
    <2>4. Settled'
        BY <2>2, <2>3 DEF Settled, MarshalFails
    <2> QED  BY <2>2, <2>3, <2>4 DEF HttpInv
<1>2. CASE Refuse
    <2>1. todo # <<>> /\ Head(todo) = "encode"
        BY <1>2 DEF Refuse, At
    <2>2. /\ todo = <<"encode", "headers", "status", "body">>
          /\ wire = Unsent
        BY <2>1, StepsInOrder DEF HttpInv
    <2>3. /\ asked' = [asked EXCEPT !.op = "refused", !.status = 500]
          /\ buffer' = <<"internal_error">> /\ todo' = <<"headers", "status", "body">>
          /\ wire' = wire /\ MarshalFails(asked.doc)
        BY <1>2 DEF Refuse, Envelope, writeError
    <2>4. /\ asked'.op = "refused" /\ asked'.status = 500 /\ asked'.doc = asked.doc
          /\ DOMAIN asked' = {"op", "status", "doc"}
        BY <2>3 DEF HttpInv
    <2>5. Settled'
        BY <2>3, <2>4 DEF Settled, MarshalFails, Envelope
    <2>6. buffer' \in Seq(Leaves \cup Codes \cup {"internal_error"})
        BY <2>3
    <2> QED  BY <2>2, <2>3, <2>4, <2>5, <2>6 DEF HttpInv
<1>3. CASE setSafetyHeaders
    <2>1. todo # <<>> /\ Head(todo) = "headers"
        BY <1>3 DEF setSafetyHeaders, At
    <2>2. todo = <<"headers", "status", "body">> /\ Settled /\ wire = Unsent
        BY <2>1, StepsInOrder DEF HttpInv
    <2>3. /\ headers' = TRUE /\ todo' = <<"status", "body">>
          /\ asked' = asked /\ buffer' = buffer /\ wire' = wire
        BY <1>3, <2>2, StepsInOrder DEF setSafetyHeaders
    <2>4. Settled'
        BY <2>2, <2>3 DEF Settled, MarshalFails
    <2> QED  BY <2>2, <2>3, <2>4 DEF HttpInv
<1>4. CASE SendStatus
    <2>1. todo # <<>> /\ Head(todo) = "status"
        BY <1>4 DEF SendStatus, At
    <2>2. todo = <<"status", "body">> /\ Settled /\ wire = Unsent /\ headers = TRUE
        BY <2>1, StepsInOrder DEF HttpInv
    <2>3. /\ wire' = Send(asked.status) /\ todo' = <<"body">>
          /\ asked' = asked /\ buffer' = buffer
        BY <1>4, <2>2, StepsInOrder DEF SendStatus
    <2>4. wire' = [status |-> asked.status, safe |-> TRUE, body |-> <<>>]
        BY <2>2, <2>3 DEF Send, Unsent
    <2>5. Settled'
        BY <2>2, <2>3 DEF Settled, MarshalFails
    <2> QED  BY <2>3, <2>4, <2>5 DEF HttpInv
<1>5. CASE SendBody
    <2>1. todo # <<>> /\ Head(todo) = "body"
        BY <1>5 DEF SendBody, At
    <2>2. /\ todo = <<"body">> /\ Settled
          /\ wire = [status |-> asked.status, safe |-> TRUE, body |-> <<>>]
        BY <2>1, StepsInOrder DEF HttpInv
    <2>3. PICK n \in 0 .. Len(buffer) : wire' = Deliver(buffer, n)
        BY <1>5 DEF SendBody
    <2>4. todo' = <<>> /\ asked' = asked /\ buffer' = buffer
        BY <1>5, <2>2, StepsInOrder DEF SendBody
    <2>5. Send(200) = wire
        BY <2>2 DEF Send, HttpInv
    <2>6. n \in Nat /\ n <= Len(buffer) /\ buffer \in Seq(Leaves \cup Codes \cup {"internal_error"})
        BY DEF HttpInv
    <2>7. SubSeq(buffer, 1, n) \in Seq(Leaves \cup Codes \cup {"internal_error"})
        BY <2>6
    <2>8. <<>> \o SubSeq(buffer, 1, n) = SubSeq(buffer, 1, n)
        BY <2>7
    <2>9. wire' = [status |-> asked.status, safe |-> TRUE, body |-> SubSeq(buffer, 1, n)]
        <3>1. PICK t : t = SubSeq(buffer, 1, n) /\ <<>> \o t = t
            BY <2>8
        <3>2. wire.body = <<>>
            BY <2>2
        <3>3. wire' = [wire EXCEPT !.body = wire.body \o SubSeq(buffer, 1, n)]
            BY <2>3, <2>5 DEF Deliver
        <3>4. wire' = [wire EXCEPT !.body = t]
            BY <3>1, <3>2, <3>3
        <3>5. wire' = [status |-> asked.status, safe |-> TRUE, body |-> t]
            BY <2>2, <3>4, BodyReplaced
        <3> QED  BY <3>1, <3>5
    <2>10. Settled'
        BY <2>2, <2>4 DEF Settled, MarshalFails
    <2> QED  BY <2>4, <2>9, <2>10 DEF HttpInv
<1>6. CASE UNCHANGED httpVars
    BY <1>6 DEF httpVars, HttpInv, Settled, MarshalFails
<1> QED  BY <1>1, <1>2, <1>3, <1>4, <1>5, <1>6 DEF HttpNext

\* A document with a secret in it, however deep, is answered by a clean 500 and
\* nothing of it is ever on the wire; every other answer is what was asked for
\* or a prefix of it, behind the safety headers (json.go:15-22, 53-58).
THEOREM SecretsStayHome ==
    ASSUME Statuses \subseteq Nat \ {0}
    PROVE  HttpSpec => []NothingBesideTheRefusal
<1>1. HttpInv => NothingBesideTheRefusal
    <2> SUFFICES ASSUME HttpInv, wire.status # 0
                 PROVE  /\ wire.safe
                        /\ IF asked.op # "error" /\ MarshalFails(asked.doc)
                           THEN wire.status = 500
                                  /\ StartsWith(wire.body, Envelope("internal_error"))
                           ELSE wire.status = asked.status /\ StartsWith(wire.body, asked.doc)
        BY DEF NothingBesideTheRefusal
    <2>1. wire # Unsent
        BY DEF Unsent
    <2>2. \E n \in 0 .. Len(buffer) :
              wire = [status |-> asked.status, safe |-> TRUE, body |-> SubSeq(buffer, 1, n)]
        <3>1. CASE wire = [status |-> asked.status, safe |-> TRUE, body |-> <<>>]
            <4>1. buffer \in Seq(Leaves \cup Codes \cup {"internal_error"})
                BY DEF HttpInv
            <4>2. SubSeq(buffer, 1, 0) = <<>> /\ 0 \in 0 .. Len(buffer)
                BY <4>1
            <4> QED  BY <3>1, <4>2
        <3> QED  BY <2>1, <3>1 DEF HttpInv
    <2>3. Settled
        BY <2>1 DEF HttpInv
    <2>4. StartsWith(wire.body, buffer)
        <3>1. PICK n \in 0 .. Len(buffer) :
                 wire = [status |-> asked.status, safe |-> TRUE, body |-> SubSeq(buffer, 1, n)]
            BY <2>2
        <3>2. buffer \in Seq(Leaves \cup Codes \cup {"internal_error"})
            BY DEF HttpInv
        <3>3. Len(SubSeq(buffer, 1, n)) = n /\ n <= Len(buffer)
            BY <3>2
        <3>4. wire.body = SubSeq(buffer, 1, n)
            BY <3>1
        <3> QED  BY <3>3, <3>4 DEF StartsWith
    <2>5. wire.safe /\ wire.status = asked.status
        BY <2>2
    <2> QED  BY <2>3, <2>4, <2>5 DEF Settled
<1> QED  BY <1>1, HttpInitial, HttpStep, PTL DEF HttpSpec
=============================================================================
