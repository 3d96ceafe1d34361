------------------------------- MODULE Subplane -------------------------------
(***************************************************************************)
(* src/internal/subplane: a subscription request, from its signals to the  *)
(* shared part of the answer.  Resolve (detect.go) picks the client, the   *)
(* caller reads the candidate nodes, BuildSkeleton (ir.go) filters them by *)
(* group, visibility and capability (capability.go), and the result may be *)
(* kept in a render cache keyed by the Selector and served to everyone     *)
(* whose selector is the same.                                             *)
(*                                                                         *)
(* The handler, the node table and the cache are outside src/: they are    *)
(* modelled from what ir.go says of them.  A change to the table empties   *)
(* the cache, and a skeleton built from rows that are no longer the        *)
(* table's is answered but not kept.  The order of the nodes is left out.  *)
(***************************************************************************)
EXTENDS ClientDetection

CONSTANTS Requests,     \* request slots
          Askers,       \* users, with the application each one uses
          Targets,      \* values of ?target= and ?flag=
          Nodes,        \* node IDs
          Rows,         \* rows the node table can hold
          InitialTables, \* node tables there may be at the start
          MaxChanges    \* bound: administrative changes to the table

Protocols == {"shadowsocks", "vmess", "trojan", "vless", "hysteria2", "tuic",
              "anytls", "lumi"}
Classic == {"shadowsocks", "vmess", "trojan"}

ASSUME SubplaneAssumption ==
    /\ MaxChanges \in Nat
    /\ InitialTables \subseteq [Nodes -> Rows]
    /\ \A r \in Rows : r.protocol \in Protocols /\ r.visibleTo \in {"all", "lumi_only"}

VARIABLES table,    \* the node table
          changes,  \* administrative changes so far
          cache,    \* the kept skeletons, each under its selector
          req       \* the requests being served

vars == <<table, changes, cache, req>>

-----------------------------------------------------------------------------
(* capability.go                                                           *)

Cell(level, min) == [level |-> level, min |-> min]
Yes == Cell("supported", Unknown)
Since(a, b) == Cell("supported", V(a, b, 0))
Maybe == Cell("partial", Unknown)
No == Cell("unsupported", Unknown)

Modern(vless, hysteria2, tuic, anytls) ==
    [vless |-> vless, hysteria2 |-> hysteria2, tuic |-> tuic, anytls |-> anytls,
     lumi |-> No]

matrix ==
    [mihomo        |-> Modern(Yes, Since(1, 15), Since(1, 15), Since(1, 19)),
     singbox       |-> Modern(Yes, Yes, Yes, Since(1, 12)),
     clash_premium |-> Modern(No, No, No, No),
     base64        |-> Modern(Yes, Maybe, Maybe, Maybe)]

CellOf(profile, proto) == IF proto \in Classic THEN Yes ELSE matrix[profile][proto]

Supports(c, proto) ==
    LET r == CellOf(c.profile, proto)
    IN  /\ r.level = "supported"
        /\ r.min = Unknown \/ AtLeast(c.version, r.min)

-----------------------------------------------------------------------------
(* ir.go                                                                   *)

Selector(client, groups, lumiOnly) ==
    [client |-> client, groups |-> groups, lumiOnly |-> lumiOnly]

Entitled(sel, n) ==
    /\ n.isVisible
    /\ n.visibleTo = "lumi_only" => sel.lumiOnly
    /\ n.groups \cap sel.groups # {}

BuildSkeleton(sel, rows) ==
    LET entitled == {n \in Nodes : Entitled(sel, rows[n])}
        kept == {n \in entitled : Supports(sel.client, rows[n].protocol)}
    IN  [nodes |-> kept, dropped |-> Cardinality(entitled \ kept)]

-----------------------------------------------------------------------------
(* Serving.                                                                *)

Idle == [phase |-> "idle"]
NoSkeleton == [nodes |-> {}, dropped |-> 0]

SelectorOf(q) == Selector(q.resolution.client, q.asker.groups, q.asker.native)

\* Mutant: the cache key leaves out the client's version.
KeyMutant(sel) == [sel EXCEPT !.client.version = Unknown]

\* What the cache is keyed by: the Selector, all of it.
Key(sel) == sel

Kept(sel) == {e \in cache : e.key = Key(sel)}

Init ==
    /\ table \in InitialTables
    /\ changes = 0
    /\ cache = {}
    /\ req = [r \in Requests |-> Idle]

Ask(r, asker, target, flag) ==
    /\ req[r] = Idle
    /\ req' = [req EXCEPT ![r] =
           [phase |-> "asked", asker |-> asker, target |-> target,
            seen |-> {table}, rows |-> table, ir |-> NoSkeleton,
            resolution |-> Resolve([target |-> target, flag |-> flag, ua |-> asker.app.ua,
                                    preference |-> asker.preference])]]
    /\ UNCHANGED <<table, changes, cache>>

\* The answer is a skeleton kept for the same selector.
Hit(r) ==
    /\ req[r].phase = "asked"
    /\ \E e \in Kept(SelectorOf(req[r])) :
           req' = [req EXCEPT ![r].phase = "answered", ![r].ir = e.ir]
    /\ UNCHANGED <<table, changes, cache>>

\* The caller reads the candidates.
Query(r) ==
    /\ req[r].phase = "asked"
    /\ Kept(SelectorOf(req[r])) = {}
    /\ req' = [req EXCEPT ![r].phase = "read", ![r].rows = table]
    /\ UNCHANGED <<table, changes, cache>>

Build(r) ==
    /\ req[r].phase = "read"
    /\ LET sel == SelectorOf(req[r])
           ir == BuildSkeleton(sel, req[r].rows)
       IN  /\ req' = [req EXCEPT ![r].phase = "answered", ![r].ir = ir]
           /\ cache' = IF req[r].rows = table
                       THEN cache \cup {[key |-> Key(sel), ir |-> ir]} ELSE cache
    /\ UNCHANGED <<table, changes>>

Close(r) ==
    /\ req[r].phase = "answered"
    /\ req' = [req EXCEPT ![r] = Idle]
    /\ UNCHANGED <<table, changes, cache>>

\* An administrator edits a node; requests in flight have now also seen the
\* new table.
Edit(n, row) ==
    /\ changes < MaxChanges
    /\ row # table[n]
    /\ table' = [table EXCEPT ![n] = row]
    /\ changes' = changes + 1
    /\ cache' = {}
    /\ req' = [r \in Requests |->
                  IF req[r].phase \in {"asked", "read"}
                  THEN [req[r] EXCEPT !.seen = @ \cup {table'}] ELSE req[r]]

Next ==
    \/ \E r \in Requests :
           \/ \E a \in Askers, target, flag \in Targets : Ask(r, a, target, flag)
           \/ Hit(r) \/ Query(r) \/ Build(r) \/ Close(r)
    \/ \E n \in Nodes, row \in Rows : Edit(n, row)

Spec == Init /\ [][Next]_vars

-----------------------------------------------------------------------------
Selectors == [client : [profile : Profiles, version : Version],
              groups : {a.groups : a \in Askers}, lumiOnly : BOOLEAN]
Skeletons == [nodes : SUBSET Nodes, dropped : 0 .. Cardinality(Nodes)]

\* The variables hold what the code's types allow; a cached skeleton counts no
\* more nodes than there are.
TypeOK ==
    /\ table \in [Nodes -> Rows]
    /\ changes \in 0 .. MaxChanges
    /\ \A e \in cache : e.key \in Selectors /\ e.ir \in Skeletons
    /\ \A r \in Requests :
           \/ req[r] = Idle
           \/ /\ req[r].phase \in {"asked", "read", "answered"}
              /\ req[r].asker \in Askers
              /\ SelectorOf(req[r]) \in Selectors
              /\ table \in req[r].seen \/ req[r].phase = "answered"
              /\ req[r].rows \in req[r].seen
              /\ req[r].ir \in Skeletons

Answered(r) == req[r].phase = "answered"

\* What a user is served is the skeleton of that user's own selector over the
\* node table as it stood at some moment of the request, whether it was built
\* for this request or kept from someone else's (ir.go:100-105).
AnswerWasTrue ==
    \A r \in Requests : Answered(r) =>
        \E t \in req[r].seen : req[r].ir = BuildSkeleton(SelectorOf(req[r]), t)

\* A skeleton that is kept is the one its selector has now: the argument for
\* AnswerWasTrue (ir.go:103-104).
CacheIsCurrent == \A e \in cache : e.ir = BuildSkeleton(e.key, table)

\* What a user may be served at all: visible nodes of a group of the user's,
\* those that are for the operator's own client only to that client
\* (ir.go:118-129).
EntitledNodes(a, t) ==
    {n \in Nodes : /\ t[n].isVisible
                   /\ \E g \in a.groups : g \in t[n].groups
                   /\ t[n].visibleTo = "all" \/ a.native}

\* What is served are nodes of the user's groups that are visible to that user,
\* and the count of what was left out is what the user is entitled to and does
\* not see: a node of another group is never disclosed by it (ir.go:47-55).
EntitledIn(q, t) ==
    LET entitled == EntitledNodes(q.asker, t)
    IN  /\ q.ir.nodes \subseteq entitled
        /\ q.ir.dropped = Cardinality(entitled \ q.ir.nodes)

ParseableIn(q, t) == \A n \in q.ir.nodes : t[n].protocol \in q.asker.app.parses

\* Every node a user is served is one the user is entitled to, and one the
\* user's application parses when its User-Agent decided the dialect: the
\* ordered rules with their word boundaries, the versions, the matrix and the
\* cache agree on it (detect.go:76-126, capability.go:57-120, ir.go:77-138).
\* That is said of applications whose User-Agent names one product and is no
\* other engine's: of the Clash Verge with the Premium core (detect.go:90-94)
\* it does not hold.
EntitledAndParseable ==
    \A r \in Requests : Answered(r) =>
        \E t \in req[r].seen :
            EntitledIn(req[r], t) /\ (req[r].resolution.source = "ua" => ParseableIn(req[r], t))

\* Its first half, which needs no such restriction.
OnlyEntitled ==
    \A r \in Requests : Answered(r) => \E t \in req[r].seen : EntitledIn(req[r], t)

\* A core that says its own version misses none of the nodes it parses: the
\* caution about unknown versions costs it nothing (detect.go:56-68).
CoreMissesNothing ==
    \A r \in Requests :
        Answered(r) /\ req[r].resolution.source = "ua" /\ req[r].asker.app.official =>
            \E t \in req[r].seen :
                req[r].ir.nodes = {n \in EntitledNodes(req[r].asker, t) :
                                       t[n].protocol \in req[r].asker.app.parses}

\* What the matrix grants the oldest build of an engine that says its version.
\* It is what it grants every build; whether each of them parses it is only as
\* certain as the cells without a minimum (capability.go:66-70).
OldestGets(profile) ==
    {p \in Protocols : Supports([profile |-> profile, version |-> V(0, 0, 1)], p)}

\* No client is demoted: one that is recognised is served at least what the
\* matrix grants every build of its engine, whatever other names its User-Agent
\* contains (detect.go:76-85; the bare "clash" is contained in most of them).
NoClientIsDemoted ==
    \A r \in Requests : Answered(r) /\ req[r].resolution.source = "ua" =>
        \E t \in req[r].seen :
            \A n \in EntitledNodes(req[r].asker, t) :
                t[n].protocol \in OldestGets(req[r].asker.app.dialect) =>
                    n \in req[r].ir.nodes

\* The escape hatch of a support agent: an explicit ?target= decides whatever
\* the User-Agent says, and opens no version gate: asking for a dialect proves
\* nothing about the core, so the answer is what the oldest build would be
\* given too (detect.go:286-301).
ForcedDialectSuitsEveryBuild ==
    \A r \in Requests : Answered(r) /\ Named(req[r].target) =>
        \E t \in req[r].seen :
            \A n \in req[r].ir.nodes :
                t[n].protocol \in OldestGets(Aliases[req[r].target])
=============================================================================
