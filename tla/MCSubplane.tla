------------------------------ MODULE MCSubplane ------------------------------
(***************************************************************************)
(* Subplane with applications, users and nodes.  What each application     *)
(* really parses is written down here from detect.go's comments and the    *)
(* fixtures in testdata/ua, not computed from the code under test.         *)
(*                                                                         *)
(* A behaviour is about one of three things: every application in turn     *)
(* before a table with every protocol; two requests that share the cache   *)
(* while nodes are edited; or a JSON answer being written, which shares no *)
(* state with the feed.                                                    *)
(***************************************************************************)
EXTENDS Subplane, HttpResponse, TLC

CONSTANTS r1, r2

MCSeparators == {" ", "/", "-", ".", "("}
Reads(text, whole, tail) == [s \in {text} |-> [whole |-> whole, tail |-> tail]]
MCRuns == Reads("2", V(2, 0, 0), <<>>)
       @@ Reads("1.11", V(1, 11, 0), <<V(11, 0, 0)>>)
       @@ Reads("1.12", V(1, 12, 0), <<V(12, 0, 0)>>)
       @@ Reads("1.14.9", V(1, 14, 9), <<V(14, 9, 0)>>)
       @@ Reads("1.18", V(1, 18, 0), <<V(18, 0, 0)>>)
       @@ Reads("1.19", V(1, 19, 0), <<V(19, 0, 0)>>)
       @@ Reads("2.11", V(2, 11, 0), <<V(11, 0, 0)>>)
       @@ Reads("2.11.", V(2, 11, 0), <<V(11, 0, 0)>>)
       @@ Reads("0.8", V(0, 8, 0), <<V(8, 0, 0)>>)

\* An application: its User-Agent, the dialect of its engine, the protocols its
\* build parses, and the version of its core; official says that the User-Agent carries the latter.
App(ua, dialect, parses, core, official) ==
    [ua |-> ua, dialect |-> dialect, parses |-> parses, core |-> core, official |-> official]

Vless == Classic \cup {"vless"}
Quic == Vless \cup {"hysteria2", "tuic"}
Full == Quic \cup {"anytls"}

OneProduct ==
    { App(<<"mihomo", "/", "1.14.9">>, "mihomo", Vless, V(1, 14, 9), TRUE),
      App(<<"mihomo", "/", "1.18">>, "mihomo", Quic, V(1, 18, 0), TRUE),
      App(<<"clash", ".", "meta", "/", "v", "1.19">>, "mihomo", Full, V(1, 19, 0), TRUE),
      App(<<"sing", "-", "box", " ", "1.11">>, "singbox", Quic, V(1, 11, 0), TRUE),
      App(<<"sfa", "/", "1.12", " ", "(", "android">>, "singbox", Full, V(1, 12, 0), TRUE),
      App(<<"clash", "meta", "forandroid", "/", "2.11.", "meta">>, "mihomo", Quic, V(1, 18, 0), FALSE),
      App(<<"fl", "clash", "/", "0.8">>, "mihomo", Quic, V(1, 18, 0), FALSE),
      App(<<"clash", " ", "verge", " ", "rev", "/", "v", "2.11">>, "mihomo", Quic, V(1, 18, 0), FALSE),
      App(<<"stash", "/", "2.11", " ", "clash", "/", "1.19">>, "mihomo", Vless, Unknown, FALSE),
      App(<<"hiddify", "/", "2.11">>, "singbox", Quic, V(1, 11, 0), FALSE),
      App(<<"hiddify", "clash", "/", "1.18">>, "clash_premium", Classic, Unknown, FALSE),
      App(<<"clash", "x", " ", "pro", "/", "1.19">>, "clash_premium", Classic, Unknown, FALSE),
      App(<<"v", "2", "rayn", "/", "1.18">>, "base64", Vless, Unknown, FALSE),
      App(<<"shadowrocket", "/", "2.11">>, "base64", Quic, Unknown, FALSE),
      App(<<"in", "stash", "are", "/", "2.11">>, "base64", {}, Unknown, FALSE),
      App(<<>>, "base64", {}, Unknown, FALSE) }

\* Two wrappers that also name their core, the second one in a test
\* (detect_test.go, TestDetectIsDeterministic).
TwoProducts ==
    { App(<<"clash", "meta", "forandroid", "/", "2.11", " ", "mihomo", "/", "1.18">>, "mihomo",
          Quic, V(1, 18, 0), FALSE),
      App(<<"fl", "clash", "/", "0.8", " ", "clash", "/", "1.19", " ", "mihomo", "/", "1.18">>, "mihomo",
          Quic, V(1, 18, 0), FALSE) }

\* The Clash Verge before Rev: the same User-Agent, the Premium core.
PremiumVerge ==
    { App(<<"clash", " ", "verge", "/", "v", "1.18">>, "clash_premium", Classic, Unknown, FALSE) }

\* A core whose version is written against its name.
GluedProduct == { App(<<"mihomo", "1.18">>, "mihomo", Quic, V(1, 18, 0), FALSE) }

Asker(app, groups, native, preference) ==
    [app |-> app, groups |-> groups, native |-> native, preference |-> preference]

\* Every application once, for the whole of detection.
DetectAskers == {Asker(a, {1}, FALSE, p) : a \in OneProduct, p \in {"", "meta"}}
GluedAskers == {Asker(a, {1}, FALSE, "") : a \in OneProduct \cup GluedProduct}
VergeAskers == {Asker(a, {1}, FALSE, "") : a \in OneProduct \cup PremiumVerge}
CompoundAskers == {Asker(a, {1}, FALSE, "") : a \in OneProduct \cup TwoProducts}

\* Few applications and users that differ in one component of the selector.
FeedAskers ==
    LET old == App(<<"sing", "-", "box", "/", "1.11">>, "singbox", Quic, V(1, 11, 0), TRUE)
        new == App(<<"sing", "-", "box", "/", "1.12">>, "singbox", Full, V(1, 12, 0), TRUE)
    IN  {Asker(old, {1}, FALSE, ""), Asker(new, {1}, FALSE, ""),
         Asker(new, {1, 2}, FALSE, ""), Asker(new, {1}, TRUE, ""), Asker(new, {}, TRUE, "")}

Row(protocol, groups, visibleTo, isVisible) ==
    [protocol |-> protocol, groups |-> groups, visibleTo |-> visibleTo, isVisible |-> isVisible]

\* One node of each protocol.
DetectTable == [n \in Protocols |-> Row(n, {1, 2}, "all", TRUE)]
DetectRows == {DetectTable[n] : n \in Protocols}


\* Two nodes that are edited and nothing else a user may see.
Edited == {"anytls", "trojan"}
FeedTable == [n \in Protocols |->
    IF n = "trojan" THEN Row(n, {1}, "lumi_only", TRUE) ELSE Row(n, {1, 2}, "all", n \in Edited)]
FeedRows == {Row("anytls", {1, 2}, "all", TRUE), Row("anytls", {2}, "all", TRUE),
             Row("anytls", {1, 2}, "all", FALSE), Row("trojan", {1}, "lumi_only", TRUE),
             Row("trojan", {}, "all", TRUE)}

MCAskers == DetectAskers \cup FeedAskers
MCRows == DetectRows \cup FeedRows \cup {FeedTable[n] : n \in Protocols}
MCTables == {DetectTable, FeedTable}

NoAnswer == [op |-> "none"]
Serving == asked = NoAnswer
Detecting == table = DetectTable

MCInit ==
    /\ Init
    /\ \/ /\ asked = NoAnswer /\ todo = <<>> /\ buffer = <<>>
          /\ headers = FALSE /\ wire = Unsent
       \/ ~Detecting /\ HttpInit

Detect == Detecting /\ \E a \in Askers \ FeedAskers, target, flag \in Targets : Ask(r1, a, target, flag)

Feed == ~Detecting /\ \/ \E r \in Requests, a \in FeedAskers : Ask(r, a, "", "")
                      \/ \E n \in Edited, row \in FeedRows : Edit(n, row)

MCNext ==
    \/ /\ Serving
       /\ Detect \/ Feed \/ \E r \in Requests : Hit(r) \/ Query(r) \/ Build(r) \/ Close(r)
       /\ UNCHANGED httpVars
    \/ ~Serving /\ HttpNext /\ UNCHANGED vars

MCSpec == MCInit /\ [][MCNext]_<<vars, httpVars>>

-----------------------------------------------------------------------------
\* The version a client is credited with is its core's (detect.go:162-170: the
\* first run belongs to the application that the rules matched).
VersionIsTheCores ==
    \A r \in Requests : req[r] # Idle =>
        req[r].resolution.client.version \in {Unknown, req[r].asker.app.core}

\* A digit preceded by a letter is part of a name, not a version: digits that
\* are written against a letter give no version (detect.go:176-178).
GluedDigitsAreAName ==
    \A r \in Requests : req[r] # Idle =>
        LET ua == req[r].asker.app.ua
        IN  (\A i \in DOMAIN ua : IsRun(ua[i]) => InName(ua, i)) =>
                req[r].resolution.client.version = Unknown
=============================================================================
