--------------------------- MODULE ClientDetection ---------------------------
(***************************************************************************)
(* src/internal/subplane/detect.go: which client is asking, from the       *)
(* query, the User-Agent and the stored preference.                        *)
(*                                                                         *)
(* A lowercased text is a sequence of lexemes.  A lexeme is a word (or the *)
(* part of one that some needle is made of), a run of digits and dots, or  *)
(* a separator; a needle can only occur at lexeme boundaries.  The numbers *)
(* a run reads as are data of the model: Runs.                             *)
(***************************************************************************)
EXTENDS Integers, Sequences, FiniteSetsExt

CONSTANTS Separators,  \* lexemes that are neither letters nor digits
          Runs         \* text of a digit run -> what strconv.Atoi reads in it:
                       \*   whole, and tail, the run after its first digit

Version == [major : Nat, minor : Nat, patch : Nat]
V(a, b, c) == [major |-> a, minor |-> b, patch |-> c]
Unknown == V(0, 0, 0)

ASSUME RunsAssumption ==
    /\ Separators \cap DOMAIN Runs = {}
    /\ \A r \in DOMAIN Runs : Runs[r].whole \in Version /\ Runs[r].tail \in Seq(Version)

\* Mutant: the patch decides before the minor does.
LessMutant(v, o) ==
    \/ v.major < o.major
    \/ v.major = o.major /\ v.patch < o.patch
    \/ v.major = o.major /\ v.patch = o.patch /\ v.minor < o.minor

Less(v, o) ==
    \/ v.major < o.major
    \/ v.major = o.major /\ v.minor < o.minor
    \/ v.major = o.major /\ v.minor = o.minor /\ v.patch < o.patch

AtLeast(v, min) == v # Unknown /\ ~Less(v, min)

-----------------------------------------------------------------------------
(* Lexing.                                                                 *)

IsRun(l) == l \in DOMAIN Runs
IsAlpha(l) == ~IsRun(l) /\ l \notin Separators

\* The run at i is part of a name: it follows a letter that is not a "v"
\* which itself starts a token.
InName(ua, i) ==
    /\ i > 1 /\ IsAlpha(ua[i - 1])
    /\ ~(ua[i - 1] = "v" /\ (i = 2 \/ ua[i - 2] \in Separators))

\* What parseVersion reads at the run at i, as a sequence of at most one
\* version.  In a name only the first digit is skipped: the scan goes on
\* inside the run.
ReadRun(ua, i) ==
    IF i < Len(ua) /\ IsAlpha(ua[i + 1]) THEN <<>>
    ELSE IF InName(ua, i) THEN Runs[ua[i]].tail
    ELSE <<Runs[ua[i]].whole>>

ParseVersion(ua) ==
    LET readable == {i \in DOMAIN ua : IsRun(ua[i]) /\ ReadRun(ua, i) # <<>>}
    IN  IF readable = {} THEN Unknown ELSE ReadRun(ua, Min(readable))[1]

\* Mutant: word boundaries are not looked at.
ContainsNeedleMutant(ua, n) ==
    \E i \in 1 .. Len(ua) - Len(n.s) + 1 : SubSeq(ua, i, i + Len(n.s) - 1) = n.s

ContainsNeedle(ua, n) ==
    \E i \in 1 .. Len(ua) - Len(n.s) + 1 :
        LET end == i + Len(n.s)
        IN  /\ SubSeq(ua, i, end - 1) = n.s
            /\ n.word => /\ i = 1 \/ ua[i - 1] \in Separators
                         /\ end > Len(ua) \/ ua[end] \in Separators

-----------------------------------------------------------------------------
(* The rules: an ordered sequence, the first match wins.                   *)

Profiles == {"mihomo", "singbox", "clash_premium", "base64"}
ProfileFallback == "base64"

Rule(profile, coreVersion, subs, words) ==
    [profile |-> profile, coreVersion |-> coreVersion,
     needles |-> [s : subs, word : {FALSE}] \cup [s : words, word : {TRUE}]]

MihomoCore == Rule("mihomo", TRUE,
    {<<"mihomo">>, <<"clash", ".", "meta">>, <<"clash", "-", "meta">>,
     <<"clash", " ", "meta">>}, {})
MihomoWrappers == Rule("mihomo", FALSE,
    {<<"clash", "-", "verge">>, <<"clash", " ", "verge">>, <<"clash", "meta">>,
     <<"clash", "x", " ", "meta">>, <<"fl", "clash">>}, {<<"cmfa">>, <<"nikki">>})
HiddifyClash == Rule("clash_premium", FALSE,
    {<<"hiddify", "clash">>, <<"hiddify", " ", "clash">>}, {})
SingBoxCore == Rule("singbox", TRUE,
    {<<"sing", "-", "box">>}, {<<"sfa">>, <<"sfi">>, <<"sfm">>})
SingBoxWrappers == Rule("singbox", FALSE, {<<"hiddify">>}, {<<"karing">>})
StashRule == Rule("mihomo", FALSE, {}, {<<"stash">>})
PremiumFloor == Rule("clash_premium", FALSE, {<<"clash">>}, {<<"cfa">>})
LinkLists == Rule("base64", FALSE,
    {<<"shadowrocket">>, <<"v", "2", "rayn">>, <<"v", "2", "rayn", "g">>,
     <<"nekobox">>, <<"nekoray">>}, {<<"throne">>})

\* Mutant: the bare "clash" comes before the mihomo wrappers.
uaRulesMutant == <<MihomoCore, SingBoxCore, SingBoxWrappers, HiddifyClash,
                   StashRule, PremiumFloor, MihomoWrappers, LinkLists>>

uaRules == <<MihomoCore, MihomoWrappers, HiddifyClash, SingBoxCore,
             SingBoxWrappers, StashRule, PremiumFloor, LinkLists>>

Matching(ua) == {r \in DOMAIN uaRules :
                    \E n \in uaRules[r].needles : ContainsNeedle(ua, n)}

ClientOf(ua, r) ==
    [profile |-> r.profile,
     version |-> IF r.coreVersion THEN ParseVersion(ua) ELSE Unknown]

DetectUA(ua) == ClientOf(ua, uaRules[Min(Matching(ua))])

-----------------------------------------------------------------------------
(* Resolution: ?target=, ?flag=, the User-Agent, the preference, nothing.  *)

Names ==
    [mihomo        |-> {"mihomo", "clash.meta", "clashmeta", "meta"},
     singbox       |-> {"singbox", "sing-box"},
     clash_premium |-> {"clash"},
     base64        |-> {"base64", "v2ray", "list"}]

Aliases == [s \in UNION {Names[p] : p \in Profiles} |-> CHOOSE p \in Profiles : s \in Names[p]]

Named(s) == s \in DOMAIN Aliases

\* A dialect that was asked for says nothing of the core.
Asked(s) == [profile |-> Aliases[s], version |-> Unknown]

FallbackClient == [profile |-> ProfileFallback, version |-> Unknown]

Resolution(client, source) ==
    [client |-> client, source |-> source,
     unknownUA |-> source \in {"user_preference", "fallback"}]

\* Mutant: the User-Agent beats the explicit parameters.
ResolveMutant(q) ==
    IF Matching(q.ua) # {} THEN Resolution(DetectUA(q.ua), "ua")
    ELSE IF Named(q.target) THEN Resolution(Asked(q.target), "target")
    ELSE Resolution(FallbackClient, "fallback")

Resolve(q) ==
    IF Named(q.target) THEN Resolution(Asked(q.target), "target")
    ELSE IF Named(q.flag) THEN Resolution(Asked(q.flag), "flag")
    ELSE IF Matching(q.ua) # {} THEN Resolution(DetectUA(q.ua), "ua")
    ELSE IF Named(q.preference) THEN Resolution(Asked(q.preference), "user_preference")
    ELSE Resolution(FallbackClient, "fallback")
=============================================================================
