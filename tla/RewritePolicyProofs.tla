------------------------- MODULE RewritePolicyProofs ------------------------
(***************************************************************************)
(* Theorems about RewritePolicy, for every set of documents and of         *)
(* requested paths, whatever the libraries make of their text.             *)
(***************************************************************************)
EXTENDS RewritePolicy, ByteSlicesProofs

(* strip_prefix with something after the base path: the base path is there. *)
LEMMA PrefixOfPrefix ==
    ASSUME BasePath \in Seq(STRING),
           NEW p \in Seq(STRING), NEW S, STRING \subseteq S, NEW r \in Seq(S),
           HasPrefix(p, BasePath \o r)
    PROVE  HasPrefix(p, BasePath)
<1>0. BasePath \in Seq(S)
  BY SeqMonotonic
<1>1. /\ Len(BasePath \o r) = Len(BasePath) + Len(r)
      /\ \A i \in 1..(Len(BasePath) + Len(r)) :
           (BasePath \o r)[i] = IF i <= Len(BasePath) THEN BasePath[i]
                                                      ELSE r[i - Len(BasePath)]
  BY <1>0, ConcatProperties
<1>2. Len(BasePath) \in Nat /\ Len(r) \in Nat /\ Len(p) \in Nat
  OBVIOUS
<1>3. Len(BasePath) =< Len(p)
  BY <1>1, <1>2 DEF HasPrefix
<1>4. ASSUME NEW i \in 1..Len(BasePath) PROVE p[i] = BasePath[i]
  <2>1. i \in 1..(Len(BasePath) + Len(r)) /\ i <= Len(BasePath)
    BY <1>2
  <2>2. p[i] = (BasePath \o r)[i]
    BY <1>1, <2>1 DEF HasPrefix
  <2>. QED  BY <1>1, <2>1, <2>2
<1>. QED  BY <1>3, <1>4 DEF HasPrefix

(* A prefixed path has the prefix. *)
LEMMA PrefixedHasPrefix ==
    ASSUME BasePath \in Seq(STRING), NEW p \in Seq(STRING)
    PROVE  HasPrefix(BasePath \o p, BasePath)
<1>1. /\ Len(BasePath \o p) = Len(BasePath) + Len(p)
      /\ \A i \in 1..(Len(BasePath) + Len(p)) :
           (BasePath \o p)[i] = IF i <= Len(BasePath) THEN BasePath[i]
                                                      ELSE p[i - Len(BasePath)]
  BY ConcatProperties
<1>2. Len(BasePath) \in Nat /\ Len(p) \in Nat
  OBVIOUS
<1>3. \A i \in 1..Len(BasePath) : (BasePath \o p)[i] = BasePath[i]
  BY <1>1, <1>2
<1>. QED  BY <1>1, <1>2, <1>3 DEF HasPrefix

(* What decide selects lies under the base path. *)
LEMMA SelectedIsUnder ==
    ASSUME BasePath \in Seq(STRING),
           NEW m, NEW p \in Seq(STRING), NEW on, Decide(m, p, on) # "Bypass"
    PROVE  HasPrefix(p, BasePath)
<1>1. \/ Under(p, <<"proxy">>)
      \/ Under(p, <<"jsbundles">>)
      \/ Under(p, <<"extensions-static">>)
  BY DEF Decide, IsNamedProxy, IsJsBundle, IsConsoleV3
<1>2. ASSUME NEW root, Under(p, <<root>>)
      PROVE  HasPrefix(p, BasePath)
  <2>. DEFINE S == STRING \cup {root}
  <2>1. HasPrefix(p, BasePath \o <<root>>)
    BY <1>2 DEF Under
  <2>2. STRING \subseteq S /\ <<root>> \in Seq(S)
    OBVIOUS
  <2>. QED  BY <2>1, <2>2, PrefixOfPrefix
<1>. QED  BY <1>1, <1>2

-----------------------------------------------------------------------------
(* Trimming leaves a path. *)
LEMMA TrimmedIsPath ==
    ASSUME NEW p \in Seq(STRING)
    PROVE  Trimmed(p) \in Seq(STRING)
<1>1. Len(p) \in Nat
  BY LenProperties
<1>2. ASSUME NEW n \in Int, n =< Len(p)
      PROVE  SubSeq(p, 2, n) \in Seq(STRING)
  <2>1. \A i \in 2..n : p[i] \in STRING
    <3>1. TAKE i \in 2..n
    <3>2. i \in 1..Len(p)
      BY <1>1, <1>2
    <3>. QED  BY <3>2, ElementOfSeq
  <2>. QED  BY <1>2, <2>1, SubSeqProperties
<1>3. CASE p[Len(p)] = ""
  <2>1. Trimmed(p) = SubSeq(p, 2, Len(p) - 1)
    BY <1>3 DEF Trimmed
  <2>2. Len(p) - 1 \in Int /\ Len(p) - 1 =< Len(p)
    BY <1>1
  <2>. QED  BY <1>2, <2>1, <2>2
<1>4. CASE p[Len(p)] # ""
  <2>1. Trimmed(p) = SubSeq(p, 2, Len(p))
    BY <1>4 DEF Trimmed
  <2>2. Len(p) \in Int /\ Len(p) =< Len(p)
    BY <1>1
  <2>. QED  BY <1>2, <2>1, <2>2
<1>. QED  BY <1>3, <1>4

(* What a loaded document leaves in config. *)
LEMMA LoadedBasePath ==
    ASSUME NEW d \in Documents, Refusal(d) = "None"
    PROVE  Effective(d).base_path \in Seq(STRING)
<1>1. NormalizeBasePath(d.base_path) # {}
  BY DEF Refusal
<1>2. PICK base \in NormalizeBasePath(d.base_path) :
             base = Effective(d).base_path
  BY <1>1 DEF Effective
<1>3. base = <<>> \/ base = Trimmed(d.base_path)
  BY <1>2 DEF NormalizeBasePath
<1>4. Trimmed(d.base_path) \in Seq(STRING)
  BY DocumentsAssumption, TrimmedIsPath
<1>5. <<>> \in Seq(STRING)
  OBVIOUS
<1>. QED  BY <1>2, <1>3, <1>4, <1>5

(* Loading and the two filters have done what they compute. *)
FilterInv ==
    /\ stage \in {"starting", "exited", "panicked", "serving", "decided", "forwarded"}
    /\ document \in Documents
    /\ Served => /\ Refusal(document) = "None"
                 /\ config = Effective(document)
                 /\ BasePath \in Seq(STRING)
    /\ stage \in {"decided", "forwarded"} =>
         /\ path \in Seq(STRING)
         /\ decision = Decide(method, path, config.enabled_rules)
    /\ stage \notin {"decided", "forwarded"} => decision = "Bypass"
    /\ stage = "forwarded" => upstream_path = WithBasePath(path)

LEMMA FilterInvariant == Spec => []FilterInv
<1>1. Init => FilterInv
  BY DEF Init, FilterInv, Served
<1>2. FilterInv /\ [Next]_vars => FilterInv'
  <2>. SUFFICES ASSUME FilterInv, [Next]_vars PROVE FilterInv'
    OBVIOUS
  <2>0. ASSUME UNCHANGED config, NEW m, NEW p, NEW on
        PROVE  Decide(m, p, on)' = Decide(m, p, on)
    BY <2>0 DEF Decide, IsNamedProxy, IsJsBundle, IsConsoleV3, ExtensionEnabled,
                AllExtensions, Under, Below, BasePath
  <2>1. CASE Refuse
    BY <2>1 DEF Refuse, FilterInv, Served
  <2>2. CASE Load
    <3>1. /\ stage' \in {"serving", "panicked"} /\ config' = Effective(document)
          /\ Refusal(document) = "None" /\ decision' = decision
          /\ document' = document /\ stage = "starting"
      BY <2>2 DEF Load
    <3>2. BasePath' \in Seq(STRING)
      BY <3>1, LoadedBasePath DEF FilterInv, BasePath
    <3>. QED  BY <3>1, <3>2 DEF FilterInv, Served
  <2>3. CASE RequestFilter
    <3>1. path' \in Seq(STRING)
      BY <2>3, PathsAssumption DEF RequestFilter
    <3>2. decision' = Decide(method, path, config.enabled_rules)'
      BY <2>3 DEF RequestFilter, Decide, IsNamedProxy, IsJsBundle, IsConsoleV3,
                  ExtensionEnabled, AllExtensions, Under, Below, BasePath
    <3>. QED  BY <2>3, <3>1, <3>2 DEF RequestFilter, FilterInv, Served, BasePath
  <2>4. CASE UpstreamRequestFilter
    BY <2>4, <2>0 DEF UpstreamRequestFilter, FilterInv, Served, BasePath, WithBasePath
  <2>5. CASE UNCHANGED vars
    BY <2>5, <2>0 DEF vars, FilterInv, Served, BasePath, WithBasePath
  <2>. QED  BY <2>1, <2>2, <2>3, <2>4, <2>5 DEF Next
<1>. QED  BY <1>1, <1>2, PTL DEF Spec

(* The path of a selected request is not changed by upstream_request_filter: *)
(* the response that is rewritten is the one decide was asked about.         *)
THEOREM SelectedForwardedAsIs == Spec => []SelectedIsForwardedAsIs
<1>1. FilterInv => SelectedIsForwardedAsIs
  <2>. SUFFICES ASSUME FilterInv, stage = "forwarded", decision # "Bypass"
                PROVE  upstream_path = path
    BY DEF SelectedIsForwardedAsIs
  <2>1. HasPrefix(path, BasePath)
    BY SelectedIsUnder DEF FilterInv, Served
  <2>. QED  BY <2>1 DEF FilterInv, WithBasePath
<1>. QED  BY <1>1, FilterInvariant, PTL

(* api_uri_with_base_path is idempotent: no path is prefixed twice. *)
THEOREM NeverPrefixedTwice == Spec => []PrefixedOnce
<1>1. ASSUME BasePath \in Seq(STRING), NEW p \in Seq(STRING)
      PROVE  WithBasePath(WithBasePath(p)) = WithBasePath(p)
  BY <1>1, PrefixedHasPrefix DEF WithBasePath
<1>2. FilterInv => PrefixedOnce
  BY <1>1 DEF FilterInv, PrefixedOnce, Served
<1>. QED  BY <1>2, FilterInvariant, PTL

-----------------------------------------------------------------------------
(* Switching rules off                                                     *)

(* FirstEnabled of the lists that the policy uses. *)
LEMMA FirstOfNone == ASSUME NEW on PROVE FirstEnabled(<<>>, on) = "Bypass"
BY DEF FirstEnabled

LEMMA FirstOfOne ==
    ASSUME NEW a, NEW on
    PROVE  FirstEnabled(<<a>>, on) = IF a \in on THEN a ELSE "Bypass"
<1>. DEFINE ids == {i \in 1..Len(<<a>>) : <<a>>[i] \in on}
<1>1. CASE a \in on
  <2>1. ids = {1}
    BY <1>1
  <2>2. (CHOOSE i \in ids : \A j \in ids : i =< j) = 1
    BY <2>1
  <2>. QED  BY <1>1, <2>1, <2>2 DEF FirstEnabled
<1>2. CASE a \notin on
  <2>1. ids = {}
    BY <1>2
  <2>. QED  BY <1>2, <2>1 DEF FirstEnabled
<1>. QED  BY <1>1, <1>2

LEMMA FirstOfTwo ==
    ASSUME NEW a, NEW b, NEW on
    PROVE  FirstEnabled(<<a, b>>, on)
             = IF a \in on THEN a ELSE IF b \in on THEN b ELSE "Bypass"
<1>. DEFINE ids == {i \in 1..Len(<<a, b>>) : <<a, b>>[i] \in on}
<1>1. CASE a \in on
  <2>1. 1 \in ids /\ \A j \in ids : 1 =< j
    BY <1>1
  <2>2. (CHOOSE i \in ids : \A j \in ids : i =< j) = 1
    BY <2>1
  <2>. QED  BY <1>1, <2>1, <2>2 DEF FirstEnabled
<1>2. CASE a \notin on /\ b \in on
  <2>1. ids = {2}
    BY <1>2
  <2>2. (CHOOSE i \in ids : \A j \in ids : i =< j) = 2
    BY <2>1
  <2>. QED  BY <1>2, <2>1, <2>2 DEF FirstEnabled
<1>3. CASE a \notin on /\ b \notin on
  <2>1. ids = {}
    BY <1>3
  <2>. QED  BY <1>3, <2>1 DEF FirstEnabled
<1>. QED  BY <1>1, <1>2, <1>3

(* Whether p has a rule, and which ones are tried for it in which order,    *)
(* does not depend on the rules that are on.                                *)
LEMMA Preferences ==
    ASSUME NEW m, NEW p
    PROVE  \/ \A on : Decide(m, p, on) = "Bypass"
           \/ \A on : Decide(m, p, on)
                        = FirstEnabled(<<"Ys1000Html", "NamedProxyHtml">>, on)
           \/ \E x \in {"NamedProxyHtml", "KubekeyAssetJs", "JsBundle", "ConsoleV3"} :
                \A on : Decide(m, p, on) = FirstEnabled(<<x>>, on)
           \/ \E y \in {"FrontendIndexJsBundle", "Ys1000FrontendIndexJsBundle"} :
                \A on : Decide(m, p, on)
                          = IF "FrontendIndexJsBundle" \in on THEN y
                            ELSE FirstEnabled(<<"JsBundle">>, on)
<1>1. CASE BasePath = <<>> \/ m \notin {"GET", "HEAD"}
  BY <1>1 DEF Decide
<1>2. CASE ~(BasePath = <<>> \/ m \notin {"GET", "HEAD"}) /\ IsNamedProxy(p)
  <2>. DEFINE proxy_path == Below(p, <<"proxy">>)
  <2>1. \A on : Decide(m, p, on) = NamedProxyProfile(proxy_path, on)
    BY <1>2 DEF Decide
  <2>. HIDE DEF proxy_path
  <2>2. \/ \A on : NamedProxyProfile(proxy_path, on)
                     = FirstEnabled(<<"Ys1000Html", "NamedProxyHtml">>, on)
        \/ \A on : NamedProxyProfile(proxy_path, on)
                     = FirstEnabled(<<"NamedProxyHtml">>, on)
        \/ \A on : NamedProxyProfile(proxy_path, on)
                     = FirstEnabled(<<"KubekeyAssetJs">>, on)
        \/ \A on : NamedProxyProfile(proxy_path, on) = FirstEnabled(<<>>, on)
    <3>1. CASE proxy_path[1] = "ys1000"
      BY <3>1 DEF NamedProxyProfile
    <3>2. CASE proxy_path[1] # "ys1000" /\ LastOf(proxy_path) \notin JsNames
      BY <3>2 DEF NamedProxyProfile
    <3>3. CASE /\ proxy_path[1] # "ys1000" /\ LastOf(proxy_path) \in JsNames
               /\ proxy_path[1] = "kubekey" /\ proxy_path[2] = "assets"
               /\ Len(proxy_path) > 2
      BY <3>3 DEF NamedProxyProfile
    <3>4. CASE /\ proxy_path[1] # "ys1000" /\ LastOf(proxy_path) \in JsNames
               /\ ~(/\ proxy_path[1] = "kubekey" /\ proxy_path[2] = "assets"
                    /\ Len(proxy_path) > 2)
      BY <3>4 DEF NamedProxyProfile
    <3>. QED  BY <3>1, <3>2, <3>3, <3>4
  <2>. QED  BY <2>1, <2>2, FirstOfNone
<1>3. CASE /\ ~(BasePath = <<>> \/ m \notin {"GET", "HEAD"})
           /\ ~IsNamedProxy(p) /\ IsJsBundle(p)
  <2>. DEFINE bundle_path == Below(p, <<"jsbundles">>)
  <2>1. \A on : Decide(m, p, on) = JsBundleProfile(bundle_path, on)
    BY <1>3 DEF Decide
  <2>. HIDE DEF bundle_path
  <2>. QED  BY <2>1 DEF JsBundleProfile
<1>4. CASE /\ ~(BasePath = <<>> \/ m \notin {"GET", "HEAD"})
           /\ ~IsNamedProxy(p) /\ ~IsJsBundle(p) /\ IsConsoleV3(p)
  BY <1>4 DEF Decide
<1>5. CASE /\ ~(BasePath = <<>> \/ m \notin {"GET", "HEAD"})
           /\ ~IsNamedProxy(p) /\ ~IsJsBundle(p) /\ ~IsConsoleV3(p)
  BY <1>5 DEF Decide
<1>. QED  BY <1>1, <1>2, <1>3, <1>4, <1>5

(* Switching a rule off touches the requests it applies to and no other. *)
THEOREM SwitchingOff == Spec => []SwitchingOffIsLocal
<1>1. SwitchingOffIsLocal
  <2>. SUFFICES ASSUME NEW rule \in config.enabled_rules
                PROVE  LET on   == config.enabled_rules
                           now  == Decide(method, path, on)
                           then == Decide(method, path, on \ {rule})
                       IN  IF RuleOf(now) # rule
                              THEN then = now
                              ELSE then = IF rule \in DOMAIN Fallback
                                             /\ Fallback[rule] \in on
                                             THEN Fallback[rule] ELSE "Bypass"
    BY DEF SwitchingOffIsLocal
  <2>. QED  BY Preferences, FirstOfOne, FirstOfTwo DEF RuleOf, Fallback
<1>. QED  BY <1>1, PTL

-----------------------------------------------------------------------------
(* From the document to the decision                                       *)

LEMMA RulesAre ==
    Rules = {"ConsoleV3", "JsBundle", "FrontendIndexJsBundle", "NamedProxyHtml",
             "Ys1000Html", "KubekeyAssetJs"}
<1>1. DOMAIN RuleNumbered = 1..6
  BY DEF RuleNumbered
<1>. QED  BY <1>1 DEF Rules, RuleNumbered

(* A selected request is selected by a rule that is on. *)
LEMMA SelectedByEnabled ==
    ASSUME NEW m, NEW p, NEW on, Decide(m, p, on) # "Bypass"
    PROVE  /\ Decide(m, p, on) \in Profiles
           /\ RuleOf(Decide(m, p, on)) \in on
           /\ m \in {"GET", "HEAD"}
<1>1. m \in {"GET", "HEAD"}
  BY DEF Decide
<1>2. /\ Decide(m, p, on) \in Profiles
      /\ RuleOf(Decide(m, p, on)) \in on
  BY Preferences, FirstOfOne, FirstOfTwo, RulesAre DEF RuleOf, Profiles
<1>. QED  BY <1>1, <1>2

(* The type invariant: what is served has limits that a semaphore holds. *)
THEOREM PolicyTypeOK == Spec => []TypeOK
<1>. DEFINE Limits(c) == /\ c.max_concurrent \in 1..MaxPermits
                         /\ c.max_queued \in 0..MaxPermits
                         /\ c.max_decoded_bytes > 0
            LimitInv == Served => Limits(config)
<1>1. Init => LimitInv
  BY DEF Init, Served
<1>2. FilterInv /\ LimitInv /\ [Next]_vars => LimitInv'
  <2>. SUFFICES ASSUME FilterInv, LimitInv, [Next]_vars, Served'
                PROVE  Limits(config')
    BY DEF Served
  <2>1. CASE Load
    <3>1. /\ document.max_concurrent \in Nat /\ document.max_concurrent # 0
          /\ document.max_queued \in Nat
          /\ document.max_decoded_bytes \in Nat /\ document.max_decoded_bytes # 0
      BY <2>1, DocumentsAssumption DEF Load, Refusal, FilterInv
    <3>2. /\ config'.max_concurrent = document.max_concurrent
          /\ config'.max_queued = document.max_queued
          /\ config'.max_decoded_bytes = document.max_decoded_bytes
      BY <2>1 DEF Load, Effective
    <3>3. config'.max_concurrent =< MaxPermits /\ config'.max_queued =< MaxPermits
      BY <2>1 DEF Load, Served
    <3>. QED  BY <3>1, <3>2, <3>3, PermitsAssumption
  <2>2. CASE Refuse
    BY <2>2 DEF Refuse, Served
  <2>3. CASE RequestFilter
    BY <2>3 DEF RequestFilter, Served
  <2>4. CASE UpstreamRequestFilter
    BY <2>4 DEF UpstreamRequestFilter, Served
  <2>5. CASE UNCHANGED vars
    BY <2>5 DEF vars, Served
  <2>. QED  BY <2>1, <2>2, <2>3, <2>4, <2>5 DEF Next
<1>3. FilterInv /\ LimitInv => TypeOK
  <2>. SUFFICES ASSUME FilterInv, LimitInv PROVE TypeOK
    OBVIOUS
  <2>1. decision # "Bypass" => /\ decision \in Profiles
                               /\ method \in {"GET", "HEAD"}
    BY SelectedByEnabled DEF FilterInv
  <2>2. stage = "forwarded" => upstream_path \in {path, BasePath \o path}
    BY DEF FilterInv, WithBasePath
  <2>. QED  BY <2>1, <2>2 DEF FilterInv, TypeOK
<1>. QED  BY <1>1, <1>2, <1>3, FilterInvariant, PTL DEF Spec

(* The segment after the base path and the root is the extension's. *)
LEMMA FirstBelow ==
    ASSUME BasePath \in Seq(STRING), NEW p \in Seq(STRING), NEW root,
           Under(p, <<root>>)
    PROVE  Below(p, <<root>>)[1] = p[Len(BasePath) + 2]
<1>. DEFINE S == STRING \cup {root}
<1>1. BasePath \in Seq(S) /\ <<root>> \in Seq(S)
  BY SeqMonotonic
<1>2. Len(BasePath \o <<root>>) = Len(BasePath) + 1 /\ Len(BasePath) \in Nat
  BY <1>1, ConcatProperties
<1>3. Len(p) \in Nat /\ Len(p) >= Len(BasePath) + 2
  BY <1>2 DEF Under
<1>4. \A i \in (Len(BasePath) + 2)..Len(p) : p[i] \in STRING
  BY <1>2, <1>3, ElementOfSeq
<1>5. SubSeq(p, Len(BasePath) + 2, Len(p))[1] = p[Len(BasePath) + 2]
  BY <1>2, <1>3, <1>4, SubSeqProperties
<1>6. Below(p, <<root>>) = SubSeq(p, Len(BasePath \o <<root>>) + 1, Len(p))
  BY DEF Below
<1>7. Len(BasePath \o <<root>>) + 1 = Len(BasePath) + 2
  BY <1>2
<1>. QED  BY <1>5, <1>6, <1>7

(* The extension rules look at the extension they are switched for. *)
LEMMA SelectedExtension ==
    ASSUME BasePath \in Seq(STRING),
           NEW m, NEW p \in Seq(STRING), NEW on,
           RuleOf(Decide(m, p, on))
             \in {"ConsoleV3", "JsBundle", "FrontendIndexJsBundle"}
    PROVE  ExtensionEnabled(p[Len(BasePath) + 2])
<1>1. CASE IsNamedProxy(p)
  <2>1. \/ Decide(m, p, on) = "Bypass"
        \/ Decide(m, p, on) = NamedProxyProfile(Below(p, <<"proxy">>), on)
    BY <1>1 DEF Decide
  <2>2. NamedProxyProfile(Below(p, <<"proxy">>), on)
          \in {"Ys1000Html", "NamedProxyHtml", "KubekeyAssetJs", "Bypass"}
    BY FirstOfNone, FirstOfOne, FirstOfTwo DEF NamedProxyProfile
  <2>. QED  BY <2>1, <2>2 DEF RuleOf
<1>2. CASE ~IsNamedProxy(p) /\ IsJsBundle(p)
  BY <1>2, FirstBelow DEF IsJsBundle
<1>3. CASE ~IsNamedProxy(p) /\ ~IsJsBundle(p) /\ IsConsoleV3(p)
  BY <1>3, FirstBelow DEF IsConsoleV3
<1>4. CASE ~IsNamedProxy(p) /\ ~IsJsBundle(p) /\ ~IsConsoleV3(p)
  BY <1>4 DEF Decide, RuleOf
<1>. QED  BY <1>1, <1>2, <1>3, <1>4

(* What the document switches off is not selected, for every document. *)
THEOREM DocumentDecides == Spec => []DecidedByTheDocument
<1>1. FilterInv => DecidedByTheDocument
  <2>. SUFFICES ASSUME FilterInv, decision # "Bypass"
                PROVE  DecidedByTheDocument
    BY DEF DecidedByTheDocument
  <2>1. /\ stage \in {"decided", "forwarded"}
        /\ decision = Decide(method, path, config.enabled_rules)
        /\ path \in Seq(STRING) /\ BasePath \in Seq(STRING)
        /\ config = Effective(document)
    BY DEF FilterInv, Served
  <2>2. ASSUME NEW n \in SwitchedOff PROVE RuleNumbered[n] # RuleOf(decision)
    <3>1. RuleOf(decision) \in EnabledRules(document.rules)
      BY <2>1, SelectedByEnabled DEF Effective
    <3>. QED  BY <3>1, <2>2 DEF EnabledRules, SwitchedOff
  <2>3. ASSUME RuleOf(decision) \in {"ConsoleV3", "JsBundle", "FrontendIndexJsBundle"}
        PROVE  LET extension == path[Len(BasePath) + 2]
               IN  /\ \A i \in DOMAIN document.disabled :
                         document.disabled[i] # extension
                   /\ \E i \in DOMAIN document.enabled :
                         document.enabled[i] \in {extension, "*"}
    <3>1. ExtensionEnabled(path[Len(BasePath) + 2])
      BY <2>1, <2>3, SelectedExtension
    <3>2. /\ config.enabled_extensions = document.enabled
          /\ config.disabled_extensions = document.disabled
      BY <2>1 DEF Effective
    <3>3. AllExtensions => /\ 1 \in DOMAIN document.enabled
                           /\ document.enabled[1] = "*"
      BY <3>2 DEF AllExtensions
    <3>. QED  BY <3>1, <3>2, <3>3 DEF ExtensionEnabled
  <2>. QED  BY <2>2, <2>3 DEF DecidedByTheDocument
<1>. QED  BY <1>1, FilterInvariant, PTL

(* No listener of a document that is served receives what is meant for      *)
(* another socket, unless one of the two addresses is IPv4-mapped.          *)
THEOREM ListenersApart == Spec => []ListenersKeepApart
<1>1. ASSUME NEW first, NEW second, ~SocketAddrsOverlap(first, second),
             Receives(first, second)
      PROVE  first.ip \in DOMAIN Ipv4Mapped \/ second.ip \in DOMAIN Ipv4Mapped
  BY <1>1 DEF SocketAddrsOverlap, Receives, Destination, Unspecified
<1>2. FilterInv => ListenersKeepApart
  <2>. SUFFICES ASSUME FilterInv, stage = "serving"
                PROVE  ListenersKeepApart
    BY DEF ListenersKeepApart
  <2>1. /\ Refusal(document) = "None"
        /\ config = Effective(document)
    BY DEF FilterInv, Served
  <2>2. PICK upstream \in ParseUpstream(document.upstream) :
               upstream = config.upstream
    BY <2>1 DEF Refusal, Effective
  <2>3. /\ ~SocketAddrsOverlap(config.listen, config.admin_listen)
        /\ ~SocketAddrsOverlap(config.listen, config.upstream)
        /\ ~SocketAddrsOverlap(config.admin_listen, config.upstream)
    BY <2>1, <2>2 DEF Refusal, Effective
  <2>4. ~SocketAddrsOverlap(config.admin_listen, config.listen)
    BY <2>3 DEF SocketAddrsOverlap
  <2>. QED  BY <1>1, <2>3, <2>4 DEF ListenersKeepApart
<1>. QED  BY <1>2, FilterInvariant, PTL
-----------------------------------------------------------------------------
(* Rounds of percent decoding                                              *)

(* One round: f[n] is what the first n segments of p decode to. *)
DecodingAt(p, n, f) == IF n = 0 THEN <<>> ELSE f[n - 1] \o Decoded[p[n]]

IsDecoding(f, p) ==
    /\ f \in [0..Len(p) -> Seq(STRING)]
    /\ f[0] = <<>>
    /\ \A n \in 1..Len(p) : f[n] = f[n - 1] \o Decoded[p[n]]

LEMMA DecodedIs ==
    ASSUME NEW p \in Seq(STRING), ValidEncoding(p), NEW n \in 1..Len(p)
    PROVE  /\ p[n] \in DOMAIN Decoded
           /\ Decoded[p[n]] \in Seq(STRING)
           /\ Len(Decoded[p[n]]) \in Nat /\ Len(Decoded[p[n]]) >= 1
<1>1. n \in DOMAIN p
  OBVIOUS
<1>2. p[n] \in DOMAIN Decoded
  BY <1>1 DEF ValidEncoding
<1>3. Decoded[p[n]] \in Seq(STRING) \ {<<>>}
  BY <1>2, DecodedAssumption
<1>. QED  BY <1>2, <1>3

LEMMA DecodingExists ==
    ASSUME NEW p \in Seq(STRING), ValidEncoding(p)
    PROVE  \E f : IsDecoding(f, p) /\ DecodedOnce(p) = f[Len(p)]
<1>. DEFINE l == Len(p)
            V == Seq(STRING)
            Go == [n \in 1..l |-> [s \in V |-> s \o Decoded[p[n]]]]
<1>1. l \in Nat /\ <<>> \in V
  OBVIOUS
<1>2. ASSUME NEW n \in 1..l, NEW s \in V PROVE s \o Decoded[p[n]] \in V
  <2>1. Decoded[p[n]] \in V
    BY DecodedIs
  <2>. HIDE DEF V
  <2>. QED  BY <2>1 DEF V
<1>3. /\ Go \in [1..l -> [V -> V]]
      /\ \A n \in 1..l : \A s \in V : Go[n][s] = s \o Decoded[p[n]]
  BY <1>2
<1>. HIDE DEF Go
<1>4. PICK f \in [0..l -> V] : f[0] = <<>> /\ \A n \in 1..l : f[n] = Go[n][f[n - 1]]
  <2>0. IsIteration(Go, <<>>, V, l)
    BY <1>1, <1>3 DEF IsIteration
  <2>. HIDE DEF l, V
  <2>1. \E f \in [0..l -> V] : f[0] = <<>> /\ \A n \in 1..l : f[n] = Go[n][f[n - 1]]
    BY ONLY <2>0, Iteration, SMT
  <2>. QED  BY <2>1
<1>5. ASSUME NEW n \in 1..l PROVE f[n] = f[n - 1] \o Decoded[p[n]]
  <2>1. n - 1 \in 0..l
    OBVIOUS
  <2>2. f[n - 1] \in V
    BY <1>4, <2>1
  <2>. QED  BY <1>3, <1>4, <2>2
<1>6. f = [n \in 0..l |-> DecodingAt(p, n, f)]
  <2>1. ASSUME NEW n \in 0..l PROVE f[n] = DecodingAt(p, n, f)
    <3>1. CASE n = 0
      BY <1>4, <3>1 DEF DecodingAt
    <3>2. CASE n # 0
      <4>1. n \in 1..l
        BY <3>2
      <4>. QED  BY <1>5, <3>2, <4>1 DEF DecodingAt
    <3>. QED  BY <3>1, <3>2
  <2>. QED  BY <1>4, <2>1
<1>7. \E g : g = [n \in 0..l |-> DecodingAt(p, n, g)] /\ DecodedOnce(p) = g[l]
  BY <1>6, Zenon DEF DecodedOnce, DecodingAt
<1>8. PICK g : g = [n \in 0..l |-> DecodingAt(p, n, g)] /\ DecodedOnce(p) = g[l]
  BY <1>7
<1>9. \A n \in 0..l : g[n] = DecodingAt(p, n, g)
  BY <1>8
<1>10. g[0] = f[0]
  BY <1>1, <1>4, <1>9 DEF DecodingAt
<1>11. ASSUME NEW n \in 1..l, g[n - 1] = f[n - 1] PROVE g[n] = f[n]
  <2>1. n \in 0..l /\ n # 0
    OBVIOUS
  <2>. QED  BY <1>5, <1>9, <1>11, <2>1 DEF DecodingAt
<1>12. \A n \in 0..l : g[n] = f[n]
  <2>. HIDE DEF l
  <2>1. Alike(g, f, l)
    BY <1>1, <1>10, <1>11 DEF Alike
  <2>. QED  BY ONLY <2>1, SameIteration, Zenon
<1>13. DecodedOnce(p) = f[l]
  BY <1>1, <1>8, <1>12
<1>14. IsDecoding(f, p)
  BY <1>4, <1>5 DEF IsDecoding
<1>. QED  BY <1>13, <1>14
(* Whatever decodes p segment by segment ends with what the code gets. *)
LEMMA DecodingIs ==
    ASSUME NEW p \in Seq(STRING), ValidEncoding(p), NEW g, IsDecoding(g, p)
    PROVE  DecodedOnce(p) = g[Len(p)]
<1>1. PICK f : IsDecoding(f, p) /\ DecodedOnce(p) = f[Len(p)]
  BY DecodingExists
<1>. DEFINE l == Len(p)
<1>2. l \in Nat /\ l \in 0..l
  OBVIOUS
<1>3. /\ f[0] = g[0]
      /\ \A n \in 1..l : f[n - 1] = g[n - 1] => f[n] = g[n]
  BY <1>1 DEF IsDecoding
<1>. HIDE DEF l
<1>4. Alike(f, g, l)
  BY <1>2, <1>3 DEF Alike
<1>5. \A n \in 0..l : f[n] = g[n]
  BY ONLY <1>4, SameIteration, Zenon
<1>. QED  BY <1>1, <1>2, <1>5 DEF l

(* A segment more puts what it decodes to behind the rest. *)
GrowsAt(f, p, n) ==
    /\ f[n - 1] \in Seq(STRING) /\ f[n] \in Seq(STRING)
    /\ Len(f[n]) = Len(f[n - 1]) + Len(Decoded[p[n]])
    /\ \A k \in 1..Len(f[n - 1]) : f[n][k] = f[n - 1][k]
    /\ \A k \in 1..Len(Decoded[p[n]]) : f[n][Len(f[n - 1]) + k] = Decoded[p[n]][k]

LEMMA DecodingGrows ==
    ASSUME NEW p \in Seq(STRING), ValidEncoding(p), NEW f, IsDecoding(f, p),
           NEW n \in 1..Len(p)
    PROVE  GrowsAt(f, p, n)
<1>. DEFINE a == f[n - 1]
            d == Decoded[p[n]]
<1>1. n - 1 \in 0..Len(p) /\ n \in 0..Len(p)
  OBVIOUS
<1>2. a \in Seq(STRING) /\ f[n] \in Seq(STRING) /\ f[n] = a \o d
  BY <1>1 DEF IsDecoding
<1>3. d \in Seq(STRING)
  BY DecodedIs
<1>. HIDE DEF a, d
<1>4. /\ Len(a \o d) = Len(a) + Len(d)
      /\ \A k \in 1..(Len(a) + Len(d)) :
           (a \o d)[k] = IF k <= Len(a) THEN a[k] ELSE d[k - Len(a)]
  BY <1>2, <1>3, ConcatProperties
<1>5. Len(a) \in Nat /\ Len(d) \in Nat
  BY <1>2, <1>3
<1>6. ASSUME NEW k \in 1..Len(a) PROVE (a \o d)[k] = a[k]
  BY <1>4, <1>5
<1>7. ASSUME NEW k \in 1..Len(d) PROVE (a \o d)[Len(a) + k] = d[k]
  <2>1. /\ Len(a) + k \in 1..(Len(a) + Len(d)) /\ ~(Len(a) + k <= Len(a))
        /\ (Len(a) + k) - Len(a) = k
    BY <1>5
  <2>. QED  BY <1>4, <2>1
<1>. QED  BY <1>2, <1>4, <1>6, <1>7 DEF a, d, GrowsAt

(* What the first i segments decode to stays in front, and every further    *)
(* segment adds one or more.                                                *)
LEMMA DecodingStays ==
    ASSUME NEW p \in Seq(STRING), ValidEncoding(p), NEW f, IsDecoding(f, p),
           NEW i \in 0..Len(p), NEW n \in i..Len(p)
    PROVE  /\ f[i] \in Seq(STRING) /\ f[n] \in Seq(STRING)
           /\ Len(f[n]) >= Len(f[i]) + (n - i)
           /\ \A k \in 1..Len(f[i]) : f[n][k] = f[i][k]
<1>. DEFINE l == Len(p)
            Stays(m) == /\ Len(f[m]) >= Len(f[i]) + (m - i)
                        /\ \A k \in 1..Len(f[i]) : f[m][k] = f[i][k]
            T == {m \in Nat : i + m =< l => Stays(i + m)}
<1>1. l \in Nat /\ i \in Nat /\ i =< l /\ \A m \in 0..l : f[m] \in Seq(STRING)
  BY DEF IsDecoding
<1>2. 0 \in T
  <2>1. Stays(i)
    <3>1. f[i] \in Seq(STRING)
      BY <1>1
    <3>2. Len(f[i]) \in Nat /\ i - i = 0
      BY <1>1, <3>1
    <3>. QED  BY <3>2
  <2>2. i + 0 = i
    BY <1>1
  <2>. HIDE DEF Stays
  <2>. QED  BY <2>1, <2>2
<1>3. ASSUME NEW m \in Nat, m \in T PROVE m + 1 \in T
  <2>1. ASSUME i + (m + 1) =< l PROVE Stays(i + (m + 1))
    <3>. DEFINE j == i + (m + 1)
    <3>1. /\ j \in 1..l /\ j - 1 = i + m /\ j \in Nat /\ i + m =< l /\ i + m \in 0..l
          /\ j - i = m + 1
      BY <1>1, <2>1
    <3>2. Stays(i + m)
      BY <1>3, <3>1
    <3>3. /\ f[j] \in Seq(STRING) /\ f[i + m] \in Seq(STRING)
          /\ Len(f[j]) = Len(f[i + m]) + Len(Decoded[p[j]])
          /\ \A k \in 1..Len(f[i + m]) : f[j][k] = f[i + m][k]
      <4>1. j \in 1..Len(p)
        BY <3>1
      <4>. HIDE DEF j
      <4>2. /\ f[j - 1] \in Seq(STRING) /\ f[j] \in Seq(STRING)
            /\ Len(f[j]) = Len(f[j - 1]) + Len(Decoded[p[j]])
            /\ \A k \in 1..Len(f[j - 1]) : f[j][k] = f[j - 1][k]
        <5>1. GrowsAt(f, p, j)
          BY <4>1, DecodingGrows
        <5>. QED  BY <5>1 DEF GrowsAt
      <4>. QED  BY <3>1, <4>2
    <3>4. Len(Decoded[p[j]]) \in Nat /\ Len(Decoded[p[j]]) >= 1
      BY <3>1, DecodedIs
    <3>. HIDE DEF j
    <3>5. Len(f[i]) \in Nat /\ Len(f[i + m]) \in Nat /\ (i + m) - i = m
      BY <1>1, <3>1
    <3>6. Len(f[j]) >= Len(f[i]) + (j - i)
      <4>1. Len(f[i + m]) >= Len(f[i]) + m
        BY <3>2, <3>5
      <4>2. Len(f[j]) = Len(f[i + m]) + Len(Decoded[p[j]]) /\ m \in Nat
        BY <3>3
      <4>. DEFINE x == Len(f[i])
                  y == Len(f[i + m])
                  z == Len(f[j])
                  w == Len(Decoded[p[j]])
      <4>3. /\ x \in Nat /\ y \in Nat /\ w \in Nat /\ w >= 1 /\ m \in Nat
            /\ y >= x + m /\ z = y + w /\ j - i = m + 1
        BY <3>1, <3>4, <3>5, <4>1, <4>2
      <4>. HIDE DEF x, y, z, w
      <4>4. z >= x + (m + 1)
        BY ONLY <4>3
      <4>. QED  BY <4>3, <4>4 DEF x, z
    <3>7. ASSUME NEW k \in 1..Len(f[i]) PROVE f[j][k] = f[i][k]
      <4>1. k \in 1..Len(f[i + m])
        BY <3>2, <3>5
      <4>. QED  BY <3>2, <3>3, <4>1
    <3>. QED  BY <3>6, <3>7 DEF j
  <2>. HIDE DEF Stays
  <2>. QED  BY <2>1
<1>4. Nat \subseteq T
  <2>. HIDE DEF T
  <2>. QED  BY <1>2, <1>3, SetInduction
<1>5. n - i \in Nat /\ i + (n - i) = n /\ n =< l /\ n \in 0..l
  BY <1>1
<1>6. Stays(n)
  <2>. HIDE DEF Stays
  <2>. QED  BY <1>4, <1>5
<1>. QED  BY <1>1, <1>5, <1>6

(* What a segment decodes to is in the decoded path, no nearer to its ends  *)
(* than the segment was.                                                    *)
LEMMA SegmentStays ==
    ASSUME NEW p \in Seq(STRING), ValidEncoding(p), NEW i \in 1..Len(p)
    PROVE  \E m \in Nat :
             /\ m >= i - 1
             /\ m + Len(Decoded[p[i]]) + (Len(p) - i) =< Len(DecodedOnce(p))
             /\ \A k \in 1..Len(Decoded[p[i]]) : DecodedOnce(p)[m + k] = Decoded[p[i]][k]
<1>. DEFINE d == Decoded[p[i]]
            l == Len(p)
<1>1. PICK f : IsDecoding(f, p) /\ DecodedOnce(p) = f[l]
  BY DecodingExists
<1>2. /\ l \in Nat /\ i \in Nat /\ 1 =< i /\ i =< l
      /\ i \in 0..l /\ l \in i..l /\ 0 \in 0..l /\ i - 1 \in 0..l
  OBVIOUS
<1>. DEFINE m == Len(f[i - 1])
<1>3. /\ f[i - 1] \in Seq(STRING) /\ Len(f[i - 1]) >= Len(f[0]) + ((i - 1) - 0)
  <2>1. i - 1 \in 0..Len(p) /\ 0 \in 0..Len(p)
    BY <1>2
  <2>. QED  BY <1>1, <2>1, DecodingStays
<1>4. Len(f[0]) = 0
  BY <1>1 DEF IsDecoding
<1>5. m \in Nat /\ m >= i - 1
  BY <1>2, <1>3, <1>4
<1>6. /\ f[i] \in Seq(STRING) /\ Len(f[i]) = m + Len(d)
      /\ \A k \in 1..Len(d) : f[i][m + k] = d[k]
  <2>1. i \in 1..Len(p)
    OBVIOUS
  <2>. HIDE DEF l
  <2>2. GrowsAt(f, p, i)
    BY <1>1, <2>1, DecodingGrows
  <2>. QED  BY <2>2 DEF GrowsAt
<1>7. /\ f[l] \in Seq(STRING) /\ Len(f[l]) >= Len(f[i]) + (l - i)
      /\ \A k \in 1..Len(f[i]) : f[l][k] = f[i][k]
  BY <1>1, <1>2, DecodingStays
<1>8. Len(d) \in Nat /\ Len(f[l]) \in Nat
  BY <1>7, DecodedIs
<1>. HIDE DEF m, d, l
<1>9. m + Len(d) + (l - i) =< Len(f[l])
  BY <1>2, <1>5, <1>6, <1>7, <1>8
<1>10. ASSUME NEW k \in 1..Len(d) PROVE f[l][m + k] = d[k]
  <2>1. m + k \in 1..Len(f[i])
    BY <1>5, <1>6, <1>8
  <2>. QED  BY <1>6, <1>7, <2>1
<1>. QED  BY <1>1, <1>5, <1>9, <1>10 DEF d, l

LEMMA DecodedOnceType ==
    ASSUME NEW p \in Seq(STRING), ValidEncoding(p)
    PROVE  DecodedOnce(p) \in Seq(STRING)
<1>1. Len(p) \in 0..Len(p)
  OBVIOUS
<1>2. PICK f : IsDecoding(f, p) /\ DecodedOnce(p) = f[Len(p)]
  BY DecodingExists
<1>3. f[Len(p)] \in Seq(STRING)
  BY <1>1, <1>2 DEF IsDecoding
<1>. QED  BY <1>2, <1>3

(* What the check of the base path refuses stays visible in every further   *)
(* round of decoding.                                                       *)
IsClean(p) == ~HasDotSegment(p) /\ ~HasEmptySegment(p) /\ ~HasForbidden(p)

LEMMA CleanBefore ==
    ASSUME NEW p \in Seq(STRING), ValidEncoding(p), IsClean(DecodedOnce(p))
    PROVE  IsClean(p)
<1>. DEFINE q == DecodedOnce(p)
<1>0. /\ q \in Seq(STRING) /\ Len(q) \in Nat /\ Len(p) \in Nat
      /\ DOMAIN p = 1..Len(p) /\ DOMAIN q = 1..Len(q)
  BY DecodedOnceType
<1>1. ASSUME NEW i \in DOMAIN p
      PROVE  /\ i \in 1..Len(p)
             /\ p[i] \in DOMAIN Decoded
             /\ Len(Decoded[p[i]]) \in Nat /\ Len(Decoded[p[i]]) >= 1
             /\ \E m \in Nat :
                  /\ m >= i - 1
                  /\ m + Len(Decoded[p[i]]) + (Len(p) - i) =< Len(q)
                  /\ \A k \in 1..Len(Decoded[p[i]]) : q[m + k] = Decoded[p[i]][k]
  <2>1. i \in 1..Len(p)
    OBVIOUS
  <2>. QED  BY <2>1, DecodedIs, SegmentStays
<1>. HIDE DEF q
<1>2. ASSUME NEW i \in DOMAIN p, Decoded[p[i]] = <<p[i]>>
      PROVE  \E m \in i..Len(q) : m + (Len(p) - i) =< Len(q) /\ q[m] = p[i]
  <2>1. PICK m \in Nat :
               /\ m >= i - 1
               /\ m + 1 + (Len(p) - i) =< Len(q)
               /\ q[m + 1] = p[i]
    <3>. DEFINE d == Decoded[p[i]]
    <3>1. PICK m \in Nat :
                 /\ m >= i - 1
                 /\ m + Len(d) + (Len(p) - i) =< Len(q)
                 /\ \A k \in 1..Len(d) : q[m + k] = d[k]
      BY <1>1, Zenon
    <3>2. Len(d) = 1 /\ d[1] = p[i]
      BY <1>2
    <3>. HIDE DEF d
    <3>. QED  BY <3>1, <3>2
  <2>2. i \in Nat /\ i =< Len(p)
    <3>1. i \in 1..Len(p)
      BY <1>1
    <3>. QED  BY <1>0, <3>1
  <2>3. m + 1 \in i..Len(q) /\ m + 1 + (Len(p) - i) =< Len(q)
    <3>1. Len(q) \in Nat /\ Len(p) \in Nat
      BY <1>0
    <3>. QED  BY ONLY <2>1, <2>2, <3>1
  <2>. QED  BY <2>1, <2>3
<1>3. ~HasDotSegment(p)
  <2>. SUFFICES ASSUME NEW i \in DOMAIN p, p[i] \in {".", ".."} PROVE FALSE
    BY DEF HasDotSegment
  <2>1. Decoded[p[i]] = <<p[i]>>
    BY DecodedAssumption
  <2>2. PICK m \in i..Len(q) : q[m] = p[i]
    BY <1>2, <2>1
  <2>3. m \in DOMAIN q
    BY <1>0, <1>1, <2>2
  <2>. QED  BY <2>2, <2>3 DEF IsClean, HasDotSegment, q
<1>4. ~HasEmptySegment(p)
  <2>. SUFFICES ASSUME NEW i, i \in 2..(Len(p) - 1), p[i] = "" PROVE FALSE
    BY DEF HasEmptySegment
  <2>0. i \in DOMAIN p /\ i \in 1..Len(p) /\ i =< Len(p) - 1 /\ i >= 2
        /\ i \in Nat
    BY ONLY <1>0, i \in 2..(Len(p) - 1)
  <2>1. Decoded[p[i]] = <<p[i]>>
    BY DecodedAssumption
  <2>2. PICK m \in i..Len(q) : m + (Len(p) - i) =< Len(q) /\ q[m] = p[i]
    BY <1>2, <2>0, <2>1
  <2>3. m \in 2..(Len(q) - 1)
    <3>1. Len(q) \in Nat /\ Len(p) \in Nat /\ i \in Nat
      BY <1>0, <2>0
    <3>. QED  BY ONLY <2>0, <2>2, <3>1
  <2>. QED  BY <2>2, <2>3 DEF IsClean, HasEmptySegment, q
<1>5. ~HasForbidden(p)
  <2>. SUFFICES ASSUME NEW i \in DOMAIN p, p[i] \in Forbidden PROVE FALSE
    BY DEF HasForbidden
  <2>1. p[i] \in DOMAIN Decoded /\ Decoded[p[i]] \in Seq(STRING)
    BY <1>1, DecodedIs
  <2>2. PICK k \in DOMAIN Decoded[p[i]] : Decoded[p[i]][k] \in Forbidden
    BY <2>1, DecodedAssumption
  <2>3. k \in 1..Len(Decoded[p[i]])
    BY <2>1, <2>2
  <2>4. PICK m \in Nat :
               /\ m >= i - 1
               /\ m + Len(Decoded[p[i]]) + (Len(p) - i) =< Len(q)
               /\ q[m + k] = Decoded[p[i]][k]
    BY <1>1, <2>3
  <2>5. m + k \in DOMAIN q
    BY <1>0, <1>1, <2>3, <2>4
  <2>. QED  BY <2>2, <2>4, <2>5 DEF IsClean, HasForbidden, q
<1>. QED  BY <1>3, <1>4, <1>5 DEF IsClean
(* The paths c[0], c[1], ... that the rounds of decoding go through from p. *)
IsRounds(c, p) ==
    /\ c \in [0..MaxBasePathLength -> Seq(STRING)]
    /\ c[0] = p
    /\ \A n \in 1..MaxBasePathLength :
         ValidEncoding(c[n - 1]) /\ c[n] = DecodedOnce(c[n - 1])

AfterAt(p, n, f) ==
    IF n = 0 THEN {p} ELSE {DecodedOnce(q) : q \in {r \in f[n - 1] : ValidEncoding(r)}}

(* The sets that DecodeRepeatedly is defined by. *)
LEMMA AfterExists ==
    ASSUME NEW p \in Seq(STRING)
    PROVE  \E f \in [0..MaxBasePathLength -> SUBSET Seq(STRING)] :
             /\ \A n \in 0..MaxBasePathLength : f[n] = AfterAt(p, n, f)
             /\ DecodeRepeatedly(p) = f[MaxBasePathLength]
<1>. DEFINE l == MaxBasePathLength
            V == SUBSET Seq(STRING)
            Onward(X) == {DecodedOnce(q) : q \in {r \in X : ValidEncoding(r)}}
            Go == [n \in 1..l |-> [X \in V |-> Onward(X)]]
<1>1. l \in Nat /\ {p} \in V
  BY LengthAssumption
<1>2. ASSUME NEW X \in V PROVE Onward(X) \in V
  BY DecodedOnceType
<1>3. ASSUME NEW n \in 1..l, NEW g PROVE AfterAt(p, n, g) = Onward(g[n - 1])
  BY DEF AfterAt
<1>. HIDE DEF Onward
<1>4. /\ Go \in [1..l -> [V -> V]]
      /\ \A n \in 1..l : \A X \in V : Go[n][X] = Onward(X)
  BY <1>2
<1>. HIDE DEF Go
<1>5. PICK f \in [0..l -> V] : f[0] = {p} /\ \A n \in 1..l : f[n] = Go[n][f[n - 1]]
  <2>0. IsIteration(Go, {p}, V, l)
    BY <1>1, <1>4 DEF IsIteration
  <2>. HIDE DEF l, V
  <2>1. \E f \in [0..l -> V] : f[0] = {p} /\ \A n \in 1..l : f[n] = Go[n][f[n - 1]]
    BY ONLY <2>0, Iteration, SMT
  <2>. QED  BY <2>1
<1>. HIDE DEF V
<1>6. ASSUME NEW n \in 0..l PROVE f[n] = AfterAt(p, n, f)
  <2>1. CASE n = 0
    BY <1>5, <2>1 DEF AfterAt
  <2>2. CASE n # 0
    <3>1. n \in 1..l /\ n - 1 \in 0..l
      BY <1>1, <2>2
    <3>2. f[n - 1] \in V
      BY <1>5, <3>1
    <3>3. f[n] = Onward(f[n - 1])
      BY <1>4, <1>5, <3>1, <3>2
    <3>. QED  BY <1>3, <3>1, <3>3
  <2>. QED  BY <2>1, <2>2
<1>7. f = [n \in 0..l |-> AfterAt(p, n, f)]
  BY <1>5, <1>6
<1>8. \E g : g = [n \in 0..l |-> AfterAt(p, n, g)] /\ DecodeRepeatedly(p) = g[l]
  BY <1>7, Zenon DEF DecodeRepeatedly, AfterAt
<1>9. PICK g : g = [n \in 0..l |-> AfterAt(p, n, g)] /\ DecodeRepeatedly(p) = g[l]
  BY <1>8
<1>10. \A n \in 0..l : g[n] = AfterAt(p, n, g)
  BY <1>9
<1>11. g[0] = f[0]
  <2>1. AfterAt(p, 0, g) = {p}
    BY Zenon DEF AfterAt
  <2>2. 0 \in 0..l
    BY <1>1
  <2>. QED  BY <1>5, <1>10, <2>1, <2>2
<1>12. ASSUME NEW n \in 1..l, g[n - 1] = f[n - 1] PROVE g[n] = f[n]
  <2>1. n \in 0..l /\ n # 0
    BY <1>1
  <2>. QED  BY <1>3, <1>6, <1>10, <1>12, <2>1
<1>13. \A n \in 0..l : g[n] = f[n]
  <2>. HIDE DEF l
  <2>1. Alike(g, f, l)
    BY <1>1, <1>11, <1>12 DEF Alike
  <2>. QED  BY ONLY <2>1, SameIteration, Zenon
<1>14. f \in [0..l -> V] /\ \A n \in 0..l : f[n] = AfterAt(p, n, f)
  BY <1>5, <1>6
<1>15. DecodeRepeatedly(p) = f[l]
  <2>1. l \in 0..l
    BY <1>1
  <2>. QED  BY <1>9, <1>13, <2>1
<1>. QED  BY <1>14, <1>15, Zenon DEF V

(* What is decoded repeatedly has gone through rounds of valid paths. *)
LEMMA RoundsExist ==
    ASSUME NEW p \in Seq(STRING), NEW q \in DecodeRepeatedly(p)
    PROVE  \E c : IsRounds(c, p) /\ q = c[MaxBasePathLength]
<1>. DEFINE l == MaxBasePathLength
            Rounds(n, c) == /\ c \in [0..l -> Seq(STRING)]
                            /\ c[0] = p
                            /\ \A m \in 1..n :
                                 ValidEncoding(c[m - 1]) /\ c[m] = DecodedOnce(c[m - 1])
<1>1. l \in Nat
  BY LengthAssumption
<1>2. PICK f \in [0..l -> SUBSET Seq(STRING)] :
             /\ \A n \in 0..l : f[n] = AfterAt(p, n, f)
             /\ DecodeRepeatedly(p) = f[l]
  BY AfterExists
<1>. DEFINE T == {n \in Nat : n =< l => \A r \in f[n] : \E c : Rounds(n, c) /\ c[n] = r}
<1>3. 0 \in T
  <2>1. f[0] = {p}
    BY <1>1, <1>2 DEF AfterAt
  <2>. DEFINE c == [n \in 0..l |-> p]
  <2>2. c \in [0..l -> Seq(STRING)] /\ c[0] = p
    BY <1>1
  <2>. HIDE DEF c
  <2>3. Rounds(0, c)
    BY <2>2
  <2>. HIDE DEF Rounds
  <2>. QED  BY <2>1, <2>2, <2>3
<1>4. ASSUME NEW n \in Nat, n \in T PROVE n + 1 \in T
  <2>1. ASSUME n + 1 =< l, NEW r \in f[n + 1]
        PROVE  \E c : Rounds(n + 1, c) /\ c[n + 1] = r
    <3>0. n =< l /\ n + 1 \in 0..l /\ n \in 0..l /\ n + 1 # 0 /\ (n + 1) - 1 = n
      BY <1>1, <2>1
    <3>1. f[n + 1] = {DecodedOnce(s) : s \in {t \in f[n] : ValidEncoding(t)}}
      BY <1>2, <3>0 DEF AfterAt
    <3>2. PICK s \in f[n] : ValidEncoding(s) /\ r = DecodedOnce(s)
      BY <2>1, <3>1
    <3>3. PICK b : Rounds(n, b) /\ b[n] = s
      <4>. HIDE DEF Rounds
      <4>. QED  BY <1>4, <3>0, <3>2
    <3>4. r \in Seq(STRING)
      BY <1>2, <2>1, <3>0
    <3>. DEFINE c == [m \in 0..l |-> IF m = n + 1 THEN r ELSE b[m]]
    <3>5. /\ c \in [0..l -> Seq(STRING)]
          /\ \A m \in 0..l : m # n + 1 => c[m] = b[m]
          /\ c[n + 1] = r
      BY <3>0, <3>3, <3>4
    <3>. HIDE DEF c
    <3>6. c[0] = p
      BY <1>1, <3>3, <3>5
    <3>7. ASSUME NEW m \in 1..(n + 1)
          PROVE  ValidEncoding(c[m - 1]) /\ c[m] = DecodedOnce(c[m - 1])
      <4>1. m - 1 \in 0..l /\ m \in 0..l /\ m - 1 # n + 1
        BY <1>1, <3>0
      <4>2. CASE m = n + 1
        BY <3>0, <3>2, <3>3, <3>5, <4>1, <4>2
      <4>3. CASE m # n + 1
        <5>1. m \in 1..n
          BY <4>3
        <5>. QED  BY <3>3, <3>5, <4>1, <4>3, <5>1
      <4>. QED  BY <4>2, <4>3
    <3>8. Rounds(n + 1, c)
      BY <3>5, <3>6, <3>7
    <3>. HIDE DEF Rounds
    <3>. QED  BY <3>5, <3>8
  <2>. HIDE DEF Rounds
  <2>. QED  BY <2>1
<1>5. Nat \subseteq T
  <2>. HIDE DEF T
  <2>. QED  BY <1>3, <1>4, SetInduction
<1>6. PICK c : Rounds(l, c) /\ c[l] = q
  <2>. HIDE DEF Rounds
  <2>. QED  BY <1>1, <1>2, <1>5
<1>7. IsRounds(c, p)
  BY <1>6 DEF IsRounds
<1>. QED  BY <1>6, <1>7

(* A clean end makes every round clean. *)
LEMMA RoundsClean ==
    ASSUME NEW p, NEW c, IsRounds(c, p), IsClean(c[MaxBasePathLength]),
           NEW n \in 0..MaxBasePathLength
    PROVE  IsClean(c[n])
<1>. DEFINE l == MaxBasePathLength
            S == {m \in 0..l : IsClean(c[m])}
<1>1. l \in Nat
  BY LengthAssumption
<1>2. ASSUME NEW m \in 0..l, \A k \in (m + 1)..l : k \in S PROVE m \in S
  <2>1. CASE m = l
    BY <2>1
  <2>2. CASE m # l
    <3>1. m + 1 \in (m + 1)..l /\ m + 1 \in 1..l /\ (m + 1) - 1 = m
      BY <1>1, <2>2
    <3>2. IsClean(c[m + 1])
      BY <1>2, <3>1
    <3>3. c[m] \in Seq(STRING) /\ ValidEncoding(c[m]) /\ c[m + 1] = DecodedOnce(c[m])
      BY <3>1 DEF IsRounds
    <3>. QED  BY <3>2, <3>3, CleanBefore
  <2>. QED  BY <2>1, <2>2
<1>3. 0..l \subseteq S
  <2>. HIDE DEF S, l
  <2>. QED  BY <1>1, <1>2, DownwardInduction
<1>. QED  BY <1>3

(* Decoding a path that the rounds go through is what DecodedTimes says. *)
TimesAt(p, n, f) == IF n = 0 THEN p ELSE DecodedOnce(f[n - 1])

LEMMA DecodedTimesIs ==
    ASSUME NEW p, NEW c, IsRounds(c, p), NEW n \in 0..MaxBasePathLength
    PROVE  DecodedTimes(p)[n] = c[n]
<1>. DEFINE l == MaxBasePathLength
<1>1. l \in Nat
  BY LengthAssumption
<1>2. ASSUME NEW m \in 0..l PROVE c[m] = TimesAt(p, m, c)
  <2>1. CASE m = 0
    BY <2>1 DEF IsRounds, TimesAt
  <2>2. CASE m # 0
    <3>1. m \in 1..l
      BY <1>1, <2>2
    <3>. QED  BY <2>2, <3>1 DEF IsRounds, TimesAt
  <2>. QED  BY <2>1, <2>2
<1>3. c = [m \in 0..l |-> TimesAt(p, m, c)]
  <2>1. c = [m \in 0..l |-> c[m]]
    BY DEF IsRounds
  <2>. QED  BY <1>2, <2>1
<1>4. \E g : g = [m \in 0..l |-> TimesAt(p, m, g)] /\ DecodedTimes(p) = g
  BY <1>3, Zenon DEF DecodedTimes, TimesAt
<1>5. PICK g : g = [m \in 0..l |-> TimesAt(p, m, g)] /\ DecodedTimes(p) = g
  BY <1>4
<1>6. \A m \in 0..l : g[m] = TimesAt(p, m, g)
  BY <1>5
<1>7. g[0] = c[0]
  BY <1>1, <1>2, <1>6 DEF TimesAt
<1>8. ASSUME NEW m \in 1..l, g[m - 1] = c[m - 1] PROVE g[m] = c[m]
  <2>1. m \in 0..l /\ m # 0
    BY <1>1
  <2>. QED  BY <1>2, <1>6, <1>8, <2>1 DEF TimesAt
<1>9. \A m \in 0..l : g[m] = c[m]
  <2>. HIDE DEF l
  <2>1. Alike(g, c, l)
    BY <1>1, <1>7, <1>8 DEF Alike
  <2>. QED  BY ONLY <2>1, SameIteration, Zenon
<1>. QED  BY <1>5, <1>9
LEMMA Singleton ==
    ASSUME NEW S, NEW x \in S
    PROVE  <<x>> \in Seq(S) /\ Len(<<x>>) = 1 /\ <<x>>[1] = x
OBVIOUS

LEMMA PutBehind ==
    ASSUME NEW S, NEW u \in Seq(S), NEW x \in S
    PROVE  /\ Len(u) \in Nat /\ DOMAIN u = 1..Len(u)
           /\ u \o <<x>> \in Seq(S) /\ Len(u \o <<x>>) = Len(u) + 1
           /\ DOMAIN (u \o <<x>>) = 1..(Len(u) + 1)
           /\ \A i \in 1..Len(u) : (u \o <<x>>)[i] = u[i]
           /\ (u \o <<x>>)[Len(u) + 1] = x
OBVIOUS

\* What q is, when it is u with x behind it.
IsBehind(q, u, x) ==
    /\ Len(u) \in Nat /\ DOMAIN u = 1..Len(u)
    /\ Len(q) = Len(u) + 1 /\ DOMAIN q = 1..(Len(u) + 1)
    /\ \A i \in 1..Len(u) : q[i] = u[i]
    /\ q[Len(u) + 1] = x

LEMMA SegmentBehind ==
    ASSUME NEW S, NEW u, NEW x, u \in Seq(S), x \in S
    PROVE  IsBehind(u \o <<x>>, u, x)
BY PutBehind DEF IsBehind

(* A last segment that decodes to itself stays the last one. *)
Unescaped == {s \in STRING \cap DOMAIN Decoded : Decoded[s] = <<s>>}

LEMMA DecodedBehind ==
    ASSUME NEW e \in Unescaped, NEW t \in Seq(STRING), ValidEncoding(t \o <<e>>)
    PROVE  ValidEncoding(t) /\ DecodedOnce(t \o <<e>>) = DecodedOnce(t) \o <<e>>
<1>. DEFINE p == t \o <<e>>
            l == Len(t)
<1>1. /\ p \in Seq(STRING) /\ l \in Nat /\ Len(p) = l + 1
      /\ p[l + 1] = e /\ \A i \in 1..l : p[i] = t[i]
  <2>1. <<e>> \in Seq(STRING) /\ Len(<<e>>) = 1 /\ <<e>>[1] = e
    <3>1. e \in STRING
      BY DEF Unescaped
    <3>. QED  BY <3>1, Singleton
  <2>2. /\ Len(p) = l + 1
        /\ \A i \in 1..(l + 1) : p[i] = IF i <= l THEN t[i] ELSE <<e>>[i - l]
    BY <2>1, ConcatProperties
  <2>3. p \in Seq(STRING) /\ l \in Nat
    BY <2>1
  <2>4. p[l + 1] = <<e>>[(l + 1) - l]
    BY <2>2, <2>3
  <2>5. \A i \in 1..l : p[i] = t[i]
    BY <2>2, <2>3
  <2>. QED  BY <2>1, <2>2, <2>3, <2>4, <2>5
<1>2. ValidEncoding(p)
  OBVIOUS
<1>. HIDE DEF p, l
<1>3. ValidEncoding(t)
  <2>. SUFFICES ASSUME NEW i \in DOMAIN t PROVE t[i] \in DOMAIN Decoded
    BY DEF ValidEncoding
  <2>1. i \in 1..l /\ i \in 1..Len(p)
    BY <1>1 DEF l
  <2>. QED  BY <1>1, <1>2, <2>1, DecodedIs
<1>4. PICK f : IsDecoding(f, p) /\ DecodedOnce(p) = f[l + 1]
  BY <1>1, <1>2, DecodingExists
<1>. DEFINE g == [n \in 0..l |-> f[n]]
<1>5. /\ g \in [0..l -> Seq(STRING)]
      /\ g[0] = <<>>
      /\ \A n \in 1..l : g[n] = g[n - 1] \o Decoded[t[n]]
  <2>1. ASSUME NEW n \in 0..l PROVE f[n] \in Seq(STRING)
    <3>1. n \in 0..Len(p)
      BY <1>1
    <3>. QED  BY <1>4, <3>1 DEF IsDecoding
  <2>2. g[0] = <<>>
    BY <1>1, <1>4 DEF IsDecoding
  <2>3. ASSUME NEW n \in 1..l PROVE g[n] = g[n - 1] \o Decoded[t[n]]
    <3>1. n \in 1..Len(p) /\ n \in 0..l /\ n - 1 \in 0..l
      BY <1>1
    <3>2. f[n] = f[n - 1] \o Decoded[p[n]] /\ p[n] = t[n]
      BY <1>1, <1>4, <3>1 DEF IsDecoding
    <3>. QED  BY <3>1, <3>2
  <2>. QED  BY <2>1, <2>2, <2>3
<1>6. g[l] = f[l]
  BY <1>1
<1>. HIDE DEF g
<1>7. IsDecoding(g, t)
  BY <1>5 DEF IsDecoding, l
<1>8. DecodedOnce(t) = f[l]
  BY <1>3, <1>6, <1>7, DecodingIs DEF l
<1>9. f[l + 1] = f[l] \o <<e>>
  <2>1. l + 1 \in 1..Len(p) /\ (l + 1) - 1 = l
    BY <1>1
  <2>2. f[l + 1] = f[(l + 1) - 1] \o Decoded[p[l + 1]]
    BY <1>4, <2>1 DEF IsDecoding
  <2>3. Decoded[p[l + 1]] = <<e>>
    BY <1>1 DEF Unescaped
  <2>. QED  BY <2>1, <2>2, <2>3
<1>. QED  BY <1>3, <1>4, <1>8, <1>9 DEF p

(* So do the rounds. *)
Behind(c, d, e) == \A n \in 0..MaxBasePathLength : c[n] = d[n] \o <<e>>

LEMMA RoundsBehind ==
    ASSUME NEW e \in Unescaped, NEW t \in Seq(STRING), NEW c, NEW p,
           p = t \o <<e>>, IsRounds(c, p)
    PROVE  \E d : IsRounds(d, t) /\ Behind(c, d, e)
<1>. DEFINE l == MaxBasePathLength
            V == Seq(STRING)
<1>1. l \in Nat
  BY LengthAssumption
<1>. DEFINE T == {n \in Nat : n =< l => \E u \in V : c[n] = u \o <<e>>}
<1>2. 0 \in T
  BY DEF IsRounds
<1>3. ASSUME NEW n \in Nat, n \in T PROVE n + 1 \in T
  <2>1. ASSUME n + 1 =< l PROVE \E u \in V : c[n + 1] = u \o <<e>>
    <3>1. n =< l /\ n + 1 \in 1..l /\ (n + 1) - 1 = n
      BY <1>1, <2>1
    <3>2. PICK u \in V : c[n] = u \o <<e>>
      BY <1>3, <3>1
    <3>3. ValidEncoding(c[n]) /\ c[n + 1] = DecodedOnce(c[n])
      BY <3>1 DEF IsRounds
    <3>4. ValidEncoding(u) /\ DecodedOnce(u \o <<e>>) = DecodedOnce(u) \o <<e>>
      BY <3>2, <3>3, DecodedBehind
    <3>5. DecodedOnce(u) \in V
      BY <3>4, DecodedOnceType
    <3>. QED  BY <3>2, <3>3, <3>4, <3>5
  <2>2. n + 1 \in Nat
    OBVIOUS
  <2>. QED  BY ONLY <2>1, <2>2, Zenon
<1>4. Nat \subseteq T
  <2>. HIDE DEF T
  <2>. QED  BY <1>2, <1>3, SetInduction
<1>5. ASSUME NEW n \in 0..l PROVE \E u \in V : c[n] = u \o <<e>>
  <2>1. n \in Nat /\ n =< l
    BY <1>1
  <2>2. n \in T
    BY <1>4, <2>1
  <2>. QED  BY <2>1, <2>2
<1>. DEFINE d == [n \in 0..l |-> CHOOSE u \in V : c[n] = u \o <<e>>]
<1>6. d \in [0..l -> V] /\ \A n \in 0..l : c[n] = d[n] \o <<e>>
  BY <1>5
<1>. HIDE DEF d, T
<1>7. ASSUME NEW u \in V, NEW v \in V, u \o <<e>> = v \o <<e>> PROVE u = v
  <2>1. <<e>> \in V /\ <<e>> \in Seq(STRING)
    <3>1. e \in STRING
      BY DEF Unescaped
    <3>. QED  BY <3>1, Singleton
  <2>2. /\ Len(u \o <<e>>) = Len(u) + 1 /\ Len(v \o <<e>>) = Len(v) + 1
        /\ \A i \in 1..Len(u) : (u \o <<e>>)[i] = u[i]
        /\ \A i \in 1..Len(v) : (v \o <<e>>)[i] = v[i]
    BY <2>1
  <2>3. Len(u) = Len(v)
    BY <1>7, <2>2
  <2>4. \A i \in 1..Len(u) : u[i] = v[i]
    BY <1>7, <2>2, <2>3
  <2>. QED  BY <2>3, <2>4, SeqEqual
<1>8. d[0] = t
  <2>1. d[0] \in V /\ c[0] = d[0] \o <<e>> /\ c[0] = t \o <<e>>
    <3>1. 0 \in 0..l
      BY <1>1
    <3>2. c[0] = t \o <<e>>
      BY DEF IsRounds
    <3>. QED  BY <1>6, <3>1, <3>2
  <2>. QED  BY <1>7, <2>1
<1>9. ASSUME NEW n \in 1..l
      PROVE  ValidEncoding(d[n - 1]) /\ d[n] = DecodedOnce(d[n - 1])
  <2>1. n \in 0..l /\ n - 1 \in 0..l
    BY <1>1
  <2>2. /\ d[n] \in V /\ c[n] = d[n] \o <<e>>
        /\ d[n - 1] \in V /\ c[n - 1] = d[n - 1] \o <<e>>
    BY <1>6, <2>1
  <2>3. ValidEncoding(c[n - 1]) /\ c[n] = DecodedOnce(c[n - 1])
    BY DEF IsRounds
  <2>4. /\ ValidEncoding(d[n - 1])
        /\ DecodedOnce(c[n - 1]) = DecodedOnce(d[n - 1]) \o <<e>>
    BY <2>2, <2>3, DecodedBehind
  <2>5. DecodedOnce(d[n - 1]) \in V
    BY <2>2, <2>4, DecodedOnceType
  <2>. QED  BY <1>7, <2>2, <2>3, <2>4, <2>5
<1>10. IsRounds(d, t)
  BY <1>6, <1>8, <1>9 DEF IsRounds
<1>. QED  BY <1>6, <1>10 DEF Behind

(* A path is clean without its last segment if it is clean with it. *)
LEMMA CleanInFront ==
    ASSUME NEW e \in STRING, NEW t \in Seq(STRING), IsClean(t \o <<e>>)
    PROVE  IsClean(t)
<1>. DEFINE p == t \o <<e>>
            l == Len(t)
<1>1. /\ l \in Nat /\ Len(p) = l + 1 /\ DOMAIN p = 1..(l + 1) /\ DOMAIN t = 1..l
      /\ \A i \in 1..l : p[i] = t[i]
  OBVIOUS
<1>2. IsClean(p)
  OBVIOUS
<1>. HIDE DEF p, l
<1>3. \A i \in 1..l : i \in 1..(l + 1)
  BY <1>1
<1>4. ~HasDotSegment(t)
  BY <1>1, <1>2, <1>3 DEF IsClean, HasDotSegment
<1>5. ~HasForbidden(t)
  BY <1>1, <1>2, <1>3 DEF IsClean, HasForbidden
<1>6. ~HasEmptySegment(t)
  <2>. SUFFICES ASSUME NEW i, i \in 2..(l - 1), t[i] = "" PROVE FALSE
    BY DEF HasEmptySegment, l
  <2>1. i \in 1..l /\ i \in 2..(Len(p) - 1)
    BY ONLY <1>1, i \in 2..(l - 1)
  <2>. QED  BY <1>1, <1>2, <2>1 DEF IsClean, HasEmptySegment
<1>. QED  BY <1>4, <1>5, <1>6 DEF IsClean

(* So do the rounds of a path that it is put behind. *)
LEMMA RoundsInFront ==
    ASSUME NEW e \in Unescaped, NEW t \in Seq(STRING), NEW b, IsRounds(b, t)
    PROVE  IsRounds([n \in 0..MaxBasePathLength |-> b[n] \o <<e>>], t \o <<e>>)
<1>. DEFINE l == MaxBasePathLength
            c == [n \in 0..l |-> b[n] \o <<e>>]
<1>1. l \in Nat /\ 0 \in 0..l
  BY LengthAssumption
<1>2. <<e>> \in Seq(STRING) /\ Len(<<e>>) = 1 /\ <<e>>[1] = e /\ e \in DOMAIN Decoded
  BY Singleton DEF Unescaped
<1>3. b \in [0..l -> Seq(STRING)] /\ b[0] = t
  BY DEF IsRounds
<1>4. /\ c \in [0..l -> Seq(STRING)]
      /\ \A n \in 0..l : c[n] = b[n] \o <<e>>
  BY <1>2, <1>3
<1>. HIDE DEF c
<1>5. ASSUME NEW n \in 1..l
      PROVE  ValidEncoding(c[n - 1]) /\ c[n] = DecodedOnce(c[n - 1])
  <2>1. n - 1 \in 0..l /\ n \in 0..l
    BY <1>1
  <2>. DEFINE u == b[n - 1]
  <2>2. u \in Seq(STRING) /\ ValidEncoding(u) /\ b[n] = DecodedOnce(u)
    BY <1>3, <2>1 DEF IsRounds
  <2>3. c[n - 1] = u \o <<e>> /\ c[n] = DecodedOnce(u) \o <<e>>
    BY <1>4, <2>1, <2>2
  <2>. HIDE DEF u
  <2>4. ValidEncoding(u \o <<e>>)
    <3>. SUFFICES ASSUME NEW i \in DOMAIN (u \o <<e>>)
                  PROVE  (u \o <<e>>)[i] \in DOMAIN Decoded
      BY DEF ValidEncoding
    <3>1. /\ Len(u) \in Nat /\ i \in 1..(Len(u) + 1)
          /\ \A k \in 1..Len(u) : (u \o <<e>>)[k] = u[k]
          /\ (u \o <<e>>)[Len(u) + 1] = e
          /\ DOMAIN u = 1..Len(u)
      BY <1>2, <2>2
    <3>2. \A k \in DOMAIN u : u[k] \in DOMAIN Decoded
      BY <2>2 DEF ValidEncoding
    <3>3. i = Len(u) + 1 \/ i \in 1..Len(u)
      BY <3>1
    <3>. QED  BY <1>2, <3>1, <3>2, <3>3
  <2>5. DecodedOnce(u \o <<e>>) = DecodedOnce(u) \o <<e>>
    BY <2>2, <2>4, DecodedBehind
  <2>. QED  BY <2>3, <2>4, <2>5
<1>6. c[0] = t \o <<e>>
  BY <1>1, <1>3, <1>4
<1>. QED  BY <1>4, <1>5, <1>6 DEF IsRounds, c

(* Trimmed, put together again. *)
LEMMA FirstPutBack ==
    ASSUME NEW S, NEW p \in Seq(S), Len(p) >= 1
    PROVE  <<p[1]>> \o SubSeq(p, 2, Len(p)) = p
<1>1. 1 \in 1..Len(p) /\ Len(p) \in 1..Len(p) /\ 1 + 1 = 2
  OBVIOUS
<1>2. SubSeq(p, 1, Len(p)) = <<p[1]>> \o SubSeq(p, 1 + 1, Len(p))
  BY <1>1, SubSeqRecursiveFirst
<1>. QED  BY <1>1, <1>2, SubSeqFull

LEMMA LastPutBack ==
    ASSUME NEW S, NEW p \in Seq(S), Len(p) >= 2
    PROVE  (<<p[1]>> \o SubSeq(p, 2, Len(p) - 1)) \o <<p[Len(p)]>> = p
<1>1. /\ 1 \in 1..Len(p) /\ Len(p) \in 1..Len(p) /\ Len(p) - 1 \in 1..Len(p)
      /\ 1 + 1 = 2
  OBVIOUS
<1>2. SubSeq(p, 1, Len(p)) = SubSeq(p, 1, Len(p) - 1) \o <<p[Len(p)]>>
  BY <1>1, SubSeqRecursiveSecond
<1>3. SubSeq(p, 1, Len(p) - 1) = <<p[1]>> \o SubSeq(p, 1 + 1, Len(p) - 1)
  BY <1>1, SubSeqRecursiveFirst
<1>. QED  BY <1>1, <1>2, <1>3, SubSeqFull

(* The rounds from an unescaped segment alone. *)
LEMMA RoundsOfOne ==
    ASSUME NEW e \in Unescaped
    PROVE  \E c : IsRounds(c, <<e>>) /\ \A n \in 0..MaxBasePathLength : c[n] = <<e>>
<1>. DEFINE t == <<e>>
<1>1. /\ e \in STRING /\ e \in DOMAIN Decoded /\ Decoded[e] = <<e>>
  BY DEF Unescaped
<1>2. t \in Seq(STRING) /\ Len(t) = 1 /\ t[1] = e
  BY <1>1, Singleton
<1>3. Decoded[e] = t
  BY <1>1
<1>. HIDE DEF t
<1>4. ValidEncoding(t)
  <2>1. \A i \in DOMAIN t : i = 1
    BY <1>2
  <2>. QED  BY <1>1, <1>2, <2>1 DEF ValidEncoding
<1>. DEFINE g == [n \in 0..1 |-> IF n = 0 THEN <<>> ELSE t]
<1>5. g \in [0..1 -> Seq(STRING)] /\ g[0] = <<>> /\ g[1] = t
  BY <1>2
<1>6. g[1] = g[0] \o Decoded[t[1]]
  <2>1. <<>> \o t = t
    BY <1>2
  <2>. HIDE DEF g
  <2>. QED  BY <1>2, <1>3, <1>5, <2>1
<1>. HIDE DEF g
<1>7. IsDecoding(g, t)
  <2>0. \A n \in 1..1 : n = 1 /\ n - 1 = 0
    OBVIOUS
  <2>1. \A n \in 1..1 : g[n] = g[n - 1] \o Decoded[t[n]]
    BY <1>6, <2>0
  <2>. QED  BY <1>2, <1>5, <2>1 DEF IsDecoding
<1>8. DecodedOnce(t) = t
  BY <1>2, <1>4, <1>5, <1>7, DecodingIs
<1>. DEFINE c == [n \in 0..MaxBasePathLength |-> t]
<1>9. IsRounds(c, t)
  <2>1. 0 \in 0..MaxBasePathLength
    BY LengthAssumption
  <2>2. \A n \in 1..MaxBasePathLength :
          n \in 0..MaxBasePathLength /\ n - 1 \in 0..MaxBasePathLength
    BY LengthAssumption
  <2>. QED  BY <1>2, <1>4, <1>8, <2>1, <2>2 DEF IsRounds
<1>10. \A n \in 0..MaxBasePathLength : c[n] = t
  OBVIOUS
<1>. HIDE DEF c
<1>. QED  BY <1>9, <1>10 DEF t

(* The base path of a document that is not refused goes through clean       *)
(* rounds, with its last slash too if it is written with one.               *)
LEMMA LoadedRounds ==
    ASSUME NEW d \in Documents, Refusal(d) = "None"
    PROVE  \E c : /\ IsRounds(c, <<"">> \o Effective(d).base_path)
                  /\ \A n \in 0..MaxBasePathLength :
                       /\ IsClean(c[n])
                       /\ LastOf(d.base_path) = "" => IsClean(c[n] \o <<"">>)
<1>. DEFINE p == d.base_path
            base == Effective(d).base_path
<1>0. "" \in STRING /\ "" \in Unescaped
  <2>2. "" \in DOMAIN Decoded /\ Decoded[""] = <<"">>
    BY DecodedAssumption, Zenon
  <2>. DEFINE e == ""
  <2>1. e \in STRING
    <3>. HIDE DEF e
    <3>1. e \in DOMAIN Decoded /\ Decoded[e] = <<e>>
      BY <2>2 DEF e
    <3>2. <<e>> \in Seq(STRING)
      BY <3>1, DecodedAssumption
    <3>. QED  BY <3>2
  <2>. QED  BY <2>1, <2>2, Zenon DEF Unescaped
<1>1. NormalizeBasePath(p) # {}
  BY DEF Refusal
<1>2. base \in NormalizeBasePath(p)
  BY <1>1 DEF Effective
<1>3. p \in Seq(STRING) /\ p # <<>>
  BY DocumentsAssumption
<1>. HIDE DEF p, base
<1>4. CASE p \in {<<"">>, <<"", "">>}
  <2>1. base = <<>>
    BY <1>2, <1>4 DEF NormalizeBasePath
  <2>2. <<"">> \o <<>> = <<"">>
    OBVIOUS
  <2>3. PICK c : IsRounds(c, <<"">>) /\ \A n \in 0..MaxBasePathLength : c[n] = <<"">>
    BY <1>0, RoundsOfOne
  <2>4. IsClean(<<"">>)
    <3>. DEFINE t == <<"">>
    <3>0. t \in Seq(STRING) /\ Len(t) = 1 /\ t[1] = ""
      BY <1>0, Singleton
    <3>. HIDE DEF t
    <3>1. Len(t) = 1 /\ t[1] = "" /\ DOMAIN t = 1..1
      <4>1. t \in Seq(STRING) /\ Len(t) = 1
        BY <3>0
      <4>2. DOMAIN t = 1..1
        BY ONLY <4>1
      <4>. QED  BY <3>0, <4>2
    <3>2. \A i \in 1..1 : i = 1
      OBVIOUS
    <3>3. \A i \in DOMAIN t : t[i] = ""
      BY <3>1, <3>2, Zenon
    <3>4. 2..(Len(t) - 1) = {}
      <4>1. Len(t) = 1
        BY <3>1
      <4>. QED  BY ONLY <4>1
    <3>5. ~HasDotSegment(t)
      BY <3>3 DEF HasDotSegment
    <3>6. ~HasForbidden(t)
      BY <3>3, ForbiddenAssumption DEF HasForbidden
    <3>7. ~HasEmptySegment(t)
      BY <3>4 DEF HasEmptySegment
    <3>. QED  BY <3>5, <3>6, <3>7 DEF IsClean, t
  <2>5. IsClean(<<"">> \o <<"">>)
    <3>. DEFINE u == <<"">>
                t == u \o <<"">>
    <3>1. u \in Seq(STRING) /\ Len(u) = 1 /\ u[1] = ""
      BY <1>0, Singleton
    <3>. HIDE DEF u
    <3>0. IsBehind(t, u, "")
      BY <1>0, <3>1, SegmentBehind, Zenon
    <3>. HIDE DEF t
    <3>2. /\ DOMAIN t = 1..(Len(u) + 1) /\ Len(t) = Len(u) + 1
          /\ t[Len(u) + 1] = "" /\ \A i \in 1..Len(u) : t[i] = u[i]
      BY <3>0 DEF IsBehind
    <3>3. \A i \in DOMAIN t : t[i] = ""
      <4>1. \A i \in 1..2 : i = 1 \/ i = 2
        OBVIOUS
      <4>2. 1 \in 1..1 /\ 1 + 1 = 2
        OBVIOUS
      <4>. QED  BY <3>1, <3>2, <4>1, <4>2
    <3>4. 2..(Len(t) - 1) = {}
      <4>1. Len(t) = Len(u) + 1 /\ Len(u) = 1
        BY <3>1, <3>2, Zenon
      <4>. QED  BY ONLY <4>1
    <3>5. ~HasDotSegment(t) /\ ~HasForbidden(t)
      BY <3>3, ForbiddenAssumption DEF HasDotSegment, HasForbidden
    <3>6. ~HasEmptySegment(t)
      BY <3>4 DEF HasEmptySegment
    <3>. QED  BY <3>5, <3>6 DEF IsClean, t, u
  <2>. QED  BY <2>1, <2>2, <2>3, <2>4, <2>5 DEF base
<1>5. CASE p \notin {<<"">>, <<"", "">>}
  <2>1. /\ base = Trimmed(p) /\ p[1] = ""
        /\ \E q \in DecodeRepeatedly(p) : IsClean(q)
    BY <1>2, <1>5 DEF NormalizeBasePath, IsClean
  <2>2. PICK c : IsRounds(c, p) /\ IsClean(c[MaxBasePathLength])
    BY <1>3, <2>1, RoundsExist
  <2>3. \A n \in 0..MaxBasePathLength : IsClean(c[n])
    BY <2>2, RoundsClean
  <2>4. Len(p) >= 2
    <3>1. Len(p) \in Nat /\ Len(p) # 0
      BY ONLY <1>3
    <3>2. ASSUME Len(p) = 1 PROVE FALSE
      <4>1. <<"">> \in Seq(STRING) /\ Len(<<"">>) = 1 /\ <<"">>[1] = ""
        BY <1>0, Singleton
      <4>2. \A i \in 1..Len(p) : i = 1
        BY <3>2
      <4>3. p = <<"">>
        BY <1>3, <2>1, <3>2, <4>1, <4>2, SeqEqual
      <4>. QED  BY <1>5, <4>3
    <3>. DEFINE l == Len(p)
    <3>3. l \in Nat /\ l # 0 /\ l # 1
      BY <3>1, <3>2
    <3>. HIDE DEF l
    <3>4. l >= 2
      BY ONLY <3>3
    <3>. QED  BY <3>4 DEF l
  <2>5. CASE p[Len(p)] # ""
    <3>1. base = SubSeq(p, 2, Len(p))
      BY <2>1, <2>5 DEF Trimmed
    <3>2. Len(p) >= 1
      BY ONLY <1>3, <2>4
    <3>3. <<p[1]>> \o base = p
      BY <1>3, <3>1, <3>2, FirstPutBack
    <3>4. LastOf(p) # ""
      BY <2>5 DEF LastOf
    <3>. QED  BY <2>1, <2>2, <2>3, <3>3, <3>4 DEF base, p
  <2>6. CASE p[Len(p)] = ""
    <3>. DEFINE t == <<"">> \o base
    <3>1. base = SubSeq(p, 2, Len(p) - 1)
      BY <2>1, <2>6 DEF Trimmed
    <3>2. t \o <<"">> = p
      <4>1. (<<p[1]>> \o base) \o <<p[Len(p)]>> = p
        BY <1>3, <2>4, <3>1, LastPutBack
      <4>. QED  BY <2>1, <2>6, <4>1
    <3>3. t \in Seq(STRING)
      <4>1. base \in Seq(STRING)
        BY LoadedBasePath DEF base
      <4>2. <<"">> \in Seq(STRING)
        BY <1>0, Singleton
      <4>. QED  BY <4>1, <4>2, ConcatProperties DEF t
    <3>. HIDE DEF t
    <3>4. PICK b : IsRounds(b, t) /\ Behind(c, b, "")
      <4>1. p = t \o <<"">>
        BY <3>2
      <4>. QED  BY <1>0, <2>2, <3>3, <4>1, RoundsBehind
    <3>5. ASSUME NEW n \in 0..MaxBasePathLength
          PROVE  IsClean(b[n]) /\ IsClean(b[n] \o <<"">>)
      <4>1. b[n] \in Seq(STRING)
        BY <3>4 DEF IsRounds
      <4>2. IsClean(b[n] \o <<"">>)
        BY <2>3, <3>4 DEF Behind
      <4>. QED  BY <1>0, <4>1, <4>2, CleanInFront
    <3>6. IsRounds(b, <<"">> \o base)
      BY <3>4 DEF t
    <3>. QED  BY <3>5, <3>6, Zenon DEF base
  <2>. QED  BY <2>5, <2>6
<1>. QED  BY <1>4, <1>5

(* However often a path below the base path of a document that is served is *)
(* decoded, no dot segment or refused character comes to the surface, and   *)
(* an empty segment only where the base path ends with an escaped slash and *)
(* is not written with one behind it.                                       *)
THEOREM BasePathStable == Spec => []BasePathIsStable
<1>1. FilterInv => BasePathIsStable
  <2>. SUFFICES ASSUME FilterInv, stage = "serving", NEW s \in PlainSegments,
                       NEW n \in 0..MaxBasePathLength
                PROVE  LET q == DecodedTimes(<<"">> \o BasePath \o <<s>>)[n]
                       IN  /\ ~HasDotSegment(q) /\ ~HasForbidden(q)
                           /\ \A i \in 2..(Len(q) - 1) : q[i] = "" =>
                                i = Len(q) - 1 /\ LastOf(document.base_path) # ""
    BY DEF BasePathIsStable
  <2>. DEFINE t == <<"">> \o BasePath
  <2>1. /\ document \in Documents /\ Refusal(document) = "None"
        /\ BasePath = Effective(document).base_path
    BY DEF FilterInv, Served, BasePath
  <2>2. PICK b : /\ IsRounds(b, t)
                 /\ \A m \in 0..MaxBasePathLength :
                      /\ IsClean(b[m])
                      /\ LastOf(document.base_path) = "" => IsClean(b[m] \o <<"">>)
    BY <2>1, LoadedRounds
  <2>3. t \in Seq(STRING) /\ b[n] \in Seq(STRING)
    <3>1. 0 \in 0..MaxBasePathLength
      BY LengthAssumption
    <3>. HIDE DEF t
    <3>. QED  BY <2>2, <3>1 DEF IsRounds
  <2>4. s \in Unescaped /\ s \in STRING /\ s \notin {"", ".", ".."} /\ s \notin Forbidden
    <3>1. s \in DOMAIN Decoded /\ Decoded[s] = <<s>>
          /\ s \notin {"", ".", ".."} /\ s \notin Forbidden
      BY DEF PlainSegments
    <3>2. <<s>> \in Seq(STRING)
      BY <3>1, DecodedAssumption
    <3>3. s \in STRING
      BY <3>2
    <3>. QED  BY <3>1, <3>3 DEF Unescaped
  <2>13. "" \in STRING
    <3>1. "" \in DOMAIN Decoded /\ Decoded[""] = <<"">>
      BY DecodedAssumption, Zenon
    <3>. DEFINE e == ""
    <3>. HIDE DEF e
    <3>2. e \in DOMAIN Decoded /\ Decoded[e] = <<e>>
      BY <3>1 DEF e
    <3>3. <<e>> \in Seq(STRING)
      BY <3>2, DecodedAssumption
    <3>4. e \in STRING
      BY <3>3
    <3>. QED  BY <3>4 DEF e
  <2>. HIDE DEF t
  <2>. DEFINE q == b[n] \o <<s>>
              l == Len(b[n])
  <2>5. DecodedTimes(t \o <<s>>)[n] = q
    <3>. DEFINE c == [m \in 0..MaxBasePathLength |-> b[m] \o <<s>>]
    <3>1. IsRounds(c, t \o <<s>>)
      BY <2>2, <2>3, <2>4, RoundsInFront
    <3>2. c[n] = q
      OBVIOUS
    <3>. HIDE DEF c, q
    <3>. QED  BY <3>1, <3>2, DecodedTimesIs
  <2>14. IsBehind(q, b[n], s)
    BY <2>3, <2>4, SegmentBehind, Zenon
  <2>7. IsClean(b[n]) /\ (LastOf(document.base_path) = "" => IsClean(b[n] \o <<"">>))
    BY <2>2
  <2>. HIDE DEF q
  <2>6. /\ l \in Nat /\ Len(q) = l + 1 /\ DOMAIN q = 1..(l + 1) /\ q[l + 1] = s
        /\ \A i \in 1..l : q[i] = b[n][i]
        /\ DOMAIN b[n] = 1..l
    BY <2>14 DEF IsBehind
  <2>. HIDE DEF l
  <2>12. l \in Nat
    BY <2>6
  <2>8. \A i \in 1..(l + 1) : i = l + 1 \/ i \in 1..l
    BY <2>12
  <2>9. ~HasDotSegment(q) /\ ~HasForbidden(q)
    BY <2>4, <2>6, <2>7, <2>8 DEF IsClean, HasDotSegment, HasForbidden
  <2>10. ASSUME NEW i \in 2..(Len(q) - 1), q[i] = ""
         PROVE  i = Len(q) - 1 /\ LastOf(document.base_path) # ""
    <3>1. i \in 2..l /\ i \in 1..l /\ b[n][i] = ""
      <4>1. i \in 2..l /\ i \in 1..l
        BY <2>6
      <4>. QED  BY <2>6, <2>10, <4>1
    <3>2. i = l
      <4>. SUFFICES ASSUME i # l PROVE FALSE
        OBVIOUS
      <4>1. i \in 2..(Len(b[n]) - 1)
        <5>1. i \in 2..(l - 1)
          <6>1. i # l /\ i \in 2..l
            BY <3>1
          <6>. QED  BY ONLY <2>12, <6>1
        <5>. QED  BY <5>1 DEF l
      <4>. QED  BY <2>7, <3>1, <4>1 DEF IsClean, HasEmptySegment
    <3>3. ASSUME LastOf(document.base_path) = "" PROVE FALSE
      <4>. DEFINE r == b[n] \o <<"">>
      <4>1. Len(r) = l + 1 /\ r[i] = b[n][i]
        <5>1. IsBehind(r, b[n], "")
          BY <2>3, <2>13, SegmentBehind, Zenon
        <5>. HIDE DEF r
        <5>. QED  BY <3>1, <5>1 DEF IsBehind, l
      <4>3. IsClean(r)
        BY <2>7, <3>3
      <4>. HIDE DEF r
      <4>2. i \in 2..(Len(r) - 1)
        <5>1. Len(r) = l + 1 /\ i \in 2..l
          BY <3>1, <4>1
        <5>. QED  BY ONLY <2>12, <5>1
      <4>4. r[i] = ""
        BY <3>1, <4>1
      <4>. QED  BY <4>2, <4>3, <4>4 DEF IsClean, HasEmptySegment
    <3>4. LastOf(document.base_path) # ""
      BY <3>3, Zenon
    <3>5. Len(q) = l + 1
      BY <2>6
    <3>6. i = Len(q) - 1
      BY ONLY <2>12, <3>2, <3>5
    <3>. QED  BY <3>4, <3>6
  <2>11. <<"">> \o BasePath \o <<s>> = t \o <<s>>
    BY DEF t
  <2>. QED  BY <2>5, <2>9, <2>10, <2>11
<1>. QED  BY <1>1, FilterInvariant, PTL
=============================================================================
