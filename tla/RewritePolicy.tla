---------------------------- MODULE RewritePolicy ---------------------------
(***************************************************************************)
(* From the configuration document to the rewrite of a response: main      *)
(* loads the document (src/src/main.rs), RewritePolicy::decide             *)
(* (src/src/rewrite.rs), called by request_filter, selects the rewrite of  *)
(* a request, and api_uri_with_base_path (src/src/proxy.rs), called by     *)
(* upstream_request_filter, gives the path the upstream is asked for.      *)
(*                                                                         *)
(* A path is the sequence of its segments: "/a/b/" is <<"a", "b", "">>.    *)
(* The prefixes and markers of the code begin and end with a slash, so     *)
(* they are whole segments.  What the code asks of the text of a segment   *)
(* (its suffix, its characters) is given by constants.  Requests do not    *)
(* change the configuration, so that one request per run shows every one.  *)
(***************************************************************************)
EXTENDS EffectiveConfig

CONSTANTS
    Documents,     \* the documents that are loaded
    Ipv6,          \* the addresses of IPv6, and of those, Ipv4Mapped[ip] for
    Ipv4Mapped,    \* ip = "::ffff:127.0.0.1" is "127.0.0.1"
    MaxPermits,    \* Semaphore::MAX_PERMITS
    NoConfig,      \* config before the document is loaded
    Paths,         \* the paths that are requested
    Methods,       \* the methods, in upper case
    JsNames,       \* the segments that end in .js
    TextNames,     \* those that end in .js, .mjs, .css, .json, .html or .htm
    FrontendName   \* FrontendName["name-frontend"] = "name"

Profiles == Rules \cup {"Ys1000FrontendIndexJsBundle"}

ASSUME PathsAssumption == Paths \subseteq Seq(STRING)
ASSUME DocumentsAssumption ==
    \A d \in Documents :
      /\ d.base_path \in Seq(STRING) \ {<<>>}
      /\ {d.max_decoded_bytes, d.max_concurrent, d.max_queued} \subseteq Nat
ASSUME PermitsAssumption == MaxPermits \in Nat
ASSUME NamesAssumption ==
    /\ JsNames \subseteq TextNames
    /\ "" \notin TextNames \cup SafeNames

VARIABLES
    document,           \* the file
    config,             \* the configuration that is in force
    stage,              \* "starting", then "exited", "panicked" or "serving";
                        \* of the request "decided", then "forwarded"
    method, path,       \* the request
    decision,           \* ctx.decision: the profile or "Bypass"
    upstream_path       \* the path the upstream is asked for

vars == <<document, config, stage, method, path, decision, upstream_path>>

BasePath == config.base_path

-----------------------------------------------------------------------------
(* Paths                                                                   *)

HasPrefix(p, prefix) ==
    /\ Len(prefix) =< Len(p)
    /\ \A i \in 1..Len(prefix) : p[i] = prefix[i]

\* p lies under the base path and root, whose slash follows: strip_prefix.
Under(p, root) == HasPrefix(p, BasePath \o root) /\ Len(p) > Len(BasePath \o root)

\* What follows the base path and root.
Below(p, root) == SubSeq(p, Len(BasePath \o root) + 1, Len(p))

LastOf(p) == p[Len(p)]

-----------------------------------------------------------------------------
(* decide                                                                  *)

\* ExtensionMatcher::All, for the wildcard.
AllExtensions == config.enabled_extensions = <<"*">>

\* is_extension_enabled
ExtensionEnabled(e) ==
    /\ e \in SafeNames
    /\ \A i \in DOMAIN config.disabled_extensions : config.disabled_extensions[i] # e
    /\ \/ AllExtensions
       \/ \E i \in DOMAIN config.enabled_extensions : config.enabled_extensions[i] = e

\* /proxy/{name}/..., with a name.
IsNamedProxy(p) ==
    /\ Under(p, <<"proxy">>)
    /\ LET proxy_path == Below(p, <<"proxy">>)
       IN  Len(proxy_path) >= 2 /\ proxy_path[1] # ""

\* The first rule of preferred that is enabled.
FirstEnabled(preferred, enabled) ==
    LET on == {i \in 1..Len(preferred) : preferred[i] \in enabled}
    IN  IF on = {} THEN "Bypass"
                   ELSE preferred[CHOOSE i \in on : \A j \in on : i =< j]

\* A mutant of NamedProxyProfile: Kubekey's scripts fall back to the HTML rule.
NamedProxyProfile_FallsBack(proxy_path, enabled) ==
    LET name == proxy_path[1]
    IN  FirstEnabled(
          IF name = "ys1000" THEN <<"Ys1000Html", "NamedProxyHtml">> ELSE
          IF name = "kubekey" /\ proxy_path[2] = "assets"
             /\ Len(proxy_path) > 2 /\ LastOf(proxy_path) \in JsNames
             THEN <<"KubekeyAssetJs", "NamedProxyHtml">>
             ELSE <<"NamedProxyHtml">>,
          enabled)

\* The rule of a named proxy path; ys1000 has its own, with a fallback, and
\* scripts have none but Kubekey's assets.
NamedProxyProfile(proxy_path, enabled) ==
    LET name == proxy_path[1]
    IN  FirstEnabled(
          CASE name = "ys1000" -> <<"Ys1000Html", "NamedProxyHtml">>
            [] name # "ys1000" /\ LastOf(proxy_path) \notin JsNames ->
                 <<"NamedProxyHtml">>
            [] OTHER ->
                 IF name = "kubekey" /\ proxy_path[2] = "assets"
                                     /\ Len(proxy_path) > 2
                    THEN <<"KubekeyAssetJs">> ELSE <<>>,
          enabled)

\* jsbundle_asset_path: {extension}/dist/{distribution}/{file}.js, where the
\* distribution is the extension, or its name without -frontend.
IsJsBundle(p) ==
    /\ Under(p, <<"jsbundles">>)
    /\ LET b == Below(p, <<"jsbundles">>)
       IN  /\ Len(b) = 4
           /\ b[2] = "dist"
           /\ b[3] \in {b[1]} \cup (IF b[1] \in DOMAIN FrontendName
                                       THEN {FrontendName[b[1]]} ELSE {})
           /\ b[4] \in JsNames
           /\ ExtensionEnabled(b[1])

JsBundleProfile(bundle_path, enabled) ==
    LET extension == bundle_path[1]
        index     == /\ extension \in DOMAIN FrontendName
                     /\ bundle_path[4] = "index.js"
        full      == extension = "ys1000-frontend" /\ bundle_path[3] = extension
    IN  IF index /\ "FrontendIndexJsBundle" \in enabled
           THEN IF full THEN "Ys1000FrontendIndexJsBundle"
                        ELSE "FrontendIndexJsBundle"
           ELSE FirstEnabled(<<"JsBundle">>, enabled)

\* /extensions-static/{extension}/dist/v3dist/**
IsConsoleV3(p) ==
    /\ Under(p, <<"extensions-static">>)
    /\ LET e == Below(p, <<"extensions-static">>)
       IN  /\ Len(e) >= 4
           /\ e[2] = "dist" /\ e[3] = "v3dist"
           /\ ExtensionEnabled(e[1])
           /\ LastOf(e) \in TextNames

\* A mutant of Decide: the method is not looked at.
Decide_AnyMethod(m, p, enabled) ==
    IF BasePath # <<>> /\ IsNamedProxy(p)
       THEN NamedProxyProfile(Below(p, <<"proxy">>), enabled)
       ELSE "Bypass"

\* decide, with the given rules enabled.
Decide(m, p, enabled) ==
    IF BasePath = <<>> \/ m \notin {"GET", "HEAD"} THEN "Bypass" ELSE
    IF IsNamedProxy(p)
       THEN NamedProxyProfile(Below(p, <<"proxy">>), enabled) ELSE
    IF IsJsBundle(p)
       THEN JsBundleProfile(Below(p, <<"jsbundles">>), enabled) ELSE
    IF IsConsoleV3(p) THEN FirstEnabled(<<"ConsoleV3">>, enabled)
                      ELSE "Bypass"

-----------------------------------------------------------------------------
(* api_uri_with_base_path                                                  *)

ApiRoots == {"api", "apis", "kapi", "kapis"}

\* A mutant of WithBasePath: a path that is already in the base path is
\* prefixed again.
WithBasePath_Always(p) ==
    IF BasePath # <<>> /\ \E i \in 1..(Len(p) - 1) : p[i] \in ApiRoots
       THEN BasePath \o p
       ELSE p

\* An API path, with the marker anywhere in it, gets the base path unless it
\* has it.
WithBasePath(p) ==
    IF /\ ~HasPrefix(p, BasePath)
       /\ \E i \in 1..(Len(p) - 1) : p[i] \in ApiRoots
       THEN BasePath \o p
       ELSE p

-----------------------------------------------------------------------------
Init ==
    /\ document \in Documents
    /\ config = NoConfig
    /\ stage = "starting"
    /\ method = "" /\ path = <<>>
    /\ decision = "Bypass"
    /\ upstream_path = <<>>

\* run: a document that is refused ends the process.
Refuse ==
    /\ stage = "starting" /\ Refusal(document) # "None"
    /\ stage' = "exited"
    /\ UNCHANGED <<document, config, method, path, decision, upstream_path>>

\* run with a document that is not refused: KseRewriteProxy::new panics on a
\* limit that no semaphore can hold.
Load ==
    /\ stage = "starting" /\ Refusal(document) = "None"
    /\ config' = Effective(document)
    /\ stage' = IF /\ config'.max_concurrent =< MaxPermits
                    /\ config'.max_queued =< MaxPermits
                    THEN "serving" ELSE "panicked"
    /\ UNCHANGED <<document, method, path, decision, upstream_path>>

\* request_filter
RequestFilter ==
    /\ stage = "serving"
    /\ stage' = "decided"
    /\ method' \in Methods
    /\ path' \in Paths
    /\ decision' = Decide(method', path', config.enabled_rules)
    /\ UNCHANGED <<document, config, upstream_path>>

\* upstream_request_filter
UpstreamRequestFilter ==
    /\ stage = "decided"
    /\ stage' = "forwarded"
    /\ upstream_path' = WithBasePath(path)
    /\ UNCHANGED <<document, config, method, path, decision>>

Next == Refuse \/ Load \/ RequestFilter \/ UpstreamRequestFilter

Spec == Init /\ [][Next]_vars

-----------------------------------------------------------------------------
(* Properties                                                              *)

Served == stage \in {"serving", "decided", "forwarded"}

(* Type invariant; what is served has the limits that admission and the    *)
(* pipeline are built on, only GET and HEAD requests are ever selected,    *)
(* and a path is forwarded as it came or under the base path.              *)
TypeOK ==
    /\ stage \in {"starting", "exited", "panicked", "serving", "decided", "forwarded"}
    /\ Served => /\ config.max_concurrent \in 1..MaxPermits
                 /\ config.max_queued \in 0..MaxPermits
                 /\ config.max_decoded_bytes > 0
    /\ decision \in Profiles \cup {"Bypass"}
    /\ decision # "Bypass" => method \in {"GET", "HEAD"}
    /\ stage = "forwarded" => upstream_path \in {path, BasePath \o path}

\* The rule that a profile belongs to.
RuleOf(profile) ==
    IF profile = "Ys1000FrontendIndexJsBundle" THEN "FrontendIndexJsBundle"
                                               ELSE profile

(* README: "Rules 2/3 and 4/5 overlap intentionally".                      *)
Fallback == [FrontendIndexJsBundle |-> "JsBundle",
             Ys1000Html |-> "NamedProxyHtml"]

(* Switching a rule off touches only the requests it applies to, and they  *)
(* then fall back from rule 3 to rule 2 and from rule 5 to rule 4 where    *)
(* that one is on, and otherwise are not rewritten.                        *)
SwitchingOffIsLocal ==
    stage = "decided" =>
    \A rule \in config.enabled_rules :
      LET now  == Decide(method, path, config.enabled_rules)
          then == Decide(method, path, config.enabled_rules \ {rule})
      IN  IF RuleOf(now) # rule
             THEN then = now
             ELSE then = IF /\ rule \in DOMAIN Fallback
                            /\ Fallback[rule] \in config.enabled_rules
                            THEN Fallback[rule] ELSE "Bypass"

(* request_filter decides on the client's path and the upstream may be     *)
(* asked for another: never when the response is selected, so that what is *)
(* rewritten is what was decided about.                                    *)
SelectedIsForwardedAsIs ==
    stage = "forwarded" /\ decision # "Bypass" => upstream_path = path

(* A forwarded path is stable: a request that passes two sidecars, or is   *)
(* redirected back to the first, is not prefixed twice.                    *)
PrefixedOnce ==
    stage = "forwarded" => WithBasePath(upstream_path) = upstream_path

\* The numbers of rules that the document switches off.
SwitchedOff == {n \in DOMAIN document.rules : ~document.rules[n]}

(* From the document to the decision: no response is selected by a rule    *)
(* the document switches off, and none of an extension that it disables or *)
(* that it neither lists nor means by the wildcard.                        *)
DecidedByTheDocument ==
    decision # "Bypass" =>
      /\ \A n \in SwitchedOff : RuleNumbered[n] # RuleOf(decision)
      /\ RuleOf(decision) \in {"ConsoleV3", "JsBundle", "FrontendIndexJsBundle"} =>
           LET extension == path[Len(BasePath) + 2]
           IN  /\ \A i \in DOMAIN document.disabled : document.disabled[i] # extension
               /\ \E i \in DOMAIN document.enabled :
                    document.enabled[i] \in {extension, "*"}

\* The path p after each number of rounds of percent decoding, by whoever
\* handles it next.
DecodedTimes(p) ==
    LET after[n \in 0..MaxBasePathLength] ==
          IF n = 0 THEN p ELSE DecodedOnce(after[n - 1])
    IN  after

\* Segments of a request without an escape, that are what they seem.
PlainSegments ==
    {s \in DOMAIN Decoded : Decoded[s] = <<s>>} \ ({"", ".", ".."} \cup Forbidden)

(* However often the proxies and servers behind this one decode a path     *)
(* below the base path, no round brings a dot segment or a quote to the    *)
(* surface, and no empty segment but one: where the base path is written   *)
(* without a slash at its end, it may end with an escaped one, which then  *)
(* stands before the slash of what follows, as in "/a%2F/x".               *)
BasePathIsStable ==
    stage = "serving" =>
      \A s \in PlainSegments :
        LET after == DecodedTimes(<<"">> \o BasePath \o <<s>>)
        IN  \A n \in 0..MaxBasePathLength :
              /\ ~HasDotSegment(after[n]) /\ ~HasForbidden(after[n])
              /\ \A i \in 2..(Len(after[n]) - 1) : after[n][i] = "" =>
                   /\ i = Len(after[n]) - 1
                   /\ LastOf(document.base_path) # ""

\* External: the address that a connection to ip goes to.
Destination(ip) == IF ip \in DOMAIN Ipv4Mapped THEN Ipv4Mapped[ip] ELSE ip

\* External: a socket bound to listener receives connections to socket.
Receives(listener, socket) ==
    /\ listener.port = socket.port
    /\ \/ Destination(listener.ip) = Destination(socket.ip)
       \/ listener.ip = "::"
       \/ listener.ip = "0.0.0.0" /\ Destination(socket.ip) \notin Ipv6

(* The sidecar never connects to itself, also while the upstream container *)
(* is not up: no listener receives what is sent to the upstream, and none  *)
(* what is meant for the other.  Addresses are compared as they are        *)
(* written, so that this is not so for one that is IPv4-mapped.            *)
ListenersKeepApart ==
    stage = "serving" =>
      \A pair \in {<<config.listen, config.upstream>>,
                   <<config.admin_listen, config.upstream>>,
                   <<config.listen, config.admin_listen>>,
                   <<config.admin_listen, config.listen>>} :
        Receives(pair[1], pair[2]) =>
          \E i \in {1, 2} : pair[i].ip \in DOMAIN Ipv4Mapped

(* README.md:281: "rewriteSidecar.upstream is restricted to an explicit    *)
(* loopback HTTP address"; config.rs:288 has ::1 among them and            *)
(* config.rs:295 asks for an explicit port.  All of these are accepted.    *)
ExplicitLoopbackAccepted ==
    stage = "exited" /\ Refusal(document) = "InvalidUpstream" =>
      LET url == document.upstream
      IN  ~(/\ url.scheme = "http" /\ ~url.more
            /\ url.host \in {"127.0.0.1", "::1", "localhost"}
            /\ url.port # {})
=============================================================================
