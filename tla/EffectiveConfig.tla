--------------------------- MODULE EffectiveConfig --------------------------
(***************************************************************************)
(* EffectiveConfig::from_yaml (src/src/config.rs): which documents are     *)
(* refused, with which error, and what a document that is not refused      *)
(* becomes.                                                                *)
(*                                                                         *)
(* A document is a record of the values that the YAML reader has put into  *)
(* RawConfig, defaults included.  client.basePath is the sequence of its   *)
(* segments, cut at each slash: "/a/" is <<"", "a", "">>.  What the        *)
(* libraries make of the text of one segment is given by constants.  A     *)
(* result that may be an error is a set with at most one element.          *)
(***************************************************************************)
EXTENDS Integers, Sequences
LOCAL INSTANCE SequencesExt

CONSTANTS
    Decoded,            \* Decoded[s]: s with its escapes decoded, as segments;
                        \* no s with an escape that is malformed or not UTF-8
    Forbidden,          \* segments with a character that is refused
    UrlChanged,         \* segments that Url::join writes differently
    Chars,              \* Chars[s]: the number of characters of a segment
    MaxBasePathLength,  \* MAX_BASE_PATH_LENGTH
    SafeNames,          \* segments that is_safe_extension_name accepts
    IpAddresses         \* the addresses that parse

\* Text without an escape decodes to itself, and decoding removes nothing but
\* the escapes.
ASSUME DecodedAssumption ==
    /\ Decoded \in [DOMAIN Decoded -> Seq(STRING) \ {<<>>}]
    /\ \A s \in {"", ".", ".."} : s \in DOMAIN Decoded /\ Decoded[s] = <<s>>
    /\ \A s \in DOMAIN Decoded \cap Forbidden :
         \E i \in DOMAIN Decoded[s] : Decoded[s][i] \in Forbidden
ASSUME ForbiddenAssumption == "" \notin Forbidden
ASSUME LengthAssumption == MaxBasePathLength \in Nat

Unspecified == {"0.0.0.0", "::"}

\* RewriteRule::ALL, by number.
RuleNumbered == <<"ConsoleV3", "JsBundle", "FrontendIndexJsBundle",
                  "NamedProxyHtml", "Ys1000Html", "KubekeyAssetJs">>
Rules == {RuleNumbered[n] : n \in DOMAIN RuleNumbered}

-----------------------------------------------------------------------------
(* client.basePath                                                         *)

HasForbidden(p) == \E i \in DOMAIN p : p[i] \in Forbidden
HasDotSegment(p) == \E i \in DOMAIN p : p[i] \in {".", ".."}

\* "//" in the path, which begins with a slash.
HasEmptySegment(p) == \E i \in 2..(Len(p) - 1) : p[i] = ""

ValidEncoding(p) == \A i \in DOMAIN p : p[i] \in DOMAIN Decoded

\* One round of percent decoding; a decoded slash cuts a segment.
DecodedOnce(p) ==
    LET first[n \in 0..Len(p)] ==   \* the first n segments, decoded
          IF n = 0 THEN <<>> ELSE first[n - 1] \o Decoded[p[n]]
    IN  first[Len(p)]

\* The path after the rounds of decoding; the rounds that the code leaves out
\* when nothing changes any more would change nothing.
DecodeRepeatedly(p) ==
    LET after[n \in 0..MaxBasePathLength] ==
          IF n = 0 THEN {p}
                   ELSE {DecodedOnce(q) : q \in {r \in after[n - 1] : ValidEncoding(r)}}
    IN  after[MaxBasePathLength]

Length(p) == FoldLeft(LAMBDA n, s : n + 1 + Chars[s], -1, p)

\* trim_end_matches of a path without empty segments, and without the first
\* slash.
Trimmed(p) == SubSeq(p, 2, IF p[Len(p)] = "" THEN Len(p) - 1 ELSE Len(p))

\* A mutant of NormalizeBasePath: escapes are decoded once.
NormalizeBasePath_Once(p) ==
    IF p \in {<<"">>, <<"", "">>} THEN {<<>>} ELSE
    IF /\ Length(p) =< MaxBasePathLength
       /\ p[1] = "" /\ p[2] # ""
       /\ ~HasForbidden(p)
       /\ ValidEncoding(p)
       /\ LET q == DecodedOnce(p)
          IN  ~HasForbidden(q) /\ ~HasEmptySegment(q) /\ ~HasDotSegment(q)
       /\ ~HasDotSegment(p)
       /\ \A i \in DOMAIN p : p[i] \notin UrlChanged
    THEN {Trimmed(p)} ELSE {}

\* normalize_base_path, as the segments after the first slash.
NormalizeBasePath(p) ==
    IF p \in {<<"">>, <<"", "">>} THEN {<<>>} ELSE
    IF /\ Length(p) =< MaxBasePathLength
       /\ p[1] = "" /\ p[2] # ""
       /\ ~HasForbidden(p)
       /\ \E q \in DecodeRepeatedly(p) :
            ~HasForbidden(q) /\ ~HasEmptySegment(q) /\ ~HasDotSegment(q)
       /\ ~HasDotSegment(p)
       /\ \A i \in DOMAIN p : p[i] \notin UrlChanged
    THEN {Trimmed(p)} ELSE {}

-----------------------------------------------------------------------------
(* Sockets: [ip, port].                                                    *)

\* A mutant of SocketAddrsOverlap: a wildcard address is an address as others.
SocketAddrsOverlap_SameIp(first, second) == first = second

SocketAddrsOverlap(first, second) ==
    /\ first.port = second.port
    /\ \/ first.ip \in Unspecified
       \/ second.ip \in Unspecified
       \/ first.ip = second.ip

\* Url::host_str keeps the brackets of an IPv6 address.
HostStr(url) == IF url.host = "::1" THEN "[::1]" ELSE url.host

\* Url::port, from the port that was written: none when it is the scheme's.
Port(url) == url.port \ {80}

\* parse_upstream.  A url is [scheme, host, port, more], where more says that
\* it has a user, a query, a fragment or a path.
ParseUpstream(url) ==
    IF /\ url.scheme = "http"
       /\ ~url.more
       /\ HostStr(url) \in {"127.0.0.1", "::1", "localhost"}
    THEN {[ip |-> IF url.host = "localhost" THEN "127.0.0.1" ELSE url.host,
           port |-> port] : port \in Port(url)}
    ELSE {}

-----------------------------------------------------------------------------
(* rewriteSidecar.rewrite                                                  *)

\* validate_explicit_extensions
ValidExplicit(extensions) ==
    /\ \A i \in DOMAIN extensions : extensions[i] \in SafeNames
    /\ \A i, j \in DOMAIN extensions : extensions[i] = extensions[j] => i = j

ValidEnabled(extensions) ==
    IF \E i \in DOMAIN extensions : extensions[i] = "*"
       THEN Len(extensions) = 1
       ELSE ValidExplicit(extensions)

\* A mutant of EnabledRules: the rules are counted from zero.
EnabledRules_FromZero(rules) ==
    Rules \ {RuleNumbered[n + 1] : n \in {n \in DOMAIN rules :
                                            ~rules[n] /\ n < Len(RuleNumbered)}}

\* Every rule, but those that are switched off.
EnabledRules(rules) ==
    Rules \ {RuleNumbered[n] : n \in {n \in DOMAIN rules : ~rules[n]}}

-----------------------------------------------------------------------------
(* from_yaml                                                               *)

\* The error that the document is refused with, or "None".
Refusal(d) ==
    IF NormalizeBasePath(d.base_path) = {} THEN "InvalidBasePath" ELSE
    IF d.listen.ip \notin IpAddresses THEN "InvalidListen" ELSE
    IF d.admin_listen.ip \notin IpAddresses THEN "InvalidAdminListen" ELSE
    IF SocketAddrsOverlap(d.listen, d.admin_listen) THEN "ConflictingListeners" ELSE
    IF ParseUpstream(d.upstream) = {} THEN "InvalidUpstream" ELSE
    IF \E upstream \in ParseUpstream(d.upstream), l \in {d.listen, d.admin_listen} :
         SocketAddrsOverlap(l, upstream) THEN "ListenerOverlapsUpstream" ELSE
    IF d.max_decoded_bytes = 0 \/ d.max_concurrent = 0 THEN "NonPositiveLimit" ELSE
    IF ~ValidEnabled(d.enabled) \/ ~ValidExplicit(d.disabled) THEN "InvalidExtensions" ELSE
    IF \E n \in DOMAIN d.rules : n \notin DOMAIN RuleNumbered THEN "UnknownRule"
    ELSE "None"

\* What a document that is not refused becomes.
Effective(d) ==
    [base_path     |-> CHOOSE base \in NormalizeBasePath(d.base_path) : TRUE,
     listen        |-> d.listen,
     admin_listen  |-> d.admin_listen,
     upstream      |-> CHOOSE upstream \in ParseUpstream(d.upstream) : TRUE,
     enabled_extensions  |-> d.enabled,
     disabled_extensions |-> d.disabled,
     enabled_rules       |-> EnabledRules(d.rules),
     max_decoded_bytes   |-> d.max_decoded_bytes,
     max_concurrent      |-> d.max_concurrent,
     max_queued          |-> d.max_queued]
=============================================================================
