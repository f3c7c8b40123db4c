------------------------- MODULE RepresentationCache ------------------------
(***************************************************************************)
(* What a client ends up showing for one URL when it revalidates its       *)
(* stored response through the sidecar (src/src/proxy.rs:                  *)
(* upstream_request_filter, response_filter, derive_etag), while the       *)
(* upstream publishes new versions and the sidecar is restarted with other *)
(* rules or as another release.                                            *)
(*                                                                         *)
(* The client and the upstream follow HTTP: the upstream answers a         *)
(* conditional request by its own entity tag or date, the client keeps a   *)
(* response unless told not to, and reuses it on a 304.  A body is the     *)
(* version it was made from and what was done to it; a derived entity tag  *)
(* is the tuple that derive_etag hashes.  The base path and the extension  *)
(* are fixed by the URL of a selected request, so they do not vary here.   *)
(***************************************************************************)
EXTENDS Naturals

CONSTANTS
    Configs,      \* what the sidecar may run with: [url, profile, rules], the
                  \* URL, the profile that it gets ("bypass" if none) and
                  \* REWRITE_RULE_VERSION
    MaxVersion,   \* bound: versions of the content the upstream publishes
    Tagged,       \* the versions that have a reliable entity tag
    Rewritable    \* the versions whose Content-Type the profiles accept

Versions == 1..MaxVersion
HtmlProfiles == {"NamedProxyHtml", "Ys1000Html"}
ForcedProfiles == {"ConsoleV3", "JsBundle", "FrontendIndexJsBundle",
                   "Ys1000FrontendIndexJsBundle", "KubekeyAssetJs"}

ASSUME ConfigsAssumption ==
    \A c \in Configs :
      c.profile \in {"bypass"} \cup HtmlProfiles \cup ForcedProfiles
ASSUME MaxVersionAssumption == MaxVersion \in Nat \ {0}
ASSUME TaggedAssumption == Tagged \subseteq Versions
ASSUME RewritableAssumption == Rewritable \subseteq Versions

VARIABLES
    config,     \* the configuration the sidecar runs with
    content,    \* the version the upstream has
    store,      \* the client's stored response, or Nothing
    stage,      \* of the request in flight: "idle", "asked" or "answered"
    request,    \* what request_filter and upstream_request_filter made of it
    reply,      \* the upstream's answer
    shown       \* history: the body last shown, and the one an unconditional
                \* request would have been shown

vars == <<config, content, store, stage, request, reply, shown>>

Nothing == [none |-> TRUE]
NoTag == <<>>
Never == 0        \* no Last-Modified

Raw(v) == <<v, "raw", "raw">>

-----------------------------------------------------------------------------
(* should_force_unconditional_full_response: the profiles that do not wait *)
(* for the Content-Type ask for a full response.                           *)
ForcesFull(profile) == profile \in ForcedProfiles

\* The upstream's entity tag, when it has one that reliable_etag accepts.
UpstreamTag(v) == IF v \in Tagged THEN <<"upstream", v>> ELSE NoTag

\* A mutant of DeriveEtag: the release is not hashed.
DeriveEtag_AnyRelease(tag, c) == <<"kserw", tag, "any">>

\* derive_etag hashes the upstream tag and REWRITE_RULE_VERSION (and the base
\* path and the extension): not the profile, nor the enabled rules.
DeriveEtag(tag, c) == <<"kserw", tag, c.rules>>

\* What the client is shown of version v without a condition: what the
\* profile's rewriter makes of it, or the upstream's body.
Emitted(v, c) ==
    IF \/ c.profile = "bypass"
       \/ c.profile \in HtmlProfiles /\ v \notin Rewritable
       THEN Raw(v)
       ELSE <<v, c.profile, c.rules>>

-----------------------------------------------------------------------------
Init ==
    /\ config \in Configs
    /\ content = 1
    /\ store = Nothing
    /\ stage = "idle"
    /\ request = Nothing
    /\ reply = Nothing
    /\ shown = Nothing

\* The upstream publishes the next version.
Publish ==
    /\ content < MaxVersion
    /\ content' = content + 1
    /\ UNCHANGED <<config, store, stage, request, reply, shown>>

\* A mutant of Restart: a request in flight goes on under the new rules.
Restart_InFlight(c) ==
    /\ c.url = config.url
    /\ config' = c
    /\ UNCHANGED <<content, store, stage, request, reply, shown>>

\* The sidecar restarts, with other rules or as another release; a request in
\* flight is lost, the client's store not.
Restart(c) ==
    /\ c.url = config.url
    /\ config' = c
    /\ stage' = "idle" /\ request' = Nothing /\ reply' = Nothing
    /\ UNCHANGED <<content, store, shown>>

\* The client's request with its conditions: request_filter decides and
\* remembers If-None-Match, upstream_request_filter forwards the conditions or
\* removes them.
Ask(tag, modified) ==
    /\ stage = "idle"
    /\ request' =
         [profile |-> config.profile,
          client_if_none_match |-> tag,
          if_none_match     |-> IF ForcesFull(config.profile) THEN NoTag
                                                              ELSE tag,
          if_modified_since |-> IF ForcesFull(config.profile) THEN Never
                                                              ELSE modified]
    /\ stage' = "asked"
    /\ UNCHANGED <<config, content, store, reply, shown>>

AskFull == Ask(NoTag, Never)

AskStored == store # Nothing /\ Ask(store.tag, store.modified)

\* The upstream goes by If-None-Match, and by If-Modified-Since without it.
Answer ==
    /\ stage = "asked"
    /\ LET unchanged ==
             IF request.if_none_match # NoTag
                THEN request.if_none_match = UpstreamTag(content)
                ELSE request.if_modified_since >= content
       IN  reply' = [status |-> IF unchanged THEN 304 ELSE 200,
                     version |-> content]
    /\ stage' = "answered"
    /\ UNCHANGED <<config, content, store, request, shown>>

-----------------------------------------------------------------------------
(* response_filter, and what the client makes of what it lets through.     *)

\* The exchange ends, and the client shows body.
Shows(body) ==
    /\ stage' = "idle" /\ request' = Nothing /\ reply' = Nothing
    /\ shown' = [body |-> body, unconditional |-> Emitted(reply.version, config)]
    /\ UNCHANGED <<config, content>>

\* A response that is not rewritten goes through as it came.
PassesThrough ==
    \/ request.profile = "bypass"
    \/ reply.status # 200
    \/ request.profile \in HtmlProfiles /\ reply.version \notin Rewritable

RespondUpstream304 ==
    /\ stage = "answered" /\ PassesThrough /\ reply.status = 304
    /\ Shows(store.body)
    /\ UNCHANGED store

RespondUnchanged ==
    /\ stage = "answered" /\ PassesThrough /\ reply.status = 200
    /\ Shows(Raw(reply.version))
    /\ store' = [body |-> Raw(reply.version),
                 tag |-> UpstreamTag(reply.version),
                 modified |-> reply.version]

\* A selected response with another Content-Type fails with 502.
RespondInvalidContentType ==
    /\ stage = "answered" /\ ~PassesThrough
    /\ reply.version \notin Rewritable
    /\ stage' = "idle" /\ request' = Nothing /\ reply' = Nothing
    /\ UNCHANGED <<config, content, store, shown>>

RewritesVersion ==
    /\ stage = "answered" /\ ~PassesThrough
    /\ reply.version \in Rewritable

DerivedTag == DeriveEtag(UpstreamTag(reply.version), config)

\* if_none_match_matches: the client has the derived tag.
RespondNotModified ==
    /\ RewritesVersion
    /\ reply.version \in Tagged
    /\ request.client_if_none_match = DerivedTag
    /\ Shows(store.body)
    /\ UNCHANGED store

\* A mutant of RespondRewritten: the upstream's Last-Modified stays.
RespondRewritten_Dated ==
    /\ RewritesVersion
    /\ reply.version \in Tagged
    /\ request.client_if_none_match # DerivedTag
    /\ LET body == <<reply.version, request.profile, config.rules>>
       IN  /\ Shows(body)
           /\ store' = [body |-> body, tag |-> NoTag,
                        modified |-> reply.version]

\* The rewritten body, under the derived tag and without Last-Modified.
RespondRewritten ==
    /\ RewritesVersion
    /\ reply.version \in Tagged
    /\ request.client_if_none_match # DerivedTag
    /\ LET body == <<reply.version, request.profile, config.rules>>
       IN  /\ Shows(body)
           /\ store' = [body |-> body, tag |-> DerivedTag, modified |-> Never]

\* Without a reliable tag the response is no-store.  What the client had stays
\* or goes.
RespondNoStore ==
    /\ RewritesVersion
    /\ reply.version \notin Tagged
    /\ Shows(<<reply.version, request.profile, config.rules>>)
    /\ store' \in {store, Nothing}

Next ==
    \/ Publish
    \/ \E c \in Configs : Restart(c)
    \/ AskFull \/ AskStored \/ Answer
    \/ RespondUpstream304 \/ RespondUnchanged \/ RespondInvalidContentType
    \/ RespondNotModified \/ RespondRewritten \/ RespondNoStore

Spec == Init /\ [][Next]_vars

-----------------------------------------------------------------------------
(* Properties                                                              *)

(* Type invariant: a request has been filtered exactly while it is in      *)
(* flight, and answered exactly while response_filter has it.              *)
TypeOK ==
    /\ config \in Configs
    /\ content \in Versions
    /\ stage \in {"idle", "asked", "answered"}
    /\ (stage = "idle") <=> (request = Nothing)
    /\ (stage = "answered") <=> (reply # Nothing)
    /\ stage = "answered" => /\ reply.status \in {200, 304}
                             /\ reply.version \in 1..content
                             /\ request.profile = config.profile

(* However the client asks, it is shown what it would have been shown      *)
(* without a condition, but for two exceptions, where rules of its URL are *)
(* switched: a page that let its conditions through to the upstream stays  *)
(* as it came when its rule was off, and a body that another profile made  *)
(* stays when the profile changes.  Both are of the upstream's present     *)
(* version and of this release: neither 304, the upstream's or the one of  *)
(* if_none_match_matches, validates another, or a rewritten body where the *)
(* rule is off now.                                                        *)
ConditionIsTransparent ==
    shown # Nothing /\ shown.body # shown.unconditional =>
      \E c \in Configs :
        /\ c.url = config.url
        /\ shown.unconditional[2] \in HtmlProfiles \cup ForcedProfiles
        /\ IF c.profile = "bypass"
              THEN /\ shown.unconditional[2] \in HtmlProfiles
                   /\ shown.body = Raw(shown.unconditional[1])
              ELSE shown.body = [shown.unconditional EXCEPT ![2] = c.profile]

(* The upstream never validates a body that the sidecar has made: derived  *)
(* tags mean nothing to it, and rewritten responses carry no date.         *)
UpstreamValidatesOnlyItsOwn ==
    stage = "answered" /\ reply.status = 304 =>
        store # Nothing /\ store.body = Raw(reply.version)

(* README: "If rule 5 is disabled while rule 4 is enabled, ys1000 HTML     *)
(* falls back to the generic Named Proxy HTML rewrite": while it is        *)
(* disabled, no client that asks is shown the rewrite of rule 5.           *)
FallbackIsServed ==
    shown # Nothing /\ shown.unconditional[2] = "NamedProxyHtml" =>
        shown.body[2] # "Ys1000Html"
=============================================================================
