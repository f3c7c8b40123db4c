------------------------------ MODULE Profiles ------------------------------
(***************************************************************************)
(* The stages that each profile gets (build_selected_response_rewriter and *)
(* build_response_rewriter in src/src/rewrite.rs, with the constructors of *)
(* StreamingRewritePipeline in src/src/literal.rs).                        *)
(*                                                                         *)
(* A literal is a sequence of symbols, cut where it shares a part with     *)
(* another one.  Rules that differ only in wording are one rule here.      *)
(***************************************************************************)
EXTENDS Sequences

BasePath     == <<"/", "base">>               \* client.basePath
StaticRoot   == <<"/", "static">>             \* /extensions-static/
AssetRoot    == StaticRoot \o <<"asset">>     \* {extension}/dist/v3dist/ in it
LocationHost == <<"host", "/">>               \* `//${window.location.host}/
ProxyRoot    == <<"/", "proxy">>              \* /proxy/{extension}/
LegacyRoot   == <<"/", "legacy">>             \* KUBEKEY_LEGACY_ROOT

\* A stage: what it searches for, and what it puts before or after it, or in
\* its place.
Stage(mode, source, inserted) ==
    [mode |-> mode, source |-> source, inserted |-> inserted]

Prepend(source)            == Stage("prepend", source, BasePath)
Exact(source, replacement) == Stage("exact", source, replacement)
Buffered                   == Stage("buffered", <<>>, <<>>)

\* The base path behind the host in a script.
AppendBasePath == Stage("append", LocationHost, Tail(BasePath) \o <<"/">>)

\* The proxy root between quotes, in a script.
QuotedRoot(quote) == Exact(<<quote>> \o ProxyRoot \o <<quote>>,
                           <<quote>> \o BasePath \o ProxyRoot \o <<quote>>)

\* The proxy root at the beginning of an attribute value; href and src, after
\* each of five kinds of whitespace, are one here.
AttributeRoot(quote) == Exact(<<" href=", quote>> \o ProxyRoot,
                              <<" href=", quote>> \o BasePath \o ProxyRoot)

\* kubekey_legacy_root_rule
KubekeyLegacyRoot == Exact(LegacyRoot, BasePath)

\* One for the four helper functions of the scripts.
HelperRule == Exact(<<"helper", "(">>, <<"helper-in", "/", "base", "(">>)

\* A mutant of StagesOf: the asset root is replaced without looking for the
\* base path before it.
StagesOf_AssetExact(profile, kubekey) ==
    IF profile = "ConsoleV3"
       THEN <<Exact(AssetRoot, BasePath \o AssetRoot), Prepend(StaticRoot),
              HelperRule>>
       ELSE <<KubekeyLegacyRoot>>

\* The stages of a profile; kubekey: the extension is Kubekey.  The expression
\* stages that come last for ConsoleV3 are not here: they search for the code
\* around a function call, which has no symbol here (see ExpressionRewriter).
StagesOf(profile, kubekey) ==
    LET attributes == <<AttributeRoot("\""), AttributeRoot("'")>>
                        \o (IF kubekey THEN <<KubekeyLegacyRoot>> ELSE <<>>)
    IN  CASE profile = "ConsoleV3" ->
               <<Prepend(AssetRoot), Prepend(StaticRoot), HelperRule>>
          [] profile \in {"FrontendIndexJsBundle", "JsBundle"} ->
               <<AppendBasePath>>
          [] profile = "Ys1000FrontendIndexJsBundle" ->
               <<AppendBasePath, QuotedRoot("\""), QuotedRoot("'")>>
          [] profile = "KubekeyAssetJs" -> <<KubekeyLegacyRoot>>
          [] profile = "NamedProxyHtml" -> attributes
          [] profile = "Ys1000Html"     -> Append(attributes, Buffered)

AllProfiles == {"ConsoleV3", "FrontendIndexJsBundle", "JsBundle",
                "Ys1000FrontendIndexJsBundle", "KubekeyAssetJs",
                "NamedProxyHtml", "Ys1000Html"}

ProfilePipelines == {StagesOf(profile, kubekey) :
                       profile \in AllProfiles, kubekey \in BOOLEAN}
=============================================================================
