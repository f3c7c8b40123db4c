------------------------- MODULE MCRewritePipeline --------------------------
(* TLC instances of RewritePipeline: stages that make and break occurrences *)
(* for the next one and the pipeline of each profile, with every body of a *)
(* few symbols, in every chunking, and pages put together from assignments *)
(* to window._mig_meta.                                                    *)
EXTENDS RewritePipeline

CONSTANTS MaxLength

(* "e" begins characters of three bytes and allows "t" after it, not "u".  *)
Leads == [b \in {"e"} |-> 3]
Seconds == [b \in {"e"} |-> {"t"}]

Strings(symbols, n) == UNION {[1..k -> symbols] : k \in 0..n}

Given(pipeline, texts, limit, chunks) ==
    [stages : {pipeline}, body : texts, max_bytes : {limit}, sizes : {chunks}]

LiteralStages ==
    <<Exact(<<"a", "b">>, <<"b", "b", "a">>), Exact(<<"b", "a">>, <<"a">>),
      Exact(<<"b">>, <<"a", "b">>)>>

LiteralCases ==
    Given(LiteralStages, Strings({"a", "b", "e", "t", "u"}, MaxLength), 5,
          0..MaxLength)

(* The symbols of a profile's literals, and one character.                 *)
ScriptAlphabet(profile) ==
    CASE profile = "ConsoleV3" -> {"/", "base", "static", "asset", "helper", "("}
      [] profile = "JsBundle" -> {"host", "/", "base", "e", "t"}
      [] profile = "Ys1000FrontendIndexJsBundle" ->
           {"\"", "/", "base", "proxy"}
      [] profile = "KubekeyAssetJs" -> {"/", "legacy", "base"}

ScriptCases(profile) ==
    Given(StagesOf(profile, FALSE), Strings(ScriptAlphabet(profile), MaxLength - 1),
          100, {0, 1, 2, 3})

Original == [e \in {"old", "new", "other"} |->
               CASE e = "old" -> "/proxy/ys1000"
                 [] e = "new" -> "/base/proxy/ys1000"
                 [] e = "other" -> "/elsewhere"]
Replaced == [e \in {"old", "new", "other"} |-> "new"]

W == ASSIGNMENT
Fragments ==
    {<<W, "=", "'", "old", "'">>, <<W, "=", "\"", "old", "\"">>,
     <<W, " ", "=", " ", " ", "'", "old", "'">>, <<W, "=", "'", "new", "'">>,
     <<W, "=", "'", "other", "'">>, <<W, "=", "'", "old", "old", "'">>,
     <<W, "=", "'">>, <<W, "=", "old">>, <<W>>, <<"'">>, <<"\"">>, <<"old">>,
     <<" href=", "'", "/", "proxy", "'">>, <<" href=", "\"", "/">>,
     <<"proxy">>}

HtmlStages == StagesOf("Ys1000Html", FALSE)
KubekeyStages == StagesOf("NamedProxyHtml", TRUE)

AllCases ==
    LiteralCases
    \cup ScriptCases("ConsoleV3") \cup ScriptCases("JsBundle")
    \cup ScriptCases("Ys1000FrontendIndexJsBundle") \cup ScriptCases("KubekeyAssetJs")
    \cup Given(KubekeyStages, Strings({" href=", "'", "/", "proxy", "legacy"}, 5),
               100, {1, 2, 3})
    \cup Given(HtmlStages, Fragments, 100, {0, 1, 2, 3})
    \cup Given(HtmlStages, {f \o g : f, g \in Fragments}, 9, {1, 4})
    \cup Given(HtmlStages, {f \o g \o h : f, g, h \in Fragments}, 100, {})
    \cup Given(HtmlStages, Strings({"'", "e", "t"}, 3), 2, 0..3)

Characters == {"a", "b", "/", "base", "static", "asset", "host", "proxy", "legacy",
               " href=", "helper", "helper-in", "(", "=", " ", "'", "\"", W}
              \cup DOMAIN Original

(* The profiles' literals that get the base path insert it quietly.        *)
ASSUME QuietAssumption ==
    \A pipeline \in ProfilePipelines : \A i \in DOMAIN pipeline :
      pipeline[i].mode \in {"prepend", "append"} => InsertsQuietly(pipeline[i])
=============================================================================
