--------------------------- MODULE MCRewritePolicy --------------------------
(* A TLC instance of RewritePolicy: documents that differ from a good one  *)
(* in one section, and paths in, outside and below the base path, around   *)
(* every root and marker.                                                  *)
EXTENDS RewritePolicy, TLC

Base == <<"regions", "r">>

Bases == {<<>>, Base, <<"regions">>, Base \o <<"proxy">>}

ProxyTails ==
    {<<"proxy", name>> \o rest :
       name \in {"ys1000", "kubekey", "app", ""},
       rest \in {<<>>, <<"">>, <<"x.js">>, <<"assets", "x.js">>,
                 <<"assets", "x.html">>, <<"api", "x.js">>}}

BundleTails ==
    {<<"jsbundles", extension, "dist", distribution>> \o rest :
       extension \in {"app", "app-frontend", "ys1000-frontend"},
       distribution \in {"app", "app-frontend", "ys1000", "ys1000-frontend"},
       rest \in {<<"index.js">>, <<"x.js">>, <<"x.html">>, <<"api", "index.js">>}}

StaticTails ==
    {<<"extensions-static", extension, "dist", root>> \o rest :
       extension \in {"app", ""}, root \in {"v3dist", "dist"},
       rest \in {<<"x.js">>, <<"api", "x.html">>, <<"x.png">>}}

ApiTails == {<<"kapis", "v1">>, <<"api">>, <<"a", "api", "">>, <<"">>}

AllPaths == {base \o tail : base \in Bases,
               tail \in ProxyTails \cup BundleTails \cup StaticTails \cup ApiTails}

Js == {"x.js", "index.js"}
Text == Js \cup {"x.html"}
Safe == {"app", "app-frontend", "ys1000-frontend", "ys1000", "kubekey", "api"}
Frontends == [e \in {"app-frontend", "ys1000-frontend"} |->
                IF e = "app-frontend" THEN "app" ELSE "ys1000"]

-----------------------------------------------------------------------------
(* client.basePath                                                         *)

\* What each segment decodes to; "%zz" and "%ff" decode to nothing.
SegmentDecoded ==
    [s \in {"", "regions", "r", "a", "b", "A", "long", "a b", ".", "..", "'"} |-> <<s>>]
    @@ ("%2e" :> <<".">>) @@ ("%252e%252e" :> <<"%2e%2e">>) @@ ("%2e%2e" :> <<"..">>)
    @@ ("a%2Fb" :> <<"a", "b">>) @@ ("%2F" :> <<"", "">>) @@ ("a%2F" :> <<"a", "">>)
    @@ ("%252Fa" :> <<"%2Fa">>) @@ ("%2Fa" :> <<"", "a">>)
    @@ ("%2527" :> <<"%27">>) @@ ("%27" :> <<"'">>)
    @@ ("%2541" :> <<"%41">>) @@ ("%41" :> <<"A">>) @@ ("%25zz" :> <<"%zz">>)

Segments == DOMAIN SegmentDecoded \cup {"%zz", "%ff"}
LongestBasePath == 18
SegmentChars == [s \in Segments |-> IF s = "long" THEN LongestBasePath ELSE Len(s)]

BaseInputs ==
    {<<first>> \o rest : first \in {"", "r"},
       rest \in {<<>>} \cup {<<s>> : s \in Segments}
                      \cup {<<s, t>> : s, t \in Segments}
                      \cup {<<"regions", "r", "">>, <<"r", "a", "", "">>}}

-----------------------------------------------------------------------------
(* Sockets and lists                                                       *)

Socket(ips, ports) == [ip : ips, port : ports]
Url(schemes, hosts, ports, more) ==
    [scheme : schemes, host : hosts, port : ports, more : more]

MCIpv6 == {"::", "::1", "::ffff:127.0.0.1"}
MCIps == {"0.0.0.0", "127.0.0.1"} \cup MCIpv6
MCMapped == "::ffff:127.0.0.1" :> "127.0.0.1"

GoodListen == Socket({"0.0.0.0"}, {8080})
GoodAdmin == Socket({"0.0.0.0"}, {9090})
GoodUpstream == Url({"http"}, {"127.0.0.1"}, {{8000}}, {FALSE})

AnyListen == Socket(MCIps \cup {"host"}, {8000, 8080})
AnyAdmin == Socket({"127.0.0.1", "::", "::ffff:127.0.0.1", "host"}, {8000, 8080})
AnyUpstream ==
    Url({"http", "https"}, {"127.0.0.1", "::1", "localhost", "10.0.0.1"},
        {{}, {80}, {8000}}, BOOLEAN)

\* The documents with the given values.
Document(base_paths, listen, admin_listen, upstream, enabled, disabled, rules,
         decoded, concurrent, queued) ==
    [base_path : base_paths, listen : listen, admin_listen : admin_listen,
     upstream : upstream, enabled : enabled, disabled : disabled, rules : rules,
     max_decoded_bytes : decoded, max_concurrent : concurrent, max_queued : queued]

Permits == 2

MCDocuments ==
    LET good == {<<"", "regions", "r">>}
        policy(base_paths, enabled, disabled, rules) ==
          Document(base_paths, GoodListen, GoodAdmin, GoodUpstream, enabled,
                   disabled, rules, {1}, {1}, {1})
        sockets(listen, admin_listen, upstream) ==
          Document({<<"">>}, listen, admin_listen, upstream, {<<>>}, {<<>>},
                   {<<>>}, {1}, {1}, {1})
    IN  policy(good, {<<>>, <<"app", "ys1000-frontend">>, <<"*">>},
               {<<>>, <<"app">>}, [1..6 -> BOOLEAN])
        \cup policy(good, {<<"*">>, <<"*", "app">>, <<"app", "app">>, <<"ks-*">>},
                    {<<>>, <<"*">>}, {<<>>, 2 :> FALSE, 7 :> FALSE, 0 :> TRUE})
        \cup policy(BaseInputs, {<<"*">>}, {<<>>}, {<<>>})
        \cup sockets(AnyListen, GoodAdmin, GoodUpstream)
        \cup sockets(AnyListen, AnyAdmin, GoodUpstream)
        \cup sockets(GoodListen, GoodAdmin, AnyUpstream)
        \cup Document({<<"">>}, GoodListen, GoodAdmin, GoodUpstream, {<<>>},
                      {<<>>}, {<<>>}, {0, 1}, 0..(Permits + 1), 0..(Permits + 1))
=============================================================================
