------------------------ MODULE MCRepresentationCache -----------------------
(* TLC instances of RepresentationCache.                                   *)
EXTENDS RepresentationCache

(* Bundles and pages, in two releases: one page whose rule stays on, and   *)
(* URLs that any of their rules may be switched of, a bundle, the index of *)
(* a frontend bundle and both kinds of pages.                              *)
SwitchedConfigs ==
    LET ProfilesOf == [kept   |-> {"NamedProxyHtml"},
                       bundle |-> {"bypass", "JsBundle"},
                       index  |-> {"bypass", "JsBundle", "FrontendIndexJsBundle"},
                       page   |-> {"bypass", "NamedProxyHtml"},
                       ys1000 |-> {"bypass", "NamedProxyHtml", "Ys1000Html"}]
    IN  UNION {[url : {u}, profile : ProfilesOf[u], rules : {"v33", "v34"}] :
                 u \in DOMAIN ProfilesOf}

(* A ys1000 page: rule 5 is switched, rule 4 stays on. *)
Ys1000Configs == [url : {"ys1000"}, profile : {"Ys1000Html", "NamedProxyHtml"},
                  rules : {"v34"}]
=============================================================================
