---------------------- MODULE RepresentationCacheProofs ---------------------
(***************************************************************************)
(* Theorems about RepresentationCache, for any number of versions, any of  *)
(* them tagged or rewritable, and any set of configurations, with rules    *)
(* switched at will.                                                       *)
(***************************************************************************)
EXTENDS RepresentationCache, TLAPS

(* The two kinds of response a client can have stored. *)
RawStore(v) == [body |-> Raw(v), tag |-> UpstreamTag(v), modified |-> v]
DerivedStore(v, c) ==
    [body |-> <<v, c.profile, c.rules>>,
     tag |-> DeriveEtag(UpstreamTag(v), c), modified |-> Never]

(* What the client has is what the sidecar has let through or made, of a   *)
(* version that there has been.                                            *)
StoreInv ==
    \/ store = Nothing
    \/ \E v \in 1..content : store = RawStore(v)
    \/ \E v \in Tagged \cap Rewritable, c \in Configs :
         c.url = config.url /\ c.profile # "bypass" /\ store = DerivedStore(v, c)

(* A request in flight has the conditions of what is stored now, or none.  *)
RequestInv ==
    stage # "idle" =>
      \E tag, modified :
        /\ request =
             [profile |-> config.profile,
              client_if_none_match |-> tag,
              if_none_match     |-> IF ForcesFull(config.profile) THEN NoTag ELSE tag,
              if_modified_since |-> IF ForcesFull(config.profile) THEN Never
                                                                  ELSE modified]
        /\ \/ tag = NoTag /\ modified = Never
           \/ store # Nothing /\ tag = store.tag /\ modified = store.modified

(* The upstream's 304 confirms a body of its own. *)
ReplyInv ==
    stage = "answered" =>
      \E v \in 1..content, status \in {200, 304} :
        /\ reply = [status |-> status, version |-> v]
        /\ status = 304 => store = RawStore(v) /\ ~ForcesFull(config.profile)

StageInv ==
    /\ stage \in {"idle", "asked", "answered"}
    /\ stage = "idle" => request = Nothing
    /\ stage # "answered" => reply = Nothing

CacheInv ==
    /\ config \in Configs /\ content \in Versions
    /\ StageInv /\ StoreInv /\ RequestInv /\ ReplyInv

-----------------------------------------------------------------------------
(* Entity tags and records of different kinds differ. *)

LEMMA NothingElse ==
    /\ \A a, b, c, d : [profile |-> a, client_if_none_match |-> b, if_none_match |-> c,
                        if_modified_since |-> d] # Nothing
    /\ \A a, b : [status |-> a, version |-> b] # Nothing
    /\ \A a, b, c : [body |-> a, tag |-> b, modified |-> c] # Nothing
    /\ \A a, b : [body |-> a, unconditional |-> b] # Nothing
<1>1. DOMAIN Nothing = {"none"}
  BY DEF Nothing
<1>2. /\ \A a, b, c, d : "profile" \in DOMAIN
           [profile |-> a, client_if_none_match |-> b, if_none_match |-> c,
            if_modified_since |-> d]
      /\ \A a, b : "status" \in DOMAIN [status |-> a, version |-> b]
      /\ \A a, b, c : "body" \in DOMAIN [body |-> a, tag |-> b, modified |-> c]
      /\ \A a, b : "body" \in DOMAIN [body |-> a, unconditional |-> b]
  OBVIOUS
<1>. QED  BY <1>1, <1>2

LEMMA TagsDiffer ==
    ASSUME NEW v, NEW w, NEW t, NEW c
    PROVE  /\ UpstreamTag(v) # NoTag /\ UpstreamTag(v) = UpstreamTag(w) => v = w
           /\ DeriveEtag(t, c) # UpstreamTag(v)
           /\ DeriveEtag(t, c) # NoTag
<1>1. <<"upstream", v>> = <<"upstream", w>> => v = w
  OBVIOUS
<1>2. <<"upstream", v>> # <<>> /\ <<"upstream", w>> # <<>>
  OBVIOUS
<1>3. DeriveEtag(t, c) # <<>> /\ DeriveEtag(t, c) # <<"upstream", v>>
  BY DEF DeriveEtag
<1>. QED  BY <1>1, <1>2, <1>3 DEF UpstreamTag, NoTag

LEMMA DerivedDiffer ==
    ASSUME NEW v \in Tagged, NEW w \in Tagged, NEW c, NEW d,
           DeriveEtag(UpstreamTag(v), c) = DeriveEtag(UpstreamTag(w), d)
    PROVE  v = w /\ c.rules = d.rules
<1>1. <<"kserw", <<"upstream", v>>, c.rules>> = <<"kserw", <<"upstream", w>>, d.rules>>
  BY DEF DeriveEtag, UpstreamTag
<1>2. c.rules = d.rules /\ <<"upstream", v>> = <<"upstream", w>>
  BY <1>1
<1>. QED  BY <1>2

-----------------------------------------------------------------------------
(* What both records of a store say of it. *)
LEMMA StoresDiffer ==
    /\ \A v, w : RawStore(v) = RawStore(w) => v = w
    /\ \A v, w, c : DerivedStore(v, c) = RawStore(w) => FALSE
    /\ \A v, c : RawStore(v) # Nothing /\ DerivedStore(v, c) # Nothing
    /\ \A v : RawStore(v).body = Raw(v) /\ RawStore(v).tag = UpstreamTag(v)
             /\ RawStore(v).modified = v
    /\ \A v, c : DerivedStore(v, c).tag = DeriveEtag(UpstreamTag(v), c)
                /\ DerivedStore(v, c).modified = Never
                /\ DerivedStore(v, c).body = <<v, c.profile, c.rules>>
<1>1. /\ \A v : RawStore(v).body = Raw(v) /\ RawStore(v).tag = UpstreamTag(v)
               /\ RawStore(v).modified = v
      /\ \A v, c : DerivedStore(v, c).tag = DeriveEtag(UpstreamTag(v), c)
                  /\ DerivedStore(v, c).modified = Never
                  /\ DerivedStore(v, c).body = <<v, c.profile, c.rules>>
  BY DEF RawStore, DerivedStore
<1>2. \A v, c : RawStore(v) # Nothing /\ DerivedStore(v, c) # Nothing
  BY NothingElse DEF RawStore, DerivedStore
<1>3. \A v, w, c : DerivedStore(v, c) # RawStore(w)
  BY <1>1, TagsDiffer
<1>. QED  BY <1>1, <1>2, <1>3

(* Every step keeps what the client has and what is in flight.             *)
LEMMA StepKeepsCacheInv == CacheInv /\ [Next]_vars => CacheInv'
<1>. SUFFICES ASSUME CacheInv, [Next]_vars PROVE CacheInv'
  OBVIOUS
<1>. USE MaxVersionAssumption DEF Versions
<1>1. CASE Publish
  <2>1. content' \in Versions /\ content \in Nat /\ content < content'
    BY <1>1 DEF Publish, CacheInv
  <2>2. StoreInv'
    BY <1>1, <2>1 DEF Publish, CacheInv, StoreInv
  <2>3. ReplyInv'
    BY <1>1, <2>1 DEF Publish, CacheInv, ReplyInv
  <2>. QED  BY <1>1, <2>1, <2>2, <2>3 DEF Publish, CacheInv, StageInv, RequestInv
<1>2. ASSUME NEW c \in Configs, Restart(c) PROVE CacheInv'
  <2>1. StoreInv'
    BY <1>2 DEF Restart, CacheInv, StoreInv
  <2>. QED  BY <1>2, <2>1 DEF Restart, CacheInv, StageInv, RequestInv, ReplyInv
<1>3. ASSUME NEW tag, NEW modified, Ask(tag, modified),
             \/ tag = NoTag /\ modified = Never
             \/ store # Nothing /\ tag = store.tag /\ modified = store.modified
      PROVE  CacheInv'
  <2>1. RequestInv'
    BY <1>3 DEF Ask, RequestInv
  <2>2. StoreInv'
    BY <1>3 DEF Ask, CacheInv, StoreInv
  <2>. QED  BY <1>3, <2>1, <2>2 DEF Ask, CacheInv, StageInv, ReplyInv
<1>4. CASE Answer
  <2>. DEFINE status == reply'.status
  <2>1. /\ stage = "asked" /\ stage' = "answered"
        /\ UNCHANGED <<config, content, store, request>>
        /\ reply' = [status |-> status, version |-> content]
        /\ status \in {200, 304}
        /\ status = 304 =>
             IF request.if_none_match # NoTag
                THEN request.if_none_match = UpstreamTag(content)
                ELSE request.if_modified_since >= content
    BY <1>4 DEF Answer
  <2>. HIDE DEF status
  <2>2. ASSUME status = 304
        PROVE  store = RawStore(content) /\ ~ForcesFull(config.profile)
    <3>1. PICK tag, modified :
            /\ request.if_none_match
                 = IF ForcesFull(config.profile) THEN NoTag ELSE tag
            /\ request.if_modified_since
                 = IF ForcesFull(config.profile) THEN Never ELSE modified
            /\ \/ tag = NoTag /\ modified = Never
               \/ store # Nothing /\ tag = store.tag /\ modified = store.modified
      BY <2>1 DEF CacheInv, RequestInv
    <3>2. content \in Nat /\ content >= 1
      BY DEF CacheInv
    <3>3. ~(Never >= content)
      BY <3>2 DEF Never
    <3>4. /\ ~ForcesFull(config.profile)
          /\ store # Nothing /\ tag = store.tag /\ modified = store.modified
          /\ IF tag # NoTag THEN tag = UpstreamTag(content) ELSE modified >= content
      BY <2>1, <2>2, <3>1, <3>3
    <3>5. CASE \E v \in 1..content : store = RawStore(v)
      <4>1. PICK v \in 1..content : store = RawStore(v)
        BY <3>5
      <4>2. tag = UpstreamTag(v) /\ modified = v
        BY <3>4, <4>1, StoresDiffer
      <4>3. v = content
        BY <3>2, <3>4, <4>2, TagsDiffer
      <4>. QED  BY <3>4, <4>1, <4>3
    <3>6. CASE \E v \in Tagged \cap Rewritable, c \in Configs :
                 store = DerivedStore(v, c)
      <4>1. PICK v \in Tagged \cap Rewritable, c \in Configs :
                 store = DerivedStore(v, c)
        BY <3>6
      <4>2. tag = DeriveEtag(UpstreamTag(v), c)
        BY <3>4, <4>1, StoresDiffer
      <4>. QED  BY <3>4, <4>2, TagsDiffer
    <3>. QED  BY <3>4, <3>5, <3>6 DEF CacheInv, StoreInv
  <2>3. content \in 1..content
    BY DEF CacheInv
  <2>4. ReplyInv'
    BY <2>1, <2>2, <2>3 DEF ReplyInv
  <2>5. StoreInv' /\ RequestInv'
    BY <2>1 DEF CacheInv, StoreInv, RequestInv
  <2>. QED  BY <2>1, <2>4, <2>5 DEF CacheInv, StageInv
<1>5. ASSUME stage' = "idle", request' = Nothing, reply' = Nothing,
             UNCHANGED <<config, content>>, StoreInv'
      PROVE  CacheInv'
  BY <1>5 DEF CacheInv, StageInv, RequestInv, ReplyInv
<1>6. ASSUME UNCHANGED <<config, content, store>>
      PROVE  StoreInv'
  BY <1>6 DEF CacheInv, StoreInv
<1>7. stage = "answered" => /\ reply.version \in 1..content
                            /\ request.profile = config.profile
  BY DEF CacheInv, ReplyInv, RequestInv
<1>8. CASE RespondUpstream304
  BY <1>8, <1>5, <1>6 DEF RespondUpstream304, Shows
<1>9. CASE RespondUnchanged
  <2>1. store' = RawStore(reply.version) /\ reply.version \in 1..content'
    BY <1>9, <1>7 DEF RespondUnchanged, Shows, RawStore
  <2>. QED  BY <1>9, <1>5, <2>1 DEF RespondUnchanged, Shows, StoreInv
<1>10. CASE RespondInvalidContentType
  BY <1>10, <1>5, <1>6 DEF RespondInvalidContentType
<1>11. CASE RespondNotModified
  BY <1>11, <1>5, <1>6 DEF RespondNotModified, Shows
<1>12. CASE RespondRewritten
  <2>1. /\ reply.version \in Tagged \cap Rewritable
        /\ config.profile # "bypass"
        /\ config' = config /\ config \in Configs
        /\ store' = DerivedStore(reply.version, config)
    BY <1>12, <1>7 DEF RespondRewritten, RewritesVersion, PassesThrough, Shows,
                       DerivedTag, DerivedStore, CacheInv
  <2>2. StoreInv'
    BY <2>1 DEF StoreInv
  <2>. QED  BY <1>12, <1>5, <2>2 DEF RespondRewritten, Shows
<1>13. CASE RespondNoStore
  <2>1. UNCHANGED <<config, content>> /\ store' \in {store, Nothing}
    BY <1>13 DEF RespondNoStore, Shows
  <2>2. StoreInv'
    BY <2>1, <1>6 DEF StoreInv
  <2>. QED  BY <1>13, <1>5, <2>2 DEF RespondNoStore, Shows
<1>14. CASE UNCHANGED vars
  BY <1>14, <1>6 DEF vars, CacheInv, StageInv, RequestInv, ReplyInv
<1>15. CASE AskFull
  BY <1>15, <1>3 DEF AskFull
<1>16. CASE AskStored
  BY <1>16, <1>3 DEF AskStored
<1>. QED  BY <1>1, <1>2, <1>4, <1>8, <1>9, <1>10, <1>11, <1>12, <1>13, <1>14,
             <1>15, <1>16 DEF Next

LEMMA CacheInvariant == Spec => []CacheInv
<1>1. Init => CacheInv
  BY MaxVersionAssumption DEF Init, CacheInv, StageInv, StoreInv, RequestInv,
     ReplyInv, Versions
<1>. QED  BY <1>1, StepKeepsCacheInv, PTL DEF Spec

(* The type invariant: a request in flight belongs to the configuration    *)
(* that is in force, since a restart loses it.                             *)
THEOREM CacheTypeOK == Spec => []TypeOK
<1>1. CacheInv => TypeOK
  <2>. SUFFICES ASSUME CacheInv PROVE TypeOK
    OBVIOUS
  <2>1. stage # "idle" => request # Nothing /\ request.profile = config.profile
    BY NothingElse DEF CacheInv, RequestInv
  <2>2. stage = "answered" => /\ reply # Nothing
                              /\ reply.status \in {200, 304}
                              /\ reply.version \in 1..content
    BY NothingElse DEF CacheInv, ReplyInv
  <2>. QED  BY <2>1, <2>2 DEF CacheInv, StageInv, TypeOK
<1>. QED  BY <1>1, CacheInvariant, PTL

(* Whatever the rules and releases, the upstream validates no body that    *)
(* the sidecar has made.                                                   *)
THEOREM UpstreamValidates == Spec => []UpstreamValidatesOnlyItsOwn
<1>1. CacheInv => UpstreamValidatesOnlyItsOwn
  BY StoresDiffer DEF CacheInv, ReplyInv, UpstreamValidatesOnlyItsOwn
<1>. QED  BY <1>1, CacheInvariant, PTL

-----------------------------------------------------------------------------
(* Transparency                                                            *)

(* A client stored a body as it came, where a rule would now rewrite it,   *)
(* only of a URL that may have no rule.                                    *)
RawInv ==
    (\A c \in Configs : c.url = config.url => c.profile # "bypass") =>
      \A v : store = RawStore(v) => v \notin Rewritable

LEMMA StepKeepsRawInv ==
    ASSUME CacheInv, RawInv, [Next]_vars
    PROVE  RawInv'
<1>1. config \in Configs
  BY DEF CacheInv
<1>2. ASSUME UNCHANGED <<config, store>> PROVE RawInv'
  BY <1>2 DEF RawInv
<1>3. ASSUME NEW c \in Configs, Restart(c) PROVE RawInv'
  BY <1>3 DEF Restart, RawInv
<1>4. CASE RespondUnchanged
  <2>1. /\ config' = config /\ store' = RawStore(reply.version)
        /\ config.profile = "bypass" \/ reply.version \notin Rewritable
    BY <1>4 DEF RespondUnchanged, Shows, RawStore, PassesThrough, CacheInv, RequestInv
  <2>. QED  BY <1>1, <2>1, StoresDiffer DEF RawInv
<1>5. CASE RespondRewritten
  <2>1. store' = DerivedStore(reply.version, config)
    BY <1>5 DEF RespondRewritten, RewritesVersion, DerivedTag, DerivedStore,
                CacheInv, RequestInv
  <2>. QED  BY <2>1, StoresDiffer DEF RawInv
<1>6. CASE RespondNoStore
  <2>1. config' = config /\ store' \in {store, Nothing}
    BY <1>6 DEF RespondNoStore, Shows
  <2>. QED  BY <2>1, StoresDiffer DEF RawInv
<1>7. CASE Publish \/ AskFull \/ AskStored \/ Answer
  BY <1>2, <1>7 DEF Publish, AskFull, AskStored, Ask, Answer
<1>8. CASE RespondUpstream304 \/ RespondInvalidContentType \/ RespondNotModified
  BY <1>2, <1>8 DEF RespondUpstream304, RespondInvalidContentType,
                    RespondNotModified, Shows
<1>9. CASE UNCHANGED vars
  BY <1>2, <1>9 DEF vars
<1>. QED  BY <1>3, <1>4, <1>5, <1>6, <1>7, <1>8, <1>9 DEF Next

(* What each of the client's cases shows: the two that reuse what is       *)
(* stored show a body of the upstream, or one with the tag of the same     *)
(* version and release.                                                    *)
LEMMA StepKeepsTransparency ==
    ASSUME CacheInv, RawInv, [Next]_vars, ConditionIsTransparent
    PROVE  ConditionIsTransparent'
<1>1. ASSUME NEW body, Shows(body), body = Emitted(reply.version, config)
      PROVE  ConditionIsTransparent'
  BY <1>1 DEF Shows, ConditionIsTransparent
<1>2. stage = "answered" => /\ request.profile = config.profile
                            /\ reply.status \in {200, 304}
  BY DEF CacheInv, ReplyInv, RequestInv
<1>3. config \in Configs
  BY DEF CacheInv
<1>4. config.profile \in {"bypass"} \cup HtmlProfiles \cup ForcedProfiles
  BY <1>3, ConfigsAssumption
<1>5. CASE UNCHANGED <<shown, config>>
  BY <1>5 DEF ConditionIsTransparent
<1>6. CASE RespondUpstream304
  <2>1. store = RawStore(reply.version) /\ ~ForcesFull(config.profile)
    BY <1>6 DEF RespondUpstream304, CacheInv, ReplyInv
  <2>2. Shows(Raw(reply.version))
    BY <1>6, <2>1, StoresDiffer DEF RespondUpstream304
  <2>3. CASE Emitted(reply.version, config) = Raw(reply.version)
    BY <1>1, <2>2, <2>3
  <2>4. CASE Emitted(reply.version, config) # Raw(reply.version)
    <3>1. /\ config.profile \in HtmlProfiles /\ reply.version \in Rewritable
          /\ Emitted(reply.version, config)
               = <<reply.version, config.profile, config.rules>>
      BY <1>4, <2>1, <2>4 DEF ForcesFull, Emitted
    <3>2. PICK c \in Configs : c.url = config.url /\ c.profile = "bypass"
      BY <2>1, <3>1 DEF RawInv
    <3>. QED  BY <2>2, <3>1, <3>2 DEF Shows, ConditionIsTransparent
  <2>. QED  BY <2>3, <2>4
<1>7. CASE RespondUnchanged
  <2>1. Emitted(reply.version, config) = Raw(reply.version)
    BY <1>2, <1>7 DEF RespondUnchanged, PassesThrough, Emitted
  <2>. QED  BY <1>1, <1>7, <2>1 DEF RespondUnchanged
<1>8. RewritesVersion =>
        /\ config.profile # "bypass"
        /\ Emitted(reply.version, config)
             = <<reply.version, config.profile, config.rules>>
  BY <1>2 DEF RewritesVersion, PassesThrough, Emitted
<1>9. CASE RespondNotModified
  <2>1. store.tag = DerivedTag /\ reply.version \in Tagged /\ store # Nothing
    <3>1. DerivedTag # NoTag
      BY TagsDiffer DEF DerivedTag
    <3>. QED  BY <1>9, <3>1 DEF RespondNotModified, RewritesVersion, CacheInv, RequestInv
  <2>2. ~(\E v \in 1..content : store = RawStore(v))
    BY <2>1, StoresDiffer, TagsDiffer DEF DerivedTag
  <2>3. PICK v \in Tagged \cap Rewritable, c \in Configs :
               /\ c.url = config.url /\ c.profile # "bypass"
               /\ store = DerivedStore(v, c)
    BY <2>1, <2>2 DEF CacheInv, StoreInv
  <2>4. v = reply.version /\ c.rules = config.rules
    BY <2>1, <2>3, StoresDiffer, DerivedDiffer DEF DerivedTag
  <2>5. Shows(<<reply.version, c.profile, config.rules>>)
    BY <1>9, <2>3, <2>4, StoresDiffer DEF RespondNotModified
  <2>6. config.profile \in HtmlProfiles \cup ForcedProfiles
    BY <1>4, <1>8, <1>9 DEF RespondNotModified
  <2>. DEFINE now == <<reply.version, config.profile, config.rules>>
  <2>7. /\ config' = config
        /\ shown' = [body |-> <<reply.version, c.profile, config.rules>>,
                     unconditional |-> now]
    BY <1>8, <1>9, <2>5 DEF Shows, RespondNotModified
  <2>8. /\ now[2] = config.profile
        /\ <<reply.version, c.profile, config.rules>> = [now EXCEPT ![2] = c.profile]
    OBVIOUS
  <2>. HIDE DEF now
  <2>. QED  BY <2>3, <2>6, <2>7, <2>8 DEF ConditionIsTransparent
<1>10. CASE RespondRewritten
  BY <1>1, <1>2, <1>8, <1>10 DEF RespondRewritten, RewritesVersion
<1>11. CASE RespondNoStore
  BY <1>1, <1>2, <1>8, <1>11 DEF RespondNoStore, RewritesVersion
<1>12. CASE Publish
  BY <1>5, <1>12 DEF Publish
<1>13. ASSUME NEW c \in Configs, Restart(c) PROVE ConditionIsTransparent'
  BY <1>13 DEF Restart, ConditionIsTransparent
<1>14. CASE AskFull \/ AskStored \/ Answer
  BY <1>5, <1>14 DEF AskFull, AskStored, Ask, Answer
<1>15. CASE RespondInvalidContentType \/ UNCHANGED vars
  BY <1>5, <1>15 DEF RespondInvalidContentType, vars
<1>. QED  BY <1>6, <1>7, <1>9, <1>10, <1>11, <1>12, <1>13, <1>14, <1>15 DEF Next

(* Over any versions, restarts and releases, and whatever rules are        *)
(* switched, a condition changes what the client is shown in no other way  *)
(* than the two that ConditionIsTransparent allows.                        *)
THEOREM Transparency == Spec => []ConditionIsTransparent
<1>1. Init => RawInv /\ ConditionIsTransparent
  BY StoresDiffer DEF Init, RawInv, ConditionIsTransparent
<1>2. CacheInv /\ RawInv /\ ConditionIsTransparent /\ [Next]_vars
        => (RawInv /\ ConditionIsTransparent)'
  BY StepKeepsTransparency, StepKeepsRawInv
<1>. QED  BY <1>1, <1>2, CacheInvariant, PTL DEF Spec
=============================================================================
