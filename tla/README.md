# Verification of kse-static-rewrite-proxy

TLA+ models of the static-rewrite sidecar, the TLC runs that check them on small
instances, and TLAPS proofs of the properties that matter most for every value of
the constants. Line references are to files of the repository (`src/src/proxy.rs`
is written `proxy.rs`, and so on).

- [1. The system](#1-the-system)
- [2. What is hard](#2-what-is-hard)
- [3. The modules and the code](#3-the-modules-and-the-code)
- [4. What the runs check](#4-what-the-runs-check)
- [5. Bounds, deadlock and fairness](#5-bounds-deadlock-and-fairness)
- [6. What is proved](#6-what-is-proved)
- [7. Findings](#7-findings)
- [8. What is not modelled](#8-what-is-not-modelled)
- [9. The plan](#9-the-plan)

## 1. The system

The sidecar is one Pingora process between an ingress and the static upstream of
the KSE console. It forwards everything; the responses that a *rewrite rule*
selects are decoded, rewritten as they stream through, and given an entity tag of
the sidecar's own. Everything lives in memory: a restart loses all state but the
configuration file.

| Component | Code | State | Operations |
|---|---|---|---|
| Admission | `struct Admission`, `admit_rewrite`, `stop_rewrite` (`proxy.rs:62-143`) | two Tokio semaphores, `active` and `queued` | try to get an active permit; else a queue permit, and wait in line for an active one; else answer 503; release |
| Request lifecycle | `impl ProxyHttp` (`proxy.rs:172-459`) | one `RequestContext` per request: decision, permit, rewriter, suppressed body, outcome | the callbacks `request_filter`, `upstream_peer`, `upstream_request_filter`, `response_filter`, `response_body_filter`, `logging`, in that order, any of which may fail |
| Conditional requests | `proxy.rs:255-360`, `525-569` | none in the sidecar; the client's cache and the upstream's versions | drop or forward conditions, derive an entity tag, answer 304 |
| Rewrite policy | `RewritePolicy::decide` (`rewrite.rs:109-353`) | none of its own; the rules and lists of the configuration | path, method, enabled rules and extension lists to a profile or bypass |
| API path prefixing | `api_uri_with_base_path` (`proxy.rs`) | none | put `client.basePath` before an API path |
| Pipeline | `StreamingRewritePipeline` (`literal.rs:186-275`) | the stages, bytes counted, limit | `push`, `finish` |
| Literal stage | `StreamingLiteralRewriter` (`literal.rs:575-880`) | pending bytes, input history, UTF-8 tail | `push`, `finish` |
| Expression stage | `StreamingExpressionPatternRewriter` (`literal.rs:310-561`) | pending bytes, previous byte | `push`, `finish` |
| Buffered stage | `StreamingBufferedRewriter` (`literal.rs:273-307`) with the `window._mig_meta` transform (`rewrite.rs:424-487`) | the whole body | `push`, `finish` |
| Configuration | `EffectiveConfig::from_yaml` (`config.rs:119-396`) | the effective configuration, fixed for the life of the process | validate the document: base path, sockets, upstream, limits, lists, rules |
| Admin server | `admin.rs` | none | health, readiness (one probe of the upstream with a timeout), version, metrics |
| Metrics | `metrics.rs` | two gauges, counters, histograms | updated by the lifecycle |
| Assembly | `main.rs`, `KseRewriteProxy::new` (`proxy.rs:68-82`) | none | read the configuration once, exit if it is refused, make the semaphores, start both servers |

How they interact. `main` loads the **configuration** once; everything below reads it and
nothing changes it. Pingora calls the callbacks of one request in sequence and
those of different requests concurrently, on the threads of one Tokio runtime.
`request_filter` asks the **policy**; if a profile is selected for a GET it goes
through **admission**, which shares the two semaphores and the two gauges with
every other request and is the only place where a request waits for another.
`upstream_request_filter` applies the **path prefix** and the rules for
**conditional requests**. `response_filter` looks at the response header and
either keeps the rewriter or calls `stop_rewrite`, which gives the permit back
early. `response_body_filter` pushes each chunk through the **pipeline**, whose
stages hand their output on to each other. `logging` runs once at the end of every
request, failed or not, and releases what is still held.

What makes each correct:

- **Admission**: never more than `maxConcurrent` rewrites and `maxQueued` waiting;
  no permit lost or made on any path; no permit idle while somebody waits; who
  waits is served in order and eventually.
- **Lifecycle**: the body sent is of the kind the header announces; the gauges and
  the outcome label tell the truth; a rewriter exists only under a permit.
- **Conditional requests**: a conditional request never shows a body that an
  unconditional one would not.
- **Policy and prefixing**: a switched-off rule affects only its own requests and
  falls back only where documented; what is rewritten is what was decided about;
  no path is prefixed twice.
- **Configuration**: what is accepted keeps every promise the other parts rely on (limits
  a semaphore can hold, a base path no decoding changes the meaning of, sockets that do not
  reach each other), and the decisions are those the document asks for.
- **Stages**: the output does not depend on where chunks are cut and equals a
  reference definition on the whole body; memory stays bounded; rewriting twice
  changes nothing.
- **Pipeline**: the stages compose; the limit is exact; exactly the bodies that
  are not UTF-8 are refused; each reference gets the base path once; of a page with
  `window._mig_meta`, exactly the documents assigned to it change.

## 2. What is hard

`PROJECT.json` lists every hazard at its line. In short:

- *Interleaving*: two `try_acquire_owned` calls, a wait, and releases by other
  requests in between; each release is two steps, permit first and gauge second;
  a woken waiter owns an active and a queue permit at once until it is scheduled.
- *Partial failure*: every callback after admission may fail, and all failures must end in
  the same release, done exactly once by `stop_rewrite` or by `logging`.
- *Ordering*: a 200 turned into a 304 after the rewriter was set up; a body error
  found after the header was sent; chunk boundaries inside a source, a suffix, an
  expression, a character; `finish` pushing the tail of one stage into the next; a stage that
  searches for a part of what the one before has inserted.
- *Stale state*: `previous_byte` and `input_history` describe bytes that left long
  ago; a client's stored tag describes another version, release or rule set; a rule switched
  in the document is looked at much later, under another name.
- *Text that is read twice*: an escape that is encoded more than once, an assignment inside the
  value of another one or broken off at the end of the page, an address with several spellings.
- *Boundaries*: the byte limit, limits beyond what a semaphore holds, `saturating_sub` with sources of one byte, inserted
  text longer than all input so far.
- *Liveness*: a queued request waits without a timeout.

There is no crash recovery in the code, since nothing is persisted; a restart matters
only for what clients keep, and `RepresentationCache` has it.

## 3. The modules and the code

```
AdmissionControl  <== implemented by ==  KseRewriteProxy --- KseRewriteProxyProofs

ByteSlices --- LiteralStage --- LiteralRewriter --- LiteralRewriterProofs (*)
           --- ExpressionRewriter ----------------- ExpressionRewriterProofs (*)
           --- LiteralStage ----+
           --- Utf8Validation --+- Utf8ValidationProofs (*) -+
           --- MigMeta ---------+-- RewritePipeline ---------+- RewritePipelineProofs
               Profiles --------+

EffectiveConfig --- RewritePolicy --- RewritePolicyProofs (*)

RepresentationCache --- RepresentationCacheProofs

(*) extends ByteSlicesProofs as well
```

Each `MCx` module extends `x` with the constants of its runs. Definitions named
`Action_Something` are *mutants*: an action or operator with a plausible bug. They
are not part of any specification; putting one in the place of its original makes
TLC find the property violated that `PROJECT.json` names beside it.

**AdmissionControl** is the abstract promise: sets of running and entering
requests and a line. Leaving and handing over to the head of the line is one
atomic step. It has no permits, gauges or contexts.

**KseRewriteProxy** models `proxy.rs` for any number of workers. A worker carries
one request at a time and comes back for the next. One step is the code between
two accesses to shared state: `admit_rewrite` is eight actions, `stop_rewrite` and
the release in `logging` two each. A semaphore is its number of free permits and,
for `active`, the line of waiters; dropping a permit hands it to the head of the
line without making it free in between, as Tokio's batch semaphore does
(`GiveBack`). Callbacks keep every branch: each way out of `response_filter`
(`proxy.rs:285-360`) is an action of its own, any upstream or client failure is
`TransportFails`, a failing body filter `BodyRejected`, and each leads through
`FailToProxy` to logging. The variables `header`, `emitted` and `client` record
what was decided, passed on and written, for the properties to talk about.
Abstracted: what the policy says becomes bypass, *forced* (insists on a typed, full
response) or *html* (selected by `Content-Type`), from the constant `Arrivals`;
which branch a response takes is free; a chunk is upstream bytes or rewriter output.

**LiteralRewriter** models one stage over a body of any bytes, with the mode, the
source and the inserted text as constants. `push` and `finish` are followed by the
iterations of `process_available`, one action per branch of its loop. `base`,
`matched` and `kept` are history variables saying which offsets of the body were
dealt with, and how.

**LiteralStage** is the reference for it: `LiteralReturned` says what a stage has returned
once it has received some bytes, with no chunks, buffer or history. LiteralRewriter's
`Rewritten` is its value for the whole body at the end, and RewritePipeline takes it for
each literal stage; the theorem `LiteralRewriterProofs!OutputCorrect` is what joins the two.

**ExpressionRewriter** does the same for the stage that rewrites *prefix,
expression, suffix*, for both syntaxes (identifier, member expression) and both
kinds of replacement; a rule is a record chosen initially. A replacement of only
the prefix is the template *replacement, marker, suffix*, which emits the same
bytes. `IsPattern` is the reference: a declarative definition of a pattern in a
whole body, independent of the scan. `RuleShapeAssumption` is what the rules of
`build_response_rewriter` (`rewrite.rs:526-583`) have in common: no suffix can continue the
expression before it, and a template ends with the last byte of the suffix.

**Utf8Validation** has `validate_utf8` and `validate_utf8_slice`. A byte stands for a class:
a lead byte for those with one length and one set of second bytes. The classes are disjoint
(`Utf8Assumption`).

**RewritePipeline** composes stages under `response_body_filter`: the count and
limit, the loop of `push`, the loop of `finish` with what each stage returns
pushed into the next, and the two results of the last filter call joined. A stage is
modelled by what it returns for everything it has received (`Returned`): for a literal stage,
in all three modes, that is LiteralReturned, which LiteralRewriterProofs proves of the stage. The buffered stage returns nothing
until the end, and then what MigMeta makes of the page. The constant `Cases` pairs
stages with bodies, limits and chunk sizes. Of the stages it is assumed that the first is a literal
one (`from_rewriters` is given literal stages only, and the `with_` functions append
to them, `literal.rs:186`) and that sources and inserted text are ASCII (the literals of `rewrite.rs` are, and a base path
that the URL library would write differently is refused, `config.rs:338`). `DocumentsAssumption` says that a
symbol for a document of a page is none of the symbols the scan looks for and stands in no source of a profile: such a
text decodes to a JSON object with a base URI, and no part of a source does (the legacy root has a hyphen, which is no
Base64, the attributes have quotes).

**MigMeta** is the transform of the buffered stage: `RewriteMigMeta` is the scan of
`rewrite_mig_meta_base_uri`, branch by branch (where the search goes on after a missing
equals sign, after a missing quote, after a value, and that an unterminated quote ends
it). `WithDesiredUri` is the reference, which has no scan: it says which assignments are not
inside the value of another one and replaces the documents of those. The
name of the variable and a base64 text are one symbol each, since the whole page is
there and nothing can cut them; what a text decodes to is given by constants.

**Profiles** has the stages each profile gets (`build_selected_response_rewriter`), in their
order, with literals that share parts as those of the code do: the asset root begins with the static
root, the replacement of the legacy root is the base path, and so on.

**EffectiveConfig** is `from_yaml` from the values of the document on: a document goes to the
first `Refusal` in the order of the code's checks, or to an `Effective` configuration. A base path
is a sequence of segments; one round of percent decoding maps each segment to what the constant
`Decoded` says, which may be several segments, and `DecodeRepeatedly` repeats it as the code does (the early
return is left out: once a round changes nothing, no later one does). Of `Decoded` it is assumed that
the empty segment and the dot segments decode to themselves and that decoding loses no refused
character: what is no escape is copied (`config.rs:398-420`).
`HostStr` and `Port` say what the URL library returns.

**RewritePolicy** goes from the document to the path the upstream is asked for: `Refuse` (the
process exits), `Load` (it serves, or `Semaphore::new` panics), then `decide` in
`RequestFilter` and `api_uri_with_base_path` in `UpstreamRequestFilter`. One
request per behaviour is enough, as requests change nothing. A path is a
sequence of segments, since every prefix and marker of the code begins and ends with
a slash. What the code asks of a segment's characters (`.js`, safe name,
`-frontend`) is given by constants.

**RepresentationCache** composes a client's HTTP cache, the sidecar's handling of
conditions and the upstream's versions, across restarts with other rules or another
release. A body is the version it was made from and what was done to it; an entity
tag is the tuple `derive_etag` hashes. The base path and extension are not in it:
the URL fixes them.

## 4. What the runs check

| Run | Module, configuration | Instance | States (about) | What it shows |
|---|---|---|---|---|
| `proxy` | KseRewriteProxy | 3 requests, 1 active, 2 queued | 3 050 000 (mod. symmetry) | types; permits conserved; no idle permit; rewrites only under a permit; gauges exact; header and body agree; outcome truthful; refinement of AdmissionControl |
| `proxy_liveness` | ...Liveness | 2 requests, 1 active, 1 queued | 10 900 | a queued request is admitted |
| `proxy_rewrite_failure` | ...502 | 1 request | until the violation | *violation*: finding A |
| `literal_prepend` | LiteralRewriter...Prepend | bodies up to 8 bytes over 3, source of 3 that overlaps itself and its prefix | 359 000 | leftmost search; carriers kept exactly; output; bounded buffer; idempotence |
| `literal_append` | ...Append | bodies up to 8 bytes over 3, suffix of 2 | 403 000 | output and idempotence where suffixes are waited for (the rest is proved for every mode) |
| `literal_exact_twice` | ...ExactTwice | bodies up to 7 bytes over 3 | until the violation | *violation*: finding C |
| `expression` | ExpressionRewriter | 3 rules, bodies up to 7 bytes over 4, 6 over 5, or 8 over 3 | 1 767 000 | output; leftmost patterns; keeps back only what is open; idempotence |
| `pipeline` | RewritePipeline | 3 literal stages, bodies up to 6 bytes over 5, limit 5; the pipelines of the profiles, bodies up to 5 symbols over 4 to 6; pages of up to 3 of 15 fragments | 1 880 000 | composition; exact limit; exact UTF-8 refusal; only the first stage refuses; `_mig_meta` rewritten exactly; idempotence of each profile; base path once |
| `policy` | RewritePolicy | 2 011 documents, 512 of them accepted; under those, paths around each root and marker, 2 methods | 714 000 | from the document to the decision; switching off is local; selected is forwarded as is; prefixed once; base path stable under decoding; listeners apart |
| `upstream_refused` | ...Upstream | the same | until the violation | *violation*: finding D |
| `cache` | RepresentationCache | 4 versions, with and without tag and type; 5 URLs with the profiles each can get, 2 releases | 13 200 | conditions are transparent but for two exceptions; the upstream validates only its own |
| `cache_rule_fallback` | ...Fallback | a ys1000 page, rule 5 on and off | until the violation | *violation*: finding B |

The less obvious properties:

- `ImplementsAdmission`: the callbacks, semaphores and gauges refine
  `AdmissionControl!Spec` with `running` the requests that own an active permit in
  their context or on their way to it, and `entering` those that own a queue permit and
  are not in line yet. So nobody starts past a non-empty line, and a leaving request
  and the head of the line trade places in one step, although the code takes many.
  The abstract bound on waiting includes a request that
  was granted but has not yet dropped its queue permit only as running: the code
  may refuse earlier than the abstraction, never later.
- `GaugesAccount` states which requests each gauge counts, rather than a bound: the
  active gauge *does* exceed `maxConcurrent` for a moment, because permits are released
  before it is lowered.
- `HeaderBodyAgree`: over the early release in `response_filter`, 304s and failures,
  a rewritten header is never followed by upstream bytes nor a plain one by rewriter output.
- `KeepsExactlyCarriers`: whether an occurrence is left alone is a matter of the
  *input* body, although the code must decide it from a bounded history after the
  bytes were let go.
- `OutputIsRewritten`: between two calls a literal stage has returned exactly `LiteralReturned` of what it
  received, so no sooner and no later than its reference says; an expression stage a prefix of
  its reference, and all of it at the end. Either way the output does not depend on the chunking.
- `ReplacesLeftmost` holds although `previous_byte` is taken from the output: in
  every rule of the code, the template ends with a byte of the same class as the suffix does.
  The instances keep this.
- `KeepsBackOnlyOpen`: a stage withholds bytes only if some continuation makes them
  a pattern, so a body is never stalled for nothing.
- `RefusesExactlyInvalid`: both directions, and as early as the bytes received allow.
- `MigMetaIsRewritten`: over pages with assignments that are broken off, quoted in the other
  quote or inside another value, what the client gets is the page with exactly the outermost documents of the
  original URI replaced. It holds for unterminated quotes too: the rest of such a page is the
  value of the broken assignment.
- `RewrittenOnce`: idempotence of a whole pipeline, where a later stage might find what an
  earlier one inserted. Its condition leaves out finding C, and nothing else.
- `BasePathOnce`: two stages of the ConsoleV3 profile would both prefix the same reference if the second did not
  see what the first inserted, in whatever chunks it comes.
- `DecidedByTheDocument`: relates the answer to the *document*, past the map of
  numbers to rules, the wildcard, the disabled list and the fallbacks.
- `BasePathIsStable`: no number of decodings by later proxies brings a dot segment or a quote
  to the surface of a path below an accepted base path. An empty segment comes to the surface in one case
  only, which the property names: a base path written without a slash at its end whose last segment ends in an
  escaped one, as in `/a%2F/x` (section 7). Written with its slash, that base path is refused.
- `ListenersKeepApart` is stated on what the operating system does with a socket (`Receives`), not on
  how addresses are written; the exception it names is an observation of section 7.
- `ConditionIsTransparent`: compares what a conditional request shows with what an
  unconditional one would have shown at the same moment, while rules are switched at will. The two exceptions are the
  page that was stored before its rule was on (the conditional semantics that the repository's README documents) and finding B.
  In both the body is of the upstream's present version and of this release, and where the rule is off no rewritten body is
  shown. A URL with one profile throughout, or a bundle that is only on or off, has no exception.

## 5. Bounds, deadlock and fairness

*Bounds.* `proxy`: with one active permit and two queue permits, three requests are the
fewest with a line of two, so that its order shows, and
requests that find either semaphore exhausted; refusals with a full queue occur when a
woken waiter still owns its queue permit. One HEAD arrival is
enough: HEAD takes no permit. The workers are unbounded in time: they come back
for new requests, and no counter needs a cap. *Stages*: eight bytes hold two
occurrences that overlap, touch or stand apart, one of them with its inserted text, in every
chunking, empty chunks included. *Expression*: a full pattern of one rule has five bytes or more; seven leave room for
the byte before, for a dot or a false start, and six for one byte before or after. Two patterns that overlap,
as those of the third rule can, are eight.
*Pipeline*: six bytes around a limit of five; a character of three bytes fits twice.
The replacements make and break occurrences for the later stages. The longest literal
of a profile has four symbols where it is searched for in bodies of five, and three fragments
make an assignment before, in and after a broken one. Chunks of zero to three symbols, or of
everything that is left, cut each literal at every place.
*Policy*: the documents differ from a good one in one section (base path, sockets,
upstream, limits, lists and rules), as the checks of `from_yaml` look at one section each but
for the sockets, which are combined; all 64 rule sets are among them. Paths lie inside, outside and below the base
path, and at its edge. `MaxBasePathLength` is 18 instead of 1024; it also bounds the
rounds of decoding, and the inputs change in at most three. `MaxPermits` is 2.
*Cache*: `MaxVersion` bounds the versions published; four cover tag and
no tag against accepted type and other type.

*Deadlock.* It is checked for KseRewriteProxy and RepresentationCache, which never stop.
`CHECK_DEADLOCK FALSE` stands where a behaviour really ends: a stage after
`finish`, a pipeline after `finish` or an error, a request once it is forwarded, a process that exits.

*Fairness.* Only `proxy_liveness` needs it: `WF(Progress(r))` for each worker. What is
justified by the code: Tokio polls a runnable task again, so steps that wait for nothing are
taken, and the connection attempt has a timeout. What is assumed of the environment:
after the connection there is no timeout, so an upstream must answer or fail, and
a body must end or fail. Nothing is assumed of arrivals, and a waiting request has
no step of its own to be fair to: only `GiveBack` moves it. Without the assumption on
the upstream the property fails, and rightly so: an upstream that never ends a body
holds its permit for ever.

## 6. What is proved

Every theorem is checked by TLAPS for all values of the constants that satisfy the
named assumptions of the module.

**KseRewriteProxyProofs** (assumptions: `Requests` finite, `MaxConcurrent` at least 1,
`MaxQueued` a natural number, `Arrivals` well-formed). `TypeCorrect`,
`PermitConservation`, `WorkConservation`, `GaugeAccounting`, `RewriteBound`,
`HeaderBodyAgreement`, `TruthfulOutcome` and `AdmissionRefinement`.
`PermitsConserved` is not inductive: when a permit is handed over, the
holder must not be counted already, which needs to know that the line holds exactly the
requests at `waiting`, each once (`LineOK`), and that a request has a permit in its
context only at the locations that allow it (`PermitOK`). `AdmissionInv` joins these
with conservation, `NoIdlePermit` and the gauges; one step per action shows it is kept,
with lemmas on cardinalities for a request that moves between the sets of holders. `ContextInv`
says, per location, which combinations of decision, outcome, rewriter, header and failure
a request can have: header/body agreement, the truth of the outcome and the rewrite bound
follow from it. The refinement adds the length of the line (it is the number of
waiting requests, so that the abstract guard of `Reserve` follows from a free queue
permit), and then maps each action to an abstract one or to a stutter.

**ByteSlicesProofs** has no theorem of a component. It has the facts about slices, about what occurs where in a text that was
put together (`Follows`, `Occurs`), and the
two things that the library states with an operator as parameter and that the proofs below need without one:
induction over natural numbers (of a set of numbers: if it is not everything, what is left out has a
least element) and recursion (a step is a function, so a recursive function is known to exist and to satisfy its
equation). A property to be proved by induction is written as the set of the numbers that have it.

**LiteralRewriterProofs** (any mode, source, inserted text and body). `TypeCorrect`,
`SearchCorrect` (`StopsAtLeftmost`), `KeepsCarriers` (`KeepsExactlyCarriers`),
`Lookahead` (`BoundedLookahead`), `OutputCorrect` (`OutputIsRewritten`) and `IdempotentWhenQuiet` (`Idempotent`). `BufferInv`: pending is
exactly the received and unconsumed part of the body. `HistoryInv`: the history is the
end of the consumed part, at least as long as the prefix unless all of it. `SearchInv`: no
occurrence begins before `base` but the matched ones and those that overlap them. From these
`PrefixSeen` shows that what the code compares (history, pending, or across
both) is the bytes of the body before the match, and `SuffixSeen` that Append mode decides only
when it can. Prefix-of-the-reference is not inductive, as it does not say where in the reference the stage is.
`Completes` does: the output, followed by what is returned of the part that is not consumed, is
`LiteralReturned` of the received bytes *and of every body they may still become*, which is why an
iteration may let bytes go before it has seen the rest.
`Idempotent` is not true of all literals, so its theorem has a condition on the two, `InsertsQuietly` of LiteralStage: in Prepend
mode the source occurs in *inserted, source* only at its end, and an end of the source that this begins with is also
a beginning of the source; in Append mode no source begins in the suffix. TLC evaluates it on the instances
and on every Prepend and Append literal of Profiles. The proof follows the two passes together: where the first one
goes on in the body, the second one goes on in the output, and the next occurrence it meets carries the inserted text,
because the first pass inserted it or because it was there in what the first pass copied.

**ExpressionRewriterProofs** (any rules of the assumed shape, any bytes and bodies). `TypeCorrect`,
`RewritesTheLeftmost` (`ReplacesLeftmost`), `KeepsBackOnlyWhatIsOpen` (`KeepsBackOnlyOpen`) and
`OutputCorrect` (`OutputIsRewritten`). The lemmas say of each answer of `match_candidate` about
the bytes that have arrived what it means for the body: a match is a pattern of the body, a mismatch none in
any continuation, and for *incomplete* a continuation with a pattern is constructed. The
invariant then has to say that `previous_byte` stands for the byte of the body before pending. It is
the output's last byte, not the body's; that this makes no difference is what `RuleShapeAssumption` is for.
`IdempotentWhenQuiet` (`Idempotent`) has a condition, as for literals: `RendersQuietly` says that what a rule writes makes no pattern
whatever stands around it, since no prefix followed by an expression begins in it and no pattern that began before goes on in it. The
rules of `rewrite.rs:526-586` are such: what they write begins as no end of a pattern does and has no prefix
that an identifier follows, unless a base path itself has one, as `/)),a` (no base path at all selects no profile, `rewrite.rs:174`). TLC evaluates the condition on the rules of the run, for expressions of up to four bytes. The
proof follows what the first pass has returned along the body: a pattern in it would lie in one copied piece, where it would be a pattern of the body
that the first pass passed over, or meet a piece that was written.

**RewritePolicyProofs** (any base path, paths, names and lists).
`SelectedForwardedAsIs`: a selected path has the base path, so prefixing leaves it alone.
`NeverPrefixedTwice`. `SwitchingOff`: via the lemma that removing a rule from a list of preferences changes
the choice only if that rule was chosen. `PolicyTypeOK`, `DocumentDecides` and `ListenersApart` rest on
`FilterInv`: whatever serves is `Effective(document)` of a document without a `Refusal`, whose limits the
semaphores hold. `BasePathStable` (`BasePathIsStable`): the code looks at the path as it is written and at what the last
round of decoding leaves, not at the rounds between. `CleanBefore` goes backwards: each segment decodes to one or more, a refused one to something
refused, and none comes nearer to the ends of the path, so what a round shows, every later round shows too,
and a clean last round means clean rounds. What the proxy uses is the path without its last slash;
`RoundsBehind` says that the empty segment there stays the last one in every round, so that leaving it out changes
nothing else. `RoundsInFront` puts the rest of a request behind it: a segment without an escape stays as it is, and the base
path before it decodes as it does alone, so that only its last segment, which was an end and now is not, can
be an empty one within.

**RepresentationCacheProofs** (any number of versions, any of them tagged or rewritable, any
configurations, switched at will). `CacheTypeOK`, `UpstreamValidates` (`UpstreamValidatesOnlyItsOwn`) and
`Transparency` (`ConditionIsTransparent`). `StoreInv` says that what a client has
stored is an upstream body with the upstream's tag or a derived one with a derived tag and no date;
`RequestInv` and `ReplyInv` follow a conditional request from there to the answer. A 304 of the upstream
confirms a body of its own, and `RawInv` says that a rule would rewrite it only if the URL may have no rule; one of
the sidecar confirms a body with the tag of this version and release.

**Utf8ValidationProofs** (any disjoint classes of bytes) has the lemmas on UTF-8 that the next module needs. The recursive
check is equal to a statement about the single bytes (each byte fits the ones before it, and the
last character is complete); what is kept back of a character is the beginning of one; and an
ASCII literal begins and ends between two characters, so a literal stage makes text of text and of
what begins a text something that begins one.

**RewritePipelineProofs** (any stages as in `Cases`, any bodies, limits and chunk sizes).

- `LimitExact` (`LimitIsExact`): the first stage has received no more than the limit,
  and a chunk that would exceed it reaches no stage. `NothingAfterFinish`: the error `AlreadyFinished` is
  unreachable. Both rest on `CallInv` (where a call is, and that `finish` runs only in the filter call of the end).
- `OutputCorrect` (`OutputIsComposed`): on `FlowInv`, that what has arrived at each stage, with what is
  being carried to it, is exactly what the one before has returned. What a stage returns only grows
  with what it receives (for a literal stage a fact about `LiteralReturned`, by induction over the
  occurrences), so what the client has is a beginning of the stages composed on the whole body.
- `MigMetaCorrect` (`MigMetaIsRewritten`): the scan, with its two offsets into the page, is shown to
  keep `Covered`: every value that an assignment before the scan's offset opens is closed before that offset, and no
  document between what is copied and the offset is to be replaced. From this the recursive scan is the definition that has none.
- `RefusesExactly` (`RefusesExactlyInvalid`), `OnlyTheFirst` (`OnlyTheFirstRefuses`) and `TypeCorrect`: on `TextInv`, that what a stage
  has received and not refused is the beginning of a text, of which its tail is the last, incomplete character.
- `RewrittenOnceHolds` (`RewrittenOnce`), about the literals of Profiles, for every body, limit and chunking and whatever documents a
  page has. A stage is `Settled` in a text that it would leave alone. Each stage is settled in what it returns
  itself (for the quoted literal this takes `ExactSourcesDisjoint`), and every later one `Spares` it. For
  both, `Trace` says from where in the input each byte of the output comes, and `Pulled` that a text in the output either was in the input or
  overlaps something inserted at one of a few offsets, which are gone through symbol by symbol (`Apart`). The buffered stage
  changes documents only, and those are in no source; it writes no document that it would replace.
- `BasePathOnceHolds` (`BasePathOnce`): the stage of the static root is settled in what the client gets, so each reference has the base
  path. Two of them before one reference are followed back through the three stages to the body: no
  stage puts one where there is one already.

What is proved of one stage is used in the next module: `OutputCorrect` of LiteralRewriterProofs says that the
detailed stage returns `LiteralReturned` between any two calls, which is all that the pipeline asks of its stages.

Every safety property that a passing run checks is so stated by a theorem. `Idempotent` and `RewrittenOnce` are not
true without their conditions (quiet literals and rules, disjoint exact sources): finding C and the
observations on the asset root and on expression rules in section 7 are the counterexamples, so none of the conditions
can be left out.

*Model-checked only*: `QueuedIsAdmitted`, as liveness under fairness is out of the prover's reach. The four properties of the
violation runs are false.

## 7. Findings

- **A. A failing body does not give 502** (`proxy_rewrite_failure`, `proxy.rs:379`).
  `README.md:252` says a body that is too large or not UTF-8 "fails the rewrite with `502`". The body
  filter runs after the header was let through, and Pingora may have written it: the
  client then gets status 200 and a truncated body.
- **B. One entity tag for two rules** (`cache_rule_fallback`, `proxy.rs:544`). `derive_etag` leaves out the profile
  and the enabled rules. After rule 5 is switched off, a client that stored its page is
  answered 304 although the page is now rule 4's; `README.md:290` says ys1000 HTML "falls back".
- **C. Exact stages are not idempotent** (`literal_exact_twice`, `literal.rs:801`). `README.md:249`
  says every transform is. Where two quoted literals share a quote, as in `"/p/"/p/"`,
  the first pass rewrites the first and the second pass the second.

- **D. Explicit loopback addresses are refused** (`upstream_refused`, `config.rs:288`). `host_str` returns `[::1]`
  for an IPv6 host, which is compared with `::1`; `port` is `None` for the default port. So
  `http://[::1]:8000` and `http://127.0.0.1:80` are refused, although `README.md:281` restricts the upstream only
  "to an explicit loopback HTTP address" and the code has `::1` in its list.

Observations, without a text of the repository that says otherwise:

- A listener on an IPv4-mapped address (`[::ffff:127.0.0.1]:8000`) passes the check against an upstream
  `127.0.0.1:8000`, which is the same socket (`config.rs:259-264`).
- The base path `/a%2F` is accepted: what it decodes to has no empty segment, but `/a%2F/x` decodes to `/a//x`. It is the
  exception in `BasePathIsStable`.
- A path outside the base path that has an API marker, as `/proxy/app/api/x`, is bypassed, then prefixed, and the upstream is asked for
  a path that the policy may have selected (`proxy.rs:208-264`): the response is not rewritten. `SelectedIsForwardedAsIs` is about the
  other direction.
- Prepend stages are idempotent only if the inserted text makes no new occurrence of the source. A base path that ends in
  the asset root without its slash (`/p/extensions-static/app/dist/v3dist`) makes one (`literal.rs:750-823`, `rewrite.rs:355-363`): the page's
  `/extensions-static/app/dist/v3dist/` becomes one that a second pass changes again: `InsertsQuietly` does not hold of it. The instances have base paths as a
  deployment has, where the property holds.
- An expression rule whose suffix ends as its prefix begins is not idempotent in general: with prefix `},` and suffix
  `.}`, the second of two patterns that share the brace is rewritten only by the second pass. No rule of
  `rewrite.rs:526-586` has such a suffix with such a prefix.
- An unterminated quote after `window._mig_meta =` ends the scan: assignments after it stay as they are
  (`rewrite.rs:447-450`).
- `maxConcurrent` or `maxQueued` beyond `Semaphore::MAX_PERMITS` ends the process with a panic (`proxy.rs:72`).

## 8. What is not modelled

- Pingora: connection reuse and retries, HTTP framing, the transport. Callbacks come in its order;
  each await may fail.
- A client that disconnects while its request waits in line: `request_filter` does not look at the
  connection, and the model lets the request keep its place until it is granted a permit.
- The full text of the literals: each is cut into symbols where it shares a part with another one, and rules that
  differ only in wording (the helper functions, `href` and `src`, kinds of whitespace) are one. The expression
  stages of ConsoleV3 are not in Profiles, as what surrounds a function call has no symbol there; ExpressionRewriter
  checks that stage on its own.
- The base64 and JSON readers behind `window._mig_meta`, the YAML reader and the URL library: constants or external
  operators say what they return.
- `AdminApp`: read-only endpoints without state. Three format what others have; `/readyz` answers whether one
  connection attempt ended well within its timeout, and its answer depends on that call alone.
- Two errors that change nothing that is modelled: the one of `upstream_request_filter` for a prefixed URI that is too long for the
  URI type (`proxy.rs:162-165`), and the one of `request_filter` for a pipeline that cannot be constructed, which
  the literals of `rewrite.rs` never cause.
- Metrics other than the gauges and the outcome, text encoding, the binding of sockets, logging setup, Docker, CI and
  deployment files.
- `Range` and `If-Range`: removed or forwarded together with the conditions; a 206 passes like any other status.

## 9. The plan

Done: admission and lifecycle first, as everything concurrent is there; then the literal
stage, the policy, conditional requests, the expression stage, the pipeline; then `window._mig_meta` and
the pipelines of the profiles, and the configuration in front of the policy; proofs of each, and the
composition of literal stage and pipeline by proof; last the idempotence of the stages and of the pipelines.

What could still be added, in this order:

1. **ConsoleV3 expression stages** in Profiles, with symbols for what surrounds a call, and `RewrittenOnce` over them.
2. **Range and If-Range** in RepresentationCache: a partial response stored beside a full one.
