-------------------------- MODULE KseRewriteProxy ---------------------------
(***************************************************************************)
(* The life of the requests of the sidecar (src/src/proxy.rs): admission   *)
(* to the limited number of concurrent rewrites, the Pingora callbacks of  *)
(* impl ProxyHttp in the order the framework calls them, and the release   *)
(* of everything a request holds.                                          *)
(*                                                                         *)
(* Every worker runs one request at a time; requests share two Tokio       *)
(* semaphores (struct Admission) and two Prometheus gauges.  A step of the *)
(* model is the code between two accesses to shared state, so the steps of *)
(* different requests interleave wherever the code lets them: a permit is  *)
(* released before its gauge is decremented, the active semaphore is tried *)
(* before the queue semaphore, and a permit handed to a waiter is used     *)
(* only when the waiter is scheduled again.                                *)
(*                                                                         *)
(* Data is abstracted to what the properties tell apart: the rewrite       *)
(* decision to bypass, a forced profile, or a profile selected by the HTML *)
(* Content-Type; an upstream response to the branch of response_filter it  *)
(* takes; a body chunk to "upstream bytes" or "rewriter output".           *)
(***************************************************************************)
EXTENDS Integers, Sequences, FiniteSets

CONSTANTS
    Requests,       \* workers; each carries one request at a time
    MaxConcurrent,  \* rewriteSidecar.rewrite.maxConcurrent
    MaxQueued,      \* rewriteSidecar.rewrite.maxQueued
    Arrivals        \* the requests clients send, as the policy decides them

Decisions == {"bypass",  \* RewriteDecision::Bypass
              "forced",  \* a profile that insists on a full, typed response
              "html"}    \* NamedProxyHtml, Ys1000Html: selected by Content-Type

ASSUME ArrivalsAssumption ==
    Arrivals \subseteq [decision : Decisions, headOnly : BOOLEAN]
ASSUME RequestsAssumption == IsFiniteSet(Requests)
ASSUME MaxConcurrentAssumption == MaxConcurrent \in Nat \ {0}
ASSUME MaxQueuedAssumption == MaxQueued \in Nat

VARIABLES
    \* shared state
    activeAvail,   \* free permits of Admission.active
    line,          \* wakers queued inside Admission.active, oldest first
    queuedAvail,   \* free permits of Admission.queued
    activeGauge,   \* metrics.active
    queuedGauge,   \* metrics.queued
    \* one entry per request
    pc,            \* where the request is
    decision,      \* RequestContext.decision, by what it selects on
    headOnly,      \* RewriteDecision::Rewrite.head_only
    activePermit,  \* RequestContext.active_permit.is_some()
    rewriter,      \* RequestContext.rewriter.is_some()
    suppressBody,  \* RequestContext.suppress_body
    outcome,       \* RequestContext.outcome
    compression,   \* downstream ResponseCompression still enabled
    failure,       \* the Error a callback returned, by its origin
    header,        \* response header the filters decided on
    emitted,       \* kinds of body bytes passed on by response_body_filter
    client         \* what has been written to the client

admission == <<activeAvail, line, queuedAvail, activeGauge, queuedGauge>>
context   == <<decision, headOnly, activePermit, rewriter, suppressBody,
               outcome, compression>>
response  == <<failure, header, emitted, client>>
vars      == <<admission, pc, context, response>>

Locations == {
    "idle",          \* no request on this worker
    "try_active",    \* admit_rewrite: about to try the active semaphore
    "try_queue",     \* ... it was exhausted: about to try the queue semaphore
    "reject",        \* ... both exhausted: writing the 503
    "inc_queued",    \* ... holds a queue permit, gauge not yet raised
    "enter_wait",    \* ... about to poll acquire_owned for the first time
    "waiting",       \* ... in the line of the active semaphore
    "granted",       \* ... owns an active permit, still owns the queue permit
    "dec_queued",    \* ... queue permit dropped, gauge not yet lowered
    "inc_active",    \* ... owns an active permit, gauge not yet raised
    "connect",       \* request_filter returned false: connecting upstream
    "respond",       \* request sent, waiting for the response header
    "stop",          \* stop_rewrite: about to take active_permit
    "stop_dec",      \* ... permit dropped, gauge not yet lowered
    "stream",        \* header filtered, body under way
    "fail",          \* a callback or the transport failed: fail_to_proxy next
    "log",           \* logging: about to take active_permit
    "log_dec"}       \* ... permit dropped, gauge not yet lowered

Outcomes  == {"bypass", "rewrite", "queued", "queue_full", "not_modified",
              "upstream_status_bypass", "invalid_content_type",
              "unexpected_content_encoding"}
Failures  == {"none", "rewrite", "other"}
Headers   == {"none", "plain", "rewritten", "not_modified", "refused"}
Clients   == {"nothing", "header", "error_page"}
BodyKinds == {"upstream", "rewritten"}

-----------------------------------------------------------------------------
(* Who holds what.                                                         *)

ActiveHolders == {r \in Requests :
    activePermit[r] \/ pc[r] \in {"granted", "dec_queued", "inc_active"}}
QueueHolders == {r \in Requests :
    pc[r] \in {"inc_queued", "enter_wait", "waiting", "granted"}}

\* Requests counted by metrics.active: those with the permit in their context,
\* and those that dropped it and have not lowered the gauge yet.
ActiveCounted == {r \in Requests :
    activePermit[r] \/ pc[r] \in {"stop_dec", "log_dec"}}
QueueCounted == {r \in Requests :
    pc[r] \in {"enter_wait", "waiting", "granted", "dec_queued"}}

-----------------------------------------------------------------------------
(* The context of a fresh request (new_ctx).                               *)

Init ==
    /\ activeAvail = MaxConcurrent
    /\ line = <<>>
    /\ queuedAvail = MaxQueued
    /\ activeGauge = 0
    /\ queuedGauge = 0
    /\ pc = [r \in Requests |-> "idle"]
    /\ decision = [r \in Requests |-> "bypass"]
    /\ headOnly = [r \in Requests |-> FALSE]
    /\ activePermit = [r \in Requests |-> FALSE]
    /\ rewriter = [r \in Requests |-> FALSE]
    /\ suppressBody = [r \in Requests |-> FALSE]
    /\ outcome = [r \in Requests |-> "bypass"]
    /\ compression = [r \in Requests |-> TRUE]
    /\ failure = [r \in Requests |-> "none"]
    /\ header = [r \in Requests |-> "none"]
    /\ emitted = [r \in Requests |-> {}]
    /\ client = [r \in Requests |-> "nothing"]

-----------------------------------------------------------------------------
(* request_filter and admit_rewrite                                        *)

\* The policy bypasses the request: no admission, no compression.
FilterBypass(r) ==
    /\ pc[r] = "idle"
    /\ \E a \in Arrivals : a.decision = "bypass"
    /\ pc' = [pc EXCEPT ![r] = "connect"]
    /\ compression' = [compression EXCEPT ![r] = FALSE]
    /\ UNCHANGED <<admission, decision, headOnly, activePermit, rewriter,
                   suppressBody, outcome, response>>

\* The policy selects a profile.  A HEAD request skips admission and gets no
\* rewriter, but its response header is rewritten like that of a GET.
FilterSelected(r) ==
    /\ pc[r] = "idle"
    /\ \E a \in Arrivals :
         /\ a.decision # "bypass"
         /\ decision' = [decision EXCEPT ![r] = a.decision]
         /\ headOnly' = [headOnly EXCEPT ![r] = a.headOnly]
         /\ pc' = [pc EXCEPT ![r] =
                     IF a.headOnly THEN "connect" ELSE "try_active"]
    /\ outcome' = [outcome EXCEPT ![r] = "rewrite"]
    /\ UNCHANGED <<admission, activePermit, rewriter, suppressBody,
                   compression, response>>

\* active.try_acquire_owned()
TryActive(r) ==
    /\ pc[r] = "try_active"
    /\ IF activeAvail > 0
          THEN /\ activeAvail' = activeAvail - 1
               /\ pc' = [pc EXCEPT ![r] = "inc_active"]
          ELSE /\ pc' = [pc EXCEPT ![r] = "try_queue"]
               /\ UNCHANGED activeAvail
    /\ UNCHANGED <<line, queuedAvail, activeGauge, queuedGauge, context,
                   response>>

\* A mutant of TryQueue: the outcome of a refused request is not recorded.
TryQueue_OutcomeKept(r) ==
    /\ pc[r] = "try_queue"
    /\ IF queuedAvail > 0
          THEN /\ queuedAvail' = queuedAvail - 1
               /\ pc' = [pc EXCEPT ![r] = "inc_queued"]
               /\ UNCHANGED compression
          ELSE /\ pc' = [pc EXCEPT ![r] = "reject"]
               /\ compression' = [compression EXCEPT ![r] = FALSE]
               /\ UNCHANGED queuedAvail
    /\ UNCHANGED <<activeAvail, line, activeGauge, queuedGauge, decision,
                   headOnly, activePermit, rewriter, suppressBody, outcome,
                   response>>

\* queued.try_acquire_owned(), without looking at the active semaphore again.
TryQueue(r) ==
    /\ pc[r] = "try_queue"
    /\ IF queuedAvail > 0
          THEN /\ queuedAvail' = queuedAvail - 1
               /\ pc' = [pc EXCEPT ![r] = "inc_queued"]
               /\ UNCHANGED <<outcome, compression>>
          ELSE /\ pc' = [pc EXCEPT ![r] = "reject"]
               /\ compression' = [compression EXCEPT ![r] = FALSE]
               /\ outcome' = [outcome EXCEPT ![r] = "queue_full"]
               /\ UNCHANGED queuedAvail
    /\ UNCHANGED <<activeAvail, line, activeGauge, queuedGauge, decision,
                   headOnly, activePermit, rewriter, suppressBody, response>>

\* write_response(503, Retry-After: 1), which fails when the client is gone.
Reject(r) ==
    /\ pc[r] = "reject"
    /\ \/ /\ pc' = [pc EXCEPT ![r] = "log"]
          /\ header' = [header EXCEPT ![r] = "refused"]
          /\ client' = [client EXCEPT ![r] = "header"]
          /\ UNCHANGED failure
       \/ /\ pc' = [pc EXCEPT ![r] = "fail"]
          /\ failure' = [failure EXCEPT ![r] = "other"]
          /\ UNCHANGED <<header, client>>
    /\ UNCHANGED <<admission, context, emitted>>

IncQueued(r) ==
    /\ pc[r] = "inc_queued"
    /\ queuedGauge' = queuedGauge + 1
    /\ outcome' = [outcome EXCEPT ![r] = "queued"]
    /\ pc' = [pc EXCEPT ![r] = "enter_wait"]
    /\ UNCHANGED <<activeAvail, line, queuedAvail, activeGauge, decision,
                   headOnly, activePermit, rewriter, suppressBody,
                   compression, response>>

\* The first poll of acquire_owned(): a free permit is taken, otherwise the
\* request joins the line.  The semaphore is never closed.
EnterWait(r) ==
    /\ pc[r] = "enter_wait"
    /\ IF activeAvail > 0
          THEN /\ activeAvail' = activeAvail - 1
               /\ pc' = [pc EXCEPT ![r] = "granted"]
               /\ UNCHANGED line
          ELSE /\ line' = Append(line, r)
               /\ pc' = [pc EXCEPT ![r] = "waiting"]
               /\ UNCHANGED activeAvail
    /\ UNCHANGED <<queuedAvail, activeGauge, queuedGauge, context, response>>

\* A mutant of DropQueuePermit: the queue permit is forgotten.
DropQueuePermit_Forgotten(r) ==
    /\ pc[r] = "granted"
    /\ pc' = [pc EXCEPT ![r] = "dec_queued"]
    /\ UNCHANGED <<admission, context, response>>

\* drop(queue_permit): nobody waits inside Admission.queued.
DropQueuePermit(r) ==
    /\ pc[r] = "granted"
    /\ queuedAvail' = queuedAvail + 1
    /\ pc' = [pc EXCEPT ![r] = "dec_queued"]
    /\ UNCHANGED <<activeAvail, line, activeGauge, queuedGauge, context,
                   response>>

DecQueued(r) ==
    /\ pc[r] = "dec_queued"
    /\ queuedGauge' = queuedGauge - 1
    /\ pc' = [pc EXCEPT ![r] = "inc_active"]
    /\ UNCHANGED <<activeAvail, line, queuedAvail, activeGauge, context,
                   response>>

\* active.inc(), the permit moves into the context, and the rewriter is built
\* (the builders reject only an empty source or limit, which a validated
\* configuration and a selected path never give).
IncActive(r) ==
    /\ pc[r] = "inc_active"
    /\ activeGauge' = activeGauge + 1
    /\ activePermit' = [activePermit EXCEPT ![r] = TRUE]
    /\ rewriter' = [rewriter EXCEPT ![r] = TRUE]
    /\ pc' = [pc EXCEPT ![r] = "connect"]
    /\ UNCHANGED <<activeAvail, line, queuedAvail, queuedGauge, decision,
                   headOnly, suppressBody, outcome, compression, response>>

-----------------------------------------------------------------------------
(* Releasing the active permit                                             *)

\* Mutants of GiveBack: the permit is returned past the line, the newest waiter
\* is served first, and the permit is both handed over and returned.
GiveBack_WithoutHandOff(r, next) ==
    /\ activeAvail' = activeAvail + 1
    /\ pc' = [pc EXCEPT ![r] = next]
    /\ UNCHANGED line

GiveBack_NewestFirst(r, next) ==
    IF line = <<>>
       THEN GiveBack_WithoutHandOff(r, next)
       ELSE /\ line' = SubSeq(line, 1, Len(line) - 1)
            /\ pc' = [pc EXCEPT ![r] = next, ![line[Len(line)]] = "granted"]
            /\ UNCHANGED activeAvail

GiveBack_AndHandOff(r, next) ==
    /\ activeAvail' = activeAvail + 1
    /\ IF line = <<>>
          THEN pc' = [pc EXCEPT ![r] = next] /\ UNCHANGED line
          ELSE /\ line' = Tail(line)
               /\ pc' = [pc EXCEPT ![r] = next, ![Head(line)] = "granted"]

\* Dropping an OwnedSemaphorePermit: the semaphore hands it to the head of
\* its line, if there is one, before anybody else can take it.
GiveBack(r, next) ==
    IF line = <<>>
       THEN /\ activeAvail' = activeAvail + 1
            /\ pc' = [pc EXCEPT ![r] = next]
            /\ UNCHANGED line
       ELSE /\ line' = Tail(line)
            /\ pc' = [pc EXCEPT ![r] = next, ![Head(line)] = "granted"]
            /\ UNCHANGED activeAvail

\* Where a request goes on after stop_rewrite.
AfterStop(r) == IF failure[r] = "none" THEN "stream" ELSE "fail"

\* A mutant of StopTakePermit: the gauge is lowered without looking at the
\* permit.
StopTakePermit_AlwaysDec(r) ==
    /\ pc[r] = "stop"
    /\ IF activePermit[r]
          THEN /\ GiveBack(r, "stop_dec")
               /\ activePermit' = [activePermit EXCEPT ![r] = FALSE]
          ELSE /\ pc' = [pc EXCEPT ![r] = "stop_dec"]
               /\ UNCHANGED <<activeAvail, line, activePermit>>
    /\ UNCHANGED <<queuedAvail, activeGauge, queuedGauge, decision, headOnly,
                   rewriter, suppressBody, outcome, compression, response>>

\* stop_rewrite: ctx.active_permit.take().is_some() drops the permit ...
StopTakePermit(r) ==
    /\ pc[r] = "stop"
    /\ IF activePermit[r]
          THEN /\ GiveBack(r, "stop_dec")
               /\ activePermit' = [activePermit EXCEPT ![r] = FALSE]
          ELSE /\ pc' = [pc EXCEPT ![r] = AfterStop(r)]
               /\ UNCHANGED <<activeAvail, line, activePermit>>
    /\ UNCHANGED <<queuedAvail, activeGauge, queuedGauge, decision, headOnly,
                   rewriter, suppressBody, outcome, compression, response>>

\* ... and only then is the gauge lowered.
StopDecActive(r) ==
    /\ pc[r] = "stop_dec"
    /\ activeGauge' = activeGauge - 1
    /\ pc' = [pc EXCEPT ![r] = AfterStop(r)]
    /\ UNCHANGED <<activeAvail, line, queuedAvail, queuedGauge, context,
                   response>>

-----------------------------------------------------------------------------
(* The exchange with the upstream                                          *)

\* Connected within UPSTREAM_CONNECT_TIMEOUT; the request is filtered and sent.
Connected(r) ==
    /\ pc[r] = "connect"
    /\ pc' = [pc EXCEPT ![r] = "respond"]
    /\ UNCHANGED <<admission, context, response>>

\* The connection cannot be made, or the upstream or the client goes away.
TransportFails(r) ==
    /\ pc[r] \in {"connect", "respond", "stream"}
    /\ pc' = [pc EXCEPT ![r] = "fail"]
    /\ failure' = [failure EXCEPT ![r] = "other"]
    /\ UNCHANGED <<admission, context, header, emitted, client>>

\* A mutant of StopRewrite: the rewriter stays in the context.
StopRewrite_KeepsRewriter(r, why) ==
    /\ compression' = [compression EXCEPT ![r] = FALSE]
    /\ outcome' = [outcome EXCEPT ![r] = why]
    /\ pc' = [pc EXCEPT ![r] = "stop"]
    /\ UNCHANGED rewriter

\* The part of stop_rewrite before it takes the permit.
StopRewrite(r, why) ==
    /\ compression' = [compression EXCEPT ![r] = FALSE]
    /\ rewriter' = [rewriter EXCEPT ![r] = FALSE]
    /\ outcome' = [outcome EXCEPT ![r] = why]
    /\ pc' = [pc EXCEPT ![r] = "stop"]

\* response_filter of a bypassed request.
RespondBypass(r) ==
    /\ pc[r] = "respond"
    /\ decision[r] = "bypass"
    /\ header' = [header EXCEPT ![r] = "plain"]
    /\ pc' = [pc EXCEPT ![r] = "stream"]
    /\ UNCHANGED <<admission, context, failure, emitted, client>>

\* Any status but 200: the upstream response goes through as it is.
RespondStatusBypass(r) ==
    /\ pc[r] = "respond"
    /\ decision[r] # "bypass"
    /\ header' = [header EXCEPT ![r] = "plain"]
    /\ StopRewrite(r, "upstream_status_bypass")
    /\ UNCHANGED <<admission, decision, headOnly, activePermit, suppressBody,
                   failure, emitted, client>>

\* 200 with a Content-Type the profile does not rewrite: an HTML-selected
\* profile lets it through, a forced one fails the request.
RespondInvalidContentType(r) ==
    /\ pc[r] = "respond"
    /\ decision[r] # "bypass"
    /\ StopRewrite(r, "invalid_content_type")
    /\ IF decision[r] = "html"
          THEN /\ header' = [header EXCEPT ![r] = "plain"]
               /\ UNCHANGED failure
          ELSE /\ failure' = [failure EXCEPT ![r] = "other"]
               /\ UNCHANGED header
    /\ UNCHANGED <<admission, decision, headOnly, activePermit, suppressBody,
                   emitted, client>>

\* 200, right type, but still encoded.
RespondEncoded(r) ==
    /\ pc[r] = "respond"
    /\ decision[r] # "bypass"
    /\ StopRewrite(r, "unexpected_content_encoding")
    /\ failure' = [failure EXCEPT ![r] = "other"]
    /\ UNCHANGED <<admission, decision, headOnly, activePermit, suppressBody,
                   header, emitted, client>>

\* 200, right type, identity: the header describes the rewritten body.
RespondRewritten(r) ==
    /\ pc[r] = "respond"
    /\ decision[r] # "bypass"
    /\ header' = [header EXCEPT ![r] = "rewritten"]
    /\ pc' = [pc EXCEPT ![r] = "stream"]
    /\ UNCHANGED <<admission, context, failure, emitted, client>>

\* A mutant of RespondNotModified: suppress_body is not set.
RespondNotModified_BodyKept(r) ==
    /\ pc[r] = "respond"
    /\ decision[r] # "bypass"
    /\ header' = [header EXCEPT ![r] = "not_modified"]
    /\ StopRewrite(r, "not_modified")
    /\ UNCHANGED <<admission, decision, headOnly, activePermit, suppressBody,
                   failure, emitted, client>>

\* ... and the client already has it: If-None-Match names the derived ETag.
RespondNotModified(r) ==
    /\ pc[r] = "respond"
    /\ decision[r] # "bypass"
    /\ header' = [header EXCEPT ![r] = "not_modified"]
    /\ suppressBody' = [suppressBody EXCEPT ![r] = TRUE]
    /\ StopRewrite(r, "not_modified")
    /\ UNCHANGED <<admission, decision, headOnly, activePermit, failure,
                   emitted, client>>

\* Pingora writes filtered tasks in batches: the header may reach the client
\* before a later chunk is filtered, or together with it.
FlushHeader(r) ==
    /\ pc[r] = "stream"
    /\ client[r] = "nothing"
    /\ client' = [client EXCEPT ![r] = "header"]
    /\ UNCHANGED <<admission, pc, context, failure, header, emitted>>

\* response_body_filter passes a chunk on: nothing of a suppressed body, the
\* chunk itself without a rewriter, and otherwise what push and finish return.
BodyChunk(r) ==
    /\ pc[r] = "stream"
    /\ ~headOnly[r]
    /\ ~suppressBody[r]
    /\ emitted' = [emitted EXCEPT ![r] =
                     @ \cup {IF rewriter[r] THEN "rewritten" ELSE "upstream"}]
    /\ UNCHANGED <<admission, pc, context, failure, header, client>>

\* push or finish fails: the body is too large or not UTF-8.
BodyRejected(r) ==
    /\ pc[r] = "stream"
    /\ rewriter[r]
    /\ failure' = [failure EXCEPT ![r] = "rewrite"]
    /\ pc' = [pc EXCEPT ![r] = "fail"]
    /\ UNCHANGED <<admission, context, header, emitted, client>>

\* The response is complete and written.
EndOfStream(r) ==
    /\ pc[r] = "stream"
    /\ client' = [client EXCEPT ![r] = "header"]
    /\ pc' = [pc EXCEPT ![r] = "log"]
    /\ UNCHANGED <<admission, context, failure, header, emitted>>

\* Pingora's fail_to_proxy: an error page, unless a header is already out; then
\* the connection is cut.
FailToProxy(r) ==
    /\ pc[r] = "fail"
    /\ client' = [client EXCEPT ![r] = IF @ = "nothing" THEN "error_page" ELSE @]
    /\ pc' = [pc EXCEPT ![r] = "log"]
    /\ UNCHANGED <<admission, context, failure, header, emitted>>

-----------------------------------------------------------------------------
(* logging, after which the context is dropped                             *)

\* The worker is free for the next request, with the context of new_ctx.
DropContext(r) ==
    /\ decision' = [decision EXCEPT ![r] = "bypass"]
    /\ headOnly' = [headOnly EXCEPT ![r] = FALSE]
    /\ rewriter' = [rewriter EXCEPT ![r] = FALSE]
    /\ suppressBody' = [suppressBody EXCEPT ![r] = FALSE]
    /\ outcome' = [outcome EXCEPT ![r] = "bypass"]
    /\ compression' = [compression EXCEPT ![r] = TRUE]
    /\ failure' = [failure EXCEPT ![r] = "none"]
    /\ header' = [header EXCEPT ![r] = "none"]
    /\ emitted' = [emitted EXCEPT ![r] = {}]
    /\ client' = [client EXCEPT ![r] = "nothing"]

LogTakePermit(r) ==
    /\ pc[r] = "log"
    /\ activePermit[r]
    /\ GiveBack(r, "log_dec")
    /\ activePermit' = [activePermit EXCEPT ![r] = FALSE]
    /\ UNCHANGED <<queuedAvail, activeGauge, queuedGauge, decision, headOnly,
                   rewriter, suppressBody, outcome, compression, response>>

LogNoPermit(r) ==
    /\ pc[r] = "log"
    /\ ~activePermit[r]
    /\ pc' = [pc EXCEPT ![r] = "idle"]
    /\ DropContext(r)
    /\ UNCHANGED <<admission, activePermit>>

LogDecActive(r) ==
    /\ pc[r] = "log_dec"
    /\ activeGauge' = activeGauge - 1
    /\ pc' = [pc EXCEPT ![r] = "idle"]
    /\ DropContext(r)
    /\ UNCHANGED <<activeAvail, line, queuedAvail, queuedGauge, activePermit>>

-----------------------------------------------------------------------------
RequestFilter(r) == FilterBypass(r) \/ FilterSelected(r)

AdmitRewrite(r) ==
    \/ TryActive(r) \/ TryQueue(r) \/ Reject(r) \/ IncQueued(r)
    \/ EnterWait(r) \/ DropQueuePermit(r) \/ DecQueued(r) \/ IncActive(r)

ResponseFilter(r) ==
    \/ RespondBypass(r) \/ RespondStatusBypass(r)
    \/ RespondInvalidContentType(r) \/ RespondEncoded(r)
    \/ RespondRewritten(r) \/ RespondNotModified(r)

StopPermit(r) == StopTakePermit(r) \/ StopDecActive(r)

Stream(r) ==
    FlushHeader(r) \/ BodyChunk(r) \/ BodyRejected(r) \/ EndOfStream(r)

Logging(r) == LogTakePermit(r) \/ LogNoPermit(r) \/ LogDecActive(r)

Step(r) ==
    \/ RequestFilter(r) \/ AdmitRewrite(r)
    \/ Connected(r) \/ TransportFails(r)
    \/ ResponseFilter(r) \/ StopPermit(r) \/ Stream(r)
    \/ FailToProxy(r) \/ Logging(r)

Next == \E r \in Requests : Step(r)

Spec == Init /\ [][Next]_vars

\* What a request does once it has arrived, but for the optional steps.
Progress(r) ==
    \/ AdmitRewrite(r) \/ Connected(r) \/ ResponseFilter(r)
    \/ StopPermit(r) \/ EndOfStream(r) \/ TransportFails(r)
    \/ FailToProxy(r) \/ Logging(r)

\* Tokio keeps polling a runnable task, so a step that waits for nothing is
\* taken.  The rest is assumed of the environment, for the code has no timeout
\* once the connection is made: an upstream answers or fails, and a body ends or
\* fails.  Nothing is assumed of arrivals, and a request in the line has no step
\* of its own: it moves only when another one hands it a permit.
Fairness == \A r \in Requests : WF_vars(Progress(r))

FairSpec == Spec /\ Fairness

-----------------------------------------------------------------------------
(* Properties                                                              *)

(* Type invariant: the free permits stay within the configured limits, and *)
(* every field holds a value of its enumeration.                           *)
TypeOK ==
    /\ activeAvail \in 0..MaxConcurrent
    /\ line \in Seq(Requests)
    /\ queuedAvail \in 0..MaxQueued
    /\ activeGauge \in Int
    /\ queuedGauge \in Int
    /\ pc \in [Requests -> Locations]
    /\ decision \in [Requests -> Decisions]
    /\ headOnly \in [Requests -> BOOLEAN]
    /\ activePermit \in [Requests -> BOOLEAN]
    /\ rewriter \in [Requests -> BOOLEAN]
    /\ suppressBody \in [Requests -> BOOLEAN]
    /\ outcome \in [Requests -> Outcomes]
    /\ compression \in [Requests -> BOOLEAN]
    /\ failure \in [Requests -> Failures]
    /\ header \in [Requests -> Headers]
    /\ emitted \in [Requests -> SUBSET BodyKinds]
    /\ client \in [Requests -> Clients]

(* No permit is lost or made on any path through the callbacks: refused,   *)
(* queued, bypassed late, 304, failed in the middle of the body.  What is  *)
(* free and what requests hold always adds up to the configured limits.    *)
PermitsConserved ==
    /\ activeAvail + Cardinality(ActiveHolders) = MaxConcurrent
    /\ queuedAvail + Cardinality(QueueHolders) = MaxQueued

(* A permit is free only while nobody waits for one, although requests try *)
(* the semaphore, release it and join its line at any moment               *)
(* (proxy.rs:98, 120-132, 140, 398).                                       *)
NoIdlePermit == line # <<>> => activeAvail = 0

(* From the upstream connection to the end of the body, a request has a    *)
(* rewriter exactly when it owns an active permit; so at most              *)
(* MaxConcurrent bodies are rewritten at a time.                           *)
RewritesUnderPermit ==
    LET inFlight == {r \in Requests : pc[r] \in {"connect", "respond", "stream"}}
    IN  /\ \A r \in inFlight : rewriter[r] <=> activePermit[r]
        /\ Cardinality({r \in inFlight : rewriter[r]}) =< MaxConcurrent

(* The gauges count exactly the requests between their two updates.  They  *)
(* never go below zero, they are zero when every worker is idle, and the   *)
(* active gauge may exceed MaxConcurrent only by requests that dropped     *)
(* their permit and have not lowered the gauge yet.                        *)
GaugesAccount ==
    /\ activeGauge = Cardinality(ActiveCounted)
    /\ queuedGauge = Cardinality(QueueCounted)

(* The body the client gets is of the kind its header announces: a header  *)
(* rewritten by response_filter is never followed by upstream bytes, one   *)
(* passed on unchanged never by rewriter output, a 304 by nothing; and the *)
(* sidecar compresses only what it rewrote.                                *)
HeaderBodyAgree == \A r \in Requests :
    /\ "upstream" \in emitted[r] => header[r] = "plain"
    /\ "rewritten" \in emitted[r] => header[r] = "rewritten"
    /\ pc[r] = "stream" /\ compression[r] => header[r] = "rewritten"

(* The outcome that logging counts for a request without error is what     *)
(* happened to its response (proxy.rs:106, 119, 139, 220, 413-417).        *)
OutcomeTruthful == \A r \in Requests :
    pc[r] \in {"log", "log_dec"} /\ failure[r] = "none" =>
        CASE outcome[r] \in {"rewrite", "queued"} -> header[r] = "rewritten"
          [] outcome[r] = "not_modified" -> header[r] = "not_modified"
          [] outcome[r] = "queue_full"   -> header[r] = "refused"
          [] OTHER                       -> header[r] = "plain"

(* The abstract admission this module implements: a request runs while it  *)
(* owns an active permit, enters while it owns a queue permit and is not   *)
(* in the line yet.                                                        *)
Admission == INSTANCE AdmissionControl WITH
    running  <- ActiveHolders,
    entering <- {r \in Requests : pc[r] \in {"inc_queued", "enter_wait"}},
    line     <- line

(* Every step of the callbacks, the semaphores and the gauges is a step of *)
(* the abstract admission, or none (proxy.rs:97-143, 398).                 *)
ImplementsAdmission == Admission!Spec

(* A queued request is eventually admitted, whatever the others do and     *)
(* however many arrive after it (README: "up to maxQueued requests wait"). *)
QueuedIsAdmitted ==
    \A r \in Requests : pc[r] = "inc_queued" ~> activePermit[r]

(* README, "Response types and cache behavior": a body that is too large   *)
(* or not UTF-8 "fails the rewrite with 502".                              *)
RewriteFailureIs502 == \A r \in Requests :
    pc[r] = "log" /\ failure[r] = "rewrite" => client[r] = "error_page"
=============================================================================
