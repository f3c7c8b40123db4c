------------------------ MODULE KseRewriteProxyProofs -----------------------
(***************************************************************************)
(* Proofs about KseRewriteProxy for every finite set of workers and every  *)
(* limit: the type invariant, the conservation of permits, the hand-over   *)
(* to the line, and the gauges.                                            *)
(***************************************************************************)
EXTENDS KseRewriteProxy, FiniteSetTheorems, TLAPS

-----------------------------------------------------------------------------
(* Cardinalities of the sets of holders.                                   *)

(* Adding a new element to a finite set adds one to its cardinality.       *)
LEMMA CardAdd ==
    ASSUME NEW S, NEW x, IsFiniteSet(S), x \notin S
    PROVE  /\ IsFiniteSet(S \cup {x})
           /\ Cardinality(S \cup {x}) = Cardinality(S) + 1
           /\ Cardinality(S) \in Nat
BY FS_AddElement, FS_CardinalityType

(* Removing an element of a finite set takes one off its cardinality.      *)
LEMMA CardRemove ==
    ASSUME NEW S, NEW x, IsFiniteSet(S), x \in S
    PROVE  /\ IsFiniteSet(S \ {x})
           /\ Cardinality(S \ {x}) = Cardinality(S) - 1
           /\ Cardinality(S) \in Nat \ {0}
BY FS_RemoveElement, FS_CardinalityType, FS_EmptySet

(* Every set of requests is finite.                                        *)
LEMMA FiniteRequests ==
    ASSUME NEW S \in SUBSET Requests
    PROVE  IsFiniteSet(S) /\ Cardinality(S) \in Nat
BY FS_Subset, FS_CardinalityType, RequestsAssumption

-----------------------------------------------------------------------------
(* The inductive invariant.                                                *)

(* TypeOK without the upper bounds of the semaphores, which follow from    *)
(* the conservation of permits.                                            *)
Types ==
    /\ activeAvail \in Nat
    /\ line \in Seq(Requests)
    /\ queuedAvail \in Nat
    /\ activeGauge \in Int
    /\ queuedGauge \in Int
    /\ pc \in [Requests -> Locations]
    /\ decision \in [Requests -> Decisions]
    /\ headOnly \in [Requests -> BOOLEAN]
    /\ activePermit \in [Requests -> BOOLEAN]
    /\ rewriter \in [Requests -> BOOLEAN]
    /\ suppressBody \in [Requests -> BOOLEAN]
    /\ outcome \in [Requests -> Outcomes]
    /\ compression \in [Requests -> BOOLEAN]
    /\ failure \in [Requests -> Failures]
    /\ header \in [Requests -> Headers]
    /\ emitted \in [Requests -> SUBSET BodyKinds]
    /\ client \in [Requests -> Clients]

(* The line holds waiting requests, each once.                             *)
LineOK ==
    /\ \A i \in 1..Len(line) : pc[line[i]] = "waiting"
    /\ \A i, j \in 1..Len(line) : line[i] = line[j] => i = j

(* A context owns a permit only between admission and its release.         *)
PermitOK == \A r \in Requests :
    activePermit[r] =>
        pc[r] \in {"connect", "respond", "stop", "stream", "fail", "log"}

AdmissionInv ==
    /\ LineOK
    /\ PermitOK
    /\ PermitsConserved
    /\ NoIdlePermit
    /\ GaugesAccount

(* Locations at which a request holds something outside its context or is  *)
(* between the two updates of a gauge.                                     *)
AdmissionLocations == {
    "inc_queued", "enter_wait", "waiting", "granted", "dec_queued",
    "inc_active", "stop_dec", "log_dec"}

-----------------------------------------------------------------------------
(* Type correctness of a step.                                             *)

(* The initial state has the types.                                        *)
LEMMA TypesInit == Init => Types
BY MaxConcurrentAssumption, MaxQueuedAssumption
DEF Init, Types, Locations, Decisions, Outcomes, Failures, Headers, Clients,
    BodyKinds

(* Releasing a permit keeps the types of what it touches.                  *)
LEMMA GiveBackTypes ==
    ASSUME activeAvail \in Nat, line \in Seq(Requests),
           pc \in [Requests -> Locations],
           NEW r \in Requests, NEW l \in Locations, GiveBack(r, l)
    PROVE  /\ activeAvail' \in Nat
           /\ line' \in Seq(Requests)
           /\ pc' \in [Requests -> Locations]
<1>1. CASE line = <<>>
    BY <1>1 DEF GiveBack
<1>2. CASE line # <<>>
    <2>1. Head(line) \in Requests /\ Tail(line) \in Seq(Requests)
        BY <1>2
    <2>2. "granted" \in Locations
        BY DEF Locations
    <2> QED BY <1>2, <2>1, <2>2 DEF GiveBack
<1> QED BY <1>1, <1>2

(* Every step of a request keeps the types.                                *)
LEMMA TypesStep ==
    ASSUME Types, NEW r \in Requests, Step(r)
    PROVE  Types'
<1> USE DEF Types, admission, context, response
<1>1. CASE RequestFilter(r)
    <2>1. CASE FilterBypass(r)
        BY <2>1 DEF FilterBypass, Locations
    <2>2. CASE FilterSelected(r)
        BY <2>2, ArrivalsAssumption
        DEF FilterSelected, Locations, Decisions, Outcomes
    <2> QED BY <1>1, <2>1, <2>2 DEF RequestFilter
<1>2. CASE AdmitRewrite(r)
    <2>1. CASE TryActive(r)
        BY <2>1 DEF TryActive, Locations
    <2>2. CASE TryQueue(r)
        <3>1. CASE queuedAvail > 0
            BY <2>2, <3>1 DEF TryQueue, Locations
        <3>2. CASE ~(queuedAvail > 0)
            <4>1. /\ pc' \in [Requests -> Locations]
                  /\ outcome' \in [Requests -> Outcomes]
                  /\ compression' \in [Requests -> BOOLEAN]
                BY <2>2, <3>2 DEF TryQueue, Locations, Outcomes
            <4>2. UNCHANGED <<admission, decision, headOnly, activePermit,
                              rewriter, suppressBody, response>>
                BY <2>2, <3>2 DEF TryQueue
            <4> QED BY <4>1, <4>2
        <3> QED BY <3>1, <3>2
    <2>3. CASE Reject(r)
        BY <2>3 DEF Reject, Locations, Failures, Headers, Clients
    <2>4. CASE IncQueued(r)
        BY <2>4 DEF IncQueued, Locations, Outcomes
    <2>5. CASE EnterWait(r)
        <3>1. CASE activeAvail > 0
            BY <2>5, <3>1 DEF EnterWait, Locations
        <3>2. CASE ~(activeAvail > 0)
            <4>1. Append(line, r) \in Seq(Requests)
                OBVIOUS
            <4>2. pc' \in [Requests -> Locations]
                BY <2>5, <3>2 DEF EnterWait, Locations
            <4> QED BY <2>5, <3>2, <4>1, <4>2 DEF EnterWait
        <3> QED BY <3>1, <3>2
    <2>6. CASE DropQueuePermit(r)
        BY <2>6 DEF DropQueuePermit, Locations
    <2>7. CASE DecQueued(r)
        BY <2>7 DEF DecQueued, Locations
    <2>8. CASE IncActive(r)
        BY <2>8 DEF IncActive, Locations
    <2> QED BY <1>2, <2>1, <2>2, <2>3, <2>4, <2>5, <2>6, <2>7, <2>8
            DEF AdmitRewrite
<1>3. CASE Connected(r)
    BY <1>3 DEF Connected, Locations
<1>4. CASE TransportFails(r)
    BY <1>4 DEF TransportFails, Locations, Failures
<1>5. CASE ResponseFilter(r)
    <2>1. CASE RespondBypass(r)
        BY <2>1 DEF RespondBypass, Locations, Headers
    <2>2. CASE RespondStatusBypass(r)
        BY <2>2 DEF RespondStatusBypass, StopRewrite, Locations, Outcomes,
                    Headers
    <2>3. CASE RespondInvalidContentType(r)
        BY <2>3 DEF RespondInvalidContentType, StopRewrite, Locations,
                    Outcomes, Failures, Headers
    <2>4. CASE RespondEncoded(r)
        BY <2>4 DEF RespondEncoded, StopRewrite, Locations, Outcomes, Failures
    <2>5. CASE RespondRewritten(r)
        BY <2>5 DEF RespondRewritten, Locations, Headers
    <2>6. CASE RespondNotModified(r)
        BY <2>6 DEF RespondNotModified, StopRewrite, Locations, Outcomes,
                    Headers
    <2> QED BY <1>5, <2>1, <2>2, <2>3, <2>4, <2>5, <2>6 DEF ResponseFilter
<1>6. CASE StopPermit(r)
    <2>1. CASE StopTakePermit(r)
        <3>1. CASE activePermit[r]
            <4>1. GiveBack(r, "stop_dec")
                BY <2>1, <3>1 DEF StopTakePermit
            <4>2. /\ activeAvail' \in Nat
                  /\ line' \in Seq(Requests)
                  /\ pc' \in [Requests -> Locations]
                BY <4>1, GiveBackTypes DEF Locations
            <4> QED BY <2>1, <3>1, <4>2 DEF StopTakePermit
        <3>2. CASE ~activePermit[r]
            BY <2>1, <3>2 DEF StopTakePermit, AfterStop, Locations
        <3> QED BY <3>1, <3>2
    <2>2. CASE StopDecActive(r)
        BY <2>2 DEF StopDecActive, AfterStop, Locations
    <2> QED BY <1>6, <2>1, <2>2 DEF StopPermit
<1>7. CASE Stream(r)
    <2>1. CASE FlushHeader(r)
        BY <2>1 DEF FlushHeader, Clients
    <2>2. CASE BodyChunk(r)
        BY <2>2 DEF BodyChunk, BodyKinds
    <2>3. CASE BodyRejected(r)
        BY <2>3 DEF BodyRejected, Locations, Failures
    <2>4. CASE EndOfStream(r)
        BY <2>4 DEF EndOfStream, Locations, Clients
    <2> QED BY <1>7, <2>1, <2>2, <2>3, <2>4 DEF Stream
<1>8. CASE FailToProxy(r)
    BY <1>8 DEF FailToProxy, Locations, Clients
<1>9. CASE Logging(r)
    <2> USE DEF DropContext, Locations, Decisions, Outcomes, Failures,
                Headers, BodyKinds, Clients
    <2>1. CASE LogTakePermit(r)
        <3>1. GiveBack(r, "log_dec")
            BY <2>1 DEF LogTakePermit
        <3>2. /\ activeAvail' \in Nat
              /\ line' \in Seq(Requests)
              /\ pc' \in [Requests -> Locations]
            BY <3>1, GiveBackTypes
        <3> QED BY <2>1, <3>2 DEF LogTakePermit
    <2>2. CASE LogNoPermit(r)
        BY <2>2 DEF LogNoPermit
    <2>3. CASE LogDecActive(r)
        BY <2>3 DEF LogDecActive
    <2> QED BY <1>9, <2>1, <2>2, <2>3 DEF Logging
<1> QED BY <1>1, <1>2, <1>3, <1>4, <1>5, <1>6, <1>7, <1>8, <1>9 DEF Step

-----------------------------------------------------------------------------
(* The admission part of the invariant.                                    *)

(* Initially nothing is held and nobody waits.                             *)
LEMMA AdmissionInit == Init => AdmissionInv
<1> SUFFICES ASSUME Init PROVE AdmissionInv
    OBVIOUS
<1>1. /\ ActiveHolders = {}
      /\ QueueHolders = {}
      /\ ActiveCounted = {}
      /\ QueueCounted = {}
    BY DEF Init, ActiveHolders, QueueHolders, ActiveCounted, QueueCounted
<1>2. PermitsConserved /\ GaugesAccount
    BY <1>1, FS_EmptySet, MaxConcurrentAssumption, MaxQueuedAssumption
    DEF Init, PermitsConserved, GaugesAccount
<1>3. LineOK /\ PermitOK /\ NoIdlePermit
    BY DEF Init, LineOK, PermitOK, NoIdlePermit
<1> QED BY <1>2, <1>3 DEF AdmissionInv

(* A step that leaves the shared state and every context's permit alone,   *)
(* outside the locations that hold something, keeps the invariant.         *)
LEMMA QuietStep ==
    ASSUME Types, AdmissionInv, NEW r \in Requests, NEW l,
           pc[r] \notin AdmissionLocations, l \notin AdmissionLocations,
           pc' = [pc EXCEPT ![r] = l],
           activePermit[r] =>
               l \in {"connect", "respond", "stop", "stream", "fail", "log"},
           UNCHANGED <<admission, activePermit>>
    PROVE  AdmissionInv'
<1> USE DEF Types
<1>1. /\ ActiveHolders' = ActiveHolders
      /\ QueueHolders' = QueueHolders
      /\ ActiveCounted' = ActiveCounted
      /\ QueueCounted' = QueueCounted
    BY DEF ActiveHolders, QueueHolders, ActiveCounted, QueueCounted,
           AdmissionLocations
<1>2. LineOK'
    BY DEF AdmissionInv, LineOK, admission, AdmissionLocations
<1>3. PermitOK'
    BY DEF AdmissionInv, PermitOK
<1> QED BY <1>1, <1>2, <1>3
        DEF AdmissionInv, PermitsConserved, NoIdlePermit, GaugesAccount,
            admission

(* The hand-over: the head of a non-empty line is a waiting request other  *)
(* than the releaser, and the rest of the line is still in order.          *)
LEMMA HeadOfLine ==
    ASSUME Types, LineOK, line # <<>>
    PROVE  /\ Head(line) \in Requests
           /\ pc[Head(line)] = "waiting"
           /\ Tail(line) \in Seq(Requests)
           /\ Len(Tail(line)) = Len(line) - 1
           /\ \A i \in 1..Len(Tail(line)) :
                /\ Tail(line)[i] = line[i + 1]
                /\ i + 1 \in 1..Len(line)
                /\ Tail(line)[i] # Head(line)
<1>1. line \in Seq(Requests) /\ Len(line) \in Nat /\ 1 \in 1..Len(line)
    BY DEF Types
<1>2. Head(line) = line[1] /\ Head(line) \in Requests
    BY <1>1
<1>3. /\ Tail(line) \in Seq(Requests)
      /\ Len(Tail(line)) = Len(line) - 1
      /\ \A i \in 1..Len(Tail(line)) : Tail(line)[i] = line[i + 1]
    BY <1>1
<1>4. \A i \in 1..Len(Tail(line)) : i + 1 \in 1..Len(line) /\ i + 1 # 1
    BY <1>1, <1>3
<1> QED BY <1>1, <1>2, <1>3, <1>4 DEF LineOK

(* Giving a permit back keeps the invariant: the permit becomes free, or   *)
(* passes from the request to the head of the line.                        *)
LEMMA GiveBackStep ==
    ASSUME Types, AdmissionInv, NEW r \in Requests,
           NEW l \in {"stop_dec", "log_dec"},
           pc[r] \in {"stop", "log"}, activePermit[r],
           GiveBack(r, l),
           activePermit' = [activePermit EXCEPT ![r] = FALSE],
           UNCHANGED <<queuedAvail, activeGauge, queuedGauge>>
    PROVE  AdmissionInv'
<1> USE DEF Types, AdmissionInv
<1>1. r \in ActiveHolders /\ ActiveHolders \in SUBSET Requests
    BY DEF ActiveHolders
<1>2. /\ IsFiniteSet(ActiveHolders \ {r})
      /\ Cardinality(ActiveHolders \ {r}) = Cardinality(ActiveHolders) - 1
      /\ Cardinality(ActiveHolders) \in Nat \ {0}
    BY <1>1, FiniteRequests, CardRemove
<1>3. CASE line = <<>>
    <2>1. /\ activeAvail' = activeAvail + 1
          /\ pc' = [pc EXCEPT ![r] = l]
          /\ line' = line
        BY <1>3 DEF GiveBack
    <2>2. /\ ActiveHolders' = ActiveHolders \ {r}
          /\ QueueHolders' = QueueHolders
          /\ ActiveCounted' = ActiveCounted
          /\ QueueCounted' = QueueCounted
        BY <2>1 DEF ActiveHolders, QueueHolders, ActiveCounted, QueueCounted
    <2>3. LineOK' /\ PermitOK' /\ NoIdlePermit'
        BY <1>3, <2>1 DEF LineOK, PermitOK, NoIdlePermit
    <2>4. PermitsConserved' /\ GaugesAccount'
        BY <1>2, <2>1, <2>2 DEF PermitsConserved, GaugesAccount
    <2> QED BY <2>3, <2>4
<1>4. CASE line # <<>>
    <2> DEFINE h == Head(line)
    <2>1. /\ activeAvail' = activeAvail
          /\ pc' = [pc EXCEPT ![r] = l, ![h] = "granted"]
          /\ line' = Tail(line)
        BY <1>4 DEF GiveBack
    <2>2. /\ h \in Requests /\ pc[h] = "waiting" /\ h # r
          /\ Len(Tail(line)) = Len(line) - 1
          /\ Len(line) \in Nat
          /\ \A i \in 1..Len(Tail(line)) :
                /\ Tail(line)[i] = line[i + 1]
                /\ i + 1 \in 1..Len(line)
                /\ Tail(line)[i] # h
        BY <1>4, HeadOfLine
    <2> HIDE DEF h
    <2>3. ~activePermit[h]
        BY <2>2 DEF PermitOK
    <2>4. /\ ActiveHolders' = (ActiveHolders \ {r}) \cup {h}
          /\ h \notin ActiveHolders \ {r}
          /\ QueueHolders' = QueueHolders
          /\ ActiveCounted' = ActiveCounted
          /\ QueueCounted' = QueueCounted
        BY <2>1, <2>2, <2>3
        DEF ActiveHolders, QueueHolders, ActiveCounted, QueueCounted
    <2>5. Cardinality(ActiveHolders') = Cardinality(ActiveHolders)
        <3> DEFINE S == ActiveHolders \ {r}
        <3>1. Cardinality(S \cup {h}) = Cardinality(S) + 1
            <4> HIDE DEF S
            <4>1. IsFiniteSet(S) /\ h \notin S
                BY <1>2, <2>4 DEF S
            <4> QED BY <4>1, CardAdd
        <3> QED BY <1>2, <2>4, <3>1
    <2>6. LineOK'
        <3>1. \A i \in 1..Len(line') : pc'[line'[i]] = "waiting"
            <4> TAKE i \in 1..Len(line')
            <4>1. /\ line'[i] = line[i + 1] /\ i + 1 \in 1..Len(line)
                  /\ line'[i] # h
                BY <2>1, <2>2
            <4>2. pc[line'[i]] = "waiting" /\ line'[i] \in Requests
                BY <4>1 DEF LineOK
            <4>3. line'[i] # r
                BY <4>2
            <4> QED BY <2>1, <4>1, <4>2, <4>3
        <3>2. \A i, j \in 1..Len(line') : line'[i] = line'[j] => i = j
            BY <2>1, <2>2 DEF LineOK
        <3> QED BY <3>1, <3>2 DEF LineOK
    <2>7. PermitOK'
        BY <2>1, <2>2, <2>3 DEF PermitOK
    <2>8. NoIdlePermit' /\ PermitsConserved' /\ GaugesAccount'
        BY <1>4, <2>1, <2>4, <2>5
        DEF NoIdlePermit, PermitsConserved, GaugesAccount
    <2> QED BY <2>6, <2>7, <2>8
<1> QED BY <1>3, <1>4

(* Taking a free active permit, on the fast path or at the first poll of   *)
(* a queued request.                                                       *)
LEMMA TakeActiveStep ==
    ASSUME Types, AdmissionInv, NEW r \in Requests, NEW l,
           \/ pc[r] = "try_active" /\ l = "inc_active"
           \/ pc[r] = "enter_wait" /\ l = "granted",
           activeAvail > 0, activeAvail' = activeAvail - 1,
           pc' = [pc EXCEPT ![r] = l],
           UNCHANGED <<line, queuedAvail, activeGauge, queuedGauge,
                       activePermit>>
    PROVE  AdmissionInv'
<1> USE DEF Types, AdmissionInv
<1>1. /\ ActiveHolders' = ActiveHolders \cup {r}
      /\ r \notin ActiveHolders
      /\ ActiveHolders \in SUBSET Requests
      /\ QueueHolders' = QueueHolders
      /\ ActiveCounted' = ActiveCounted
      /\ QueueCounted' = QueueCounted
    BY DEF ActiveHolders, QueueHolders, ActiveCounted, QueueCounted, PermitOK
<1>2. Cardinality(ActiveHolders') = Cardinality(ActiveHolders) + 1
    BY <1>1, FiniteRequests, CardAdd
<1>3. LineOK' /\ PermitOK' /\ NoIdlePermit'
    BY DEF LineOK, PermitOK, NoIdlePermit
<1> QED BY <1>1, <1>2, <1>3, FiniteRequests
        DEF PermitsConserved, GaugesAccount

(* Taking a queue permit.                                                  *)
LEMMA TakeQueueStep ==
    ASSUME Types, AdmissionInv, NEW r \in Requests,
           pc[r] = "try_queue", queuedAvail' = queuedAvail - 1,
           pc' = [pc EXCEPT ![r] = "inc_queued"],
           UNCHANGED <<activeAvail, line, activeGauge, queuedGauge,
                       activePermit>>
    PROVE  AdmissionInv'
<1> USE DEF Types, AdmissionInv
<1>1. /\ QueueHolders' = QueueHolders \cup {r}
      /\ r \notin QueueHolders
      /\ QueueHolders \in SUBSET Requests
      /\ ActiveHolders' = ActiveHolders
      /\ ActiveCounted' = ActiveCounted
      /\ QueueCounted' = QueueCounted
    BY DEF ActiveHolders, QueueHolders, ActiveCounted, QueueCounted, PermitOK
<1>2. /\ Cardinality(QueueHolders') = Cardinality(QueueHolders) + 1
      /\ Cardinality(QueueHolders) \in Nat
    BY <1>1, FiniteRequests, CardAdd
<1>3. LineOK' /\ PermitOK' /\ NoIdlePermit'
    BY DEF LineOK, PermitOK, NoIdlePermit
<1> QED BY <1>1, <1>2, <1>3 DEF PermitsConserved, GaugesAccount

(* Joining the line, which happens only when no permit is free.            *)
LEMMA JoinLineStep ==
    ASSUME Types, AdmissionInv, NEW r \in Requests,
           pc[r] = "enter_wait", ~(activeAvail > 0),
           line' = Append(line, r), pc' = [pc EXCEPT ![r] = "waiting"],
           UNCHANGED <<activeAvail, queuedAvail, activeGauge, queuedGauge,
                       activePermit>>
    PROVE  AdmissionInv'
<1> USE DEF Types, AdmissionInv
<1>1. /\ QueueHolders' = QueueHolders
      /\ ActiveHolders' = ActiveHolders
      /\ ActiveCounted' = ActiveCounted
      /\ QueueCounted' = QueueCounted
    BY DEF ActiveHolders, QueueHolders, ActiveCounted, QueueCounted
<1>2. LineOK'
    <2>1. /\ Len(line') = Len(line) + 1
          /\ Len(line) \in Nat
          /\ line'[Len(line) + 1] = r
          /\ \A i \in 1..Len(line) : line'[i] = line[i]
        OBVIOUS
    <2>2. \A i \in 1..Len(line) : line[i] # r /\ pc[line[i]] = "waiting"
                                  /\ line[i] \in Requests
        BY DEF LineOK
    <2>3. \A i \in 1..Len(line') : i \in 1..Len(line) \/ i = Len(line) + 1
        BY <2>1
    <2>4. \A i \in 1..Len(line') : pc'[line'[i]] = "waiting"
        BY <2>1, <2>2, <2>3
    <2>5. \A i, j \in 1..Len(line') : line'[i] = line'[j] => i = j
        BY <2>1, <2>2, <2>3 DEF LineOK
    <2> QED BY <2>4, <2>5 DEF LineOK
<1>3. PermitOK' /\ NoIdlePermit'
    BY DEF PermitOK, NoIdlePermit
<1> QED BY <1>1, <1>2, <1>3 DEF PermitsConserved, GaugesAccount

(* Raising the queue gauge of a request that owns a queue permit.          *)
LEMMA QueueGaugeUpStep ==
    ASSUME Types, AdmissionInv, NEW r \in Requests, IncQueued(r)
    PROVE  AdmissionInv'
<1> USE DEF Types, AdmissionInv, IncQueued, response
<1>1. /\ QueueCounted' = QueueCounted \cup {r}
      /\ r \notin QueueCounted
      /\ QueueCounted \in SUBSET Requests
      /\ QueueHolders' = QueueHolders
      /\ ActiveHolders' = ActiveHolders
      /\ ActiveCounted' = ActiveCounted
    BY DEF ActiveHolders, QueueHolders, ActiveCounted, QueueCounted
<1>2. Cardinality(QueueCounted') = Cardinality(QueueCounted) + 1
    BY <1>1, FiniteRequests, CardAdd
<1>3. LineOK' /\ PermitOK' /\ NoIdlePermit'
    BY DEF LineOK, PermitOK, NoIdlePermit
<1> QED BY <1>1, <1>2, <1>3 DEF PermitsConserved, GaugesAccount

(* Dropping the queue permit of an admitted request.                       *)
LEMMA QueuePermitDownStep ==
    ASSUME Types, AdmissionInv, NEW r \in Requests, DropQueuePermit(r)
    PROVE  AdmissionInv'
<1> USE DEF Types, AdmissionInv, DropQueuePermit, context, response
<1>1. /\ QueueHolders' = QueueHolders \ {r}
      /\ r \in QueueHolders
      /\ QueueHolders \in SUBSET Requests
      /\ QueueCounted' = QueueCounted
      /\ ActiveHolders' = ActiveHolders
      /\ ActiveCounted' = ActiveCounted
    BY DEF ActiveHolders, QueueHolders, ActiveCounted, QueueCounted
<1>2. /\ Cardinality(QueueHolders') = Cardinality(QueueHolders) - 1
      /\ Cardinality(QueueHolders) \in Nat
    BY <1>1, FiniteRequests, CardRemove
<1>3. LineOK' /\ PermitOK' /\ NoIdlePermit'
    BY DEF LineOK, PermitOK, NoIdlePermit
<1> QED BY <1>1, <1>2, <1>3 DEF PermitsConserved, GaugesAccount

(* Lowering the queue gauge after that.                                    *)
LEMMA QueueGaugeDownStep ==
    ASSUME Types, AdmissionInv, NEW r \in Requests, DecQueued(r)
    PROVE  AdmissionInv'
<1> USE DEF Types, AdmissionInv, DecQueued, context, response
<1>1. /\ QueueCounted' = QueueCounted \ {r}
      /\ r \in QueueCounted
      /\ QueueCounted \in SUBSET Requests
      /\ QueueHolders' = QueueHolders
      /\ ActiveHolders' = ActiveHolders
      /\ ActiveCounted' = ActiveCounted
    BY DEF ActiveHolders, QueueHolders, ActiveCounted, QueueCounted
<1>2. Cardinality(QueueCounted') = Cardinality(QueueCounted) - 1
    BY <1>1, FiniteRequests, CardRemove
<1>3. LineOK' /\ PermitOK' /\ NoIdlePermit'
    BY DEF LineOK, PermitOK, NoIdlePermit
<1> QED BY <1>1, <1>2, <1>3 DEF PermitsConserved, GaugesAccount

(* Raising the active gauge and storing the permit in the context.         *)
LEMMA ActiveGaugeUpStep ==
    ASSUME Types, AdmissionInv, NEW r \in Requests, IncActive(r)
    PROVE  AdmissionInv'
<1> USE DEF Types, AdmissionInv, IncActive, response
<1>1. /\ ActiveCounted' = ActiveCounted \cup {r}
      /\ r \notin ActiveCounted
      /\ ActiveCounted \in SUBSET Requests
      /\ ActiveHolders' = ActiveHolders
      /\ QueueHolders' = QueueHolders
      /\ QueueCounted' = QueueCounted
    BY DEF ActiveHolders, QueueHolders, ActiveCounted, QueueCounted, PermitOK
<1>2. Cardinality(ActiveCounted') = Cardinality(ActiveCounted) + 1
    BY <1>1, FiniteRequests, CardAdd
<1>3. LineOK' /\ PermitOK' /\ NoIdlePermit'
    BY DEF LineOK, PermitOK, NoIdlePermit
<1> QED BY <1>1, <1>2, <1>3 DEF PermitsConserved, GaugesAccount

(* Lowering the active gauge after the permit was dropped.                 *)
LEMMA ActiveGaugeDownStep ==
    ASSUME Types, AdmissionInv, NEW r \in Requests,
           NEW l \in {"stream", "fail", "idle"},
           pc[r] \in {"stop_dec", "log_dec"},
           activeGauge' = activeGauge - 1, pc' = [pc EXCEPT ![r] = l],
           UNCHANGED <<activeAvail, line, queuedAvail, queuedGauge,
                       activePermit>>
    PROVE  AdmissionInv'
<1> USE DEF Types, AdmissionInv
<1>1. /\ ActiveCounted' = ActiveCounted \ {r}
      /\ r \in ActiveCounted
      /\ ActiveCounted \in SUBSET Requests
      /\ ActiveHolders' = ActiveHolders
      /\ QueueHolders' = QueueHolders
      /\ QueueCounted' = QueueCounted
    BY DEF ActiveHolders, QueueHolders, ActiveCounted, QueueCounted, PermitOK
<1>2. Cardinality(ActiveCounted') = Cardinality(ActiveCounted) - 1
    BY <1>1, FiniteRequests, CardRemove
<1>3. LineOK' /\ PermitOK' /\ NoIdlePermit'
    BY DEF LineOK, PermitOK, NoIdlePermit
<1> QED BY <1>1, <1>2, <1>3 DEF PermitsConserved, GaugesAccount

(* Steps that touch neither locations nor permits nor shared state.        *)
LEMMA StutterStep ==
    ASSUME AdmissionInv, UNCHANGED <<admission, pc, activePermit>>
    PROVE  AdmissionInv'
BY DEF AdmissionInv, LineOK, PermitOK, PermitsConserved, NoIdlePermit,
       GaugesAccount, ActiveHolders, QueueHolders, ActiveCounted,
       QueueCounted, admission

(* Every step of a request keeps the admission invariant.                  *)
LEMMA AdmissionStep ==
    ASSUME Types, AdmissionInv, NEW r \in Requests, Step(r)
    PROVE  AdmissionInv'
<1> USE DEF context, response
<1>0. activePermit[r] =>
        pc[r] \in {"connect", "respond", "stop", "stream", "fail", "log"}
    BY DEF AdmissionInv, PermitOK
<1>1. CASE RequestFilter(r)
    <2>1. CASE FilterBypass(r)
        BY <1>0, <2>1, QuietStep DEF FilterBypass, AdmissionLocations
    <2>2. CASE FilterSelected(r)
        <3>1. PICK a \in Arrivals :
                pc' = [pc EXCEPT ![r] =
                         IF a.headOnly THEN "connect" ELSE "try_active"]
            BY <2>2 DEF FilterSelected
        <3>2. \/ pc' = [pc EXCEPT ![r] = "connect"]
              \/ pc' = [pc EXCEPT ![r] = "try_active"]
            BY <3>1
        <3> QED BY <1>0, <2>2, <3>2, QuietStep
                DEF FilterSelected, AdmissionLocations
    <2> QED BY <1>1, <2>1, <2>2 DEF RequestFilter
<1>2. CASE AdmitRewrite(r)
    <2>1. CASE TryActive(r)
        <3>1. CASE activeAvail > 0
            BY <2>1, <3>1, TakeActiveStep DEF TryActive
        <3>2. CASE ~(activeAvail > 0)
            BY <1>0, <2>1, <3>2, QuietStep
            DEF TryActive, AdmissionLocations, admission
        <3> QED BY <3>1, <3>2
    <2>2. CASE TryQueue(r)
        <3>1. CASE queuedAvail > 0
            BY <2>2, <3>1, TakeQueueStep DEF TryQueue
        <3>2. CASE ~(queuedAvail > 0)
            BY <1>0, <2>2, <3>2, QuietStep
            DEF TryQueue, AdmissionLocations, admission
        <3> QED BY <3>1, <3>2
    <2>3. CASE Reject(r)
        <3>1. \/ pc' = [pc EXCEPT ![r] = "log"]
              \/ pc' = [pc EXCEPT ![r] = "fail"]
            BY <2>3 DEF Reject
        <3> QED BY <1>0, <2>3, <3>1, QuietStep DEF Reject, AdmissionLocations
    <2>4. CASE IncQueued(r)
        BY <2>4, QueueGaugeUpStep
    <2>5. CASE EnterWait(r)
        <3>1. CASE activeAvail > 0
            BY <2>5, <3>1, TakeActiveStep DEF EnterWait
        <3>2. CASE ~(activeAvail > 0)
            BY <2>5, <3>2, JoinLineStep DEF EnterWait
        <3> QED BY <3>1, <3>2
    <2>6. CASE DropQueuePermit(r)
        BY <2>6, QueuePermitDownStep
    <2>7. CASE DecQueued(r)
        BY <2>7, QueueGaugeDownStep
    <2>8. CASE IncActive(r)
        BY <2>8, ActiveGaugeUpStep
    <2> QED BY <1>2, <2>1, <2>2, <2>3, <2>4, <2>5, <2>6, <2>7, <2>8
            DEF AdmitRewrite
<1>3. CASE Connected(r)
    BY <1>0, <1>3, QuietStep DEF Connected, AdmissionLocations
<1>4. CASE TransportFails(r)
    BY <1>0, <1>4, QuietStep DEF TransportFails, AdmissionLocations
<1>5. CASE ResponseFilter(r)
    <2>1. /\ pc[r] = "respond"
          /\ \/ pc' = [pc EXCEPT ![r] = "stream"]
             \/ pc' = [pc EXCEPT ![r] = "stop"]
          /\ UNCHANGED <<admission, activePermit>>
        BY <1>5 DEF ResponseFilter, RespondBypass, RespondStatusBypass,
                    RespondInvalidContentType, RespondEncoded,
                    RespondRewritten, RespondNotModified, StopRewrite
    <2> QED BY <1>0, <2>1, QuietStep DEF AdmissionLocations
<1>6. CASE StopPermit(r)
    <2>1. AfterStop(r) \in {"stream", "fail"}
        BY DEF AfterStop
    <2>2. CASE StopTakePermit(r)
        <3>1. CASE activePermit[r]
            BY <2>2, <3>1, GiveBackStep DEF StopTakePermit
        <3>2. CASE ~activePermit[r]
            BY <2>1, <2>2, <3>2, QuietStep
            DEF StopTakePermit, AdmissionLocations, admission
        <3> QED BY <3>1, <3>2
    <2>3. CASE StopDecActive(r)
        <3> DEFINE l == AfterStop(r)
        <3>1. /\ pc[r] \in {"stop_dec", "log_dec"}
              /\ l \in {"stream", "fail", "idle"}
              /\ activeGauge' = activeGauge - 1
              /\ pc' = [pc EXCEPT ![r] = l]
              /\ UNCHANGED <<activeAvail, line, queuedAvail, queuedGauge,
                             activePermit>>
            BY <2>1, <2>3 DEF StopDecActive
        <3> HIDE DEF l
        <3> QED BY <3>1, ActiveGaugeDownStep
    <2> QED BY <1>6, <2>2, <2>3 DEF StopPermit
<1>7. CASE Stream(r)
    <2>1. CASE FlushHeader(r) \/ BodyChunk(r)
        BY <2>1, StutterStep DEF FlushHeader, BodyChunk
    <2>2. CASE BodyRejected(r) \/ EndOfStream(r)
        BY <1>0, <2>2, QuietStep
        DEF BodyRejected, EndOfStream, AdmissionLocations
    <2> QED BY <1>7, <2>1, <2>2 DEF Stream
<1>8. CASE FailToProxy(r)
    BY <1>0, <1>8, QuietStep DEF FailToProxy, AdmissionLocations
<1>9. CASE Logging(r)
    <2>1. CASE LogTakePermit(r)
        BY <2>1, GiveBackStep DEF LogTakePermit
    <2>2. CASE LogNoPermit(r)
        BY <2>2, QuietStep DEF LogNoPermit, AdmissionLocations
    <2>3. CASE LogDecActive(r)
        <3> DEFINE l == "idle"
        <3>1. /\ pc[r] \in {"stop_dec", "log_dec"}
              /\ l \in {"stream", "fail", "idle"}
              /\ activeGauge' = activeGauge - 1
              /\ pc' = [pc EXCEPT ![r] = l]
              /\ UNCHANGED <<activeAvail, line, queuedAvail, queuedGauge,
                             activePermit>>
            BY <2>3 DEF LogDecActive
        <3> HIDE DEF l
        <3> QED BY <3>1, ActiveGaugeDownStep
    <2> QED BY <1>9, <2>1, <2>2, <2>3 DEF Logging
<1> QED BY <1>1, <1>2, <1>3, <1>4, <1>5, <1>6, <1>7, <1>8, <1>9 DEF Step

-----------------------------------------------------------------------------
(* The theorems about admission.                                           *)

(* The types and the admission invariant hold in every reachable state.    *)
THEOREM AdmissionInvariant == Spec => [](Types /\ AdmissionInv)
<1>1. Init => Types /\ AdmissionInv
    BY TypesInit, AdmissionInit
<1>2. Types /\ AdmissionInv /\ [Next]_vars => (Types /\ AdmissionInv)'
    <2> SUFFICES ASSUME Types, AdmissionInv, [Next]_vars
                 PROVE  (Types /\ AdmissionInv)'
        OBVIOUS
    <2>1. CASE Next
        <3>1. PICK r \in Requests : Step(r)
            BY <2>1 DEF Next
        <3> QED BY <3>1, TypesStep, AdmissionStep
    <2>2. CASE UNCHANGED vars
        <3>1. Types'
            BY <2>2 DEF vars, admission, context, response, Types
        <3>2. AdmissionInv'
            BY <2>2, StutterStep DEF vars, context
        <3> QED BY <3>1, <3>2
    <2> QED BY <2>1, <2>2
<1> QED BY <1>1, <1>2, PTL DEF Spec

(* TypeOK: in particular neither semaphore ever has more permits than it   *)
(* was created with.                                                       *)
THEOREM TypeCorrect == Spec => []TypeOK
<1>1. Types /\ AdmissionInv => TypeOK
    <2> SUFFICES ASSUME Types, AdmissionInv PROVE TypeOK
        OBVIOUS
    <2>1. /\ Cardinality(ActiveHolders) \in Nat
          /\ Cardinality(QueueHolders) \in Nat
        BY FiniteRequests DEF ActiveHolders, QueueHolders
    <2>2. activeAvail =< MaxConcurrent /\ queuedAvail =< MaxQueued
        BY <2>1, MaxConcurrentAssumption, MaxQueuedAssumption
        DEF AdmissionInv, PermitsConserved, Types
    <2> QED BY <2>2, MaxConcurrentAssumption, MaxQueuedAssumption
            DEF Types, TypeOK
<1> QED BY <1>1, AdmissionInvariant, PTL

(* No path through the callbacks loses a permit or makes one.              *)
THEOREM PermitConservation == Spec => []PermitsConserved
BY AdmissionInvariant, PTL DEF AdmissionInv

(* No permit is free while a request waits for one.                        *)
THEOREM WorkConservation == Spec => []NoIdlePermit
BY AdmissionInvariant, PTL DEF AdmissionInv

(* The gauges always account for the requests between their updates.       *)
THEOREM GaugeAccounting == Spec => []GaugesAccount
BY AdmissionInvariant, PTL DEF AdmissionInv

-----------------------------------------------------------------------------
(* The life of a context: what holds of one request at each location.      *)

EmittedAgrees(r) ==
    /\ "upstream" \in emitted[r] => header[r] = "plain"
    /\ "rewritten" \in emitted[r] => header[r] = "rewritten"

OutcomeAgrees(r) ==
    CASE outcome[r] \in {"rewrite", "queued"} -> header[r] = "rewritten"
      [] outcome[r] = "not_modified" -> header[r] = "not_modified"
      [] outcome[r] = "queue_full"   -> header[r] = "refused"
      [] OTHER                       -> header[r] = "plain"

BeforeAdmission(r) ==
    pc[r] \in {"idle", "try_active", "try_queue", "reject", "inc_queued",
               "enter_wait", "waiting", "granted", "dec_queued", "inc_active"}
    => /\ ~rewriter[r] /\ ~activePermit[r] /\ ~suppressBody[r]
       /\ failure[r] = "none" /\ header[r] = "none" /\ emitted[r] = {}
       /\ pc[r] = "idle" <=> decision[r] = "bypass"
       /\ ~headOnly[r]
       /\ pc[r] = "idle" => outcome[r] = "bypass"
       /\ pc[r] = "reject" => outcome[r] = "queue_full"
       /\ pc[r] \notin {"idle", "reject"} => outcome[r] \in {"rewrite", "queued"}

BeforeResponse(r) ==
    pc[r] \in {"connect", "respond"}
    => /\ ~suppressBody[r]
       /\ failure[r] = "none" /\ header[r] = "none" /\ emitted[r] = {}
       /\ rewriter[r] <=> activePermit[r]
       /\ rewriter[r] <=> decision[r] # "bypass" /\ ~headOnly[r]
       /\ IF decision[r] = "bypass"
             THEN outcome[r] = "bypass" /\ ~compression[r]
             ELSE outcome[r] \in {"rewrite", "queued"}

PlainResponse(r) ==
    /\ header[r] = "plain" /\ ~rewriter[r] /\ ~compression[r]
    /\ "rewritten" \notin emitted[r]
    /\ outcome[r] \in {"bypass", "upstream_status_bypass",
                       "invalid_content_type"}

RewrittenResponse(r) ==
    /\ header[r] = "rewritten"
    /\ headOnly[r] \/ rewriter[r]
    /\ "upstream" \notin emitted[r]
    /\ outcome[r] \in {"rewrite", "queued"}

NotModifiedResponse(r) ==
    /\ header[r] = "not_modified" /\ ~rewriter[r] /\ ~compression[r]
    /\ suppressBody[r] /\ emitted[r] = {}
    /\ outcome[r] = "not_modified"

Stopping(r) ==
    pc[r] \in {"stop", "stop_dec"}
    => /\ ~rewriter[r] /\ ~compression[r] /\ emitted[r] = {}
       /\ pc[r] = "stop_dec" => ~activePermit[r]
       /\ failure[r] = "none" => PlainResponse(r) \/ NotModifiedResponse(r)

Streaming(r) ==
    pc[r] = "stream"
    => /\ failure[r] = "none"
       /\ rewriter[r] <=> activePermit[r]
       /\ PlainResponse(r) \/ RewrittenResponse(r) \/ NotModifiedResponse(r)

Ending(r) ==
    pc[r] \in {"fail", "log", "log_dec"}
    => /\ pc[r] = "fail" => failure[r] # "none"
       /\ EmittedAgrees(r)
       /\ failure[r] = "none" => OutcomeAgrees(r)

ContextOK(r) ==
    /\ BeforeAdmission(r)
    /\ BeforeResponse(r)
    /\ Stopping(r)
    /\ Streaming(r)
    /\ Ending(r)

ContextInv == \A r \in Requests : ContextOK(r)

\* The context and the response of request s are left alone.
SameContext(s) ==
    /\ decision'[s] = decision[s]
    /\ headOnly'[s] = headOnly[s]
    /\ activePermit'[s] = activePermit[s]
    /\ rewriter'[s] = rewriter[s]
    /\ suppressBody'[s] = suppressBody[s]
    /\ outcome'[s] = outcome[s]
    /\ compression'[s] = compression[s]
    /\ failure'[s] = failure[s]
    /\ header'[s] = header[s]
    /\ emitted'[s] = emitted[s]

(* Initially every context is that of new_ctx.                             *)
LEMMA ContextInit == Init => ContextInv
BY DEF Init, ContextInv, ContextOK, BeforeAdmission, BeforeResponse,
       Stopping, Streaming, Ending

(* Releasing a permit moves at most the head of the line.                  *)
LEMMA GiveBackOthers ==
    ASSUME Types, LineOK, NEW r \in Requests, NEW s \in Requests, s # r,
           NEW l \in Locations, GiveBack(r, l)
    PROVE  \/ pc'[s] = pc[s]
           \/ pc[s] = "waiting" /\ pc'[s] = "granted"
<1>1. CASE line = <<>>
    BY <1>1 DEF GiveBack, Types
<1>2. CASE line # <<>>
    <2>1. Head(line) \in Requests /\ pc[Head(line)] = "waiting"
        BY <1>2, HeadOfLine
    <2>2. pc' = [pc EXCEPT ![r] = l, ![Head(line)] = "granted"]
        BY <1>2 DEF GiveBack
    <2> QED BY <2>1, <2>2 DEF Types
<1> QED BY <1>1, <1>2

(* A request moves another one only by handing it the permit it waits for. *)
LEMMA OthersStep ==
    ASSUME Types, AdmissionInv, NEW r \in Requests, Step(r),
           NEW s \in Requests, s # r
    PROVE  /\ SameContext(s)
           /\ \/ pc'[s] = pc[s]
              \/ pc[s] = "waiting" /\ pc'[s] = "granted"
<1> USE DEF Types, context, response, SameContext
<1>1. CASE RequestFilter(r)
    BY <1>1 DEF RequestFilter, FilterBypass, FilterSelected
<1>2. CASE AdmitRewrite(r)
    <2>1. CASE TryActive(r) \/ TryQueue(r) \/ Reject(r) \/ IncQueued(r)
        BY <2>1 DEF TryActive, TryQueue, Reject, IncQueued
    <2>2. CASE EnterWait(r) \/ DropQueuePermit(r) \/ DecQueued(r)
               \/ IncActive(r)
        BY <2>2 DEF EnterWait, DropQueuePermit, DecQueued, IncActive
    <2> QED BY <1>2, <2>1, <2>2 DEF AdmitRewrite
<1>3. CASE Connected(r) \/ TransportFails(r) \/ FailToProxy(r)
    BY <1>3 DEF Connected, TransportFails, FailToProxy
<1>4. CASE ResponseFilter(r)
    BY <1>4 DEF ResponseFilter, RespondBypass, RespondStatusBypass,
                RespondInvalidContentType, RespondEncoded, RespondRewritten,
                RespondNotModified, StopRewrite
<1>5. /\ "stop_dec" \in Locations /\ "log_dec" \in Locations
      /\ line \in Seq(Requests) /\ LineOK
      /\ pc \in [Requests -> Locations]
    BY DEF Locations, AdmissionInv
<1>6. CASE StopPermit(r)
    <2>1. CASE StopTakePermit(r)
        <3>1. CASE activePermit[r]
            BY <1>5, <2>1, <3>1, GiveBackOthers DEF StopTakePermit
        <3>2. CASE ~activePermit[r]
            BY <2>1, <3>2 DEF StopTakePermit
        <3> QED BY <3>1, <3>2
    <2>2. CASE StopDecActive(r)
        BY <2>2 DEF StopDecActive
    <2> QED BY <1>6, <2>1, <2>2 DEF StopPermit
<1>7. CASE Stream(r)
    BY <1>7 DEF Stream, FlushHeader, BodyChunk, BodyRejected, EndOfStream
<1>8. CASE Logging(r)
    <2>1. CASE LogTakePermit(r)
        BY <1>5, <2>1, GiveBackOthers DEF LogTakePermit
    <2>2. CASE LogNoPermit(r) \/ LogDecActive(r)
        BY <2>2 DEF LogNoPermit, LogDecActive, DropContext
    <2> QED BY <1>8, <2>1, <2>2 DEF Logging
<1> QED BY <1>1, <1>2, <1>3, <1>4, <1>6, <1>7, <1>8 DEF Step

(* A request's own step keeps what holds of its context.                   *)
LEMMA OwnStep ==
    ASSUME Types, AdmissionInv, NEW r \in Requests, Step(r), ContextOK(r)
    PROVE  ContextOK(r)'
<1> USE DEF Types, context, response, ContextOK, BeforeAdmission,
            BeforeResponse, Stopping, Streaming, Ending
<1>1. CASE RequestFilter(r)
    <2>1. CASE FilterBypass(r)
        BY <2>1 DEF FilterBypass
    <2>2. CASE FilterSelected(r)
        <3>1. PICK a \in Arrivals :
                /\ a.decision # "bypass"
                /\ decision' = [decision EXCEPT ![r] = a.decision]
                /\ headOnly' = [headOnly EXCEPT ![r] = a.headOnly]
                /\ pc' = [pc EXCEPT ![r] =
                            IF a.headOnly THEN "connect" ELSE "try_active"]
            BY <2>2 DEF FilterSelected
        <3>2. a.headOnly \in BOOLEAN
            BY ArrivalsAssumption
        <3> QED BY <2>2, <3>1, <3>2 DEF FilterSelected
    <2> QED BY <1>1, <2>1, <2>2 DEF RequestFilter
<1>2. CASE AdmitRewrite(r)
    <2>1. CASE TryActive(r)
        BY <2>1 DEF TryActive
    <2>2. CASE TryQueue(r)
        BY <2>2 DEF TryQueue
    <2>3. CASE Reject(r)
        BY <2>3 DEF Reject, EmittedAgrees, OutcomeAgrees
    <2>4. CASE IncQueued(r)
        BY <2>4 DEF IncQueued
    <2>5. CASE EnterWait(r)
        BY <2>5 DEF EnterWait
    <2>6. CASE DropQueuePermit(r) \/ DecQueued(r)
        BY <2>6 DEF DropQueuePermit, DecQueued
    <2>7. CASE IncActive(r)
        BY <2>7 DEF IncActive
    <2> QED BY <1>2, <2>1, <2>2, <2>3, <2>4, <2>5, <2>6, <2>7
            DEF AdmitRewrite
<1>3. CASE Connected(r)
    BY <1>3 DEF Connected
<1>4. CASE TransportFails(r)
    BY <1>4 DEF TransportFails, EmittedAgrees, PlainResponse,
                RewrittenResponse, NotModifiedResponse
<1>5. CASE ResponseFilter(r)
    <2> USE DEF PlainResponse, RewrittenResponse, NotModifiedResponse
    <2>1. CASE RespondBypass(r)
        BY <2>1 DEF RespondBypass
    <2>2. CASE RespondStatusBypass(r)
        BY <2>2 DEF RespondStatusBypass, StopRewrite
    <2>3. CASE RespondInvalidContentType(r)
        BY <2>3 DEF RespondInvalidContentType, StopRewrite
    <2>4. CASE RespondEncoded(r)
        BY <2>4 DEF RespondEncoded, StopRewrite
    <2>5. CASE RespondRewritten(r)
        BY <2>5 DEF RespondRewritten
    <2>6. CASE RespondNotModified(r)
        BY <2>6 DEF RespondNotModified, StopRewrite
    <2> QED BY <1>5, <2>1, <2>2, <2>3, <2>4, <2>5, <2>6 DEF ResponseFilter
<1>6. CASE StopPermit(r)
    <2> USE DEF AfterStop, EmittedAgrees, PlainResponse, NotModifiedResponse
    <2>1. CASE StopTakePermit(r)
        <3>1. CASE activePermit[r]
            <4>1. pc'[r] = "stop_dec"
                BY <2>1, <3>1, HeadOfLine
                DEF StopTakePermit, GiveBack, AdmissionInv
            <4> QED BY <2>1, <3>1, <4>1 DEF StopTakePermit
        <3>2. CASE ~activePermit[r]
            BY <2>1, <3>2 DEF StopTakePermit
        <3> QED BY <3>1, <3>2
    <2>2. CASE StopDecActive(r)
        BY <2>2 DEF StopDecActive
    <2> QED BY <1>6, <2>1, <2>2 DEF StopPermit
<1>7. CASE Stream(r)
    <2> USE DEF PlainResponse, RewrittenResponse, NotModifiedResponse,
                EmittedAgrees, OutcomeAgrees
    <2>1. CASE FlushHeader(r)
        BY <2>1 DEF FlushHeader
    <2>2. CASE BodyChunk(r)
        BY <2>2 DEF BodyChunk
    <2>3. CASE BodyRejected(r)
        BY <2>3 DEF BodyRejected
    <2>4. CASE EndOfStream(r)
        BY <2>4 DEF EndOfStream
    <2> QED BY <1>7, <2>1, <2>2, <2>3, <2>4 DEF Stream
<1>8. CASE FailToProxy(r)
    BY <1>8 DEF FailToProxy, EmittedAgrees
<1>9. CASE Logging(r)
    <2>1. CASE LogTakePermit(r)
        <3>1. pc'[r] = "log_dec"
            BY <2>1, HeadOfLine DEF LogTakePermit, GiveBack, AdmissionInv
        <3> QED BY <2>1, <3>1 DEF LogTakePermit, EmittedAgrees, OutcomeAgrees
    <2>2. CASE LogNoPermit(r)
        BY <2>2 DEF LogNoPermit, DropContext
    <2>3. CASE LogDecActive(r)
        BY <2>3 DEF LogDecActive, DropContext, AdmissionInv, PermitOK
    <2> QED BY <1>9, <2>1, <2>2, <2>3 DEF Logging
<1> QED BY <1>1, <1>2, <1>3, <1>4, <1>5, <1>6, <1>7, <1>8, <1>9 DEF Step

-----------------------------------------------------------------------------
(* The theorems about responses.                                           *)

(* What holds of a context at each location holds in every reachable state.*)
THEOREM ContextInvariant == Spec => []ContextInv
<1>1. Init => ContextInv
    BY ContextInit
<1>2. ContextInv /\ Types /\ AdmissionInv /\ [Next]_vars => ContextInv'
    <2> SUFFICES ASSUME ContextInv, Types, AdmissionInv, [Next]_vars,
                        NEW s \in Requests
                 PROVE  ContextOK(s)'
        BY DEF ContextInv
    <2>0. ContextOK(s)
        BY DEF ContextInv
    <2> USE DEF ContextOK, BeforeAdmission, BeforeResponse, Stopping,
                Streaming, Ending, EmittedAgrees, OutcomeAgrees,
                PlainResponse, RewrittenResponse, NotModifiedResponse
    <2>1. ASSUME NEW r \in Requests, Step(r) PROVE ContextOK(s)'
        <3>1. CASE s = r
            <4> HIDE DEF ContextOK
            <4> QED BY <2>0, <2>1, <3>1, OwnStep
        <3>2. CASE s # r
            <4>1. /\ SameContext(s)
                  /\ \/ pc'[s] = pc[s]
                     \/ pc[s] = "waiting" /\ pc'[s] = "granted"
                BY <2>1, <3>2, OthersStep
            <4> QED BY <2>0, <4>1 DEF SameContext
        <3> QED BY <3>1, <3>2
    <2>2. CASE UNCHANGED vars
        BY <2>0, <2>2 DEF vars, context, response
    <2> QED BY <2>1, <2>2 DEF Next
<1> QED BY <1>1, <1>2, AdmissionInvariant, PTL DEF Spec

(* At most MaxConcurrent bodies are rewritten at a time, each by a request *)
(* that owns an active permit.                                             *)
THEOREM RewriteBound == Spec => []RewritesUnderPermit
<1>1. Types /\ AdmissionInv /\ ContextInv => RewritesUnderPermit
    <2> SUFFICES ASSUME Types, AdmissionInv, ContextInv
                 PROVE  RewritesUnderPermit
        OBVIOUS
    <2> DEFINE inFlight ==
                 {r \in Requests : pc[r] \in {"connect", "respond", "stream"}}
               live == {r \in inFlight : rewriter[r]}
    <2>1. \A r \in inFlight : rewriter[r] <=> activePermit[r]
        BY DEF ContextInv, ContextOK, BeforeResponse, Streaming
    <2>2. live \subseteq ActiveHolders /\ ActiveHolders \in SUBSET Requests
        BY <2>1 DEF ActiveHolders
    <2>3. Cardinality(live) =< Cardinality(ActiveHolders)
        BY <2>2, FiniteRequests, FS_Subset
    <2>4. /\ Cardinality(live) \in Nat
          /\ Cardinality(ActiveHolders) \in Nat
        BY <2>2, FiniteRequests
    <2>5. Cardinality(ActiveHolders) =< MaxConcurrent
        BY <2>4, MaxConcurrentAssumption
        DEF AdmissionInv, PermitsConserved, Types
    <2>6. Cardinality(live) =< MaxConcurrent
        BY <2>3, <2>4, <2>5, MaxConcurrentAssumption
    <2> QED BY <2>1, <2>6 DEF RewritesUnderPermit
<1> QED BY <1>1, AdmissionInvariant, ContextInvariant, PTL

(* No client gets a body of another kind than its header announces.        *)
THEOREM HeaderBodyAgreement == Spec => []HeaderBodyAgree
<1>1. Types /\ ContextInv => HeaderBodyAgree
    <2> SUFFICES ASSUME Types, ContextInv, NEW r \in Requests
                 PROVE  /\ "upstream" \in emitted[r] => header[r] = "plain"
                        /\ "rewritten" \in emitted[r] =>
                             header[r] = "rewritten"
                        /\ pc[r] = "stream" /\ compression[r] =>
                             header[r] = "rewritten"
        BY DEF HeaderBodyAgree
    <2>1. ContextOK(r) /\ pc[r] \in Locations /\ emitted[r] \subseteq BodyKinds
        BY DEF ContextInv, Types
    <2> QED BY <2>1
            DEF ContextOK, BeforeAdmission, BeforeResponse, Stopping,
                Streaming, Ending, EmittedAgrees, PlainResponse,
                RewrittenResponse, NotModifiedResponse, Locations
<1> QED BY <1>1, AdmissionInvariant, ContextInvariant, PTL

(* The outcome that is counted is what happened to the response.           *)
THEOREM TruthfulOutcome == Spec => []OutcomeTruthful
<1>1. ContextInv => OutcomeTruthful
    BY DEF ContextInv, ContextOK, Ending, OutcomeAgrees, OutcomeTruthful
<1> QED BY <1>1, ContextInvariant, PTL

-----------------------------------------------------------------------------
(* The refinement of AdmissionControl.                                     *)

Entering == {r \in Requests : pc[r] \in {"inc_queued", "enter_wait"}}
Waiting  == {r \in Requests : pc[r] = "waiting"}

\* The line is as long as there are waiting requests.
LineLength == Len(line) = Cardinality(Waiting)

(* The elements of the line are waiting requests.                          *)
LEMMA LineIsWaiting ==
    ASSUME Types, LineOK
    PROVE  Admission!InLine \subseteq Waiting
BY DEF Types, LineOK, Waiting, Admission!InLine

(* The queue limit bounds the requests that enter or wait.                 *)
LEMMA QueueRoom ==
    ASSUME Types, AdmissionInv, LineLength, queuedAvail > 0
    PROVE  Cardinality(Entering) + Len(line) < MaxQueued
<1>1. /\ Entering \in SUBSET Requests
      /\ Waiting \in SUBSET Requests
      /\ QueueHolders \in SUBSET Requests
      /\ Entering \cup Waiting \subseteq QueueHolders
      /\ Entering \cap Waiting = {}
    BY DEF Entering, Waiting, QueueHolders
<1>2. /\ IsFiniteSet(Entering) /\ IsFiniteSet(Waiting)
      /\ IsFiniteSet(QueueHolders)
      /\ Cardinality(Entering) \in Nat /\ Cardinality(Waiting) \in Nat
      /\ Cardinality(QueueHolders) \in Nat
    BY <1>1, FiniteRequests
<1>3. Cardinality(Entering \cup Waiting)
        = Cardinality(Entering) + Cardinality(Waiting)
    BY <1>1, <1>2, FS_Union, FS_EmptySet
<1>4. Cardinality(Entering \cup Waiting) =< Cardinality(QueueHolders)
    BY <1>1, <1>2, FS_Subset
<1>5. queuedAvail + Cardinality(QueueHolders) = MaxQueued
    BY DEF AdmissionInv, PermitsConserved
<1> QED BY <1>2, <1>3, <1>4, <1>5, MaxQueuedAssumption DEF LineLength, Types

(* The length of the line stays the number of waiting requests.            *)
LEMMA LineLengthStep ==
    ASSUME Types, AdmissionInv, LineLength, NEW r \in Requests, Step(r)
    PROVE  LineLength'
<1>1. /\ line \in Seq(Requests) /\ Len(line) \in Nat
      /\ Waiting \in SUBSET Requests
      /\ pc \in [Requests -> Locations]
    BY DEF Types, Waiting
<1>2. ASSUME line' = line, Waiting' = Waiting PROVE LineLength'
    BY <1>2 DEF LineLength
<1>3. ASSUME NEW l, l # "waiting", pc[r] # "waiting", line' = line,
             pc' = [pc EXCEPT ![r] = l]
      PROVE  LineLength'
    BY <1>1, <1>2, <1>3 DEF Waiting
<1>4. ASSUME NEW l \in {"stop_dec", "log_dec"}, pc[r] # "waiting",
             GiveBack(r, l)
      PROVE  LineLength'
    <2>1. CASE line = <<>>
        BY <1>3, <1>4, <2>1 DEF GiveBack
    <2>2. CASE line # <<>>
        <3> DEFINE h == Head(line)
        <3>1. /\ h \in Requests /\ pc[h] = "waiting" /\ h # r
              /\ Len(Tail(line)) = Len(line) - 1
            BY <1>4, <2>2, HeadOfLine DEF AdmissionInv
        <3>2. /\ pc' = [pc EXCEPT ![r] = l, ![h] = "granted"]
              /\ line' = Tail(line)
            BY <1>4, <2>2 DEF GiveBack
        <3> HIDE DEF h
        <3>3. Waiting' = Waiting \ {h} /\ h \in Waiting
            BY <1>1, <1>4, <3>1, <3>2 DEF Waiting
        <3>4. Cardinality(Waiting \ {h}) = Cardinality(Waiting) - 1
            BY <1>1, <3>3, FiniteRequests, CardRemove
        <3> QED BY <3>1, <3>2, <3>3, <3>4 DEF LineLength
    <2> QED BY <2>1, <2>2
<1>5. CASE EnterWait(r)
    <2>1. CASE activeAvail > 0
        BY <1>3, <1>5, <2>1 DEF EnterWait
    <2>2. CASE ~(activeAvail > 0)
        <3>1. /\ pc[r] = "enter_wait"
              /\ pc' = [pc EXCEPT ![r] = "waiting"]
              /\ line' = Append(line, r)
            BY <1>5, <2>2 DEF EnterWait
        <3>2. Waiting' = Waiting \cup {r} /\ r \notin Waiting
            BY <1>1, <3>1 DEF Waiting
        <3>3. Cardinality(Waiting \cup {r}) = Cardinality(Waiting) + 1
            BY <1>1, <3>2, FiniteRequests, CardAdd
        <3> QED BY <1>1, <3>1, <3>2, <3>3 DEF LineLength
    <2> QED BY <2>1, <2>2
<1>6. CASE StopTakePermit(r)
    <2>1. CASE activePermit[r]
        BY <1>4, <1>6, <2>1 DEF StopTakePermit
    <2>2. CASE ~activePermit[r]
        BY <1>3, <1>6, <2>2 DEF StopTakePermit, AfterStop
    <2> QED BY <2>1, <2>2
<1>7. CASE LogTakePermit(r)
    BY <1>4, <1>7 DEF LogTakePermit
<1>8. CASE \/ RequestFilter(r) \/ TryActive(r) \/ TryQueue(r) \/ Reject(r)
           \/ IncQueued(r) \/ DropQueuePermit(r) \/ DecQueued(r)
           \/ IncActive(r)
    <2>1. line' = line /\ pc[r] # "waiting" /\ Waiting' = Waiting
        BY <1>1, <1>8
        DEF Waiting, admission, context, response, RequestFilter,
            FilterBypass, FilterSelected, TryActive, TryQueue, Reject,
            IncQueued, DropQueuePermit, DecQueued, IncActive
    <2> QED BY <1>2, <2>1
<1>9. CASE \/ Connected(r) \/ TransportFails(r) \/ ResponseFilter(r)
           \/ StopDecActive(r) \/ Stream(r) \/ FailToProxy(r)
           \/ LogNoPermit(r) \/ LogDecActive(r)
    <2>1. line' = line /\ Waiting' = Waiting
        BY <1>1, <1>9
        DEF Waiting, admission, context, response, Connected, TransportFails,
            ResponseFilter, RespondBypass, RespondStatusBypass,
            RespondInvalidContentType, RespondEncoded, RespondRewritten,
            RespondNotModified, StopRewrite, StopDecActive, AfterStop,
            Stream, FlushHeader, BodyChunk, BodyRejected, EndOfStream,
            FailToProxy, LogNoPermit, LogDecActive
    <2> QED BY <1>2, <2>1
<1> QED BY <1>5, <1>6, <1>7, <1>8, <1>9
        DEF Step, AdmitRewrite, StopPermit, Logging

(* A step that is not one of the four admission steps changes nothing the  *)
(* abstract admission sees.                                                *)
LEMMA InvisibleStep ==
    ASSUME Types, AdmissionInv, NEW r \in Requests,
           \/ RequestFilter(r)
           \/ TryActive(r) /\ ~(activeAvail > 0)
           \/ TryQueue(r) /\ ~(queuedAvail > 0)
           \/ Reject(r) \/ IncQueued(r) \/ DropQueuePermit(r)
           \/ DecQueued(r) \/ IncActive(r)
           \/ Connected(r) \/ TransportFails(r) \/ ResponseFilter(r)
           \/ StopTakePermit(r) /\ ~activePermit[r]
           \/ StopDecActive(r) \/ Stream(r) \/ FailToProxy(r)
           \/ LogNoPermit(r) \/ LogDecActive(r)
    PROVE  UNCHANGED <<ActiveHolders, Entering, line>>
<1> USE DEF Types, admission, context, response, ActiveHolders, Entering
<1>1. CASE \/ RequestFilter(r)
           \/ TryActive(r) /\ ~(activeAvail > 0)
           \/ TryQueue(r) /\ ~(queuedAvail > 0)
           \/ Reject(r) \/ IncQueued(r)
    BY <1>1 DEF RequestFilter, FilterBypass, FilterSelected, TryActive,
                TryQueue, Reject, IncQueued
<1>2. CASE DropQueuePermit(r) \/ DecQueued(r) \/ IncActive(r)
    BY <1>2 DEF DropQueuePermit, DecQueued, IncActive
<1>3. CASE \/ Connected(r) \/ TransportFails(r) \/ ResponseFilter(r)
           \/ StopTakePermit(r) /\ ~activePermit[r]
           \/ StopDecActive(r) \/ Stream(r) \/ FailToProxy(r)
    BY <1>3
    DEF Connected, TransportFails, ResponseFilter, RespondBypass,
        RespondStatusBypass, RespondInvalidContentType, RespondEncoded,
        RespondRewritten, RespondNotModified, StopRewrite, StopTakePermit,
        StopDecActive, AfterStop, Stream, FlushHeader, BodyChunk,
        BodyRejected, EndOfStream, FailToProxy
<1>4. CASE LogNoPermit(r) \/ LogDecActive(r)
    BY <1>4 DEF LogNoPermit, LogDecActive
<1> QED BY <1>1, <1>2, <1>3, <1>4

(* A free permit means a free place and an empty line.                     *)
LEMMA FreePlace ==
    ASSUME Types, AdmissionInv
    PROVE  /\ activeAvail > 0 => /\ line = <<>>
                                 /\ Cardinality(ActiveHolders) < MaxConcurrent
           /\ ~(activeAvail > 0) => ~(Cardinality(ActiveHolders) < MaxConcurrent)
<1>1. Cardinality(ActiveHolders) \in Nat
    BY FiniteRequests DEF ActiveHolders
<1> QED BY <1>1, MaxConcurrentAssumption
        DEF Types, AdmissionInv, PermitsConserved, NoIdlePermit

(* Giving a permit back is a Finish of the abstract admission.             *)
LEMMA GiveBackIsFinish ==
    ASSUME Types, AdmissionInv, NEW r \in Requests,
           NEW l \in {"stop_dec", "log_dec"},
           pc[r] \in {"stop", "log"}, activePermit[r],
           GiveBack(r, l),
           activePermit' = [activePermit EXCEPT ![r] = FALSE]
    PROVE  Admission!Finish(r)
<1> USE DEF Types
<1>1. r \in ActiveHolders
    BY DEF ActiveHolders
<1>2. CASE line = <<>>
    <2>1. pc' = [pc EXCEPT ![r] = l] /\ line' = line
        BY <1>2 DEF GiveBack
    <2>2. ActiveHolders' = ActiveHolders \ {r} /\ Entering' = Entering
        BY <2>1 DEF ActiveHolders, Entering
    <2> QED BY <1>1, <1>2, <2>1, <2>2 DEF Admission!Finish, Entering
<1>3. CASE line # <<>>
    <2> DEFINE h == Head(line)
    <2>1. h \in Requests /\ pc[h] = "waiting"
        BY <1>3, HeadOfLine DEF AdmissionInv
    <2>2. /\ pc' = [pc EXCEPT ![r] = l, ![h] = "granted"]
          /\ line' = Tail(line)
        BY <1>3 DEF GiveBack
    <2>3. ~activePermit[h]
        BY <2>1 DEF AdmissionInv, PermitOK
    <2>4. /\ ActiveHolders' = (ActiveHolders \ {r}) \cup {h}
          /\ Entering' = Entering
        <3> HIDE DEF h
        <3> QED BY <2>1, <2>2, <2>3 DEF ActiveHolders, Entering
    <2> QED BY <1>1, <1>3, <2>2, <2>4 DEF Admission!Finish, Entering
<1> QED BY <1>2, <1>3

(* The instance counts with the same operator.                             *)
LEMMA SameCardinality ==
    ASSUME NEW S
    PROVE  Admission!Cardinality(S) = Cardinality(S)
BY DEF Cardinality, Admission!Cardinality

(* Every step of a request is a step of the abstract admission, or none.   *)
LEMMA AdmissionSimulation ==
    ASSUME Types, AdmissionInv, LineLength, NEW r \in Requests, Step(r)
    PROVE  [Admission!Next]_(Admission!vars)
<1>0. LineOK
    BY DEF AdmissionInv
<1>1. CASE TryActive(r) /\ activeAvail > 0
    <2>1. /\ pc[r] = "try_active"
          /\ pc' = [pc EXCEPT ![r] = "inc_active"]
          /\ line' = line /\ activePermit' = activePermit
        BY <1>1 DEF TryActive, context
    <2>2. /\ ActiveHolders' = ActiveHolders \cup {r}
          /\ r \notin ActiveHolders
          /\ Entering' = Entering
          /\ r \notin Entering
        BY <2>1 DEF ActiveHolders, Entering, Types, AdmissionInv, PermitOK
    <2>3. r \notin Admission!InLine
        BY <1>0, <2>1, LineIsWaiting DEF Waiting
    <2>4. Admission!Start(r)
        BY <1>1, <2>1, <2>2, <2>3, FreePlace, SameCardinality
        DEF Admission!Start, Admission!Absent, Entering
    <2> QED BY <2>4 DEF Admission!Next
<1>2. CASE TryQueue(r) /\ queuedAvail > 0
    <2>1. /\ pc[r] = "try_queue"
          /\ pc' = [pc EXCEPT ![r] = "inc_queued"]
          /\ line' = line /\ activePermit' = activePermit
        BY <1>2 DEF TryQueue
    <2>2. /\ Entering' = Entering \cup {r}
          /\ r \notin Entering
          /\ ActiveHolders' = ActiveHolders
          /\ r \notin ActiveHolders
        BY <2>1 DEF ActiveHolders, Entering, Types, AdmissionInv, PermitOK
    <2>3. r \notin Admission!InLine
        BY <1>0, <2>1, LineIsWaiting DEF Waiting
    <2>4. Admission!Reserve(r)
        BY <1>2, <2>1, <2>2, <2>3, QueueRoom, SameCardinality
        DEF Admission!Reserve, Admission!Absent, Entering
    <2> QED BY <2>4 DEF Admission!Next
<1>3. CASE EnterWait(r)
    <2>1. pc[r] = "enter_wait" /\ activePermit' = activePermit
        BY <1>3 DEF EnterWait, context
    <2>2. r \in Entering
        BY <2>1 DEF Entering
    <2>3. CASE activeAvail > 0
        <3>1. pc' = [pc EXCEPT ![r] = "granted"] /\ line' = line
            BY <1>3, <2>3 DEF EnterWait
        <3>2. /\ Entering' = Entering \ {r}
              /\ ActiveHolders' = ActiveHolders \cup {r}
            BY <2>1, <3>1 DEF ActiveHolders, Entering, Types
        <3>3. Admission!Join(r)
            BY <2>2, <2>3, <3>1, <3>2, FreePlace, SameCardinality
               DEF Admission!Join, Entering
        <3> QED BY <3>3 DEF Admission!Next
    <2>4. CASE ~(activeAvail > 0)
        <3>1. /\ pc' = [pc EXCEPT ![r] = "waiting"]
              /\ line' = Append(line, r)
            BY <1>3, <2>4 DEF EnterWait
        <3>2. /\ Entering' = Entering \ {r}
              /\ ActiveHolders' = ActiveHolders
            BY <2>1, <3>1 DEF ActiveHolders, Entering, Types
        <3>3. Admission!Join(r)
            BY <2>2, <2>4, <3>1, <3>2, FreePlace, SameCardinality
               DEF Admission!Join, Entering
        <3> QED BY <3>3 DEF Admission!Next
    <2> QED BY <2>3, <2>4
<1>4. CASE (StopTakePermit(r) /\ activePermit[r]) \/ LogTakePermit(r)
    <2>1. Admission!Finish(r)
        BY <1>4, GiveBackIsFinish DEF StopTakePermit, LogTakePermit
    <2> QED BY <2>1 DEF Admission!Next
<1>5. CASE UNCHANGED <<ActiveHolders, Entering, line>>
    BY <1>5 DEF Admission!vars, Entering
<1> QED BY <1>1, <1>2, <1>3, <1>4, <1>5, InvisibleStep
        DEF Step, AdmitRewrite, StopPermit, Logging

(* The proxy implements AdmissionControl: limits, hand-over, order of the  *)
(* line.                                                                   *)
THEOREM AdmissionRefinement == Spec => ImplementsAdmission
<1>1. Init => LineLength
    <2> SUFFICES ASSUME Init PROVE LineLength
        OBVIOUS
    <2>1. Waiting = {} /\ line = <<>>
        BY DEF Init, Waiting
    <2> QED BY <2>1, FS_EmptySet DEF LineLength
<1>2. Types /\ AdmissionInv /\ LineLength /\ [Next]_vars => LineLength'
    <2>1. UNCHANGED vars /\ LineLength => LineLength'
        BY DEF vars, admission, LineLength, Waiting
    <2> QED BY <2>1, LineLengthStep DEF Next
<1>3. Init => Admission!Init
    BY DEF Init, Admission!Init, ActiveHolders
<1>4. Types /\ AdmissionInv /\ LineLength /\ [Next]_vars
        => [Admission!Next]_(Admission!vars)
    <2>1. UNCHANGED vars => UNCHANGED Admission!vars
        BY DEF vars, admission, context, Admission!vars, ActiveHolders
    <2> QED BY <2>1, AdmissionSimulation DEF Next
<1> QED BY <1>1, <1>2, <1>3, <1>4, AdmissionInvariant, PTL
        DEF Spec, ImplementsAdmission, Admission!Spec
=============================================================================
