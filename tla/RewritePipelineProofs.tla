------------------------ MODULE RewritePipelineProofs -----------------------
(***************************************************************************)
(* Theorems about RewritePipeline, for any stages, bodies, limits and      *)
(* sizes of chunks: the limit is exact, no stage is pushed or finished     *)
(* after it was finished, what the client gets is the body rewritten by    *)
(* the stages one after the other, a page with window._mig_meta has        *)
(* exactly the documents replaced that it should have, and the body is     *)
(* refused as text exactly when it is none, by the first stage.  For the   *)
(* pipelines of the profiles: run again it changes nothing, and the base   *)
(* path is put before each root once.                                      *)
(***************************************************************************)
EXTENDS RewritePipeline, Utf8ValidationProofs

(* What the proofs need of a case. *)
LEMMA CaseFacts ==
    ASSUME given \in Cases
    PROVE  /\ N \in Nat \ {0}
           /\ body \in Seq(Byte) /\ Len(body) \in Nat
           /\ given.max_bytes \in Nat
           /\ given.sizes \subseteq Nat
<1>1. /\ Len(given.stages) > 0 /\ given.body \in Seq(Byte)
      /\ given.max_bytes \in Nat /\ given.sizes \subseteq Nat
  BY CasesAssumption
<1>2. Len(given.body) \in Nat
  BY <1>1, LenProperties
<1>. QED  BY <1>1, <1>2 DEF N, stages, body

(* Where a call is, and what it has to do with the filter calls.           *)
CallInv ==
    /\ given \in Cases
    /\ call \in {"idle", "push", "finish"}
    /\ call # "idle" => result = "running"
    /\ stage \in 1..(N + 1)
    /\ fed \in 0..Len(body) /\ total_bytes = fed
    /\ last_call => fed = Len(body)
    /\ call = "finish" => last_call
    /\ result = "done" => last_call

(* The limit was kept until the chunk that broke it, which no stage saw.   *)
LimitInv ==
    /\ result # "TooLarge" => fed =< given.max_bytes
    /\ result = "TooLarge" => fed > given.max_bytes
    /\ DOMAIN received = 1..N
    /\ received[1] \in Seq(Byte)
    /\ Len(received[1]) =< given.max_bytes
    /\ call = "push" /\ stage = 1 =>
         /\ carry \in Seq(Byte)
         /\ Len(received[1]) + Len(carry) =< fed
    /\ result # "TooLarge" => Len(received[1]) =< fed
    /\ call = "finish" /\ stage = 1 => carry = <<>>

(* Only the stages that finish has passed are finished.                    *)
EndedInv ==
    /\ result # "AlreadyFinished"
    /\ DOMAIN ended = 1..N
    /\ result = "running" =>
         \A i \in 1..N : ended[i] => call = "finish" /\ i < stage

-----------------------------------------------------------------------------
LEMMA CallInvariant == Spec => []CallInv
<1>1. Init => CallInv
  BY CaseFacts DEF Init, CallInv
<1>2. CallInv /\ [Next]_vars => CallInv'
  <2>. SUFFICES ASSUME CallInv, [Next]_vars PROVE CallInv'
    OBVIOUS
  <2>0. /\ N \in Nat \ {0} /\ Len(body) \in Nat /\ given.sizes \subseteq Nat
        /\ given.max_bytes \in Nat /\ fed \in Nat
    BY CaseFacts DEF CallInv
  <2>00. UNCHANGED given => UNCHANGED <<N, body>>
    BY DEF N, body, stages
  <2>1. ASSUME NEW n \in {k \in given.sizes \cup {Len(body) - fed} :
                            fed + k =< Len(body)},
               NEW end_of_stream \in BOOLEAN,
               BodyFilter(n, end_of_stream)
        PROVE  CallInv'
    <3>1. n \in Nat /\ fed + n =< Len(body)
      BY <2>0 DEF CallInv
    <3>2. CASE OverLimit(n)
      BY <2>0, <2>00, <2>1, <3>1, <3>2 DEF BodyFilter, Fail, CallInv
    <3>3. CASE ~OverLimit(n)
      BY <2>0, <2>00, <2>1, <3>1, <3>3 DEF BodyFilter, CallInv
    <3>. QED  BY <3>2, <3>3
  <2>2. CASE PushStage
    <3>1. /\ UNCHANGED <<given, fed, total_bytes, last_call>> /\ call = "push"
          /\ \/ call' = "idle" /\ result' \in {"AlreadyFinished", "InvalidUtf8"}
                /\ stage' = stage
             \/ call' = call /\ result' = result /\ stage' = stage + 1 /\ stage =< N
      BY <2>2 DEF PushStage, Fail
    <3>. QED  BY <2>0, <2>00, <3>1 DEF CallInv
  <2>3. CASE PushReturns
    BY <2>0, <2>00, <2>3 DEF PushReturns, CallInv
  <2>4. CASE FinishStage
    <3>1. /\ UNCHANGED <<given, fed, total_bytes, last_call>> /\ call = "finish"
          /\ \/ call' = "idle" /\ result' \in {"AlreadyFinished", "InvalidUtf8"}
                /\ stage' = stage
             \/ call' = call /\ result' = result /\ stage' = stage + 1 /\ stage =< N
      BY <2>4 DEF FinishStage, Fail
    <3>. QED  BY <2>0, <2>00, <3>1 DEF CallInv
  <2>5. CASE FinishReturns
    BY <2>0, <2>00, <2>5 DEF FinishReturns, CallInv
  <2>6. CASE UNCHANGED vars
    BY <2>00, <2>6 DEF vars, CallInv
  <2>. QED  BY <2>1, <2>2, <2>3, <2>4, <2>5, <2>6 DEF Next
<1>. QED  BY <1>1, <1>2, PTL DEF Spec

(* A body of the limit passes and a longer one is refused, and the chunk    *)
(* that exceeds it is in no stage, however it is cut.                      *)
THEOREM LimitExact == Spec => []LimitIsExact
<1>1. Init => LimitInv
  <2>. SUFFICES ASSUME Init PROVE LimitInv
    OBVIOUS
  <2>1. N \in Nat \ {0} /\ given.max_bytes \in Nat
    BY CaseFacts DEF Init
  <2>2. received[1] = <<>> /\ DOMAIN received = 1..N
    BY <2>1 DEF Init
  <2>3. <<>> \in Seq(Byte) /\ Len(<<>>) = 0
    OBVIOUS
  <2>. QED  BY <2>1, <2>2, <2>3 DEF Init, LimitInv
<1>2. CallInv /\ LimitInv /\ [Next]_vars => LimitInv'
  <2>. SUFFICES ASSUME CallInv, LimitInv, [Next]_vars PROVE LimitInv'
    OBVIOUS
  <2>0. /\ N \in Nat \ {0} /\ Len(body) \in Nat /\ given.sizes \subseteq Nat
        /\ given.max_bytes \in Nat /\ fed \in Nat /\ body \in Seq(Byte)
        /\ Len(received[1]) \in Nat
    BY CaseFacts, LenProperties DEF CallInv, LimitInv
  <2>00. UNCHANGED given => UNCHANGED <<N, body>>
    BY DEF N, body, stages
  <2>1. ASSUME NEW n \in {k \in given.sizes \cup {Len(body) - fed} :
                            fed + k =< Len(body)},
               NEW end_of_stream \in BOOLEAN,
               BodyFilter(n, end_of_stream)
        PROVE  LimitInv'
    <3>1. n \in Nat /\ fed + n =< Len(body)
      BY <2>0 DEF CallInv
    <3>2. SubSeq(body, fed + 1, fed + n) \in Seq(Byte)
          /\ Len(SubSeq(body, fed + 1, fed + n)) = n
      <4>1. \A i \in (fed + 1)..(fed + n) : body[i] \in Byte
        BY <2>0, <3>1, ElementOfSeq
      <4>. QED  BY <2>0, <3>1, <4>1, SubSeqProperties
    <3>3. CASE OverLimit(n)
      BY <2>0, <2>00, <2>1, <3>1, <3>3 DEF BodyFilter, Fail, LimitInv, CallInv, OverLimit
    <3>4. CASE ~OverLimit(n)
      <4>1. /\ UNCHANGED <<given, received, result>> /\ result = "running"
            /\ fed' = fed + n /\ call' = "push" /\ stage' = 1
            /\ carry' = SubSeq(body, fed + 1, fed + n)
        BY <2>1, <3>4 DEF BodyFilter
      <4>2. fed + n =< given.max_bytes
        BY <2>0, <3>1, <3>4 DEF OverLimit, CallInv
      <4>3. Len(received[1]) =< fed
        BY <4>1 DEF LimitInv
      <4>4. carry' \in Seq(Byte) /\ Len(received[1]) + Len(carry') =< fed + n
        <5>1. carry' \in Seq(Byte) /\ Len(carry') = n
          BY <3>2, <4>1, Zenon
        <5>2. /\ fed \in Nat /\ n \in Nat /\ Len(received[1]) \in Nat
              /\ Len(received[1]) =< fed
          BY <2>0, <3>1, <4>3, Zenon
        <5>. QED  BY ONLY <5>1, <5>2
      <4>5. Len(received[1]) =< fed + n
        BY <2>0, <3>1, <4>3
      <4>6. N' = N /\ given' = given /\ received' = received
            /\ result' = "running" /\ call' = "push"
        BY <2>00, <4>1
      <4>7. /\ DOMAIN received = 1..N /\ received[1] \in Seq(Byte)
            /\ Len(received[1]) =< given.max_bytes
        BY DEF LimitInv
      <4>. QED  BY <4>1, <4>2, <4>4, <4>5, <4>6, <4>7 DEF LimitInv
    <3>. QED  BY <3>3, <3>4
  <2>2. CASE PushStage
    <3>1. UNCHANGED <<given, fed>> /\ call = "push" /\ result = "running"
      BY <2>2 DEF PushStage, Fail, CallInv
    <3>2. CASE /\ UNCHANGED received /\ call' = "idle"
               /\ result' \in {"AlreadyFinished", "InvalidUtf8"}
      BY <2>00, <3>1, <3>2 DEF LimitInv
    <3>3. CASE received' = [received EXCEPT ![stage] = received[stage] \o carry]
               /\ call' = "push" /\ stage' = stage + 1 /\ result' = result
      <4>1. DOMAIN received' = 1..N
        BY <3>3 DEF LimitInv
      <4>2. CASE stage = 1
        <5>1. received'[1] = received[1] \o carry
          BY <2>0, <3>3, <4>2 DEF LimitInv
        <5>2. /\ received[1] \o carry \in Seq(Byte)
              /\ Len(received[1] \o carry) = Len(received[1]) + Len(carry)
          BY <3>1, <4>2, ConcatProperties DEF LimitInv
        <5>3. Len(carry) \in Nat
          BY <3>1, <4>2, LenProperties DEF LimitInv
        <5>. QED  BY <2>0, <2>00, <3>1, <3>3, <4>1, <4>2, <5>1, <5>2, <5>3
                  DEF LimitInv, CallInv
      <4>3. CASE stage # 1
        <5>1. received'[1] = received[1]
          BY <2>0, <3>3, <4>3 DEF LimitInv
        <5>. QED  BY <2>0, <2>00, <3>1, <3>3, <4>1, <4>3, <5>1 DEF LimitInv, CallInv
      <4>. QED  BY <4>2, <4>3
    <3>. QED  BY <2>2, <3>2, <3>3 DEF PushStage, Fail
  <2>3. CASE PushReturns
    BY <2>0, <2>00, <2>3 DEF PushReturns, LimitInv, CallInv
  <2>4. CASE FinishStage
    <3>1. UNCHANGED <<given, fed>> /\ call = "finish" /\ result = "running"
      BY <2>4 DEF FinishStage, Fail, CallInv
    <3>2. CASE UNCHANGED received /\ call' = "idle"
               /\ result' \in {"AlreadyFinished", "InvalidUtf8"}
      BY <2>00, <3>1, <3>2 DEF LimitInv
    <3>3. CASE received' = [received EXCEPT ![stage] = received[stage] \o carry]
               /\ call' = "finish" /\ stage' = stage + 1 /\ result' = result
      <4>1. DOMAIN received' = 1..N
        BY <3>3 DEF LimitInv
      <4>2. received'[1] = received[1]
        <5>1. CASE stage = 1
          <6>1. carry = <<>>
            BY <3>1, <5>1 DEF LimitInv
          <6>2. received[1] \o <<>> = received[1]
            BY ConcatEmptySeq DEF LimitInv
          <6>. QED  BY <2>0, <3>3, <5>1, <6>1, <6>2 DEF LimitInv
        <5>2. CASE stage # 1
          BY <2>0, <3>3, <5>2 DEF LimitInv
        <5>. QED  BY <5>1, <5>2
      <4>3. stage' # 1 /\ call' = "finish" /\ result' = "running"
        BY <2>0, <3>1, <3>3 DEF CallInv
      <4>. QED  BY <2>00, <3>1, <4>1, <4>2, <4>3 DEF LimitInv
    <3>. QED  BY <2>4, <3>2, <3>3 DEF FinishStage, Fail
  <2>5. CASE FinishReturns
    BY <2>00, <2>5 DEF FinishReturns, LimitInv, CallInv
  <2>6. CASE UNCHANGED vars
    BY <2>00, <2>6 DEF vars, LimitInv
  <2>. QED  BY <2>1, <2>2, <2>3, <2>4, <2>5, <2>6 DEF Next
<1>3. CallInv /\ LimitInv => LimitIsExact
  <2>1. CallInv => Len(body) \in Nat /\ given.max_bytes \in Nat
    BY CaseFacts DEF CallInv
  <2>. QED  BY <2>1 DEF CallInv, LimitInv, LimitIsExact
<1>. QED  BY <1>1, <1>2, <1>3, CallInvariant, PTL DEF Spec

(* The filter never calls a stage again after its finish (the error         *)
(* AlreadyFinished of push_chunk is unreachable): the push that the tail   *)
(* of the stage before causes comes before finish, and nothing comes after *)
(* the filter call of the end of the stream.                               *)
THEOREM NothingAfterFinish == Spec => [](result # "AlreadyFinished")
<1>1. Init => EndedInv
  <2>. SUFFICES ASSUME Init PROVE EndedInv
    OBVIOUS
  <2>. QED  BY DEF Init, EndedInv
<1>2. CallInv /\ EndedInv /\ [Next]_vars => EndedInv'
  <2>. SUFFICES ASSUME CallInv, EndedInv, [Next]_vars PROVE EndedInv'
    OBVIOUS
  <2>0. N \in Nat \ {0}
    BY CaseFacts DEF CallInv
  <2>00. UNCHANGED given => UNCHANGED N
    BY DEF N, stages
  <2>1. ASSUME NEW n \in {k \in given.sizes \cup {Len(body) - fed} :
                            fed + k =< Len(body)},
               NEW end_of_stream \in BOOLEAN,
               BodyFilter(n, end_of_stream)
        PROVE  EndedInv'
    <3>1. /\ UNCHANGED <<given, ended>> /\ result = "running" /\ call = "idle"
          /\ result' \in {"running", "TooLarge"}
      BY <2>1 DEF BodyFilter, Fail
    <3>2. \A i \in 1..N : ~ended[i]
      BY <3>1 DEF EndedInv
    <3>. QED  BY <2>00, <3>1, <3>2 DEF EndedInv
  <2>2. CASE PushStage
    <3>1. /\ UNCHANGED <<given, ended>> /\ call = "push" /\ stage \in 1..N
          /\ result = "running"
      BY <2>0, <2>2 DEF PushStage, Fail, CallInv
    <3>2. \A i \in 1..N : ~ended[i]
      BY <3>1 DEF EndedInv
    <3>3. result' \in {"running", "InvalidUtf8"}
      BY <2>2, <3>1, <3>2 DEF PushStage, Fail
    <3>. QED  BY <2>00, <3>1, <3>2, <3>3 DEF EndedInv
  <2>3. CASE PushReturns
    <3>1. UNCHANGED <<given, ended, result>> /\ call = "push" /\ result = "running"
      BY <2>3 DEF PushReturns, CallInv
    <3>2. \A i \in 1..N : ~ended[i]
      BY <3>1 DEF EndedInv
    <3>. QED  BY <2>00, <3>1, <3>2 DEF EndedInv
  <2>4. CASE FinishStage
    <3>0. UNCHANGED given /\ ended' = [ended EXCEPT ![stage] = TRUE]
      BY <2>4 DEF FinishStage, Fail
    <3>1. call = "finish" /\ stage \in 1..N /\ result = "running"
      BY <2>0, <2>4 DEF FinishStage, CallInv
    <3>2. ~ended[stage]
      BY <2>0, <3>1 DEF EndedInv
    <3>3. \/ result' = "InvalidUtf8"
          \/ result' = "running" /\ call' = "finish" /\ stage' = stage + 1
      BY <2>4, <3>1, <3>2 DEF FinishStage, Fail
    <3>4. DOMAIN ended' = 1..N
      BY <3>0 DEF EndedInv
    <3>5. \A i \in 1..N : ended'[i] => i =< stage
      BY <2>0, <3>0, <3>1 DEF EndedInv
    <3>. QED  BY <2>0, <2>00, <3>0, <3>1, <3>3, <3>4, <3>5 DEF EndedInv
  <2>5. CASE FinishReturns
    BY <2>00, <2>5 DEF FinishReturns, EndedInv
  <2>6. CASE UNCHANGED vars
    BY <2>00, <2>6 DEF vars, EndedInv
  <2>. QED  BY <2>1, <2>2, <2>3, <2>4, <2>5, <2>6 DEF Next
<1>3. EndedInv => result # "AlreadyFinished"
  BY DEF EndedInv
<1>. QED  BY <1>1, <1>2, <1>3, CallInvariant, PTL DEF Spec

-----------------------------------------------------------------------------
(* What a stage returns                                                    *)

(* What the cases say of each stage.                                       *)
IsStage(st) ==
    /\ st.mode \in {"prepend", "exact", "append", "buffered"}
    /\ st.inserted \in Seq(Byte)
    /\ st.source \in Seq(Byte)
    /\ st.mode # "buffered" => Len(st.source) > 0

LEMMA StagesAre ==
    ASSUME given \in Cases, NEW i \in 1..N
    PROVE  IsStage(stages[i])
<1>. DEFINE st == given.stages[i]
<1>1. /\ st.mode \in {"prepend", "exact", "append", "buffered"}
      /\ st.inserted \in Seq(Ascii)
      /\ st.source \in Seq(Ascii)
      /\ st.mode # "buffered" => Len(st.source) > 0
  BY CasesAssumption DEF N, stages
<1>. HIDE DEF st
<1>2. Ascii \subseteq Byte
  BY DEF Byte
<1>3. Seq(Ascii) \subseteq Seq(Byte)
  BY <1>2
<1>4. IsStage(st)
  BY <1>1, <1>3 DEF IsStage
<1>. QED  BY <1>4 DEF st, stages

LEMMA ReplacementType ==
    ASSUME NEW st, IsStage(st), st.mode # "buffered"
    PROVE  Replacement(st) \in Seq(Byte)
BY DEF IsStage, Replacement

(* The occurrences of the source in s from offset p on, what becomes of one *)
(* of them, and whether the search stops at one.                           *)
Hits(st, s, p)   == {q \in p..Len(s) : OccursAt(s, q, st.source)}
Decided(st, s, q) == IF Carries(st, s, q) THEN st.source ELSE Replacement(st)
StopsAt(st, s, at_end, q) ==
    ~at_end /\ Undecided(st, From(s, q + Len(st.source)))
HeldBack(st, at_end) == IF at_end THEN 0 ELSE Len(st.source) - 1

(* The body of the recursion in LiteralReturned.                            *)
RestAt(st, s, at_end, p, rest) ==
    LET held == IF at_end THEN 0 ELSE Len(st.source) - 1
        hits == {q \in p..Len(s) : OccursAt(s, q, st.source)}
        q    == Leftmost(hits)
        next == q + Len(st.source)
    IN  IF hits = {} THEN SubSeq(s, p + 1, Len(s) - held) ELSE
        IF ~at_end /\ Undecided(st, From(s, next))
           THEN SubSeq(s, p + 1, q)
           ELSE SubSeq(s, p + 1, q)
                  \o (IF Carries(st, s, q) THEN st.source
                                           ELSE Replacement(st))
                  \o rest[next]

LEMMA RestAtIs ==
    ASSUME NEW st, NEW s, NEW at_end, NEW p, NEW rest
    PROVE  RestAt(st, s, at_end, p, rest) =
             LET q == Leftmost(Hits(st, s, p))
             IN  IF Hits(st, s, p) = {}
                    THEN SubSeq(s, p + 1, Len(s) - HeldBack(st, at_end))
                    ELSE IF StopsAt(st, s, at_end, q) THEN SubSeq(s, p + 1, q)
                    ELSE SubSeq(s, p + 1, q) \o Decided(st, s, q)
                           \o rest[q + Len(st.source)]
BY DEF RestAt, Hits, HeldBack, StopsAt, Decided

(* Where the first occurrence from p on is, and where the search goes on.  *)
LEMMA HitIs ==
    ASSUME NEW st, IsStage(st), st.mode # "buffered",
           NEW s \in Seq(Byte), NEW p \in 0..Len(s), Hits(st, s, p) # {}
    PROVE  /\ Leftmost(Hits(st, s, p)) \in p..Len(s)
           /\ OccursAt(s, Leftmost(Hits(st, s, p)), st.source)
           /\ Leftmost(Hits(st, s, p)) + Len(st.source) \in (p + 1)..Len(s)
           /\ \A r \in p..(Leftmost(Hits(st, s, p)) - 1) :
                ~OccursAt(s, r, st.source)
<1>. DEFINE q == Leftmost(Hits(st, s, p))
            k == Len(st.source)
<1>1. Hits(st, s, p) \in SUBSET Nat
  BY DEF Hits
<1>2. q \in Hits(st, s, p) /\ \A r \in Hits(st, s, p) : q =< r
  BY <1>1, LeftmostIs
<1>. HIDE DEF q
<1>3. q \in p..Len(s) /\ OccursAt(s, q, st.source)
  BY <1>2 DEF Hits
<1>4. q + k =< Len(s) /\ k \in Nat /\ k > 0
  BY <1>3 DEF OccursAt, IsStage
<1>5. q + k \in (p + 1)..Len(s)
  <2>. HIDE DEF k
  <2>. QED  BY <1>3, <1>4
<1>6. ASSUME NEW r \in p..(q - 1) PROVE ~OccursAt(s, r, st.source)
  <2>1. r \in p..Len(s) /\ ~(q =< r)
    BY <1>3
  <2>. QED  BY <1>2, <2>1 DEF Hits
<1>. QED  BY <1>3, <1>5, <1>6 DEF q

LEMMA DecidedType ==
    ASSUME NEW st, IsStage(st), st.mode # "buffered", NEW s, NEW q
    PROVE  Decided(st, s, q) \in Seq(Byte)
BY ReplacementType DEF Decided, IsStage

LEMMA HeldBackIs ==
    ASSUME NEW st, IsStage(st), st.mode # "buffered", NEW at_end \in BOOLEAN
    PROVE  HeldBack(st, at_end) \in Nat
<1>1. Len(st.source) \in Nat /\ Len(st.source) > 0
  BY DEF IsStage
<1>. QED  BY <1>1 DEF HeldBack

(* A step of the recursion, in the three ways it can go. *)
LEMMA RestAtType ==
    ASSUME NEW st, IsStage(st), st.mode # "buffered", NEW s \in Seq(Byte),
           NEW at_end \in BOOLEAN, NEW p \in 0..Len(s),
           NEW rest \in [0..Len(s) -> Seq(Byte)]
    PROVE  RestAt(st, s, at_end, p, rest) \in Seq(Byte)
<1>. DEFINE q == Leftmost(Hits(st, s, p))
            h == HeldBack(st, at_end)
<1>1. CASE Hits(st, s, p) = {}
  <2>1. h \in Nat
    BY HeldBackIs
  <2>. HIDE DEF h
  <2>2. Len(s) \in Nat /\ Len(s) - h \in Int /\ Len(s) - h =< Len(s) /\ p \in Nat
    BY <2>1
  <2>3. SubSeq(s, p + 1, Len(s) - h) \in Seq(Byte)
    BY <2>2, SliceStarts
  <2>. QED  BY <1>1, <2>3, RestAtIs DEF h
<1>2. CASE Hits(st, s, p) # {}
  <2>. DEFINE k == Len(st.source)
              d == Decided(st, s, q)
  <2>1. q \in p..Len(s) /\ q + k \in (p + 1)..Len(s)
    BY <1>2, HitIs
  <2>2. RestAt(st, s, at_end, p, rest) \in
          {SubSeq(s, p + 1, q), SubSeq(s, p + 1, q) \o d \o rest[q + k]}
    BY <1>2, RestAtIs
  <2>3. d \in Seq(Byte)
    BY DecidedType
  <2>. HIDE DEF q, k, d
  <2>. DEFINE x == SubSeq(s, p + 1, q)
              y == rest[q + k]
  <2>4. x \in Seq(Byte) /\ y \in Seq(Byte)
    BY <2>1
  <2>5. RestAt(st, s, at_end, p, rest) = x \/ RestAt(st, s, at_end, p, rest) = x \o d \o y
    BY <2>2
  <2>. HIDE DEF x, y
  <2>6. x \o d \o y \in Seq(Byte)
    BY <2>3, <2>4
  <2>. QED  BY <2>4, <2>5, <2>6
<1>. QED  BY <1>1, <1>2

(* It asks for what comes after p only. *)
LEMMA RestAtLooksAhead ==
    ASSUME NEW st, IsStage(st), st.mode # "buffered", NEW s \in Seq(Byte),
           NEW at_end \in BOOLEAN, NEW p \in 0..Len(s), NEW g, NEW h
    PROVE  (\A q \in (p + 1)..Len(s) : g[q] = h[q]) =>
             RestAt(st, s, at_end, p, g) = RestAt(st, s, at_end, p, h)
<1>. HAVE \A q \in (p + 1)..Len(s) : g[q] = h[q]
<1>1. CASE Hits(st, s, p) = {}
  BY <1>1, RestAtIs
<1>2. CASE Hits(st, s, p) # {}
  <2>. DEFINE e == Leftmost(Hits(st, s, p)) + Len(st.source)
  <2>1. e \in (p + 1)..Len(s)
    BY <1>2, HitIs
  <2>2. g[e] = h[e]
    BY <2>1
  <2>. QED  BY <1>2, <2>2, RestAtIs
<1>. QED  BY <1>1, <1>2

(* rest says of every offset of s what the stage returns from there on.    *)
IsRest(rest, st, s, at_end) ==
    /\ rest \in [0..Len(s) -> Seq(Byte)]
    /\ \A p \in 0..Len(s) : rest[p] = RestAt(st, s, at_end, p, rest)
    /\ Returned(st, s, at_end) = rest[0]

(* The recursion is well-founded: a source is longer than nothing.         *)
LEMMA ReturnedIs ==
    ASSUME NEW st, IsStage(st), st.mode # "buffered", NEW s \in Seq(Byte),
           NEW at_end \in BOOLEAN
    PROVE  \E rest : IsRest(rest, st, s, at_end)
<1>. DEFINE l    == Len(s)
            F    == [0..l -> Seq(Byte)]
            Step == [p \in 0..l |-> [g \in F |-> RestAt(st, s, at_end, p, g)]]
<1>1. l \in Nat /\ Seq(Byte) # {}
  OBVIOUS
<1>2. ASSUME NEW p \in 0..l, NEW g \in F
      PROVE  RestAt(st, s, at_end, p, g) \in Seq(Byte)
  BY RestAtType
<1>3. ASSUME NEW p \in 0..l, NEW g, NEW h, \A q \in (p + 1)..l : g[q] = h[q]
      PROVE  RestAt(st, s, at_end, p, g) = RestAt(st, s, at_end, p, h)
  <2>1. (\A q \in (p + 1)..Len(s) : g[q] = h[q]) =>
          RestAt(st, s, at_end, p, g) = RestAt(st, s, at_end, p, h)
    <3>1. p \in 0..Len(s)
      OBVIOUS
    <3>. QED  BY ONLY IsStage(st), st.mode # "buffered", s \in Seq(Byte),
                      at_end \in BOOLEAN, <3>1, RestAtLooksAhead, SMTT(30)
  <2>. QED  BY <1>3, <2>1
<1>4. PICK f \in F : \A p \in 0..l : f[p] = RestAt(st, s, at_end, p, f)
  <2>1. Step \in [0..l -> [F -> Seq(Byte)]]
    BY <1>2
  <2>2. \A p \in 0..l : \A g \in F : Step[p][g] = RestAt(st, s, at_end, p, g)
    OBVIOUS
  <2>. HIDE DEF Step
  <2>3. ASSUME NEW p \in 0..l, NEW g \in F, NEW h \in F,
               \A q \in (p + 1)..l : g[q] = h[q]
        PROVE  Step[p][g] = Step[p][h]
    <3>1. RestAt(st, s, at_end, p, g) = RestAt(st, s, at_end, p, h)
      BY <1>3, <2>3
    <3>. QED  BY <2>2, <3>1
  <2>. HIDE DEF l
  <2>4. \E f \in F : \A p \in 0..l : f[p] = Step[p][f]
    <3>1. IsDownward(Step, Seq(Byte), l)
      BY <1>1, <2>1, <2>3 DEF IsDownward
    <3>. QED  BY ONLY <3>1, DownwardRecursion, SMT DEF F
  <2>. QED  BY <2>2, <2>4
<1>5. f = [p \in 0..l |-> RestAt(st, s, at_end, p, f)]
  BY <1>4
<1>6. \E g : /\ g = [p \in 0..l |-> RestAt(st, s, at_end, p, g)]
             /\ Returned(st, s, at_end) = g[0]
  BY <1>5, Zenon DEF Returned, LiteralReturned, RestAt
<1>7. PICK g : /\ g = [p \in 0..l |-> RestAt(st, s, at_end, p, g)]
               /\ Returned(st, s, at_end) = g[0]
  BY <1>6
<1>8. \A p \in 0..l : g[p] = RestAt(st, s, at_end, p, g)
  BY <1>7
<1>9. \A p \in 0..l : g[p] = f[p]
  <2>. DEFINE T == {p \in 0..l : g[p] = f[p]}
  <2>1. ASSUME NEW p \in 0..l, \A q \in (p + 1)..l : q \in T PROVE p \in T
    <3>1. \A q \in (p + 1)..l : g[q] = f[q]
      BY <2>1
    <3>2. RestAt(st, s, at_end, p, g) = RestAt(st, s, at_end, p, f)
      BY <1>3, <3>1
    <3>. QED  BY <1>4, <1>8, <3>2
  <2>. HIDE DEF T, l
  <2>2. 0..l \subseteq T
    BY <1>1, <2>1, DownwardInduction
  <2>. QED  BY <2>2 DEF T
<1>10. Returned(st, s, at_end) = f[0]
  BY <1>1, <1>7, <1>9
<1>11. IsRest(f, st, s, at_end)
  BY <1>4, <1>10 DEF IsRest
<1>. QED  BY <1>11

-----------------------------------------------------------------------------
(* What a stage has returned stays as it is when more arrives              *)

(* A source that is found is found again: the same one first.              *)
LEMMA SameHit ==
    ASSUME NEW st, IsStage(st), st.mode # "buffered",
           NEW s \in Seq(Byte), NEW u \in Seq(Byte), StartsWith(u, s),
           NEW p \in 0..Len(s), Hits(st, s, p) # {}
    PROVE  /\ Hits(st, u, p) # {}
           /\ Leftmost(Hits(st, u, p)) = Leftmost(Hits(st, s, p))
<1>. DEFINE q == Leftmost(Hits(st, s, p))
            r == Leftmost(Hits(st, u, p))
            k == Len(st.source)
<1>1. /\ Len(s) =< Len(u) /\ Len(s) \in Nat /\ Len(u) \in Nat
      /\ st.source \in Seq(Byte) /\ k \in Nat
  BY StartsIs DEF IsStage
<1>2. /\ q \in p..Len(s) /\ q + k \in (p + 1)..Len(s)
      /\ OccursAt(s, q, st.source)
      /\ \A i \in p..(q - 1) : ~OccursAt(s, i, st.source)
  BY HitIs
<1>. HIDE DEF q, k
<1>3. q \in Nat /\ q + k =< Len(s)
  BY <1>1, <1>2
<1>4. OccursAt(u, q, st.source)
  BY <1>1, <1>2, <1>3, OccursInStart DEF k
<1>5. q \in Hits(st, u, p)
  BY <1>1, <1>2, <1>4 DEF Hits
<1>6. p \in 0..Len(u)
  BY <1>1
<1>7. /\ r \in p..Len(u) /\ OccursAt(u, r, st.source)
      /\ \A i \in p..(r - 1) : ~OccursAt(u, i, st.source)
  BY <1>5, <1>6, HitIs
<1>. HIDE DEF r
<1>8. ~(q < r)
  BY <1>2, <1>4, <1>7
<1>9. ~(r < q)
  <2>. SUFFICES ASSUME r < q PROVE FALSE
    OBVIOUS
  <2>1. r \in Nat /\ r + k =< Len(s) /\ r \in p..(q - 1)
    BY <1>1, <1>2, <1>7
  <2>2. OccursAt(s, r, st.source)
    BY <1>1, <1>7, <2>1, OccursInStart DEF k
  <2>. QED  BY <1>2, <2>1, <2>2
<1>10. r = q
  BY <1>2, <1>7, <1>8, <1>9
<1>. QED  BY <1>5, <1>10 DEF q, r

(* Where none is found, none can begin but in what is held back.           *)
LEMMA NewHit ==
    ASSUME NEW st, IsStage(st), st.mode # "buffered",
           NEW s \in Seq(Byte), NEW u \in Seq(Byte), StartsWith(u, s),
           NEW p \in 0..Len(s), Hits(st, s, p) = {}, Hits(st, u, p) # {}
    PROVE  /\ Leftmost(Hits(st, u, p)) \in p..Len(u)
           /\ Leftmost(Hits(st, u, p)) >= Len(s) - HeldBack(st, FALSE)
<1>. DEFINE r == Leftmost(Hits(st, u, p))
            k == Len(st.source)
<1>1. /\ Len(s) =< Len(u) /\ Len(s) \in Nat /\ Len(u) \in Nat
      /\ st.source \in Seq(Byte) /\ k \in Nat
  BY StartsIs DEF IsStage
<1>2. p \in 0..Len(u)
  BY <1>1
<1>3. r \in p..Len(u) /\ OccursAt(u, r, st.source)
  BY <1>2, HitIs
<1>. HIDE DEF r, k
<1>4. ~(r + k =< Len(s))
  <2>. SUFFICES ASSUME r + k =< Len(s) PROVE FALSE
    OBVIOUS
  <2>1. r \in Nat /\ r \in p..Len(s)
    BY <1>1, <1>3
  <2>2. OccursAt(s, r, st.source)
    BY <1>1, <1>3, <2>1, OccursInStart DEF k
  <2>3. r \in Hits(st, s, p)
    BY <2>1, <2>2 DEF Hits
  <2>. QED  BY <2>3
<1>5. HeldBack(st, FALSE) = k - 1
  BY DEF HeldBack, k
<1>6. r >= Len(s) - (k - 1)
  BY <1>1, <1>3, <1>4
<1>. QED  BY <1>3, <1>5, <1>6 DEF r

(* What is decided of an occurrence stays decided.                         *)
LEMMA DecidedStays ==
    ASSUME NEW st, IsStage(st), st.mode # "buffered",
           NEW s \in Seq(Byte), NEW u \in Seq(Byte), StartsWith(u, s),
           NEW q \in Nat, q + Len(st.source) =< Len(s),
           NEW at_end \in BOOLEAN
    PROVE  ~StopsAt(st, s, FALSE, q) =>
             /\ ~StopsAt(st, u, at_end, q)
             /\ Carries(st, u, q) <=> Carries(st, s, q)
<1>. HAVE ~StopsAt(st, s, FALSE, q)
<1>. DEFINE n  == q + Len(st.source)
            k  == Len(st.inserted)
            a  == From(s, n)
            b  == From(u, n)
<1>1. /\ Len(s) =< Len(u) /\ Len(s) \in Nat /\ Len(u) \in Nat
      /\ st.source \in Seq(Byte) /\ Len(st.source) \in Nat
      /\ st.inserted \in Seq(Byte) /\ k \in Nat /\ n \in 0..Len(s)
  BY StartsIs DEF IsStage
<1>2. CASE st.mode = "prepend"
  <2>1. ~StopsAt(st, u, at_end, q)
    BY <1>2 DEF StopsAt, Undecided
  <2>2. ASSUME q >= k
        PROVE  OccursAt(u, q - k, st.inserted) <=> OccursAt(s, q - k, st.inserted)
    <3>1. q - k \in Nat /\ (q - k) + k =< Len(s)
      BY <1>1, <2>2
    <3>. QED  BY <1>1, <3>1, OccursInStart
  <2>3. Carries(st, u, q) <=> Carries(st, s, q)
    BY <1>2, <2>2 DEF Carries
  <2>. QED  BY <2>1, <2>3
<1>3. CASE st.mode = "exact"
  BY <1>3 DEF StopsAt, Undecided, Carries
<1>4. CASE st.mode = "append"
  <2>1. /\ a \in Seq(Byte) /\ Len(a) = Len(s) - n
        /\ b \in Seq(Byte) /\ Len(b) = Len(u) - n
        /\ StartsWith(b, a)
    <3>. HIDE DEF n
    <3>. QED  BY <1>1, FromStarts
  <2>2. ~(Len(a) < k /\ StartsWith(st.inserted, a))
    BY <1>4 DEF StopsAt, Undecided
  <2>. HIDE DEF a, b, n, k
  <2>3. CASE Len(a) >= k
    <3>1. n \in Nat /\ n + k =< Len(s)
      BY <1>1, <2>1, <2>3
    <3>2. OccursAt(u, n, st.inserted) <=> OccursAt(s, n, st.inserted)
      BY <1>1, <3>1, OccursInStart DEF k
    <3>3. ~(Len(b) < k)
      BY <1>1, <2>1, <2>3
    <3>4. ~StopsAt(st, u, at_end, q)
      BY <3>3 DEF StopsAt, Undecided, b, n, k
    <3>5. Carries(st, u, q) <=> Carries(st, s, q)
      BY <1>4, <3>2 DEF Carries, n
    <3>. QED  BY <3>4, <3>5
  <2>4. CASE Len(a) < k
    <3>1. ~StartsWith(st.inserted, a)
      BY <2>2, <2>4
    <3>2. ~StartsWith(st.inserted, b)
      BY <1>1, <2>1, <3>1, StartsTransitive
    <3>3. ~StopsAt(st, u, at_end, q)
      BY <3>2 DEF StopsAt, Undecided, b, n
    <3>4. ~OccursAt(s, n, st.inserted)
      BY <1>1, <2>1, <2>4 DEF OccursAt, k
    <3>5. ~OccursAt(u, n, st.inserted)
      <4>. SUFFICES ASSUME OccursAt(u, n, st.inserted) PROVE FALSE
        OBVIOUS
      <4>1. \A i \in 1..k : u[n + i] = st.inserted[i]
        BY DEF OccursAt, k
      <4>2. \A i \in 1..Len(a) : a[i] = s[n + i] /\ n + i \in 1..Len(s)
        <5>1. n \in 0..Len(s) /\ s \in Seq(Byte)
          BY <1>1, <2>1
        <5>2. \A i \in 1..(Len(s) - n) : From(s, n)[i] = s[n + i]
          BY ONLY <5>1, FromSlice
        <5>. QED  BY <2>1, <5>1, <5>2 DEF a
      <4>3. \A i \in 1..Len(s) : u[i] = s[i]
        BY StartsIs
      <4>4. ASSUME NEW i \in 1..Len(a) PROVE st.inserted[i] = a[i]
        <5>1. i \in 1..k
          BY <1>1, <2>1, <2>4
        <5>. QED  BY <4>1, <4>2, <4>3, <5>1
      <4>5. Len(a) =< Len(st.inserted)
        BY <1>1, <2>1, <2>4 DEF k
      <4>. QED  BY <1>1, <2>1, <3>1, <4>4, <4>5, StartsIs
    <3>6. ~Carries(st, u, q) /\ ~Carries(st, s, q)
      BY <1>4, <3>4, <3>5 DEF Carries, n
    <3>. QED  BY <3>3, <3>6
  <2>. QED  BY <1>1, <2>1, <2>3, <2>4
<1>. QED  BY <1>2, <1>3, <1>4 DEF IsStage

(* One step of both recursions: what s becomes from offset p on, what      *)
(* continues s becomes from there on too, if both go on in the same way.   *)
LEMMA RestStays ==
    ASSUME NEW st, IsStage(st), st.mode # "buffered",
           NEW s \in Seq(Byte), NEW u \in Seq(Byte), StartsWith(u, s),
           NEW at_end \in BOOLEAN, NEW f, NEW g,
           IsRest(f, st, s, FALSE), IsRest(g, st, u, at_end),
           NEW p \in 0..Len(s),
           \A n \in (p + 1)..Len(s) : StartsWith(g[n], f[n])
    PROVE  StartsWith(g[p], f[p])
<1>. DEFINE e == Len(s) - HeldBack(st, FALSE)
            q == Leftmost(Hits(st, s, p))
            r == Leftmost(Hits(st, u, p))
            k == Len(st.source)
<1>1. /\ Len(s) =< Len(u) /\ Len(s) \in Nat /\ Len(u) \in Nat
      /\ p \in 0..Len(u) /\ p \in Nat
  BY StartsIs
<1>2. /\ f \in [0..Len(s) -> Seq(Byte)] /\ f[p] = RestAt(st, s, FALSE, p, f)
      /\ g \in [0..Len(u) -> Seq(Byte)] /\ g[p] = RestAt(st, u, at_end, p, g)
  BY <1>1 DEF IsRest
<1>3. CASE Hits(st, s, p) = {}
  <2>1. f[p] = SubSeq(s, p + 1, e)
    BY <1>2, <1>3, RestAtIs
  <2>2. e \in Int /\ e =< Len(s)
    <3>. DEFINE h == HeldBack(st, FALSE)
    <3>1. h \in Nat /\ Len(s) \in Nat
      BY <1>1, HeldBackIs
    <3>. HIDE DEF h
    <3>2. Len(s) - h \in Int /\ Len(s) - h =< Len(s)
      BY ONLY <3>1
    <3>. QED  BY <3>2 DEF h
  <2>3. f[p] = SubSeq(u, p + 1, e)
    <3>. HIDE DEF e
    <3>1. SubSeq(u, p + 1, e) = SubSeq(s, p + 1, e)
      BY ONLY s \in Seq(Byte), u \in Seq(Byte), StartsWith(u, s), <1>1, <2>2,
              SliceOfStart, SMT
    <3>. QED  BY <2>1, <3>1
  <2>4. CASE Hits(st, u, p) = {}
    <3>. DEFINE x == Len(u) - HeldBack(st, at_end)
    <3>1. g[p] = SubSeq(u, p + 1, x)
      BY <1>2, <2>4, RestAtIs
    <3>2. /\ HeldBack(st, at_end) \in Nat /\ HeldBack(st, FALSE) \in Nat
          /\ HeldBack(st, at_end) =< HeldBack(st, FALSE)
      <4>1. Len(st.source) \in Nat /\ Len(st.source) > 0
        BY DEF IsStage
      <4>. QED  BY <4>1 DEF HeldBack
    <3>3. x \in Int /\ x =< Len(u) /\ e =< x
      <4>. DEFINE h == HeldBack(st, FALSE)
                  j == HeldBack(st, at_end)
      <4>1. h \in Nat /\ j \in Nat /\ j =< h
        BY <3>2
      <4>. HIDE DEF h, j
      <4>2. /\ Len(u) - j \in Int /\ Len(u) - j =< Len(u)
            /\ Len(s) - h =< Len(u) - j
        BY ONLY <1>1, <4>1
      <4>. QED  BY <4>2 DEF h, j
    <3>. HIDE DEF x, e
    <3>. QED  BY <1>1, <2>2, <2>3, <3>1, <3>3, SliceStarts
  <2>5. CASE Hits(st, u, p) # {}
    <3>1. r \in p..Len(u) /\ r >= e
      BY <1>3, <2>5, NewHit
    <3>. DEFINE x == SubSeq(u, p + 1, r)
                c == Decided(st, u, r)
                z == g[r + k]
    <3>2. g[p] = x \/ g[p] = x \o c \o z
      BY <1>2, <2>5, RestAtIs
    <3>3. r + k \in 0..Len(u)
      BY <1>1, <2>5, HitIs
    <3>. HIDE DEF r, e
    <3>4. x \in Seq(Byte) /\ f[p] \in Seq(Byte) /\ StartsWith(x, f[p])
      BY <1>1, <2>2, <2>3, <3>1, SliceStarts
    <3>. HIDE DEF x
    <3>5. c \in Seq(Byte) /\ z \in Seq(Byte)
      BY <1>2, <3>3, DecidedType
    <3>. HIDE DEF c, z
    <3>6. StartsWith(x \o c \o z, x) /\ x \o c \o z \in Seq(Byte)
      BY <3>4, <3>5, StartsOfThree
    <3>7. StartsWith(x \o c \o z, f[p])
      BY <3>4, <3>6, StartsTransitive
    <3>. QED  BY <3>2, <3>4, <3>7
  <2>. QED  BY <2>4, <2>5
<1>4. CASE Hits(st, s, p) # {}
  <2>. DEFINE n == q + k
              x == SubSeq(s, p + 1, q)
              d == Decided(st, s, q)
  <2>1. Hits(st, u, p) # {} /\ r = q
    BY <1>4, SameHit
  <2>2. q \in p..Len(s) /\ n \in (p + 1)..Len(s)
    BY <1>4, HitIs
  <2>3. q \in Nat /\ q =< Len(s) /\ n =< Len(s) /\ n \in 0..Len(u)
    BY <1>1, <2>2
  <2>4. f[p] = IF StopsAt(st, s, FALSE, q) THEN x ELSE x \o d \o f[n]
    BY <1>2, <1>4, RestAtIs
  <2>5. g[p] = IF StopsAt(st, u, at_end, q) THEN SubSeq(u, p + 1, q)
               ELSE SubSeq(u, p + 1, q) \o Decided(st, u, q) \o g[n]
    BY <1>2, <2>1, RestAtIs
  <2>6. d \in Seq(Byte) /\ Decided(st, u, q) \in Seq(Byte)
    BY DecidedType
  <2>7. ~StopsAt(st, s, FALSE, q) =>
          ~StopsAt(st, u, at_end, q) /\ Decided(st, u, q) = d
    <3>1. q + Len(st.source) =< Len(s)
      BY <2>3
    <3>. HIDE DEF q
    <3>2. q \in Nat
      BY <2>3
    <3>3. ~StopsAt(st, s, FALSE, q) =>
            /\ ~StopsAt(st, u, at_end, q)
            /\ Carries(st, u, q) <=> Carries(st, s, q)
      BY <3>1, <3>2, DecidedStays
    <3>. QED  BY <3>3 DEF Decided
  <2>. HIDE DEF q, k, d
  <2>8. SubSeq(u, p + 1, q) = x /\ x \in Seq(Byte)
    BY <1>1, <2>3, SliceOfStart, SMTT(30)
  <2>9. f[n] \in Seq(Byte) /\ g[n] \in Seq(Byte) /\ StartsWith(g[n], f[n])
    BY <1>2, <2>2, <2>3
  <2>. HIDE DEF n, x
  <2>10. CASE StopsAt(st, s, FALSE, q)
    <3>. DEFINE c == Decided(st, u, q)
                z == g[n]
    <3>1. g[p] = x \/ g[p] = x \o c \o z
      BY <2>5, <2>8
    <3>0. c \in Seq(Byte) /\ z \in Seq(Byte)
      BY <2>6, <2>9
    <3>. HIDE DEF c, z
    <3>2. StartsWith(x \o c \o z, x)
      BY <2>8, <3>0, StartsOfThree
    <3>3. StartsWith(x, x)
      BY <2>8, StartsIs
    <3>. QED  BY <2>4, <2>10, <3>1, <3>2, <3>3
  <2>11. CASE ~StopsAt(st, s, FALSE, q)
    <3>1. f[p] = (x \o d) \o f[n]
      BY <2>4, <2>11
    <3>2. g[p] = (x \o d) \o g[n]
      BY <2>5, <2>7, <2>8, <2>11
    <3>3. x \o d \in Seq(Byte)
      BY ONLY <2>6, <2>8
    <3>. DEFINE v == x \o d
                a == f[n]
                b == g[n]
    <3>4. f[p] = v \o a /\ g[p] = v \o b
      BY <3>1, <3>2
    <3>5. v \in Seq(Byte) /\ a \in Seq(Byte) /\ b \in Seq(Byte) /\ StartsWith(b, a)
      BY <2>9, <3>3
    <3>. HIDE DEF v, a, b
    <3>6. StartsWith(v \o b, v \o a)
      BY <3>5, StartsConcat
    <3>. QED  BY <3>4, <3>6
  <2>. QED  BY <2>10, <2>11
<1>. QED  BY <1>3, <1>4

-----------------------------------------------------------------------------
(* What the buffered stage returns                                         *)

LEMMA SkipStops ==
    ASSUME NEW s \in Seq(Byte), NEW p \in 0..Len(s)
    PROVE  /\ SkipWhitespace(s, p) \in p..Len(s)
           /\ \A i \in p..(SkipWhitespace(s, p) - 1) : IsAt(s, i, Whitespace)
           /\ ~IsAt(s, SkipWhitespace(s, p), Whitespace)
<1>. DEFINE T == {q \in p..Len(s) : ~IsAt(s, q, Whitespace)}
<1>1. Len(s) \in Nat /\ p \in Nat /\ p =< Len(s)
  OBVIOUS
<1>2. Len(s) \in T
  BY <1>1 DEF IsAt
<1>3. PICK m \in T : \A k \in T : m =< k
  <2>1. T \in SUBSET Nat /\ T # {}
    BY <1>1, <1>2
  <2>. HIDE DEF T
  <2>. QED  BY <2>1, LeastNatural
<1>4. m \in p..Len(s) /\ ~IsAt(s, m, Whitespace)
  OBVIOUS
<1>5. ASSUME NEW i \in p..(m - 1) PROVE IsAt(s, i, Whitespace)
  <2>1. i \in p..Len(s) /\ ~(m =< i)
    BY <1>4
  <2>. QED  BY <1>3, <2>1
<1>6. \E q \in p..Len(s) : /\ \A i \in p..(q - 1) : IsAt(s, i, Whitespace)
                           /\ ~IsAt(s, q, Whitespace)
  BY <1>4, <1>5
<1>. QED  BY <1>6 DEF SkipWhitespace

LEMMA OccurrencesAre ==
    ASSUME NEW s \in Seq(Byte), NEW p \in Nat, NEW bytes,
           Occurrences(s, p, bytes) # {}
    PROVE  /\ Leftmost(Occurrences(s, p, bytes)) \in p..(Len(s) - 1)
           /\ s[Leftmost(Occurrences(s, p, bytes)) + 1] \in bytes
<1>1. Occurrences(s, p, bytes) \in SUBSET Nat
  BY DEF Occurrences
<1>2. Leftmost(Occurrences(s, p, bytes)) \in Occurrences(s, p, bytes)
  BY <1>1, LeftmostIs
<1>. QED  BY <1>2 DEF Occurrences

(* The offsets of a scan, and the body of the recursion in RewriteMigMeta.  *)
Offsets(s) == (0..Len(s)) \X (0..Len(s))
ScanAt(s, at, scan) ==
    LET from   == at[1]
        copied == at[2]
        starts == Occurrences(s, from, {ASSIGNMENT})
        start  == Leftmost(starts)
        equals == SkipWhitespace(s, start + 1)
        quote  == SkipWhitespace(s, equals + 1)
        ends   == Occurrences(s, quote + 1, {s[quote + 1]})
        end    == Leftmost(ends)
        value  == SubSeq(s, quote + 2, end)
    IN  IF starts = {} THEN From(s, copied) ELSE
        IF ~IsAt(s, equals, {"="}) \/ ~IsAt(s, quote, Quotes)
           THEN scan[<<start + 1, copied>>] ELSE
        IF ends = {} THEN From(s, copied) ELSE
        IF IsRewritable(value)
           THEN SubSeq(s, copied + 1, quote + 1) \o <<Rebased[value[1]]>>
                  \o scan[<<SearchFrom(s, quote, end), end>>]
           ELSE scan[<<SearchFrom(s, quote, end), copied>>]

(* A scan ends, or goes on at a later offset, and copies something before. *)
ScanEnds(s, at) == \E c \in Seq(Byte) : \A g : ScanAt(s, at, g) = c
ScanGoesOn(s, at) ==
    \E next \in Offsets(s) : next[1] > at[1] /\ \A g : ScanAt(s, at, g) = g[next]
ScanCopies(s, at) ==
    \E next \in Offsets(s) :
      /\ next[1] > at[1]
      /\ \E c \in Seq(Byte) : \A g : ScanAt(s, at, g) = c \o g[next]

LEMMA ScanIs ==
    ASSUME NEW s \in Seq(Byte), NEW at \in Offsets(s)
    PROVE  ScanEnds(s, at) \/ ScanGoesOn(s, at) \/ ScanCopies(s, at)
<1>. DEFINE from   == at[1]
            copied == at[2]
            starts == Occurrences(s, from, {ASSIGNMENT})
            start  == Leftmost(starts)
            equals == SkipWhitespace(s, start + 1)
            quote  == SkipWhitespace(s, equals + 1)
            ends   == Occurrences(s, quote + 1, {s[quote + 1]})
            end    == Leftmost(ends)
            value  == SubSeq(s, quote + 2, end)
<1>1. from \in 0..Len(s) /\ copied \in 0..Len(s) /\ Len(s) \in Nat
  BY DEF Offsets
<1>2. ASSUME NEW g
      PROVE  ScanAt(s, at, g) =
               IF starts = {} THEN From(s, copied) ELSE
               IF ~IsAt(s, equals, {"="}) \/ ~IsAt(s, quote, Quotes)
                  THEN g[<<start + 1, copied>>] ELSE
               IF ends = {} THEN From(s, copied) ELSE
               IF IsRewritable(value)
                  THEN SubSeq(s, copied + 1, quote + 1) \o <<Rebased[value[1]]>>
                         \o g[<<SearchFrom(s, quote, end), end>>]
                  ELSE g[<<SearchFrom(s, quote, end), copied>>]
  BY DEF ScanAt
<1>3. starts # {} => start \in from..(Len(s) - 1)
  <2>1. from \in Nat
    BY <1>1
  <2>. HIDE DEF from
  <2>. QED  BY <2>1, OccurrencesAre, Zenon
<1>4. starts # {} => equals \in (start + 1)..Len(s)
  <2>. HIDE DEF starts, start
  <2>1. starts # {} => start + 1 \in 0..Len(s)
    BY <1>1, <1>3
  <2>. QED  BY <2>1, SkipStops
<1>5. starts # {} /\ IsAt(s, equals, {"="}) => quote \in (equals + 1)..Len(s)
  <2>. HIDE DEF starts, start, equals
  <2>1. starts # {} /\ IsAt(s, equals, {"="}) => equals + 1 \in 0..Len(s)
    BY <1>1, <1>3, <1>4 DEF IsAt
  <2>. QED  BY <2>1, SkipStops
<1>. HIDE DEF equals
<1>6. starts # {} /\ IsAt(s, equals, {"="}) /\ IsAt(s, quote, Quotes)
        => quote \in (from + 1)..(Len(s) - 1)
  <2>. HIDE DEF starts, start, quote
  <2>. QED  BY <1>1, <1>3, <1>4, <1>5 DEF IsAt
<1>. HIDE DEF quote
<1>7. quote \in Nat /\ ends # {} => end \in (quote + 1)..(Len(s) - 1)
  <2>1. quote \in Nat => quote + 1 \in Nat
    OBVIOUS
  <2>. QED  BY <2>1, OccurrencesAre, Zenon
<1>. HIDE DEF ends, end, starts, start, value, from, copied
<1>8. CASE starts = {} \/ (/\ IsAt(s, equals, {"="}) /\ IsAt(s, quote, Quotes)
                           /\ ends = {})
  <2>1. From(s, copied) \in Seq(Byte)
    BY <1>1, FromSlice
  <2>2. \A g : ScanAt(s, at, g) = From(s, copied)
    BY <1>2, <1>8
  <2>. QED  BY <2>1, <2>2 DEF ScanEnds
<1>9. CASE starts # {} /\ ~(IsAt(s, equals, {"="}) /\ IsAt(s, quote, Quotes))
  <2>1. start + 1 \in 0..Len(s) /\ start + 1 > from
    BY <1>1, <1>3, <1>9
  <2>2. <<start + 1, copied>> \in Offsets(s) /\ <<start + 1, copied>>[1] > at[1]
    BY <1>1, <2>1 DEF Offsets, from
  <2>3. \A g : ScanAt(s, at, g) = g[<<start + 1, copied>>]
    BY <1>2, <1>9
  <2>. QED  BY <2>2, <2>3 DEF ScanGoesOn
<1>10. CASE /\ starts # {} /\ IsAt(s, equals, {"="}) /\ IsAt(s, quote, Quotes)
            /\ ends # {}
  <2>1. quote \in Nat /\ quote \in (from + 1)..(Len(s) - 1)
        /\ end \in (quote + 1)..(Len(s) - 1)
    BY <1>1, <1>6, <1>7, <1>10
  <2>2. end + 1 \in 0..Len(s) /\ end \in 0..Len(s) /\ end + 1 > from
    BY <1>1, <2>1
  <2>3. SearchFrom(s, quote, end) = end + 1
    BY DEF SearchFrom
  <2>4. CASE IsRewritable(value)
    <3>. DEFINE c == SubSeq(s, copied + 1, quote + 1) \o <<Rebased[value[1]]>>
    <3>1. <<end + 1, end>> \in Offsets(s) /\ <<end + 1, end>>[1] > at[1]
      BY <2>2 DEF Offsets, from
    <3>2. \A g : ScanAt(s, at, g) = c \o g[<<end + 1, end>>]
      BY <1>2, <1>10, <2>3, <2>4
    <3>3. Rebased[value[1]] \in Byte
      <4>1. value[1] \in DOMAIN BaseUri
        BY <2>4 DEF IsRewritable
      <4>2. Rebased[value[1]] \in DOMAIN BaseUri
        BY <4>1, MetadataAssumption
      <4>. QED  BY <4>2, SymbolsAssumption DEF Byte
    <3>4. SubSeq(s, copied + 1, quote + 1) \in Seq(Byte)
      <4>1. copied \in Nat /\ quote + 1 \in Int /\ quote + 1 =< Len(s)
        BY <1>1, <2>1
      <4>. QED  BY <4>1, SliceStarts
    <3>5. c \in Seq(Byte)
      BY <3>3, <3>4
    <3>. QED  BY <3>1, <3>2, <3>5 DEF ScanCopies
  <2>5. CASE ~IsRewritable(value)
    <3>1. <<end + 1, copied>> \in Offsets(s) /\ <<end + 1, copied>>[1] > at[1]
      BY <1>1, <2>2 DEF Offsets, from
    <3>2. \A g : ScanAt(s, at, g) = g[<<end + 1, copied>>]
      BY <1>2, <1>10, <2>3, <2>5
    <3>. QED  BY <3>1, <3>2 DEF ScanGoesOn
  <2>. QED  BY <2>4, <2>5
<1>. QED  BY <1>8, <1>9, <1>10

(* A scan goes forward, so that it ends.                                   *)
LEMMA ScanFunction ==
    ASSUME NEW s \in Seq(Byte)
    PROVE  \E g : /\ \A at \in Offsets(s) : g[at] = ScanAt(s, at, g)
                  /\ RewriteMigMeta(s) = g[<<0, 0>>]
<1>. DEFINE l    == Len(s)
            D    == Offsets(s)
            F    == [D -> Seq(Byte)]
            Step == [at \in D |-> [g \in F |-> ScanAt(s, at, g)]]
            rank == [at \in D |-> l - at[1]]
<1>1. l \in Nat /\ Seq(Byte) # {}
  OBVIOUS
<1>2. ASSUME NEW at \in D, NEW g \in F PROVE ScanAt(s, at, g) \in Seq(Byte)
  <2>. HIDE DEF D
  <2>1. CASE ScanEnds(s, at)
    BY <2>1 DEF ScanEnds
  <2>2. CASE ScanGoesOn(s, at)
    BY <2>2 DEF ScanGoesOn, D
  <2>3. CASE ScanCopies(s, at)
    <3>1. PICK next \in D, c \in Seq(Byte) : ScanAt(s, at, g) = c \o g[next]
      BY <2>3 DEF ScanCopies, D
    <3>2. g[next] \in Seq(Byte)
      BY <3>1
    <3>. QED  BY <3>1, <3>2
  <2>. QED  BY <2>1, <2>2, <2>3, ScanIs DEF D
<1>3. ASSUME NEW at \in D, NEW g, NEW h, \A q \in D : q[1] > at[1] => g[q] = h[q]
      PROVE  ScanAt(s, at, g) = ScanAt(s, at, h)
  <2>1. CASE ScanEnds(s, at)
    BY <2>1 DEF ScanEnds
  <2>2. CASE ScanGoesOn(s, at)
    BY <1>3, <2>2 DEF ScanGoesOn
  <2>3. CASE ScanCopies(s, at)
    BY <1>3, <2>3 DEF ScanCopies
  <2>. QED  BY <2>1, <2>2, <2>3, ScanIs
<1>4. rank \in [D -> 0..l] /\ \A at \in D : at[1] \in 0..l /\ rank[at] = l - at[1]
  BY <1>1 DEF Offsets
<1>. HIDE DEF rank
<1>5. PICK f \in F : \A at \in D : f[at] = ScanAt(s, at, f)
  <2>1. Step \in [D -> [F -> Seq(Byte)]]
    BY <1>2
  <2>2. \A at \in D : \A g \in F : Step[at][g] = ScanAt(s, at, g)
    OBVIOUS
  <2>. HIDE DEF Step, D, l
  <2>3. ASSUME NEW at \in D, NEW g \in F, NEW h \in F,
               \A q \in D : rank[q] < rank[at] => g[q] = h[q]
        PROVE  Step[at][g] = Step[at][h]
    <3>1. ASSUME NEW q \in D, q[1] > at[1] PROVE g[q] = h[q]
      <4>1. rank[q] < rank[at]
        BY <1>1, <1>4, <3>1
      <4>. QED  BY <2>3, <4>1
    <3>2. ScanAt(s, at, g) = ScanAt(s, at, h)
      BY <1>3, <3>1
    <3>. QED  BY <2>2, <3>2
  <2>4. \E f \in F : \A at \in D : f[at] = Step[at][f]
    <3>1. IsRecursion(Step, D, Seq(Byte), rank, l)
      BY <1>1, <1>4, <2>1, <2>3 DEF IsRecursion
    <3>. QED  BY ONLY <3>1, RankedRecursion, SMT DEF F
  <2>. QED  BY <2>2, <2>4
<1>6. f = [at \in D |-> ScanAt(s, at, f)]
  BY <1>5
<1>7. \E g : /\ g = [at \in (0..Len(s)) \X (0..Len(s)) |-> ScanAt(s, at, g)]
             /\ RewriteMigMeta(s) = g[<<0, 0>>]
  BY <1>6, Zenon DEF RewriteMigMeta, ScanAt, Offsets
<1>8. PICK g : /\ g = [at \in D |-> ScanAt(s, at, g)]
               /\ RewriteMigMeta(s) = g[<<0, 0>>]
  BY <1>7 DEF Offsets
<1>9. \A at \in D : g[at] = ScanAt(s, at, g)
  BY <1>8
<1>. QED  BY <1>8, <1>9

-----------------------------------------------------------------------------
(* What the scan of the buffered stage finds                               *)

LEMMA SkipEndsAt ==
    ASSUME NEW s \in Seq(Byte), NEW p \in 0..Len(s), NEW q \in p..Len(s),
           \A i \in p..(q - 1) : IsAt(s, i, Whitespace),
           ~IsAt(s, q, Whitespace)
    PROVE  SkipWhitespace(s, p) = q
<1>. DEFINE k == SkipWhitespace(s, p)
<1>1. /\ k \in p..Len(s)
      /\ \A i \in p..(k - 1) : IsAt(s, i, Whitespace)
      /\ ~IsAt(s, k, Whitespace)
  BY SkipStops
<1>. HIDE DEF k
<1>2. ~(k < q) /\ ~(q < k)
  <2>1. k < q => k \in p..(q - 1)
    BY <1>1
  <2>2. q < k => q \in p..(k - 1)
    BY <1>1
  <2>. QED  BY <1>1, <2>1, <2>2
<1>. QED  BY <1>1, <1>2 DEF k

(* What the scan looks at behind the name of the variable at offset a: the  *)
(* equals sign and the quote.                                              *)
EqualsOf(s, a) == SkipWhitespace(s, a + 1)
QuoteOf(s, a)  == SkipWhitespace(s, EqualsOf(s, a) + 1)
ScanOpens(s, a) ==
    IsAt(s, EqualsOf(s, a), {"="}) /\ IsAt(s, QuoteOf(s, a), Quotes)

(* It finds an assignment just where one opens.                            *)
LEMMA ScanOpensIs ==
    ASSUME NEW s \in Seq(Byte), NEW a \in 0..(Len(s) - 1), s[a + 1] = ASSIGNMENT
    PROVE  /\ ScanOpens(s, a) =>
                QuoteOf(s, a) \in (a + 2)..(Len(s) - 1) /\ Opens(s, a, QuoteOf(s, a))
           /\ \A q \in 0..Len(s) : Opens(s, a, q) =>
                ScanOpens(s, a) /\ q = QuoteOf(s, a)
<1>. DEFINE e == EqualsOf(s, a)
            q0 == QuoteOf(s, a)
<1>1. Len(s) \in Nat /\ a \in Nat /\ a + 1 \in 0..Len(s)
  OBVIOUS
<1>2. /\ e \in (a + 1)..Len(s)
      /\ \A i \in (a + 1)..(e - 1) : IsAt(s, i, Whitespace)
  BY <1>1, SkipStops DEF EqualsOf
<1>3. ASSUME ScanOpens(s, a) PROVE q0 \in (a + 2)..(Len(s) - 1) /\ Opens(s, a, q0)
  <2>1. e < Len(s) /\ s[e + 1] = "="
    BY <1>3 DEF ScanOpens, IsAt
  <2>2. e + 1 \in 0..Len(s)
    <3>. HIDE DEF e
    <3>. QED  BY <1>1, <1>2, <2>1
  <2>3. /\ q0 \in (e + 1)..Len(s)
        /\ \A i \in (e + 1)..(q0 - 1) : IsAt(s, i, Whitespace)
    BY <2>2, SkipStops DEF QuoteOf
  <2>4. q0 < Len(s) /\ IsAt(s, q0, Quotes)
    BY <1>3 DEF ScanOpens, IsAt
  <2>. HIDE DEF e, q0
  <2>5. q0 \in (a + 2)..(Len(s) - 1) /\ e \in (a + 1)..(q0 - 1)
    BY <1>1, <1>2, <2>1, <2>3, <2>4
  <2>6. ASSUME NEW i \in (a + 1)..(q0 - 1), i # e PROVE s[i + 1] \in Whitespace
    <3>1. i \in (a + 1)..(e - 1) \/ i \in (e + 1)..(q0 - 1)
      BY <1>1, <1>2, <2>3, <2>6
    <3>. QED  BY <1>2, <2>3, <3>1 DEF IsAt
  <2>7. IsAt(s, a, {ASSIGNMENT})
    BY DEF IsAt
  <2>. QED  BY <2>1, <2>4, <2>5, <2>6, <2>7 DEF Opens
<1>4. ASSUME NEW q \in 0..Len(s), Opens(s, a, q)
      PROVE  ScanOpens(s, a) /\ q = q0
  <2>1. PICK d \in (a + 1)..(q - 1) :
          /\ s[d + 1] = "="
          /\ \A i \in (a + 1)..(q - 1) : i # d => s[i + 1] \in Whitespace
    BY <1>4 DEF Opens
  <2>2. IsAt(s, q, Quotes) /\ q < Len(s) /\ q \in Nat /\ d \in Nat
    BY <1>4, <2>1 DEF Opens, IsAt
  <2>3. ~IsAt(s, d, Whitespace) /\ IsAt(s, d, {"="}) /\ ~IsAt(s, q, Whitespace)
    <3>1. "=" \notin Whitespace /\ \A x \in Quotes : x \notin Whitespace
      BY DEF Whitespace, Quotes
    <3>. QED  BY <2>1, <2>2, <3>1 DEF IsAt
  <2>4. e = d
    <3>1. d \in (a + 1)..Len(s)
      BY <2>1, <2>2
    <3>2. ASSUME NEW i \in (a + 1)..(d - 1) PROVE IsAt(s, i, Whitespace)
      <4>1. i \in (a + 1)..(q - 1) /\ i # d /\ i < Len(s)
        BY <2>1, <2>2
      <4>. QED  BY <2>1, <4>1 DEF IsAt
    <3>. QED  BY <1>1, <2>3, <3>1, <3>2, SkipEndsAt DEF EqualsOf
  <2>5. q0 = q
    <3>1. d + 1 \in 0..Len(s) /\ q \in (d + 1)..Len(s)
      BY <2>1, <2>2
    <3>2. ASSUME NEW i \in (d + 1)..(q - 1) PROVE IsAt(s, i, Whitespace)
      <4>1. i \in (a + 1)..(q - 1) /\ i # d /\ i < Len(s)
        BY <2>1, <2>2
      <4>. QED  BY <2>1, <4>1 DEF IsAt
    <3>. QED  BY <2>3, <2>4, <3>1, <3>2, SkipEndsAt DEF QuoteOf
  <2>. QED  BY <2>2, <2>3, <2>4, <2>5 DEF ScanOpens
<1>. QED  BY <1>3, <1>4

(* The value that it finds is the one that closes.                         *)
Closings(s, q) == Occurrences(s, q + 1, {s[q + 1]})

LEMMA ScanClosesIs ==
    ASSUME NEW s \in Seq(Byte), NEW q \in 0..(Len(s) - 1)
    PROVE  /\ Closings(s, q) = {} => \A e \in 0..Len(s) : ~Closes(s, q, e)
           /\ Closings(s, q) # {} =>
                /\ Leftmost(Closings(s, q)) \in (q + 1)..(Len(s) - 1)
                /\ Closes(s, q, Leftmost(Closings(s, q)))
           /\ \A d, e \in 0..Len(s) : Closes(s, q, d) /\ Closes(s, q, e) => d = e
<1>1. Len(s) \in Nat /\ q \in Nat /\ q + 1 \in Nat
  OBVIOUS
<1>2. ASSUME NEW e \in 0..Len(s), Closes(s, q, e) PROVE Closings(s, q) # {}
  <2>1. e \in (q + 1)..(Len(s) - 1) /\ s[e + 1] \in {s[q + 1]}
    BY <1>1, <1>2 DEF Closes
  <2>. QED  BY <2>1 DEF Closings, Occurrences
<1>3. ASSUME Closings(s, q) # {}
      PROVE  /\ Leftmost(Closings(s, q)) \in (q + 1)..(Len(s) - 1)
             /\ Closes(s, q, Leftmost(Closings(s, q)))
  <2>. DEFINE e == Leftmost(Closings(s, q))
  <2>1. Closings(s, q) \in SUBSET Nat
    BY <1>1 DEF Closings, Occurrences
  <2>2. e \in Closings(s, q) /\ \A r \in Closings(s, q) : e =< r
    BY <1>3, <2>1, LeftmostIs
  <2>. HIDE DEF e
  <2>3. e \in (q + 1)..(Len(s) - 1) /\ s[e + 1] = s[q + 1]
    BY <2>2 DEF Closings, Occurrences
  <2>4. ASSUME NEW i \in (q + 1)..(e - 1) PROVE s[i + 1] # s[q + 1]
    <3>1. i \in (q + 1)..(Len(s) - 1) /\ ~(e =< i)
      BY <1>1, <2>3
    <3>. QED  BY <2>2, <3>1 DEF Closings, Occurrences
  <2>5. q < e /\ e < Len(s)
    BY <1>1, <2>3
  <2>. QED  BY <2>3, <2>4, <2>5 DEF Closes, e
<1>4. ASSUME NEW d \in 0..Len(s), NEW e \in 0..Len(s), Closes(s, q, d), Closes(s, q, e)
      PROVE  d = e
  <2>1. ~(d < e) /\ ~(e < d)
    <3>1. d < e => d \in (q + 1)..(e - 1)
      BY <1>1, <1>4 DEF Closes
    <3>2. e < d => e \in (q + 1)..(d - 1)
      BY <1>1, <1>4 DEF Closes
    <3>. QED  BY <1>4, <3>1, <3>2 DEF Closes
  <2>. QED  BY <1>1, <2>1
<1>. QED  BY <1>2, <1>3, <1>4

-----------------------------------------------------------------------------
(* The assignments, and the page with their documents replaced             *)

(* The body of the recursion in Assignments.                               *)
OutermostAt(s, a, outermost) ==
    /\ \E q \in a..Len(s) : Opens(s, a, q)
    /\ \A b \in 0..(a - 1), q \in 0..(a - 1) :
         Opens(s, b, q) /\ outermost[b] => \E e \in q..a : Closes(s, q, e)

LEMMA AssignmentsAre ==
    ASSUME NEW s \in Seq(Byte), NEW a \in 0..Len(s)
    PROVE  a \in Assignments(s) <=>
             /\ \E q \in a..Len(s) : Opens(s, a, q)
             /\ \A b \in 0..(a - 1), q \in 0..(a - 1) :
                  Opens(s, b, q) /\ b \in Assignments(s) =>
                    \E e \in q..a : Closes(s, q, e)
<1>. DEFINE l    == Len(s)
            F    == [0..l -> BOOLEAN]
            Step == [i \in 0..l |-> [g \in F |-> OutermostAt(s, i, g)]]
<1>1. l \in Nat /\ BOOLEAN # {}
  <2>1. l \in Nat
    OBVIOUS
  <2>2. TRUE \in BOOLEAN
    BY Zenon
  <2>. QED  BY ONLY <2>1, <2>2, Zenon
<1>2. ASSUME NEW i \in 0..l, NEW g \in F PROVE OutermostAt(s, i, g) \in BOOLEAN
  BY Zenon DEF OutermostAt
<1>3. ASSUME NEW i \in 0..l, NEW g, NEW h, \A q \in 0..(i - 1) : g[q] = h[q]
      PROVE  OutermostAt(s, i, g) = OutermostAt(s, i, h)
  BY <1>3, Zenon DEF OutermostAt
<1>4. PICK f \in F : \A i \in 0..l : f[i] = OutermostAt(s, i, f)
  <2>1. Step \in [0..l -> [F -> BOOLEAN]]
    BY <1>2, Zenon
  <2>2. \A i \in 0..l : \A g \in F : Step[i][g] = OutermostAt(s, i, g)
    BY Zenon
  <2>. HIDE DEF Step, l
  <2>3. ASSUME NEW i \in 0..l, NEW g \in F, NEW h \in F,
               \A q \in 0..(i - 1) : g[q] = h[q]
        PROVE  Step[i][g] = Step[i][h]
    <3>1. OutermostAt(s, i, g) = OutermostAt(s, i, h)
      BY <1>3, <2>3
    <3>. QED  BY <2>2, <3>1, Zenon
  <2>4. \E f \in F : \A i \in 0..l : f[i] = Step[i][f]
    <3>1. IsUpward(Step, BOOLEAN, l)
      BY <1>1, <2>1, <2>3, Zenon DEF IsUpward
    <3>. QED  BY ONLY <3>1, UpwardRecursion, SMT DEF F
  <2>. QED  BY <2>2, <2>4, Zenon
<1>5. f = [i \in 0..Len(s) |-> OutermostAt(s, i, f)]
  BY <1>4, Zenon
<1>6. \E g : /\ g = [i \in 0..Len(s) |-> OutermostAt(s, i, g)]
             /\ Assignments(s) = {i \in 0..Len(s) : g[i]}
  BY <1>5, Zenon DEF Assignments, OutermostAt
<1>7. PICK g : /\ g = [i \in 0..Len(s) |-> OutermostAt(s, i, g)]
               /\ Assignments(s) = {i \in 0..Len(s) : g[i]}
  BY <1>6
<1>8. ASSUME NEW i \in 0..Len(s)
      PROVE  i \in Assignments(s) <=> OutermostAt(s, i, g)
  <2>1. g[i] = OutermostAt(s, i, g)
    BY <1>7, Zenon
  <2>. QED  BY <1>7, <2>1, Zenon
<1>9. \A b \in 0..(a - 1) : b \in Assignments(s) <=> g[b]
  <2>1. \A b \in 0..(a - 1) : b \in 0..Len(s)
    OBVIOUS
  <2>. QED  BY <1>7, <2>1, Zenon
<1>. QED  BY <1>8, <1>9, Zenon DEF OutermostAt

(* Of two assignments the earlier one is closed before the later one.      *)
LEMMA ClosedBefore ==
    ASSUME NEW s \in Seq(Byte), NEW a \in Assignments(s), NEW b \in Assignments(s),
           a \in 0..Len(s), b \in 0..Len(s), a < b,
           NEW q \in 0..Len(s), Opens(s, a, q)
    PROVE  \E e \in (q + 1)..(b - 1) : Closes(s, q, e)
<1>1. PICK r \in b..Len(s) : Opens(s, b, r)
  BY AssignmentsAre
<1>2. s[b + 1] = ASSIGNMENT /\ b < Len(s)
  BY <1>1 DEF Opens, IsAt
<1>3. PICK d \in (a + 1)..(q - 1) :
        /\ s[d + 1] = "="
        /\ \A i \in (a + 1)..(q - 1) : i # d => s[i + 1] \in Whitespace
  BY DEF Opens
<1>4. s[q + 1] \in Quotes /\ q < Len(s)
  BY DEF Opens, IsAt
<1>5. ASSIGNMENT # "=" /\ ASSIGNMENT \notin Whitespace /\ ASSIGNMENT \notin Quotes
  BY DEF ASSIGNMENT, Whitespace, Quotes
<1>6. b # q
  BY <1>2, <1>4, <1>5
<1>7. ~(b < q)
  <2>1. b < q => b \in (a + 1)..(q - 1)
    OBVIOUS
  <2>2. b \in (a + 1)..(q - 1) => b # d /\ s[b + 1] \notin Whitespace
    BY <1>2, <1>3, <1>5
  <2>. QED  BY <1>3, <2>1, <2>2
<1>8. q \in 0..(b - 1) /\ a \in 0..(b - 1)
  BY <1>6, <1>7
<1>9. PICK e \in q..b : Closes(s, q, e)
  BY <1>8, AssignmentsAre
<1>10. e # b
  BY <1>2, <1>4, <1>5, <1>9 DEF Closes
<1>11. q < e
  BY <1>9 DEF Closes
<1>. QED  BY <1>9, <1>10, <1>11

(* The documents that are replaced, by their position in the page.         *)
IsReplaced(s, i) ==
    \E a \in Assignments(s) :
      /\ Opens(s, a, i - 2) /\ Closes(s, i - 2, i)
      /\ s[i] \in DOMAIN BaseUri
      /\ BaseUri[s[i]] = OriginalUri

LEMMA DesiredIs ==
    ASSUME NEW s \in Seq(Byte)
    PROVE  /\ WithDesiredUri(s) \in Seq(Byte)
           /\ Len(WithDesiredUri(s)) = Len(s)
           /\ \A i \in 1..Len(s) :
                /\ ~IsReplaced(s, i) => WithDesiredUri(s)[i] = s[i]
                /\ i >= 3 /\ IsReplaced(s, i) => WithDesiredUri(s)[i] = Rebased[s[i]]
<1>. DEFINE R == {i \in 3..Len(s) : IsReplaced(s, i)}
            w == [i \in 1..Len(s) |-> IF i \in R THEN Rebased[s[i]] ELSE s[i]]
<1>1. WithDesiredUri(s) = w
  BY Zenon DEF WithDesiredUri, IsReplaced
<1>2. ASSUME NEW i \in 1..Len(s) PROVE w[i] \in Byte
  <2>1. CASE i \in R
    <3>1. s[i] \in DOMAIN BaseUri
      BY <2>1 DEF IsReplaced
    <3>2. Rebased[s[i]] \in DOMAIN BaseUri
      BY <3>1, MetadataAssumption
    <3>. QED  BY <2>1, <3>2, SymbolsAssumption DEF Byte
  <2>2. CASE i \notin R
    BY <2>2
  <2>. QED  BY <2>1, <2>2
<1>3. w \in Seq(Byte) /\ Len(w) = Len(s)
  <2>. DEFINE n == Len(s)
  <2>1. n \in Nat /\ w \in [1..n -> Byte]
    BY <1>2
  <2>. HIDE DEF w
  <2>2. w \in Seq(Byte)
    BY <2>1
  <2>. QED  BY <2>1, <2>2
<1>4. \A i \in 1..Len(s) : w[i] = IF i \in R THEN Rebased[s[i]] ELSE s[i]
  OBVIOUS
<1>5. \A i \in 1..Len(s) : i \in R <=> i >= 3 /\ IsReplaced(s, i)
  OBVIOUS
<1>. HIDE DEF w, R
<1>. QED  BY <1>1, <1>3, <1>4, <1>5

(* A scan at offset from, with the page copied up to offset copied: all the *)
(* assignments before are closed before, and what is not copied yet and    *)
(* before is not replaced.                                                 *)
Covered(s, from, copied) ==
    /\ copied =< from
    /\ \A b \in Assignments(s), q \in 0..Len(s) :
         b < from /\ Opens(s, b, q) => \E e \in (q + 1)..(from - 1) : Closes(s, q, e)
    /\ \A i \in (copied + 1)..from : ~IsReplaced(s, i)

LEMMA AssignmentIs ==
    ASSUME NEW s \in Seq(Byte), NEW a \in Assignments(s)
    PROVE  a \in 0..(Len(s) - 1) /\ s[a + 1] = ASSIGNMENT
<1>1. a \in 0..Len(s)
  BY DEF Assignments
<1>2. PICK q \in a..Len(s) : Opens(s, a, q)
  BY <1>1, AssignmentsAre
<1>. QED  BY <1>1, <1>2 DEF Opens, IsAt

(* What is replaced behind the offset of a scan is so for an assignment     *)
(* behind it.                                                              *)
LEMMA ReplacedBehind ==
    ASSUME NEW s \in Seq(Byte), NEW from \in 0..Len(s), NEW copied \in 0..Len(s),
           Covered(s, from, copied), NEW i \in 1..Len(s), i > from, IsReplaced(s, i)
    PROVE  \E a \in Assignments(s) :
             /\ a >= from /\ i - 2 \in 0..(Len(s) - 1)
             /\ Opens(s, a, i - 2) /\ Closes(s, i - 2, i)
             /\ s[i] \in DOMAIN BaseUri
             /\ BaseUri[s[i]] = OriginalUri
<1>1. PICK a \in Assignments(s) :
             /\ Opens(s, a, i - 2) /\ Closes(s, i - 2, i)
             /\ s[i] \in DOMAIN BaseUri
             /\ BaseUri[s[i]] = OriginalUri
  BY DEF IsReplaced
<1>2. a \in 0..(Len(s) - 1)
  BY AssignmentIs
<1>3. i - 2 \in 0..(Len(s) - 1)
  <2>1. \E e \in (a + 1)..(i - 2 - 1) : TRUE
    BY <1>1 DEF Opens
  <2>. QED  BY <1>2, <2>1
<1>4. ~(a < from)
  <2>. SUFFICES ASSUME a < from PROVE FALSE
    OBVIOUS
  <2>1. i - 2 \in 0..Len(s)
    BY <1>3
  <2>2. PICK e \in (i - 2 + 1)..(from - 1) : Closes(s, i - 2, e)
    BY <1>1, <2>1 DEF Covered
  <2>3. e \in 0..Len(s) /\ i \in 0..Len(s)
    BY <1>3, <2>2
  <2>4. e = i
    BY <1>1, <1>3, <2>2, <2>3, ScanClosesIs
  <2>. QED  BY <2>2, <2>4
<1>. QED  BY <1>1, <1>2, <1>3, <1>4

LEMMA CoveredAtStart ==
    ASSUME NEW s \in Seq(Byte)
    PROVE  Covered(s, 0, 0)
<1>1. \A b \in Assignments(s) : ~(b < 0)
  BY AssignmentIs
<1>. QED  BY <1>1 DEF Covered

(* The page and the one with the documents replaced, where none is.        *)
LEMMA DesiredSlice ==
    ASSUME NEW s \in Seq(Byte), NEW c \in 0..Len(s), NEW e \in c..Len(s),
           \A i \in (c + 1)..e : ~IsReplaced(s, i)
    PROVE  /\ SubSeq(s, c + 1, e) \in Seq(Byte)
           /\ From(WithDesiredUri(s), e) \in Seq(Byte)
           /\ From(WithDesiredUri(s), c)
                = SubSeq(s, c + 1, e) \o From(WithDesiredUri(s), e)
<1>. DEFINE w == WithDesiredUri(s)
            l == Len(s)
            x == SubSeq(s, c + 1, e)
            y == SubSeq(w, c + 1, e)
<1>1. /\ w \in Seq(Byte) /\ Len(w) = l
      /\ \A i \in 1..l : ~IsReplaced(s, i) => w[i] = s[i]
  BY DesiredIs
<1>. HIDE DEF w
<1>2. l \in Nat /\ c \in Nat /\ e \in Nat /\ c =< e /\ e =< l
  OBVIOUS
<1>3. \A i \in (c + 1)..e : w[i] = s[i]
  BY <1>1, <1>2
<1>4. /\ x \in Seq(Byte) /\ Len(x) = e - c /\ \A i \in 1..(e - c) : x[i] = s[c + i]
  BY <1>2
<1>5. /\ y \in Seq(Byte) /\ Len(y) = e - c /\ \A i \in 1..(e - c) : y[i] = w[c + i]
  BY <1>1, <1>2
<1>. HIDE DEF x, y
<1>6. \A i \in 1..(e - c) : c + i \in (c + 1)..e
  BY <1>2
<1>7. x = y
  <2>1. \A i \in 1..Len(x) : x[i] = y[i]
    BY <1>3, <1>4, <1>5, <1>6
  <2>. QED  BY <1>4, <1>5, <2>1, SeqEqual
<1>8. SubSeq(w, c + 1, e) \o SubSeq(w, e + 1, e + (l - e)) = SubSeq(w, c + 1, e + (l - e))
  <2>. DEFINE n == l - e
  <2>1. n \in Nat /\ e + n =< Len(w)
    BY <1>1, <1>2
  <2>2. w \in Seq(Byte) /\ c \in Nat /\ e \in Nat /\ c =< e
    BY <1>1, <1>2
  <2>. HIDE DEF n
  <2>3. SubSeq(w, c + 1, e) \o SubSeq(w, e + 1, e + n) = SubSeq(w, c + 1, e + n)
    BY ONLY <2>1, <2>2, Extend
  <2>. QED  BY <2>3 DEF n
<1>9. From(w, c) = y \o From(w, e)
  <2>1. e + (l - e) = l
    BY <1>2
  <2>. QED  BY <1>1, <1>8, <2>1 DEF From, y
<1>10. From(w, e) \in Seq(Byte)
  BY <1>1, <1>2, FromSlice
<1>. QED  BY <1>4, <1>7, <1>9, <1>10 DEF w, x

LEMMA NothingReplaced ==
    ASSUME NEW s \in Seq(Byte), NEW c \in 0..Len(s),
           \A i \in (c + 1)..Len(s) : ~IsReplaced(s, i)
    PROVE  From(WithDesiredUri(s), c) = From(s, c)
<1>. DEFINE w == WithDesiredUri(s)
            x == SubSeq(s, c + 1, Len(s))
<1>1. Len(s) \in c..Len(s) /\ Len(s) \in Nat
  OBVIOUS
<1>2. w \in Seq(Byte) /\ Len(w) = Len(s)
  BY DesiredIs
<1>3. x \in Seq(Byte) /\ From(w, c) = x \o From(w, Len(s))
  BY <1>1, DesiredSlice
<1>. HIDE DEF w, x
<1>4. From(w, Len(s)) = <<>>
  <2>1. Len(s) \in 0..Len(w)
    BY <1>1, <1>2
  <2>2. From(w, Len(s)) \in Seq(Byte) /\ Len(From(w, Len(s))) = Len(w) - Len(s)
    BY <1>2, <2>1, FromSlice
  <2>. QED  BY <1>1, <1>2, <2>2
<1>5. x \o <<>> = x
  BY <1>3
<1>6. From(w, c) = x
  BY <1>3, <1>4, <1>5
<1>. QED  BY <1>6 DEF w, x, From

LEMMA FromHead ==
    ASSUME NEW w \in Seq(Byte), NEW e \in 1..Len(w)
    PROVE  From(w, e - 1) = <<w[e]>> \o From(w, e)
<1>. DEFINE x == From(w, e - 1)
            y == From(w, e)
            z == <<w[e]>> \o y
            n == Len(w)
<1>1. e \in Nat /\ e - 1 \in 0..n /\ e \in 0..n /\ n \in Nat /\ w[e] \in Byte
  BY ElementOfSeq
<1>2. x \in Seq(Byte) /\ Len(x) = n - (e - 1) /\ \A i \in 1..(n - (e - 1)) : x[i] = w[e - 1 + i]
  BY <1>1, FromSlice
<1>3. y \in Seq(Byte) /\ Len(y) = n - e /\ \A i \in 1..(n - e) : y[i] = w[e + i]
  BY <1>1, FromSlice
<1>. HIDE DEF x, y, n
<1>4. z \in Seq(Byte) /\ Len(z) = 1 + (n - e)
      /\ z[1] = w[e] /\ \A i \in 2..(1 + (n - e)) : z[i] = y[i - 1]
  <2>. DEFINE u == <<w[e]>>
  <2>1. u \in Seq(Byte) /\ Len(u) = 1 /\ u[1] = w[e]
    BY <1>1
  <2>. HIDE DEF u
  <2>2. /\ u \o y \in Seq(Byte) /\ Len(u \o y) = Len(u) + Len(y)
        /\ \A i \in 1..(Len(u) + Len(y)) :
             (u \o y)[i] = IF i =< Len(u) THEN u[i] ELSE y[i - Len(u)]
    BY <1>3, <2>1, ConcatProperties
  <2>3. n - e \in Nat
    BY <1>1
  <2>4. (u \o y)[1] = u[1] /\ \A i \in 2..(1 + (n - e)) : (u \o y)[i] = y[i - 1]
    BY <1>3, <2>1, <2>2, <2>3
  <2>. QED  BY <1>3, <2>1, <2>2, <2>4 DEF u
<1>. HIDE DEF z
<1>5. ASSUME NEW i \in 1..Len(x) PROVE x[i] = z[i]
  <2>1. i \in 1..(n - (e - 1)) /\ x[i] = w[e - 1 + i]
    BY <1>2
  <2>2. CASE i = 1
    <3>1. e - 1 + i = e
      BY <1>1, <2>2
    <3>. QED  BY <1>4, <2>1, <2>2, <3>1
  <2>3. CASE i # 1
    <3>1. i - 1 \in 1..(n - e) /\ i \in 2..(1 + (n - e)) /\ e + (i - 1) = e - 1 + i
      BY <1>1, <2>1, <2>3
    <3>. QED  BY <1>3, <1>4, <2>1, <3>1
  <2>. QED  BY <2>2, <2>3
<1>6. Len(x) = Len(z)
  BY <1>1, <1>2, <1>4
<1>. QED  BY <1>2, <1>4, <1>5, <1>6, SeqEqual DEF x, y, z

(* What each turn of the scan returns is the rest of the page replaced, if  *)
(* the turns behind it do.                                                 *)
LEMMA ScanReplaces ==
    ASSUME NEW s \in Seq(Byte), NEW at \in Offsets(s), Covered(s, at[1], at[2]),
           NEW g,
           \A next \in Offsets(s) :
             next[1] > at[1] /\ Covered(s, next[1], next[2]) =>
               g[next] = From(WithDesiredUri(s), next[2])
    PROVE  ScanAt(s, at, g) = From(WithDesiredUri(s), at[2])
<1>. DEFINE from   == at[1]
            copied == at[2]
            starts == Occurrences(s, from, {ASSIGNMENT})
            start  == Leftmost(starts)
            quote  == QuoteOf(s, start)
            ends   == Closings(s, quote)
            end    == Leftmost(ends)
            value  == SubSeq(s, quote + 2, end)
            l      == Len(s)
            w      == WithDesiredUri(s)
<1>1. from \in 0..l /\ copied \in 0..l /\ l \in Nat /\ copied =< from
  BY DEF Offsets, Covered
<1>2. ScanAt(s, at, g) =
        IF starts = {} THEN From(s, copied) ELSE
        IF ~ScanOpens(s, start) THEN g[<<start + 1, copied>>] ELSE
        IF ends = {} THEN From(s, copied) ELSE
        IF IsRewritable(value)
           THEN SubSeq(s, copied + 1, quote + 1) \o <<Rebased[value[1]]>>
                  \o g[<<SearchFrom(s, quote, end), end>>]
           ELSE g[<<SearchFrom(s, quote, end), copied>>]
  BY DEF ScanAt, ScanOpens, EqualsOf, QuoteOf, Closings
<1>3. \A n, c \in 0..l : n > from /\ Covered(s, n, c) => g[<<n, c>>] = From(w, c)
  <2>. TAKE n, c \in 0..l
  <2>1. <<n, c>> \in Offsets(s) /\ <<n, c>>[1] = n /\ <<n, c>>[2] = c
    BY DEF Offsets
  <2>. QED  BY <2>1
<1>4. \A a \in Assignments(s) : a \in 0..(l - 1) /\ (a >= from => a \in starts)
  <2>. TAKE a \in Assignments(s)
  <2>1. a \in 0..(l - 1) /\ s[a + 1] = ASSIGNMENT
    BY AssignmentIs
  <2>. QED  BY <1>1, <2>1 DEF Occurrences
<1>5. starts # {} => /\ start \in from..(l - 1) /\ s[start + 1] = ASSIGNMENT
                     /\ \A a \in starts : start =< a
  <2>1. starts \in SUBSET Nat
    BY <1>1 DEF Occurrences
  <2>2. starts # {} => start \in starts /\ \A a \in starts : start =< a
    BY <2>1, LeftmostIs
  <2>. QED  BY <2>2 DEF Occurrences
<1>6. /\ \A b \in Assignments(s), q \in 0..l :
           b < from /\ Opens(s, b, q) => \E e \in (q + 1)..(from - 1) : Closes(s, q, e)
      /\ \A i \in (copied + 1)..from : ~IsReplaced(s, i)
  BY DEF Covered
<1>7. \A i \in 1..l : i > from /\ IsReplaced(s, i) =>
        \E a \in Assignments(s) :
             /\ a >= from /\ i - 2 \in 0..(l - 1)
             /\ Opens(s, a, i - 2) /\ Closes(s, i - 2, i)
             /\ s[i] \in DOMAIN BaseUri
             /\ BaseUri[s[i]] = OriginalUri
  BY <1>1, ReplacedBehind
<1>8. \A a \in Assignments(s), q \in 0..l : Opens(s, a, q) => a + 2 =< q
  <2>. TAKE a \in Assignments(s), q \in 0..l
  <2>1. Opens(s, a, q) => \E e \in (a + 1)..(q - 1) : TRUE
    BY DEF Opens
  <2>. QED  BY <1>4, <2>1
<1>9. \A i \in (copied + 1)..l : i \in 1..l /\ (i \in (copied + 1)..from \/ i > from)
  BY <1>1
<1>. HIDE DEF starts, start, w, l, from, copied
<1>10. CASE starts = {}
  <2>1. \A i \in (copied + 1)..l : ~IsReplaced(s, i)
    BY <1>4, <1>6, <1>7, <1>9, <1>10
  <2>2. From(w, copied) = From(s, copied)
    BY <1>1, <2>1, NothingReplaced DEF w, l
  <2>. QED  BY <1>2, <1>10, <2>2 DEF w, copied
<1>. DEFINE opens == ScanOpens(s, start)
<1>11. ASSUME starts # {}
       PROVE  /\ start \in from..(l - 1) /\ start \in 0..(l - 1)
              /\ \A a \in Assignments(s) : a >= from => start =< a
              /\ opens => /\ quote \in (start + 2)..(l - 1) /\ Opens(s, start, quote)
                          /\ start \in Assignments(s)
              /\ \A q \in 0..l : Opens(s, start, q) => opens /\ q = quote
              /\ start \in Assignments(s) => opens
  <2>1. /\ start \in from..(l - 1) /\ s[start + 1] = ASSIGNMENT
        /\ \A a \in Assignments(s) : a >= from => start =< a
    BY <1>4, <1>5, <1>11
  <2>2. start \in 0..(l - 1)
    BY <1>1, <2>1
  <2>3. /\ opens => quote \in (start + 2)..(l - 1) /\ Opens(s, start, quote)
        /\ \A q \in 0..l : Opens(s, start, q) => opens /\ q = quote
    BY <2>1, <2>2, ScanOpensIs DEF l
  <2>4. start \in 0..Len(s)
    BY <2>2 DEF l
  <2>. HIDE DEF quote, opens
  <2>5. start \in Assignments(s) => opens
    <3>1. start \in Assignments(s) => \E q \in start..l : Opens(s, start, q)
      BY <2>4, AssignmentsAre DEF l
    <3>2. \A q \in start..l : q \in 0..l
      BY <2>2
    <3>. QED  BY <2>3, <3>1, <3>2
  <2>6. opens => start \in Assignments(s)
    <3>. SUFFICES ASSUME opens PROVE start \in Assignments(s)
      OBVIOUS
    <3>1. quote \in start..Len(s) /\ Opens(s, start, quote)
      BY <1>1, <2>2, <2>3 DEF l
    <3>2. ASSUME NEW b \in 0..(start - 1), NEW q \in 0..(start - 1),
                 Opens(s, b, q), b \in Assignments(s)
          PROVE  \E e \in q..start : Closes(s, q, e)
      <4>1. b < from
        BY <1>1, <2>1, <3>2
      <4>2. q \in 0..l
        BY <1>1, <2>2
      <4>3. PICK e \in (q + 1)..(from - 1) : Closes(s, q, e)
        BY <1>6, <3>2, <4>1, <4>2
      <4>4. e \in q..start
        BY <1>1, <2>1
      <4>. QED  BY <4>3, <4>4
    <3>. QED  BY <2>4, <3>1, <3>2, AssignmentsAre
  <2>. QED  BY <2>1, <2>2, <2>3, <2>5, <2>6
<1>. HIDE DEF quote, opens, ends, end
<1>12. CASE starts # {} /\ ~opens
  <2>. DEFINE n == start + 1
  <2>0. /\ start \in from..(l - 1) /\ n \in 0..l /\ n > from /\ start \in Nat
        /\ \A a \in Assignments(s) : a >= from => a > start /\ a \in Nat
    <3>1. start \in from..(l - 1)
      BY <1>11, <1>12
    <3>2. \A a \in Assignments(s) : a >= from => a > start /\ a \in Nat
      <4>. TAKE a \in Assignments(s)
      <4>1. a # start /\ a \in Nat /\ (a >= from => start =< a)
        BY <1>4, <1>11, <1>12
      <4>. QED  BY <1>1, <3>1, <4>1
    <3>. QED  BY <1>1, <3>1, <3>2
  <2>. HIDE DEF n
  <2>1. copied =< n
    BY <1>1, <2>0
  <2>2. ASSUME NEW b \in Assignments(s), NEW q \in 0..l, b < n, Opens(s, b, q)
        PROVE  \E e \in (q + 1)..(n - 1) : Closes(s, q, e)
    <3>1. b < from
      BY <1>1, <1>4, <2>0, <2>2 DEF n
    <3>2. PICK e \in (q + 1)..(from - 1) : Closes(s, q, e)
      BY <1>6, <2>2, <3>1
    <3>3. e \in (q + 1)..(n - 1)
      BY <1>1, <2>0
    <3>. QED  BY <3>2, <3>3
  <2>3. ASSUME NEW i \in (copied + 1)..n PROVE ~IsReplaced(s, i)
    <3>. SUFFICES ASSUME IsReplaced(s, i) PROVE FALSE
      OBVIOUS
    <3>1. i \in (copied + 1)..l
      BY <1>1, <2>0
    <3>2. i \in 1..l /\ i > from
      BY <1>6, <1>9, <3>1
    <3>3. PICK a \in Assignments(s) :
               a >= from /\ i - 2 \in 0..(l - 1) /\ Opens(s, a, i - 2)
      BY <1>7, <3>2
    <3>4. a > start /\ a \in Nat /\ a + 2 =< i - 2
      <4>1. i - 2 \in 0..l
        BY <1>1, <3>3
      <4>. QED  BY <1>8, <2>0, <3>3, <4>1
    <3>. QED  BY <2>0, <3>2, <3>4 DEF n
  <2>4. Covered(s, n, copied)
    BY <2>1, <2>2, <2>3 DEF Covered, l
  <2>5. g[<<n, copied>>] = From(w, copied)
    BY <1>1, <1>3, <2>0, <2>4
  <2>. QED  BY <1>2, <1>12, <2>5 DEF w, copied, n, opens
<1>13. ASSUME starts # {}, opens
       PROVE  /\ start \in from..(l - 1) /\ quote \in (start + 2)..(l - 1)
              /\ quote \in 0..(Len(s) - 1) /\ quote \in Nat /\ start \in Nat
              /\ start \in Assignments(s) /\ Opens(s, start, quote)
              /\ \A a \in Assignments(s) : a >= from => a = start \/ a > start
              /\ \A a \in Assignments(s) : a > start =>
                   a \in Nat /\ \E e \in (quote + 1)..(a - 1) : Closes(s, quote, e)
  <2>1. /\ start \in from..(l - 1) /\ quote \in (start + 2)..(l - 1)
        /\ start \in Assignments(s) /\ Opens(s, start, quote)
        /\ \A a \in Assignments(s) : a >= from => start =< a
    BY <1>11, <1>13
  <2>2. quote \in 0..(Len(s) - 1) /\ quote \in Nat /\ start \in Nat /\ start \in 0..Len(s)
        /\ quote \in 0..Len(s)
    BY <1>1, <2>1 DEF l
  <2>3. ASSUME NEW a \in Assignments(s), a > start
        PROVE  a \in Nat /\ \E e \in (quote + 1)..(a - 1) : Closes(s, quote, e)
    <3>1. a \in 0..Len(s) /\ a \in Nat /\ start < a
      BY <1>1, <1>4, <2>2, <2>3 DEF l
    <3>. QED  BY <2>1, <2>2, <3>1, ClosedBefore
  <2>4. \A a \in Assignments(s) : a >= from => a = start \/ a > start
    <3>. TAKE a \in Assignments(s)
    <3>1. a \in 0..(l - 1) /\ (a >= from => start =< a)
      BY <1>4, <2>1
    <3>. QED  BY <1>1, <2>2, <3>1
  <2>. QED  BY <2>1, <2>2, <2>3, <2>4
<1>14. CASE starts # {} /\ opens /\ ends = {}
  <2>1. \A e \in 0..l : ~Closes(s, quote, e)
    BY <1>13, <1>14, ScanClosesIs DEF l, ends
  <2>2. ASSUME NEW i \in 1..l, i > from PROVE ~IsReplaced(s, i)
    <3>. SUFFICES ASSUME IsReplaced(s, i) PROVE FALSE
      OBVIOUS
    <3>1. PICK a \in Assignments(s) :
               /\ a >= from /\ i - 2 \in 0..(l - 1)
               /\ Opens(s, a, i - 2) /\ Closes(s, i - 2, i)
      BY <1>7, <2>2
    <3>2. CASE a = start
      <4>1. i - 2 \in 0..l /\ i \in 0..l
        BY <1>1, <3>1
      <4>2. i - 2 = quote
        BY <1>11, <1>14, <3>1, <3>2, <4>1
      <4>. QED  BY <2>1, <3>1, <4>1, <4>2
    <3>3. CASE a > start
      <4>1. PICK e \in (quote + 1)..(a - 1) : Closes(s, quote, e)
        BY <1>13, <1>14, <3>3
      <4>2. a \in 0..(l - 1) /\ quote \in Nat
        BY <1>4, <1>13, <1>14
      <4>3. e \in 0..l
        BY <1>1, <4>2
      <4>. QED  BY <2>1, <4>1, <4>3
    <3>. QED  BY <1>13, <1>14, <3>1, <3>2, <3>3
  <2>3. \A i \in (copied + 1)..l : ~IsReplaced(s, i)
    BY <1>6, <1>9, <2>2
  <2>4. From(w, copied) = From(s, copied)
    BY <1>1, <2>3, NothingReplaced DEF w, l
  <2>. QED  BY <1>2, <1>14, <2>4 DEF w, copied, opens
<1>15. CASE starts # {} /\ opens /\ ends # {}
  <2>1. end \in (quote + 1)..(l - 1) /\ Closes(s, quote, end)
        /\ \A d, e \in 0..l : Closes(s, quote, d) /\ Closes(s, quote, e) => d = e
    BY <1>13, <1>15, ScanClosesIs DEF l, ends, end
  <2>. DEFINE n == end + 1
  <2>2. /\ start \in Nat /\ quote \in Nat /\ end \in Nat /\ end \in 0..l /\ n \in 0..l
        /\ n > from /\ start < quote /\ quote < end /\ end < l /\ from =< start
        /\ copied =< quote + 1 /\ quote + 1 =< l
    BY <1>1, <1>13, <1>15, <2>1
  <2>3. \A a \in Assignments(s) : a >= from => a = start \/ (a > end /\ a \in Nat)
    <3>. TAKE a \in Assignments(s)
    <3>. SUFFICES ASSUME a >= from, a # start PROVE a > end /\ a \in Nat
      OBVIOUS
    <3>1. a > start
      BY <1>13, <1>15
    <3>2. a \in Nat /\ \E e \in (quote + 1)..(a - 1) : Closes(s, quote, e)
      BY <1>13, <1>15, <3>1
    <3>3. PICK e \in (quote + 1)..(a - 1) : Closes(s, quote, e)
      BY <3>2
    <3>4. a \in 0..(l - 1)
      BY <1>4
    <3>5. e \in 0..l
      BY <1>1, <2>2, <3>4
    <3>6. e = end
      BY <2>1, <2>2, <3>3, <3>5
    <3>. QED  BY <2>2, <3>2, <3>6
  <2>. HIDE DEF n
  <2>4. ASSUME NEW i \in 1..l, i > from, i =< n, IsReplaced(s, i)
        PROVE  i = end /\ quote = end - 2 /\ IsRewritable(value)
    <3>1. PICK a \in Assignments(s) :
               /\ a >= from /\ i - 2 \in 0..(l - 1)
               /\ Opens(s, a, i - 2) /\ Closes(s, i - 2, i)
               /\ s[i] \in DOMAIN BaseUri
               /\ BaseUri[s[i]] = OriginalUri
      BY <1>7, <2>4
    <3>2. i - 2 \in 0..l /\ i \in 0..l
      BY <1>1, <3>1
    <3>3. a = start
      <4>1. a + 2 =< i - 2
        BY <1>8, <3>1, <3>2
      <4>2. ~(a > end /\ a \in Nat)
        BY <2>2, <2>4, <4>1 DEF n
      <4>. QED  BY <2>3, <3>1, <4>2
    <3>4. i - 2 = quote
      BY <1>11, <1>15, <3>1, <3>2, <3>3
    <3>5. i = end
      BY <2>1, <2>2, <3>1, <3>2, <3>4
    <3>6. quote = end - 2
      BY <2>2, <3>4, <3>5
    <3>7. Len(value) = 1 /\ value[1] = s[end]
      <4>1. quote + 2 = end /\ end \in 1..Len(s)
        BY <2>2, <3>6 DEF l
      <4>2. value = SubSeq(s, end, end)
        BY <4>1
      <4>. HIDE DEF value
      <4>. QED  BY <4>1, <4>2
    <3>. QED  BY <3>1, <3>5, <3>6, <3>7 DEF IsRewritable
  <2>5. ASSUME NEW b \in Assignments(s), NEW q \in 0..l, b < n, Opens(s, b, q)
        PROVE  \E e \in (q + 1)..(n - 1) : Closes(s, q, e)
    <3>0. b \in Nat
      BY <1>4
    <3>1. CASE b < from
      <4>1. PICK e \in (q + 1)..(from - 1) : Closes(s, q, e)
        BY <1>6, <2>5, <3>1
      <4>2. e \in (q + 1)..(n - 1)
        BY <1>1, <2>2
      <4>. QED  BY <4>1, <4>2
    <3>2. CASE b = start
      <4>1. q = quote
        BY <1>11, <1>15, <2>5, <3>2
      <4>2. end \in (quote + 1)..(n - 1)
        BY <2>2 DEF n
      <4>. QED  BY <2>1, <4>1, <4>2
    <3>3. b < from \/ b = start
      <4>1. ~(b > end)
        BY <2>2, <2>5, <3>0 DEF n
      <4>2. b < from \/ b >= from
        BY <1>1, <3>0
      <4>. QED  BY <2>3, <4>1, <4>2
    <3>. QED  BY <3>1, <3>2, <3>3
  <2>6. SearchFrom(s, quote, end) = n
    BY DEF SearchFrom, n
  <2>7. CASE ~IsRewritable(value)
    <3>1. ASSUME NEW i \in (copied + 1)..n PROVE ~IsReplaced(s, i)
      <4>1. i \in (copied + 1)..l /\ i =< n
        BY <1>1, <2>2
      <4>. QED  BY <1>6, <1>9, <2>4, <2>7, <4>1
    <3>2. copied =< n
      BY <1>1, <2>2
    <3>3. Covered(s, n, copied)
      BY <2>5, <3>1, <3>2 DEF Covered, l
    <3>4. g[<<n, copied>>] = From(w, copied)
      BY <1>1, <1>3, <2>2, <3>3
    <3>. QED  BY <1>2, <1>15, <2>6, <2>7, <3>4 DEF w, copied, opens
  <2>8. CASE IsRewritable(value)
    <3>1. quote + 2 = end /\ end \in 3..Len(s) /\ end - 1 = quote + 1 /\ value[1] = s[end]
      <4>1. quote + 2 \in Nat /\ quote + 2 =< end + 1
        BY <2>2
      <4>2. Len(value) = end - (quote + 2) + 1
        <5>. DEFINE k == quote + 2
        <5>1. k \in 1..(Len(s) + 1) /\ end \in (k - 1)..Len(s)
          BY <1>1, <2>2 DEF l
        <5>2. \A i \in k..end : s[i] \in Byte
          <6>. HIDE DEF k
          <6>1. \A i \in k..end : i \in 1..Len(s)
            BY <5>1
          <6>. QED  BY <6>1, ElementOfSeq
        <5>. HIDE DEF k
        <5>3. Len(SubSeq(s, k, end)) = end - k + 1
          BY <5>1, <5>2, SubSeqProperties
        <5>. QED  BY <5>3 DEF k
      <4>3. quote + 2 = end
        BY <2>2, <2>8, <4>2 DEF IsRewritable
      <4>4. end \in 1..Len(s) /\ value = SubSeq(s, end, end)
        BY <2>2, <4>3 DEF l
      <4>. HIDE DEF value
      <4>5. value[1] = s[end]
        BY <4>4
      <4>. QED  BY <2>2, <4>3, <4>4, <4>5
    <3>2. s[end] \in DOMAIN BaseUri /\ BaseUri[s[end]] = OriginalUri
      BY <2>8, <3>1 DEF IsRewritable
    <3>3. IsReplaced(s, end)
      <4>1. end - 2 = quote
        BY <2>2, <3>1
      <4>. QED  BY <1>13, <1>15, <2>1, <3>2, <4>1 DEF IsReplaced
    <3>4. ASSUME NEW i \in (copied + 1)..(quote + 1) PROVE ~IsReplaced(s, i)
      <4>1. i \in (copied + 1)..l /\ i =< n /\ i # end
        <5>1. i \in Int /\ i >= copied + 1 /\ i =< quote + 1 /\ copied \in Int
          BY <1>1, <2>2
        <5>2. n = end + 1 /\ quote + 2 = end
          BY <3>1 DEF n
        <5>. QED  BY ONLY <1>1, <2>2, <5>1, <5>2
      <4>. QED  BY <1>6, <1>9, <2>4, <4>1
    <3>5. SubSeq(s, copied + 1, quote + 1) \in Seq(Byte)
          /\ From(w, copied) = SubSeq(s, copied + 1, quote + 1) \o From(w, quote + 1)
      <4>1. quote + 1 \in copied..Len(s)
        BY <1>1, <2>2 DEF l
      <4>. QED  BY <1>1, <3>4, <4>1, DesiredSlice DEF w, l
    <3>6. w \in Seq(Byte) /\ end \in 1..Len(w) /\ w[end] = Rebased[s[end]] /\ w[end] \in Byte
      <4>1. w \in Seq(Byte) /\ Len(w) = Len(s)
        BY DesiredIs DEF w
      <4>2. end \in 1..Len(s) /\ end >= 3
        BY <3>1
      <4>3. w[end] = Rebased[s[end]]
        BY <3>3, <4>2, DesiredIs DEF w
      <4>. QED  BY <4>1, <4>2, <4>3, ElementOfSeq
    <3>7. From(w, quote + 1) = <<Rebased[s[end]]>> \o From(w, end) /\ From(w, end) \in Seq(Byte)
      <4>1. From(w, end - 1) = <<w[end]>> \o From(w, end)
        BY <3>6, FromHead
      <4>2. end \in 0..Len(w)
        BY <2>2, <3>6
      <4>3. From(w, end) \in Seq(Byte)
        BY <3>6, <4>2, FromSlice
      <4>. QED  BY <3>1, <3>6, <4>1, <4>3
    <3>8. Covered(s, n, end)
      <4>1. ASSUME NEW i \in (end + 1)..n PROVE ~IsReplaced(s, i)
        <5>1. i \in 1..l /\ i > from /\ i =< n /\ i # end
          BY <1>1, <2>2 DEF n
        <5>. QED  BY <2>4, <5>1
      <4>2. end =< n
        BY <2>2 DEF n
      <4>. QED  BY <2>5, <4>1, <4>2 DEF Covered, l
    <3>9. g[<<n, end>>] = From(w, end)
      BY <1>3, <2>2, <3>8
    <3>10. ScanAt(s, at, g) = SubSeq(s, copied + 1, quote + 1) \o <<Rebased[s[end]]>>
                                \o g[<<n, end>>]
      BY <1>2, <1>15, <2>6, <2>8, <3>1 DEF opens
    <3>. DEFINE x == SubSeq(s, copied + 1, quote + 1)
                y == <<Rebased[s[end]]>>
                z == From(w, end)
    <3>11. x \in Seq(Byte) /\ y \in Seq(Byte) /\ z \in Seq(Byte)
      BY <3>5, <3>6, <3>7
    <3>12. ScanAt(s, at, g) = (x \o y) \o z /\ From(w, copied) = x \o (y \o z)
      BY <3>5, <3>7, <3>9, <3>10
    <3>. HIDE DEF x, y, z
    <3>13. (x \o y) \o z = x \o (y \o z)
      <4>1. Regroups(Byte, x, y, z)
        BY <3>11, Reassociate
      <4>. QED  BY ONLY <4>1, Zenon DEF Regroups
    <3>. QED  BY <3>12, <3>13 DEF w, copied
  <2>. QED  BY <2>7, <2>8
<1>. QED  BY <1>10, <1>12, <1>14, <1>15

(* The scan computes what the page should become, and that is bytes.       *)
LEMMA MigMetaIs ==
    ASSUME NEW s \in Seq(Byte)
    PROVE  RewriteMigMeta(s) = WithDesiredUri(s)
<1>. DEFINE D == Offsets(s)
            l == Len(s)
            w == WithDesiredUri(s)
            Right(g, at) == Covered(s, at[1], at[2]) => g[at] = From(w, at[2])
<1>1. PICK g : /\ \A at \in D : g[at] = ScanAt(s, at, g)
               /\ RewriteMigMeta(s) = g[<<0, 0>>]
  BY ScanFunction
<1>2. l \in Nat /\ \A at \in D : at[1] \in 0..l
  BY DEF Offsets
<1>. DEFINE T == {n \in Nat : \A at \in D : at[1] = n => Right(g, at)}
<1>3. ASSUME NEW n \in 0..l, \A m \in (n + 1)..l : m \in T PROVE n \in T
  <2>. SUFFICES ASSUME NEW at \in D, at[1] = n, Covered(s, at[1], at[2])
                PROVE  g[at] = From(w, at[2])
    OBVIOUS
  <2>1. ASSUME NEW next \in D, next[1] > at[1], Covered(s, next[1], next[2])
        PROVE  g[next] = From(w, next[2])
    <3>1. next[1] \in (n + 1)..l
      BY <1>2, <2>1
    <3>2. next[1] \in T
      BY <1>3, <3>1
    <3>. QED  BY <2>1, <3>2
  <2>2. ScanAt(s, at, g) = From(w, at[2])
    BY <2>1, ScanReplaces
  <2>. QED  BY <1>1, <2>2
<1>4. 0..l \subseteq T
  <2>. HIDE DEF T, l
  <2>. QED  BY <1>2, <1>3, DownwardInduction
<1>5. <<0, 0>> \in D /\ <<0, 0>>[1] = 0 /\ <<0, 0>>[2] = 0
  BY <1>2 DEF Offsets
<1>6. Covered(s, 0, 0)
  BY CoveredAtStart
<1>7. g[<<0, 0>>] = From(w, 0)
  <2>1. 0 \in T
    BY <1>2, <1>4
  <2>2. Right(g, <<0, 0>>)
    BY <1>5, <2>1
  <2>. QED  BY <1>5, <1>6, <2>2
<1>8. From(w, 0) = w
  <2>1. w \in Seq(Byte)
    BY DesiredIs
  <2>. HIDE DEF w
  <2>2. 0 \in 0..Len(w)
    BY <2>1
  <2>3. /\ From(w, 0) \in Seq(Byte) /\ Len(From(w, 0)) = Len(w) - 0
        /\ \A i \in 1..(Len(w) - 0) : From(w, 0)[i] = w[0 + i]
    BY <2>1, <2>2, FromSlice
  <2>4. Len(w) \in Nat /\ Len(w) - 0 = Len(w) /\ \A i \in 1..Len(w) : 0 + i = i
    BY <2>1
  <2>. QED  BY <2>1, <2>3, <2>4, SeqEqual
<1>. QED  BY <1>1, <1>7, <1>8

LEMMA MigMetaType ==
    ASSUME NEW s \in Seq(Byte)
    PROVE  RewriteMigMeta(s) \in Seq(Byte)
BY MigMetaIs, DesiredIs

-----------------------------------------------------------------------------
(* What every stage returns                                                *)

LEMMA ReturnedBuffered ==
    ASSUME NEW st, st.mode = "buffered", NEW s, NEW at_end \in BOOLEAN
    PROVE  Returned(st, s, at_end) = IF at_end THEN RewriteMigMeta(s) ELSE <<>>
BY DEF Returned

LEMMA ReturnedType ==
    ASSUME NEW st, IsStage(st), NEW s \in Seq(Byte), NEW at_end \in BOOLEAN
    PROVE  Returned(st, s, at_end) \in Seq(Byte)
<1>1. CASE st.mode = "buffered"
  <2>1. RewriteMigMeta(s) \in Seq(Byte)
    BY MigMetaType
  <2>2. <<>> \in Seq(Byte)
    OBVIOUS
  <2>. QED  BY <1>1, <2>1, <2>2, ReturnedBuffered
<1>2. CASE st.mode # "buffered"
  <2>1. PICK rest : IsRest(rest, st, s, at_end)
    BY <1>2, ReturnedIs
  <2>2. 0 \in 0..Len(s)
    OBVIOUS
  <2>. QED  BY <2>1, <2>2 DEF IsRest
<1>. QED  BY <1>1, <1>2

(* What a stage has returned before the end is a beginning of what it       *)
(* returns for anything that begins with what it has received.             *)
LEMMA Monotone ==
    ASSUME NEW st, IsStage(st), NEW s \in Seq(Byte), NEW u \in Seq(Byte),
           StartsWith(u, s), NEW at_end \in BOOLEAN
    PROVE  StartsWith(Returned(st, u, at_end), Returned(st, s, FALSE))
<1>1. CASE st.mode = "buffered"
  <2>1. Returned(st, s, FALSE) = <<>>
    BY <1>1, ReturnedBuffered
  <2>. DEFINE x == Returned(st, u, at_end)
  <2>2. x \in Seq(Byte)
    BY ReturnedType
  <2>. HIDE DEF x
  <2>3. StartsWith(x, <<>>)
    BY <2>2, StartsEmpty
  <2>. QED  BY <2>1, <2>3 DEF x
<1>2. CASE st.mode # "buffered"
  <2>1. PICK f : IsRest(f, st, s, FALSE)
    BY <1>2, ReturnedIs
  <2>2. PICK g : IsRest(g, st, u, at_end)
    BY <1>2, ReturnedIs
  <2>. DEFINE l == Len(s)
              T == {p \in 0..l : StartsWith(g[p], f[p])}
  <2>3. ASSUME NEW p \in 0..l, \A n \in (p + 1)..l : n \in T PROVE p \in T
    <3>1. \A n \in (p + 1)..Len(s) : StartsWith(g[n], f[n])
      BY <2>3
    <3>2. StartsWith(g[p], f[p])
      BY <1>2, <2>1, <2>2, <3>1, RestStays
    <3>. QED  BY <3>2
  <2>4. l \in Nat
    OBVIOUS
  <2>5. 0..l \subseteq T
    <3>. HIDE DEF T, l
    <3>. QED  BY <2>3, <2>4, DownwardInduction
  <2>6. StartsWith(g[0], f[0])
    BY <2>4, <2>5
  <2>. QED  BY <2>1, <2>2, <2>6 DEF IsRest
<1>. QED  BY <1>1, <1>2

(* So what a stage returns to each call continues what it has returned.    *)
LEMMA ReturnedGrows ==
    ASSUME NEW st, IsStage(st), NEW s \in Seq(Byte), NEW u \in Seq(Byte),
           StartsWith(u, s), NEW at_end \in BOOLEAN
    PROVE  /\ From(Returned(st, u, at_end), Len(Returned(st, s, FALSE)))
                \in Seq(Byte)
           /\ Returned(st, u, at_end)
                = Returned(st, s, FALSE)
                    \o From(Returned(st, u, at_end), Len(Returned(st, s, FALSE)))
<1>1. /\ Returned(st, u, at_end) \in Seq(Byte)
      /\ Returned(st, s, FALSE) \in Seq(Byte)
      /\ StartsWith(Returned(st, u, at_end), Returned(st, s, FALSE))
  BY ReturnedType, Monotone
<1>. QED  BY <1>1, StartsSplit

-----------------------------------------------------------------------------
(* The stages one after the other                                          *)

(* The body of the recursion in Composed.                                  *)
AfterAt(s, i, after) ==
    IF i = 0 THEN s ELSE Returned(stages[i], after[i - 1], TRUE)

LEMMA ComposedFunction ==
    ASSUME given \in Cases, NEW s \in Seq(Byte)
    PROVE  \E f \in [0..N -> Seq(Byte)] :
             /\ \A i \in 0..N : f[i] = AfterAt(s, i, f)
             /\ \A k \in 0..N : Composed(s, k) = f[k]
<1>. DEFINE l    == N
            F    == [0..l -> Seq(Byte)]
            Step == [i \in 0..l |-> [g \in F |-> AfterAt(s, i, g)]]
<1>1. l \in Nat /\ Seq(Byte) # {}
  BY CaseFacts
<1>2. ASSUME NEW i \in 0..l, NEW g \in F PROVE AfterAt(s, i, g) \in Seq(Byte)
  <2>1. CASE i = 0
    BY <2>1 DEF AfterAt
  <2>2. CASE i # 0
    <3>. HIDE DEF l
    <3>1. i - 1 \in 0..l /\ i \in 1..l
      BY <1>1, <2>2
    <3>2. g[i - 1] \in Seq(Byte) /\ IsStage(stages[i])
      BY <3>1, StagesAre DEF l
    <3>. QED  BY <2>2, <3>2, ReturnedType DEF AfterAt
  <2>. QED  BY <2>1, <2>2
<1>3. ASSUME NEW i \in 0..l, NEW g, NEW h, \A q \in 0..(i - 1) : g[q] = h[q]
      PROVE  AfterAt(s, i, g) = AfterAt(s, i, h)
  <2>1. CASE i = 0
    BY <2>1 DEF AfterAt
  <2>2. CASE i # 0
    <3>1. g[i - 1] = h[i - 1]
      BY <1>1, <1>3, <2>2
    <3>. QED  BY <2>2, <3>1 DEF AfterAt
  <2>. QED  BY <2>1, <2>2
<1>4. PICK f \in F : \A i \in 0..l : f[i] = AfterAt(s, i, f)
  <2>1. Step \in [0..l -> [F -> Seq(Byte)]]
    BY <1>2
  <2>2. \A i \in 0..l : \A g \in F : Step[i][g] = AfterAt(s, i, g)
    OBVIOUS
  <2>. HIDE DEF Step, l
  <2>3. ASSUME NEW i \in 0..l, NEW g \in F, NEW h \in F,
               \A q \in 0..(i - 1) : g[q] = h[q]
        PROVE  Step[i][g] = Step[i][h]
    <3>1. AfterAt(s, i, g) = AfterAt(s, i, h)
      BY <1>3, <2>3
    <3>. QED  BY <2>2, <3>1
  <2>4. \E f \in F : \A i \in 0..l : f[i] = Step[i][f]
    <3>1. IsUpward(Step, Seq(Byte), l)
      BY <1>1, <2>1, <2>3 DEF IsUpward
    <3>. QED  BY ONLY <3>1, UpwardRecursion, SMT DEF F
  <2>. QED  BY <2>2, <2>4
<1>5. f = [i \in 0..N |-> AfterAt(s, i, f)]
  BY <1>4
<1>6. ASSUME NEW k \in 0..N PROVE Composed(s, k) = f[k]
  <2>1. \E g : g = [i \in 0..N |-> AfterAt(s, i, g)] /\ Composed(s, k) = g[k]
    BY <1>5, Zenon DEF Composed, AfterAt
  <2>2. PICK g : g = [i \in 0..l |-> AfterAt(s, i, g)] /\ Composed(s, k) = g[k]
    BY <2>1
  <2>3. \A i \in 0..l : g[i] = AfterAt(s, i, g)
    BY <2>2
  <2>. DEFINE T == {i \in Nat : i \in 0..l => g[i] = f[i]}
  <2>4. ASSUME NEW i \in Nat, \A m \in 0..(i - 1) : m \in T PROVE i \in T
    <3>. SUFFICES ASSUME i \in 0..l PROVE g[i] = f[i]
      OBVIOUS
    <3>1. \A q \in 0..(i - 1) : g[q] = f[q]
      <4>. HIDE DEF l
      <4>1. \A q \in 0..(i - 1) : q \in 0..l
        BY <1>1
      <4>. QED  BY <2>4, <4>1
    <3>2. AfterAt(s, i, g) = AfterAt(s, i, f)
      BY <1>3, <3>1
    <3>. QED  BY <1>4, <2>3, <3>2
  <2>5. Nat \subseteq T
    <3>. HIDE DEF T
    <3>. QED  BY <2>4, StrongInduction
  <2>6. g[k] = f[k]
    BY <1>1, <2>5
  <2>. QED  BY <2>2, <2>6
<1>. QED  BY <1>4, <1>6

LEMMA ComposedIs ==
    ASSUME given \in Cases, NEW s \in Seq(Byte)
    PROVE  /\ Composed(s, 0) = s
           /\ \A i \in 0..N : Composed(s, i) \in Seq(Byte)
           /\ \A i \in 1..N :
                Composed(s, i) = Returned(stages[i], Composed(s, i - 1), TRUE)
<1>1. PICK f \in [0..N -> Seq(Byte)] :
             /\ \A i \in 0..N : f[i] = AfterAt(s, i, f)
             /\ \A k \in 0..N : Composed(s, k) = f[k]
  BY ComposedFunction
<1>2. N \in Nat
  BY CaseFacts
<1>3. \A i \in 0..N : Composed(s, i) \in Seq(Byte)
  BY <1>1
<1>4. Composed(s, 0) = s
  <2>1. 0 \in 0..N
    BY <1>2
  <2>2. f[0] = s
    BY <1>1, <2>1 DEF AfterAt
  <2>. QED  BY <1>1, <2>1, <2>2
<1>5. ASSUME NEW i \in 1..N
      PROVE  Composed(s, i) = Returned(stages[i], Composed(s, i - 1), TRUE)
  <2>1. i \in 0..N /\ i - 1 \in 0..N /\ i # 0
    BY <1>2
  <2>2. f[i] = Returned(stages[i], f[i - 1], TRUE)
    BY <1>1, <2>1 DEF AfterAt
  <2>. QED  BY <1>1, <2>1, <2>2
<1>. QED  BY <1>3, <1>4, <1>5

-----------------------------------------------------------------------------
(* What flows from stage to stage                                          *)

(* What has arrived at stage j, and behind the last stage; and what stage   *)
(* j - 1 has returned for what has arrived there, the body for the first.   *)
Got(j) == IF j = N + 1 THEN sent \o chunk ELSE received[j]
Made(j, at_end) == IF j = 1 THEN First(body, fed)
                            ELSE Returned(stages[j - 1], received[j - 1], at_end)

(* Nothing is lost between two stages but what is in carry, before the end  *)
(* and, behind the stage that finish has come to, after it.                *)
FlowInv ==
    /\ received \in [1..N -> Seq(Byte)]
    /\ carry \in Seq(Byte) /\ chunk \in Seq(Byte) /\ sent \in Seq(Byte)
    /\ StartsWith(Composed(body, N), sent)
    /\ result = "done" => sent = Composed(body, N)
    /\ result = "running" /\ call # "finish" => chunk = <<>>
    /\ result = "running" /\ call = "idle" =>
         \A j \in 1..(N + 1) : Got(j) = Made(j, FALSE)
    /\ call # "idle" =>
         /\ call = "finish" /\ stage = 1 => carry = <<>>
         /\ Got(stage) \o carry = Made(stage, call = "finish")
         /\ \A j \in 1..(stage - 1) : Got(j) = Made(j, call = "finish")
         /\ \A j \in (stage + 1)..(N + 1) : Got(j) = Made(j, FALSE)

(* What has arrived anywhere is a beginning of what should arrive there.    *)
LEMMA FlowIsBeginning ==
    ASSUME given \in Cases, received \in [1..N -> Seq(Byte)],
           NEW final \in Seq(Byte), fed \in 0..Len(body),
           \A j \in 1..N : received[j] = Made(j, FALSE),
           final = Made(N + 1, FALSE)
    PROVE  StartsWith(Composed(body, N), final)
<1>1. /\ N \in Nat /\ N > 0 /\ body \in Seq(Byte) /\ Len(body) \in Nat
      /\ Composed(body, 0) = body
      /\ \A i \in 0..N : Composed(body, i) \in Seq(Byte)
      /\ \A i \in 1..N :
           Composed(body, i) = Returned(stages[i], Composed(body, i - 1), TRUE)
  <2>1. N \in Nat /\ N > 0 /\ body \in Seq(Byte) /\ Len(body) \in Nat
    BY CaseFacts
  <2>2. /\ Composed(body, 0) = body
        /\ \A i \in 0..N : Composed(body, i) \in Seq(Byte)
        /\ \A i \in 1..N :
             Composed(body, i) = Returned(stages[i], Composed(body, i - 1), TRUE)
    BY <2>1, ComposedIs, Zenon
  <2>. QED  BY <2>1, <2>2
<1>2. ASSUME NEW i \in 1..N, StartsWith(Composed(body, i - 1), received[i])
      PROVE  StartsWith(Composed(body, i), Made(i + 1, FALSE))
  <2>1. i - 1 \in 0..N /\ i \in 0..N /\ i + 1 # 1 /\ (i + 1) - 1 = i
    BY <1>1
  <2>2. Made(i + 1, FALSE) = Returned(stages[i], received[i], FALSE)
    BY <2>1 DEF Made
  <2>. DEFINE st == stages[i]
              s  == received[i]
              u  == Composed(body, i - 1)
  <2>3. IsStage(st) /\ s \in Seq(Byte) /\ u \in Seq(Byte) /\ StartsWith(u, s)
    BY <1>1, <1>2, <2>1, StagesAre
  <2>4. Composed(body, i) = Returned(st, u, TRUE)
    BY <1>1
  <2>. HIDE DEF st, s, u
  <2>5. StartsWith(Returned(st, u, TRUE), Returned(st, s, FALSE))
    BY <2>3, Monotone
  <2>. QED  BY <2>2, <2>4, <2>5 DEF st, s
<1>. DEFINE T == {n \in Nat : n + 1 \in 1..N =>
                    StartsWith(Composed(body, n), received[n + 1])}
<1>3. 0 \in T
  <2>1. 0 + 1 = 1 /\ 1 \in 1..N
    BY <1>1
  <2>2. received[1] = First(body, fed)
    BY <2>1 DEF Made
  <2>3. /\ First(body, fed) \in Seq(Byte) /\ Len(First(body, fed)) = fed
        /\ \A i \in 1..fed : First(body, fed)[i] = body[i]
    BY <1>1, FirstSlice
  <2>. DEFINE x == First(body, fed)
  <2>4. /\ x \in Seq(Byte) /\ Len(x) =< Len(body)
        /\ \A i \in 1..Len(x) : body[i] = x[i]
    BY <1>1, <2>3
  <2>. HIDE DEF x
  <2>5. StartsWith(body, x)
    BY <1>1, <2>4, StartsIs
  <2>. QED  BY <1>1, <2>1, <2>2, <2>5 DEF x
<1>4. ASSUME NEW n \in Nat, n \in T PROVE n + 1 \in T
  <2>. SUFFICES ASSUME (n + 1) + 1 \in 1..N
                PROVE  StartsWith(Composed(body, n + 1), received[(n + 1) + 1])
    OBVIOUS
  <2>1. n + 1 \in 1..N /\ (n + 1) - 1 = n
    BY <1>1
  <2>2. StartsWith(Composed(body, n), received[n + 1])
    BY <1>4, <2>1
  <2>3. StartsWith(Composed(body, n + 1), Made((n + 1) + 1, FALSE))
    BY <1>2, <2>1, <2>2
  <2>. QED  BY <2>3
<1>5. Nat \subseteq T
  <2>. HIDE DEF T
  <2>. QED  BY <1>3, <1>4, SetInduction
<1>6. N - 1 \in T /\ (N - 1) + 1 = N /\ N \in 1..N
  BY <1>1, <1>5
<1>7. StartsWith(Composed(body, N - 1), received[N])
  BY <1>6
<1>. QED  BY <1>2, <1>6, <1>7

(* And once every stage is finished, it is all of that.                    *)
LEMMA FlowIsAll ==
    ASSUME given \in Cases, received \in [1..N -> Seq(Byte)],
           NEW final, fed = Len(body),
           \A j \in 1..N : received[j] = Made(j, TRUE),
           final = Made(N + 1, TRUE)
    PROVE  final = Composed(body, N)
<1>1. /\ N \in Nat /\ N > 0 /\ body \in Seq(Byte) /\ Len(body) \in Nat
      /\ Composed(body, 0) = body
      /\ \A i \in 1..N :
           Composed(body, i) = Returned(stages[i], Composed(body, i - 1), TRUE)
  <2>1. N \in Nat /\ N > 0 /\ body \in Seq(Byte) /\ Len(body) \in Nat
    BY CaseFacts
  <2>2. /\ Composed(body, 0) = body
        /\ \A i \in 0..N : Composed(body, i) \in Seq(Byte)
        /\ \A i \in 1..N :
             Composed(body, i) = Returned(stages[i], Composed(body, i - 1), TRUE)
    BY <2>1, ComposedIs, Zenon
  <2>. QED  BY <2>1, <2>2
<1>2. ASSUME NEW i \in 1..N, Composed(body, i - 1) = received[i]
      PROVE  Composed(body, i) = Made(i + 1, TRUE)
  <2>1. i + 1 # 1 /\ (i + 1) - 1 = i
    BY <1>1
  <2>2. Made(i + 1, TRUE) = Returned(stages[i], received[i], TRUE)
    BY <2>1 DEF Made
  <2>. QED  BY <1>1, <1>2, <2>2
<1>. DEFINE T == {n \in Nat : n + 1 \in 1..N => Composed(body, n) = received[n + 1]}
<1>3. 0 \in T
  <2>1. 0 + 1 = 1 /\ 1 \in 1..N
    BY <1>1
  <2>2. received[1] = First(body, fed)
    BY <2>1 DEF Made
  <2>3. First(body, fed) = body
    BY <1>1 DEF First
  <2>. QED  BY <1>1, <2>1, <2>2, <2>3
<1>4. ASSUME NEW n \in Nat, n \in T PROVE n + 1 \in T
  <2>. SUFFICES ASSUME (n + 1) + 1 \in 1..N
                PROVE  Composed(body, n + 1) = received[(n + 1) + 1]
    OBVIOUS
  <2>1. n + 1 \in 1..N /\ (n + 1) - 1 = n
    BY <1>1
  <2>2. Composed(body, n) = received[n + 1]
    BY <1>4, <2>1
  <2>3. Composed(body, n + 1) = Made((n + 1) + 1, TRUE)
    BY <1>2, <2>1, <2>2
  <2>. QED  BY <2>3
<1>5. Nat \subseteq T
  <2>. HIDE DEF T
  <2>. QED  BY <1>3, <1>4, SetInduction
<1>6. N - 1 \in T /\ (N - 1) + 1 = N /\ N \in 1..N
  BY <1>1, <1>5
<1>7. Composed(body, N - 1) = received[N]
  BY <1>6
<1>. QED  BY <1>2, <1>6, <1>7

LEMMA SameComposed ==
    UNCHANGED given =>
      N' = N /\ body' = body /\ stages' = stages
        /\ Composed(body, N)' = Composed(body, N)
BY SMT DEF Composed, N, body, stages

(* A stage that has received nothing has returned nothing. *)
LEMMA ReturnedNothing ==
    ASSUME NEW st, IsStage(st)
    PROVE  Returned(st, <<>>, FALSE) = <<>>
<1>1. CASE st.mode = "buffered"
  BY <1>1, ReturnedBuffered
<1>2. CASE st.mode # "buffered"
  <2>0. <<>> \in Seq(Byte) /\ Len(<<>>) = 0
    OBVIOUS
  <2>1. PICK rest : IsRest(rest, st, <<>>, FALSE)
    BY <1>2, <2>0, ReturnedIs
  <2>2. Hits(st, <<>>, 0) = {}
    <3>1. Len(st.source) \in Nat /\ Len(st.source) > 0
      BY <1>2 DEF IsStage
    <3>. QED  BY <2>0, <3>1 DEF Hits, OccursAt
  <2>3. rest[0] = SubSeq(<<>>, 0 + 1, Len(<<>>) - HeldBack(st, FALSE))
    <3>1. \A p \in 0..Len(<<>>) : rest[p] = RestAt(st, <<>>, FALSE, p, rest)
      BY <2>1, Zenon DEF IsRest
    <3>2. 0 \in 0..Len(<<>>)
      BY <2>0
    <3>3. rest[0] = RestAt(st, <<>>, FALSE, 0, rest)
      BY <3>1, <3>2, Zenon
    <3>. QED  BY <2>2, <3>3, RestAtIs
  <2>4. rest[0] = <<>>
    <3>. DEFINE h == HeldBack(st, FALSE)
    <3>1. h \in Nat
      BY <1>2, HeldBackIs
    <3>. HIDE DEF h
    <3>2. SubSeq(<<>>, 0 + 1, Len(<<>>) - h) = <<>>
      BY <2>0, <3>1
    <3>. QED  BY <2>3, <3>2 DEF h
  <2>. QED  BY <2>1, <2>4 DEF IsRest
<1>. QED  BY <1>1, <1>2

LEMMA FlowInit == Init => FlowInv
<1>. SUFFICES ASSUME Init PROVE FlowInv
  OBVIOUS
<1>1. /\ N \in Nat /\ N > 0 /\ body \in Seq(Byte) /\ given \in Cases
  BY CaseFacts DEF Init
<1>2. <<>> \in Seq(Byte) /\ <<>> \o <<>> = <<>>
  OBVIOUS
<1>3. received \in [1..N -> Seq(Byte)] /\ \A i \in 1..N : received[i] = <<>>
  BY <1>2 DEF Init
<1>4. StartsWith(Composed(body, N), <<>>)
  <2>0. \A i \in 0..N : Composed(body, i) \in Seq(Byte)
    BY <1>1, ComposedIs, Zenon
  <2>1. Composed(body, N) \in Seq(Byte)
    BY <1>1, <2>0
  <2>. DEFINE x == Composed(body, N)
  <2>2. x \in Seq(Byte)
    BY <2>1
  <2>. HIDE DEF x
  <2>3. StartsWith(x, <<>>)
    BY <2>2, StartsEmpty
  <2>. QED  BY <2>3 DEF x
<1>5. ASSUME NEW j \in 1..(N + 1) PROVE Got(j) = Made(j, FALSE)
  <2>1. Got(j) = <<>>
    BY <1>1, <1>2, <1>3 DEF Got, Init
  <2>2. CASE j = 1
    BY <2>1, <2>2, <1>1 DEF Made, Init, First
  <2>3. CASE j # 1
    <3>1. j - 1 \in 1..N
      BY <1>1, <2>3
    <3>2. IsStage(stages[j - 1]) /\ received[j - 1] = <<>>
      BY <1>1, <1>3, <3>1, StagesAre
    <3>. QED  BY <2>1, <2>3, <3>2, ReturnedNothing DEF Made
  <2>. QED  BY <2>2, <2>3
<1>. QED  BY <1>2, <1>3, <1>4, <1>5 DEF Init, FlowInv

(* What every step of the invariant starts from. *)
LEMMA FlowFacts ==
    ASSUME CallInv, FlowInv
    PROVE  /\ given \in Cases /\ N \in Nat /\ N > 0 /\ stage \in 1..(N + 1)
           /\ body \in Seq(Byte) /\ Len(body) \in Nat /\ fed \in 0..Len(body)
           /\ received \in [1..N -> Seq(Byte)]
           /\ carry \in Seq(Byte) /\ chunk \in Seq(Byte) /\ sent \in Seq(Byte)
           /\ \A j \in 1..(N + 1) : Got(j) \in Seq(Byte)
<1>1. /\ given \in Cases /\ N \in Nat /\ N > 0 /\ stage \in 1..(N + 1)
      /\ body \in Seq(Byte) /\ Len(body) \in Nat /\ fed \in 0..Len(body)
  BY CaseFacts DEF CallInv
<1>2. /\ received \in [1..N -> Seq(Byte)]
      /\ carry \in Seq(Byte) /\ chunk \in Seq(Byte) /\ sent \in Seq(Byte)
  BY DEF FlowInv
<1>3. \A j \in 1..(N + 1) : Got(j) \in Seq(Byte)
  BY <1>1, <1>2 DEF Got
<1>. QED  BY <1>1, <1>2, <1>3

(* The filter is given bytes: they are on their way to the first stage. *)
LEMMA FlowBodyFilter ==
    ASSUME CallInv, FlowInv,
           NEW n \in {k \in given.sizes \cup {Len(body) - fed} :
                        fed + k =< Len(body)},
           NEW end_of_stream \in BOOLEAN,
           BodyFilter(n, end_of_stream)
    PROVE  FlowInv'
<1>. DEFINE c == SubSeq(body, fed + 1, fed + n)
<1>1. /\ given \in Cases /\ N \in Nat /\ N > 0
      /\ body \in Seq(Byte) /\ Len(body) \in Nat /\ fed \in 0..Len(body)
      /\ chunk = <<>> /\ sent \in Seq(Byte)
      /\ result = "running" /\ call = "idle"
  BY FlowFacts DEF FlowInv, BodyFilter
<1>2. n \in Nat /\ fed + n =< Len(body) /\ fed' = fed + n
  <2>1. given.sizes \subseteq Nat /\ Len(body) - fed \in Nat
    BY <1>1, CaseFacts
  <2>. QED  BY <2>1 DEF BodyFilter
<1>3. /\ UNCHANGED <<given, received, chunk, sent>>
      /\ N' = N /\ body' = body /\ stages' = stages
      /\ Composed(body, N)' = Composed(body, N)
  <2>1. UNCHANGED <<given, received, chunk, sent>>
    BY DEF BodyFilter, Fail
  <2>. QED  BY <2>1, SameComposed
<1>4. \A j : Got(j)' = Got(j)
  BY <1>3 DEF Got
<1>5. CASE OverLimit(n)
  <2>1. call' = "idle" /\ result' = "TooLarge" /\ carry' = carry
    BY <1>5 DEF BodyFilter, Fail
  <2>. QED  BY <1>1, <1>3, <2>1 DEF FlowInv
<1>6. CASE ~OverLimit(n)
  <2>1. call' = "push" /\ result' = result /\ stage' = 1 /\ carry' = c
    BY <1>6 DEF BodyFilter
  <2>2. c \in Seq(Byte) /\ First(body, fed) \o c = First(body, fed + n)
    <3>1. fed \in Nat /\ 0 =< fed
      BY <1>1
    <3>2. SubSeq(body, 0 + 1, fed) \o c = SubSeq(body, 0 + 1, fed + n)
      BY <1>1, <1>2, <3>1, Extend
    <3>3. c \in Seq(Byte)
      <4>1. fed + n \in Int
        BY <1>2, <3>1
      <4>. QED  BY <1>1, <1>2, <3>1, <4>1, SliceStarts
    <3>. HIDE DEF c
    <3>4. SubSeq(body, 1, fed) \o c = SubSeq(body, 1, fed + n)
      BY <3>2, 0 + 1 = 1, Zenon
    <3>. QED  BY <3>3, <3>4 DEF First
  <2>. HIDE DEF c
  <2>0. \A j \in 1..(N + 1) : Got(j) = Made(j, FALSE)
    BY <1>1 DEF FlowInv
  <2>3. Got(1)' \o carry' = Made(1, FALSE)'
    <3>1. Got(1) = First(body, fed)
      <4>1. 1 \in 1..(N + 1)
        BY <1>1
      <4>2. Got(1) = Made(1, FALSE)
        BY <2>0, <4>1, Zenon
      <4>. QED  BY <4>2 DEF Made
    <3>2. Made(1, FALSE)' = First(body, fed + n)
      BY <1>2, <1>3 DEF Made
    <3>. QED  BY <1>4, <2>1, <2>2, <3>1, <3>2
  <2>4. ASSUME NEW j \in 2..(N + 1) PROVE Got(j)' = Made(j, FALSE)'
    <3>1. Made(j, FALSE)' = Made(j, FALSE)
      <4>1. j # 1 /\ stages' = stages /\ received' = received
        BY <1>1, <1>3
      <4>. QED  BY <4>1 DEF Made
    <3>2. Got(j) = Made(j, FALSE)
      <4>1. j \in 1..(N + 1)
        BY <1>1
      <4>. QED  BY <2>0, <4>1, Zenon
    <3>. QED  BY <1>4, <3>1, <3>2
  <2>. HIDE DEF Got, Made
  <2>5. \A j \in 1..(stage' - 1) : FALSE
    BY <2>1
  <2>6. \A j \in (stage' + 1)..(N' + 1) : Got(j)' = Made(j, FALSE)'
    <3>1. stage' + 1 = 2 /\ N' = N
      BY <1>3, <2>1
    <3>. QED  BY <2>4, <3>1, Zenon
  <2>. QED  BY <1>1, <1>3, <2>1, <2>2, <2>3, <2>5, <2>6 DEF FlowInv
<1>. QED  BY <1>5, <1>6

(* The stage that is called takes what is on its way to it, and what it     *)
(* returns is on its way to the next one.                                  *)
StageTakes ==
    /\ call # "idle" /\ call' = call /\ result' = result
    /\ stage \in 1..N /\ stage' = stage + 1
    /\ UNCHANGED <<given, fed, sent, chunk>>
    /\ received' = [received EXCEPT ![stage] = received[stage] \o carry]
    /\ carry' \in Seq(Byte)
    /\ Got(stage + 1) \o carry'
         = Returned(stages[stage], received[stage] \o carry, call = "finish")

LEMMA FlowStage ==
    ASSUME CallInv, FlowInv, StageTakes
    PROVE  FlowInv'
<1>. PICK k : k = stage
  OBVIOUS
<1>. PICK last \in BOOLEAN : last = (call = "finish")
  OBVIOUS
<1>1. /\ given \in Cases /\ N \in Nat /\ N > 0 /\ k \in 1..N
      /\ received \in [1..N -> Seq(Byte)]
      /\ carry \in Seq(Byte) /\ chunk \in Seq(Byte) /\ sent \in Seq(Byte)
      /\ carry' \in Seq(Byte) /\ call # "idle" /\ stage' = k + 1
      /\ call' = call /\ result' = result /\ sent' = sent /\ chunk' = chunk
  BY FlowFacts DEF StageTakes
<1>2. /\ N' = N /\ body' = body /\ stages' = stages /\ fed' = fed
      /\ Composed(body, N)' = Composed(body, N)
  BY SameComposed DEF StageTakes
<1>3. /\ received' \in [1..N -> Seq(Byte)]
      /\ received'[k] = received[k] \o carry
      /\ \A j \in 1..N : j # k => received'[j] = received[j]
  <2>1. received[k] \o carry \in Seq(Byte)
    BY <1>1
  <2>2. received' = [received EXCEPT ![k] = received[k] \o carry]
    BY DEF StageTakes
  <2>. QED  BY <1>1, <2>1, <2>2
<1>4. /\ Got(k) \o carry = Made(k, last)
      /\ \A j \in 1..(k - 1) : Got(j) = Made(j, last)
      /\ \A j \in (k + 1)..(N + 1) : Got(j) = Made(j, FALSE)
  BY <1>1 DEF FlowInv
<1>5. ASSUME NEW j \in 1..(N + 1), j # k PROVE Got(j)' = Got(j)
  <2>1. CASE j = N + 1
    BY <1>1, <1>2, <2>1 DEF Got
  <2>2. CASE j # N + 1
    <3>1. received'[j] = received[j]
      BY <1>1, <1>3, <1>5, <2>2
    <3>. QED  BY <1>2, <2>2, <3>1 DEF Got
  <2>. QED  BY <2>1, <2>2
<1>6. Got(k)' = Got(k) \o carry
  <2>1. k # N + 1
    BY <1>1
  <2>. QED  BY <1>2, <1>3, <2>1 DEF Got
<1>7. ASSUME NEW j \in 1..(N + 1), j # k + 1, NEW b
      PROVE  Made(j, b)' = Made(j, b)
  <2>1. CASE j = 1
    BY <1>2, <2>1 DEF Made
  <2>2. CASE j # 1
    <3>1. j - 1 \in 1..N /\ j - 1 # k
      BY <1>1, <1>7, <2>2
    <3>2. received'[j - 1] = received[j - 1] /\ stages' = stages
      BY <1>2, <1>3, <3>1
    <3>. QED  BY <2>2, <3>2 DEF Made
  <2>. QED  BY <2>1, <2>2
<1>8. Made(k + 1, last)' = Returned(stages[k], received[k] \o carry, last)
  <2>1. k + 1 # 1 /\ (k + 1) - 1 = k
    BY <1>1
  <2>. QED  BY <1>1, <1>2, <1>3, <2>1 DEF Made
<1>9. Got(k + 1)' \o carry' = Made(k + 1, last)'
  <2>1. k + 1 \in 1..(N + 1) /\ k + 1 # k
    BY <1>1
  <2>2. Got(k + 1)' = Got(k + 1)
    BY <1>5, <2>1
  <2>. QED  BY <1>8, <2>2 DEF StageTakes
<1>10. ASSUME NEW j \in 1..k PROVE Got(j)' = Made(j, last)'
  <2>1. j \in 1..(N + 1) /\ j # k + 1
    BY <1>1
  <2>2. Made(j, last)' = Made(j, last)
    BY <1>1, <1>7, <2>1
  <2>3. CASE j = k
    BY <1>4, <1>6, <2>2, <2>3
  <2>4. CASE j # k
    <3>1. j \in 1..(k - 1)
      BY <1>1, <2>4
    <3>2. Got(j) = Made(j, last)
      BY <1>4, <3>1
    <3>3. Got(j)' = Got(j)
      BY <1>5, <2>1, <2>4
    <3>. QED  BY <2>2, <3>2, <3>3
  <2>. QED  BY <2>3, <2>4
<1>11. ASSUME NEW j \in (k + 2)..(N + 1) PROVE Got(j)' = Made(j, FALSE)'
  <2>1. j \in 1..(N + 1) /\ j # k + 1 /\ j # k /\ j \in (k + 1)..(N + 1)
    BY <1>1
  <2>2. Made(j, FALSE)' = Made(j, FALSE)
    BY <1>7, <2>1
  <2>3. Got(j)' = Got(j) /\ Got(j) = Made(j, FALSE)
    BY <1>4, <1>5, <2>1
  <2>. QED  BY <2>2, <2>3
<1>12. /\ stage' - 1 = k /\ stage' + 1 = k + 2 /\ stage' # 1
       /\ stage' = k + 1 /\ last = (call' = "finish")
  BY <1>1
<1>13. Got(stage)' \o carry' = Made(stage, call = "finish")'
  BY <1>9, <1>12 DEF Got, Made
<1>14. /\ \A j \in 1..(stage' - 1) : Got(j)' = Made(j, call = "finish")'
       /\ \A j \in (stage' + 1)..(N' + 1) : Got(j)' = Made(j, FALSE)'
  BY <1>2, <1>10, <1>11, <1>12 DEF Got, Made
<1>15. (StartsWith(Composed(body, N), sent))'
  BY <1>1, <1>2 DEF FlowInv
<1>. QED  BY <1>1, <1>2, <1>3, <1>12, <1>13, <1>14, <1>15 DEF FlowInv

(* An error leaves everything where it is. *)
LEMMA FlowFail ==
    ASSUME CallInv, FlowInv, NEW error, error \notin {"running", "done"},
           Fail(error), received' = received
    PROVE  FlowInv'
<1>1. /\ UNCHANGED <<given, carry, chunk, sent>>
      /\ result' = error /\ call' = "idle"
  BY DEF Fail
<1>2. N' = N /\ Composed(body, N)' = Composed(body, N)
  BY <1>1, SameComposed
<1>. QED  BY <1>1, <1>2 DEF FlowInv

LEMMA FlowPushStage ==
    ASSUME CallInv, FlowInv, PushStage
    PROVE  FlowInv'
<1>. DEFINE st  == stages[stage]
            old == received[stage]
            all == received[stage] \o carry
<1>1. /\ given \in Cases /\ N \in Nat /\ N > 0 /\ call = "push" /\ stage \in 1..N
      /\ received \in [1..N -> Seq(Byte)] /\ carry \in Seq(Byte)
  BY FlowFacts DEF PushStage
<1>2. CASE /\ Fail(IF ended[stage] THEN "AlreadyFinished" ELSE "InvalidUtf8")
           /\ UNCHANGED received
  BY <1>2, FlowFail
<1>3. CASE /\ received' = [received EXCEPT ![stage] = @ \o carry]
           /\ carry' = StagePush(stage, carry)
           /\ stage' = stage + 1
           /\ UNCHANGED <<given, call, last_call, chunk, result, sent>>
  <2>1. /\ IsStage(st) /\ old \in Seq(Byte) /\ all \in Seq(Byte)
    BY <1>1, StagesAre
  <2>2. StartsWith(all, old)
    BY <1>1, <2>1, PrefixOfConcat
  <2>3. carry' = From(Returned(st, all, FALSE), Len(Returned(st, old, FALSE)))
    BY <1>3 DEF StagePush
  <2>4. Got(stage + 1) = Returned(st, old, FALSE)
    <3>1. stage + 1 \in (stage + 1)..(N + 1) /\ stage + 1 # 1 /\ (stage + 1) - 1 = stage
      BY <1>1
    <3>2. Got(stage + 1) = Made(stage + 1, FALSE)
      BY <1>1, <3>1 DEF FlowInv
    <3>. QED  BY <3>1, <3>2 DEF Made
  <2>. HIDE DEF st, old, all
  <2>5. /\ carry' \in Seq(Byte)
        /\ Returned(st, all, FALSE) = Returned(st, old, FALSE) \o carry'
    BY <2>1, <2>2, <2>3, ReturnedGrows
  <2>6. Got(stage + 1) \o carry' = Returned(st, all, call = "finish")
    <3>1. (call = "finish") = FALSE
      BY <1>1
    <3>. QED  BY <2>4, <2>5, <3>1
  <2>7. UNCHANGED fed
    BY DEF PushStage
  <2>8. StageTakes
    BY <1>1, <1>3, <2>5, <2>6, <2>7 DEF StageTakes, st, all
  <2>. QED  BY <2>8, FlowStage
<1>. QED  BY <1>2, <1>3 DEF PushStage

LEMMA FlowFinishStage ==
    ASSUME CallInv, FlowInv, FinishStage
    PROVE  FlowInv'
<1>. DEFINE st   == stages[stage]
            old  == received[stage]
            all  == received[stage] \o carry
            more == From(Returned(st, all, FALSE), Len(Returned(st, old, FALSE)))
            end  == From(Returned(st, all, TRUE), Len(Returned(st, all, FALSE)))
<1>1. /\ given \in Cases /\ N \in Nat /\ N > 0 /\ call = "finish" /\ stage \in 1..N
      /\ received \in [1..N -> Seq(Byte)] /\ carry \in Seq(Byte)
  BY FlowFacts DEF FinishStage
<1>2. CASE /\ Fail(IF ended[stage] THEN "AlreadyFinished" ELSE "InvalidUtf8")
           /\ UNCHANGED received
  BY <1>2, FlowFail
<1>3. CASE /\ received' = [received EXCEPT ![stage] = all]
           /\ carry' = StagePush(stage, carry) \o StageFinish(stage, all)
           /\ stage' = stage + 1
           /\ UNCHANGED <<given, call, last_call, chunk, result, sent>>
  <2>1. /\ IsStage(st) /\ old \in Seq(Byte) /\ all \in Seq(Byte)
    BY <1>1, StagesAre
  <2>2. StartsWith(all, old) /\ StartsWith(all, all)
    <3>1. StartsWith(all, old)
      BY <1>1, <2>1, PrefixOfConcat
    <3>. HIDE DEF all, old
    <3>2. StartsWith(all, all)
      BY <2>1, StartsIs
    <3>. QED  BY <3>1, <3>2
  <2>3. carry' = more \o end
    BY <1>3 DEF StagePush, StageFinish
  <2>4. Got(stage + 1) = Returned(st, old, FALSE)
    <3>1. stage + 1 \in (stage + 1)..(N + 1) /\ stage + 1 # 1 /\ (stage + 1) - 1 = stage
      BY <1>1
    <3>2. Got(stage + 1) = Made(stage + 1, FALSE)
      BY <1>1, <3>1 DEF FlowInv
    <3>. QED  BY <3>1, <3>2 DEF Made
  <2>. HIDE DEF st, old, all
  <2>5. /\ more \in Seq(Byte)
        /\ Returned(st, all, FALSE) = Returned(st, old, FALSE) \o more
    BY <2>1, <2>2, ReturnedGrows
  <2>6. /\ end \in Seq(Byte)
        /\ Returned(st, all, TRUE) = Returned(st, all, FALSE) \o end
    BY <2>1, <2>2, ReturnedGrows
  <2>7. Returned(st, old, FALSE) \in Seq(Byte)
    BY <2>1, ReturnedType
  <2>. DEFINE x == Returned(st, old, FALSE)
  <2>. HIDE DEF more, end
  <2>8. Returned(st, all, TRUE) = x \o carry' /\ carry' \in Seq(Byte)
    <3>1. x \in Seq(Byte) /\ Returned(st, all, TRUE) = (x \o more) \o end
      BY <2>5, <2>6, <2>7
    <3>. HIDE DEF x
    <3>2. (x \o more) \o end = x \o (more \o end) /\ more \o end \in Seq(Byte)
      <4>1. Regroups(Byte, x, more, end)
        BY <2>5, <2>6, <3>1, Reassociate
      <4>. QED  BY ONLY <4>1, Zenon DEF Regroups
    <3>. QED  BY <2>3, <3>1, <3>2
  <2>9. Got(stage + 1) \o carry' = Returned(st, all, call = "finish")
    <3>1. (call = "finish") = TRUE
      BY <1>1
    <3>. QED  BY <2>4, <2>8, <3>1
  <2>10. UNCHANGED fed
    BY DEF FinishStage
  <2>11. StageTakes
    BY <1>1, <1>3, <2>8, <2>9, <2>10 DEF StageTakes, st, all
  <2>. QED  BY <2>11, FlowStage
<1>. QED  BY <1>2, <1>3 DEF FinishStage

LEMMA FlowPushReturns ==
    ASSUME CallInv, FlowInv, PushReturns
    PROVE  FlowInv'
<1>1. /\ given \in Cases /\ N \in Nat /\ N > 0 /\ call = "push" /\ stage = N + 1
      /\ fed \in 0..Len(body)
      /\ received \in [1..N -> Seq(Byte)] /\ carry \in Seq(Byte)
      /\ sent \in Seq(Byte) /\ chunk = <<>> /\ result = "running"
  <2>1. call = "push" /\ stage > N /\ result = "running"
    BY DEF PushReturns, CallInv
  <2>2. chunk = <<>>
    BY <2>1 DEF FlowInv
  <2>. QED  BY <2>1, <2>2, FlowFacts
<1>. PICK m : m = N + 1
  OBVIOUS
<1>2. /\ UNCHANGED <<given, fed, received, result>>
      /\ N' = N /\ body' = body /\ stages' = stages
      /\ Composed(body, N)' = Composed(body, N)
  BY SameComposed DEF PushReturns
<1>3. \A j, b : Made(j, b)' = Made(j, b)
  BY <1>2 DEF Made
<1>4. /\ Got(m) \o carry = Made(m, FALSE)
      /\ \A j \in 1..N : Got(j) = Made(j, FALSE)
  <2>1. stage - 1 = N
    BY <1>1
  <2>. QED  BY <1>1, <2>1 DEF FlowInv
<1>5. /\ sent \o carry \in Seq(Byte)
      /\ sent \o carry = Made(m, FALSE)
  <2>1. sent \o chunk = sent
    BY <1>1
  <2>2. Got(m) = sent
    BY <2>1 DEF Got
  <2>3. sent \o carry \in Seq(Byte)
    BY <1>1
  <2>. QED  BY <1>4, <2>2, <2>3
<1>6. \A j \in 1..N : Got(j)' = Got(j) /\ Got(j) = received[j]
  <2>1. \A j \in 1..N : j # N + 1
    BY <1>1
  <2>. QED  BY <1>2, <2>1 DEF Got
<1>7. StartsWith(Composed(body, N), sent \o carry)
  <2>1. \A j \in 1..N : received[j] = Made(j, FALSE)
    BY <1>4, <1>6
  <2>. QED  BY <1>1, <1>5, <2>1, FlowIsBeginning
<1>8. CASE last_call
  <2>1. /\ call' = "finish" /\ stage' = 1 /\ chunk' = carry /\ carry' = <<>>
        /\ sent' = sent
    BY <1>8 DEF PushReturns
  <2>2. Got(m)' = Made(m, FALSE)
    BY <1>2, <1>5, <2>1 DEF Got
  <2>3. (Got(stage) \o carry)' = Made(stage, call = "finish")'
    <3>1. 1 \in 1..N
      BY <1>1
    <3>2. Got(1)' = First(body, fed)
      BY <1>4, <1>6, <3>1 DEF Made
    <3>3. Got(1)' = received[1] /\ received[1] \in Seq(Byte)
      BY <1>1, <1>6, <3>1
    <3>4. Got(stage)' = Got(1)' /\ stage' = 1
      BY <2>1 DEF Got
    <3>5. received[1] \o <<>> = received[1]
      BY <3>3
    <3>6. Got(stage)' \o carry' = First(body, fed)
      BY <2>1, <3>2, <3>3, <3>4, <3>5
    <3>7. Made(stage, call = "finish")' = First(body, fed)
      BY <1>2, <2>1 DEF Made
    <3>. QED  BY <3>6, <3>7
  <2>4. \A j \in (stage' + 1)..(N' + 1) : Got(j)' = Made(j, FALSE)'
    <3>1. ASSUME NEW j \in (stage' + 1)..(N' + 1) PROVE Got(j)' = Made(j, FALSE)'
      <4>1. CASE j = m
        BY <1>3, <2>2, <4>1
      <4>2. CASE j # m
        <5>1. j \in 1..N
          BY <1>1, <1>2, <2>1, <4>2
        <5>. QED  BY <1>3, <1>4, <1>6, <5>1
      <4>. QED  BY <4>1, <4>2
    <3>. QED  BY <3>1
  <2>5. \A j \in 1..(stage' - 1) : FALSE
    BY <2>1
  <2>6. <<>> \in Seq(Byte)
    OBVIOUS
  <2>7. (StartsWith(Composed(body, N), sent))'
    BY <1>2, <2>1 DEF FlowInv
  <2>. QED  BY <1>1, <1>2, <2>1, <2>3, <2>4, <2>5, <2>6, <2>7 DEF FlowInv
<1>9. CASE ~last_call
  <2>1. /\ call' = "idle" /\ sent' = sent \o carry
        /\ UNCHANGED <<stage, chunk, carry>>
    BY <1>9 DEF PushReturns
  <2>2. Got(m)' = sent \o carry
    <3>1. (sent \o carry) \o <<>> = sent \o carry
      BY <1>5
    <3>. QED  BY <1>1, <1>2, <2>1, <3>1 DEF Got
  <2>3. ASSUME NEW j \in 1..(N' + 1) PROVE Got(j)' = Made(j, FALSE)'
    <3>1. CASE j = m
      BY <1>3, <1>5, <2>2, <3>1
    <3>2. CASE j # m
      <4>1. j \in 1..N
        BY <1>1, <1>2, <3>2
      <4>. QED  BY <1>3, <1>4, <1>6, <4>1
    <3>. QED  BY <3>1, <3>2
  <2>4. (StartsWith(Composed(body, N), sent))'
    BY <1>2, <1>7, <2>1
  <2>. QED  BY <1>1, <1>2, <1>5, <2>1, <2>3, <2>4 DEF FlowInv
<1>. QED  BY <1>8, <1>9

LEMMA FlowFinishReturns ==
    ASSUME CallInv, FlowInv, FinishReturns
    PROVE  FlowInv'
<1>1. /\ given \in Cases /\ N \in Nat /\ N > 0 /\ call = "finish" /\ stage = N + 1
      /\ fed = Len(body)
      /\ received \in [1..N -> Seq(Byte)] /\ carry \in Seq(Byte)
      /\ sent \in Seq(Byte) /\ chunk \in Seq(Byte)
  <2>1. stage =< N + 1
    BY FlowFacts
  <2>. QED  BY <2>1, FlowFacts DEF FinishReturns, CallInv
<1>2. /\ UNCHANGED <<given, received, chunk, carry>>
      /\ call' = "idle" /\ result' = "done" /\ sent' = sent \o chunk \o carry
      /\ N' = N /\ Composed(body, N)' = Composed(body, N)
  BY SameComposed DEF FinishReturns
<1>3. /\ Got(N + 1) \o carry = Made(N + 1, TRUE)
      /\ \A j \in 1..N : Got(j) = Made(j, TRUE)
  <2>1. stage - 1 = N /\ (call = "finish") = TRUE
    BY <1>1
  <2>. QED  BY <1>1, <2>1 DEF FlowInv
<1>4. \A j \in 1..N : received[j] = Made(j, TRUE)
  <2>1. \A j \in 1..N : j # N + 1
    BY <1>1
  <2>. QED  BY <1>3, <2>1 DEF Got
<1>5. sent' = Made(N + 1, TRUE)
  BY <1>2, <1>3 DEF Got
<1>6. sent' = Composed(body, N)
  BY <1>1, <1>4, <1>5, FlowIsAll
<1>7. sent' \in Seq(Byte)
  BY <1>1, <1>2
<1>8. StartsWith(sent', sent')
  BY <1>7, StartsIs
<1>. QED  BY <1>1, <1>2, <1>6, <1>7, <1>8 DEF FlowInv

LEMMA FlowInvariant == Spec => []FlowInv
<1>1. CallInv /\ FlowInv /\ [Next]_vars => FlowInv'
  <2>. SUFFICES ASSUME CallInv, FlowInv, [Next]_vars PROVE FlowInv'
    OBVIOUS
  <2>1. CASE UNCHANGED vars
    <3>1. N' = N /\ Composed(body, N)' = Composed(body, N) /\ body' = body
          /\ stages' = stages
      BY <2>1, SameComposed DEF vars
    <3>. QED  BY <2>1, <3>1 DEF FlowInv, vars, Got, Made
  <2>. QED  BY <2>1, FlowBodyFilter, FlowPushStage, FlowPushReturns, FlowFinishStage,
               FlowFinishReturns DEF Next
<1>. QED  BY <1>1, FlowInit, CallInvariant, PTL DEF Spec

(* Whatever the stages are and however the body is cut, what the client is  *)
(* sent is what the stages would make of it one after the other: all of it  *)
(* when the filter is done, and a beginning of it at any other time, also   *)
(* when an error ends the request.  The byte that a chunk cuts a source at, *)
(* the tails that finish pushes on and the order it does so in have no part *)
(* in it.                                                                  *)
THEOREM OutputCorrect == Spec => []OutputIsComposed
<1>1. FlowInv => OutputIsComposed
  BY DEF FlowInv, OutputIsComposed
<1>. QED  BY <1>1, FlowInvariant, PTL

(* Of a page with window._mig_meta, what the client gets is what the        *)
(* literal stages have made of it with the documents replaced in exactly   *)
(* the assignments that have the original one, for every page: the scan    *)
(* finds the assignments that are not in the value of another one.         *)
THEOREM MigMetaCorrect == Spec => []MigMetaIsRewritten
<1>1. CallInv /\ FlowInv => MigMetaIsRewritten
  <2>. SUFFICES ASSUME CallInv, FlowInv, result = "done",
                       stages[N].mode = "buffered"
                PROVE  sent = WithDesiredUri(Composed(body, N - 1))
    BY DEF MigMetaIsRewritten
  <2>1. given \in Cases /\ N \in Nat \ {0} /\ body \in Seq(Byte)
    BY CaseFacts DEF CallInv
  <2>2. N \in 1..N /\ N - 1 \in 0..N
    BY <2>1
  <2>3. /\ Composed(body, N - 1) \in Seq(Byte)
        /\ Composed(body, N) = Returned(stages[N], Composed(body, N - 1), TRUE)
    BY <2>1, <2>2, ComposedIs
  <2>4. Composed(body, N) = RewriteMigMeta(Composed(body, N - 1))
    BY <2>3, ReturnedBuffered
  <2>5. sent = Composed(body, N)
    BY DEF FlowInv
  <2>. QED  BY <2>3, <2>4, <2>5, MigMetaIs
<1>. QED  BY <1>1, CallInvariant, FlowInvariant, PTL

-----------------------------------------------------------------------------
(* Text through the stages                                                 *)

(* What the configuration can make of a stage: what it looks for and what   *)
(* it inserts are ASCII.                                                   *)
IsAsciiStage(st) ==
    IsStage(st) /\ st.inserted \in Seq(Ascii) /\ st.source \in Seq(Ascii)

LEMMA StagesAreAscii ==
    ASSUME given \in Cases, NEW i \in 1..N
    PROVE  IsAsciiStage(stages[i])
<1>. DEFINE st == given.stages[i]
<1>1. st.inserted \in Seq(Ascii) /\ st.source \in Seq(Ascii)
  BY CasesAssumption DEF N, stages
<1>2. IsStage(stages[i])
  BY StagesAre
<1>. QED  BY <1>1, <1>2 DEF IsAsciiStage, stages

LEMMA DecidedText ==
    ASSUME NEW st, IsAsciiStage(st), st.mode # "buffered", NEW s, NEW q
    PROVE  Decided(st, s, q) \in Seq(Byte) /\ Text(Decided(st, s, q))
<1>. DEFINE d == Decided(st, s, q)
<1>1. d \in Seq(Ascii)
  <2>1. /\ st.mode \in {"prepend", "exact", "append"}
        /\ st.inserted \in Seq(Ascii) /\ st.source \in Seq(Ascii)
    BY DEF IsAsciiStage, IsStage
  <2>2. Replacement(st) \in Seq(Ascii)
    BY <2>1 DEF Replacement
  <2>. QED  BY <2>1, <2>2 DEF Decided
<1>. HIDE DEF d
<1>2. \A i \in 1..Len(d) : d[i] \in Ascii
  BY <1>1
<1>3. d \in Seq(Byte)
  BY <1>1 DEF Byte
<1>. QED  BY <1>2, <1>3, AsciiIsText DEF d

(* A source that occurs begins and ends between two characters.            *)
LEMMA HitBoundary ==
    ASSUME NEW st, IsAsciiStage(st), st.mode # "buffered",
           NEW s \in Seq(Byte), Fits(s), NEW q \in 0..Len(s), OccursAt(s, q, st.source)
    PROVE  /\ Text(First(s, q)) /\ Fits(From(s, q))
           /\ q + Len(st.source) \in 0..Len(s)
           /\ Text(First(s, q + Len(st.source)))
<1>. DEFINE k == Len(st.source)
            e == q + k
<1>1. k \in Nat /\ k > 0 /\ \A i \in 1..k : st.source[i] \in Ascii
  BY DEF IsAsciiStage, IsStage
<1>2. e =< Len(s) /\ \A i \in 1..k : s[q + i] = st.source[i]
  BY DEF OccursAt
<1>3. 1 \in 1..k /\ k \in 1..k
  BY <1>1
<1>4. s[q + 1] \in Ascii /\ s[e] \in Ascii
  BY <1>1, <1>2, <1>3
<1>5. s[q + 1] \notin Trail
  BY <1>4, Utf8Assumption
<1>. HIDE DEF k
<1>6. q < Len(s) /\ e \in 0..Len(s) /\ e > 0 /\ Len(s) \in Nat
  BY <1>1, <1>2
<1>. HIDE DEF e
<1>7. Text(First(s, q)) /\ Fits(From(s, q))
  BY <1>5, <1>6, BoundaryBefore
<1>8. Text(First(s, e))
  BY <1>4, <1>6, BoundaryBefore
<1>. QED  BY <1>6, <1>7, <1>8 DEF e, k

(* What a literal stage returns for the rest of what it has received.      *)
LEMMA RestAtText ==
    ASSUME NEW st, IsAsciiStage(st), st.mode # "buffered",
           NEW s \in Seq(Byte), Fits(s), NEW at_end \in BOOLEAN,
           NEW p \in 0..Len(s), NEW rest \in [0..Len(s) -> Seq(Byte)],
           Text(First(s, p)),
           \A q \in (p + 1)..Len(s) : Text(First(s, q)) =>
             Fits(rest[q]) /\ (at_end /\ Text(s) => Text(rest[q]))
    PROVE  LET r == RestAt(st, s, at_end, p, rest)
           IN  r \in Seq(Byte) /\ Fits(r) /\ (at_end /\ Text(s) => Text(r))
<1>. DEFINE r == RestAt(st, s, at_end, p, rest)
            q == Leftmost(Hits(st, s, p))
            e == q + Len(st.source)
            y == From(s, p)
<1>0. IsStage(st) /\ Len(s) \in Nat /\ p \in Nat /\ p =< Len(s)
  BY DEF IsAsciiStage
<1>1. r \in Seq(Byte)
  BY <1>0, RestAtType
<1>2. y \in Seq(Byte) /\ Fits(y) /\ (Text(s) => Text(y))
  <2>. DEFINE t == First(s, p)
  <2>1. t \in Seq(Byte) /\ y \in Seq(Byte) /\ s = t \o y /\ Text(t)
    BY FirstAndRest
  <2>. HIDE DEF t, y
  <2>2. (Fits(y) <=> Fits(t \o y)) /\ (Text(y) <=> Text(t \o y))
    BY <2>1, TextJoined
  <2>. QED  BY <2>1, <2>2
<1>3. ASSUME NEW n \in p..Len(s) PROVE Fits(SubSeq(s, p + 1, n))
  <2>. DEFINE x == SubSeq(s, p + 1, n)
  <2>1. x \in Seq(Byte) /\ From(s, n) \in Seq(Byte) /\ y = x \o From(s, n)
    BY RestOf
  <2>. HIDE DEF x, y
  <2>2. StartsWith(y, x)
    BY <2>1, PrefixOfConcat
  <2>3. Fits(x)
    BY <1>2, <2>1, <2>2, FitsStart
  <2>. QED  BY <2>3 DEF x
<1>4. CASE Hits(st, s, p) = {}
  <2>. DEFINE h == HeldBack(st, at_end)
              n == Len(s) - h
  <2>1. r = SubSeq(s, p + 1, n)
    BY <1>4, RestAtIs
  <2>2. h \in Nat
    BY <1>0, HeldBackIs
  <2>3. CASE at_end
    <3>1. n = Len(s)
      BY <1>0, <2>3 DEF HeldBack
    <3>2. r = y
      BY <2>1, <3>1 DEF From
    <3>. QED  BY <1>1, <1>2, <3>2
  <2>4. CASE ~at_end
    <3>. HIDE DEF h, r
    <3>1. CASE n >= p
      <4>1. n \in p..Len(s)
        BY <1>0, <2>2, <3>1
      <4>. QED  BY <1>1, <1>3, <2>1, <2>4, <4>1 DEF r
    <3>2. CASE ~(n >= p)
      <4>1. n \in Int /\ n < p + 1
        BY <1>0, <2>2, <3>2
      <4>2. SubSeq(s, p + 1, n) = <<>>
        <5>. HIDE DEF n
        <5>. QED  BY <1>0, <4>1
      <4>3. Fits(<<>>)
        BY NoText DEF Text
      <4>. QED  BY <1>1, <2>1, <2>4, <4>2, <4>3 DEF r
    <3>. QED  BY <3>1, <3>2
  <2>. QED  BY <2>3, <2>4
<1>5. CASE Hits(st, s, p) # {}
  <2>1. q \in p..Len(s) /\ OccursAt(s, q, st.source) /\ e \in (p + 1)..Len(s)
    BY <1>0, <1>5, HitIs
  <2>2. r = IF StopsAt(st, s, at_end, q) THEN SubSeq(s, p + 1, q)
            ELSE SubSeq(s, p + 1, q) \o Decided(st, s, q) \o rest[e]
    BY <1>5, RestAtIs
  <2>. HIDE DEF q, r
  <2>3. q \in 0..Len(s)
    BY <1>0, <2>1
  <2>4. Text(First(s, q)) /\ Text(First(s, e))
    BY <2>1, <2>3, HitBoundary
  <2>5. CASE StopsAt(st, s, at_end, q)
    <3>1. ~at_end /\ r = SubSeq(s, p + 1, q)
      BY <2>2, <2>5 DEF StopsAt
    <3>. QED  BY <1>1, <1>3, <2>1, <3>1 DEF r
  <2>6. CASE ~StopsAt(st, s, at_end, q)
    <3>. DEFINE x == SubSeq(s, p + 1, q)
                d == Decided(st, s, q)
                z == rest[e]
    <3>. HIDE DEF e
    <3>1. x \in Seq(Byte) /\ Text(x)
      <4>1. Text(x)
        BY <2>1, <2>4, TextBetween
      <4>2. x \in Seq(Byte)
        BY <1>0, <2>1
      <4>. QED  BY <4>1, <4>2
    <3>2. d \in Seq(Byte) /\ Text(d)
      BY DecidedText
    <3>3. z \in Seq(Byte) /\ Fits(z) /\ (at_end /\ Text(s) => Text(z))
      <4>1. e \in 0..Len(s)
        BY <1>0, <2>1
      <4>. QED  BY <2>1, <2>4, <4>1
    <3>4. r = (x \o d) \o z
      BY <2>2, <2>6
    <3>. HIDE DEF x, d, z
    <3>5. x \o d \in Seq(Byte) /\ Text(x \o d)
      BY <3>1, <3>2, TextJoined
    <3>6. (Fits(z) <=> Fits((x \o d) \o z)) /\ (Text(z) <=> Text((x \o d) \o z))
      BY <3>3, <3>5, TextJoined
    <3>. QED  BY <1>1, <3>3, <3>4, <3>6 DEF r
  <2>. QED  BY <2>5, <2>6
<1>. QED  BY <1>4, <1>5

(* The document that is replaced stands behind a name, an equals sign and a *)
(* quote.                                                                  *)
LEMMA ReplacedIsBehind ==
    ASSUME NEW s \in Seq(Byte), NEW i \in 1..Len(s), IsReplaced(s, i)
    PROVE  i >= 3 /\ s[i] \in DOMAIN BaseUri
<1>1. PICK a \in Assignments(s) : Opens(s, a, i - 2) /\ s[i] \in DOMAIN BaseUri
  BY DEF IsReplaced
<1>2. a \in 0..(Len(s) - 1)
  BY AssignmentIs
<1>3. \E e \in (a + 1)..(i - 2 - 1) : TRUE
  BY <1>1 DEF Opens
<1>. QED  BY <1>1, <1>2, <1>3

LEMMA DesiredText ==
    ASSUME NEW s \in Seq(Byte), Text(s)
    PROVE  Text(RewriteMigMeta(s))
<1>. DEFINE w == WithDesiredUri(s)
<1>1. /\ w \in Seq(Byte) /\ Len(w) = Len(s)
      /\ \A i \in 1..Len(s) :
           /\ ~IsReplaced(s, i) => w[i] = s[i]
           /\ i >= 3 /\ IsReplaced(s, i) => w[i] = Rebased[s[i]]
  BY DesiredIs
<1>. HIDE DEF w
<1>2. ASSUME NEW i \in 1..Len(s) PROVE w[i] = s[i] \/ (w[i] \in Ascii /\ s[i] \in Ascii)
  <2>1. CASE ~IsReplaced(s, i)
    BY <1>1, <2>1
  <2>2. CASE IsReplaced(s, i)
    <3>1. s[i] \in DOMAIN BaseUri /\ w[i] = Rebased[s[i]]
      BY <1>1, <2>2, ReplacedIsBehind
    <3>2. Rebased[s[i]] \in DOMAIN BaseUri /\ DOMAIN BaseUri \subseteq Ascii
      BY <3>1, MetadataAssumption, SymbolsAssumption
    <3>. QED  BY <3>1, <3>2
  <2>. QED  BY <2>1, <2>2
<1>3. Text(w)
  BY <1>1, <1>2, AsciiReplaced
<1>. QED  BY <1>3, MigMetaIs DEF w

(* Of what begins a text a stage makes what begins one; of a text, at the   *)
(* end, a text.                                                            *)
LEMMA ReturnedText ==
    ASSUME NEW st, IsAsciiStage(st), NEW s \in Seq(Byte)
    PROVE  /\ Fits(s) => Fits(Returned(st, s, FALSE))
           /\ Text(s) => Text(Returned(st, s, TRUE))
<1>0. IsStage(st)
  BY DEF IsAsciiStage
<1>1. CASE st.mode = "buffered"
  <2>1. Fits(<<>>)
    BY NoText DEF Text
  <2>. QED  BY <1>1, <2>1, DesiredText, ReturnedBuffered
<1>2. CASE st.mode # "buffered"
  <2>1. ASSUME NEW at_end \in BOOLEAN, Fits(s)
        PROVE  /\ Fits(Returned(st, s, at_end))
               /\ at_end /\ Text(s) => Text(Returned(st, s, at_end))
    <3>1. PICK rest : IsRest(rest, st, s, at_end)
      BY <1>0, <1>2, ReturnedIs
    <3>2. /\ rest \in [0..Len(s) -> Seq(Byte)]
          /\ \A p \in 0..Len(s) : rest[p] = RestAt(st, s, at_end, p, rest)
          /\ Returned(st, s, at_end) = rest[0]
      BY <3>1 DEF IsRest
    <3>. DEFINE l == Len(s)
                T == {p \in 0..l : Text(First(s, p)) =>
                        Fits(rest[p]) /\ (at_end /\ Text(s) => Text(rest[p]))}
    <3>3. ASSUME NEW p \in 0..l, \A q \in (p + 1)..l : q \in T PROVE p \in T
      <4>. SUFFICES ASSUME Text(First(s, p))
                    PROVE  Fits(rest[p]) /\ (at_end /\ Text(s) => Text(rest[p]))
        OBVIOUS
      <4>1. \A q \in (p + 1)..Len(s) : Text(First(s, q)) =>
               Fits(rest[q]) /\ (at_end /\ Text(s) => Text(rest[q]))
        BY <3>3
      <4>. DEFINE r == RestAt(st, s, at_end, p, rest)
      <4>2. Fits(r) /\ (at_end /\ Text(s) => Text(r))
        BY <1>2, <2>1, <3>2, <4>1, RestAtText
      <4>. QED  BY <3>2, <4>2
    <3>4. 0..l \subseteq T
      <4>1. l \in Nat
        OBVIOUS
      <4>. HIDE DEF T, l
      <4>. QED  BY <3>3, <4>1, DownwardInduction
    <3>5. 0 \in 0..l
      OBVIOUS
    <3>6. Text(First(s, 0))
      BY <2>1, <3>5, BoundaryBefore
    <3>. QED  BY <3>2, <3>4, <3>5, <3>6
  <2>2. Text(s) => Fits(s)
    BY DEF Text
  <2>. QED  BY <2>1, <2>2
<1>. QED  BY <1>1, <1>2

(* What has arrived at each stage begins a text, and is one once the stage  *)
(* is finished; a literal stage holds back the beginning of the last       *)
(* character.  Only the first stage has anything to refuse.                *)
TextInv ==
    /\ DOMAIN utf8_tail = 1..N
    /\ \A j \in 1..N :
         /\ Fits(received[j])
         /\ utf8_tail[j] # <<>> => IsPartOfCharacter(utf8_tail[j])
         /\ result = "running" /\ stages[j].mode # "buffered" =>
              Held(received[j], utf8_tail[j])
    /\ call = "finish" => \A j \in 1..(stage - 1) : Text(received[j])
    /\ result = "InvalidUtf8" =>
         stage = 1 /\ ~Text(body) /\ (~Fits(First(body, fed)) \/ last_call)
    /\ result = "done" => Text(body)

(* What has been given to the filter is a beginning of the body. *)
LEMMA FedIs ==
    ASSUME body \in Seq(Byte), fed \in 0..Len(body)
    PROVE  /\ First(body, fed) \in Seq(Byte)
           /\ Fits(body) => Fits(First(body, fed))
           /\ fed = Len(body) => First(body, fed) = body
<1>. DEFINE t == First(body, fed)
            y == From(body, fed)
<1>1. t \in Seq(Byte) /\ y \in Seq(Byte) /\ body = t \o y
  BY FirstAndRest
<1>. HIDE DEF t, y
<1>2. StartsWith(t \o y, t)
  BY <1>1, PrefixOfConcat
<1>3. Fits(body) => Fits(t)
  BY <1>1, <1>2, FitsStart
<1>. QED  BY <1>1, <1>3, RestOfAll DEF t

(* What the check of a stage says of what is carried to it. *)
LEMMA StageChecks ==
    ASSUME CallInv, FlowInv, TextInv, call # "idle", stage \in 1..N
    PROVE  LET v   == Checked(stage, carry)
               all == received[stage] \o carry
           IN  /\ v.valid \in BOOLEAN
               /\ v.tail # <<>> => IsPartOfCharacter(v.tail)
               /\ v.valid => Fits(all)
               /\ v.valid /\ stages[stage].mode # "buffered" => Held(all, v.tail)
               /\ ~v.valid =>
                    stage = 1 /\ ~Text(body) /\ ~Fits(First(body, fed))
               /\ call = "finish" /\ v.tail # <<>> => stage = 1 /\ ~Text(body)
               /\ call = "finish" /\ v.valid /\ v.tail = <<>> => Text(all)
<1>. PICK k \in 1..N : k = stage
  OBVIOUS
<1>. DEFINE v   == Checked(k, carry)
            s   == received[k]
            all == s \o carry
            st  == stages[k]
<1>1. /\ given \in Cases /\ N \in Nat /\ N > 0 /\ body \in Seq(Byte)
      /\ fed \in 0..Len(body) /\ carry \in Seq(Byte) /\ result = "running"
      /\ received \in [1..N -> Seq(Byte)] /\ s \in Seq(Byte)
  BY FlowFacts DEF CallInv
<1>2. all \in Seq(Byte)
  BY <1>1
<1>3. all = Made(k, call = "finish")
  <2>1. Got(k) = s
    BY <1>1 DEF Got
  <2>. QED  BY <2>1 DEF FlowInv
<1>4. st.mode # "buffered" => Held(s, utf8_tail[k])
  BY <1>1 DEF TextInv
<1>5. k = 1 => all = First(body, fed) /\ st.mode # "buffered"
  <2>1. given.stages[1].mode # "buffered"
    BY <1>1, CasesAssumption
  <2>. QED  BY <1>3, <2>1 DEF Made, stages
<1>6. call = "finish" => fed = Len(body)
  BY DEF CallInv
<1>7. ASSUME k # 1 PROVE Fits(all) /\ (call = "finish" => Text(all))
  <2>. DEFINE i == k - 1
  <2>1. i \in 1..N /\ i \in 1..(stage - 1)
    BY <1>1, <1>7
  <2>2. /\ IsAsciiStage(stages[i]) /\ received[i] \in Seq(Byte) /\ Fits(received[i])
        /\ call = "finish" => Text(received[i])
    BY <1>1, <2>1, StagesAreAscii DEF TextInv
  <2>3. all = Returned(stages[i], received[i], call = "finish")
    BY <1>3, <1>7 DEF Made
  <2>. HIDE DEF all, i
  <2>4. CASE call = "finish"
    <3>1. all = Returned(stages[i], received[i], TRUE)
      BY <2>3, <2>4
    <3>2. Text(all)
      BY <2>2, <2>4, <3>1, ReturnedText
    <3>. QED  BY <3>2 DEF Text, all
  <2>5. CASE call # "finish"
    <3>1. all = Returned(stages[i], received[i], FALSE)
      BY <2>3, <2>5
    <3>2. Fits(all)
      BY <2>2, <3>1, ReturnedText
    <3>. QED  BY <2>5, <3>2 DEF all
  <2>. QED  BY <2>4, <2>5
<1>8. Text(body) => Fits(body)
  BY DEF Text
<1>9. CASE st.mode = "buffered"
  <2>1. v.valid = TRUE /\ v.tail = <<>>
    BY <1>9 DEF Checked
  <2>2. k # 1
    BY <1>5, <1>9
  <2>. HIDE DEF v, all, st
  <2>. QED  BY <1>7, <1>9, <2>1, <2>2 DEF v, all, st
<1>10. CASE st.mode # "buffered"
  <2>1. v = ValidateUtf8(utf8_tail[k], carry)
    BY <1>10 DEF Checked
  <2>. HIDE DEF v, s
  <2>2. IsVerdict(v, all)
    BY <1>1, <1>4, <1>10, <2>1, ValidateUtf8Is
  <2>. HIDE DEF all, st
  <2>3. /\ v.valid \in BOOLEAN
        /\ v.valid => Held(all, v.tail)
        /\ ~v.valid => v.tail = <<>> /\ ~Fits(all)
    BY <2>2 DEF IsVerdict
  <2>4. v.valid => Fits(all) /\ (Text(all) <=> v.tail = <<>>)
    BY <1>2, <2>3, HeldIs
  <2>5. v.tail # <<>> => IsPartOfCharacter(v.tail)
    BY <2>3 DEF Held, IsTail
  <2>6. ~v.valid => k = 1 /\ ~Text(body) /\ ~Fits(First(body, fed))
    BY <1>1, <1>5, <1>7, <1>8, <2>3, FedIs
  <2>7. call = "finish" /\ v.tail # <<>> => k = 1 /\ ~Text(body)
    BY <1>1, <1>5, <1>6, <1>7, <2>3, <2>4, FedIs
  <2>. QED  BY <1>10, <2>3, <2>4, <2>5, <2>6, <2>7 DEF v, all, s, st
<1>. QED  BY <1>9, <1>10

(* A stage that is called: either an error ends the request, or it has      *)
(* received what is carried to it.                                         *)
StageRefuses ==
    /\ result' \in {"AlreadyFinished", "InvalidUtf8"}
    /\ call' = "idle" /\ UNCHANGED <<received, stage, last_call>>
    /\ result' = "InvalidUtf8" =>
         \/ ~Checked(stage, carry).valid
         \/ call = "finish" /\ Checked(stage, carry).tail # <<>>
StagePasses ==
    /\ UNCHANGED <<call, result, last_call>> /\ stage' = stage + 1
    /\ received' = [received EXCEPT ![stage] = @ \o carry]
    /\ Checked(stage, carry).valid
    /\ call = "finish" => Checked(stage, carry).tail = <<>>

LEMMA TextStage ==
    ASSUME CallInv, FlowInv, TextInv, call # "idle", stage \in 1..N,
           UNCHANGED <<given, fed>>,
           utf8_tail' = [utf8_tail EXCEPT ![stage] = Checked(stage, carry).tail],
           StageRefuses \/ StagePasses
    PROVE  TextInv'
<1>. DEFINE v   == Checked(stage, carry)
            all == received[stage] \o carry
<1>1. /\ v.valid \in BOOLEAN
      /\ v.tail # <<>> => IsPartOfCharacter(v.tail)
      /\ v.valid => Fits(all)
      /\ v.valid /\ stages[stage].mode # "buffered" => Held(all, v.tail)
      /\ ~v.valid => stage = 1 /\ ~Text(body) /\ ~Fits(First(body, fed))
      /\ call = "finish" /\ v.tail # <<>> => stage = 1 /\ ~Text(body)
      /\ call = "finish" /\ v.valid /\ v.tail = <<>> => Text(all)
  BY StageChecks
<1>. HIDE DEF v, all
<1>2. /\ N' = N /\ body' = body /\ stages' = stages /\ fed' = fed
  BY SameComposed
<1>3. /\ N \in Nat /\ received \in [1..N -> Seq(Byte)] /\ result = "running"
      /\ call = "finish" => last_call
      /\ DOMAIN utf8_tail = 1..N
  BY FlowFacts DEF CallInv, TextInv
<1>4. /\ DOMAIN utf8_tail' = 1..N /\ utf8_tail'[stage] = v.tail
      /\ \A j \in 1..N : j # stage => utf8_tail'[j] = utf8_tail[j]
  BY <1>3 DEF v
<1>5. \A j \in 1..N : utf8_tail'[j] # <<>> => IsPartOfCharacter(utf8_tail'[j])
  BY <1>1, <1>4 DEF TextInv
<1>6. CASE StageRefuses
  <2>1. /\ result' \in {"AlreadyFinished", "InvalidUtf8"} /\ call' = "idle"
        /\ received' = received /\ stage' = stage /\ last_call' = last_call
        /\ result' = "InvalidUtf8" => ~v.valid \/ (call = "finish" /\ v.tail # <<>>)
    BY <1>6 DEF StageRefuses, v
  <2>2. result' = "InvalidUtf8" =>
          stage = 1 /\ ~Text(body) /\ (~Fits(First(body, fed)) \/ last_call)
    BY <1>1, <1>3, <2>1
  <2>3. \A j \in 1..N : Fits(received'[j])
    BY <2>1 DEF TextInv
  <2>4. result' # "running" /\ result' # "done" /\ call' # "finish"
    BY <2>1
  <2>. QED  BY <1>2, <1>4, <1>5, <2>1, <2>2, <2>3, <2>4 DEF TextInv
<1>7. CASE StagePasses
  <2>1. /\ call' = call /\ result' = result /\ last_call' = last_call
        /\ stage' = stage + 1 /\ v.valid
        /\ call = "finish" => v.tail = <<>>
    BY <1>7 DEF StagePasses, v
  <2>2. /\ received'[stage] = all
        /\ \A j \in 1..N : j # stage => received'[j] = received[j]
    BY <1>3, <1>7 DEF StagePasses, all
  <2>3. ASSUME NEW j \in 1..N
        PROVE  /\ Fits(received'[j])
               /\ stages[j].mode # "buffered" => Held(received'[j], utf8_tail'[j])
    <3>1. CASE j = stage
      BY <1>1, <1>4, <2>1, <2>2, <3>1
    <3>2. CASE j # stage
      BY <1>3, <1>4, <2>2, <3>2 DEF TextInv
    <3>. QED  BY <3>1, <3>2
  <2>4. ASSUME call = "finish", NEW j \in 1..stage PROVE Text(received'[j])
    <3>1. CASE j = stage
      BY <1>1, <2>1, <2>2, <2>4, <3>1
    <3>2. CASE j # stage
      <4>1. j \in 1..(stage - 1) /\ j \in 1..N
        BY <1>3, <3>2
      <4>. QED  BY <2>2, <2>4, <3>2, <4>1 DEF TextInv
    <3>. QED  BY <3>1, <3>2
  <2>5. stage' - 1 = stage
    BY <1>3, <2>1
  <2>6. call' = "finish" => \A j \in 1..(stage' - 1) : Text(received'[j])
    BY <2>1, <2>4, <2>5
  <2>. QED  BY <1>2, <1>3, <1>4, <1>5, <2>1, <2>3, <2>6 DEF TextInv
<1>. QED  BY <1>6, <1>7

LEMMA TextInvariant == Spec => []TextInv
<1>1. Init => TextInv
  <2>. SUFFICES ASSUME Init PROVE TextInv
    OBVIOUS
  <2>1. DOMAIN utf8_tail = 1..N
        /\ \A j \in 1..N : received[j] = <<>> /\ utf8_tail[j] = <<>>
    BY DEF Init
  <2>2. Fits(<<>>) /\ Held(<<>>, <<>>)
    <3>1. Text(<<>>) /\ <<>> \in Seq(Byte) /\ <<>> \o <<>> = <<>>
      BY NoText
    <3>2. IsTail(<<>>)
      BY DEF IsTail
    <3>. QED  BY <3>1, <3>2 DEF Held, Text
  <2>3. result = "running" /\ call = "idle"
    BY DEF Init
  <2>. QED  BY <2>1, <2>2, <2>3 DEF TextInv
<1>2. CallInv /\ FlowInv /\ TextInv /\ [Next]_vars => TextInv'
  <2>. SUFFICES ASSUME CallInv, FlowInv, TextInv, [Next]_vars PROVE TextInv'
    OBVIOUS
  <2>0. UNCHANGED given => N' = N /\ body' = body /\ stages' = stages
    BY SameComposed
  <2>1. ASSUME NEW n, NEW end_of_stream, BodyFilter(n, end_of_stream)
        PROVE  TextInv'
    <3>1. /\ UNCHANGED <<given, received, utf8_tail>> /\ call' # "finish"
          /\ result = "running"
          /\ result' = "TooLarge" \/ result' = "running"
      BY <2>1 DEF BodyFilter, Fail
    <3>. QED  BY <2>0, <3>1 DEF TextInv
  <2>2. CASE PushStage
    <3>1. call = "push" /\ stage \in 1..N
      BY <2>2, FlowFacts DEF PushStage
    <3>2. /\ UNCHANGED <<given, fed>>
          /\ utf8_tail' = [utf8_tail EXCEPT ![stage] = Checked(stage, carry).tail]
      BY <2>2 DEF PushStage, Fail
    <3>3. StageRefuses \/ StagePasses
      BY <2>2 DEF PushStage, Fail, StageRefuses, StagePasses
    <3>. QED  BY <3>1, <3>2, <3>3, TextStage
  <2>3. CASE PushReturns
    <3>1. /\ UNCHANGED <<given, fed, received, utf8_tail, result, last_call>>
          /\ (call' = "finish" /\ stage' = 1) \/ call' = "idle"
          /\ result = "running"
      BY <2>3 DEF PushReturns, CallInv
    <3>2. call' = "finish" => \A j \in 1..(stage' - 1) : FALSE
      BY <3>1
    <3>. QED  BY <2>0, <3>1, <3>2 DEF TextInv
  <2>4. CASE FinishStage
    <3>1. call = "finish" /\ stage \in 1..N
      BY <2>4, FlowFacts DEF FinishStage
    <3>2. /\ UNCHANGED <<given, fed>>
          /\ utf8_tail' = [utf8_tail EXCEPT ![stage] = Checked(stage, carry).tail]
      BY <2>4 DEF FinishStage, Fail
    <3>3. StageRefuses \/ StagePasses
      BY <2>4 DEF FinishStage, Fail, StageRefuses, StagePasses
    <3>. QED  BY <3>1, <3>2, <3>3, TextStage
  <2>5. CASE FinishReturns
    <3>1. /\ UNCHANGED <<given, received, utf8_tail>>
          /\ call = "finish" /\ call' = "idle" /\ result' = "done" /\ stage > N
      BY <2>5 DEF FinishReturns
    <3>2. Text(body)
      <4>1. /\ N \in Nat /\ N > 0 /\ stage = N + 1 /\ body \in Seq(Byte)
            /\ fed = Len(body) /\ fed \in 0..Len(body)
        BY <3>1, FlowFacts DEF CallInv
      <4>2. 1 \in 1..(stage - 1) /\ 1 # N + 1
        BY <4>1
      <4>3. Got(1) = Made(1, call = "finish")
        BY <3>1, <4>2 DEF FlowInv
      <4>4. received[1] = First(body, fed)
        BY <4>2, <4>3 DEF Got, Made
      <4>5. Text(received[1])
        BY <3>1, <4>2 DEF TextInv
      <4>. QED  BY <4>1, <4>4, <4>5, FedIs
    <3>. QED  BY <2>0, <3>1, <3>2 DEF TextInv
  <2>6. CASE UNCHANGED vars
    BY <2>0, <2>6 DEF vars, TextInv
  <2>. QED  BY <2>1, <2>2, <2>3, <2>4, <2>5, <2>6 DEF Next
<1>. QED  BY <1>1, <1>2, CallInvariant, FlowInvariant, PTL DEF Spec

(* A body is refused as text exactly when it is none: wherever the chunks   *)
(* cut its characters, the bytes kept for the next one are the beginning   *)
(* of the last character, and an error means that no rest makes text of    *)
(* what was received, or that the body ends in the middle of a character.  *)
THEOREM RefusesExactly == Spec => []RefusesExactlyInvalid
<1>1. CallInv /\ FlowInv /\ TextInv => RefusesExactlyInvalid
  <2>. SUFFICES ASSUME CallInv, FlowInv, TextInv PROVE RefusesExactlyInvalid
    OBVIOUS
  <2>1. /\ N \in Nat /\ N > 0 /\ body \in Seq(Byte) /\ fed \in 0..Len(body)
    BY FlowFacts
  <2>2. First(body, fed) \in Seq(Byte)
    BY <2>1, FedIs
  <2>3. /\ IsText(body) <=> Text(body)
        /\ BeginsText(First(body, fed)) <=> Fits(First(body, fed))
    BY <2>1, <2>2, IsTextIs, BeginsTextIs
  <2>4. ASSUME result = "running", call = "idle" PROVE Fits(First(body, fed))
    <3>1. 1 \in 1..N /\ 1 \in 1..(N + 1) /\ 1 # N + 1
      BY <2>1
    <3>2. Got(1) = Made(1, FALSE)
      BY <2>4, <3>1 DEF FlowInv
    <3>3. received[1] = First(body, fed)
      BY <3>1, <3>2 DEF Got, Made
    <3>. QED  BY <3>1, <3>3 DEF TextInv
  <2>. QED  BY <2>3, <2>4 DEF RefusesExactlyInvalid, TextInv
<1>. QED  BY <1>1, CallInvariant, FlowInvariant, TextInvariant, PTL

(* Only what the upstream has sent is ever refused: a stage makes text of   *)
(* text and what begins a text of what begins one, so that a character     *)
(* that is cut between two stages is always completed for the later one,   *)
(* also when finish pushes on what the earlier one has held back.          *)
THEOREM OnlyTheFirst == Spec => []OnlyTheFirstRefuses
<1>1. TextInv /\ result # "AlreadyFinished" => OnlyTheFirstRefuses
  BY DEF TextInv, OnlyTheFirstRefuses
<1>. QED  BY <1>1, TextInvariant, NothingAfterFinish, PTL

-----------------------------------------------------------------------------
(* Types                                                                   *)

FlagsInv ==
    /\ ended \in [1..N -> BOOLEAN] /\ last_call \in BOOLEAN
    /\ result \in {"running", "done", "TooLarge", "InvalidUtf8", "AlreadyFinished"}

(* Whatever the stages, the body, its chunks and the limit are. *)
THEOREM TypeCorrect == Spec => []TypeOK
<1>1. Init => FlagsInv
  BY DEF Init, FlagsInv
<1>2. FlagsInv /\ [Next]_vars => FlagsInv'
  <2>. SUFFICES ASSUME FlagsInv, [Next]_vars PROVE FlagsInv'
    OBVIOUS
  <2>0. UNCHANGED given => N' = N
    BY SameComposed
  <2>1. ASSUME NEW n, NEW end_of_stream \in BOOLEAN, BodyFilter(n, end_of_stream)
        PROVE  FlagsInv'
    <3>1. /\ UNCHANGED <<given, ended>> /\ last_call' \in BOOLEAN
          /\ result' = "TooLarge" \/ result' = result
      BY <2>1 DEF BodyFilter, Fail, FlagsInv
    <3>. QED  BY <2>0, <3>1 DEF FlagsInv
  <2>2. CASE PushStage
    <3>1. /\ UNCHANGED <<given, ended, last_call>>
          /\ result' \in {"InvalidUtf8", "AlreadyFinished"} \/ result' = result
      BY <2>2 DEF PushStage, Fail
    <3>. QED  BY <2>0, <3>1 DEF FlagsInv
  <2>3. CASE PushReturns
    <3>1. UNCHANGED <<given, ended, last_call, result>>
      BY <2>3 DEF PushReturns
    <3>. QED  BY <2>0, <3>1 DEF FlagsInv
  <2>4. CASE FinishStage
    <3>1. /\ UNCHANGED <<given, last_call>>
          /\ ended' = [ended EXCEPT ![stage] = TRUE]
          /\ result' \in {"InvalidUtf8", "AlreadyFinished"} \/ result' = result
      BY <2>4 DEF FinishStage, Fail
    <3>. QED  BY <2>0, <3>1 DEF FlagsInv
  <2>5. CASE FinishReturns
    <3>1. UNCHANGED <<given, ended, last_call>> /\ result' = "done"
      BY <2>5 DEF FinishReturns
    <3>. QED  BY <2>0, <3>1 DEF FlagsInv
  <2>6. CASE UNCHANGED vars
    BY <2>0, <2>6 DEF vars, FlagsInv
  <2>. QED  BY <2>1, <2>2, <2>3, <2>4, <2>5, <2>6 DEF Next
<1>3. CallInv /\ FlowInv /\ TextInv /\ FlagsInv => TypeOK
  BY FlowFacts DEF CallInv, FlowInv, TextInv, FlagsInv, TypeOK
<1>. QED  BY <1>1, <1>2, <1>3, CallInvariant, FlowInvariant, TextInvariant, PTL DEF Spec

-----------------------------------------------------------------------------
(* A stage symbol by symbol                                                *)

(* With z at offset d of t, a symbol of the two differs; d may be negative. *)
ClashAt(t, d, z) ==
    \E k \in 1..Len(z) : d + k \in 1..Len(t) /\ t[d + k] # z[k]

(* Wherever z overlaps t, a symbol differs, but for these offsets of z in t. *)
Apart(t, z, offsets) ==
    \A d \in (1 - Len(z))..(Len(t) - 1) : d \in offsets \/ ClashAt(t, d, z)

LEMMA NoClash ==
    ASSUME NEW w, NEW t, NEW z, NEW o \in Int, NEW d \in Int,
           OccursAt(w, o, t), OccursAt(w, o + d, z)
    PROVE  ~ClashAt(t, d, z)
<1>. SUFFICES ASSUME NEW k \in 1..Len(z), d + k \in 1..Len(t),
                     t[d + k] # z[k]
              PROVE  FALSE
  BY DEF ClashAt
<1>1. w[o + (d + k)] = t[d + k] /\ w[(o + d) + k] = z[k]
  BY DEF OccursAt
<1>2. o + (d + k) = (o + d) + k
  OBVIOUS
<1>. QED  BY <1>1, <1>2

(* The stages of the profiles: something takes the place of a source, and a *)
(* source that stays as it is overlaps no other one.                       *)
IsSimple(st) ==
    /\ IsStage(st) /\ st.mode # "buffered"
    /\ Len(Replacement(st)) > 0
    /\ st.mode = "exact" \/ Apart(st.source, st.source, {0})

(* The source is at offset p of s and does not carry the inserted text.    *)
Rewrites(st, s, p) == OccursAt(s, p, st.source) /\ ~Carries(st, s, p)

LEMMA SimpleIs ==
    ASSUME NEW st, IsSimple(st)
    PROVE  /\ IsStage(st) /\ st.mode # "buffered"
           /\ st.source \in Seq(Byte) /\ Len(st.source) \in Nat /\ Len(st.source) > 0
           /\ Replacement(st) \in Seq(Byte) /\ Len(Replacement(st)) \in Nat
           /\ Len(Replacement(st)) > 0
<1>1. IsStage(st) /\ st.mode # "buffered" /\ Len(Replacement(st)) > 0
  BY DEF IsSimple
<1>2. Replacement(st) \in Seq(Byte)
  BY <1>1, ReplacementType
<1>3. st.source \in Seq(Byte) /\ Len(st.source) > 0
  BY <1>1 DEF IsStage
<1>. QED  BY <1>1, <1>2, <1>3, LenProperties

(* Where no source begins, the search goes on.                             *)
CopiesUpTo(rest, s, p, e) == rest[p] = SubSeq(s, p + 1, e) \o rest[e]

LEMMA SkipNoHit ==
    ASSUME NEW st, IsStage(st), st.mode # "buffered", NEW s \in Seq(Byte),
           NEW rest, IsRest(rest, st, s, TRUE),
           NEW p \in 0..Len(s), NEW e \in p..Len(s),
           \A q \in p..(e - 1) : ~OccursAt(s, q, st.source)
    PROVE  CopiesUpTo(rest, s, p, e)
<1>. DEFINE q == Leftmost(Hits(st, s, p))
            k == Len(st.source)
            n == Len(s)
<1>1. Hits(st, s, p) = Hits(st, s, e)
  BY DEF Hits
<1>2. /\ e \in 0..n /\ n \in Nat /\ p \in Nat
      /\ rest[p] = RestAt(st, s, TRUE, p, rest)
      /\ rest[e] = RestAt(st, s, TRUE, e, rest)
      /\ rest \in [0..n -> Seq(Byte)]
  <2>1. e \in 0..n /\ n \in Nat /\ p \in Nat /\ p \in 0..n
    OBVIOUS
  <2>2. \A i \in 0..n : rest[i] = RestAt(st, s, TRUE, i, rest)
    BY Zenon DEF IsRest
  <2>3. rest \in [0..n -> Seq(Byte)]
    BY Zenon DEF IsRest
  <2>. QED  BY <2>1, <2>2, <2>3, Zenon
<1>3. CASE Hits(st, s, p) = {}
  <2>1. rest[p] = SubSeq(s, p + 1, n) /\ rest[e] = SubSeq(s, e + 1, n)
    <3>1. n - HeldBack(st, TRUE) = n
      BY <1>2 DEF HeldBack
    <3>. QED  BY <1>1, <1>2, <1>3, <3>1, RestAtIs
  <2>2. e + (n - e) = n /\ n - e \in Nat /\ e \in Nat
    BY <1>2
  <2>. HIDE DEF n
  <2>3. SubSeq(s, p + 1, e) \o SubSeq(s, e + 1, e + (n - e)) = SubSeq(s, p + 1, e + (n - e))
    <3>1. e + (n - e) =< Len(s) /\ p =< e
      BY <2>2 DEF n
    <3>. QED  BY ONLY s \in Seq(Byte), <1>2, <2>2, <3>1, Extend, SMT
  <2>. QED  BY <2>1, <2>2, <2>3 DEF CopiesUpTo
<1>4. CASE Hits(st, s, p) # {}
  <2>1. /\ q \in p..n /\ q \in e..n /\ q + k \in 0..n
    BY <1>1, <1>2, <1>4, HitIs
  <2>2. /\ rest[p] = SubSeq(s, p + 1, q) \o Decided(st, s, q) \o rest[q + k]
        /\ rest[e] = SubSeq(s, e + 1, q) \o Decided(st, s, q) \o rest[q + k]
    <3>1. ~StopsAt(st, s, TRUE, q)
      BY DEF StopsAt
    <3>. QED  BY <1>1, <1>2, <1>4, <3>1, RestAtIs
  <2>3. Decided(st, s, q) \in Seq(Byte) /\ rest[q + k] \in Seq(Byte)
    BY <1>2, <2>1, DecidedType
  <2>. HIDE DEF q, k
  <2>4. SubSeq(s, p + 1, e) \o SubSeq(s, e + 1, q) = SubSeq(s, p + 1, q)
    <3>1. \E m \in Nat : q = e + m
      <4>1. q - e \in Nat /\ q = e + (q - e)
        BY <1>2, <2>1
      <4>. QED  BY <4>1
    <3>2. PICK m \in Nat : q = e + m
      BY <3>1
    <3>3. e + m =< Len(s) /\ e \in Nat /\ p \in Nat /\ p =< e
      BY <1>2, <2>1, <3>2
    <3>4. Adjoins(s, p, e, m)
      BY ONLY s \in Seq(Byte), <3>2, <3>3, Adjoining, Zenon
    <3>. QED  BY <3>2, <3>4 DEF Adjoins
  <2>5. SubSeq(s, p + 1, e) \in Seq(Byte) /\ SubSeq(s, e + 1, q) \in Seq(Byte)
    BY <1>2, <2>1
  <2>. DEFINE x == SubSeq(s, p + 1, e)
              y == SubSeq(s, e + 1, q)
              d == Decided(st, s, q)
              r == rest[q + k]
  <2>6. Regroups(Byte, x, y, d) /\ Regroups(Byte, x, y \o d, r)
    <3>. HIDE DEF x, y, d, r
    <3>1. x \in Seq(Byte) /\ y \in Seq(Byte) /\ d \in Seq(Byte) /\ r \in Seq(Byte)
      BY <2>3, <2>5 DEF x, y, d, r
    <3>2. Regroups(Byte, x, y, d)
      BY <3>1, Reassociate
    <3>3. y \o d \in Seq(Byte)
      BY <3>2 DEF Regroups
    <3>. QED  BY <3>1, <3>2, <3>3, Reassociate
  <2>7. (x \o y) \o d \o r = x \o (y \o d \o r)
    BY ONLY <2>6, Zenon DEF Regroups
  <2>. QED  BY <2>2, <2>4, <2>7 DEF CopiesUpTo
<1>. QED  BY <1>3, <1>4

(* One step: the symbol at p stays, or all of a source is replaced.        *)
Steps(st, s, rest, p) ==
    /\ rest[p] \in Seq(Byte)
    /\ p = Len(s) => rest[p] = <<>>
    /\ Rewrites(st, s, p) =>
         /\ p + Len(st.source) \in 0..Len(s)
         /\ rest[p] = Replacement(st) \o rest[p + Len(st.source)]
    /\ ~Rewrites(st, s, p) /\ p < Len(s) =>
         rest[p] = SubSeq(s, p + 1, p + 1) \o rest[p + 1]

LEMMA StepOf ==
    ASSUME NEW st, IsSimple(st), NEW s \in Seq(Byte),
           NEW rest, IsRest(rest, st, s, TRUE), NEW p \in 0..Len(s)
    PROVE  Steps(st, s, rest, p)
<1>. DEFINE k == Len(st.source)
            n == Len(s)
<1>1. /\ IsStage(st) /\ st.mode # "buffered" /\ st.source \in Seq(Byte)
      /\ k \in Nat /\ k > 0 /\ Replacement(st) \in Seq(Byte)
  BY SimpleIs
<1>2. n \in Nat /\ p \in Nat /\ p =< n
  OBVIOUS
<1>3. \A i \in 0..n : rest[i] = RestAt(st, s, TRUE, i, rest)
  BY Zenon DEF IsRest
<1>4. rest \in [0..n -> Seq(Byte)]
  BY Zenon DEF IsRest
<1>5. ASSUME p = n PROVE rest[p] = <<>>
  <2>1. Hits(st, s, p) = {}
    BY <1>1, <1>2, <1>5 DEF Hits, OccursAt
  <2>2. HeldBack(st, TRUE) = 0 /\ n - 0 = n /\ p \in 0..n
    BY <1>2 DEF HeldBack
  <2>3. rest[p] = SubSeq(s, p + 1, n)
    BY <1>3, <2>1, <2>2, RestAtIs
  <2>. QED  BY <1>2, <1>5, <2>3
<1>6. ASSUME OccursAt(s, p, st.source)
      PROVE  /\ p + k \in 0..n
             /\ rest[p] = Decided(st, s, p) \o rest[p + k]
  <2>1. p + k =< n /\ p \in Hits(st, s, p)
    BY <1>2, <1>6 DEF OccursAt, Hits
  <2>2. Leftmost(Hits(st, s, p)) = p
    <3>1. Hits(st, s, p) # {}
      BY <2>1
    <3>2. /\ Leftmost(Hits(st, s, p)) \in p..Len(s)
          /\ \A r \in p..(Leftmost(Hits(st, s, p)) - 1) : ~OccursAt(s, r, st.source)
      BY <1>1, <3>1, HitIs
    <3>. DEFINE q == Leftmost(Hits(st, s, p))
    <3>. HIDE DEF q
    <3>3. q \in p..n /\ ~(p \in p..(q - 1))
      BY <1>6, <3>2 DEF q
    <3>4. q = p
      BY <1>2, <3>3
    <3>. QED  BY <3>4 DEF q
  <2>3. rest[p] = SubSeq(s, p + 1, p) \o Decided(st, s, p) \o rest[p + k]
    <3>1. ~StopsAt(st, s, TRUE, p) /\ Hits(st, s, p) # {} /\ p \in 0..n
      BY <1>2, <2>1 DEF StopsAt
    <3>. QED  BY <1>3, <2>2, <3>1, RestAtIs
  <2>4. p + k \in 0..n
    BY <1>1, <1>2, <2>1
  <2>5. Decided(st, s, p) \in Seq(Byte) /\ rest[p + k] \in Seq(Byte)
    BY <1>1, <1>4, <2>4, DecidedType
  <2>6. SubSeq(s, p + 1, p) = <<>>
    BY <1>2
  <2>. DEFINE d == Decided(st, s, p)
              r == rest[p + k]
  <2>. HIDE DEF d, r
  <2>7. <<>> \o d \o r = d \o r
    BY <2>5 DEF d, r
  <2>. QED  BY <2>3, <2>4, <2>6, <2>7 DEF d, r
<1>7. ASSUME ~Rewrites(st, s, p), p < n
      PROVE  rest[p] = SubSeq(s, p + 1, p + 1) \o rest[p + 1]
  <2>1. CASE ~OccursAt(s, p, st.source)
    <3>1. p + 1 \in p..n /\ \A q \in p..((p + 1) - 1) : q = p
      BY <1>2, <1>7
    <3>2. \A q \in p..((p + 1) - 1) : ~OccursAt(s, q, st.source)
      BY <2>1, <3>1
    <3>3. CopiesUpTo(rest, s, p, p + 1)
      BY <1>1, <3>1, <3>2, SkipNoHit, Zenon
    <3>. QED  BY <3>3 DEF CopiesUpTo
  <2>2. CASE OccursAt(s, p, st.source)
    <3>1. Carries(st, s, p)
      BY <1>7, <2>2 DEF Rewrites
    <3>2. p + k \in 0..n /\ rest[p] = st.source \o rest[p + k]
      BY <1>6, <2>2, <3>1 DEF Decided
    <3>3. Apart(st.source, st.source, {0})
      BY <3>1 DEF IsSimple, Carries
    <3>4. ASSUME NEW q \in (p + 1)..((p + k) - 1), OccursAt(s, q, st.source)
          PROVE  FALSE
      <4>1. /\ q - p \in (1 - k)..(k - 1) /\ q - p \notin {0}
            /\ q - p \in Int /\ p \in Int /\ q = p + (q - p)
        BY <1>1, <1>2
      <4>2. ClashAt(st.source, q - p, st.source)
        BY <3>3, <4>1 DEF Apart
      <4>. QED  BY <2>2, <3>4, <4>1, <4>2, NoClash
    <3>5. p + k \in (p + 1)..n /\ p + 1 \in 0..n
      BY <1>1, <1>2, <1>7, <3>2
    <3>6. CopiesUpTo(rest, s, p + 1, p + k)
      BY <1>1, <3>4, <3>5, SkipNoHit, Zenon
    <3>7. SubSeq(s, p + 1, p + k) = st.source
      BY <1>1, <1>2, <2>2, LiteralThere
    <3>8. \E m \in Nat : p + k = (p + 1) + m
      <4>. HIDE DEF k
      <4>1. k - 1 \in Nat /\ p + k = (p + 1) + (k - 1)
        BY <1>1, <1>2
      <4>. QED  BY <4>1
    <3>9. PICK m \in Nat : p + k = (p + 1) + m
      BY <3>8
    <3>10. Adjoins(s, p, p + 1, m)
      <4>1. p + 1 \in Nat /\ p =< p + 1 /\ (p + 1) + m =< Len(s)
        BY <1>2, <3>2, <3>9
      <4>. QED  BY ONLY s \in Seq(Byte), <1>2, <3>9, <4>1, Adjoining, Zenon
    <3>. DEFINE x == SubSeq(s, p + 1, p + 1)
                y == SubSeq(s, (p + 1) + 1, p + k)
                r == rest[p + k]
    <3>11. x \o y = st.source
      BY <3>7, <3>9, <3>10 DEF Adjoins
    <3>12. x \in Seq(Byte) /\ y \in Seq(Byte) /\ r \in Seq(Byte)
      BY <1>2, <1>4, <1>7, <3>2, <3>5
    <3>. HIDE DEF x, y, r
    <3>13. Regroups(Byte, x, y, r)
      BY ONLY <3>12, Reassociate, Zenon
    <3>14. (x \o y) \o r = x \o (y \o r)
      BY ONLY <3>13, Zenon DEF Regroups
    <3>15. rest[p + 1] = y \o r
      BY <3>6 DEF CopiesUpTo, y, r
    <3>. QED  BY <3>2, <3>11, <3>14, <3>15 DEF x, r
  <2>. QED  BY <2>1, <2>2
<1>8. ASSUME Rewrites(st, s, p)
      PROVE  /\ p + k \in 0..n
             /\ rest[p] = Replacement(st) \o rest[p + k]
  BY <1>6, <1>8 DEF Rewrites, Decided
<1>. QED  BY <1>2, <1>4, <1>5, <1>7, <1>8 DEF Steps

(* The two offsets, in what a stage is given and in what it returns, that  *)
(* it comes through: from x to the next one, and all of them.              *)
Onward(st, s, x) ==
    IF Rewrites(st, s, x[1])
       THEN <<x[1] + Len(st.source), x[2] + Len(Replacement(st))>>
       ELSE <<x[1] + 1, x[2] + 1>>

IsClosed(I, st, s) ==
    /\ <<0, 0>> \in I
    /\ \A x \in I : x[1] < Len(s) => Onward(st, s, x) \in I

Trace(st, s) ==
    {x \in Nat \X Nat : \A I \in SUBSET (Nat \X Nat) : IsClosed(I, st, s) => x \in I}

LEMMA TraceClosed ==
    ASSUME NEW st, IsSimple(st), NEW s \in Seq(Byte)
    PROVE  /\ Trace(st, s) \subseteq Nat \X Nat
           /\ IsClosed(Trace(st, s), st, s)
           /\ \A I \in SUBSET (Nat \X Nat) :
                IsClosed(I, st, s) => Trace(st, s) \subseteq I
<1>1. Trace(st, s) \subseteq Nat \X Nat
  BY DEF Trace
<1>2. \A I \in SUBSET (Nat \X Nat) : IsClosed(I, st, s) => Trace(st, s) \subseteq I
  BY DEF Trace
<1>3. <<0, 0>> \in Trace(st, s)
  BY DEF Trace, IsClosed
<1>4. ASSUME NEW x \in Trace(st, s), x[1] < Len(s)
      PROVE  Onward(st, s, x) \in Trace(st, s)
  <2>1. Onward(st, s, x) \in Nat \X Nat
    <3>1. x[1] \in Nat /\ x[2] \in Nat
      BY <1>1, <1>4
    <3>2. Len(st.source) \in Nat /\ Len(Replacement(st)) \in Nat
      BY SimpleIs
    <3>3. /\ x[1] + Len(st.source) \in Nat /\ x[2] + Len(Replacement(st)) \in Nat
          /\ x[1] + 1 \in Nat /\ x[2] + 1 \in Nat
      BY ONLY <3>1, <3>2
    <3>4. /\ <<x[1] + Len(st.source), x[2] + Len(Replacement(st))>> \in Nat \X Nat
          /\ <<x[1] + 1, x[2] + 1>> \in Nat \X Nat
      BY <3>3, Zenon
    <3>. QED  BY <3>4, Zenon DEF Onward
  <2>2. ASSUME NEW I \in SUBSET (Nat \X Nat), IsClosed(I, st, s)
        PROVE  Onward(st, s, x) \in I
    <3>1. x \in I
      BY <1>2, <1>4, <2>2
    <3>. QED  BY <1>4, <2>2, <3>1 DEF IsClosed
  <2>. QED  BY <2>1, <2>2 DEF Trace
<1>. QED  BY <1>1, <1>2, <1>3, <1>4 DEF IsClosed

(* Each pair but the first has one before it.                              *)
LEMMA TraceBefore ==
    ASSUME NEW st, IsSimple(st), NEW s \in Seq(Byte),
           NEW x \in Trace(st, s), x # <<0, 0>>
    PROVE  \E y \in Trace(st, s) : y[1] < Len(s) /\ x = Onward(st, s, y)
<1>. SUFFICES ASSUME ~\E y \in Trace(st, s) : y[1] < Len(s) /\ x = Onward(st, s, y)
              PROVE  FALSE
  OBVIOUS
<1>. DEFINE I == Trace(st, s) \ {x}
<1>1. /\ I \in SUBSET (Nat \X Nat) /\ IsClosed(Trace(st, s), st, s)
      /\ \A J \in SUBSET (Nat \X Nat) :
                IsClosed(J, st, s) => Trace(st, s) \subseteq J
  BY TraceClosed
<1>2. IsClosed(I, st, s)
  BY <1>1 DEF IsClosed
<1>3. Trace(st, s) \subseteq I
  <2>. HIDE DEF I
  <2>. QED  BY <1>1, <1>2
<1>. QED  BY <1>3

(* The stage comes to offset u of s when it has returned w up to offset o.  *)
Goes(st, s, u, o) == <<u, o>> \in Trace(st, s)

(* Where it has come to, what is still returned is that of the rest.       *)
LEMMA TraceFollows ==
    ASSUME NEW st, IsSimple(st), NEW s \in Seq(Byte),
           NEW rest, IsRest(rest, st, s, TRUE),
           NEW w \in Seq(Byte), w = Returned(st, s, TRUE),
           NEW u, NEW o, Goes(st, s, u, o)
    PROVE  u \in 0..Len(s) /\ o \in 0..Len(w) /\ Follows(w, o, rest[u])
<1>. DEFINE I == {x \in Nat \X Nat : x[1] =< Len(s) /\ Follows(w, x[2], rest[x[1]])}
            k == Len(st.source)
            r == Replacement(st)
<1>1. /\ k \in Nat /\ k > 0 /\ r \in Seq(Byte) /\ Len(r) \in Nat /\ Len(s) \in Nat
  BY SimpleIs
<1>2. \A i \in 0..Len(s) : rest[i] \in Seq(Byte)
  <2>1. rest \in [0..Len(s) -> Seq(Byte)]
    BY Zenon DEF IsRest
  <2>. QED  BY <2>1
<1>3. <<0, 0>> \in I
  <2>1. w = rest[0]
    BY Zenon DEF IsRest
  <2>2. Follows(w, 0, w)
    BY ONLY w \in Seq(Byte) DEF Follows
  <2>3. Follows(w, 0, rest[0])
    BY <2>1, <2>2, Zenon
  <2>4. <<0, 0>>[1] = 0 /\ <<0, 0>>[2] = 0 /\ 0 =< Len(s) /\ <<0, 0>> \in Nat \X Nat
    BY <1>1
  <2>. QED  BY <2>3, <2>4, Zenon
<1>4. ASSUME NEW x \in I, x[1] < Len(s) PROVE Onward(st, s, x) \in I
  <2>. DEFINE p == x[1]
              i == x[2]
  <2>1. /\ p \in Nat /\ i \in Nat /\ p \in 0..Len(s) /\ p < Len(s)
        /\ Follows(w, i, rest[p])
    <3>1. x \in Nat \X Nat /\ x[1] =< Len(s) /\ Follows(w, x[2], rest[x[1]])
      BY <1>4, Zenon
    <3>2. x[1] \in Nat /\ x[2] \in Nat /\ x[1] \in 0..Len(s)
      BY <1>1, <3>1
    <3>. QED  BY <1>4, <3>1, <3>2, Zenon
  <2>. HIDE DEF p, i
  <2>2. CASE Rewrites(st, s, p)
    <3>1. Steps(st, s, rest, p)
      BY <2>1, StepOf, Zenon
    <3>2. p + k \in 0..Len(s) /\ rest[p] = r \o rest[p + k]
      BY <2>2, <3>1, Zenon DEF Steps
    <3>3. Follows(w, i, r \o rest[p + k])
      BY <2>1, <3>2, Zenon
    <3>4. rest[p + k] \in Seq(Byte)
      BY <1>2, <3>2
    <3>5. Follows(w, i + Len(r), rest[p + k])
      BY ONLY w \in Seq(Byte), <1>1, <3>3, <3>4, FollowsSplit, Zenon
    <3>6. p + k \in Nat /\ i + Len(r) \in Nat /\ p + k =< Len(s)
      BY <1>1, <2>1, <3>2
    <3>7. <<p + k, i + Len(r)>> \in I
      BY <3>5, <3>6
    <3>. QED  BY <2>2, <3>7 DEF Onward, p, i
  <2>3. CASE ~Rewrites(st, s, p)
    <3>. DEFINE c == SubSeq(s, p + 1, p + 1)
    <3>1. p + 1 \in 0..Len(s)
      BY <1>1, <2>1
    <3>2. Steps(st, s, rest, p)
      BY <2>1, StepOf, Zenon
    <3>3. rest[p] = c \o rest[p + 1]
      BY <2>1, <2>3, <3>2, Zenon DEF Steps
    <3>4. c \in Seq(Byte) /\ Len(c) = 1
      BY <1>1, <2>1
    <3>. HIDE DEF c
    <3>5. Follows(w, i, c \o rest[p + 1])
      BY <2>1, <3>3, Zenon
    <3>6. rest[p + 1] \in Seq(Byte)
      BY <1>2, <3>1
    <3>7. Follows(w, i + Len(c), rest[p + 1])
      BY ONLY w \in Seq(Byte), <3>4, <3>5, <3>6, FollowsSplit, Zenon
    <3>8. p + 1 \in Nat /\ i + 1 \in Nat /\ p + 1 =< Len(s)
      BY <1>1, <2>1, <3>1
    <3>9. <<p + 1, i + 1>> \in I
      BY <3>4, <3>7, <3>8
    <3>. QED  BY <2>3, <3>9 DEF Onward, p, i
  <2>. QED  BY <2>2, <2>3
<1>5. <<u, o>> \in I
  <2>1. I \in SUBSET (Nat \X Nat) /\ IsClosed(I, st, s)
    BY <1>3, <1>4 DEF IsClosed
  <2>. HIDE DEF I
  <2>. QED  BY <2>1, TraceClosed DEF Goes
<1>6. u \in Nat /\ u =< Len(s) /\ Follows(w, o, rest[u])
  BY <1>5
<1>7. u \in 0..Len(s)
  BY <1>1, <1>6
<1>8. o \in 0..Len(w)
  BY <1>6, Zenon DEF Follows
<1>. QED  BY <1>6, <1>7, <1>8

(* What a simple stage makes of a whole text. *)
Makes(st, s, w) ==
    /\ IsSimple(st) /\ s \in Seq(Byte) /\ w \in Seq(Byte)
    /\ w = Returned(st, s, TRUE)

(* The step from here, the step that led here, and where an offset of the   *)
(* text that is returned can be: between two steps or in a replacement.    *)
Forth(st, s, w, u, o) ==
    /\ u \in 0..Len(s) /\ o \in 0..Len(w)
    /\ u = Len(s) <=> o = Len(w)
    /\ \/ u = Len(s) /\ ~Rewrites(st, s, u)
       \/ /\ Rewrites(st, s, u) /\ OccursAt(w, o, Replacement(st))
          /\ Goes(st, s, u + Len(st.source), o + Len(Replacement(st)))
       \/ /\ ~Rewrites(st, s, u) /\ u < Len(s) /\ w[o + 1] = s[u + 1]
          /\ Goes(st, s, u + 1, o + 1)

Back(st, s, w, u, o) ==
    \/ /\ u - 1 \in 0..Len(s) /\ o - 1 \in 0..Len(w) /\ ~Rewrites(st, s, u - 1)
       /\ w[o] = s[u] /\ Goes(st, s, u - 1, o - 1)
    \/ /\ u - Len(st.source) \in 0..Len(s)
       /\ o - Len(Replacement(st)) \in 0..Len(w)
       /\ Rewrites(st, s, u - Len(st.source))
       /\ OccursAt(w, o - Len(Replacement(st)), Replacement(st))
       /\ Goes(st, s, u - Len(st.source), o - Len(Replacement(st)))

Inside(st, s, w, p, u, d) ==
    /\ p - d \in 0..Len(w) /\ Rewrites(st, s, u)
    /\ OccursAt(w, p - d, Replacement(st)) /\ Goes(st, s, u, p - d)

LEMMA StepForth ==
    ASSUME NEW st, NEW s, NEW w, Makes(st, s, w), NEW u, NEW o, Goes(st, s, u, o)
    PROVE  Forth(st, s, w, u, o)
<1>. DEFINE k == Len(st.source)
            r == Replacement(st)
<1>1. IsSimple(st) /\ s \in Seq(Byte) /\ w \in Seq(Byte)
  BY DEF Makes
<1>2. /\ k \in Nat /\ k > 0 /\ r \in Seq(Byte) /\ Len(r) \in Nat /\ Len(r) > 0
      /\ Len(s) \in Nat /\ Len(w) \in Nat
      /\ IsStage(st) /\ st.mode # "buffered"
  BY <1>1, SimpleIs, LenProperties
<1>3. PICK rest : IsRest(rest, st, s, TRUE)
  <2>1. \E rest : IsRest(rest, st, s, TRUE)
    <3>1. TRUE \in BOOLEAN
      OBVIOUS
    <3>. QED  BY <1>1, <1>2, <3>1, ReturnedIs, Zenon
  <2>. QED  BY <2>1, Zenon
<1>4. u \in 0..Len(s) /\ o \in 0..Len(w) /\ Follows(w, o, rest[u])
  <2>1. w = Returned(st, s, TRUE)
    BY Zenon DEF Makes
  <2>. QED  BY <1>1, <1>3, <2>1, TraceFollows, Zenon
<1>5. Steps(st, s, rest, u)
  BY <1>1, <1>3, <1>4, StepOf, Zenon
<1>6. u \in Nat /\ o \in Nat /\ u =< Len(s)
  BY <1>2, <1>4
<1>7. /\ u < Len(s) => Onward(st, s, <<u, o>>) \in Trace(st, s)
      /\ <<u, o>>[1] = u /\ <<u, o>>[2] = o
  <2>1. IsClosed(Trace(st, s), st, s) /\ <<u, o>> \in Trace(st, s)
    BY <1>1, TraceClosed, Zenon DEF Goes
  <2>2. <<u, o>>[1] = u /\ <<u, o>>[2] = o
    OBVIOUS
  <2>. QED  BY <2>1, <2>2, Zenon DEF IsClosed
<1>8. \A i \in 0..Len(s) : rest[i] \in Seq(Byte)
  <2>1. rest \in [0..Len(s) -> Seq(Byte)]
    BY <1>3, Zenon DEF IsRest
  <2>. QED  BY <2>1
<1>9. CASE Rewrites(st, s, u)
  <2>1. u + k \in 0..Len(s) /\ rest[u] = r \o rest[u + k]
    BY <1>5, <1>9, Zenon DEF Steps
  <2>2. Follows(w, o, r \o rest[u + k]) /\ rest[u + k] \in Seq(Byte)
    BY <1>4, <1>8, <2>1, Zenon
  <2>3. OccursAt(w, o, r) /\ o + Len(r) \in 0..Len(w)
    BY ONLY <1>1, <1>2, <2>2, FollowsSplit, Zenon
  <2>4. u < Len(s) /\ o < Len(w)
    <3>. HIDE DEF k, r
    <3>. QED  BY ONLY <1>2, <1>6, <2>1, <2>3
  <2>5. Goes(st, s, u + k, o + Len(r))
    BY <1>7, <1>9, <2>4, Zenon DEF Onward, Goes
  <2>6. ~(u = Len(s)) /\ ~(o = Len(w))
    BY ONLY <1>2, <1>6, <2>4
  <2>. QED  BY <1>4, <1>9, <2>3, <2>5, <2>6, Zenon DEF Forth
<1>10. CASE ~Rewrites(st, s, u) /\ u < Len(s)
  <2>. DEFINE c == SubSeq(s, u + 1, u + 1)
  <2>1. rest[u] = c \o rest[u + 1]
    BY <1>5, <1>10, Zenon DEF Steps
  <2>2. c \in Seq(Byte) /\ Len(c) = 1 /\ c[1] = s[u + 1] /\ u + 1 \in 0..Len(s)
    BY ONLY <1>1, <1>2, <1>6, <1>10
  <2>. HIDE DEF c
  <2>3. Follows(w, o, c \o rest[u + 1]) /\ rest[u + 1] \in Seq(Byte)
    BY <1>4, <1>8, <2>1, <2>2, Zenon
  <2>4. OccursAt(w, o, c)
    BY ONLY <1>1, <1>6, <2>2, <2>3, FollowsSplit, Zenon
  <2>5. w[o + 1] = s[u + 1] /\ o < Len(w)
    BY ONLY <1>2, <1>6, <2>2, <2>4 DEF OccursAt
  <2>6. Goes(st, s, u + 1, o + 1)
    BY <1>7, <1>10, Zenon DEF Onward, Goes
  <2>7. ~(u = Len(s)) /\ ~(o = Len(w))
    BY ONLY <1>2, <1>6, <1>10, <2>5
  <2>. QED  BY <1>4, <1>10, <2>5, <2>6, <2>7, Zenon DEF Forth
<1>11. CASE u = Len(s) /\ ~Rewrites(st, s, u)
  <2>1. rest[u] = <<>>
    BY <1>5, <1>11, Zenon DEF Steps
  <2>2. Follows(w, o, <<>>)
    BY <1>4, <2>1, Zenon
  <2>3. o = Len(w)
    BY ONLY <1>2, <1>6, <2>2 DEF Follows
  <2>. QED  BY <1>4, <1>11, <2>3, Zenon DEF Forth
<1>12. u = Len(s) \/ u < Len(s)
  BY <1>2, <1>6
<1>. QED  BY <1>9, <1>10, <1>11, <1>12

LEMMA StepBack ==
    ASSUME NEW st, NEW s, NEW w, Makes(st, s, w), NEW u, NEW o, Goes(st, s, u, o),
           ~(u = 0 /\ o = 0)
    PROVE  Back(st, s, w, u, o)
<1>. DEFINE k == Len(st.source)
            r == Replacement(st)
<1>1. IsSimple(st) /\ s \in Seq(Byte) /\ w \in Seq(Byte)
  BY DEF Makes
<1>2. k \in Nat /\ Len(r) \in Nat /\ Len(s) \in Nat /\ Len(w) \in Nat
  BY <1>1, SimpleIs, LenProperties
<1>3. PICK y \in Trace(st, s) : y[1] < Len(s) /\ <<u, o>> = Onward(st, s, y)
  <2>1. <<u, o>> # <<0, 0>> /\ <<u, o>> \in Trace(st, s)
    BY DEF Goes
  <2>. QED  BY <1>1, <2>1, TraceBefore, Zenon
<1>. DEFINE a == y[1]
            b == y[2]
<1>4. a \in Nat /\ b \in Nat /\ y = <<a, b>>
  <2>1. y \in Nat \X Nat
    BY <1>1, TraceClosed
  <2>. QED  BY <2>1
<1>5. Goes(st, s, a, b)
  BY <1>4 DEF Goes
<1>6. /\ Rewrites(st, s, a) => u = a + k /\ o = b + Len(r)
      /\ ~Rewrites(st, s, a) => u = a + 1 /\ o = b + 1
  BY <1>3 DEF Onward
<1>7. Forth(st, s, w, a, b)
  BY <1>5, StepForth
<1>8. a < Len(s)
  BY <1>3
<1>. HIDE DEF a, b, k, r
<1>9. CASE Rewrites(st, s, a)
  <2>1. u - k = a /\ o - Len(r) = b
    BY <1>2, <1>4, <1>6, <1>9
  <2>. QED  BY <1>5, <1>7, <1>9, <2>1 DEF Forth, Back, k, r
<1>10. CASE ~Rewrites(st, s, a)
  <2>1. u - 1 = a /\ o - 1 = b /\ u = a + 1 /\ o = b + 1 /\ a # Len(s)
    BY <1>2, <1>4, <1>6, <1>8, <1>10
  <2>. QED  BY <1>5, <1>7, <1>10, <2>1 DEF Forth, Back
<1>. QED  BY <1>9, <1>10

LEMMA Where ==
    ASSUME NEW st, NEW s, NEW w, Makes(st, s, w), NEW p \in 0..Len(w)
    PROVE  \/ \E u \in Nat : Goes(st, s, u, p)
           \/ \E u \in Nat, d \in 1..(Len(Replacement(st)) - 1) :
                Inside(st, s, w, p, u, d)
<1>. DEFINE r == Replacement(st)
            Found(i) == \/ \E u \in Nat : Goes(st, s, u, i)
                        \/ \E u \in Nat, d \in 1..(Len(r) - 1) :
                             Inside(st, s, w, i, u, d)
            T == {i \in Nat : i =< Len(w) => Found(i)}
<1>1. IsSimple(st) /\ s \in Seq(Byte) /\ w \in Seq(Byte)
  BY DEF Makes
<1>2. /\ Len(r) \in Nat /\ Len(r) > 0 /\ Len(s) \in Nat /\ Len(w) \in Nat
      /\ Len(st.source) \in Nat
  BY <1>1, SimpleIs, LenProperties
<1>3. Goes(st, s, 0, 0)
  BY <1>1, TraceClosed DEF Goes, IsClosed
<1>4. ASSUME NEW i \in Nat, i \in T PROVE i + 1 \in T
  <2>. SUFFICES ASSUME i + 1 =< Len(w) PROVE Found(i + 1)
    BY DEF T
  <2>1. Found(i) /\ i < Len(w) /\ i \in 0..Len(w)
    <3>1. i =< Len(w) /\ i < Len(w) /\ i \in 0..Len(w)
      BY <1>2
    <3>. QED  BY <1>4, <3>1
  <2>2. CASE \E u \in Nat : Goes(st, s, u, i)
    <3>1. PICK u \in Nat : Goes(st, s, u, i)
      BY <2>2
    <3>2. Forth(st, s, w, u, i)
      BY <3>1, StepForth
    <3>3. ~(i = Len(w))
      BY <1>2, <2>1
    <3>4. CASE Rewrites(st, s, u)
      <4>1. /\ OccursAt(w, i, r)
            /\ Goes(st, s, u + Len(st.source), i + Len(r))
        BY <3>2, <3>4 DEF Forth
      <4>2. CASE Len(r) = 1
        <5>1. Goes(st, s, u + Len(st.source), i + 1) /\ u + Len(st.source) \in Nat
          BY <1>2, <4>1, <4>2
        <5>. QED  BY <5>1
      <4>3. CASE Len(r) # 1
        <5>1. 1 \in 1..(Len(r) - 1)
          <6>1. \A l \in Nat : l > 0 /\ l # 1 => 1 \in 1..(l - 1)
            BY ONLY TRUE
          <6>. QED  BY <1>2, <4>3, <6>1, Zenon
        <5>2. (i + 1) - 1 = i
          BY ONLY i \in Nat
        <5>3. Inside(st, s, w, i + 1, u, 1)
          BY <2>1, <3>1, <3>4, <4>1, <5>2 DEF Inside
        <5>. QED  BY <5>1, <5>3
      <4>. QED  BY <4>2, <4>3
    <3>5. CASE ~Rewrites(st, s, u)
      <4>1. Goes(st, s, u + 1, i + 1)
        BY <3>2, <3>3, <3>5 DEF Forth
      <4>. QED  BY <4>1
    <3>. QED  BY <3>4, <3>5
  <2>3. CASE \E u \in Nat, d \in 1..(Len(r) - 1) : Inside(st, s, w, i, u, d)
    <3>1. PICK u \in Nat, d \in 1..(Len(r) - 1) : Inside(st, s, w, i, u, d)
      BY <2>3
    <3>2. (i + 1) - (d + 1) = i - d /\ d \in Nat
      OBVIOUS
    <3>3. Forth(st, s, w, u, i - d) /\ Rewrites(st, s, u)
      BY <3>1, StepForth DEF Inside
    <3>4. CASE d + 1 = Len(r)
      <4>1. Goes(st, s, u + Len(st.source), (i - d) + Len(r))
        BY <3>3 DEF Forth
      <4>2. (i - d) + Len(r) = i + 1 /\ u + Len(st.source) \in Nat
        <5>. HIDE DEF r
        <5>. QED  BY <1>2, <3>4
      <4>. QED  BY <4>1, <4>2
    <3>5. CASE d + 1 # Len(r)
      <4>1. d + 1 \in 1..(Len(r) - 1)
        <5>. HIDE DEF r
        <5>. QED  BY <1>2, <3>5
      <4>2. Inside(st, s, w, i + 1, u, d + 1)
        BY <3>1, <3>2 DEF Inside
      <4>. QED  BY <4>1, <4>2
    <3>. QED  BY <3>4, <3>5
  <2>. QED  BY <2>1, <2>2, <2>3
<1>5. 0 \in T
  BY <1>3
<1>6. Nat \subseteq T
  <2>. HIDE DEF T
  <2>. QED  BY <1>4, <1>5, SetInduction
<1>7. p \in T /\ p =< Len(w)
  BY <1>2, <1>6
<1>. QED  BY <1>7 DEF T

(* A text that the stage returns is there in what it was given, symbol by   *)
(* symbol, or overlaps a replacement, at offset d of it.                   *)
Copied(st, s, w, u, p, z) ==
    /\ OccursAt(s, u, z) /\ ~Rewrites(st, s, u)
    /\ Goes(st, s, u, p) /\ Goes(st, s, u + Len(z), p + Len(z))

Overlaps(st, s, w, u, p, d) ==
    /\ p - d \in 0..Len(w) /\ Rewrites(st, s, u) /\ Goes(st, s, u, p - d)
    /\ OccursAt(w, p - d, Replacement(st))

LEMMA Pulled ==
    ASSUME NEW st, NEW s, NEW w, Makes(st, s, w),
           NEW z \in Seq(Byte), Len(z) > 0, NEW p \in Nat, OccursAt(w, p, z),
           NEW offsets, Apart(Replacement(st), z, offsets)
    PROVE  \/ \E u \in Nat : Copied(st, s, w, u, p, z)
           \/ \E u \in Nat, d \in offsets : Overlaps(st, s, w, u, p, d)
<1>. SUFFICES ASSUME \A u \in Nat, d \in offsets : ~Overlaps(st, s, w, u, p, d)
              PROVE  \E u \in Nat : Copied(st, s, w, u, p, z)
  OBVIOUS
<1>. DEFINE r == Replacement(st)
            n == Len(z)
<1>1. IsSimple(st) /\ s \in Seq(Byte) /\ w \in Seq(Byte)
  BY DEF Makes
<1>2. /\ Len(r) \in Nat /\ Len(r) > 0 /\ Len(s) \in Nat /\ Len(w) \in Nat
      /\ n \in Nat /\ n > 0
  BY <1>1, SimpleIs, LenProperties
<1>3. p + n =< Len(w) /\ \A k \in 1..n : w[p + k] = z[k]
  BY DEF OccursAt
<1>4. ASSUME NEW u \in Nat, NEW d \in (1 - n)..(Len(r) - 1), p - d \in 0..Len(w),
             Rewrites(st, s, u), Goes(st, s, u, p - d), OccursAt(w, p - d, r)
      PROVE  FALSE
  <2>1. d \notin offsets
    BY <1>4 DEF Overlaps
  <2>2. ClashAt(r, d, z)
    BY <2>1 DEF Apart
  <2>3. d \in Int /\ p - d \in Int /\ (p - d) + d = p
    BY <1>2
  <2>. QED  BY <1>4, <2>2, <2>3, NoClash
<1>5. \E u \in Nat : Goes(st, s, u, p)
  <2>1. p \in 0..Len(w)
    BY <1>2, <1>3
  <2>2. ASSUME NEW u \in Nat, NEW d \in 1..(Len(r) - 1), Inside(st, s, w, p, u, d)
        PROVE  FALSE
    <3>1. d \in (1 - n)..(Len(r) - 1)
      <4>. HIDE DEF n, r
      <4>. QED  BY <1>2
    <3>. QED  BY <1>4, <2>2, <3>1 DEF Inside
  <2>. QED  BY <2>1, <2>2, Where
<1>6. PICK u \in Nat : Goes(st, s, u, p)
  BY <1>5
<1>. DEFINE Stays(k) == /\ Goes(st, s, u + k, p + k)
                        /\ \A j \in 1..k : s[u + j] = z[j]
            T == {k \in Nat : k =< n => Stays(k)}
<1>7. ASSUME NEW k \in Nat, k < n, Goes(st, s, u + k, p + k)
      PROVE  /\ ~Rewrites(st, s, u + k)
             /\ Goes(st, s, u + (k + 1), p + (k + 1))
             /\ s[u + (k + 1)] = z[k + 1]
             /\ u + k < Len(s)
  <2>1. Forth(st, s, w, u + k, p + k)
    BY <1>7, StepForth
  <2>2. ~Rewrites(st, s, u + k)
    <3>. SUFFICES ASSUME Rewrites(st, s, u + k) PROVE FALSE
      OBVIOUS
    <3>1. /\ -k \in (1 - n)..(Len(r) - 1) /\ p - (-k) = p + k /\ u + k \in Nat
          /\ p + k \in 0..Len(w)
      <4>. HIDE DEF n, r
      <4>. QED  BY <1>2, <1>3, <1>7
    <3>2. OccursAt(w, p - (-k), r) /\ Goes(st, s, u + k, p - (-k))
      BY <1>7, <2>1, <3>1 DEF Forth
    <3>. QED  BY <1>4, <3>1, <3>2
  <2>3. p + k # Len(w) /\ (u + k) + 1 = u + (k + 1) /\ (p + k) + 1 = p + (k + 1)
        /\ k + 1 \in 1..n
    <3>. HIDE DEF n, r
    <3>. QED  BY <1>2, <1>3, <1>7
  <2>4. w[p + (k + 1)] = z[k + 1]
    BY <1>3, <2>3
  <2>. QED  BY <2>1, <2>2, <2>3, <2>4 DEF Forth
<1>8. ASSUME NEW k \in Nat, k \in T PROVE k + 1 \in T
  <2>. SUFFICES ASSUME k + 1 =< n PROVE Stays(k + 1)
    <3>. HIDE DEF Stays
    <3>. QED  BY DEF T
  <2>1. k < n /\ k =< n
    BY <1>2
  <2>2. Stays(k)
    BY <1>8, <2>1
  <2>3. /\ Goes(st, s, u + (k + 1), p + (k + 1)) /\ s[u + (k + 1)] = z[k + 1]
    BY <1>7, <2>1, <2>2
  <2>4. \A j \in 1..(k + 1) : j \in 1..k \/ j = k + 1
    OBVIOUS
  <2>. QED  BY <2>2, <2>3, <2>4
<1>9. 0 \in T
  BY <1>2, <1>6
<1>10. Nat \subseteq T
  <2>. HIDE DEF T
  <2>. QED  BY <1>8, <1>9, SetInduction
<1>11. Stays(n)
  BY <1>2, <1>10
<1>12. OccursAt(s, u, z)
  <2>1. Forth(st, s, w, u + n, p + n)
    BY <1>11, StepForth
  <2>. QED  BY <1>11, <2>1 DEF Forth, OccursAt
<1>13. ~Rewrites(st, s, u)
  <2>1. 0 \in Nat /\ 0 < n /\ u + 0 = u /\ p + 0 = p
    BY <1>2
  <2>2. Goes(st, s, u + 0, p + 0)
    BY <1>6, <2>1
  <2>3. ~Rewrites(st, s, u + 0)
    BY <1>7, <2>1, <2>2
  <2>. QED  BY <2>1, <2>3
<1>. QED  BY <1>6, <1>11, <1>12, <1>13 DEF Copied

(* What is given just before a step, with no symbol of the end of a source, *)
(* is returned just before it, and the other way round.                    *)
LEMMA KeptBefore ==
    ASSUME NEW st, NEW s, NEW w, Makes(st, s, w),
           NEW y \in Seq(Byte), NEW u \in Nat, NEW p \in Nat, Goes(st, s, u, p),
           u >= Len(y), OccursAt(s, u - Len(y), y),
           \A k \in 1..Len(y) : y[k] # st.source[Len(st.source)]
    PROVE  /\ p >= Len(y) /\ OccursAt(w, p - Len(y), y)
           /\ Goes(st, s, u - Len(y), p - Len(y))
<1>. DEFINE n == Len(y)
            Stays(k) == /\ p >= k /\ Goes(st, s, u - k, p - k)
                        /\ \A j \in 1..k : w[(p - j) + 1] = y[(n - j) + 1]
            T == {k \in Nat : k =< n => Stays(k)}
<1>1. IsSimple(st) /\ s \in Seq(Byte) /\ w \in Seq(Byte)
  BY DEF Makes
<1>2. /\ Len(s) \in Nat /\ Len(w) \in Nat /\ n \in Nat
      /\ Len(st.source) \in Nat /\ Len(st.source) > 0
      /\ Len(Replacement(st)) \in Nat
  BY <1>1, SimpleIs, LenProperties
<1>3. \A k \in 1..n : s[(u - n) + k] = y[k]
  BY DEF OccursAt
<1>4. ASSUME NEW k \in Nat, k \in T PROVE k + 1 \in T
  <2>. SUFFICES ASSUME k + 1 =< n PROVE Stays(k + 1)
    <3>. HIDE DEF Stays
    <3>. QED  BY DEF T
  <2>1. Stays(k)
    BY <1>2, <1>4
  <2>2. n - k \in 1..n /\ (u - n) + (n - k) = u - k /\ u - k > 0
    BY <1>2
  <2>3. s[u - k] = y[n - k] /\ y[n - k] # st.source[Len(st.source)]
    BY <1>3, <2>2
  <2>4. Back(st, s, w, u - k, p - k)
    <3>1. ~(u - k = 0 /\ p - k = 0)
      BY <2>2
    <3>. QED  BY <2>1, <3>1, StepBack
  <2>5. ~Rewrites(st, s, (u - k) - Len(st.source))
    <3>. SUFFICES ASSUME Rewrites(st, s, (u - k) - Len(st.source)) PROVE FALSE
      OBVIOUS
    <3>. DEFINE l == Len(st.source)
    <3>1. l \in 1..l /\ ((u - k) - l) + l = u - k
      <4>. HIDE DEF l
      <4>. QED  BY <1>2 DEF l
    <3>2. s[((u - k) - l) + l] = st.source[l]
      BY <3>1 DEF Rewrites, OccursAt
    <3>. QED  BY <2>3, <3>1, <3>2
  <2>6. /\ (p - k) - 1 \in 0..Len(w) /\ w[p - k] = s[u - k]
        /\ Goes(st, s, (u - k) - 1, (p - k) - 1)
    BY <2>4, <2>5 DEF Back
  <2>7. /\ p >= k + 1 /\ (u - k) - 1 = u - (k + 1) /\ (p - k) - 1 = p - (k + 1)
        /\ (p - (k + 1)) + 1 = p - k /\ (n - (k + 1)) + 1 = n - k
    <3>. HIDE DEF n
    <3>. QED  BY ONLY <1>2, <2>6, k \in Nat, u \in Nat, p \in Nat
  <2>8. \A j \in 1..(k + 1) : j \in 1..k \/ j = k + 1
    OBVIOUS
  <2>. HIDE DEF n
  <2>. QED  BY <2>1, <2>3, <2>6, <2>7, <2>8
<1>5. 0 \in T
  BY <1>2
<1>6. Nat \subseteq T
  <2>. HIDE DEF T
  <2>. QED  BY <1>4, <1>5, SetInduction
<1>7. Stays(n)
  BY <1>2, <1>6
<1>8. OccursAt(w, p - n, y)
  <2>1. Forth(st, s, w, u, p)
    BY StepForth
  <2>2. (p - n) + n =< Len(w)
    BY <1>2, <2>1 DEF Forth
  <2>3. ASSUME NEW k \in 1..n PROVE w[(p - n) + k] = y[k]
    <3>1. (n - k) + 1 \in 1..n /\ (p - ((n - k) + 1)) + 1 = (p - n) + k
          /\ (n - ((n - k) + 1)) + 1 = k
      BY <1>2
    <3>. HIDE DEF n
    <3>. QED  BY <1>7, <3>1
  <2>. QED  BY <2>2, <2>3 DEF OccursAt
<1>. QED  BY <1>7, <1>8

LEMMA WasBefore ==
    ASSUME NEW st, NEW s, NEW w, Makes(st, s, w),
           NEW y \in Seq(Byte), NEW u \in Nat, NEW p \in Nat, Goes(st, s, u, p),
           p >= Len(y), OccursAt(w, p - Len(y), y),
           \A k \in 1..Len(y) : y[k] # Replacement(st)[Len(Replacement(st))]
    PROVE  u >= Len(y) /\ OccursAt(s, u - Len(y), y)
<1>. DEFINE n == Len(y)
            r == Replacement(st)
            l == Len(r)
            Stays(k) == /\ u >= k /\ Goes(st, s, u - k, p - k)
                        /\ \A j \in 1..k : s[(u - j) + 1] = y[(n - j) + 1]
            T == {k \in Nat : k =< n => Stays(k)}
<1>1. IsSimple(st) /\ s \in Seq(Byte) /\ w \in Seq(Byte)
  BY DEF Makes
<1>2. /\ Len(s) \in Nat /\ Len(w) \in Nat /\ n \in Nat
      /\ Len(st.source) \in Nat /\ l \in Nat /\ l > 0
  BY <1>1, SimpleIs, LenProperties
<1>3. \A k \in 1..n : w[(p - n) + k] = y[k]
  BY DEF OccursAt
<1>4. ASSUME NEW k \in Nat, k \in T PROVE k + 1 \in T
  <2>. SUFFICES ASSUME k + 1 =< n PROVE Stays(k + 1)
    <3>. HIDE DEF Stays
    <3>. QED  BY DEF T
  <2>1. Stays(k)
    <3>. HIDE DEF Stays, n
    <3>1. k =< n
      BY <1>2
    <3>. QED  BY <1>4, <3>1
  <2>2. n - k \in 1..n /\ (p - n) + (n - k) = p - k /\ p - k > 0
    BY <1>2
  <2>3. w[p - k] = y[n - k] /\ y[n - k] # r[l]
    BY <1>3, <2>2
  <2>4. Back(st, s, w, u - k, p - k)
    <3>1. ~(u - k = 0 /\ p - k = 0)
      BY <2>2
    <3>. QED  BY <2>1, <3>1, StepBack
  <2>5. ~OccursAt(w, (p - k) - l, r)
    <3>. SUFFICES ASSUME OccursAt(w, (p - k) - l, r) PROVE FALSE
      OBVIOUS
    <3>1. l \in 1..l /\ ((p - k) - l) + l = p - k
      <4>. HIDE DEF l
      <4>. QED  BY <1>2
    <3>2. w[((p - k) - l) + l] = r[l]
      BY <3>1 DEF OccursAt
    <3>. QED  BY <2>3, <3>1, <3>2
  <2>6. /\ (u - k) - 1 \in 0..Len(s) /\ w[p - k] = s[u - k]
        /\ Goes(st, s, (u - k) - 1, (p - k) - 1)
    BY <2>4, <2>5 DEF Back
  <2>7. /\ u >= k + 1 /\ (u - k) - 1 = u - (k + 1) /\ (p - k) - 1 = p - (k + 1)
        /\ (u - (k + 1)) + 1 = u - k /\ (n - (k + 1)) + 1 = n - k
    <3>. HIDE DEF n, r, l
    <3>. QED  BY ONLY <1>2, <2>6, k \in Nat, u \in Nat, p \in Nat
  <2>8. \A j \in 1..(k + 1) : j \in 1..k \/ j = k + 1
    OBVIOUS
  <2>. HIDE DEF n
  <2>. QED  BY <2>1, <2>3, <2>6, <2>7, <2>8
<1>5. 0 \in T
  BY <1>2
<1>6. Nat \subseteq T
  <2>. HIDE DEF T
  <2>. QED  BY <1>4, <1>5, SetInduction
<1>7. Stays(n)
  BY <1>2, <1>6
<1>8. OccursAt(s, u - n, y)
  <2>1. Forth(st, s, w, u, p)
    BY StepForth
  <2>2. (u - n) + n =< Len(s)
    BY <1>2, <2>1 DEF Forth
  <2>3. ASSUME NEW k \in 1..n PROVE s[(u - n) + k] = y[k]
    <3>1. (n - k) + 1 \in 1..n /\ (u - ((n - k) + 1)) + 1 = (u - n) + k
          /\ (n - ((n - k) + 1)) + 1 = k
      BY <1>2
    <3>. HIDE DEF n
    <3>. QED  BY <1>7, <3>1
  <2>. QED  BY <2>2, <2>3 DEF OccursAt
<1>. QED  BY <1>7, <1>8

(* The same for what is given behind a step, of symbols that begin no source. *)
LEMMA KeptAfter ==
    ASSUME NEW st, NEW s, NEW w, Makes(st, s, w),
           NEW y \in Seq(Byte), NEW u \in Nat, NEW p \in Nat, Goes(st, s, u, p),
           OccursAt(s, u, y), \A k \in 1..Len(y) : y[k] # st.source[1]
    PROVE  OccursAt(w, p, y)
<1>. DEFINE n == Len(y)
            Stays(k) == /\ Goes(st, s, u + k, p + k)
                        /\ \A j \in 1..k : w[p + j] = y[j]
            T == {k \in Nat : k =< n => Stays(k)}
<1>1. IsSimple(st) /\ s \in Seq(Byte) /\ w \in Seq(Byte)
  BY DEF Makes
<1>2. /\ Len(s) \in Nat /\ Len(w) \in Nat /\ n \in Nat
      /\ Len(st.source) \in Nat /\ Len(st.source) > 0
  BY <1>1, SimpleIs, LenProperties
<1>3. u + n =< Len(s) /\ \A k \in 1..n : s[u + k] = y[k]
  BY DEF OccursAt
<1>4. ASSUME NEW k \in Nat, k \in T PROVE k + 1 \in T
  <2>. SUFFICES ASSUME k + 1 =< n PROVE Stays(k + 1)
    <3>. HIDE DEF Stays
    <3>. QED  BY DEF T
  <2>1. Stays(k)
    BY <1>2, <1>4
  <2>2. k + 1 \in 1..n /\ (u + k) + 1 = u + (k + 1) /\ (p + k) + 1 = p + (k + 1)
        /\ u + k # Len(s)
    <3>. HIDE DEF n
    <3>. QED  BY <1>2, <1>3
  <2>3. s[(u + k) + 1] = y[k + 1] /\ y[k + 1] # st.source[1]
    BY <1>3, <2>2
  <2>4. Forth(st, s, w, u + k, p + k)
    BY <2>1, StepForth
  <2>5. ~Rewrites(st, s, u + k)
    <3>1. 1 \in 1..Len(st.source)
      BY <1>2
    <3>2. Rewrites(st, s, u + k) => s[(u + k) + 1] = st.source[1]
      BY <3>1 DEF Rewrites, OccursAt
    <3>. QED  BY <2>3, <3>2
  <2>6. w[p + (k + 1)] = y[k + 1] /\ Goes(st, s, u + (k + 1), p + (k + 1))
    BY <2>2, <2>3, <2>4, <2>5 DEF Forth
  <2>7. \A j \in 1..(k + 1) : j \in 1..k \/ j = k + 1
    OBVIOUS
  <2>. HIDE DEF n
  <2>. QED  BY <2>1, <2>6, <2>7
<1>5. 0 \in T
  BY <1>2
<1>6. Nat \subseteq T
  <2>. HIDE DEF T
  <2>. QED  BY <1>4, <1>5, SetInduction
<1>7. Stays(n)
  BY <1>2, <1>6
<1>8. Forth(st, s, w, u + n, p + n)
  BY <1>7, StepForth
<1>. QED  BY <1>2, <1>7, <1>8 DEF Forth, OccursAt

-----------------------------------------------------------------------------
(* Nothing left to rewrite                                                 *)

(* No occurrence in s would be rewritten. *)
Settled(st, s) == \A p \in 0..Len(s) : ~Rewrites(st, s, p)

LEMMA NothingToRewrite ==
    ASSUME NEW st, NEW s, NEW w, Makes(st, s, w), Settled(st, s)
    PROVE  w = s
<1>. DEFINE T == {k \in Nat : k =< Len(s) => Goes(st, s, k, k)}
<1>1. IsSimple(st) /\ s \in Seq(Byte) /\ w \in Seq(Byte)
  BY DEF Makes
<1>2. Len(s) \in Nat /\ Len(w) \in Nat
  BY <1>1
<1>3. 0 \in T
  BY <1>1, TraceClosed DEF Goes, IsClosed
<1>4. ASSUME NEW k \in Nat, k < Len(s), Goes(st, s, k, k)
      PROVE  Goes(st, s, k + 1, k + 1) /\ w[k + 1] = s[k + 1]
  <2>1. Forth(st, s, w, k, k) /\ ~Rewrites(st, s, k) /\ k # Len(s)
    <3>1. k \in 0..Len(s) /\ k # Len(s)
      BY <1>2, <1>4
    <3>. QED  BY <1>4, <3>1, StepForth DEF Settled
  <2>. QED  BY <2>1 DEF Forth
<1>5. ASSUME NEW k \in Nat, k \in T PROVE k + 1 \in T
  <2>1. k + 1 =< Len(s) => k < Len(s) /\ k =< Len(s)
    BY <1>2
  <2>. QED  BY <1>4, <1>5, <2>1
<1>6. Nat \subseteq T
  <2>. HIDE DEF T
  <2>. QED  BY <1>3, <1>5, SetInduction
<1>7. \A k \in 0..Len(s) : Goes(st, s, k, k)
  BY <1>2, <1>6
<1>8. Len(w) = Len(s)
  <2>1. Len(s) \in 0..Len(s)
    BY <1>2
  <2>2. Forth(st, s, w, Len(s), Len(s))
    BY <1>7, <2>1, StepForth
  <2>. QED  BY <2>2 DEF Forth
<1>9. ASSUME NEW i \in 1..Len(s) PROVE w[i] = s[i]
  <2>1. i - 1 \in Nat /\ i - 1 < Len(s) /\ i - 1 \in 0..Len(s) /\ (i - 1) + 1 = i
    BY <1>2
  <2>2. w[(i - 1) + 1] = s[(i - 1) + 1]
    BY <1>4, <1>7, <2>1
  <2>. QED  BY <2>1, <2>2
<1>. QED  BY <1>1, <1>2, <1>8, <1>9

(* A stage leaves the sources of t alone, and the texts that they carry: it *)
(* writes no other source than at these offsets of its replacement, and    *)
(* takes nothing away that t has inserted.                                 *)
Spares(st, t, offsets) ==
    /\ Apart(Replacement(st), t.source, offsets)
    /\ t.mode = "prepend" =>
         \A k \in 1..Len(t.inserted) : t.inserted[k] # st.source[Len(st.source)]
    /\ t.mode = "append" =>
         \A k \in 1..Len(t.inserted) : t.inserted[k] # st.source[1]

LEMMA Spared ==
    ASSUME NEW st, NEW s, NEW w, Makes(st, s, w),
           NEW t, IsStage(t), t.mode # "buffered",
           NEW offsets, Spares(st, t, offsets),
           \A u \in 0..Len(s) :
             OccursAt(s, u, t.source) /\ ~Rewrites(st, s, u) => Carries(t, s, u),
           \A d \in offsets, p \in 0..Len(w) :
             p - d \in 0..Len(w) /\ OccursAt(w, p - d, Replacement(st)) =>
               Carries(t, w, p)
    PROVE  Settled(t, w)
<1>. SUFFICES ASSUME NEW p \in 0..Len(w), OccursAt(w, p, t.source)
              PROVE  Carries(t, w, p)
  BY DEF Settled, Rewrites
<1>. DEFINE z == t.source
            y == t.inserted
<1>1. /\ z \in Seq(Byte) /\ Len(z) > 0 /\ y \in Seq(Byte)
      /\ Len(z) \in Nat /\ Len(y) \in Nat
  BY LenProperties DEF IsStage
<1>2. s \in Seq(Byte) /\ Len(s) \in Nat /\ p \in Nat
  BY DEF Makes
<1>3. Apart(Replacement(st), z, offsets)
  BY DEF Spares
<1>4. CASE \E u \in Nat, d \in offsets : Overlaps(st, s, w, u, p, d)
  BY <1>4 DEF Overlaps
<1>5. CASE \E u \in Nat : Copied(st, s, w, u, p, z)
  <2>1. PICK u \in Nat : Copied(st, s, w, u, p, z)
    BY <1>5
  <2>2. /\ OccursAt(s, u, z) /\ ~Rewrites(st, s, u) /\ Goes(st, s, u, p)
        /\ Goes(st, s, u + Len(z), p + Len(z))
    BY <2>1 DEF Copied
  <2>3. u \in 0..Len(s)
    <3>. HIDE DEF z
    <3>. QED  BY <1>1, <1>2, <2>2 DEF OccursAt
  <2>4. Carries(t, s, u)
    BY <2>2, <2>3
  <2>5. CASE t.mode = "prepend"
    <3>1. u >= Len(y) /\ OccursAt(s, u - Len(y), y)
      BY <2>4, <2>5 DEF Carries
    <3>2. \A k \in 1..Len(y) : y[k] # st.source[Len(st.source)]
      BY <2>5 DEF Spares
    <3>. HIDE DEF y, z
    <3>3. p >= Len(y) /\ OccursAt(w, p - Len(y), y)
      BY <1>1, <1>2, <2>2, <3>1, <3>2, KeptBefore
    <3>. QED  BY <2>5, <3>3 DEF Carries, y
  <2>6. CASE t.mode = "append"
    <3>1. OccursAt(s, u + Len(z), y)
      BY <2>4, <2>6 DEF Carries
    <3>2. \A k \in 1..Len(y) : y[k] # st.source[1]
      BY <2>6 DEF Spares
    <3>. HIDE DEF y, z
    <3>3. OccursAt(w, p + Len(z), y)
      <4>1. u + Len(z) \in Nat /\ p + Len(z) \in Nat
        BY <1>1, <1>2
      <4>. QED  BY <1>1, <2>2, <3>1, <3>2, <4>1, KeptAfter
    <3>. QED  BY <2>6, <3>3 DEF Carries, y, z
  <2>. QED  BY <2>4, <2>5, <2>6 DEF Carries
<1>6. \/ \E u \in Nat : Copied(st, s, w, u, p, z)
      \/ \E u \in Nat, d \in offsets : Overlaps(st, s, w, u, p, d)
  <2>. HIDE DEF z
  <2>1. OccursAt(w, p, z)
    BY DEF z
  <2>. QED  BY <1>1, <1>2, <1>3, <2>1, Pulled
<1>. QED  BY <1>4, <1>5, <1>6

(* What was settled before another stage is settled behind it.             *)
LEMMA StaysSettled ==
    ASSUME NEW st, NEW s, NEW w, Makes(st, s, w),
           NEW t, IsStage(t), t.mode # "buffered",
           Settled(t, s), Spares(st, t, {})
    PROVE  Settled(t, w)
BY Spared DEF Settled, Rewrites

(* What a stage returns is settled for it. *)
LEMMA SettlesExact ==
    ASSUME NEW st, NEW s, NEW w, Makes(st, s, w), st.mode = "exact",
           Apart(Replacement(st), st.source, {})
    PROVE  Settled(st, w)
<1>1. IsStage(st) /\ st.mode # "buffered"
  BY SimpleIs DEF Makes
<1>2. Spares(st, st, {})
  BY DEF Spares
<1>. QED  BY <1>1, <1>2, Spared DEF Rewrites

LEMMA SettlesPrepend ==
    ASSUME NEW st, NEW s, NEW w, Makes(st, s, w), st.mode = "prepend",
           Spares(st, st, {Len(st.inserted)})
    PROVE  Settled(st, w)
<1>. DEFINE y == st.inserted
            x == st.source
<1>1. IsStage(st) /\ st.mode # "buffered" /\ w \in Seq(Byte)
  BY SimpleIs DEF Makes
<1>2. y \in Seq(Byte) /\ x \in Seq(Byte) /\ Len(y) \in Nat
  BY <1>1, LenProperties DEF IsStage
<1>3. ASSUME NEW d \in {Len(y)}, NEW p \in 0..Len(w), p - d \in 0..Len(w),
             OccursAt(w, p - d, Replacement(st))
      PROVE  Carries(st, w, p)
  <2>0. Replacement(st) = y \o x
    BY DEF Replacement
  <2>. HIDE DEF x, y
  <2>1. p - Len(y) \in Nat /\ p - d = p - Len(y) /\ p >= Len(y)
    BY <1>1, <1>2, <1>3
  <2>2. OccursAt(w, p - Len(y), y \o x)
    BY <1>3, <2>0, <2>1
  <2>3. OccursAt(w, p - Len(y), y)
    BY ONLY <1>1, <1>2, <2>1, <2>2, OccursSplit, Zenon
  <2>. QED  BY <2>1, <2>3 DEF Carries, y
<1>. QED  BY <1>1, <1>3, Spared DEF Rewrites

LEMMA SettlesAppend ==
    ASSUME NEW st, NEW s, NEW w, Makes(st, s, w), st.mode = "append",
           Spares(st, st, {0})
    PROVE  Settled(st, w)
<1>. DEFINE y == st.inserted
            x == st.source
<1>1. IsStage(st) /\ st.mode # "buffered" /\ w \in Seq(Byte)
  BY SimpleIs DEF Makes
<1>2. y \in Seq(Byte) /\ x \in Seq(Byte) /\ Len(x) \in Nat
  BY <1>1, LenProperties DEF IsStage
<1>3. ASSUME NEW d \in {0}, NEW p \in 0..Len(w), p - d \in 0..Len(w),
             OccursAt(w, p - d, Replacement(st))
      PROVE  Carries(st, w, p)
  <2>0. Replacement(st) = x \o y
    BY DEF Replacement
  <2>. HIDE DEF x, y
  <2>1. p \in Nat /\ p - d = p
    BY <1>1, <1>3
  <2>2. OccursAt(w, p, x \o y)
    BY <1>3, <2>0, <2>1
  <2>3. OccursAt(w, p + Len(x), y)
    BY ONLY <1>1, <1>2, <2>1, <2>2, OccursSplit, Zenon
  <2>. QED  BY <2>3 DEF Carries, x, y
<1>. QED  BY <1>1, <1>3, Spared DEF Rewrites

-----------------------------------------------------------------------------
(* The literals of the profiles                                            *)

(* z is x and y, symbol by symbol. *)
Joins(x, y, z) ==
    /\ Len(z) = Len(x) + Len(y)
    /\ \A i \in 1..Len(x) : z[i] = x[i]
    /\ \A i \in 1..Len(y) : z[Len(x) + i] = y[i]

LEMMA JoinIs ==
    ASSUME NEW S, NEW x \in Seq(S), NEW y \in Seq(S), NEW z \in Seq(S),
           Joins(x, y, z)
    PROVE  x \o y = z
<1>1. x \o y \in Seq(S) /\ Len(x \o y) = Len(z)
  BY DEF Joins
<1>2. ASSUME NEW i \in 1..Len(z)
      PROVE  (x \o y)[i] = z[i]
  <2>1. CASE i =< Len(x)
    BY <2>1 DEF Joins
  <2>2. CASE i > Len(x)
    <3>1. i - Len(x) \in 1..Len(y) /\ i = Len(x) + (i - Len(x))
      BY <2>2 DEF Joins
    <3>. QED  BY <3>1 DEF Joins
  <2>3. i =< Len(x) \/ i > Len(x)
    OBVIOUS
  <2>. QED  BY <2>1, <2>2, <2>3, Zenon
<1>. QED  BY <1>1, <1>2, SeqEqual

(* A stage with its literals spelled out, the replacement last. *)
Spelled(st, mode, source, inserted, new) ==
    /\ st.mode = mode /\ st.source = source /\ st.inserted = inserted
    /\ Replacement(st) = new

LEMMA ExactIs ==
    ASSUME NEW x, NEW y
    PROVE  Spelled(Exact(x, y), "exact", x, y, y)
BY DEF Spelled, Exact, Stage, Replacement

LEMMA PrependIs ==
    ASSUME NEW x
    PROVE  Spelled(Prepend(x), "prepend", x, BasePath, BasePath \o x)
BY DEF Spelled, Prepend, Stage, Replacement

LEMMA StaticIs ==
    Spelled(Prepend(StaticRoot), "prepend", <<"/", "static">>, <<"/", "base">>,
            <<"/", "base", "/", "static">>)
<1>1. Joins(<<"/", "base">>, <<"/", "static">>, <<"/", "base", "/", "static">>)
  BY DEF Joins
<1>. DEFINE S == {"/", "base", "static"}
<1>2. /\ <<"/", "base">> \in Seq(S) /\ <<"/", "static">> \in Seq(S)
      /\ <<"/", "base", "/", "static">> \in Seq(S)
  OBVIOUS
<1>. HIDE DEF S
<1>3. <<"/", "base">> \o <<"/", "static">> = <<"/", "base", "/", "static">>
  BY <1>1, <1>2, JoinIs, Zenon
<1>. QED  BY <1>3, PrependIs, Zenon DEF StaticRoot, BasePath

LEMMA AssetIs ==
    Spelled(Prepend(AssetRoot), "prepend", <<"/", "static", "asset">>, <<"/", "base">>,
            <<"/", "base", "/", "static", "asset">>)
<1>1. Joins(<<"/", "static">>, <<"asset">>, <<"/", "static", "asset">>)
  BY DEF Joins
<1>2. Joins(<<"/", "base">>, <<"/", "static", "asset">>,
            <<"/", "base", "/", "static", "asset">>)
  BY DEF Joins
<1>. DEFINE S == {"/", "base", "static", "asset"}
<1>3. /\ <<"/", "static">> \in Seq(S) /\ <<"asset">> \in Seq(S)
      /\ <<"/", "static", "asset">> \in Seq(S) /\ <<"/", "base">> \in Seq(S)
      /\ <<"/", "base", "/", "static", "asset">> \in Seq(S)
  OBVIOUS
<1>. HIDE DEF S
<1>4. <<"/", "static">> \o <<"asset">> = <<"/", "static", "asset">>
  BY <1>1, <1>3, JoinIs, Zenon
<1>5. <<"/", "base">> \o <<"/", "static", "asset">>
        = <<"/", "base", "/", "static", "asset">>
  BY <1>2, <1>3, JoinIs, Zenon
<1>. QED  BY <1>4, <1>5, PrependIs, Zenon DEF AssetRoot, StaticRoot, BasePath

LEMMA HelperIs ==
    Spelled(HelperRule, "exact", <<"helper", "(">>, <<"helper-in", "/", "base", "(">>,
            <<"helper-in", "/", "base", "(">>)
BY ExactIs, Zenon DEF HelperRule

LEMMA LegacyIs ==
    Spelled(KubekeyLegacyRoot, "exact", <<"/", "legacy">>, <<"/", "base">>,
            <<"/", "base">>)
BY ExactIs, Zenon DEF KubekeyLegacyRoot, LegacyRoot, BasePath

LEMMA AppendIs ==
    Spelled(AppendBasePath, "append", <<"host", "/">>, <<"base", "/">>,
            <<"host", "/", "base", "/">>)
<1>1. Joins(<<"base">>, <<"/">>, <<"base", "/">>)
  BY DEF Joins
<1>2. Joins(<<"host", "/">>, <<"base", "/">>, <<"host", "/", "base", "/">>)
  BY DEF Joins
<1>. DEFINE S == {"/", "base", "host"}
<1>3. /\ <<"base">> \in Seq(S) /\ <<"/">> \in Seq(S) /\ <<"base", "/">> \in Seq(S)
      /\ <<"host", "/">> \in Seq(S) /\ <<"host", "/", "base", "/">> \in Seq(S)
  OBVIOUS
<1>. HIDE DEF S
<1>4. <<"base">> \o <<"/">> = <<"base", "/">>
  BY <1>1, <1>3, JoinIs, Zenon
<1>5. <<"host", "/">> \o <<"base", "/">> = <<"host", "/", "base", "/">>
  BY <1>2, <1>3, JoinIs, Zenon
<1>6. Tail(BasePath) = <<"base">>
  BY DEF BasePath
<1>7. AppendBasePath = Stage("append", <<"host", "/">>, <<"base", "/">>)
  BY <1>4, <1>6, Zenon DEF AppendBasePath, LocationHost
<1>8. Spelled(Stage("append", <<"host", "/">>, <<"base", "/">>), "append",
              <<"host", "/">>, <<"base", "/">>, <<"host", "/">> \o <<"base", "/">>)
  BY DEF Spelled, Stage, Replacement
<1>. QED  BY <1>5, <1>7, <1>8, Zenon

LEMMA QuotedRootIs ==
    ASSUME NEW q
    PROVE  Spelled(QuotedRoot(q), "exact", <<q, "/", "proxy", q>>,
                   <<q, "/", "base", "/", "proxy", q>>,
                   <<q, "/", "base", "/", "proxy", q>>)
<1>1. Joins(<<q>>, <<"/", "proxy">>, <<q, "/", "proxy">>)
  BY DEF Joins
<1>2. Joins(<<q, "/", "proxy">>, <<q>>, <<q, "/", "proxy", q>>)
  BY DEF Joins
<1>3. Joins(<<q>>, <<"/", "base">>, <<q, "/", "base">>)
  BY DEF Joins
<1>4. Joins(<<q, "/", "base">>, <<"/", "proxy">>, <<q, "/", "base", "/", "proxy">>)
  BY DEF Joins
<1>5. Joins(<<q, "/", "base", "/", "proxy">>, <<q>>,
            <<q, "/", "base", "/", "proxy", q>>)
  BY DEF Joins
<1>. DEFINE S == {q, "/", "base", "proxy"}
<1>6. /\ <<q>> \in Seq(S) /\ <<"/", "proxy">> \in Seq(S) /\ <<"/", "base">> \in Seq(S)
      /\ <<q, "/", "proxy">> \in Seq(S) /\ <<q, "/", "proxy", q>> \in Seq(S)
  OBVIOUS
<1>7. /\ <<q, "/", "base">> \in Seq(S) /\ <<q, "/", "base", "/", "proxy">> \in Seq(S)
      /\ <<q, "/", "base", "/", "proxy", q>> \in Seq(S)
  OBVIOUS
<1>. HIDE DEF S
<1>8. <<q>> \o <<"/", "proxy">> = <<q, "/", "proxy">>
  BY <1>1, <1>6, JoinIs, Zenon
<1>9. <<q, "/", "proxy">> \o <<q>> = <<q, "/", "proxy", q>>
  BY <1>2, <1>6, JoinIs, Zenon
<1>10. <<q>> \o <<"/", "base">> = <<q, "/", "base">>
  BY <1>3, <1>6, <1>7, JoinIs, Zenon
<1>11. <<q, "/", "base">> \o <<"/", "proxy">> = <<q, "/", "base", "/", "proxy">>
  BY <1>4, <1>6, <1>7, JoinIs, Zenon
<1>12. <<q, "/", "base", "/", "proxy">> \o <<q>> = <<q, "/", "base", "/", "proxy", q>>
  BY <1>5, <1>6, <1>7, JoinIs, Zenon
<1>. QED
  BY <1>8, <1>9, <1>10, <1>11, <1>12, ExactIs, Zenon
  DEF QuotedRoot, ProxyRoot, BasePath

LEMMA AttributeRootIs ==
    ASSUME NEW h, NEW q, h = " href="
    PROVE  Spelled(AttributeRoot(q), "exact", <<h, q, "/", "proxy">>,
                   <<h, q, "/", "base", "/", "proxy">>,
                   <<h, q, "/", "base", "/", "proxy">>)
<1>1. Joins(<<h, q>>, <<"/", "proxy">>, <<h, q, "/", "proxy">>)
  BY ONLY TRUE DEF Joins
<1>2. Joins(<<h, q>>, <<"/", "base">>, <<h, q, "/", "base">>)
  BY ONLY TRUE DEF Joins
<1>3. Joins(<<h, q, "/", "base">>, <<"/", "proxy">>,
            <<h, q, "/", "base", "/", "proxy">>)
  BY ONLY TRUE DEF Joins
<1>. DEFINE S == {h, q, "/", "base", "proxy"}
<1>4. /\ <<h, q>> \in Seq(S) /\ <<"/", "proxy">> \in Seq(S) /\ <<"/", "base">> \in Seq(S)
      /\ <<h, q, "/", "proxy">> \in Seq(S) /\ <<h, q, "/", "base">> \in Seq(S)
      /\ <<h, q, "/", "base", "/", "proxy">> \in Seq(S)
  BY ONLY TRUE
<1>. HIDE DEF S
<1>5. <<h, q>> \o <<"/", "proxy">> = <<h, q, "/", "proxy">>
  BY <1>1, <1>4, JoinIs, Zenon
<1>6. <<h, q>> \o <<"/", "base">> = <<h, q, "/", "base">>
  BY <1>2, <1>4, JoinIs, Zenon
<1>7. <<h, q, "/", "base">> \o <<"/", "proxy">> = <<h, q, "/", "base", "/", "proxy">>
  BY <1>3, <1>4, JoinIs, Zenon
<1>8. AttributeRoot(q) = Exact(<<h, q>> \o <<"/", "proxy">>,
                               <<h, q>> \o <<"/", "base">> \o <<"/", "proxy">>)
  BY Zenon DEF AttributeRoot, ProxyRoot, BasePath
<1>. QED  BY <1>5, <1>6, <1>7, <1>8, ExactIs, Zenon

LEMMA ConsoleApart ==
    ASSUME NEW st, NEW t, NEW h,
           Spelled(st, "prepend", <<"/", "static">>, <<"/", "base">>,
                   <<"/", "base", "/", "static">>),
           Spelled(t, "prepend", <<"/", "static", "asset">>, <<"/", "base">>,
                   <<"/", "base", "/", "static", "asset">>),
           Spelled(h, "exact", <<"helper", "(">>, <<"helper-in", "/", "base", "(">>,
                   <<"helper-in", "/", "base", "(">>),
           IsStage(st), IsStage(t), IsStage(h)
    PROVE  /\ IsSimple(st) /\ Spares(st, st, {2})
           /\ IsSimple(t)
           /\ IsSimple(h) /\ Spares(h, st, {}) /\ Apart(Replacement(h), h.source, {})
<1>1. /\ st.mode = "prepend" /\ st.source = <<"/", "static">>
      /\ st.inserted = <<"/", "base">> /\ Replacement(st) = <<"/", "base", "/", "static">>
  BY DEF Spelled
<1>2. /\ t.mode = "prepend" /\ t.source = <<"/", "static", "asset">>
      /\ t.inserted = <<"/", "base">>
      /\ Replacement(t) = <<"/", "base", "/", "static", "asset">>
  BY DEF Spelled
<1>3. /\ h.mode = "exact" /\ h.source = <<"helper", "(">>
      /\ h.inserted = <<"helper-in", "/", "base", "(">>
      /\ Replacement(h) = <<"helper-in", "/", "base", "(">>
  BY DEF Spelled
<1>4. Apart(<<"/", "static">>, <<"/", "static">>, {0})
  BY ONLY TRUE DEF Apart, ClashAt
<1>5. Apart(<<"/", "base", "/", "static">>, <<"/", "static">>, {2})
  BY ONLY TRUE DEF Apart, ClashAt
<1>6. Apart(<<"/", "static", "asset">>, <<"/", "static", "asset">>, {0})
  BY ONLY TRUE DEF Apart, ClashAt
<1>7. Apart(<<"helper-in", "/", "base", "(">>, <<"/", "static">>, {})
  BY ONLY TRUE DEF Apart, ClashAt
<1>8. Apart(<<"helper-in", "/", "base", "(">>, <<"helper", "(">>, {})
  BY ONLY TRUE DEF Apart, ClashAt
<1>9. IsSimple(st) /\ Spares(st, st, {2})
  BY <1>1, <1>4, <1>5 DEF IsSimple, Spares
<1>10. IsSimple(t)
  BY <1>2, <1>6 DEF IsSimple
<1>11. IsSimple(h) /\ Spares(h, st, {}) /\ Apart(Replacement(h), h.source, {})
  BY <1>1, <1>3, <1>7, <1>8 DEF IsSimple, Spares
<1>. QED  BY <1>9, <1>10, <1>11

LEMMA AppendApart ==
    ASSUME NEW st, IsStage(st),
           Spelled(st, "append", <<"host", "/">>, <<"base", "/">>,
                   <<"host", "/", "base", "/">>)
    PROVE  IsSimple(st) /\ Spares(st, st, {0})
<1>1. /\ st.mode = "append" /\ st.source = <<"host", "/">>
      /\ st.inserted = <<"base", "/">> /\ Replacement(st) = <<"host", "/", "base", "/">>
  BY DEF Spelled
<1>2. Apart(<<"host", "/">>, <<"host", "/">>, {0})
  BY ONLY TRUE DEF Apart, ClashAt
<1>3. Apart(<<"host", "/", "base", "/">>, <<"host", "/">>, {0})
  BY ONLY TRUE DEF Apart, ClashAt
<1>. QED  BY <1>1, <1>2, <1>3 DEF IsSimple, Spares

LEMMA LegacyApart ==
    ASSUME NEW st, IsStage(st),
           Spelled(st, "exact", <<"/", "legacy">>, <<"/", "base">>, <<"/", "base">>)
    PROVE  IsSimple(st) /\ Apart(Replacement(st), st.source, {})
<1>1. /\ st.mode = "exact" /\ st.source = <<"/", "legacy">>
      /\ Replacement(st) = <<"/", "base">>
  BY DEF Spelled
<1>2. Apart(<<"/", "base">>, <<"/", "legacy">>, {})
  BY ONLY TRUE DEF Apart, ClashAt
<1>. QED  BY <1>1, <1>2 DEF IsSimple

(* Neither quote is a symbol of another literal. *)
IsQuote(q) == /\ q # "/" /\ q # "base" /\ q # "proxy" /\ q # "host"

LEMMA QuotesAre == /\ IsQuote("\"") /\ IsQuote("'") /\ "\"" # "'"
BY DEF IsQuote

LEMMA QuotedApart ==
    ASSUME NEW q, IsQuote(q), NEW st, IsStage(st),
           Spelled(st, "exact", <<q, "/", "proxy", q>>, <<q, "/", "base", "/", "proxy", q>>,
                   <<q, "/", "base", "/", "proxy", q>>)
    PROVE  IsSimple(st) /\ Apart(Replacement(st), st.source, {5, -3})
<1>1. /\ st.mode = "exact" /\ st.source = <<q, "/", "proxy", q>>
      /\ Replacement(st) = <<q, "/", "base", "/", "proxy", q>>
  BY DEF Spelled
<1>2. Apart(<<q, "/", "base", "/", "proxy", q>>, <<q, "/", "proxy", q>>, {5, -3})
  BY ONLY IsQuote(q) DEF Apart, ClashAt, IsQuote
<1>. QED  BY <1>1, <1>2 DEF IsSimple

LEMMA QuotedSpares ==
    ASSUME NEW q, IsQuote(q), NEW r, IsQuote(r), q # r, NEW a, NEW st, NEW t,
           Spelled(a, "append", <<"host", "/">>, <<"base", "/">>,
                   <<"host", "/", "base", "/">>),
           Spelled(st, "exact", <<q, "/", "proxy", q>>, <<q, "/", "base", "/", "proxy", q>>,
                   <<q, "/", "base", "/", "proxy", q>>),
           Spelled(t, "exact", <<r, "/", "proxy", r>>, <<r, "/", "base", "/", "proxy", r>>,
                   <<r, "/", "base", "/", "proxy", r>>)
    PROVE  Spares(st, a, {}) /\ Spares(t, st, {})
<1>1. /\ st.mode = "exact" /\ st.source = <<q, "/", "proxy", q>>
      /\ Replacement(st) = <<q, "/", "base", "/", "proxy", q>>
  BY DEF Spelled
<1>2. Replacement(t) = <<r, "/", "base", "/", "proxy", r>>
  BY DEF Spelled
<1>3. /\ a.mode = "append" /\ a.source = <<"host", "/">> /\ a.inserted = <<"base", "/">>
  BY DEF Spelled
<1>4. Apart(<<r, "/", "base", "/", "proxy", r>>, <<q, "/", "proxy", q>>, {})
  BY ONLY IsQuote(q), IsQuote(r), q # r DEF Apart, ClashAt, IsQuote
<1>5. Apart(<<q, "/", "base", "/", "proxy", q>>, <<"host", "/">>, {})
  BY ONLY IsQuote(q) DEF Apart, ClashAt, IsQuote
<1>6. Spares(t, st, {})
  BY <1>1, <1>2, <1>4 DEF Spares
<1>7. \A k \in 1..Len(<<"base", "/">>) : <<"base", "/">>[k] # <<q, "/", "proxy", q>>[1]
  BY DEF IsQuote
<1>8. Spares(st, a, {})
  BY <1>1, <1>3, <1>5, <1>7 DEF Spares
<1>. QED  BY <1>6, <1>8

LEMMA AttributeApart ==
    ASSUME NEW h, h # "/", h # "base", h # "proxy",
           NEW q, IsQuote(q), NEW r, IsQuote(r), q # r, q # h, r # h,
           NEW st, IsStage(st), NEW t,
           Spelled(st, "exact", <<h, q, "/", "proxy">>, <<h, q, "/", "base", "/", "proxy">>,
                   <<h, q, "/", "base", "/", "proxy">>),
           Spelled(t, "exact", <<h, r, "/", "proxy">>, <<h, r, "/", "base", "/", "proxy">>,
                   <<h, r, "/", "base", "/", "proxy">>)
    PROVE  /\ IsSimple(st) /\ Apart(Replacement(st), st.source, {})
           /\ Spares(t, st, {})
<1>1. /\ st.mode = "exact" /\ st.source = <<h, q, "/", "proxy">>
      /\ Replacement(st) = <<h, q, "/", "base", "/", "proxy">>
  BY DEF Spelled
<1>2. Replacement(t) = <<h, r, "/", "base", "/", "proxy">>
  BY DEF Spelled
<1>3. Apart(<<h, q, "/", "base", "/", "proxy">>, <<h, q, "/", "proxy">>, {})
  BY DEF Apart, ClashAt, IsQuote
<1>4. Apart(<<h, r, "/", "base", "/", "proxy">>, <<h, q, "/", "proxy">>, {})
  BY DEF Apart, ClashAt, IsQuote
<1>5. IsSimple(st) /\ Apart(Replacement(st), st.source, {})
  BY <1>1, <1>3 DEF IsSimple
<1>6. Spares(t, st, {})
  BY <1>1, <1>2, <1>4 DEF Spares
<1>. QED  BY <1>5, <1>6

LEMMA LegacySpares ==
    ASSUME NEW h, h # "/", h # "base", NEW q, IsQuote(q), NEW st, NEW l,
           Spelled(st, "exact", <<h, q, "/", "proxy">>, <<h, q, "/", "base", "/", "proxy">>,
                   <<h, q, "/", "base", "/", "proxy">>),
           Spelled(l, "exact", <<"/", "legacy">>, <<"/", "base">>, <<"/", "base">>)
    PROVE  Spares(l, st, {})
<1>1. st.mode = "exact" /\ st.source = <<h, q, "/", "proxy">>
  BY DEF Spelled
<1>2. Replacement(l) = <<"/", "base">>
  BY DEF Spelled
<1>3. Apart(<<"/", "base">>, <<h, q, "/", "proxy">>, {})
  BY DEF Apart, ClashAt, IsQuote
<1>. QED  BY <1>1, <1>2, <1>3 DEF Spares

(* What a quoted root is replaced by ends and begins with its quote, and    *)
(* could be part of another quoted root with what stands next to it: not   *)
(* where no two of them overlap before.                                    *)
Disjoint(s, z) ==
    \A a, b \in 0..Len(s) :
      OccursAt(s, a, z) /\ OccursAt(s, b, z) /\ a < b => a + Len(z) =< b

LEMMA SettlesQuoted ==
    ASSUME NEW st, NEW s, NEW w, Makes(st, s, w), NEW q, IsQuote(q),
           Spelled(st, "exact", <<q, "/", "proxy", q>>, <<q, "/", "base", "/", "proxy", q>>,
                   <<q, "/", "base", "/", "proxy", q>>),
           Disjoint(s, st.source)
    PROVE  Settled(st, w)
<1>1. /\ s \in Seq(Byte) /\ Len(s) \in Nat /\ Len(w) \in Nat
      /\ IsSimple(st) /\ IsStage(st)
      /\ st.source \in Seq(Byte) /\ Len(st.source) > 0
  <2>1. s \in Seq(Byte) /\ w \in Seq(Byte) /\ IsSimple(st)
    BY DEF Makes
  <2>. QED  BY <2>1, SimpleIs, LenProperties
<1>. DEFINE z == <<q, "/", "proxy", q>>
            r == <<q, "/", "base", "/", "proxy", q>>
<1>2. st.mode = "exact" /\ st.source = z /\ Replacement(st) = r
  BY DEF Spelled
<1>3. /\ Len(z) = 4 /\ z[1] = q /\ z[2] = "/" /\ z[3] = "proxy" /\ z[4] = q
      /\ Len(r) = 6 /\ r[1] = q /\ r[6] = q
  OBVIOUS
<1>4. Apart(Replacement(st), st.source, {5, -3})
  BY <1>1, QuotedApart
<1>. HIDE DEF z, r
<1>5. ASSUME NEW u \in Int
      PROVE  Rewrites(st, s, u) => OccursAt(s, u, z)
  BY <1>2 DEF Rewrites
<1>6. ASSUME NEW u \in Int, u >= 0, u + 4 =< Len(s),
             s[u + 1] = q, s[u + 2] = "/", s[u + 3] = "proxy", s[u + 4] = q
      PROVE  OccursAt(s, u, z)
  <2>1. \A k \in 1..4 : k = 1 \/ k = 2 \/ k = 3 \/ k = 4
    OBVIOUS
  <2>. QED  BY <1>3, <1>6, <2>1 DEF OccursAt
<1>7. ASSUME NEW o \in Int, OccursAt(w, o, Replacement(st))
      PROVE  w[o + 1] = q /\ w[o + 6] = q
  <2>1. 1 \in 1..Len(r) /\ 6 \in 1..Len(r)
    BY <1>3
  <2>. QED  BY <1>2, <1>3, <1>7, <2>1 DEF OccursAt
<1>8. ASSUME NEW u \in Int, OccursAt(s, u, z)
      PROVE  /\ u + 4 =< Len(s) /\ s[u + 1] = q /\ s[u + 4] = q
  <2>1. 1 \in 1..Len(z) /\ 4 \in 1..Len(z)
    BY <1>3
  <2>. QED  BY <1>3, <1>8, <2>1 DEF OccursAt
<1>9. q # "/" /\ q # "proxy"
  BY DEF IsQuote
<1>10. Len(st.source) = 4 /\ Len(Replacement(st)) = 6
  BY <1>2, <1>3
<1>11. \A a, b \in 0..Len(s) :
         OccursAt(s, a, z) /\ OccursAt(s, b, z) /\ a < b => a + 4 =< b
  BY <1>2, <1>10 DEF Disjoint
<1>12. ASSUME NEW p \in 0..Len(w), Rewrites(st, w, p)
       PROVE  FALSE
  <2>1. OccursAt(w, p, z) /\ OccursAt(w, p, st.source)
    BY <1>2, <1>12 DEF Rewrites
  <2>2. /\ p + 4 =< Len(w)
        /\ w[p + 1] = q /\ w[p + 2] = "/" /\ w[p + 3] = "proxy" /\ w[p + 4] = q
    BY <1>3, <2>1 DEF OccursAt
  <2>3. \/ \E u \in Nat : Copied(st, s, w, u, p, st.source)
        \/ \E u \in Nat, d \in {5, -3} : Overlaps(st, s, w, u, p, d)
    <3>. DEFINE offsets == {5, -3}
    <3>1. Apart(Replacement(st), st.source, offsets) /\ p \in Nat
      BY <1>4
    <3>. HIDE DEF offsets
    <3>2. \/ \E u \in Nat : Copied(st, s, w, u, p, st.source)
          \/ \E u \in Nat, d \in offsets : Overlaps(st, s, w, u, p, d)
      BY <1>1, <2>1, <3>1, Pulled, Zenon
    <3>. QED  BY <3>2, Zenon DEF offsets
  <2>4. ASSUME NEW u \in Nat, Copied(st, s, w, u, p, st.source)
        PROVE  FALSE
    BY <1>2, <2>4 DEF Copied, Rewrites, Carries
  <2>5. ASSUME NEW u \in Nat, Overlaps(st, s, w, u, p, 5)
        PROVE  FALSE
    <3>1. p - 5 \in Nat /\ Rewrites(st, s, u) /\ Goes(st, s, u, p - 5)
      BY <2>5 DEF Overlaps
    <3>2. OccursAt(s, u, z) /\ u \in Int
      BY <1>5, <3>1
    <3>3. u + 4 =< Len(s) /\ s[u + 4] = q
      BY <1>8, <3>2
    <3>4. Goes(st, s, u + 4, p + 1)
      <4>1. Forth(st, s, w, u, p - 5)
        BY <3>1, StepForth
      <4>2. Goes(st, s, u + 4, (p - 5) + 6)
        BY <1>10, <3>1, <4>1 DEF Forth
      <4>. QED  BY <4>2
    <3>5. ASSUME NEW i \in Int, NEW o \in Int, Goes(st, s, i, o), o < Len(w),
                 w[o + 1] # q
          PROVE  s[i + 1] = w[o + 1] /\ Goes(st, s, i + 1, o + 1)
      <4>1. Forth(st, s, w, i, o)
        BY <3>5, StepForth
      <4>. QED  BY <1>7, <3>5, <4>1 DEF Forth
    <3>6. s[(u + 4) + 1] = w[(p + 1) + 1] /\ Goes(st, s, (u + 4) + 1, (p + 1) + 1)
      BY <1>9, <2>2, <3>4, <3>5
    <3>7. s[u + 5] = "/" /\ Goes(st, s, u + 5, p + 2)
      BY <2>2, <3>6
    <3>8. s[(u + 5) + 1] = w[(p + 2) + 1] /\ Goes(st, s, (u + 5) + 1, (p + 2) + 1)
      BY <1>9, <2>2, <3>5, <3>7
    <3>9. s[u + 6] = "proxy" /\ Goes(st, s, u + 6, p + 3)
      BY <2>2, <3>8
    <3>10. s[u + 7] = q /\ u + 7 =< Len(s)
      <4>1. Forth(st, s, w, u + 6, p + 3)
        BY <3>9, StepForth
      <4>2. CASE Rewrites(st, s, u + 6)
        <5>1. (u + 6) + 4 =< Len(s) /\ s[(u + 6) + 1] = q
          BY <1>5, <1>8, <4>2
        <5>. QED  BY <5>1
      <4>3. CASE ~Rewrites(st, s, u + 6)
        <5>1. p + 3 # Len(w)
          BY <1>1, <2>2
        <5>2. u + 6 < Len(s) /\ w[(p + 3) + 1] = s[(u + 6) + 1]
          BY <4>1, <4>3, <5>1 DEF Forth
        <5>3. (p + 3) + 1 = p + 4 /\ (u + 6) + 1 = u + 7
          OBVIOUS
        <5>. QED  BY <1>1, <2>2, <5>2, <5>3
      <4>. QED  BY <4>2, <4>3
    <3>11. OccursAt(s, u + 3, z)
      <4>1. (u + 3) + 1 = u + 4 /\ (u + 3) + 2 = u + 5 /\ (u + 3) + 3 = u + 6
            /\ (u + 3) + 4 = u + 7 /\ u + 3 \in Int /\ u + 3 >= 0
        BY ONLY u \in Nat
      <4>2. /\ (u + 3) + 4 =< Len(s) /\ s[(u + 3) + 1] = q /\ s[(u + 3) + 2] = "/"
            /\ s[(u + 3) + 3] = "proxy" /\ s[(u + 3) + 4] = q
        BY <3>3, <3>7, <3>9, <3>10, <4>1, Zenon
      <4>. QED  BY <1>6, <4>1, <4>2, Zenon
    <3>. QED  BY <1>11, <3>2, <3>10, <3>11
  <2>6. ASSUME NEW u \in Nat, Overlaps(st, s, w, u, p, -3)
        PROVE  FALSE
    <3>1. Rewrites(st, s, u) /\ Goes(st, s, u, p + 3)
      <4>1. p - (-3) = p + 3
        OBVIOUS
      <4>. QED  BY <2>6, <4>1 DEF Overlaps
    <3>2. OccursAt(s, u, z) /\ u \in Int
      BY <1>5, <3>1
    <3>3. u + 4 =< Len(s) /\ s[u + 1] = q
      BY <1>8, <3>2
    <3>4. ASSUME NEW i \in Int, NEW o \in Int, Goes(st, s, i, o), o > 0,
                 w[o] # q
          PROVE  s[i] = w[o] /\ Goes(st, s, i - 1, o - 1)
      <4>1. Back(st, s, w, i, o)
        BY <3>4, StepBack
      <4>2. (o - 6) + 6 = o
        OBVIOUS
      <4>. QED  BY <1>7, <1>10, <3>4, <4>1, <4>2 DEF Back
    <3>5. s[u] = w[p + 3] /\ Goes(st, s, u - 1, (p + 3) - 1)
      BY <1>9, <2>2, <3>1, <3>4
    <3>6. s[u] = "proxy" /\ Goes(st, s, u - 1, p + 2)
      BY <2>2, <3>5
    <3>7. s[u - 1] = w[p + 2] /\ Goes(st, s, (u - 1) - 1, (p + 2) - 1)
      BY <1>9, <2>2, <3>4, <3>6
    <3>8. s[u - 1] = "/" /\ Goes(st, s, u - 2, p + 1)
      BY <2>2, <3>7
    <3>9. s[u - 2] = q /\ u - 3 >= 0
      <4>1. Back(st, s, w, u - 2, p + 1)
        BY <3>8, StepBack
      <4>2. CASE Rewrites(st, s, (u - 2) - 4) /\ (u - 2) - 4 \in 0..Len(s)
        <5>1. s[((u - 2) - 4) + 4] = q
          BY <1>5, <1>8, <4>2
        <5>. QED  BY <4>2, <5>1
      <4>3. CASE (u - 2) - 1 \in 0..Len(s) /\ w[p + 1] = s[u - 2]
        BY <2>2, <4>3
      <4>. QED  BY <1>10, <4>1, <4>2, <4>3 DEF Back
    <3>10. OccursAt(s, u - 3, z)
      <4>1. (u - 3) + 1 = u - 2 /\ (u - 3) + 2 = u - 1 /\ (u - 3) + 3 = u
            /\ (u - 3) + 4 = u + 1 /\ u - 3 \in Int
        BY ONLY u \in Nat
      <4>2. (u - 3) + 4 =< Len(s)
        BY ONLY <1>1, <3>3, u \in Nat
      <4>3. /\ s[(u - 3) + 1] = q /\ s[(u - 3) + 2] = "/"
            /\ s[(u - 3) + 3] = "proxy" /\ s[(u - 3) + 4] = q
        BY <3>3, <3>6, <3>8, <3>9, <4>1, Zenon
      <4>. QED  BY <1>6, <3>9, <4>1, <4>2, <4>3, Zenon
    <3>. QED  BY <1>11, <3>2, <3>3, <3>9, <3>10
  <2>. QED  BY <2>3, <2>4, <2>5, <2>6
<1>. QED  BY <1>12 DEF Settled

-----------------------------------------------------------------------------
(* The pipelines of the profiles, run again                                *)

(* The first m stages are simple, and settled in what they make together. *)
AreSettled(m) ==
    \A i \in 1..m : IsSimple(stages[i]) /\ Settled(stages[i], Composed(body, m))

LEMMA StageMakes ==
    ASSUME given \in Cases, NEW i \in 1..N, IsSimple(stages[i])
    PROVE  Makes(stages[i], Composed(body, i - 1), Composed(body, i))
<1>1. body \in Seq(Byte) /\ N \in Nat
  BY CaseFacts
<1>2. i \in 0..N /\ i - 1 \in 0..N
  BY <1>1
<1>3. Composed(body, i - 1) \in Seq(Byte) /\ Composed(body, i) \in Seq(Byte)
  BY <1>1, <1>2, ComposedIs
<1>4. Composed(body, i) = Returned(stages[i], Composed(body, i - 1), TRUE)
  BY <1>1, ComposedIs, Zenon
<1>. QED  BY <1>3, <1>4, Zenon DEF Makes

(* What stage i has settled, stage j leaves settled. *)
LEMMA StageKeeps ==
    ASSUME given \in Cases, NEW i \in 1..N, NEW j \in 1..N,
           IsSimple(stages[i]), IsSimple(stages[j]), Spares(stages[j], stages[i], {}),
           Settled(stages[i], Composed(body, j - 1))
    PROVE  Settled(stages[i], Composed(body, j))
<1>1. Makes(stages[j], Composed(body, j - 1), Composed(body, j))
  BY StageMakes
<1>2. IsStage(stages[i]) /\ stages[i].mode # "buffered"
  BY DEF IsSimple
<1>. QED  BY <1>1, <1>2, StaysSettled

(* The stage makes nothing else of s. *)
Leaves(st, s) == Returned(st, s, TRUE) = s

LEMMA LeavesSettled ==
    ASSUME NEW st, IsSimple(st), NEW s \in Seq(Byte), Settled(st, s)
    PROVE  Leaves(st, s)
<1>1. IsStage(st)
  BY DEF IsSimple
<1>2. TRUE \in BOOLEAN
  BY Zenon
<1>3. Returned(st, s, TRUE) \in Seq(Byte)
  BY <1>1, <1>2, ReturnedType, Zenon
<1>4. Makes(st, s, Returned(st, s, TRUE))
  BY <1>3, Zenon DEF Makes
<1>. QED  BY <1>4, NothingToRewrite, Zenon DEF Leaves

LEMMA RunsAgain ==
    ASSUME given \in Cases, NEW s \in Seq(Byte), \A i \in 1..N : Leaves(stages[i], s)
    PROVE  Composed(s, N) = s
<1>. DEFINE T == {k \in Nat : k =< N => Composed(s, k) = s}
<1>1. N \in Nat
  BY CaseFacts
<1>2. 0 \in T
  BY ComposedIs
<1>3. ASSUME NEW k \in Nat, k \in T
      PROVE  k + 1 \in T
  <2>. SUFFICES ASSUME k + 1 =< N PROVE Composed(s, k + 1) = s
    OBVIOUS
  <2>1. k + 1 \in 1..N /\ (k + 1) - 1 = k /\ k =< N
    BY <1>1
  <2>2. Composed(s, k) = s
    BY <1>3, <2>1
  <2>3. Composed(s, k + 1) = Returned(stages[k + 1], Composed(s, (k + 1) - 1), TRUE)
    BY <2>1, ComposedIs, Zenon
  <2>4. Leaves(stages[k + 1], s)
    BY <2>1
  <2>. QED  BY <2>1, <2>2, <2>3, <2>4, Zenon DEF Leaves
<1>4. Nat \subseteq T
  <2>. HIDE DEF T
  <2>. QED  BY <1>2, <1>3, SetInduction
<1>. QED  BY <1>1, <1>4

(* So a pipeline of simple stages that are all settled makes nothing else.  *)
LEMMA SettledAgain ==
    ASSUME given \in Cases, AreSettled(N)
    PROVE  Composed(Composed(body, N), N) = Composed(body, N)
<1>1. body \in Seq(Byte) /\ N \in Nat
  BY CaseFacts
<1>2. N \in 0..N
  BY <1>1
<1>3. Composed(body, N) \in Seq(Byte)
  BY <1>1, <1>2, ComposedIs
<1>4. \A i \in 1..N : Leaves(stages[i], Composed(body, N))
  BY <1>3, LeavesSettled DEF AreSettled
<1>. QED  BY <1>3, <1>4, RunsAgain

-----------------------------------------------------------------------------
(* Profile by profile                                                      *)


LEMMA TwoAndOne ==
    ASSUME NEW a, NEW b, NEW c
    PROVE  <<a, b>> \o <<c>> = <<a, b, c>> /\ Append(<<a, b>>, c) = <<a, b, c>>
<1>1. Joins(<<a, b>>, <<c>>, <<a, b, c>>)
  BY DEF Joins
<1>. DEFINE S == {a, b, c}
<1>2. /\ <<a, b>> \in Seq(S) /\ <<c>> \in Seq(S) /\ <<a, b, c>> \in Seq(S)
      /\ c \in S
  OBVIOUS
<1>. HIDE DEF S
<1>3. <<a, b>> \o <<c>> = <<a, b, c>>
  BY <1>1, <1>2, JoinIs, Zenon
<1>4. Append(<<a, b>>, c) = <<a, b>> \o <<c>>
  BY <1>2, AppendIsConcat, Zenon
<1>. QED  BY <1>3, <1>4, Zenon

LEMMA ThreeAndOne ==
    ASSUME NEW a, NEW b, NEW c, NEW d
    PROVE  Append(<<a, b, c>>, d) = <<a, b, c, d>>
<1>1. Joins(<<a, b, c>>, <<d>>, <<a, b, c, d>>)
  BY DEF Joins
<1>. DEFINE S == {a, b, c, d}
<1>2. /\ <<a, b, c>> \in Seq(S) /\ <<d>> \in Seq(S) /\ <<a, b, c, d>> \in Seq(S)
      /\ d \in S
  OBVIOUS
<1>. HIDE DEF S
<1>3. <<a, b, c>> \o <<d>> = <<a, b, c, d>>
  BY <1>1, <1>2, JoinIs, Zenon
<1>4. Append(<<a, b, c>>, d) = <<a, b, c>> \o <<d>>
  BY <1>2, AppendIsConcat, Zenon
<1>. QED  BY <1>3, <1>4, Zenon

LEMMA ConsoleIs ==
    ASSUME NEW kubekey
    PROVE  StagesOf("ConsoleV3", kubekey)
             = <<Prepend(AssetRoot), Prepend(StaticRoot), HelperRule>>
BY Zenon DEF StagesOf

LEMMA PipelinesAre ==
    ASSUME NEW pipeline \in ProfilePipelines,
           NEW a, NEW b, a = AttributeRoot("\""), b = AttributeRoot("'")
    PROVE  \/ pipeline = <<Prepend(AssetRoot), Prepend(StaticRoot), HelperRule>>
           \/ pipeline = <<AppendBasePath>>
           \/ pipeline = <<AppendBasePath, QuotedRoot("\""), QuotedRoot("'")>>
           \/ pipeline = <<KubekeyLegacyRoot>>
           \/ pipeline = <<a, b>>
           \/ pipeline = <<a, b, KubekeyLegacyRoot>>
           \/ pipeline = <<a, b, Buffered>>
           \/ pipeline = <<a, b, KubekeyLegacyRoot, Buffered>>
<1>1. \E profile \in AllProfiles, kubekey \in BOOLEAN :
        pipeline = StagesOf(profile, kubekey)
  BY ONLY pipeline \in ProfilePipelines DEF ProfilePipelines
<1>2. PICK profile \in AllProfiles, kubekey \in BOOLEAN :
             pipeline = StagesOf(profile, kubekey)
  BY <1>1, Zenon
<1>3. CASE profile = "ConsoleV3"
  BY <1>2, <1>3, ConsoleIs, Zenon
<1>4. CASE profile \in {"FrontendIndexJsBundle", "JsBundle"}
  <2>1. pipeline = <<AppendBasePath>>
    BY <1>2, <1>4, Zenon DEF StagesOf
  <2>. QED  BY <2>1, Zenon
<1>5. CASE profile = "Ys1000FrontendIndexJsBundle"
  <2>1. pipeline = <<AppendBasePath, QuotedRoot("\""), QuotedRoot("'")>>
    BY <1>2, <1>5, Zenon DEF StagesOf
  <2>. QED  BY <2>1, Zenon
<1>6. CASE profile = "KubekeyAssetJs"
  <2>1. pipeline = <<KubekeyLegacyRoot>>
    BY <1>2, <1>6, Zenon DEF StagesOf
  <2>. QED  BY <2>1, Zenon
<1>7. <<a, b>> \o <<>> = <<a, b>>
  BY ONLY TRUE
<1>8. <<a, b>> \o <<KubekeyLegacyRoot>> = <<a, b, KubekeyLegacyRoot>>
  BY TwoAndOne, Zenon
<1>9. CASE profile = "NamedProxyHtml"
  <2>1. kubekey => pipeline = <<a, b>> \o <<KubekeyLegacyRoot>>
    BY <1>2, <1>9, Zenon DEF StagesOf
  <2>2. ~kubekey => pipeline = <<a, b>> \o <<>>
    BY <1>2, <1>9, Zenon DEF StagesOf
  <2>. QED  BY <1>7, <1>8, <2>1, <2>2, Zenon
<1>10. CASE profile = "Ys1000Html"
  <2>1. kubekey => pipeline = Append(<<a, b>> \o <<KubekeyLegacyRoot>>, Buffered)
    BY <1>2, <1>10, Zenon DEF StagesOf
  <2>2. ~kubekey => pipeline = Append(<<a, b>> \o <<>>, Buffered)
    BY <1>2, <1>10, Zenon DEF StagesOf
  <2>3. Append(<<a, b>>, Buffered) = <<a, b, Buffered>>
    BY TwoAndOne, Zenon
  <2>4. Append(<<a, b, KubekeyLegacyRoot>>, Buffered)
          = <<a, b, KubekeyLegacyRoot, Buffered>>
    BY ThreeAndOne, Zenon
  <2>. QED  BY <1>7, <1>8, <2>1, <2>2, <2>3, <2>4, Zenon
<1>. QED  BY <1>3, <1>4, <1>5, <1>6, <1>9, <1>10, Zenon DEF AllProfiles

LEMMA StageAt ==
    ASSUME NEW a, NEW b, NEW c, NEW d
    PROVE  /\ stages = <<a>> => N = 1 /\ stages[1] = a
           /\ stages = <<a, b>> => N = 2 /\ stages[1] = a /\ stages[2] = b
           /\ stages = <<a, b, c>> =>
                N = 3 /\ stages[1] = a /\ stages[2] = b /\ stages[3] = c
           /\ stages = <<a, b, c, d>> =>
                N = 4 /\ stages[1] = a /\ stages[2] = b /\ stages[3] = c /\ stages[4] = d
BY DEF N

(* The asset root begins with the static root. *)
LEMMA AssetSettled ==
    ASSUME NEW s \in Seq(Byte), NEW t, NEW st,
           Spelled(st, "prepend", <<"/", "static">>, <<"/", "base">>,
                   <<"/", "base", "/", "static">>),
           Spelled(t, "prepend", <<"/", "static", "asset">>, <<"/", "base">>,
                   <<"/", "base", "/", "static", "asset">>),
           Settled(st, s)
    PROVE  Settled(t, s)
<1>1. /\ st.mode = "prepend" /\ st.source = <<"/", "static">>
      /\ t.mode = "prepend" /\ t.source = <<"/", "static", "asset">>
      /\ st.inserted = <<"/", "base">> /\ t.inserted = <<"/", "base">>
  BY DEF Spelled
<1>2. ASSUME NEW p \in 0..Len(s), Rewrites(t, s, p)
      PROVE  FALSE
  <2>1. OccursAt(s, p, <<"/", "static", "asset">>)
    BY <1>1, <1>2 DEF Rewrites
  <2>2. OccursAt(s, p, <<"/", "static">>)
    BY <2>1 DEF OccursAt
  <2>3. Carries(st, s, p)
    BY <1>1, <2>2 DEF Settled, Rewrites
  <2>4. Carries(t, s, p)
    BY <1>1, <2>3 DEF Carries
  <2>. QED  BY <1>2, <2>4 DEF Rewrites
<1>. QED  BY <1>2 DEF Settled

LEMMA ConsoleSettles ==
    ASSUME given \in Cases,
           stages = <<Prepend(AssetRoot), Prepend(StaticRoot), HelperRule>>
    PROVE  N = 3 /\ AreSettled(3)
<1>. DEFINE t  == stages[1]
            st == stages[2]
            h  == stages[3]
<1>1. /\ N = 3
      /\ t = Prepend(AssetRoot) /\ st = Prepend(StaticRoot) /\ h = HelperRule
  BY StageAt, Zenon
<1>2. 1 \in 1..N /\ 2 \in 1..N /\ 3 \in 1..N /\ 2 \in 0..N /\ 3 \in 0..N
  BY <1>1
<1>3. IsStage(t) /\ IsStage(st) /\ IsStage(h)
  BY <1>2, StagesAre
<1>4. /\ Spelled(st, "prepend", <<"/", "static">>, <<"/", "base">>,
                 <<"/", "base", "/", "static">>)
      /\ Spelled(t, "prepend", <<"/", "static", "asset">>, <<"/", "base">>,
                 <<"/", "base", "/", "static", "asset">>)
      /\ Spelled(h, "exact", <<"helper", "(">>, <<"helper-in", "/", "base", "(">>,
                 <<"helper-in", "/", "base", "(">>)
  BY <1>1, StaticIs, AssetIs, HelperIs, Zenon
<1>. HIDE DEF t, st, h
<1>5. /\ IsSimple(st) /\ Spares(st, st, {2}) /\ IsSimple(t)
      /\ IsSimple(h) /\ Spares(h, st, {}) /\ Apart(Replacement(h), h.source, {})
  BY <1>3, <1>4, ConsoleApart, Zenon
<1>6. body \in Seq(Byte)
  BY CaseFacts
<1>7. Composed(body, 3) \in Seq(Byte)
  BY <1>2, <1>6, ComposedIs, Zenon
<1>8. /\ Makes(st, Composed(body, 2 - 1), Composed(body, 2))
      /\ Makes(h, Composed(body, 3 - 1), Composed(body, 3))
  BY <1>2, <1>5, StageMakes, Zenon DEF st, h
<1>9. Settled(st, Composed(body, 2))
  <2>1. st.mode = "prepend" /\ Len(st.inserted) = 2
    BY <1>4 DEF Spelled
  <2>. QED  BY <1>5, <1>8, <2>1, SettlesPrepend
<1>10. Settled(st, Composed(body, 3))
  <2>1. 3 - 1 = 2
    OBVIOUS
  <2>. QED  BY <1>2, <1>5, <1>9, <2>1, StageKeeps, Zenon DEF st, h
<1>11. Settled(t, Composed(body, 3))
  BY <1>4, <1>7, <1>10, AssetSettled, Zenon
<1>12. Settled(h, Composed(body, 3))
  <2>1. h.mode = "exact"
    BY <1>4 DEF Spelled
  <2>. QED  BY <1>5, <1>8, <2>1, SettlesExact
<1>13. \A i \in 1..3 : i = 1 \/ i = 2 \/ i = 3
  OBVIOUS
<1>. QED
  BY <1>1, <1>5, <1>10, <1>11, <1>12, <1>13, Zenon DEF AreSettled, t, st, h

LEMMA ScriptSettles ==
    ASSUME given \in Cases, stages = <<AppendBasePath>>
    PROVE  N = 1 /\ AreSettled(1)
<1>. DEFINE st == stages[1]
<1>1. N = 1 /\ st = AppendBasePath
  BY StageAt, Zenon
<1>2. 1 \in 1..N
  BY <1>1
<1>3. IsStage(st)
  BY <1>2, StagesAre
<1>4. Spelled(st, "append", <<"host", "/">>, <<"base", "/">>,
              <<"host", "/", "base", "/">>)
  BY <1>1, AppendIs, Zenon
<1>. HIDE DEF st
<1>5. IsSimple(st) /\ Spares(st, st, {0})
  BY <1>3, <1>4, AppendApart, Zenon
<1>6. Makes(st, Composed(body, 1 - 1), Composed(body, 1))
  BY <1>2, <1>5, StageMakes, Zenon DEF st
<1>7. Settled(st, Composed(body, 1))
  <2>1. st.mode = "append"
    BY <1>4 DEF Spelled
  <2>. QED  BY <1>5, <1>6, <2>1, SettlesAppend
<1>8. \A i \in 1..1 : i = 1
  OBVIOUS
<1>. QED  BY <1>1, <1>5, <1>7, <1>8, Zenon DEF AreSettled, st

LEMMA LegacySettles ==
    ASSUME given \in Cases, stages = <<KubekeyLegacyRoot>>
    PROVE  N = 1 /\ AreSettled(1)
<1>. DEFINE st == stages[1]
<1>1. N = 1 /\ st = KubekeyLegacyRoot
  BY StageAt, Zenon
<1>2. 1 \in 1..N
  BY <1>1
<1>3. IsStage(st)
  BY <1>2, StagesAre
<1>4. Spelled(st, "exact", <<"/", "legacy">>, <<"/", "base">>, <<"/", "base">>)
  BY <1>1, LegacyIs, Zenon
<1>. HIDE DEF st
<1>5. IsSimple(st) /\ Apart(Replacement(st), st.source, {})
  BY <1>3, <1>4, LegacyApart, Zenon
<1>6. Makes(st, Composed(body, 1 - 1), Composed(body, 1))
  BY <1>2, <1>5, StageMakes, Zenon DEF st
<1>7. Settled(st, Composed(body, 1))
  <2>1. st.mode = "exact"
    BY <1>4 DEF Spelled
  <2>. QED  BY <1>5, <1>6, <2>1, SettlesExact
<1>8. \A i \in 1..1 : i = 1
  OBVIOUS
<1>. QED  BY <1>1, <1>5, <1>7, <1>8, Zenon DEF AreSettled, st

(* In what each exact stage is given its sources do not overlap. *)
LEMMA SourcesDisjoint ==
    ASSUME given \in Cases, ExactSourcesDisjoint, NEW i \in 1..N,
           stages[i].mode = "exact"
    PROVE  Disjoint(Composed(body, i - 1), stages[i].source)
<1>. DEFINE s == Composed(body, i - 1)
            z == stages[i].source
            hits == {q \in 0..Len(s) : OccursAt(s, q, z)}
<1>1. \A p, q \in hits : p < q => p + Len(z) =< q
  BY Zenon DEF ExactSourcesDisjoint
<1>. HIDE DEF s, z
<1>2. Disjoint(s, z)
  BY <1>1, Zenon DEF Disjoint
<1>. QED  BY <1>2, Zenon DEF s, z

LEMMA QuotedSettles ==
    ASSUME given \in Cases, ExactSourcesDisjoint,
           NEW q, IsQuote(q), NEW r, IsQuote(r), q # r,
           stages = <<AppendBasePath, QuotedRoot(q), QuotedRoot(r)>>
    PROVE  N = 3 /\ AreSettled(3)
<1>. DEFINE a  == stages[1]
            st == stages[2]
            t  == stages[3]
<1>1. N = 3 /\ a = AppendBasePath /\ st = QuotedRoot(q) /\ t = QuotedRoot(r)
  BY StageAt, Zenon
<1>2. 1 \in 1..N /\ 2 \in 1..N /\ 3 \in 1..N
  BY <1>1
<1>3. IsStage(a) /\ IsStage(st) /\ IsStage(t)
  BY <1>2, StagesAre
<1>4. /\ Spelled(a, "append", <<"host", "/">>, <<"base", "/">>,
                 <<"host", "/", "base", "/">>)
      /\ Spelled(st, "exact", <<q, "/", "proxy", q>>,
                 <<q, "/", "base", "/", "proxy", q>>, <<q, "/", "base", "/", "proxy", q>>)
      /\ Spelled(t, "exact", <<r, "/", "proxy", r>>,
                 <<r, "/", "base", "/", "proxy", r>>, <<r, "/", "base", "/", "proxy", r>>)
  BY <1>1, AppendIs, QuotedRootIs, Zenon
<1>. HIDE DEF a, st, t
<1>5. IsSimple(a) /\ Spares(a, a, {0}) /\ IsSimple(st) /\ IsSimple(t)
  BY <1>3, <1>4, AppendApart, QuotedApart, Zenon
<1>6. Spares(st, a, {}) /\ Spares(t, a, {}) /\ Spares(t, st, {})
  BY <1>4, QuotedSpares, Zenon
<1>7. /\ Makes(a, Composed(body, 1 - 1), Composed(body, 1))
      /\ Makes(st, Composed(body, 2 - 1), Composed(body, 2))
      /\ Makes(t, Composed(body, 3 - 1), Composed(body, 3))
  BY <1>2, <1>5, StageMakes, Zenon DEF a, st, t
<1>8. /\ Disjoint(Composed(body, 2 - 1), st.source)
      /\ Disjoint(Composed(body, 3 - 1), t.source)
  <2>1. st.mode = "exact" /\ t.mode = "exact"
    BY <1>4, Zenon DEF Spelled
  <2>. QED  BY <1>2, <2>1, SourcesDisjoint, Zenon DEF st, t
<1>9. 2 - 1 = 1 /\ 3 - 1 = 2
  OBVIOUS
<1>10. Settled(a, Composed(body, 1))
  <2>1. a.mode = "append"
    BY <1>4, Zenon DEF Spelled
  <2>. QED  BY <1>5, <1>7, <2>1, SettlesAppend
<1>11. Settled(st, Composed(body, 2))
  BY <1>4, <1>7, <1>8, SettlesQuoted, Zenon
<1>12. Settled(t, Composed(body, 3))
  BY <1>4, <1>7, <1>8, SettlesQuoted, Zenon
<1>13. Settled(a, Composed(body, 2))
  BY <1>2, <1>5, <1>6, <1>9, <1>10, StageKeeps, Zenon DEF a, st
<1>14. Settled(a, Composed(body, 3)) /\ Settled(st, Composed(body, 3))
  BY <1>2, <1>5, <1>6, <1>9, <1>11, <1>13, StageKeeps, Zenon DEF a, st, t
<1>15. \A i \in 1..3 : i = 1 \/ i = 2 \/ i = 3
  OBVIOUS
<1>. QED  BY <1>1, <1>5, <1>12, <1>14, <1>15, Zenon DEF AreSettled, a, st, t

(* The stages of a page, the legacy root of Kubekey among them or not. *)
LEMMA AttributesSettle ==
    ASSUME given \in Cases, NEW q, IsQuote(q), NEW r, IsQuote(r), q # r,
           NEW h, h = " href=", h # "/", h # "base", h # "proxy",
           q # h, r # h, NEW m \in {2, 3}, m =< N,
           stages[1] = AttributeRoot(q), stages[2] = AttributeRoot(r),
           m = 3 => stages[3] = KubekeyLegacyRoot
    PROVE  AreSettled(m) /\ \A i \in 1..m : stages[i].mode = "exact"
<1>. DEFINE st == stages[1]
            t  == stages[2]
            l  == stages[3]
<1>1. N \in Nat /\ 1 \in 1..N /\ 2 \in 1..N /\ 2 - 1 = 1 /\ 3 - 1 = 2
  BY ONLY given \in Cases, m \in {2, 3}, m =< N, CaseFacts
<1>2. IsStage(st) /\ IsStage(t)
  BY <1>1, StagesAre, Zenon
<1>3. /\ Spelled(st, "exact", <<h, q, "/", "proxy">>,
                 <<h, q, "/", "base", "/", "proxy">>, <<h, q, "/", "base", "/", "proxy">>)
      /\ Spelled(t, "exact", <<h, r, "/", "proxy">>,
                 <<h, r, "/", "base", "/", "proxy">>, <<h, r, "/", "base", "/", "proxy">>)
  BY AttributeRootIs, Zenon
<1>. HIDE DEF st, t, l
<1>4. /\ IsSimple(st) /\ Apart(Replacement(st), st.source, {})
      /\ IsSimple(t) /\ Apart(Replacement(t), t.source, {})
      /\ Spares(t, st, {}) /\ st.mode = "exact" /\ t.mode = "exact"
  BY <1>2, <1>3, AttributeApart, Zenon DEF Spelled
<1>5. /\ Makes(st, Composed(body, 1 - 1), Composed(body, 1))
      /\ Makes(t, Composed(body, 2 - 1), Composed(body, 2))
  BY <1>1, <1>4, StageMakes, Zenon DEF st, t
<1>6. Settled(st, Composed(body, 1)) /\ Settled(t, Composed(body, 2))
  BY <1>4, <1>5, SettlesExact, Zenon
<1>7. Settled(st, Composed(body, 2))
  BY <1>1, <1>4, <1>6, StageKeeps, Zenon DEF st, t
<1>8. CASE m = 2
  <2>1. \A i \in 1..2 : i = 1 \/ i = 2
    BY ONLY TRUE
  <2>. QED  BY <1>4, <1>6, <1>7, <1>8, <2>1, Zenon DEF AreSettled, st, t
<1>9. CASE m = 3
  <2>1. 3 \in 1..N
    <3>1. N \in Nat /\ 3 =< N
      BY <1>1, <1>9, Zenon
    <3>. QED  BY ONLY <3>1
  <2>2. IsStage(l) /\ l = KubekeyLegacyRoot
    BY <1>9, <2>1, StagesAre, Zenon DEF l
  <2>3. Spelled(l, "exact", <<"/", "legacy">>, <<"/", "base">>, <<"/", "base">>)
    BY <2>2, LegacyIs, Zenon
  <2>4. IsSimple(l) /\ Apart(Replacement(l), l.source, {}) /\ l.mode = "exact"
    BY <2>2, <2>3, LegacyApart, Zenon DEF Spelled
  <2>5. Spares(l, st, {}) /\ Spares(l, t, {})
    BY <1>3, <2>3, LegacySpares, Zenon
  <2>6. Makes(l, Composed(body, 3 - 1), Composed(body, 3))
    BY <2>1, <2>4, StageMakes, Zenon DEF l
  <2>7. Settled(l, Composed(body, 3))
    BY <2>4, <2>6, SettlesExact, Zenon
  <2>8. Settled(st, Composed(body, 3)) /\ Settled(t, Composed(body, 3))
    BY <1>1, <1>4, <1>6, <1>7, <2>1, <2>4, <2>5, StageKeeps, Zenon DEF st, t, l
  <2>9. \A i \in 1..3 : i = 1 \/ i = 2 \/ i = 3
    BY ONLY TRUE
  <2>. QED
    BY <1>4, <1>9, <2>4, <2>7, <2>8, <2>9, Zenon DEF AreSettled, st, t, l
<1>. QED  BY <1>8, <1>9, Zenon

-----------------------------------------------------------------------------
(* A page whose documents are replaced                                     *)

(* t is s with documents in the place of documents. *)
SameButDocuments(s, t) ==
    /\ s \in Seq(Byte) /\ t \in Seq(Byte) /\ Len(t) = Len(s)
    /\ \A i \in 1..Len(s) : s[i] = t[i] \/ {s[i], t[i]} \subseteq DOMAIN BaseUri

LEMMA DesiredKeeps ==
    ASSUME NEW s \in Seq(Byte)
    PROVE  SameButDocuments(s, WithDesiredUri(s))
<1>. DEFINE t == WithDesiredUri(s)
<1>1. /\ t \in Seq(Byte) /\ Len(t) = Len(s)
      /\ \A i \in 1..Len(s) :
           /\ ~IsReplaced(s, i) => t[i] = s[i]
           /\ i >= 3 /\ IsReplaced(s, i) => t[i] = Rebased[s[i]]
  BY DesiredIs
<1>. HIDE DEF t
<1>2. ASSUME NEW i \in 1..Len(s)
      PROVE  s[i] = t[i] \/ {s[i], t[i]} \subseteq DOMAIN BaseUri
  <2>1. CASE ~IsReplaced(s, i)
    BY <1>1, <2>1
  <2>2. CASE IsReplaced(s, i)
    <3>1. PICK a \in Assignments(s) :
             Opens(s, a, i - 2) /\ s[i] \in DOMAIN BaseUri
      BY <2>2 DEF IsReplaced
    <3>2. a \in 0..(Len(s) - 1)
      BY AssignmentIs
    <3>3. i >= 3
      BY <3>1, <3>2 DEF Opens
    <3>4. t[i] = Rebased[s[i]]
      BY <1>1, <2>2, <3>3
    <3>5. Rebased[s[i]] \in DOMAIN BaseUri
      BY <3>1, MetadataAssumption
    <3>. QED  BY <3>1, <3>4, <3>5
  <2>. QED  BY <2>1, <2>2
<1>. QED  BY <1>1, <1>2 DEF SameButDocuments, t

(* What can be told without the documents is the same for both. *)
LEMMA SameSymbol ==
    ASSUME NEW s, NEW t, SameButDocuments(s, t),
           NEW c, c \notin DOMAIN BaseUri, NEW i \in 1..Len(s)
    PROVE  s[i] = c <=> t[i] = c
BY DEF SameButDocuments

LEMMA SameOccurrence ==
    ASSUME NEW s, NEW t, SameButDocuments(s, t), NEW p \in Nat,
           NEW z \in Seq(Byte), \A k \in 1..Len(z) : z[k] \notin DOMAIN BaseUri
    PROVE  OccursAt(s, p, z) <=> OccursAt(t, p, z)
<1>1. Len(s) \in Nat /\ Len(t) = Len(s) /\ Len(z) \in Nat
  BY DEF SameButDocuments
<1>2. ASSUME p + Len(z) =< Len(s), NEW k \in 1..Len(z)
      PROVE  s[p + k] = z[k] <=> t[p + k] = z[k]
  <2>1. p + k \in 1..Len(s)
    BY <1>1, <1>2
  <2>. QED  BY <2>1, SameSymbol
<1>. QED  BY <1>1, <1>2 DEF OccursAt

Marks == {ASSIGNMENT, "="} \cup Whitespace \cup Quotes

LEMMA SameMark ==
    ASSUME NEW s, NEW t, SameButDocuments(s, t), NEW i \in 1..Len(s), s[i] \in Marks
    PROVE  t[i] = s[i]
<1>1. s[i] \notin DOMAIN BaseUri
  BY DocumentsAssumption DEF Marks
<1>. QED  BY <1>1, SameSymbol

LEMMA SameOpens ==
    ASSUME NEW s, NEW t, SameButDocuments(s, t), NEW a \in Nat, NEW q \in Nat,
           Opens(s, a, q)
    PROVE  Opens(t, a, q) /\ q < Len(s) /\ s[q + 1] \in Quotes /\ t[q + 1] = s[q + 1]
<1>1. Len(s) \in Nat /\ Len(t) = Len(s)
  BY DEF SameButDocuments
<1>2. /\ a < Len(s) /\ s[a + 1] = ASSIGNMENT /\ q < Len(s) /\ s[q + 1] \in Quotes
  BY DEF Opens, IsAt
<1>3. PICK e \in (a + 1)..(q - 1) :
         /\ s[e + 1] = "="
         /\ \A i \in (a + 1)..(q - 1) : i # e => s[i + 1] \in Whitespace
  BY DEF Opens
<1>4. t[a + 1] = ASSIGNMENT
  <2>1. a + 1 \in 1..Len(s) /\ s[a + 1] \in Marks
    BY <1>1, <1>2 DEF Marks
  <2>. QED  BY <1>2, <2>1, SameMark
<1>5. t[q + 1] = s[q + 1]
  <2>1. q + 1 \in 1..Len(s) /\ s[q + 1] \in Marks
    BY <1>1, <1>2 DEF Marks
  <2>. QED  BY <2>1, SameMark
<1>6. ASSUME NEW i \in (a + 1)..(q - 1)
      PROVE  t[i + 1] = s[i + 1]
  <2>1. i + 1 \in 1..Len(s)
    BY <1>1, <1>2
  <2>2. s[i + 1] \in Marks
    BY <1>3 DEF Marks
  <2>. QED  BY <2>1, <2>2, SameMark
<1>7. IsAt(t, a, {ASSIGNMENT}) /\ IsAt(t, q, Quotes)
  BY <1>1, <1>2, <1>4, <1>5 DEF IsAt
<1>8. /\ t[e + 1] = "="
      /\ \A i \in (a + 1)..(q - 1) : i # e => t[i + 1] \in Whitespace
  BY <1>3, <1>6
<1>. QED  BY <1>2, <1>5, <1>7, <1>8 DEF Opens

LEMMA SameCloses ==
    ASSUME NEW s, NEW t, SameButDocuments(s, t), NEW q \in Nat, NEW e \in Nat,
           s[q + 1] \in Quotes, t[q + 1] = s[q + 1], Closes(s, q, e)
    PROVE  Closes(t, q, e)
<1>1. Len(s) \in Nat /\ Len(t) = Len(s)
  BY DEF SameButDocuments
<1>2. /\ q < e /\ e < Len(s) /\ s[e + 1] = s[q + 1]
      /\ \A i \in (q + 1)..(e - 1) : s[i + 1] # s[q + 1]
  BY DEF Closes
<1>3. s[q + 1] \notin DOMAIN BaseUri
  BY DocumentsAssumption
<1>4. t[e + 1] = t[q + 1]
  <2>1. e + 1 \in 1..Len(s)
    BY <1>1, <1>2
  <2>. QED  BY <1>2, <1>3, <2>1, SameSymbol
<1>5. ASSUME NEW i \in (q + 1)..(e - 1)
      PROVE  t[i + 1] # t[q + 1]
  <2>1. i + 1 \in 1..Len(s)
    BY <1>1, <1>2
  <2>. QED  BY <1>2, <1>3, <2>1, SameSymbol
<1>. QED  BY <1>1, <1>2, <1>4, <1>5 DEF Closes

LEMMA SameBack ==
    ASSUME NEW s, NEW t, SameButDocuments(s, t)
    PROVE  SameButDocuments(t, s)
BY DEF SameButDocuments

(* An assignment of s is one of t if those before it are the same.         *)
LEMMA SameNext ==
    ASSUME NEW s, NEW t, SameButDocuments(s, t), NEW a \in 0..Len(s),
           \A b \in 0..(a - 1) : b \in Assignments(s) <=> b \in Assignments(t),
           a \in Assignments(s)
    PROVE  a \in Assignments(t)
<1>1. /\ s \in Seq(Byte) /\ t \in Seq(Byte) /\ Len(s) \in Nat /\ Len(t) = Len(s)
      /\ a \in 0..Len(t) /\ a \in Nat
  BY DEF SameButDocuments
<1>2. /\ \E q \in a..Len(s) : Opens(s, a, q)
      /\ \A b \in 0..(a - 1), q \in 0..(a - 1) :
           Opens(s, b, q) /\ b \in Assignments(s) => \E e \in q..a : Closes(s, q, e)
  BY <1>1, AssignmentsAre
<1>3. \E q \in a..Len(t) : Opens(t, a, q)
  <2>1. PICK q \in a..Len(s) : Opens(s, a, q)
    BY <1>2
  <2>2. q \in Nat /\ q \in a..Len(t)
    BY <1>1
  <2>. QED  BY <1>1, <2>1, <2>2, SameOpens
<1>4. ASSUME NEW b \in 0..(a - 1), NEW q \in 0..(a - 1),
             Opens(t, b, q), b \in Assignments(t)
      PROVE  \E e \in q..a : Closes(t, q, e)
  <2>1. b \in Nat /\ q \in Nat /\ SameButDocuments(t, s)
    BY <1>1, SameBack
  <2>2. /\ Opens(s, b, q) /\ t[q + 1] \in Quotes /\ s[q + 1] = t[q + 1]
    BY <1>4, <2>1, SameOpens
  <2>3. PICK e \in q..a : Closes(s, q, e)
    BY <1>2, <1>4, <2>2
  <2>4. e \in Nat
    BY <2>1
  <2>. QED  BY <2>1, <2>2, <2>3, <2>4, SameCloses
<1>. QED  BY <1>1, <1>3, <1>4, AssignmentsAre

LEMMA SameAssignments ==
    ASSUME NEW s, NEW t, SameButDocuments(s, t)
    PROVE  Assignments(s) = Assignments(t)
<1>. DEFINE T == {k \in Nat : \A a \in 0..(k - 1) :
                    a =< Len(s) => (a \in Assignments(s) <=> a \in Assignments(t))}
<1>1. /\ Len(s) \in Nat /\ Len(t) = Len(s) /\ SameButDocuments(t, s)
  BY SameBack DEF SameButDocuments
<1>2. 0 \in T
  OBVIOUS
<1>3. ASSUME NEW k \in Nat, k \in T
      PROVE  k + 1 \in T
  <2>. SUFFICES ASSUME NEW a \in 0..((k + 1) - 1), a =< Len(s)
                PROVE  a \in Assignments(s) <=> a \in Assignments(t)
    OBVIOUS
  <2>1. \A b \in 0..(a - 1) : b \in 0..(k - 1) /\ b =< Len(s)
    BY <1>1
  <2>2. \A b \in 0..(a - 1) : b \in Assignments(s) <=> b \in Assignments(t)
    BY <1>3, <2>1
  <2>3. a \in 0..Len(s) /\ a \in 0..Len(t)
    BY <1>1
  <2>. HIDE DEF T
  <2>4. a \in Assignments(s) => a \in Assignments(t)
    BY <2>2, <2>3, SameNext
  <2>5. a \in Assignments(t) => a \in Assignments(s)
    BY <1>1, <2>2, <2>3, SameNext
  <2>. QED  BY <2>4, <2>5
<1>4. Nat \subseteq T
  <2>. HIDE DEF T
  <2>. QED  BY <1>2, <1>3, SetInduction
<1>5. ASSUME NEW a \in 0..Len(s)
      PROVE  a \in Assignments(s) <=> a \in Assignments(t)
  <2>1. a + 1 \in T /\ a \in 0..((a + 1) - 1)
    BY <1>4
  <2>. QED  BY <2>1
<1>6. Assignments(s) \subseteq 0..Len(s) /\ Assignments(t) \subseteq 0..Len(s)
  BY <1>1, Zenon DEF Assignments
<1>. QED  BY <1>5, <1>6

(* A document that has been replaced has the desired base URI. *)
LEMMA DesiredTwice ==
    ASSUME NEW s \in Seq(Byte)
    PROVE  WithDesiredUri(WithDesiredUri(s)) = WithDesiredUri(s)
<1>. DEFINE t == WithDesiredUri(s)
            w == WithDesiredUri(t)
<1>1. /\ t \in Seq(Byte) /\ Len(t) = Len(s)
      /\ \A i \in 1..Len(s) :
           /\ ~IsReplaced(s, i) => t[i] = s[i]
           /\ i >= 3 /\ IsReplaced(s, i) => t[i] = Rebased[s[i]]
  BY DesiredIs
<1>2. SameButDocuments(t, s)
  BY DesiredKeeps, SameBack
<1>3. Assignments(t) = Assignments(s)
  BY <1>2, SameAssignments
<1>. HIDE DEF t
<1>4. /\ w \in Seq(Byte) /\ Len(w) = Len(t)
      /\ \A i \in 1..Len(t) : ~IsReplaced(t, i) => w[i] = t[i]
  BY <1>1, DesiredIs
<1>. HIDE DEF w
<1>5. ASSUME NEW i \in 1..Len(t), IsReplaced(t, i)
      PROVE  FALSE
  <2>1. PICK a \in Assignments(t) :
           /\ Opens(t, a, i - 2) /\ Closes(t, i - 2, i)
           /\ t[i] \in DOMAIN BaseUri /\ BaseUri[t[i]] = OriginalUri
    BY <1>5 DEF IsReplaced
  <2>2. a \in Nat
    BY <1>1, AssignmentIs
  <2>3. i >= 3 /\ i - 2 \in Nat /\ i \in Nat
    BY <2>1, <2>2 DEF Opens
  <2>4. Opens(s, a, i - 2) /\ t[(i - 2) + 1] \in Quotes /\ s[(i - 2) + 1] = t[(i - 2) + 1]
    BY <1>2, <2>1, <2>2, <2>3, SameOpens
  <2>5. Closes(s, i - 2, i)
    BY <1>2, <2>1, <2>3, <2>4, SameCloses
  <2>6. CASE s[i] \in DOMAIN BaseUri /\ BaseUri[s[i]] = OriginalUri
    <3>1. IsReplaced(s, i)
      BY <1>3, <2>1, <2>4, <2>5, <2>6 DEF IsReplaced
    <3>2. t[i] = Rebased[s[i]]
      BY <1>1, <2>3, <3>1
    <3>. QED  BY <2>1, <2>6, <3>2, MetadataAssumption
  <2>7. CASE ~(s[i] \in DOMAIN BaseUri /\ BaseUri[s[i]] = OriginalUri)
    <3>1. ~IsReplaced(s, i)
      BY <2>7 DEF IsReplaced
    <3>2. t[i] = s[i]
      BY <1>1, <3>1
    <3>. QED  BY <2>1, <2>7, <3>2
  <2>. QED  BY <2>6, <2>7
<1>6. w = t
  BY <1>1, <1>4, <1>5, SeqEqual
<1>. QED  BY <1>6 DEF w, t

(* The page, its documents replaced, run again. *)
LEMMA PageAgain ==
    ASSUME given \in Cases, stages \in ProfilePipelines, NEW m \in 2..3, N = m + 1,
           AreSettled(m), \A i \in 1..m : stages[i].mode = "exact",
           stages[N] = Buffered
    PROVE  Composed(Composed(body, N), N) = Composed(body, N)
<1>. DEFINE s == Composed(body, m)
            t == Composed(body, N)
<1>1. /\ body \in Seq(Byte) /\ m \in Nat /\ m \in 0..N /\ N \in 0..N /\ N \in 1..N
      /\ N - 1 = m
  BY CaseFacts
<1>2. s \in Seq(Byte) /\ t \in Seq(Byte)
  BY <1>1, ComposedIs
<1>3. stages[N].mode = "buffered"
  BY DEF Buffered, Stage
<1>4. TRUE \in BOOLEAN
  BY Zenon
<1>5. t = WithDesiredUri(s)
  <2>1. t = Returned(stages[N], Composed(body, N - 1), TRUE)
    BY <1>1, ComposedIs, Zenon
  <2>2. t = RewriteMigMeta(s)
    BY <1>1, <1>3, <1>4, <2>1, ReturnedBuffered, Zenon
  <2>. QED  BY <1>2, <2>2, MigMetaIs, Zenon
<1>. HIDE DEF s, t
<1>6. SameButDocuments(s, t)
  BY <1>2, <1>5, DesiredKeeps
<1>7. Leaves(stages[N], t)
  <2>1. Returned(stages[N], t, TRUE) = RewriteMigMeta(t)
    BY <1>3, <1>4, ReturnedBuffered, Zenon
  <2>2. RewriteMigMeta(t) = t
    BY <1>2, <1>5, MigMetaIs, DesiredTwice
  <2>. QED  BY <2>1, <2>2, Zenon DEF Leaves
<1>8. ASSUME NEW i \in 1..m
      PROVE  Leaves(stages[i], t)
  <2>. DEFINE z == stages[i].source
  <2>1. IsSimple(stages[i]) /\ Settled(stages[i], s)
    BY DEF AreSettled, s
  <2>2. z \in Seq(Byte) /\ \A k \in 1..Len(z) : z[k] \notin DOMAIN BaseUri
    <3>1. i \in 1..Len(stages)
      BY <1>1 DEF N
    <3>. QED  BY <2>1, <3>1, SimpleIs, DocumentsAssumption
  <2>3. ASSUME NEW p \in 0..Len(t), Rewrites(stages[i], t, p)
        PROVE  FALSE
    <3>1. p \in Nat /\ p \in 0..Len(s)
      BY <1>2, <1>6 DEF SameButDocuments
    <3>2. OccursAt(s, p, z)
      BY <1>6, <2>2, <2>3, <3>1, SameOccurrence DEF Rewrites
    <3>3. ~Carries(stages[i], s, p)
      BY DEF Carries
    <3>. QED  BY <2>1, <3>1, <3>2, <3>3 DEF Settled, Rewrites
  <2>4. Settled(stages[i], t)
    BY <2>3 DEF Settled
  <2>. QED  BY <1>2, <2>1, <2>4, LeavesSettled
<1>9. \A i \in 1..N : i \in 1..m \/ i = N
  BY <1>1
<1>10. \A i \in 1..N : Leaves(stages[i], t)
  BY <1>7, <1>8, <1>9
<1>11. Composed(t, N) = t
  BY <1>2, <1>10, RunsAgain
<1>. QED  BY <1>11 DEF t

LEMMA AttributeSymbols ==
    ASSUME NEW h, h = " href="
    PROVE  h # "/" /\ h # "base" /\ h # "proxy" /\ "\"" # h /\ "'" # h
OBVIOUS

LEMMA PagesAre ==
    ASSUME given \in Cases, stages \in ProfilePipelines,
           NEW a, NEW b, a = AttributeRoot("\""), b = AttributeRoot("'"),
           \/ stages = <<a, b>> \/ stages = <<a, b, KubekeyLegacyRoot>>
           \/ stages = <<a, b, Buffered>>
           \/ stages = <<a, b, KubekeyLegacyRoot, Buffered>>
    PROVE  Composed(Composed(body, N), N) = Composed(body, N)
<1>. DEFINE Settle(m) == AreSettled(m) /\ \A i \in 1..m : stages[i].mode = "exact"
<1>1. ASSUME NEW m \in {2, 3}, m =< N, stages[1] = a, stages[2] = b,
             m = 3 => stages[3] = KubekeyLegacyRoot
      PROVE  Settle(m)
  <2>1. PICK h : h = " href="
    BY Zenon
  <2>2. h # "/" /\ h # "base" /\ h # "proxy" /\ "\"" # h /\ "'" # h
    BY <2>1, AttributeSymbols, Zenon
  <2>. QED  BY <1>1, <2>1, <2>2, QuotesAre, AttributesSettle, Zenon
<1>. HIDE DEF Settle
<1>2. 2 \in {2, 3} /\ 3 \in {2, 3} /\ 2 # 3 /\ 2 \in 2..3 /\ 3 \in 2..3
      /\ 2 =< 2 /\ 2 =< 3 /\ 3 =< 3 /\ 3 =< 4 /\ 3 = 2 + 1 /\ 4 = 3 + 1
  BY ONLY TRUE
<1>3. CASE stages = <<a, b>>
  <2>1. N = 2 /\ stages[1] = a /\ stages[2] = b
    BY <1>3, StageAt, Zenon
  <2>2. Settle(2)
    BY <1>1, <1>2, <2>1, Zenon
  <2>. QED  BY <2>1, <2>2, SettledAgain, Zenon DEF Settle
<1>4. CASE stages = <<a, b, KubekeyLegacyRoot>>
  <2>1. N = 3 /\ stages[1] = a /\ stages[2] = b /\ stages[3] = KubekeyLegacyRoot
    BY <1>4, StageAt, Zenon
  <2>2. Settle(3)
    BY <1>1, <1>2, <2>1, Zenon
  <2>. QED  BY <2>1, <2>2, SettledAgain, Zenon DEF Settle
<1>5. CASE stages = <<a, b, Buffered>>
  <2>1. N = 3 /\ stages[1] = a /\ stages[2] = b /\ stages[3] = Buffered
    BY <1>5, StageAt, Zenon
  <2>2. Settle(2)
    BY <1>1, <1>2, <2>1, Zenon
  <2>. QED  BY <1>2, <2>1, <2>2, PageAgain, Zenon DEF Settle
<1>6. CASE stages = <<a, b, KubekeyLegacyRoot, Buffered>>
  <2>1. N = 4 /\ stages[1] = a /\ stages[2] = b /\ stages[3] = KubekeyLegacyRoot
        /\ stages[4] = Buffered
    BY <1>6, StageAt, Zenon
  <2>2. Settle(3)
    BY <1>1, <1>2, <2>1, Zenon
  <2>. QED  BY <1>2, <2>1, <2>2, PageAgain, Zenon DEF Settle
<1>. QED  BY <1>3, <1>4, <1>5, <1>6, Zenon

(* Whatever the body, what the client gets of it comes through the pipeline *)
(* again as it is, for the pipeline of each profile: a stage rewrites all   *)
(* that its own rule would find, and no later stage writes a source of an  *)
(* earlier one or takes away the base path that one has put there.  For a  *)
(* source between quotes that takes that no two of them share a quote.     *)
THEOREM RewrittenOnceHolds == Spec => []RewrittenOnce
<1>1. CallInv /\ FlowInv => RewrittenOnce
  <2>. SUFFICES ASSUME CallInv, FlowInv, result = "done",
                       stages \in ProfilePipelines, ExactSourcesDisjoint
                PROVE  Composed(sent, N) = sent
    BY Zenon DEF RewrittenOnce
  <2>1. given \in Cases /\ sent = Composed(body, N)
    BY Zenon DEF CallInv, FlowInv
  <2>2. PICK a, b : a = AttributeRoot("\"") /\ b = AttributeRoot("'")
    BY Zenon
  <2>3. N = 1 /\ AreSettled(1) => Composed(Composed(body, N), N) = Composed(body, N)
    BY <2>1, SettledAgain, Zenon
  <2>4. N = 3 /\ AreSettled(3) => Composed(Composed(body, N), N) = Composed(body, N)
    BY <2>1, SettledAgain, Zenon
  <2>5. CASE stages = <<Prepend(AssetRoot), Prepend(StaticRoot), HelperRule>>
    BY <2>1, <2>4, <2>5, ConsoleSettles, Zenon
  <2>6. CASE stages = <<AppendBasePath>>
    BY <2>1, <2>3, <2>6, ScriptSettles, Zenon
  <2>7. CASE stages = <<AppendBasePath, QuotedRoot("\""), QuotedRoot("'")>>
    BY <2>1, <2>4, <2>7, QuotesAre, QuotedSettles, Zenon
  <2>8. CASE stages = <<KubekeyLegacyRoot>>
    BY <2>1, <2>3, <2>8, LegacySettles, Zenon
  <2>9. CASE \/ stages = <<a, b>> \/ stages = <<a, b, KubekeyLegacyRoot>>
             \/ stages = <<a, b, Buffered>>
             \/ stages = <<a, b, KubekeyLegacyRoot, Buffered>>
    BY <2>1, <2>2, <2>9, PagesAre, Zenon
  <2>. QED  BY <2>1, <2>2, <2>5, <2>6, <2>7, <2>8, <2>9, PipelinesAre, Zenon
<1>. QED  BY <1>1, CallInvariant, FlowInvariant, PTL

-----------------------------------------------------------------------------
(* The base path, once                                                     *)

Doubled == <<"/", "base", "/", "base", "/", "static">>

LEMMA DoubledIs == BasePath \o BasePath \o StaticRoot = Doubled
<1>. DEFINE S == {"/", "base", "static"}
            x == <<"/", "base", "/", "base">>
<1>1. Joins(<<"/", "base">>, <<"/", "base">>, <<"/", "base", "/", "base">>)
  BY DEF Joins
<1>2. Joins(<<"/", "base", "/", "base">>, <<"/", "static">>, Doubled)
  BY DEF Joins, Doubled
<1>3. /\ <<"/", "base">> \in Seq(S) /\ <<"/", "static">> \in Seq(S)
      /\ <<"/", "base", "/", "base">> \in Seq(S) /\ Doubled \in Seq(S)
  BY DEF Doubled
<1>. HIDE DEF S
<1>4. <<"/", "base">> \o <<"/", "base">> = <<"/", "base", "/", "base">>
  BY <1>1, <1>3, JoinIs, Zenon
<1>5. <<"/", "base", "/", "base">> \o <<"/", "static">> = Doubled
  BY <1>2, <1>3, JoinIs, Zenon
<1>. QED  BY <1>4, <1>5, Zenon DEF BasePath, StaticRoot

(* A stage that looks for the base path before its source makes no doubled  *)
(* one of what has it once.                                                *)
LEMMA DoubledBefore ==
    ASSUME NEW st, NEW s, NEW w, Makes(st, s, w),
           st.mode = "prepend", st.inserted = <<"/", "base">>,
           Apart(Replacement(st), Doubled, {-2}),
           Replacement(st)[Len(Replacement(st))] \notin {"/", "base"},
           Doubled \in Seq(Byte), NEW p \in Nat, OccursAt(w, p, Doubled)
    PROVE  \E u \in Nat : OccursAt(s, u, Doubled)
<1>. DEFINE y == <<"/", "base">>
<1>1. /\ Len(Doubled) = 6 /\ Len(y) = 2 /\ y[1] = Doubled[1] /\ y[2] = Doubled[2]
      /\ y[1] = "/" /\ y[2] = "base"
  BY ONLY TRUE DEF Doubled
<1>2. w \in Seq(Byte) /\ Len(w) \in Nat /\ y \in Seq(Byte)
  <2>1. w \in Seq(Byte) /\ IsStage(st)
    BY Zenon DEF Makes, IsSimple
  <2>. QED  BY <2>1 DEF IsStage
<1>. HIDE DEF y
<1>3. \/ \E u \in Nat : Copied(st, s, w, u, p, Doubled)
      \/ \E u \in Nat : Overlaps(st, s, w, u, p, -2)
  <2>. DEFINE offsets == {-2}
  <2>1. Len(Doubled) > 0 /\ Apart(Replacement(st), Doubled, offsets)
    BY <1>1
  <2>. HIDE DEF offsets
  <2>2. \/ \E u \in Nat : Copied(st, s, w, u, p, Doubled)
        \/ \E u \in Nat, d \in offsets : Overlaps(st, s, w, u, p, d)
    BY <2>1, Pulled, Zenon
  <2>. QED  BY <2>2 DEF offsets
<1>4. ASSUME NEW u \in Nat, Overlaps(st, s, w, u, p, -2)
      PROVE  FALSE
  <2>1. p - (-2) = p + 2 /\ (p + 2) - 2 = p /\ p + 2 >= 2 /\ p + 2 \in Nat
    OBVIOUS
  <2>2. Rewrites(st, s, u) /\ Goes(st, s, u, p + 2)
    BY <1>4, <2>1 DEF Overlaps
  <2>3. OccursAt(w, (p + 2) - Len(y), y)
    <3>1. \A k \in 1..2 : k = 1 \/ k = 2
      OBVIOUS
    <3>2. p + 6 =< Len(w) /\ w[p + 1] = Doubled[1] /\ w[p + 2] = Doubled[2]
      <4>1. 1 \in 1..Len(Doubled) /\ 2 \in 1..Len(Doubled)
        BY <1>1
      <4>. QED  BY <1>1, <4>1 DEF OccursAt
    <3>. QED  BY <1>1, <1>2, <2>1, <3>1, <3>2 DEF OccursAt
  <2>4. \A k \in 1..Len(y) : y[k] # Replacement(st)[Len(Replacement(st))]
    <3>1. \A k \in 1..2 : k = 1 \/ k = 2
      OBVIOUS
    <3>. QED  BY <1>1, <3>1
  <2>5. u >= Len(y) /\ OccursAt(s, u - Len(y), y)
    <3>1. p + 2 >= Len(y)
      BY <1>1, <2>1
    <3>. QED
      BY ONLY Makes(st, s, w), u \in Nat, <1>2, <2>1, <2>2, <2>3, <2>4, <3>1, WasBefore
  <2>6. Carries(st, s, u)
    BY <2>5 DEF Carries, y
  <2>. QED  BY <2>2, <2>6 DEF Rewrites
<1>. QED  BY <1>3, <1>4, Zenon DEF Copied

(* For the console no two base paths stand before a static root in what the *)
(* client gets unless they do so in the body.                              *)
LEMMA ConsoleDoubles ==
    ASSUME given \in Cases,
           stages = <<Prepend(AssetRoot), Prepend(StaticRoot), HelperRule>>,
           NEW p \in Nat, OccursAt(Composed(body, N), p, Doubled)
    PROVE  \E u \in Nat : OccursAt(body, u, Doubled)
<1>. DEFINE t  == stages[1]
            st == stages[2]
            h  == stages[3]
<1>1. /\ N = 3
      /\ t = Prepend(AssetRoot) /\ st = Prepend(StaticRoot) /\ h = HelperRule
  BY StageAt, Zenon
<1>2. 1 \in 1..N /\ 2 \in 1..N /\ 3 \in 1..N /\ 1 - 1 = 0 /\ 2 - 1 = 1 /\ 3 - 1 = 2
  BY <1>1
<1>3. IsStage(t) /\ IsStage(st) /\ IsStage(h)
  BY <1>2, StagesAre
<1>4. /\ Spelled(st, "prepend", <<"/", "static">>, <<"/", "base">>,
                 <<"/", "base", "/", "static">>)
      /\ Spelled(t, "prepend", <<"/", "static", "asset">>, <<"/", "base">>,
                 <<"/", "base", "/", "static", "asset">>)
      /\ Spelled(h, "exact", <<"helper", "(">>, <<"helper-in", "/", "base", "(">>,
                 <<"helper-in", "/", "base", "(">>)
  BY <1>1, StaticIs, AssetIs, HelperIs, Zenon
<1>. HIDE DEF t, st, h
<1>5. IsSimple(t) /\ IsSimple(st) /\ IsSimple(h)
  BY <1>3, <1>4, ConsoleApart, Zenon
<1>6. /\ Makes(t, Composed(body, 0), Composed(body, 1))
      /\ Makes(st, Composed(body, 1), Composed(body, 2))
      /\ Makes(h, Composed(body, 2), Composed(body, 3))
  BY <1>2, <1>5, StageMakes, Zenon DEF t, st, h
<1>7. Doubled \in Seq(Byte)
  <2>1. <<"/", "base">> \in Seq(Byte) /\ <<"/", "static">> \in Seq(Byte)
    BY <1>3, <1>4 DEF IsStage, Spelled
  <2>2. "/" \in Byte /\ "base" \in Byte /\ "static" \in Byte
    BY <2>1
  <2>. QED  BY <2>2 DEF Doubled
<1>8. \E u \in Nat : OccursAt(Composed(body, 2), u, Doubled)
  <2>1. Apart(<<"helper-in", "/", "base", "(">>, Doubled, {})
    BY ONLY TRUE DEF Apart, ClashAt, Doubled
  <2>2. Apart(Replacement(h), Doubled, {})
    BY <1>4, <2>1, Zenon DEF Spelled
  <2>3. Len(Doubled) > 0
    BY DEF Doubled
  <2>4. OccursAt(Composed(body, 3), p, Doubled)
    BY <1>1, Zenon
  <2>. QED  BY <1>6, <1>7, <2>2, <2>3, <2>4, Pulled DEF Copied
<1>9. \E u \in Nat : OccursAt(Composed(body, 1), u, Doubled)
  <2>1. Apart(<<"/", "base", "/", "static">>, Doubled, {-2})
    BY ONLY TRUE DEF Apart, ClashAt, Doubled
  <2>2. /\ st.mode = "prepend" /\ st.inserted = <<"/", "base">>
        /\ Replacement(st) = <<"/", "base", "/", "static">>
    BY <1>4 DEF Spelled
  <2>3. Replacement(st)[Len(Replacement(st))] \notin {"/", "base"}
    BY <2>2
  <2>. QED  BY <1>6, <1>7, <1>8, <2>1, <2>2, <2>3, DoubledBefore, Zenon
<1>10. \E u \in Nat : OccursAt(Composed(body, 0), u, Doubled)
  <2>1. Apart(<<"/", "base", "/", "static", "asset">>, Doubled, {-2})
    BY ONLY TRUE DEF Apart, ClashAt, Doubled
  <2>2. /\ t.mode = "prepend" /\ t.inserted = <<"/", "base">>
        /\ Replacement(t) = <<"/", "base", "/", "static", "asset">>
    BY <1>4 DEF Spelled
  <2>3. Replacement(t)[Len(Replacement(t))] \notin {"/", "base"}
    BY <2>2
  <2>. QED  BY <1>6, <1>7, <1>9, <2>1, <2>2, <2>3, DoubledBefore, Zenon
<1>11. Composed(body, 0) = body
  BY CaseFacts, ComposedIs, Zenon
<1>. QED  BY <1>10, <1>11, Zenon

(* Whatever the body, each reference to the static root that the client gets *)
(* has the base path before it, an asset root like any other, and two of    *)
(* them only where the body has two: the stage of the static root finds the *)
(* base path that the stage of the asset root has put there.               *)
THEOREM BasePathOnceHolds == Spec => []BasePathOnce
<1>1. CallInv /\ FlowInv => BasePathOnce
  <2>. SUFFICES ASSUME CallInv, FlowInv, result = "done",
                       stages = StagesOf("ConsoleV3", FALSE),
                       NEW p \in 0..Len(sent), OccursAt(sent, p, StaticRoot)
                PROVE  /\ p >= Len(BasePath) /\ OccursAt(sent, p - Len(BasePath), BasePath)
                       /\ p >= 2 * Len(BasePath)
                          /\ OccursAt(sent, p - 2 * Len(BasePath), BasePath) =>
                            \E q \in 0..Len(body) :
                              OccursAt(body, q, BasePath \o BasePath \o StaticRoot)
    BY Zenon DEF BasePathOnce
  <2>1. given \in Cases /\ sent = Composed(body, N)
    BY Zenon DEF CallInv, FlowInv
  <2>2. stages = <<Prepend(AssetRoot), Prepend(StaticRoot), HelperRule>>
    BY ConsoleIs, Zenon
  <2>3. N = 3 /\ AreSettled(3)
    BY <2>1, <2>2, ConsoleSettles, Zenon
  <2>4. Len(BasePath) = 2 /\ Len(StaticRoot) = 2 /\ Len(sent) \in Nat
    BY DEF BasePath, StaticRoot, FlowInv
  <2>5. p >= Len(BasePath) /\ OccursAt(sent, p - Len(BasePath), BasePath)
    <3>1. stages[2] = Prepend(StaticRoot)
      BY <2>2, StageAt, Zenon
    <3>2. Settled(Prepend(StaticRoot), sent)
      <4>1. 2 \in 1..3
        OBVIOUS
      <4>. QED  BY <2>1, <2>3, <3>1, <4>1, Zenon DEF AreSettled
    <3>3. Carries(Prepend(StaticRoot), sent, p)
      BY <3>2 DEF Settled, Rewrites, Prepend, Stage
    <3>. QED  BY <3>3 DEF Carries, Prepend, Stage
  <2>6. ASSUME p >= 2 * Len(BasePath), OccursAt(sent, p - 2 * Len(BasePath), BasePath)
        PROVE  \E q \in 0..Len(body) :
                 OccursAt(body, q, BasePath \o BasePath \o StaticRoot)
    <3>1. p - 4 \in Nat
      BY <2>4, <2>6
    <3>2. OccursAt(sent, p - 4, Doubled)
      <4>1. /\ sent[(p - 4) + 1] = "/" /\ sent[(p - 4) + 2] = "base"
        BY <2>4, <2>6 DEF OccursAt, BasePath
      <4>2. /\ sent[(p - 2) + 1] = "/" /\ sent[(p - 2) + 2] = "base"
        BY <2>4, <2>5 DEF OccursAt, BasePath
      <4>3. /\ sent[p + 1] = "/" /\ sent[p + 2] = "static" /\ p + 2 =< Len(sent)
        BY <2>4 DEF OccursAt, StaticRoot
      <4>4. /\ Len(Doubled) = 6
            /\ \A k \in 1..6 : k = 1 \/ k = 2 \/ k = 3 \/ k = 4 \/ k = 5 \/ k = 6
            /\ Doubled[1] = "/" /\ Doubled[2] = "base" /\ Doubled[3] = "/"
            /\ Doubled[4] = "base" /\ Doubled[5] = "/" /\ Doubled[6] = "static"
        BY ONLY TRUE DEF Doubled
      <4>5. /\ (p - 2) + 1 = (p - 4) + 3 /\ (p - 2) + 2 = (p - 4) + 4
            /\ p + 1 = (p - 4) + 5 /\ p + 2 = (p - 4) + 6
        OBVIOUS
      <4>. QED  BY <4>1, <4>2, <4>3, <4>4, <4>5 DEF OccursAt
    <3>3. PICK u \in Nat : OccursAt(body, u, Doubled)
      BY <2>1, <2>2, <3>1, <3>2, ConsoleDoubles, Zenon
    <3>4. u \in 0..Len(body)
      <4>1. Len(body) \in Nat
        BY <2>1, CaseFacts
      <4>2. Len(Doubled) = 6
        BY DEF Doubled
      <4>. QED  BY <3>3, <4>1, <4>2 DEF OccursAt
    <3>. QED  BY <3>3, <3>4, DoubledIs, Zenon
  <2>. QED  BY <2>5, <2>6, Zenon
<1>. QED  BY <1>1, CallInvariant, FlowInvariant, PTL
=============================================================================
