----------------------- MODULE LiteralRewriterProofs ------------------------
(***************************************************************************)
(* Theorems about LiteralRewriter, for every set of bytes, every source,   *)
(* every inserted prefix or suffix, every body and every chunking.         *)
(*                                                                         *)
(* The argument rests on one invariant: pending is the input between base  *)
(* and fed, and history is the input just before base.  A match in pending *)
(* is then a match in the body, and what stands before or after it in      *)
(* pending and history is what stands there in the body.  For the output   *)
(* the scan is compared with LiteralReturned of every body that may still  *)
(* be received: what has been returned, completed by what is to be         *)
(* returned of the rest, is LiteralReturned of the whole.                  *)
(***************************************************************************)
EXTENDS LiteralRewriter, ByteSlicesProofs

-----------------------------------------------------------------------------
(* The inductive invariant                                                 *)

L == Len(Source)
K == Len(Inserted)

(* The buffer is the input between base and fed. *)
BufferInv ==
    /\ input \in Seq(Byte)
    /\ fed \in 0..Len(input)
    /\ base \in 0..fed
    /\ pending = SubSeq(input, base + 1, fed)
    /\ finished \in BOOLEAN
    /\ finished => fed = Len(input)
    /\ phase \in {"idle", "scan"}

(* In Prepend mode the history h at offset b is the input before b, as far  *)
(* back as the inserted prefix is long.                                     *)
IsHistory(h, b) ==
    /\ h \in Seq(Byte)
    /\ Mode = "prepend" =>
         /\ Len(h) = IF b < K THEN b ELSE K
         /\ \A i \in 1..Len(h) : h[i] = input[b - Len(h) + i]

HistoryInv == IsHistory(history, base)

(* L and K are lengths. *)
LEMMA Lengths == L \in Nat /\ L > 0 /\ K \in Nat
BY SourceAssumption, InsertedAssumption DEF L, K

(* What BufferInv says of pending, element by element. *)
LEMMA PendingIs ==
    ASSUME BufferInv
    PROVE  /\ pending \in Seq(Byte)
           /\ Len(pending) = fed - base
           /\ \A i \in 1..(fed - base) : pending[i] = input[base + i]
BY DEF BufferInv

(* A literal is in pending where it is in the body. *)
LEMMA OccursInPending ==
    ASSUME BufferInv, NEW p \in Nat, NEW w \in Seq(Byte),
           base + p + Len(w) =< fed
    PROVE  OccursAt(pending, p, w) <=> OccursAt(input, base + p, w)
<1>1. /\ base \in Nat /\ fed \in Nat /\ Len(input) \in Nat
      /\ Len(w) \in Nat /\ fed =< Len(input)
  BY DEF BufferInv
<1>2. \A k \in 1..Len(w) : pending[p + k] = input[base + p + k]
  <2>. TAKE k \in 1..Len(w)
  <2>1. p + k \in 1..(fed - base)
    BY <1>1
  <2>2. pending[p + k] = input[base + (p + k)]
    BY <2>1, PendingIs
  <2>. QED  BY <2>2, <1>1
<1>3. p + Len(w) =< Len(pending)
  BY <1>1, PendingIs
<1>. QED  BY <1>1, <1>2, <1>3 DEF OccursAt

(* Draining n bytes of pending moves base. *)
LEMMA Drain ==
    ASSUME BufferInv, NEW n \in 0..Len(pending)
    PROVE  /\ From(pending, n) = SubSeq(input, base + n + 1, fed)
           /\ base + n \in 0..fed
<1>1. base \in Nat /\ fed \in Nat /\ base =< fed /\ fed =< Len(input)
      /\ n \in 0..(fed - base)
  BY PendingIs DEF BufferInv
<1>. QED  BY <1>1, Shrink DEF BufferInv

(* Where a match is. *)
LEMMA MatchAt ==
    ASSUME BufferInv, NEW p \in 0..Len(pending), FindsAt(pending, p)
    PROVE  /\ p + L \in 0..Len(pending)
           /\ base + p + L =< fed
           /\ OccursAt(input, base + p, Source)
           /\ \A r \in base..(base + p - 1) : ~OccursAt(input, r, Source)
<1>1. /\ base \in Nat /\ fed \in Nat /\ Len(pending) = fed - base
      /\ p \in Nat
  BY PendingIs DEF BufferInv
<1>2. p + L =< Len(pending)
  BY DEF FindsAt, OccursAt, L
<1>3. base + p + L =< fed
  BY <1>1, <1>2, Lengths
<1>4. OccursAt(input, base + p, Source)
  BY <1>1, <1>3, OccursInPending, SourceAssumption DEF FindsAt, L
<1>5. ASSUME NEW r \in base..(base + p - 1) PROVE ~OccursAt(input, r, Source)
  <2>1. r - base \in 0..(p - 1) /\ r - base \in Nat
        /\ base + (r - base) = r /\ base + (r - base) + L =< fed
    BY <1>1, <1>3, Lengths
  <2>2. ~OccursAt(pending, r - base, Source)
    BY <2>1 DEF FindsAt
  <2>. QED  BY <2>1, <2>2, OccursInPending, SourceAssumption DEF L
<1>. QED  BY <1>1, <1>2, <1>3, <1>4, <1>5, Lengths

(* The bytes let go at the end of a scan, and what they cannot contain. *)
LEMMA Emitted ==
    ASSUME BufferInv, ~Found(pending)
    PROVE  /\ EmitLength \in 0..Len(pending)
           /\ \A r \in base..(base + EmitLength - 1) :
                ~OccursAt(input, r, Source)
<1>1. /\ base \in Nat /\ fed \in Nat /\ Len(pending) = fed - base
      /\ Len(pending) \in Nat /\ Len(input) \in Nat /\ fed =< Len(input)
  BY PendingIs DEF BufferInv
<1>2. EmitLength \in 0..Len(pending)
  BY <1>1, Lengths DEF EmitLength, L
<1>3. ASSUME NEW r \in base..(base + EmitLength - 1),
             OccursAt(input, r, Source)
      PROVE  FALSE
  <2>1. r + L =< Len(input)
    BY <1>3 DEF OccursAt, L
  <2>2. r + L =< fed
    <3>1. CASE finished
      BY <3>1, <2>1 DEF BufferInv
    <3>2. CASE ~finished
      BY <3>2, <1>1, <1>2, <1>3, Lengths DEF EmitLength, L
    <3>. QED  BY <3>1, <3>2
  <2>3. r - base \in Nat /\ base + (r - base) = r
        /\ r - base \in 0..Len(pending)
    BY <1>1, <1>2
  <2>4. OccursAt(pending, r - base, Source)
    BY <1>3, <2>2, <2>3, OccursInPending, SourceAssumption DEF L
  <2>. QED  BY <2>3, <2>4 DEF Found
<1>. QED  BY <1>2, <1>3

-----------------------------------------------------------------------------
(* The buffer invariant is inductive. *)
LEMMA BufferInit == Init => BufferInv
<1>. SUFFICES ASSUME Init PROVE BufferInv
  OBVIOUS
<1>2. input \in Seq(Byte) /\ fed = 0 /\ base = 0 /\ pending = <<>>
      /\ finished = FALSE /\ phase = "idle"
  BY InputsAssumption DEF Init
<1>3. 0 \in 0..Len(input) /\ 0 \in 0..0
  BY <1>2
<1>1. pending = SubSeq(input, base + 1, fed)
  <2>1. base + 1 \in Int /\ fed \in Int /\ fed < base + 1
    BY <1>2
  <2>. QED  BY <2>1, <1>2, SubSeqEmpty
<1>. QED  BY <1>1, <1>2, <1>3 DEF BufferInv

LEMMA BufferStep == BufferInv /\ [Next]_vars => BufferInv'
<1>. SUFFICES ASSUME BufferInv, [Next]_vars PROVE BufferInv'
  OBVIOUS
<1>1. ASSUME NEW n \in 0..Len(input), Push(n) PROVE BufferInv'
  <2>1. /\ base \in Nat /\ fed \in Nat /\ base =< fed /\ n \in Nat
        /\ fed + n =< Len(input) /\ input \in Seq(Byte)
    BY <1>1 DEF BufferInv, Push
  <2>2. pending' = SubSeq(input, base + 1, fed + n)
    <3>1. /\ pending = SubSeq(input, base + 1, fed)
          /\ pending' = pending \o SubSeq(input, fed + 1, fed + n)
      BY <1>1, Zenon DEF BufferInv, Push
    <3>2. Adjoins(input, base, fed, n)
      BY ONLY <2>1, Adjoining
    <3>. QED  BY ONLY <3>1, <3>2, Zenon DEF Adjoins
  <2>3. /\ input' = input /\ base' = base /\ finished' = finished
        /\ fed' = fed + n /\ phase' = "scan" /\ ~finished
    BY <1>1 DEF Push
  <2>4. fed + n \in 0..Len(input) /\ base \in 0..(fed + n)
    BY <2>1
  <2>. QED  BY <2>1, <2>2, <2>3, <2>4 DEF BufferInv
<1>2. CASE Finish
  BY <1>2 DEF BufferInv, Finish
<1>3. ASSUME NEW p \in 0..Len(pending), RewriteMatch(p) PROVE BufferInv'
  <2>1. p + L \in 0..Len(pending)
    BY <1>3, MatchAt DEF RewriteMatch
  <2>2. base + (p + L) = base + p + L
    BY <2>1, Lengths DEF BufferInv
  <2>. QED  BY <1>3, <2>1, <2>2, Drain DEF BufferInv, RewriteMatch, L
<1>4. ASSUME NEW p \in 0..Len(pending), WaitForSuffix(p) PROVE BufferInv'
  BY <1>4, Drain DEF BufferInv, WaitForSuffix
<1>5. CASE EmitTail
  BY <1>5, Emitted, Drain DEF BufferInv, EmitTail
<1>6. CASE UNCHANGED vars
  BY <1>6 DEF BufferInv, vars
<1>. QED  BY <1>1, <1>2, <1>3, <1>4, <1>5, <1>6 DEF Next

THEOREM BufferIsInput == Spec => []BufferInv
BY BufferInit, BufferStep, PTL DEF Spec

-----------------------------------------------------------------------------
(* The history invariant                                                   *)

(* remember_input keeps the history when it is given the next input bytes. *)
LEMMA RememberNext ==
    ASSUME input \in Seq(Byte), NEW b \in Nat, NEW h, IsHistory(h, b),
           NEW w \in Seq(Byte),
           \A i \in 1..Len(w) : w[i] = input[b + i]
    PROVE  IsHistory(Remember(h, w), b + Len(w))
<1>1. CASE Mode # "prepend"
  BY <1>1 DEF IsHistory, Remember
<1>2. CASE Mode = "prepend" /\ Len(w) >= K
  <2>1. /\ Remember(h, w) = Last(w, K) /\ K \in 0..Len(w) /\ Len(w) \in Nat
    BY <1>2, Lengths DEF Remember, K
  <2>2. /\ Last(w, K) \in Seq(Byte)
        /\ Len(Last(w, K)) = K
        /\ \A i \in 1..K : Last(w, K)[i] = w[Len(w) - K + i]
    BY <2>1, LastSlice
  <2>3. ASSUME NEW i \in 1..K
        PROVE  Last(w, K)[i] = input[b + Len(w) - K + i]
    <3>1. Len(w) - K + i \in 1..Len(w)
      BY <2>1
    <3>2. w[Len(w) - K + i] = input[b + (Len(w) - K + i)]
      BY <3>1
    <3>3. b + (Len(w) - K + i) = b + Len(w) - K + i
      BY <2>1
    <3>. QED  BY <2>2, <3>2, <3>3
  <2>4. K = IF b + Len(w) < K THEN b + Len(w) ELSE K
    BY <2>1
  <2>. QED  BY <2>1, <2>2, <2>3, <2>4 DEF IsHistory
<1>3. CASE Mode = "prepend" /\ Len(w) < K
  <2>. DEFINE excess == Len(h) + Len(w) - K
              old == IF excess > 0 THEN From(h, excess) ELSE h
              new == IF b + Len(w) < K THEN b + Len(w) ELSE K
  <2>1. /\ Len(w) \in Nat /\ K \in Nat
        /\ h \in Seq(Byte) /\ Len(h) \in Nat
        /\ Len(h) = IF b < K THEN b ELSE K
        /\ \A i \in 1..Len(h) : h[i] = input[b - Len(h) + i]
    BY <1>3, Lengths DEF IsHistory
  <2>2. Remember(h, w) = old \o w
    BY <1>3, <2>1 DEF Remember, K
  <2>a. /\ excess \in Int
        /\ excess = Len(h) + Len(w) - K
        /\ new \in Nat
        /\ new = IF b + Len(w) < K THEN b + Len(w) ELSE K
    BY <2>1
  <2>b. h \in Seq(Byte)
    BY <2>1
  <2>. HIDE DEF excess, new
  <2>3. /\ old \in Seq(Byte)
        /\ Len(old) = new - Len(w)
        /\ \A i \in 1..Len(old) : old[i] = input[b - Len(old) + i]
    <3>1. CASE excess > 0
      <4>1. excess \in 0..Len(h)
        BY <3>1, <2>1, <2>a, <1>3
      <4>2. /\ From(h, excess) \in Seq(Byte)
            /\ Len(From(h, excess)) = Len(h) - excess
            /\ \A i \in 1..(Len(h) - excess) :
                 From(h, excess)[i] = h[excess + i]
        BY <4>1, <2>b, FromSlice
      <4>3. Len(h) - excess = K - Len(w) /\ new = K
        BY <3>1, <2>1, <2>a, <1>3
      <4>4. ASSUME NEW i \in 1..(K - Len(w))
            PROVE  From(h, excess)[i] = input[b - (K - Len(w)) + i]
        <5>1. /\ excess \in Int /\ Len(h) \in Nat /\ K - Len(w) \in Int
              /\ Len(h) - excess = K - Len(w) /\ 0 =< excess /\ b \in Int
          BY <4>1, <4>3, <2>1
        <5>2. excess + i \in 1..Len(h)
          BY <5>1
        <5>3. b - Len(h) + (excess + i) = b - (K - Len(w)) + i
          BY <5>1
        <5>4. h[excess + i] = input[b - Len(h) + (excess + i)]
          BY <5>2, <2>1
        <5>5. From(h, excess)[i] = h[excess + i]
          BY <4>2, <5>1
        <5>. QED  BY <5>3, <5>4, <5>5
      <4>. QED  BY <3>1, <4>2, <4>3, <4>4
    <3>2. CASE ~(excess > 0)
      <4>1. old = h /\ Len(h) = new - Len(w)
        BY <3>2, <2>1, <2>a, <1>3
      <4>. QED  BY <4>1, <2>1
    <3>. QED  BY <3>1, <3>2
  <2>. HIDE DEF old
  <2>4. /\ old \o w \in Seq(Byte)
        /\ Len(old \o w) = new
        /\ \A i \in 1..new : (old \o w)[i] =
                IF i =< Len(old) THEN old[i] ELSE w[i - Len(old)]
    <3>1. Len(w) \in Nat /\ Len(old) + Len(w) = new
      BY <2>1, <2>3, <2>a
    <3>. QED  BY <3>1, <2>3, ConcatProperties
  <2>5. new \in Nat /\ Len(old) \in Nat
    BY <2>1, <2>3, <2>a
  <2>6. ASSUME NEW i \in 1..new
        PROVE  (old \o w)[i] = input[b + Len(w) - new + i]
    <3>1. CASE i =< Len(old)
      <4>1. b - Len(old) + i = b + Len(w) - new + i /\ i \in 1..Len(old)
        BY <3>1, <2>1, <2>3, <2>5
      <4>. QED  BY <3>1, <4>1, <2>3, <2>4
    <3>2. CASE i > Len(old)
      <4>1. i - Len(old) \in 1..Len(w)
            /\ b + (i - Len(old)) = b + Len(w) - new + i
            /\ ~(i =< Len(old))
        BY <3>2, <2>1, <2>3, <2>5
      <4>2. w[i - Len(old)] = input[b + (i - Len(old))]
        BY <4>1
      <4>. QED  BY <4>1, <4>2, <2>4
    <3>3. i =< Len(old) \/ i > Len(old)
      BY <2>5
    <3>. QED  BY <3>1, <3>2, <3>3
  <2>7. /\ Remember(h, w) \in Seq(Byte)
        /\ Len(Remember(h, w)) = new
        /\ \A i \in 1..new : Remember(h, w)[i] = input[b + Len(w) - new + i]
    BY <2>2, <2>4, <2>6
  <2>8. new = IF b + Len(w) < K THEN b + Len(w) ELSE K
    BY <2>a
  <2>9. ASSUME NEW i \in 1..Len(Remember(h, w))
        PROVE  Remember(h, w)[i]
                 = input[b + Len(w) - Len(Remember(h, w)) + i]
    BY <2>7
  <2>10. Len(Remember(h, w)) = IF b + Len(w) < K THEN b + Len(w) ELSE K
    BY <2>7, <2>8, Zenon
  <2>. QED  BY ONLY <2>7, <2>9, <2>10 DEF IsHistory
<1>. QED  BY <1>1, <1>2, <1>3, Lengths

(* The first n bytes of pending are the input from base on. *)
LEMMA FirstOfPending ==
    ASSUME BufferInv, NEW n \in 0..Len(pending)
    PROVE  /\ First(pending, n) \in Seq(Byte)
           /\ Len(First(pending, n)) = n
           /\ \A i \in 1..n : First(pending, n)[i] = input[base + i]
<1>1. /\ pending \in Seq(Byte)
      /\ Len(pending) = fed - base
      /\ \A i \in 1..(fed - base) : pending[i] = input[base + i]
      /\ fed \in Nat /\ base \in Nat
  BY PendingIs DEF BufferInv
<1>2. /\ First(pending, n) \in Seq(Byte)
      /\ Len(First(pending, n)) = n
      /\ \A i \in 1..n : First(pending, n)[i] = pending[i]
  BY <1>1, FirstSlice
<1>3. \A i \in 1..n : i \in 1..(fed - base)
  BY <1>1
<1>. QED  BY <1>1, <1>2, <1>3

LEMMA HistoryInit == Init => HistoryInv
BY Lengths DEF Init, HistoryInv, IsHistory

LEMMA HistoryStep == BufferInv /\ HistoryInv /\ [Next]_vars => HistoryInv'
<1>. SUFFICES ASSUME BufferInv, HistoryInv, [Next]_vars PROVE HistoryInv'
  OBVIOUS
<1>. USE DEF HistoryInv
<1>0. /\ input \in Seq(Byte) /\ base \in Nat
      /\ \A h, b : input' = input => (IsHistory(h, b))' = IsHistory(h', b')
  BY DEF BufferInv, IsHistory
<1>1. ASSUME NEW n \in 0..Len(input), Push(n) PROVE HistoryInv'
  BY <1>1 DEF Push, IsHistory
<1>2. CASE Finish
  BY <1>2 DEF Finish, IsHistory
<1>3. ASSUME NEW p \in 0..Len(pending), NEW n \in 0..Len(pending),
             input' = input, base' = base + n,
             history' = Remember(history, First(pending, n))
      PROVE  HistoryInv'
  <2>1. IsHistory(Remember(history, First(pending, n)), base + n)
    BY <1>0, FirstOfPending, RememberNext
  <2>. QED  BY <1>3, <2>1 DEF IsHistory
<1>4. ASSUME NEW p \in 0..Len(pending), RewriteMatch(p) PROVE HistoryInv'
  <2>1. IsHistory(Remember(history, First(pending, p)), base + p)
    BY <1>0, FirstOfPending, RememberNext
  <2>2. OccursAt(input, base + p, Source)
    BY <1>4, MatchAt DEF RewriteMatch
  <2>3. base + p \in Nat /\ \A i \in 1..Len(Source) : Source[i] = input[base + p + i]
    BY <1>0, <2>2 DEF OccursAt
  <2>4. IsHistory(Remember(Remember(history, First(pending, p)), Source),
                  base + p + Len(Source))
    BY <1>0, <2>1, <2>3, RememberNext, SourceAssumption
  <2>. QED  BY <1>4, <2>4 DEF RewriteMatch, IsHistory
<1>5. ASSUME NEW p \in 0..Len(pending), WaitForSuffix(p) PROVE HistoryInv'
  BY <1>3, <1>5 DEF WaitForSuffix
<1>6. CASE EmitTail
  <2>1. CASE EmitLength > 0
    BY <1>3, <1>6, <2>1, Emitted DEF EmitTail
  <2>2. CASE ~(EmitLength > 0)
    <3>1. EmitLength = 0
      BY <1>6, <2>2, Emitted DEF EmitTail
    <3>. QED  BY <1>0, <1>6, <2>2, <3>1 DEF EmitTail, IsHistory
  <2>. QED  BY <2>1, <2>2
<1>7. CASE UNCHANGED vars
  BY <1>7 DEF vars, IsHistory
<1>. QED  BY <1>1, <1>2, <1>4, <1>5, <1>6, <1>7 DEF Next

(* Both invariants hold of every behaviour. *)
LEMMA Invariants == Spec => [](BufferInv /\ HistoryInv)
<1>1. Init => BufferInv /\ HistoryInv
  BY BufferInit, HistoryInit
<1>2. BufferInv /\ HistoryInv /\ [Next]_vars => (BufferInv /\ HistoryInv)'
  BY BufferStep, HistoryStep
<1>. QED  BY <1>1, <1>2, PTL DEF Spec

-----------------------------------------------------------------------------
(* The occurrences the search stops at                                     *)

SearchInv == matched \subseteq Nat /\ StopsAtLeftmost

(* base moves over n bytes where no occurrence begins. *)
LEMMA NothingSkipped ==
    ASSUME BufferInv, SearchInv, NEW n \in Nat,
           \A r \in base..(base + n - 1) : ~OccursAt(input, r, Source),
           input' = input, base' = base + n, matched' = matched
    PROVE  SearchInv'
<1>1. base \in Nat /\ L \in Nat
  BY Lengths DEF BufferInv
<1>2. ASSUME NEW p \in matched
      PROVE  OccursAt(input, p, Source) /\ p + Len(Source) =< base + n
  BY <1>1 DEF SearchInv, StopsAtLeftmost, L
<1>3. \A p, q \in matched : p < q => p + Len(Source) =< q
  BY DEF SearchInv, StopsAtLeftmost
<1>4. ASSUME NEW p \in 0..(base + n - 1), OccursAt(input, p, Source),
             p \notin matched
      PROVE  \E q \in matched : q < p /\ p < q + Len(Source)
  <2>1. p \in 0..(base - 1)
    BY <1>1, <1>4
  <2>. QED  BY <1>4, <2>1 DEF SearchInv, StopsAtLeftmost
<1>. QED  BY <1>2, <1>3, <1>4, <1>1 DEF SearchInv, StopsAtLeftmost

(* base moves past the first occurrence in pending. *)
LEMMA MatchTaken ==
    ASSUME BufferInv, SearchInv, NEW p \in 0..Len(pending),
           FindsAt(pending, p),
           input' = input, base' = base + p + L,
           matched' = matched \cup {base + p}
    PROVE  SearchInv'
<1>1. base \in Nat /\ L \in Nat /\ L > 0 /\ p \in Nat /\ base + p \in Nat
  BY Lengths, PendingIs DEF BufferInv
<1>2. /\ OccursAt(input, base + p, Source)
      /\ \A r \in base..(base + p - 1) : ~OccursAt(input, r, Source)
  BY MatchAt
<1>3. \A q \in matched : /\ q \in Nat
                        /\ OccursAt(input, q, Source)
                        /\ q + L =< base
  BY DEF SearchInv, StopsAtLeftmost, L
<1>4. ASSUME NEW q \in matched'
      PROVE  OccursAt(input, q, Source) /\ q + L =< base + p + L
  BY <1>1, <1>2, <1>3
<1>5. ASSUME NEW q \in matched', NEW r \in matched', q < r
      PROVE  q + L =< r
  <2>1. CASE q \in matched /\ r \in matched
    BY <1>5, <2>1 DEF SearchInv, StopsAtLeftmost, L
  <2>2. CASE q \in matched /\ r = base + p
    BY <1>1, <1>3, <2>2
  <2>3. CASE q = base + p
    BY <1>1, <1>3, <1>5, <2>3
  <2>. QED  BY <2>1, <2>2, <2>3
<1>6. ASSUME NEW r \in 0..(base + p + L - 1), OccursAt(input, r, Source),
             r \notin matched'
      PROVE  \E q \in matched' : q < r /\ r < q + L
  <2>1. CASE r < base
    <3>1. r \in 0..(base - 1) /\ r \notin matched
      BY <1>1, <1>6, <2>1
    <3>. QED  BY <1>6, <3>1 DEF SearchInv, StopsAtLeftmost, L
  <2>2. CASE base =< r /\ r < base + p
    BY <1>1, <1>2, <1>6, <2>2
  <2>3. CASE base + p =< r
    <3>1. base + p \in matched' /\ r # base + p
      BY <1>6
    <3>. QED  BY <1>1, <1>6, <2>3, <3>1
  <2>. QED  BY <1>1, <2>1, <2>2, <2>3
<1>7. matched' \subseteq Nat
  BY <1>1 DEF SearchInv
<1>. QED  BY <1>4, <1>5, <1>6, <1>7, <1>1 DEF SearchInv, StopsAtLeftmost, L

LEMMA SearchInvariant == Spec => []SearchInv
<1>1. Init => SearchInv
  BY DEF Init, SearchInv, StopsAtLeftmost
<1>2. BufferInv /\ SearchInv /\ [Next]_vars => SearchInv'
  <2>. SUFFICES ASSUME BufferInv, SearchInv, [Next]_vars PROVE SearchInv'
    OBVIOUS
  <2>1. ASSUME NEW n \in 0..Len(input), Push(n) PROVE SearchInv'
    BY <2>1 DEF Push, SearchInv, StopsAtLeftmost, OccursAt
  <2>2. CASE Finish
    BY <2>2 DEF Finish, SearchInv, StopsAtLeftmost, OccursAt
  <2>3. ASSUME NEW p \in 0..Len(pending), RewriteMatch(p) PROVE SearchInv'
    BY <2>3, MatchTaken DEF RewriteMatch, L
  <2>4. ASSUME NEW p \in 0..Len(pending), WaitForSuffix(p) PROVE SearchInv'
    <3>1. p \in Nat
      BY PendingIs DEF BufferInv
    <3>. QED  BY <2>4, <3>1, MatchAt, NothingSkipped DEF WaitForSuffix
  <2>5. CASE EmitTail
    <3>1. EmitLength \in Nat
      BY <2>5, Emitted, PendingIs DEF EmitTail, BufferInv
    <3>. QED  BY <2>5, <3>1, Emitted, NothingSkipped DEF EmitTail
  <2>6. CASE UNCHANGED vars
    BY <2>6 DEF vars, SearchInv, StopsAtLeftmost, OccursAt
  <2>. QED  BY <2>1, <2>2, <2>3, <2>4, <2>5, <2>6 DEF Next
<1>. QED  BY <1>1, <1>2, Invariants, PTL DEF Spec

(* Wherever the chunks are cut, the search stops at exactly the leftmost   *)
(* non-overlapping occurrences of the source: what process_available and   *)
(* the bytes it keeps back between two pushes are for.                     *)
THEOREM SearchCorrect == Spec => []StopsAtLeftmost
<1>1. SearchInv => StopsAtLeftmost
  BY DEF SearchInv
<1>. QED  BY <1>1, SearchInvariant, PTL

-----------------------------------------------------------------------------
(* The buffer between two chunks                                           *)

(* Between two chunks less than a source, and in Append mode a suffix, is  *)
(* buffered, whatever the body: process_available lets everything else go. *)
THEOREM Lookahead == Spec => []BoundedLookahead
<1>1. Init => BoundedLookahead
  <2>1. SourceAssumption => Len(Source) + (IF Mode = "append" THEN Len(Inserted) ELSE 0) > 0
    BY Lengths DEF L, K
  <2>2. Init => Len(pending) = 0
    BY DEF Init
  <2>. QED  BY <2>1, <2>2, SourceAssumption DEF BoundedLookahead
<1>2. BufferInv /\ BoundedLookahead /\ [Next]_vars => BoundedLookahead'
  <2>. SUFFICES ASSUME BufferInv, BoundedLookahead, [Next]_vars
                PROVE  BoundedLookahead'
    OBVIOUS
  <2>1. ASSUME NEW n \in 0..Len(input), Push(n) PROVE BoundedLookahead'
    BY <2>1 DEF Push, BoundedLookahead
  <2>2. CASE Finish
    BY <2>2 DEF Finish, BoundedLookahead
  <2>3. ASSUME NEW p \in 0..Len(pending), RewriteMatch(p)
        PROVE  BoundedLookahead'
    BY <2>3 DEF RewriteMatch, BoundedLookahead
  <2>4. ASSUME NEW p \in 0..Len(pending), WaitForSuffix(p)
        PROVE  BoundedLookahead'
    <3>1. /\ p \in Nat /\ Len(pending) \in Nat /\ pending \in Seq(Byte)
          /\ p + L \in 0..Len(pending) /\ L \in Nat /\ K \in Nat
      <4>1. FindsAt(pending, p)
        BY <2>4 DEF WaitForSuffix
      <4>2. p + L \in 0..Len(pending)
        BY <4>1, MatchAt
      <4>3. pending \in Seq(Byte) /\ Len(pending) \in Nat
        BY PendingIs
      <4>. QED  BY <4>2, <4>3, Lengths
    <3>2. Len(From(pending, p + L)) = Len(pending) - (p + L)
      BY <3>1, FromSlice
    <3>3. Mode = "append" /\ Len(From(pending, p + L)) < K
      BY <2>4 DEF WaitForSuffix, SuffixUndecided, L, K
    <3>4. Len(From(pending, p)) = Len(pending) - p
      BY <3>1, FromSlice
    <3>5. Len(pending') < L + K
      BY <2>4, <3>1, <3>2, <3>3, <3>4 DEF WaitForSuffix
    <3>. QED  BY <3>3, <3>5 DEF BoundedLookahead, L, K
  <2>5. CASE EmitTail
    <3>1. /\ EmitLength \in 0..Len(pending) /\ Len(pending) \in Nat
          /\ pending \in Seq(Byte) /\ L \in Nat /\ K \in Nat /\ L > 0
      BY <2>5, Emitted, PendingIs, Lengths DEF EmitTail, BufferInv
    <3>2. Len(pending') = Len(pending) - EmitLength
      BY <2>5, <3>1, FromSlice DEF EmitTail
    <3>3. Len(pending') < L
      BY <3>1, <3>2 DEF EmitLength, L
    <3>. QED  BY <3>1, <3>2, <3>3 DEF BoundedLookahead, L, K
  <2>6. CASE UNCHANGED vars
    BY <2>6 DEF vars, BoundedLookahead
  <2>. QED  BY <2>1, <2>2, <2>3, <2>4, <2>5, <2>6 DEF Next
<1>. QED  BY <1>1, <1>2, Invariants, PTL DEF Spec

-----------------------------------------------------------------------------
(* The occurrences that are left alone                                     *)

(* original_input_ends_with_prefix looks at pending and the history, and    *)
(* sees what is in the body.                                                *)
LEMMA PrefixSeen ==
    ASSUME BufferInv, HistoryInv, Mode = "prepend",
           NEW p \in 0..Len(pending)
    PROVE  AlreadyPrefixed(First(pending, p))
             <=> /\ base + p >= K
                 /\ OccursAt(input, base + p - K, Inserted)
<1>. DEFINE before == First(pending, p)
            missing == K - p
<1>1. /\ base \in Nat /\ p \in Nat /\ K \in Nat /\ base + p =< Len(input)
      /\ Len(input) \in Nat /\ Inserted \in Seq(Byte)
  BY PendingIs, Lengths, InsertedAssumption DEF BufferInv
<1>2. /\ before \in Seq(Byte)
      /\ Len(before) = p
      /\ \A i \in 1..p : before[i] = input[base + i]
  BY FirstOfPending
<1>. HIDE DEF before
<1>3. AlreadyPrefixed(before)
        <=> IF missing =< 0
               THEN EndsWith(before, Inserted)
               ELSE /\ EndsWith(history, First(Inserted, missing))
                    /\ before = From(Inserted, missing)
  BY <1>2 DEF AlreadyPrefixed, K
<1>4. CASE missing =< 0
  <2>1. EndsWith(before, Inserted)
          <=> \A k \in 1..K : before[p - K + k] = Inserted[k]
    BY <1>1, <1>2, <1>4 DEF EndsWith, OccursAt, K
  <2>2. ASSUME NEW k \in 1..K
        PROVE  before[p - K + k] = input[base + p - K + k]
    <3>1. p - K + k \in 1..p /\ base + (p - K + k) = base + p - K + k
      BY <1>1, <1>4
    <3>2. before[p - K + k] = input[base + (p - K + k)]
      BY <1>2, <3>1
    <3>. QED  BY <3>1, <3>2
  <2>3. OccursAt(input, base + p - K, Inserted)
          <=> \A k \in 1..K : input[base + p - K + k] = Inserted[k]
    <3>1. base + p - K + K =< Len(input)
      BY ONLY <1>1
    <3>. QED  BY ONLY <3>1, Zenon DEF OccursAt, K
  <2>4. base + p >= K
    BY <1>1, <1>4
  <2>. QED  BY <1>3, <1>4, <2>1, <2>2, <2>3, <2>4 DEF before
<1>5. CASE missing > 0
  <2>1. /\ history \in Seq(Byte)
        /\ Len(history) \in Nat
        /\ Len(history) = IF base < K THEN base ELSE K
        /\ \A i \in 1..Len(history) :
             history[i] = input[base - Len(history) + i]
    BY DEF HistoryInv, IsHistory
  <2>2. missing \in 0..K
    BY <1>1, <1>5
  <2>3. /\ Len(First(Inserted, missing)) = missing
        /\ \A k \in 1..missing : First(Inserted, missing)[k] = Inserted[k]
    BY <1>1, <2>2, FirstSlice DEF K
  <2>4. /\ From(Inserted, missing) \in Seq(Byte)
        /\ Len(From(Inserted, missing)) = p
        /\ \A k \in 1..p : From(Inserted, missing)[k] = Inserted[missing + k]
    <3>1. missing \in 0..Len(Inserted) /\ Len(Inserted) - missing = p
      BY <1>1, <2>2 DEF K
    <3>2. /\ From(Inserted, missing) \in Seq(Byte)
          /\ Len(From(Inserted, missing)) = Len(Inserted) - missing
          /\ \A k \in 1..(Len(Inserted) - missing) :
               From(Inserted, missing)[k] = Inserted[missing + k]
      BY <1>1, <3>1, FromSlice
    <3>. QED  BY <3>1, <3>2
  <2>5. missing =< Len(history) <=> base + p >= K
    BY <1>1, <1>5, <2>1
  <2>6. ASSUME base + p >= K
        PROVE  EndsWith(history, First(Inserted, missing))
                 <=> \A k \in 1..missing :
                       input[base + p - K + k] = Inserted[k]
    <3>1. missing =< Len(history)
      BY <2>5, <2>6
    <3>2. EndsWith(history, First(Inserted, missing))
            <=> \A k \in 1..missing :
                  history[Len(history) - missing + k] = Inserted[k]
      <4>. DEFINE tail == First(Inserted, missing)
      <4>1. /\ Len(tail) = missing /\ Len(history) \in Nat /\ missing \in Nat
            /\ \A k \in 1..missing : tail[k] = Inserted[k]
        BY <2>1, <2>2, <2>3
      <4>. HIDE DEF tail
      <4>2. /\ Len(tail) =< Len(history)
            /\ Len(history) - Len(tail) + Len(tail) =< Len(history)
        BY <3>1, <4>1
      <4>3. EndsWith(history, tail)
              <=> \A k \in 1..Len(tail) :
                    history[Len(history) - Len(tail) + k] = tail[k]
        BY <4>2 DEF EndsWith, OccursAt
      <4>. QED  BY <4>1, <4>3 DEF tail
    <3>3. ASSUME NEW k \in 1..missing
          PROVE  history[Len(history) - missing + k] = input[base + p - K + k]
      <4>1. /\ Len(history) - missing + k \in 1..Len(history)
            /\ base - Len(history) + (Len(history) - missing + k)
                 = base + p - K + k
        BY <1>1, <2>1, <2>2, <3>1
      <4>2. history[Len(history) - missing + k]
              = input[base - Len(history) + (Len(history) - missing + k)]
        BY <2>1, <4>1
      <4>. QED  BY <4>1, <4>2
    <3>. QED  BY <3>2, <3>3
  <2>7. before = From(Inserted, missing)
          <=> \A k \in 1..p : input[base + k] = Inserted[missing + k]
    <3>1. ASSUME \A k \in 1..p : input[base + k] = Inserted[missing + k]
          PROVE  before = From(Inserted, missing)
      <4>1. \A k \in 1..p : before[k] = From(Inserted, missing)[k]
        BY <1>2, <2>4, <3>1
      <4>. QED  BY <1>2, <2>4, <4>1, SeqEqual
    <3>. QED  BY <3>1, <1>2, <2>4
  <2>8. ASSUME base + p >= K
        PROVE  OccursAt(input, base + p - K, Inserted)
                 <=> /\ \A k \in 1..missing :
                          input[base + p - K + k] = Inserted[k]
                     /\ \A k \in 1..p : input[base + k] = Inserted[missing + k]
    <3>1. OccursAt(input, base + p - K, Inserted)
            <=> \A k \in 1..K : input[base + p - K + k] = Inserted[k]
      BY <1>1, <2>8 DEF OccursAt, K
    <3>2. ASSUME NEW k \in 1..p
          PROVE  /\ missing + k \in 1..K
                 /\ base + p - K + (missing + k) = base + k
      BY <1>1, <2>2
    <3>3. ASSUME NEW k \in 1..K, ~(k \in 1..missing)
          PROVE  /\ k - missing \in 1..p
                 /\ missing + (k - missing) = k
                 /\ base + p - K + k = base + (k - missing)
      BY <1>1, <2>2, <3>3
    <3>4. 1..missing \subseteq 1..K
      BY <1>1, <2>2
    <3>5. ASSUME \A k \in 1..K : input[base + p - K + k] = Inserted[k]
          PROVE  \A k \in 1..p : input[base + k] = Inserted[missing + k]
      <4>. TAKE k \in 1..p
      <4>1. input[base + p - K + (missing + k)] = Inserted[missing + k]
        BY <3>2, <3>5
      <4>. QED  BY <3>2, <4>1
    <3>6. ASSUME \A k \in 1..missing : input[base + p - K + k] = Inserted[k],
                 \A k \in 1..p : input[base + k] = Inserted[missing + k]
          PROVE  \A k \in 1..K : input[base + p - K + k] = Inserted[k]
      <4>. TAKE k \in 1..K
      <4>1. CASE k \in 1..missing
        BY <3>6, <4>1
      <4>2. CASE ~(k \in 1..missing)
        <5>1. input[base + (k - missing)] = Inserted[missing + (k - missing)]
          BY <3>3, <3>6, <4>2
        <5>. QED  BY <3>3, <4>2, <5>1
      <4>. QED  BY <4>1, <4>2
    <3>. QED  BY <3>1, <3>4, <3>5, <3>6
  <2>9. EndsWith(history, First(Inserted, missing)) => base + p >= K
    BY <2>1, <2>2, <2>3, <2>5 DEF EndsWith
  <2>. QED  BY <1>3, <1>5, <2>2, <2>6, <2>7, <2>8, <2>9 DEF before
<1>. QED  BY <1>1, <1>4, <1>5

(* Once process_available decides about a suffix, it has seen what is in    *)
(* the body.                                                                *)
LEMMA SuffixSeen ==
    ASSUME BufferInv, Mode = "append", NEW p \in 0..Len(pending),
           FindsAt(pending, p),
           ~SuffixUndecided(From(pending, p + Len(Source)))
    PROVE  StartsWith(From(pending, p + Len(Source)), Inserted)
             <=> OccursAt(input, base + p + L, Inserted)
<1>. DEFINE after == From(pending, p + L)
<1>1. /\ base \in Nat /\ fed \in Nat /\ Len(input) \in Nat /\ p \in Nat
      /\ L \in Nat /\ K \in Nat /\ Len(pending) = fed - base
      /\ fed =< Len(input)
      /\ p + L \in 0..Len(pending) /\ pending \in Seq(Byte)
  BY MatchAt, PendingIs, Lengths DEF BufferInv
<1>2. /\ after \in Seq(Byte)
      /\ Len(after) = fed - (base + p + L)
      /\ \A k \in 1..Len(after) : after[k] = pending[p + L + k]
  <2>1. /\ From(pending, p + L) \in Seq(Byte)
        /\ Len(From(pending, p + L)) = Len(pending) - (p + L)
        /\ \A k \in 1..(Len(pending) - (p + L)) :
             From(pending, p + L)[k] = pending[(p + L) + k]
    BY <1>1, FromSlice
  <2>2. Len(pending) - (p + L) = fed - (base + p + L)
    BY <1>1
  <2>. QED  BY <2>1, <2>2
<1>. HIDE DEF after
<1>3. ASSUME NEW k \in 1..Len(after)
      PROVE  after[k] = input[base + p + L + k]
  <2>1. p + L + k \in 1..(fed - base)
        /\ base + (p + L + k) = base + p + L + k
    BY <1>1, <1>2
  <2>2. pending[p + L + k] = input[base + (p + L + k)]
    BY <2>1, PendingIs
  <2>. QED  BY <1>2, <2>1, <2>2
<1>4. StartsWith(after, Inserted)
        <=> K =< Len(after) /\ \A k \in 1..K : after[k] = Inserted[k]
  BY <1>1 DEF StartsWith, OccursAt, K
<1>5. OccursAt(input, base + p + L, Inserted)
        <=> /\ base + p + L + K =< Len(input)
            /\ \A k \in 1..K : input[base + p + L + k] = Inserted[k]
  BY <1>1 DEF OccursAt, K
<1>6. CASE K =< Len(after)
  <2>1. ASSUME NEW k \in 1..K PROVE after[k] = input[base + p + L + k]
    <3>1. k \in 1..Len(after)
      BY <1>1, <1>2, <1>6
    <3>. QED  BY ONLY <1>3, <3>1
  <2>2. base + p + L + K =< Len(input)
    BY <1>1, <1>2, <1>6
  <2>. QED  BY <1>4, <1>5, <1>6, <2>1, <2>2 DEF after, L
<1>7. CASE Len(after) < K
  <2>1. ~StartsWith(after, Inserted)
    BY <1>1, <1>2, <1>4, <1>7
  <2>2. ~OccursAt(input, base + p + L, Inserted)
    <3>1. CASE finished
      <4>1. Len(after) = Len(input) - (base + p + L)
        BY <1>2, <3>1 DEF BufferInv
      <4>2. ~(base + p + L + K =< Len(input))
        BY ONLY <1>1, <1>7, <4>1
      <4>. QED  BY ONLY <1>5, <4>2, Zenon
    <3>2. CASE ~finished
      <4>1. ~StartsWith(Inserted, after)
        BY <1>7, <3>2 DEF SuffixUndecided, after, L, K
      <4>2. PICK k \in 1..Len(after) : Inserted[k] # after[k]
        BY <1>1, <1>2, <1>7, <4>1 DEF StartsWith, OccursAt, K
      <4>3. k \in 1..K
        BY <1>1, <1>2, <1>7
      <4>. QED  BY <1>3, <1>5, <4>2, <4>3
    <3>. QED  BY <3>1, <3>2
  <2>. QED  BY <2>1, <2>2 DEF after, L
<1>. QED  BY <1>1, <1>2, <1>6, <1>7

(* What is decided at a match is what Carries says of the whole body. *)
LEMMA Decision ==
    ASSUME BufferInv, HistoryInv, NEW p \in 0..Len(pending),
           FindsAt(pending, p),
           ~SuffixUndecided(From(pending, p + Len(Source)))
    PROVE  Keep(p) <=> Carries(Stage, input, base + p)
<1>1. CASE Mode = "prepend"
  <2>1. Keep(p) <=> AlreadyPrefixed(First(pending, p))
    BY <1>1 DEF Keep
  <2>2. Carries(Stage, input, base + p)
          <=> /\ base + p >= K
              /\ OccursAt(input, base + p - K, Inserted)
    <3>1. (base + p) - K = base + p - K
      BY Lengths, PendingIs DEF BufferInv
    <3>. QED  BY <1>1, <3>1 DEF Carries, Stage, K
  <2>. QED  BY <1>1, <2>1, <2>2, PrefixSeen
<1>2. CASE Mode = "append"
  BY <1>2, SuffixSeen DEF Keep, Carries, Stage, L, AlreadyPrefixed
<1>3. CASE Mode = "exact"
  BY <1>3 DEF Keep, Carries, Stage, AlreadyPrefixed
<1>. QED  BY <1>1, <1>2, <1>3, ModeAssumption

KeptInv == /\ kept \subseteq matched
           /\ \A p \in matched : p < base
           /\ KeepsExactlyCarriers

(* An occurrence is left alone exactly when the body has the inserted bytes *)
(* next to it, whatever the chunks, the sources that overlap them and what  *)
(* has been inserted into the output: what input_history and the wait for   *)
(* the suffix are for.                                                      *)
THEOREM KeepsCarriers == Spec => []KeepsExactlyCarriers
<1>1. Init => KeptInv
  BY DEF Init, KeptInv, KeepsExactlyCarriers
<1>2. BufferInv /\ HistoryInv /\ SearchInv /\ KeptInv /\ [Next]_vars => KeptInv'
  <2>. SUFFICES ASSUME BufferInv, HistoryInv, SearchInv, KeptInv, [Next]_vars
                PROVE  KeptInv'
    OBVIOUS
  <2>0. /\ base \in Nat /\ \A q \in matched : q \in Nat
        /\ L \in Nat /\ L > 0
    BY Lengths DEF SearchInv, BufferInv
  <2>1. ASSUME NEW n \in 0..Len(input), Push(n) PROVE KeptInv'
    BY <2>1 DEF Push, KeptInv, KeepsExactlyCarriers
  <2>2. CASE Finish
    BY <2>2 DEF Finish, KeptInv, KeepsExactlyCarriers
  <2>3. ASSUME NEW p \in 0..Len(pending), RewriteMatch(p) PROVE KeptInv'
    <3>1. /\ input' = input /\ base' = base + p + L
          /\ matched' = matched \cup {base + p}
          /\ kept' = IF Keep(p) THEN kept \cup {base + p} ELSE kept
      BY <2>3 DEF RewriteMatch, L
    <3>2. Keep(p) <=> Carries(Stage, input, base + p)
      BY <2>3, Decision DEF RewriteMatch
    <3>3. p \in Nat /\ base + p \notin matched
      BY <2>0, PendingIs DEF KeptInv, BufferInv
    <3>4. \A q \in matched' : q < base'
      BY <2>0, <3>1, <3>3 DEF KeptInv
    <3>5. ASSUME NEW q \in matched' PROVE q \in kept' <=> Carries(Stage, input, q)
      BY <3>1, <3>2, <3>3 DEF KeptInv, KeepsExactlyCarriers
    <3>. QED  BY <3>1, <3>4, <3>5 DEF KeptInv, KeepsExactlyCarriers
  <2>4. ASSUME NEW p \in 0..Len(pending), WaitForSuffix(p) PROVE KeptInv'
    <3>1. p \in Nat
      BY PendingIs DEF BufferInv
    <3>. QED  BY <2>0, <2>4, <3>1
              DEF WaitForSuffix, KeptInv, KeepsExactlyCarriers
  <2>5. CASE EmitTail
    <3>1. EmitLength \in Nat
      BY <2>5, Emitted, PendingIs DEF EmitTail, BufferInv
    <3>. QED  BY <2>0, <2>5, <3>1 DEF EmitTail, KeptInv, KeepsExactlyCarriers
  <2>6. CASE UNCHANGED vars
    BY <2>6 DEF vars, KeptInv, KeepsExactlyCarriers
  <2>. QED  BY <2>1, <2>2, <2>3, <2>4, <2>5, <2>6 DEF Next
<1>3. KeptInv => KeepsExactlyCarriers
  BY DEF KeptInv
<1>. QED  BY <1>1, <1>2, <1>3, Invariants, SearchInvariant, PTL DEF Spec

-----------------------------------------------------------------------------
(* Type correctness                                                        *)

OutputInv == output \in Seq(Byte) /\ matched \subseteq 0..Len(input)

LEMMA ReplacementType == Replacement(Stage) \in Seq(Byte)
BY ModeAssumption, SourceAssumption, InsertedAssumption DEF Replacement, Stage

(* Every field of the stage keeps its type, and pending is the received part *)
(* of the body from base on: drain(..consumed) matches what was let go.      *)
THEOREM TypeCorrect == Spec => []TypeOK
<1>1. Init => OutputInv
  BY DEF Init, OutputInv
<1>2. BufferInv /\ OutputInv /\ [Next]_vars => OutputInv'
  <2>. SUFFICES ASSUME BufferInv, OutputInv, [Next]_vars PROVE OutputInv'
    OBVIOUS
  <2>1. ASSUME NEW n \in 0..Len(input), Push(n) PROVE OutputInv'
    BY <2>1 DEF Push, OutputInv
  <2>2. CASE Finish
    BY <2>2 DEF Finish, OutputInv
  <2>3. ASSUME NEW p \in 0..Len(pending), RewriteMatch(p) PROVE OutputInv'
    <3>1. base + p \in 0..Len(input)
      BY PendingIs DEF BufferInv
    <3>2. First(pending, p) \in Seq(Byte)
      BY FirstOfPending
    <3>3. output' \in Seq(Byte)
      BY <2>3, <3>2, ReplacementType, SourceAssumption
         DEF RewriteMatch, OutputInv
    <3>. QED  BY <2>3, <3>1, <3>3 DEF RewriteMatch, OutputInv
  <2>4. ASSUME NEW p \in 0..Len(pending), WaitForSuffix(p) PROVE OutputInv'
    BY <2>4, FirstOfPending DEF WaitForSuffix, OutputInv
  <2>5. CASE EmitTail
    BY <2>5, Emitted, FirstOfPending DEF EmitTail, OutputInv
  <2>6. CASE UNCHANGED vars
    BY <2>6 DEF vars, OutputInv
  <2>. QED  BY <2>1, <2>2, <2>3, <2>4, <2>5, <2>6 DEF Next
<1>3. Init => kept \subseteq matched
  BY DEF Init
<1>4. kept \subseteq matched /\ [Next]_vars => (kept \subseteq matched)'
  BY DEF Next, Push, Finish, RewriteMatch, WaitForSuffix, EmitTail, vars
<1>5. BufferInv /\ HistoryInv /\ OutputInv /\ kept \subseteq matched => TypeOK
  BY DEF BufferInv, HistoryInv, IsHistory, OutputInv, TypeOK
<1>. QED  BY <1>1, <1>2, <1>3, <1>4, <1>5, Invariants, PTL DEF Spec
-----------------------------------------------------------------------------
(* What the stage should return                                            *)

LEMMA StageIs == Stage.mode = Mode /\ Stage.source = Source /\ Stage.inserted = Inserted
BY DEF Stage

(* The occurrences of the source in s from offset i on, what becomes of one *)
(* of them, and whether the search stops at one, with e at the end of s.    *)
Hits(s, i)        == {q \in i..Len(s) : OccursAt(s, q, Source)}
Decided(s, q)     == IF Carries(Stage, s, q) THEN Source ELSE Replacement(Stage)
StopsAt(s, e, q)  == ~e /\ Undecided(Stage, From(s, q + L))
HeldBack(e)       == IF e THEN 0 ELSE L - 1

(* The body of the recursion in LiteralReturned: what is returned of s from *)
(* offset p on, when rest says it of the offsets after p.                   *)
RestAt(st, s, e, p, rest) ==
    LET held == IF e THEN 0 ELSE Len(st.source) - 1
        hits == {q \in p..Len(s) : OccursAt(s, q, st.source)}
        q    == Leftmost(hits)
        next == q + Len(st.source)
    IN  IF hits = {} THEN SubSeq(s, p + 1, Len(s) - held) ELSE
        IF ~e /\ Undecided(st, From(s, next))
           THEN SubSeq(s, p + 1, q)
           ELSE SubSeq(s, p + 1, q)
                  \o (IF Carries(st, s, q) THEN st.source
                                           ELSE Replacement(st))
                  \o rest[next]

LEMMA RestAtIs ==
    ASSUME NEW s, NEW e, NEW p, NEW rest
    PROVE  RestAt(Stage, s, e, p, rest) =
             LET q == Leftmost(Hits(s, p))
             IN  IF Hits(s, p) = {}
                    THEN SubSeq(s, p + 1, Len(s) - HeldBack(e))
                    ELSE IF StopsAt(s, e, q) THEN SubSeq(s, p + 1, q)
                    ELSE SubSeq(s, p + 1, q) \o Decided(s, q) \o rest[q + L]
BY StageIs DEF RestAt, Hits, HeldBack, StopsAt, Decided, L

(* Where the first occurrence from i on is, and where the search goes on.   *)
LEMMA HitIs ==
    ASSUME NEW s \in Seq(Byte), NEW i \in 0..Len(s), Hits(s, i) # {}
    PROVE  /\ Leftmost(Hits(s, i)) \in i..Len(s)
           /\ OccursAt(s, Leftmost(Hits(s, i)), Source)
           /\ Leftmost(Hits(s, i)) + L \in (i + 1)..Len(s)
           /\ \A r \in i..(Leftmost(Hits(s, i)) - 1) : ~OccursAt(s, r, Source)
<1>. DEFINE p == Leftmost(Hits(s, i))
<1>1. Hits(s, i) \in SUBSET Nat
  BY DEF Hits
<1>2. p \in Hits(s, i) /\ \A r \in Hits(s, i) : p =< r
  BY <1>1, LeftmostIs
<1>. HIDE DEF p
<1>3. p \in i..Len(s) /\ OccursAt(s, p, Source)
  BY <1>2 DEF Hits
<1>4. p + L =< Len(s)
  BY <1>3 DEF OccursAt, L
<1>5. p + L \in (i + 1)..Len(s)
  BY <1>3, <1>4, Lengths
<1>6. ASSUME NEW r \in i..(p - 1) PROVE ~OccursAt(s, r, Source)
  <2>1. r \in i..Len(s) /\ ~(p =< r)
    BY <1>3
  <2>. QED  BY <1>2, <2>1 DEF Hits
<1>. QED  BY <1>3, <1>5, <1>6 DEF p

LEMMA DecidedType ==
    ASSUME NEW s, NEW q
    PROVE  Decided(s, q) \in Seq(Byte)
BY ReplacementType, SourceAssumption DEF Decided

(* The recursion stays within the bytes, and asks only for what comes after. *)
LEMMA RestAtType ==
    ASSUME NEW s \in Seq(Byte), NEW e \in BOOLEAN, NEW p \in 0..Len(s),
           NEW rest \in [0..Len(s) -> Seq(Byte)]
    PROVE  RestAt(Stage, s, e, p, rest) \in Seq(Byte)
<1>1. CASE Hits(s, p) = {}
  <2>. DEFINE h == HeldBack(e)
  <2>1. h \in Nat
    BY Lengths DEF HeldBack
  <2>. HIDE DEF h
  <2>2. Len(s) \in Nat /\ Len(s) - h \in Int /\ Len(s) - h =< Len(s) /\ p \in Nat
    BY <2>1
  <2>3. SubSeq(s, p + 1, Len(s) - h) \in Seq(Byte)
    BY <2>2, SliceStarts
  <2>. QED  BY <1>1, <2>3, RestAtIs DEF h
<1>2. CASE Hits(s, p) # {}
  <2>. DEFINE q == Leftmost(Hits(s, p))
              d == Decided(s, q)
  <2>1. q \in p..Len(s) /\ q + L \in (p + 1)..Len(s)
    BY <1>2, HitIs
  <2>2. RestAt(Stage, s, e, p, rest) \in
          {SubSeq(s, p + 1, q), SubSeq(s, p + 1, q) \o d \o rest[q + L]}
    BY <1>2, RestAtIs
  <2>3. d \in Seq(Byte)
    BY DecidedType
  <2>. HIDE DEF q, d
  <2>. DEFINE x == SubSeq(s, p + 1, q)
              y == rest[q + L]
  <2>4. x \in Seq(Byte) /\ y \in Seq(Byte)
    BY <2>1
  <2>5. \/ RestAt(Stage, s, e, p, rest) = x
        \/ RestAt(Stage, s, e, p, rest) = x \o d \o y
    BY <2>2
  <2>. HIDE DEF x, y
  <2>6. x \o d \o y \in Seq(Byte)
    BY <2>3, <2>4
  <2>. QED  BY <2>4, <2>5, <2>6
<1>. QED  BY <1>1, <1>2

LEMMA RestAtLooksAhead ==
    ASSUME NEW s \in Seq(Byte), NEW e \in BOOLEAN, NEW p \in 0..Len(s),
           NEW g, NEW h, \A q \in (p + 1)..Len(s) : g[q] = h[q]
    PROVE  RestAt(Stage, s, e, p, g) = RestAt(Stage, s, e, p, h)
<1>1. CASE Hits(s, p) = {}
  BY <1>1, RestAtIs
<1>2. CASE Hits(s, p) # {}
  <2>. DEFINE n == Leftmost(Hits(s, p)) + L
  <2>1. n \in (p + 1)..Len(s)
    BY <1>2, HitIs
  <2>2. g[n] = h[n]
    BY <2>1
  <2>. QED  BY <1>2, <2>2, RestAtIs, ZenonT(60)
<1>. QED  BY <1>1, <1>2

(* rest says of every offset of s what the stage returns from there on.     *)
IsRest(rest, s, e) ==
    /\ rest \in [0..Len(s) -> Seq(Byte)]
    /\ \A p \in 0..Len(s) : rest[p] = RestAt(Stage, s, e, p, rest)
    /\ LiteralReturned(Stage, s, e) = rest[0]

(* The recursion is well-founded: every occurrence is longer than nothing.  *)
LEMMA ReturnedIs ==
    ASSUME NEW s \in Seq(Byte), NEW e \in BOOLEAN
    PROVE  \E rest : IsRest(rest, s, e)
<1>. DEFINE l    == Len(s)
            F    == [0..l -> Seq(Byte)]
            Step == [p \in 0..l |-> [g \in F |-> RestAt(Stage, s, e, p, g)]]
<1>1. l \in Nat /\ Seq(Byte) # {}
  OBVIOUS
<1>2. ASSUME NEW p \in 0..l, NEW g \in F
      PROVE  RestAt(Stage, s, e, p, g) \in Seq(Byte)
  BY RestAtType
<1>3. ASSUME NEW p \in 0..l, NEW g, NEW h, \A q \in (p + 1)..l : g[q] = h[q]
      PROVE  RestAt(Stage, s, e, p, g) = RestAt(Stage, s, e, p, h)
  BY <1>3, RestAtLooksAhead
<1>4. PICK f \in F : \A p \in 0..l : f[p] = RestAt(Stage, s, e, p, f)
  <2>1. Step \in [0..l -> [F -> Seq(Byte)]]
    BY <1>2
  <2>2. \A p \in 0..l : \A g \in F : Step[p][g] = RestAt(Stage, s, e, p, g)
    OBVIOUS
  <2>. HIDE DEF Step
  <2>3. ASSUME NEW p \in 0..l, NEW g \in F, NEW h \in F,
               \A q \in (p + 1)..l : g[q] = h[q]
        PROVE  Step[p][g] = Step[p][h]
    <3>1. RestAt(Stage, s, e, p, g) = RestAt(Stage, s, e, p, h)
      BY <1>3, <2>3
    <3>. QED  BY <2>2, <3>1
  <2>. HIDE DEF l
  <2>4. \E f \in F : \A p \in 0..l : f[p] = Step[p][f]
    <3>1. IsDownward(Step, Seq(Byte), l)
      BY <1>1, <2>1, <2>3 DEF IsDownward
    <3>. QED  BY ONLY <3>1, DownwardRecursion, SMT DEF F
  <2>. QED  BY <2>2, <2>4
<1>5. f = [p \in 0..l |-> RestAt(Stage, s, e, p, f)]
  BY <1>4
<1>6. \E g : /\ g = [p \in 0..l |-> RestAt(Stage, s, e, p, g)]
             /\ LiteralReturned(Stage, s, e) = g[0]
  BY <1>5, Zenon DEF LiteralReturned, RestAt
<1>7. PICK g : /\ g = [p \in 0..l |-> RestAt(Stage, s, e, p, g)]
               /\ LiteralReturned(Stage, s, e) = g[0]
  BY <1>6
<1>8. \A p \in 0..l : g[p] = RestAt(Stage, s, e, p, g)
  BY <1>7
<1>9. \A p \in 0..l : g[p] = f[p]
  <2>. DEFINE T == {p \in 0..l : g[p] = f[p]}
  <2>1. ASSUME NEW p \in 0..l, \A q \in (p + 1)..l : q \in T PROVE p \in T
    <3>1. \A q \in (p + 1)..l : g[q] = f[q]
      BY <2>1
    <3>2. RestAt(Stage, s, e, p, g) = RestAt(Stage, s, e, p, f)
      BY <1>3, <3>1
    <3>. QED  BY <1>4, <1>8, <3>2
  <2>. HIDE DEF T, l
  <2>2. 0..l \subseteq T
    BY <1>1, <2>1, DownwardInduction
  <2>. QED  BY <2>2 DEF T
<1>10. LiteralReturned(Stage, s, e) = f[0]
  BY <1>1, <1>7, <1>9
<1>11. IsRest(f, s, e)
  BY <1>4, <1>10 DEF IsRest
<1>. QED  BY <1>11

(* The n bytes of s from offset i on are before the first occurrence, and   *)
(* need not be held back.                                                   *)
MayGo(s, e, i, n) ==
    /\ i + n =< Len(s)
    /\ \A r \in i..(i + n - 1) : ~OccursAt(s, r, Source)
    /\ OccursAt(s, i + n, Source) \/ n = 0 \/ i + n =< Len(s) - HeldBack(e)

Goes(rest, s, i, n) == rest[i] = SubSeq(s, i + 1, i + n) \o rest[i + n]

(* They are let go as they are. *)
LEMMA SkipRest ==
    ASSUME NEW s \in Seq(Byte), NEW e \in BOOLEAN, NEW rest, IsRest(rest, s, e),
           NEW i \in Nat, NEW n \in Nat, MayGo(s, e, i, n)
    PROVE  Goes(rest, s, i, n)
<1>. USE DEF Goes
<1>1. /\ i \in 0..Len(s) /\ i + n \in 0..Len(s) /\ Len(s) \in Nat
      /\ i =< i + n /\ i + n \in Nat
  BY DEF MayGo
<1>2. Hits(s, i) = Hits(s, i + n)
  <2>1. ASSUME NEW r \in Hits(s, i) PROVE r \in Hits(s, i + n)
    <3>1. r \in i..Len(s) /\ OccursAt(s, r, Source)
      BY <2>1 DEF Hits
    <3>2. ~(r \in i..(i + n - 1))
      BY <3>1 DEF MayGo
    <3>3. r \in (i + n)..Len(s)
      BY <1>1, <3>1, <3>2
    <3>. QED  BY <3>1, <3>3 DEF Hits
  <2>2. Hits(s, i + n) \subseteq Hits(s, i)
    BY <1>1 DEF Hits
  <2>. QED  BY <2>1, <2>2
<1>3. /\ rest[i] = RestAt(Stage, s, e, i, rest)
      /\ rest[i + n] = RestAt(Stage, s, e, i + n, rest)
  BY <1>1 DEF IsRest
<1>4. CASE n = 0
  <2>. DEFINE t == rest[i]
  <2>1. SubSeq(s, i + 1, i + n) = <<>> /\ i + n = i /\ t \in Seq(Byte)
    BY <1>1, <1>4 DEF IsRest
  <2>2. rest[i + n] = t
    BY <2>1
  <2>. HIDE DEF t
  <2>3. <<>> \o t = t
    BY <2>1
  <2>. QED  BY <2>1, <2>2, <2>3 DEF t
<1>5. CASE Hits(s, i) = {} /\ n # 0
  <2>. DEFINE h == HeldBack(e)
              m == Len(s) - h - (i + n)
  <2>1. ~OccursAt(s, i + n, Source)
    BY <1>1, <1>2, <1>5 DEF Hits
  <2>2. rest[i] = SubSeq(s, i + 1, Len(s) - h)
        /\ rest[i + n] = SubSeq(s, i + n + 1, Len(s) - h)
    BY <1>2, <1>3, <1>5, RestAtIs
  <2>3. h \in Nat
    BY Lengths DEF HeldBack
  <2>4. i + n =< Len(s) - h
    BY <1>5, <2>1 DEF MayGo
  <2>. HIDE DEF h
  <2>5. m \in Nat /\ (i + n) + m = Len(s) - h /\ (i + n) + m =< Len(s)
    BY <1>1, <2>3, <2>4
  <2>. HIDE DEF m
  <2>6. SubSeq(s, i + 1, i + n) \o SubSeq(s, i + n + 1, (i + n) + m)
          = SubSeq(s, i + 1, (i + n) + m)
    BY <1>1, <2>5, Extend
  <2>. QED  BY <2>2, <2>5, <2>6
<1>6. CASE Hits(s, i) # {}
  <2>. DEFINE p    == Leftmost(Hits(s, i))
              then == Decided(s, p)
              tail == rest[p + L]
              m    == p - (i + n)
  <2>1. /\ p \in (i + n)..Len(s)
        /\ p + L \in 0..Len(s)
    <3>1. p \in (i + n)..Len(s) /\ p + L \in (i + n + 1)..Len(s)
      BY <1>1, <1>2, <1>6, HitIs
    <3>. QED  BY <1>1, <3>1
  <2>2. IF StopsAt(s, e, p)
           THEN rest[i] = SubSeq(s, i + 1, p) /\ rest[i + n] = SubSeq(s, i + n + 1, p)
           ELSE /\ rest[i] = SubSeq(s, i + 1, p) \o then \o tail
                /\ rest[i + n] = SubSeq(s, i + n + 1, p) \o then \o tail
    BY <1>2, <1>3, <1>6, RestAtIs
  <2>3. tail \in Seq(Byte)
    BY <2>1 DEF IsRest
  <2>4. then \in Seq(Byte)
    BY DecidedType
  <2>5. m \in Nat /\ (i + n) + m = p /\ p =< Len(s) /\ (i + n) + m =< Len(s)
    BY <1>1, <2>1
  <2>. HIDE DEF p, then, tail, m
  <2>6. SubSeq(s, i + 1, i + n) \o SubSeq(s, i + n + 1, p)
          = SubSeq(s, i + 1, p)
    <3>1. SubSeq(s, i + 1, i + n) \o SubSeq(s, i + n + 1, (i + n) + m)
            = SubSeq(s, i + 1, (i + n) + m)
      BY <1>1, <2>5, Extend
    <3>. QED  BY <2>5, <3>1
  <2>7. /\ SubSeq(s, i + 1, i + n) \in Seq(Byte)
        /\ SubSeq(s, i + n + 1, p) \in Seq(Byte)
    BY <1>1, <2>1
  <2>. DEFINE a == SubSeq(s, i + 1, i + n)
              b == SubSeq(s, i + n + 1, p)
  <2>8. a \in Seq(Byte) /\ b \in Seq(Byte)
    BY <2>7
  <2>9. IF StopsAt(s, e, p)
           THEN rest[i] = a \o b /\ rest[i + n] = b
           ELSE rest[i] = (a \o b) \o then \o tail /\ rest[i + n] = b \o then \o tail
    BY <2>2, <2>6
  <2>. HIDE DEF a, b
  <2>10. (a \o b) \o then \o tail = a \o (b \o then \o tail)
    BY ONLY <2>3, <2>4, <2>8, SMTT(30)
  <2>11. rest[i] = a \o rest[i + n]
    <3>1. CASE StopsAt(s, e, p)
      BY <2>9, <3>1
    <3>2. CASE ~StopsAt(s, e, p)
      BY <2>9, <2>10, <3>2
    <3>. QED  BY <3>1, <3>2
  <2>. QED  BY <2>11 DEF a
<1>. QED  BY <1>4, <1>5, <1>6

(* What becomes of an occurrence: the search stops there, or goes on.       *)
LEMMA TakeRest ==
    ASSUME NEW s \in Seq(Byte), NEW e \in BOOLEAN, NEW rest, IsRest(rest, s, e),
           NEW p \in Nat, OccursAt(s, p, Source)
    PROVE  /\ p + L \in 0..Len(s)
           /\ StopsAt(s, e, p) => rest[p] = <<>>
           /\ ~StopsAt(s, e, p) => rest[p] = Decided(s, p) \o rest[p + L]
<1>1. p + L \in 0..Len(s) /\ p \in 0..Len(s)
  <2>1. p + L =< Len(s)
    BY DEF OccursAt, L
  <2>. QED  BY <2>1, Lengths
<1>2. p \in Hits(s, p)
  BY <1>1 DEF Hits
<1>3. Leftmost(Hits(s, p)) = p
  <2>1. Hits(s, p) \in SUBSET Nat
    BY <1>1 DEF Hits
  <2>2. Leftmost(Hits(s, p)) \in Hits(s, p) /\ Leftmost(Hits(s, p)) =< p
    BY <1>2, <2>1, LeftmostIs
  <2>3. Leftmost(Hits(s, p)) \in p..Len(s)
    BY <2>2 DEF Hits
  <2>. QED  BY <2>2, <2>3
<1>4. rest[p] = IF StopsAt(s, e, p)
                   THEN SubSeq(s, p + 1, p)
                   ELSE SubSeq(s, p + 1, p) \o Decided(s, p) \o rest[p + L]
  BY <1>1, <1>2, <1>3, RestAtIs, ZenonT(60) DEF IsRest
<1>5. SubSeq(s, p + 1, p) = <<>>
  OBVIOUS
<1>6. Decided(s, p) \in Seq(Byte)
  BY DecidedType
<1>7. <<>> \o Decided(s, p) = Decided(s, p)
  BY <1>6
<1>. QED  BY <1>1, <1>4, <1>5, <1>7

-----------------------------------------------------------------------------
(* What it does return                                                     *)

(* The body as if it were received up to offset f. *)
Until(f) == First(input, f)

LEMMA UntilIs ==
    ASSUME BufferInv, NEW f \in fed..Len(input)
    PROVE  /\ Until(f) \in Seq(Byte) /\ Len(Until(f)) = f
           /\ \A i \in 1..f : Until(f)[i] = input[i]
           /\ f \in Nat /\ base \in Nat /\ fed \in Nat /\ base =< fed /\ fed =< f
<1>1. /\ f \in Nat /\ base \in Nat /\ fed \in Nat /\ base =< fed /\ fed =< f
      /\ f \in 0..Len(input) /\ input \in Seq(Byte)
  BY DEF BufferInv
<1>. QED  BY <1>1, FirstSlice DEF Until

LEMMA OccursUntil ==
    ASSUME BufferInv, NEW f \in fed..Len(input), NEW w \in Seq(Byte), NEW q \in Nat
    PROVE  OccursAt(Until(f), q, w) <=> OccursAt(input, q, w) /\ q + Len(w) =< f
<1>1. /\ Len(Until(f)) = f /\ \A i \in 1..f : Until(f)[i] = input[i]
      /\ f \in Nat /\ Len(w) \in Nat /\ Len(input) \in Nat /\ f =< Len(input)
  BY UntilIs DEF BufferInv
<1>2. ASSUME q + Len(w) =< f, NEW k \in 1..Len(w)
      PROVE  Until(f)[q + k] = input[q + k]
  BY <1>1, <1>2
<1>3. ASSUME OccursAt(Until(f), q, w)
      PROVE  OccursAt(input, q, w) /\ q + Len(w) =< f
  <2>1. q + Len(w) =< f /\ \A k \in 1..Len(w) : Until(f)[q + k] = w[k]
    BY <1>1, <1>3 DEF OccursAt
  <2>2. \A k \in 1..Len(w) : input[q + k] = w[k]
    BY <1>2, <2>1
  <2>. QED  BY <1>1, <2>1, <2>2 DEF OccursAt
<1>4. ASSUME OccursAt(input, q, w), q + Len(w) =< f
      PROVE  OccursAt(Until(f), q, w)
  <2>1. \A k \in 1..Len(w) : input[q + k] = w[k]
    BY <1>4 DEF OccursAt
  <2>2. \A k \in 1..Len(w) : Until(f)[q + k] = w[k]
    BY <1>2, <1>4, <2>1
  <2>. QED  BY <1>1, <1>4, <2>2 DEF OccursAt
<1>. QED  BY <1>3, <1>4

(* What is let go is a slice of it. *)
LEMMA SliceUntil ==
    ASSUME BufferInv, NEW f \in fed..Len(input), NEW n \in 0..Len(pending)
    PROVE  /\ n \in Nat /\ base + n =< f
           /\ First(pending, n) = SubSeq(Until(f), base + 1, base + n)
           /\ First(pending, n) \in Seq(Byte)
<1>1. /\ base \in Nat /\ n \in Nat /\ base + n =< fed
      /\ First(pending, n) \in Seq(Byte)
      /\ Len(First(pending, n)) = n
      /\ \A i \in 1..n : First(pending, n)[i] = input[base + i]
  BY PendingIs, FirstOfPending DEF BufferInv
<1>2. /\ Until(f) \in Seq(Byte) /\ Len(Until(f)) = f
      /\ \A i \in 1..f : Until(f)[i] = input[i]
      /\ f \in Nat /\ fed =< f /\ fed \in Nat
  BY UntilIs
<1>. DEFINE t == Until(f)
<1>. HIDE DEF t
<1>3. t \in Seq(Byte) /\ Len(t) = f /\ \A i \in 1..f : t[i] = input[i]
  BY <1>2 DEF t
<1>4. /\ SubSeq(t, base + 1, base + n) \in Seq(Byte)
      /\ Len(SubSeq(t, base + 1, base + n)) = n
      /\ \A i \in 1..n : SubSeq(t, base + 1, base + n)[i] = input[base + i]
  BY <1>1, <1>2, <1>3
<1>5. First(pending, n) = SubSeq(t, base + 1, base + n)
  BY <1>1, <1>4, SeqEqual
<1>6. base + n =< f
  BY <1>1, <1>2
<1>. QED  BY <1>1, <1>5, <1>6 DEF t

(* What has arrived after a match is the beginning of what will have. *)
LEMMA AfterUntil ==
    ASSUME BufferInv, NEW f \in fed..Len(input), NEW p \in 0..Len(pending),
           FindsAt(pending, p)
    PROVE  /\ From(pending, p + L) \in Seq(Byte)
           /\ Len(From(pending, p + L)) = fed - (base + p + L)
           /\ \A k \in 1..Len(From(pending, p + L)) :
                From(pending, p + L)[k] = input[base + p + L + k]
           /\ From(Until(f), base + p + L) \in Seq(Byte)
           /\ Len(From(Until(f), base + p + L)) = f - (base + p + L)
           /\ StartsWith(From(Until(f), base + p + L), From(pending, p + L))
           /\ base + p + L \in Nat /\ base + p + L =< fed
<1>. DEFINE b == base + p + L
            a == From(pending, p + L)
            u == From(Until(f), b)
<1>1. /\ p + L \in 0..Len(pending) /\ base + p + L =< fed
      /\ pending \in Seq(Byte) /\ Len(pending) = fed - base
      /\ \A i \in 1..(fed - base) : pending[i] = input[base + i]
      /\ base \in Nat /\ fed \in Nat /\ p \in Nat /\ L \in Nat
  <2>1. p + L \in 0..Len(pending) /\ base + p + L =< fed
    BY MatchAt
  <2>2. /\ pending \in Seq(Byte) /\ Len(pending) = fed - base
        /\ \A i \in 1..(fed - base) : pending[i] = input[base + i]
    BY PendingIs
  <2>3. base \in Nat /\ fed \in Nat
    BY DEF BufferInv
  <2>4. p \in Nat
    BY <2>2, <2>3
  <2>. QED  BY <2>1, <2>2, <2>3, <2>4, Lengths, Zenon
<1>2. /\ Until(f) \in Seq(Byte) /\ Len(Until(f)) = f
      /\ \A i \in 1..f : Until(f)[i] = input[i]
      /\ f \in Nat /\ fed =< f
  BY UntilIs
<1>3. b \in Nat /\ b =< fed /\ b \in 0..f /\ fed - b = Len(pending) - (p + L)
  BY <1>1, <1>2
<1>4. /\ a \in Seq(Byte) /\ Len(a) = fed - b
      /\ \A k \in 1..(fed - b) : a[k] = pending[(p + L) + k]
  BY <1>1, <1>3, FromSlice
<1>5. /\ u \in Seq(Byte) /\ Len(u) = f - b
      /\ \A k \in 1..(f - b) : u[k] = Until(f)[b + k]
  <2>1. Until(f) \in Seq(Byte) /\ b \in 0..Len(Until(f)) /\ Len(Until(f)) = f
    BY <1>2, <1>3
  <2>. HIDE DEF b
  <2>. QED  BY <2>1, FromSlice
<1>. HIDE DEF a, u
<1>6. ASSUME NEW k \in 1..(fed - b) PROVE a[k] = input[b + k] /\ u[k] = input[b + k]
  <2>1. /\ (p + L) + k \in 1..(fed - base) /\ base + ((p + L) + k) = b + k
        /\ k \in 1..(f - b) /\ b + k \in 1..f
    BY <1>1, <1>2, <1>3
  <2>2. pending[(p + L) + k] = input[b + k]
    BY <1>1, <2>1
  <2>3. a[k] = pending[(p + L) + k] /\ u[k] = Until(f)[b + k]
    BY <1>4, <1>5, <2>1
  <2>. QED  BY <1>2, <2>1, <2>2, <2>3
<1>. HIDE DEF b
<1>7. Len(a) =< Len(u)
  BY <1>1, <1>2, <1>3, <1>4, <1>5
<1>8. StartsWith(u, a)
  BY <1>4, <1>5, <1>6, <1>7, StartsIs
<1>9. \A k \in 1..Len(a) : a[k] = input[b + k]
  BY <1>4, <1>6
<1>. QED  BY <1>3, <1>4, <1>5, <1>8, <1>9 DEF a, u, b

(* What is decided at a match holds of all that may still be received. *)
LEMMA DecisionUntil ==
    ASSUME BufferInv, HistoryInv, NEW p \in 0..Len(pending),
           FindsAt(pending, p),
           ~SuffixUndecided(From(pending, p + Len(Source))),
           NEW f \in fed..Len(input), NEW e \in BOOLEAN, finished => e
    PROVE  /\ ~StopsAt(Until(f), e, base + p)
           /\ Keep(p) <=> Carries(Stage, Until(f), base + p)
<1>. DEFINE a == From(pending, p + L)
            u == From(Until(f), base + p + L)
            b == base + p + L
<1>1. /\ a \in Seq(Byte) /\ Len(a) = fed - b
      /\ \A k \in 1..Len(a) : a[k] = input[b + k]
      /\ u \in Seq(Byte) /\ Len(u) = f - b
      /\ StartsWith(u, a)
      /\ b \in Nat /\ b =< fed
  BY AfterUntil
<1>2. Keep(p) <=> Carries(Stage, input, base + p)
  BY Decision
<1>3. /\ f \in Nat /\ base \in Nat /\ fed \in Nat /\ fed =< f /\ Len(input) \in Nat
      /\ f =< Len(input) /\ p \in Nat /\ L \in Nat /\ K \in Nat
      /\ finished => f = Len(input) /\ fed = f
      /\ Inserted \in Seq(Byte)
  BY UntilIs, Lengths, PendingIs, InsertedAssumption DEF BufferInv
<1>4. Mode = "append" /\ ~finished => Len(a) >= K \/ ~StartsWith(Inserted, a)
  <2>1. ~SuffixUndecided(a)
    BY DEF L
  <2>. HIDE DEF a
  <2>2. Len(a) \in Nat
    BY <1>1
  <2>. QED  BY <1>3, <2>1, <2>2 DEF SuffixUndecided, K
<1>. HIDE DEF a, u
<1>5. ASSUME Mode = "append", ~finished, StartsWith(Inserted, u), Len(u) < K
      PROVE  FALSE
  <2>1. Len(a) =< Len(u) /\ Len(a) \in Nat /\ Len(u) \in Nat
    BY <1>1, StartsIs
  <2>2. StartsWith(Inserted, a)
    BY <1>1, <1>3, <1>5, StartsTransitive
  <2>. QED  BY <1>3, <1>4, <1>5, <2>1, <2>2
<1>6. ~StopsAt(Until(f), e, base + p)
  BY <1>5, StageIs DEF StopsAt, Undecided, u, K
<1>7. CASE Mode = "prepend"
  <2>1. Carries(Stage, Until(f), base + p)
          <=> base + p >= K /\ OccursAt(Until(f), base + p - K, Inserted)
    BY <1>3, <1>7, StageIs DEF Carries, K
  <2>2. Carries(Stage, input, base + p)
          <=> base + p >= K /\ OccursAt(input, base + p - K, Inserted)
    BY <1>3, <1>7, StageIs DEF Carries, K
  <2>3. ASSUME base + p >= K
        PROVE  OccursAt(Until(f), base + p - K, Inserted)
                 <=> OccursAt(input, base + p - K, Inserted)
    <3>1. base + p - K \in Nat /\ base + p - K + K = base + p /\ base + p =< f
      BY <1>1, <1>3, <2>3
    <3>. QED  BY <1>3, <3>1, OccursUntil DEF K
  <2>. QED  BY <1>2, <1>6, <2>1, <2>2, <2>3
<1>8. CASE Mode = "append"
  <2>1. Carries(Stage, Until(f), base + p) <=> OccursAt(Until(f), b, Inserted)
    BY <1>8, StageIs DEF Carries, L
  <2>2. Carries(Stage, input, base + p) <=> OccursAt(input, b, Inserted)
    BY <1>8, StageIs DEF Carries, L
  <2>3. OccursAt(Until(f), b, Inserted) <=> OccursAt(input, b, Inserted) /\ b + K =< f
    BY <1>1, <1>3, OccursUntil DEF K
  <2>. HIDE DEF b
  <2>4. ASSUME OccursAt(input, b, Inserted) PROVE b + K =< f
    <3>1. b + K =< Len(input) /\ \A k \in 1..K : input[b + k] = Inserted[k]
      BY <2>4 DEF OccursAt, K
    <3>2. CASE finished
      BY <1>3, <3>1, <3>2
    <3>3. CASE ~finished /\ Len(a) >= K
      BY <1>1, <1>3, <3>3
    <3>4. CASE ~finished /\ Len(a) < K
      <4>1. \A k \in 1..Len(a) : Inserted[k] = a[k]
        BY <1>1, <1>3, <3>1, <3>4
      <4>2. StartsWith(Inserted, a)
        BY <1>1, <1>3, <3>4, <4>1, StartsIs DEF K
      <4>. QED  BY <1>4, <1>8, <3>4, <4>2, <1>1, <1>3
    <3>. QED  BY <1>1, <1>3, <3>2, <3>3, <3>4
  <2>. QED  BY <1>2, <1>6, <2>1, <2>2, <2>3, <2>4
<1>9. CASE Mode = "exact"
  <2>1. ~Carries(Stage, Until(f), base + p) /\ ~Carries(Stage, input, base + p)
    BY <1>9, StageIs DEF Carries
  <2>. QED  BY <1>2, <1>6, <2>1
<1>. QED  BY <1>7, <1>8, <1>9, ModeAssumption

(* o has been returned and the scan is at offset b: whatever more will have *)
(* been received before the next return, and whether it is the end or not,  *)
(* what is returned of the rest completes o to what should be returned.     *)
Completes(s, e, o, b) ==
    \E rest : IsRest(rest, s, e) /\ LiteralReturned(Stage, s, e) = o \o rest[b]

RestInv ==
    /\ output \in Seq(Byte)
    /\ \A f \in fed..Len(input), e \in BOOLEAN :
         (finished => e) => Completes(Until(f), e, output, base)
    /\ phase = "idle" =>
         output = LiteralReturned(Stage, Until(fed), finished)

(* Bytes before the first occurrence are let go as they are. *)
LEMMA LetGo ==
    ASSUME BufferInv, NEW n \in 0..Len(pending),
           NEW f \in fed..Len(input), NEW e \in BOOLEAN,
           output \in Seq(Byte), Completes(Until(f), e, output, base),
           \A r \in base..(base + n - 1) : ~OccursAt(input, r, Source),
           \/ OccursAt(Until(f), base + n, Source)
           \/ n = 0
           \/ base + n =< f - HeldBack(e)
    PROVE  /\ output \o First(pending, n) \in Seq(Byte)
           /\ Completes(Until(f), e, output \o First(pending, n), base + n)
<1>. DEFINE s == Until(f)
            a == First(pending, n)
<1>1. PICK rest : /\ IsRest(rest, s, e)
                  /\ LiteralReturned(Stage, s, e) = output \o rest[base]
  BY DEF Completes
<1>2. /\ base \in Nat /\ n \in Nat /\ base + n =< f
      /\ a = SubSeq(s, base + 1, base + n) /\ a \in Seq(Byte)
      /\ s \in Seq(Byte) /\ Len(s) = f
  BY SliceUntil, UntilIs
<1>3. ASSUME NEW r \in base..(base + n - 1) PROVE ~OccursAt(s, r, Source)
  <2>1. r \in Nat
    BY <1>2
  <2>. QED  BY <1>3, <2>1, OccursUntil, SourceAssumption
<1>. DEFINE b == rest[base + n]
<1>. HIDE DEF s, a
<1>4. b \in Seq(Byte)
  <2>1. base + n \in 0..Len(s) /\ rest \in [0..Len(s) -> Seq(Byte)]
    BY <1>1, <1>2 DEF IsRest
  <2>. QED  BY <2>1
<1>5. rest[base] = a \o b
  <2>1. OccursAt(s, base + n, Source) \/ n = 0 \/ base + n =< Len(s) - HeldBack(e)
    BY <1>2 DEF s
  <2>2. MayGo(s, e, base, n)
    BY <1>2, <1>3, <2>1 DEF MayGo
  <2>3. rest[base] = SubSeq(s, base + 1, base + n) \o rest[base + n]
    <3>1. Goes(rest, s, base, n)
      BY <1>1, <1>2, <2>2, SkipRest
    <3>. QED  BY <3>1 DEF Goes
  <2>. QED  BY <1>2, <2>3
<1>. HIDE DEF b
<1>6. output \o a \in Seq(Byte) /\ output \o (a \o b) = (output \o a) \o b
  <2>1. output \in Seq(Byte) /\ a \in Seq(Byte) /\ b \in Seq(Byte)
    BY <1>2, <1>4
  <2>2. Regroups(Byte, output, a, b)
    BY ONLY <2>1, Reassociate
  <2>. QED  BY ONLY <2>2, Zenon DEF Regroups
<1>7. LiteralReturned(Stage, s, e) = (output \o a) \o b
  BY <1>1, <1>5, <1>6
<1>8. Completes(s, e, output \o a, base + n)
  BY <1>1, <1>7 DEF Completes, b
<1>. QED  BY <1>6, <1>8 DEF s, a

(* A match is rewritten, or kept, as the whole body has it. *)
LEMMA LetMatchGo ==
    ASSUME BufferInv, HistoryInv, NEW p \in 0..Len(pending), RewriteMatch(p),
           NEW f \in fed..Len(input), NEW e \in BOOLEAN, finished => e,
           output \in Seq(Byte), Completes(Until(f), e, output, base)
    PROVE  output' \in Seq(Byte) /\ Completes(Until(f), e, output', base')
<1>. DEFINE s == Until(f)
            o == output \o First(pending, p)
            d == Decided(s, base + p)
<1>1. FindsAt(pending, p) /\ ~SuffixUndecided(From(pending, p + Len(Source)))
  BY DEF RewriteMatch
<1>2. /\ OccursAt(input, base + p, Source) /\ base + p + L =< fed
      /\ \A r \in base..(base + p - 1) : ~OccursAt(input, r, Source)
  BY <1>1, MatchAt
<1>3. /\ base + p \in Nat /\ base \in Nat /\ p \in Nat
      /\ s \in Seq(Byte) /\ fed \in Nat /\ fed =< f /\ f \in Nat
  BY UntilIs, PendingIs
<1>4. OccursAt(s, base + p, Source)
  <2>1. base + p + Len(Source) =< f
    BY <1>2, <1>3, Lengths DEF L
  <2>. QED  BY <1>2, <1>3, <2>1, OccursUntil, SourceAssumption
<1>5. o \in Seq(Byte) /\ Completes(s, e, o, base + p)
  BY <1>2, <1>4, LetGo
<1>6. PICK rest : /\ IsRest(rest, s, e)
                  /\ LiteralReturned(Stage, s, e) = o \o rest[base + p]
  BY <1>5 DEF Completes
<1>7. ~StopsAt(s, e, base + p) /\ (Keep(p) <=> Carries(Stage, s, base + p))
  BY <1>1, DecisionUntil
<1>8. base + p + L \in 0..Len(s) /\ rest[base + p] = d \o rest[base + p + L]
  <2>. DEFINE q == base + p
  <2>1. /\ s \in Seq(Byte) /\ e \in BOOLEAN /\ IsRest(rest, s, e) /\ q \in Nat
        /\ OccursAt(s, q, Source) /\ ~StopsAt(s, e, q)
    BY <1>3, <1>4, <1>6, <1>7
  <2>. HIDE DEF q, s
  <2>2. q + L \in 0..Len(s) /\ rest[q] = Decided(s, q) \o rest[q + L]
    BY ONLY <2>1, TakeRest
  <2>. QED  BY <2>2 DEF q
<1>9. d \in Seq(Byte)
  BY DecidedType
<1>10. d = IF Keep(p) THEN Source ELSE Replacement(Stage)
  BY <1>7 DEF Decided
<1>11. output' = o \o d /\ base' = base + p + L
  BY <1>10 DEF RewriteMatch, L
<1>. HIDE DEF s, o, d
<1>. DEFINE t == rest[base + p + L]
<1>12. t \in Seq(Byte)
  <2>1. rest \in [0..Len(s) -> Seq(Byte)]
    BY <1>6 DEF IsRest
  <2>. QED  BY <1>8, <2>1
<1>13. LiteralReturned(Stage, s, e) = o \o (d \o t)
  BY <1>6, <1>8
<1>. HIDE DEF t
<1>14. o \o d \in Seq(Byte) /\ o \o (d \o t) = (o \o d) \o t
  <2>1. o \in Seq(Byte) /\ d \in Seq(Byte) /\ t \in Seq(Byte)
    BY <1>5, <1>9, <1>12
  <2>2. Regroups(Byte, o, d, t)
    BY ONLY <2>1, Reassociate
  <2>. QED  BY ONLY <2>2, Zenon DEF Regroups
<1>15. Completes(s, e, o \o d, base + p + L)
  BY <1>6, <1>13, <1>14 DEF Completes, t
<1>. QED  BY <1>11, <1>14, <1>15 DEF s

(* Nothing remains that could be returned while the suffix is waited for.   *)
LEMMA NothingWhileWaiting ==
    ASSUME BufferInv, NEW p \in 0..Len(pending), WaitForSuffix(p),
           NEW o \in Seq(Byte), Completes(Until(fed), FALSE, o, base + p)
    PROVE  o = LiteralReturned(Stage, Until(fed), FALSE)
<1>. DEFINE s == Until(fed)
            a == From(pending, p + L)
            u == From(s, base + p + L)
<1>0. fed \in fed..Len(input)
  BY DEF BufferInv
<1>1. FindsAt(pending, p) /\ SuffixUndecided(a)
  BY DEF WaitForSuffix, L
<1>2. /\ OccursAt(input, base + p, Source) /\ base + p + L =< fed
      /\ base + p \in Nat /\ s \in Seq(Byte) /\ fed \in Nat
  BY <1>0, <1>1, MatchAt, UntilIs, PendingIs
<1>3. OccursAt(s, base + p, Source)
  <2>1. base + p + Len(Source) =< fed
    BY <1>2 DEF L
  <2>. QED  BY <1>0, <1>2, <2>1, OccursUntil, SourceAssumption
<1>4. u = a
  <2>1. /\ a \in Seq(Byte) /\ u \in Seq(Byte) /\ StartsWith(u, a)
        /\ Len(a) = fed - (base + p + L) /\ Len(u) = fed - (base + p + L)
        /\ base + p + L \in Nat
    BY <1>0, <1>1, AfterUntil
  <2>. HIDE DEF a, u
  <2>2. Len(u) =< Len(a)
    BY <1>2, <2>1
  <2>. QED  BY <2>1, <2>2, StartsSame
<1>5. StopsAt(s, FALSE, base + p)
  <2>. HIDE DEF a
  <2>1. Undecided(Stage, a)
    BY <1>1, StageIs DEF SuffixUndecided, Undecided
  <2>. QED  BY <1>4, <2>1 DEF StopsAt
<1>6. PICK rest : /\ IsRest(rest, s, FALSE)
                  /\ LiteralReturned(Stage, s, FALSE) = o \o rest[base + p]
  BY DEF Completes
<1>7. rest[base + p] = <<>>
  BY <1>2, <1>3, <1>5, <1>6, TakeRest
<1>8. o \o <<>> = o
  OBVIOUS
<1>. QED  BY <1>6, <1>7, <1>8

(* Nothing remains when the tail has been let go. *)
LEMMA NothingAfterTail ==
    ASSUME BufferInv, ~Found(pending),
           NEW o \in Seq(Byte),
           Completes(Until(fed), finished, o, base + EmitLength)
    PROVE  o = LiteralReturned(Stage, Until(fed), finished)
<1>. DEFINE s == Until(fed)
            b == base + EmitLength
<1>1. /\ fed \in fed..Len(input) /\ finished \in BOOLEAN
      /\ s \in Seq(Byte) /\ Len(s) = fed /\ base \in Nat /\ fed \in Nat
      /\ base =< fed /\ Len(pending) = fed - base
  BY UntilIs, PendingIs DEF BufferInv
<1>2. EmitLength \in 0..Len(pending) /\ b \in 0..Len(s) /\ b \in Nat
  BY <1>1, Emitted
<1>3. fed - HeldBack(finished) =< b
  BY <1>1, Lengths DEF HeldBack, EmitLength, L
<1>4. Hits(s, b) = {}
  <2>. SUFFICES ASSUME NEW r \in Hits(s, b) PROVE FALSE
    OBVIOUS
  <2>1. r \in b..Len(s) /\ OccursAt(s, r, Source)
    BY DEF Hits
  <2>2. r \in Nat /\ r - base \in Nat /\ base + (r - base) = r
    BY <1>1, <1>2, <2>1
  <2>3. OccursAt(input, r, Source) /\ r + Len(Source) =< fed
    BY <1>1, <2>1, <2>2, OccursUntil, SourceAssumption
  <2>4. OccursAt(pending, r - base, Source)
    BY <2>2, <2>3, OccursInPending, SourceAssumption
  <2>5. r - base \in 0..Len(pending)
    BY <1>1, <2>1, <2>2
  <2>. QED  BY <2>4, <2>5 DEF Found
<1>5. PICK rest : /\ IsRest(rest, s, finished)
                  /\ LiteralReturned(Stage, s, finished) = o \o rest[b]
  BY DEF Completes
<1>6. rest[b] = SubSeq(s, b + 1, fed - HeldBack(finished))
  <2>1. rest[b] = RestAt(Stage, s, finished, b, rest)
    BY <1>2, <1>5 DEF IsRest
  <2>. HIDE DEF s, b
  <2>. QED  BY <1>1, <1>4, <2>1, RestAtIs
<1>7. rest[b] = <<>>
  <2>1. HeldBack(finished) \in Nat
    BY <1>1, Lengths DEF HeldBack
  <2>. HIDE DEF s, b
  <2>. QED  BY <1>1, <1>2, <1>3, <1>6, <2>1
<1>8. o \o <<>> = o
  OBVIOUS
<1>. QED  BY <1>5, <1>7, <1>8

LEMMA RestInvariant == Spec => []RestInv
<1>1. Init => RestInv
  <2>. SUFFICES ASSUME Init PROVE RestInv
    OBVIOUS
  <2>1. /\ input \in Seq(Byte) /\ output = <<>> /\ base = 0 /\ fed = 0
        /\ finished = FALSE
    BY InputsAssumption DEF Init
  <2>2. BufferInv
    BY BufferInit
  <2>3. ASSUME NEW f \in fed..Len(input), NEW e \in BOOLEAN
        PROVE  Completes(Until(f), e, output, base)
    <3>. DEFINE s == Until(f)
    <3>1. s \in Seq(Byte) /\ 0 \in 0..Len(s)
      BY <2>2, UntilIs
    <3>. HIDE DEF s
    <3>2. PICK rest : IsRest(rest, s, e)
      BY <3>1, ReturnedIs
    <3>. DEFINE r == rest[0]
    <3>3. r \in Seq(Byte) /\ LiteralReturned(Stage, s, e) = r
      BY <3>1, <3>2 DEF IsRest
    <3>. HIDE DEF r
    <3>4. <<>> \o r = r
      BY <3>3
    <3>5. LiteralReturned(Stage, s, e) = output \o rest[base]
      BY <2>1, <3>3, <3>4 DEF r
    <3>. QED  BY <3>2, <3>5 DEF Completes, s
  <2>4. output = LiteralReturned(Stage, Until(fed), finished)
    <3>. DEFINE s == Until(fed)
    <3>1. s \in Seq(Byte) /\ Len(s) = 0 /\ finished \in BOOLEAN
      <4>1. fed \in fed..Len(input)
        BY <2>1
      <4>. QED  BY <2>1, <2>2, <4>1, UntilIs
    <3>. HIDE DEF s
    <3>2. PICK rest : IsRest(rest, s, finished)
      BY <3>1, ReturnedIs
    <3>3. rest[0] \in Seq(Byte) /\ LiteralReturned(Stage, s, finished) = rest[0]
          /\ rest[0] = RestAt(Stage, s, finished, 0, rest)
      BY <3>1, <3>2 DEF IsRest
    <3>4. Hits(s, 0) = {}
      <4>. SUFFICES ASSUME NEW q \in Hits(s, 0) PROVE FALSE
        OBVIOUS
      <4>1. q \in 0..Len(s) /\ q + Len(Source) =< Len(s)
        BY DEF Hits, OccursAt
      <4>. QED  BY <3>1, <4>1, SourceAssumption
    <3>5. rest[0] = SubSeq(s, 1, 0 - HeldBack(finished))
      BY <3>1, <3>3, <3>4, RestAtIs
    <3>6. HeldBack(finished) \in Nat
      BY <3>1, Lengths DEF HeldBack
    <3>7. rest[0] = <<>>
      BY <3>1, <3>5, <3>6
    <3>. QED  BY <2>1, <3>3, <3>7 DEF s
  <2>. QED  BY <2>1, <2>3, <2>4 DEF RestInv
<1>2. BufferInv /\ BufferInv' /\ HistoryInv /\ RestInv /\ [Next]_vars => RestInv'
  <2>. SUFFICES ASSUME BufferInv, BufferInv', HistoryInv, RestInv, [Next]_vars
                PROVE  RestInv'
    OBVIOUS
  <2>0. /\ output \in Seq(Byte) /\ finished \in BOOLEAN
        /\ \A f \in fed..Len(input), e \in BOOLEAN :
             (finished => e) => Completes(Until(f), e, output, base)
        /\ fed \in 0..Len(input) /\ fed \in Nat /\ Len(input) \in Nat
    BY DEF RestInv, BufferInv
  <2>a. ASSUME input' = input, output' \in Seq(Byte),
               \A f \in fed'..Len(input), e \in BOOLEAN :
                 (finished' => e) => Completes(Until(f), e, output', base'),
               phase' = "idle" =>
                 output' = LiteralReturned(Stage, Until(fed'), finished')
        PROVE  RestInv'
    BY <2>a DEF RestInv, Until
  <2>1. ASSUME NEW n \in 0..Len(input), Push(n) PROVE RestInv'
    <3>1. /\ fed' = fed + n /\ UNCHANGED <<input, output, base, finished>>
          /\ phase' = "scan"
      BY <2>1 DEF Push
    <3>2. ASSUME NEW f \in fed'..Len(input), NEW e \in BOOLEAN, finished' => e
          PROVE  Completes(Until(f), e, output', base')
      <4>1. f \in fed..Len(input)
        BY <2>0, <3>1
      <4>. QED  BY <2>0, <3>1, <3>2, <4>1
    <3>. QED  BY <2>0, <2>a, <3>1, <3>2
  <2>2. CASE Finish
    <3>1. /\ UNCHANGED <<fed, input, output, base>> /\ finished' = TRUE
          /\ phase' = "scan"
      BY <2>2 DEF Finish
    <3>2. ASSUME NEW f \in fed'..Len(input), NEW e \in BOOLEAN, finished' => e
          PROVE  Completes(Until(f), e, output', base')
      BY <2>0, <3>1, <3>2
    <3>. QED  BY <2>0, <2>a, <3>1, <3>2
  <2>3. ASSUME NEW p \in 0..Len(pending), RewriteMatch(p) PROVE RestInv'
    <3>1. UNCHANGED <<input, fed, finished, phase>> /\ phase = "scan"
      BY <2>3 DEF RewriteMatch
    <3>2. ASSUME NEW f \in fed..Len(input), NEW e \in BOOLEAN, finished => e
          PROVE  output' \in Seq(Byte) /\ Completes(Until(f), e, output', base')
      BY <2>0, <2>3, <3>2, LetMatchGo
    <3>3. output' \in Seq(Byte)
      <4>1. Len(input) \in fed..Len(input)
        BY <2>0
      <4>. QED  BY <3>2, <4>1
    <3>. QED  BY <2>a, <3>1, <3>2, <3>3
  <2>4. ASSUME NEW p \in 0..Len(pending), WaitForSuffix(p) PROVE RestInv'
    <3>1. /\ FindsAt(pending, p)
          /\ UNCHANGED <<input, fed, finished>>
          /\ base' = base + p /\ output' = output \o First(pending, p)
          /\ finished = FALSE
      BY <2>0, <2>4 DEF WaitForSuffix, SuffixUndecided
    <3>2. /\ OccursAt(input, base + p, Source) /\ base + p + L =< fed
          /\ \A r \in base..(base + p - 1) : ~OccursAt(input, r, Source)
          /\ base + p \in Nat
      BY <3>1, MatchAt, PendingIs DEF BufferInv
    <3>3. ASSUME NEW f \in fed..Len(input), NEW e \in BOOLEAN
          PROVE  output' \in Seq(Byte) /\ Completes(Until(f), e, output', base')
      <4>1. base + p + Len(Source) =< f
        BY <2>0, <3>2, Lengths DEF L
      <4>2. OccursAt(Until(f), base + p, Source)
        BY <3>2, <4>1, OccursUntil, SourceAssumption
      <4>3. Completes(Until(f), e, output, base)
        BY <2>0, <3>1
      <4>. QED  BY <2>0, <3>1, <3>2, <4>2, <4>3, LetGo
    <3>4. fed \in fed..Len(input)
      BY <2>0
    <3>5. output' \in Seq(Byte) /\ Completes(Until(fed), FALSE, output', base + p)
      BY <3>1, <3>3, <3>4
    <3>6. output' = LiteralReturned(Stage, Until(fed), FALSE)
      BY <2>4, <3>5, NothingWhileWaiting
    <3>. QED  BY <2>a, <3>1, <3>3, <3>5, <3>6
  <2>5. CASE EmitTail
    <3>1. /\ ~Found(pending)
          /\ UNCHANGED <<input, fed, finished>>
          /\ base' = base + EmitLength
          /\ output' = output \o First(pending, EmitLength)
      BY <2>5 DEF EmitTail
    <3>2. /\ EmitLength \in 0..Len(pending)
          /\ \A r \in base..(base + EmitLength - 1) : ~OccursAt(input, r, Source)
      BY <3>1, Emitted
    <3>3. ASSUME NEW f \in fed..Len(input), NEW e \in BOOLEAN, finished => e
          PROVE  output' \in Seq(Byte) /\ Completes(Until(f), e, output', base')
      <4>1. EmitLength = 0 \/ base + EmitLength =< f - HeldBack(e)
        <5>1. /\ Len(pending) = fed - base /\ base \in Nat /\ base =< fed
              /\ f \in Nat /\ fed =< f
          BY UntilIs, PendingIs
        <5>. DEFINE h == HeldBack(e)
        <5>2. CASE finished
          <6>1. e = TRUE
            BY <3>3, <5>2
          <6>2. h = 0
            BY <6>1 DEF HeldBack
          <6>3. EmitLength = fed - base
            BY <5>1, <5>2 DEF EmitLength
          <6>. HIDE DEF h
          <6>4. base + EmitLength =< f - h
            BY <2>0, <5>1, <6>2, <6>3
          <6>. QED  BY <6>4 DEF h
        <5>3. CASE ~finished
          <6>1. h \in Nat /\ h =< L - 1
            BY Lengths DEF HeldBack
          <6>2. EmitLength = IF fed - base > L - 1 THEN fed - base - (L - 1) ELSE 0
            BY <5>1, <5>3 DEF EmitLength, L
          <6>. HIDE DEF h
          <6>3. EmitLength = 0 \/ base + EmitLength =< f - h
            BY <2>0, <5>1, <6>1, <6>2, Lengths
          <6>. QED  BY <6>3 DEF h
        <5>. QED  BY <5>2, <5>3
      <4>2. Completes(Until(f), e, output, base)
        BY <2>0, <3>3
      <4>. QED  BY <2>0, <3>1, <3>2, <4>1, <4>2, LetGo
    <3>4. fed \in fed..Len(input)
      BY <2>0
    <3>5. output' \in Seq(Byte)
          /\ Completes(Until(fed), finished, output', base + EmitLength)
      BY <2>0, <3>1, <3>3, <3>4
    <3>6. output' = LiteralReturned(Stage, Until(fed), finished)
      BY <3>1, <3>5, NothingAfterTail
    <3>. QED  BY <2>a, <3>1, <3>3, <3>5, <3>6
  <2>6. CASE UNCHANGED vars
    BY <2>6 DEF vars, RestInv, Completes, Until
  <2>. QED  BY <2>1, <2>2, <2>3, <2>4, <2>5, <2>6 DEF Next
<1>. QED  BY <1>1, <1>2, Invariants, PTL DEF Spec

(* The stage computes the rewritten body wherever the chunks are cut: what  *)
(* process_available has returned is a beginning of it, between two calls   *)
(* exactly what LiteralReturned says of what has been received, and all of  *)
(* it once finish has returned.                                             *)
THEOREM OutputCorrect == Spec => []OutputIsRewritten
<1>1. BufferInv /\ RestInv => OutputIsRewritten
  <2>. SUFFICES ASSUME BufferInv, RestInv PROVE OutputIsRewritten
    OBVIOUS
  <2>1. /\ input \in Seq(Byte) /\ Len(input) \in fed..Len(input)
        /\ base \in 0..Len(input) /\ output \in Seq(Byte)
    BY DEF BufferInv, RestInv
  <2>2. Until(Len(input)) = input
    BY <2>1 DEF Until, First
  <2>3. Completes(input, TRUE, output, base)
    BY <2>1, <2>2 DEF RestInv
  <2>4. PICK rest : /\ IsRest(rest, input, TRUE)
                    /\ LiteralReturned(Stage, input, TRUE) = output \o rest[base]
    BY <2>3 DEF Completes
  <2>5. StartsWith(Rewritten(input), output)
    <3>. DEFINE r == rest[base]
    <3>1. r \in Seq(Byte) /\ Rewritten(input) = output \o r
      BY <2>1, <2>4 DEF IsRest, Rewritten
    <3>. HIDE DEF r
    <3>. QED  BY <2>1, <3>1, PrefixOfConcat
  <2>. QED  BY <2>5 DEF OutputIsRewritten, RestInv, Until
<1>. QED  BY <1>1, RestInvariant, Invariants, PTL

-----------------------------------------------------------------------------
(* What the stage returns, given to it again                               *)

(* The first occurrence from i on is the one at q. *)
LEMMA FirstHit ==
    ASSUME NEW w \in Seq(Byte), NEW i \in Nat, NEW q \in Nat, i =< q,
           OccursAt(w, q, Source),
           \A r \in i..(q - 1) : ~OccursAt(w, r, Source)
    PROVE  Hits(w, i) # {} /\ Leftmost(Hits(w, i)) = q
<1>1. q + L =< Len(w)
  BY DEF OccursAt, L
<1>2. q \in Hits(w, i)
  BY <1>1, Lengths DEF Hits
<1>3. \A r \in Hits(w, i) : q =< r
  BY DEF Hits
<1>4. Leftmost(Hits(w, i)) \in Hits(w, i) /\ Leftmost(Hits(w, i)) =< q
  <2>1. Hits(w, i) \in SUBSET Nat
    BY DEF Hits
  <2>. QED  BY <1>2, <2>1, LeftmostIs
<1>5. Leftmost(Hits(w, i)) \in Nat
  BY <1>4 DEF Hits
<1>. QED  BY <1>2, <1>3, <1>4, <1>5

(* If every occurrence that the search meets from 0 on carries the inserted *)
(* bytes, the stage returns w as it is.  The offsets T are those where the  *)
(* search goes on.                                                          *)
GoesOnIn(T, w) ==
    /\ 0 \in T /\ T \subseteq 0..Len(w)
    /\ \A i \in T : Hits(w, i) # {} =>
         /\ Carries(Stage, w, Leftmost(Hits(w, i)))
         /\ Leftmost(Hits(w, i)) + L \in T

LEMMA NothingToDo ==
    ASSUME NEW w \in Seq(Byte), NEW T, GoesOnIn(T, w)
    PROVE  Rewritten(w) = w
<1>1. PICK v : IsRest(v, w, TRUE)
  BY ReturnedIs
<1>. DEFINE U == {i \in 0..Len(w) : i \in T => v[i] = From(w, i)}
<1>2. ASSUME NEW i \in 0..Len(w), \A m \in (i + 1)..Len(w) : m \in U PROVE i \in U
  <2>. SUFFICES ASSUME i \in T PROVE v[i] = From(w, i)
    OBVIOUS
  <2>1. v[i] = RestAt(Stage, w, TRUE, i, v)
    BY <1>1 DEF IsRest
  <2>2. CASE Hits(w, i) = {}
    <3>1. HeldBack(TRUE) = 0 /\ Len(w) - 0 = Len(w)
      BY DEF HeldBack
    <3>. QED  BY <2>1, <2>2, <3>1, RestAtIs DEF From
  <2>3. CASE Hits(w, i) # {}
    <3>. DEFINE q == Leftmost(Hits(w, i))
                x == SubSeq(w, i + 1, q)
                y == From(w, q + L)
    <3>1. /\ q \in i..Len(w) /\ q + L \in (i + 1)..Len(w)
          /\ OccursAt(w, q, Source)
      BY <2>3, HitIs
    <3>2. Carries(Stage, w, q) /\ q + L \in T
      BY <2>3 DEF GoesOnIn
    <3>3. v[q + L] = y
      BY <1>2, <3>1, <3>2
    <3>4. ~StopsAt(w, TRUE, q) /\ Decided(w, q) = Source
      BY <3>2 DEF StopsAt, Decided
    <3>5. v[i] = x \o Source \o y
      BY <2>1, <2>3, <3>3, <3>4, RestAtIs
    <3>6. y \in Seq(Byte) /\ From(w, i) = x \o (Source \o y)
      <4>. HIDE DEF q
      <4>1. /\ y \in Seq(Byte) /\ Len(y) = Len(w) - (q + L)
            /\ \A k \in 1..(Len(w) - (q + L)) : y[k] = w[q + L + k]
        <5>1. q + L \in 0..Len(w)
          BY <3>1
        <5>. QED  BY <5>1, FromSlice
      <4>2. SubSeq(w, q + 1, q + L) = Source
        <5>. DEFINE z == SubSeq(w, q + 1, q + L)
        <5>1. z \in Seq(Byte) /\ Len(z) = L /\ \A k \in 1..L : z[k] = w[q + k]
          BY <3>1, Lengths
        <5>2. \A k \in 1..L : w[q + k] = Source[k]
          BY <3>1 DEF OccursAt, L
        <5>. HIDE DEF z
        <5>3. z = Source
          BY <5>1, <5>2, SourceAssumption, SeqEqual DEF L
        <5>. QED  BY <5>3 DEF z
      <4>3. Adjoins(w, q, q + L, Len(w) - (q + L))
        <5>1. /\ q \in Nat /\ q + L \in Nat /\ Len(w) - (q + L) \in Nat
              /\ q =< q + L /\ q + L + (Len(w) - (q + L)) =< Len(w)
          BY <3>1, Lengths
        <5>. QED  BY <5>1, Adjoining
      <4>4. Adjoins(w, i, q, Len(w) - q)
        <5>1. /\ i \in Nat /\ q \in Nat /\ Len(w) - q \in Nat
              /\ i =< q /\ q + (Len(w) - q) =< Len(w)
          BY <3>1
        <5>. QED  BY <5>1, Adjoining
      <4>5. q + L + (Len(w) - (q + L)) = Len(w) /\ q + (Len(w) - q) = Len(w)
        BY <3>1, Lengths
      <4>6. Source \o y = SubSeq(w, q + 1, Len(w))
        BY <4>2, <4>3, <4>5 DEF Adjoins, From
      <4>7. x \o SubSeq(w, q + 1, Len(w)) = From(w, i)
        BY <4>4, <4>5 DEF Adjoins, From
      <4>. QED  BY <4>1, <4>6, <4>7
    <3>7. x \in Seq(Byte)
      BY <3>1
    <3>. HIDE DEF x, y
    <3>8. Regroups(Byte, x, Source, y)
      BY <3>6, <3>7, SourceAssumption, Reassociate
    <3>. QED  BY ONLY <3>5, <3>6, <3>8, Zenon DEF Regroups
  <2>. QED  BY <2>2, <2>3
<1>3. 0..Len(w) \subseteq U
  <2>. DEFINE l == Len(w)
  <2>1. l \in Nat
    OBVIOUS
  <2>2. \A i \in 0..l : (\A m \in (i + 1)..l : m \in U) => i \in U
    BY <1>2
  <2>. HIDE DEF U, l
  <2>3. 0..l \subseteq U
    BY <2>1, <2>2, DownwardInduction
  <2>. QED  BY <2>3 DEF l
<1>4. v[0] = From(w, 0)
  BY <1>3 DEF GoesOnIn
<1>5. From(w, 0) = w
  BY DEF From
<1>. QED  BY <1>1, <1>4, <1>5 DEF IsRest, Rewritten

(* Occurrence q of s is the first from p on; w has the bytes before it at i. *)
SameUntil(w, i, s, p, q) ==
    /\ p \in 0..Len(s) /\ q \in p..Len(s) /\ i \in 0..Len(w)
    /\ OccursAt(s, q, Source)
    /\ \A r \in p..(q - 1) : ~OccursAt(s, r, Source)
    /\ OccursAt(w, i, SubSeq(s, p + 1, q))

(* w goes on at i as what the stage returns of s from p on: without an      *)
(* occurrence, if there is none in s, or with what stands before the first  *)
(* one, what becomes of it, and what the stage returns of the rest.         *)
Continues(w, i, s, p, r) ==
    /\ i \in 0..Len(w)
    /\ Hits(s, p) = {} => Hits(w, i) = {}
    /\ Hits(s, p) # {} =>
         LET q == Leftmost(Hits(s, p))
             m == i + (q - p)
             n == Len(Decided(s, q))
         IN  /\ SameUntil(w, i, s, p, q)
             /\ OccursAt(w, m, Decided(s, q))
             /\ m \in 0..Len(w) /\ m + n \in 0..Len(w) /\ q + L \in 0..Len(s)
             /\ Follows(w, m + n, r[q + L])

LEMMA WhatFollows ==
    ASSUME NEW w \in Seq(Byte), NEW s \in Seq(Byte), NEW r, IsRest(r, s, TRUE),
           NEW p \in 0..Len(s), NEW i, Follows(w, i, r[p])
    PROVE  Continues(w, i, s, p, r)
<1>1. i \in 0..Len(w)
  BY DEF Follows
<1>2. r[p] = RestAt(Stage, s, TRUE, p, r)
  BY DEF IsRest
<1>3. ASSUME Hits(s, p) = {} PROVE Hits(w, i) = {}
  <2>. DEFINE x == SubSeq(s, p + 1, Len(s))
  <2>1. r[p] = x
    <3>1. HeldBack(TRUE) = 0 /\ Len(s) - 0 = Len(s)
      BY DEF HeldBack
    <3>. QED  BY <1>2, <1>3, <3>1, RestAtIs
  <2>2. x \in Seq(Byte) /\ Len(x) = Len(s) - p
    OBVIOUS
  <2>3. Follows(w, i, x)
    BY <2>1
  <2>4. Len(w) = i + (Len(s) - p) /\ OccursAt(w, i, x)
    <3>. DEFINE n == Len(x)
    <3>1. n = Len(s) - p /\ n \in Nat
      BY <2>2
    <3>. HIDE DEF x
    <3>2. /\ Len(w) = i + n /\ \A k \in 1..n : w[i + k] = x[k]
      BY <2>3 DEF Follows
    <3>3. OccursAt(w, i, x)
      <4>1. i + n =< Len(w)
        BY <3>2
      <4>. QED  BY <3>2, <4>1 DEF OccursAt
    <3>. HIDE DEF n
    <3>. QED  BY <3>1, <3>2, <3>3
  <2>5. ASSUME NEW h \in Hits(w, i) PROVE FALSE
    <3>1. h \in i..Len(w) /\ OccursAt(w, h, Source)
      BY <2>5 DEF Hits
    <3>2. h + L =< Len(w)
      BY <3>1 DEF OccursAt, L
    <3>3. h - i \in Nat /\ (h - i) + L =< Len(s) - p /\ i + (h - i) = h
      BY <1>1, <2>4, <3>1, <3>2, Lengths
    <3>4. OccursAt(s, p + (h - i), Source)
      <4>1. i \in Nat /\ p \in Nat /\ Len(s) \in p..Len(s)
        BY <1>1
      <4>2. OccursAt(w, i + (h - i), Source)
        BY <3>1, <3>3
      <4>. DEFINE j == h - i
      <4>3. j \in Nat /\ j + Len(Source) =< Len(s) - p /\ OccursAt(w, i + j, Source)
        BY <3>3, <4>2 DEF L
      <4>. HIDE DEF j
      <4>4. OccursAt(s, p + j, Source)
        BY <2>4, <4>1, <4>3, OccursInCopy, SourceAssumption
      <4>. QED  BY <4>4 DEF j
    <3>5. p + (h - i) \in p..Len(s)
      BY <3>3, Lengths
    <3>. QED  BY <1>3, <3>4, <3>5 DEF Hits
  <2>. QED  BY <2>5
<1>4. ASSUME Hits(s, p) # {}
      PROVE  LET q == Leftmost(Hits(s, p))
                 m == i + (q - p)
                 n == Len(Decided(s, q))
             IN  /\ SameUntil(w, i, s, p, q)
                 /\ OccursAt(w, m, Decided(s, q))
                 /\ m \in 0..Len(w) /\ m + n \in 0..Len(w) /\ q + L \in 0..Len(s)
                 /\ Follows(w, m + n, r[q + L])
  <2>. DEFINE q == Leftmost(Hits(s, p))
              x == SubSeq(s, p + 1, q)
              d == Decided(s, q)
              z == r[q + L]
              m == i + (q - p)
  <2>1. /\ q \in p..Len(s) /\ q + L \in (p + 1)..Len(s)
        /\ OccursAt(s, q, Source) /\ \A h \in p..(q - 1) : ~OccursAt(s, h, Source)
    BY <1>4, HitIs
  <2>2. ~StopsAt(s, TRUE, q)
    BY DEF StopsAt
  <2>3. r[p] = x \o d \o z
    BY <1>2, <1>4, <2>2, RestAtIs
  <2>4. d \in Seq(Byte)
    BY DecidedType
  <2>. HIDE DEF d, q
  <2>5. z \in Seq(Byte)
    BY <2>1 DEF IsRest
  <2>6. x \in Seq(Byte) /\ Len(x) = q - p
    BY <2>1
  <2>. HIDE DEF x, z
  <2>7. Regroups(Byte, x, d, z)
    BY <2>4, <2>5, <2>6, Reassociate
  <2>8. Follows(w, i, x \o (d \o z)) /\ d \o z \in Seq(Byte)
    BY ONLY <2>3, <2>7, Follows(w, i, r[p]), Zenon DEF Regroups
  <2>9. OccursAt(w, i, x) /\ m \in 0..Len(w) /\ Follows(w, m, d \o z)
    <3>1. /\ OccursAt(w, i, x) /\ i + Len(x) \in 0..Len(w)
          /\ Follows(w, i + Len(x), d \o z)
      BY <2>6, <2>8, FollowsSplit
    <3>. QED  BY <2>6, <3>1
  <2>10. /\ OccursAt(w, m, d) /\ m + Len(d) \in 0..Len(w)
         /\ Follows(w, m + Len(d), z)
    BY <2>4, <2>5, <2>9, FollowsSplit
  <2>11. SameUntil(w, i, s, p, q) /\ q + L \in 0..Len(s)
    BY <1>1, <2>1, <2>9 DEF SameUntil, x
  <2>. QED  BY <2>9, <2>10, <2>11 DEF q, d, x, z
<1>. QED  BY <1>1, <1>3, <1>4 DEF Continues

(* If the source follows, the search meets it where it met it in s.         *)
LEMMA SameHit ==
    ASSUME NEW w \in Seq(Byte), NEW s \in Seq(Byte), NEW i, NEW p, NEW q,
           SameUntil(w, i, s, p, q), OccursAt(w, i + (q - p), Source)
    PROVE  /\ OccursAt(w, i, SubSeq(s, p + 1, q + L))
           /\ q + L \in 0..Len(s)
           /\ Hits(w, i) # {}
           /\ Leftmost(Hits(w, i)) = i + (q - p)
<1>1. /\ p \in Nat /\ q \in Nat /\ i \in Nat /\ q - p \in Nat /\ q =< Len(s)
      /\ q \in p..Len(s) /\ Len(s) \in Nat /\ Len(w) \in Nat
  BY DEF SameUntil
<1>2. q + L \in 0..Len(s) /\ q + L \in p..Len(s)
  <2>1. q + L =< Len(s)
    BY DEF SameUntil, OccursAt, L
  <2>. QED  BY <1>1, <2>1, Lengths
<1>. DEFINE x == SubSeq(s, p + 1, q)
<1>3. x \in Seq(Byte) /\ Len(x) = q - p
  BY <1>1
<1>4. OccursAt(w, i, x)
  BY DEF SameUntil
<1>5. x \o Source = SubSeq(s, p + 1, q + L)
  <2>1. SubSeq(s, q + 1, q + L) = Source
    BY <1>1, LiteralThere, SourceAssumption DEF SameUntil, L
  <2>2. Adjoins(s, p, q, L)
    <3>1. q + L =< Len(s) /\ p =< q
      BY <1>1, <1>2
    <3>. QED  BY <1>1, <3>1, Lengths, Adjoining
  <2>. QED  BY <2>1, <2>2 DEF Adjoins
<1>. HIDE DEF x
<1>6. OccursAt(w, i, x \o Source)
  <2>1. OccursAt(w, i + Len(x), Source)
    BY <1>3
  <2>. QED  BY <1>1, <1>3, <1>4, <2>1, OccursSplit, SourceAssumption
<1>7. OccursAt(w, i, SubSeq(s, p + 1, q + L))
  BY <1>5, <1>6
<1>8. ASSUME NEW h \in i..((i + (q - p)) - 1) PROVE ~OccursAt(w, h, Source)
  <2>. DEFINE j == h - i
  <2>1. j \in Nat /\ j + L =< (q + L) - p /\ i + j = h /\ p + j \in p..(q - 1)
    BY <1>1, Lengths
  <2>2. Len(Source) = L
    BY DEF L
  <2>. HIDE DEF j
  <2>3. OccursAt(w, i + j, Source) <=> OccursAt(s, p + j, Source)
    BY <1>1, <1>2, <1>7, <2>1, <2>2, OccursInCopy, SourceAssumption
  <2>. QED  BY <2>1, <2>3 DEF SameUntil
<1>9. Hits(w, i) # {} /\ Leftmost(Hits(w, i)) = i + (q - p)
  <2>. DEFINE m == i + (q - p)
  <2>1. m \in Nat /\ i =< m
    BY <1>1
  <2>2. OccursAt(w, m, Source)
    OBVIOUS
  <2>3. \A h \in i..(m - 1) : ~OccursAt(w, h, Source)
    BY <1>8
  <2>. HIDE DEF m
  <2>4. Hits(w, i) # {} /\ Leftmost(Hits(w, i)) = m
    BY <1>1, <2>1, <2>2, <2>3, FirstHit
  <2>. QED  BY <2>4 DEF m
<1>. QED  BY <1>2, <1>7, <1>9

(* Prepend: a source that carried the prefix in s carries it in w.  The     *)
(* prefix lies in what w has from s, which begins with the source before or *)
(* at the beginning of both: no prefix has a source in it.                  *)
LEMMA StillPrefixed ==
    ASSUME Mode = "prepend", InsertsQuietly(Stage),
           NEW w \in Seq(Byte), NEW s \in Seq(Byte), NEW i, NEW p, NEW q,
           SameUntil(w, i, s, p, q), OccursAt(w, i + (q - p), Source),
           Carries(Stage, s, q),
           \/ i = 0 /\ p = 0
           \/ /\ L =< i /\ L =< p
              /\ OccursAt(w, i - L, Source) /\ OccursAt(s, p - L, Source)
    PROVE  Carries(Stage, w, i + (q - p))
<1>1. /\ p \in Nat /\ q \in Nat /\ i \in Nat /\ q - p \in Nat /\ q =< Len(s)
      /\ q \in p..Len(s) /\ Len(s) \in Nat /\ Len(w) \in Nat /\ p =< q
  BY DEF SameUntil
<1>2. K =< q /\ OccursAt(s, q - K, Inserted)
  BY StageIs DEF Carries, K
<1>3. /\ Len(Inserted) = K /\ Len(Source) = L
      /\ \A k \in 1..K : s[(q - K) + k] = Inserted[k]
      /\ Inserted \in Seq(Byte) /\ Source \in Seq(Byte)
  BY <1>2, SourceAssumption, InsertedAssumption DEF K, L, OccursAt
<1>4. SUFFICES K =< i + (q - p) /\ OccursAt(w, (i + (q - p)) - K, Inserted)
  BY StageIs DEF Carries, K
<1>5. ASSUME NEW b \in Nat, b =< i, b =< p, K =< b + (q - p),
             OccursAt(w, i - b, SubSeq(s, (p - b) + 1, q))
      PROVE  K =< i + (q - p) /\ OccursAt(w, (i + (q - p)) - K, Inserted)
  <2>. DEFINE j == b + (q - p) - K
              a == i - b
              c == p - b
  <2>1. /\ j \in Nat /\ j + K =< q - c /\ a \in Nat /\ c \in Nat
        /\ a + j = (i + (q - p)) - K /\ c + j = q - K /\ q \in c..Len(s)
    BY <1>1, <1>5, Lengths
  <2>2. OccursAt(w, a, SubSeq(s, c + 1, q))
    BY <1>5
  <2>. HIDE DEF j, a, c
  <2>3. OccursAt(w, a + j, Inserted) <=> OccursAt(s, c + j, Inserted)
    BY <1>3, <2>1, <2>2, OccursInCopy
  <2>4. OccursAt(s, c + j, Inserted)
    BY <1>2, <2>1
  <2>5. OccursAt(w, a + j, Inserted)
    BY <2>3, <2>4
  <2>6. OccursAt(w, (i + (q - p)) - K, Inserted)
    BY <2>1, <2>5
  <2>7. K =< i + (q - p)
    BY <1>1, <1>5, Lengths
  <2>. QED  BY <2>6, <2>7
<1>6. CASE i = 0 /\ p = 0
  <2>1. /\ OccursAt(w, i - 0, SubSeq(s, (p - 0) + 1, q)) /\ K =< 0 + (q - p)
        /\ 0 \in Nat /\ 0 =< i /\ 0 =< p
    BY <1>2, <1>6 DEF SameUntil
  <2>. QED  BY <1>5, <2>1
<1>7. CASE L =< i /\ L =< p /\ OccursAt(w, i - L, Source) /\ OccursAt(s, p - L, Source)
  <2>1. OccursAt(w, i - L, SubSeq(s, (p - L) + 1, q))
    <3>. DEFINE x == SubSeq(s, p + 1, q)
                a == i - L
                c == p - L
    <3>1. /\ x \in Seq(Byte) /\ OccursAt(w, i, x)
          /\ a \in Nat /\ c \in Nat /\ a + L = i /\ c + L = p /\ c =< p
          /\ p + (q - p) = q /\ p =< Len(s)
      BY <1>1, <1>7, Lengths DEF SameUntil
    <3>2. SubSeq(s, c + 1, p) = Source
      <4>1. OccursAt(s, c, Source)
        BY <1>7
      <4>. HIDE DEF c, a, x
      <4>2. SubSeq(s, c + 1, c + L) = Source
        BY <1>3, <3>1, <4>1, LiteralThere
      <4>. QED  BY <3>1, <4>2
    <3>3. OccursAt(w, a, Source)
      BY <1>7
    <3>. HIDE DEF a, c
    <3>4. Adjoins(s, c, p, q - p)
      BY <1>1, <3>1, Adjoining
    <3>5. Source \o x = SubSeq(s, c + 1, q)
      BY <3>1, <3>2, <3>4 DEF Adjoins
    <3>. HIDE DEF x
    <3>6. OccursAt(w, a, Source \o x)
      BY <1>3, <3>1, <3>3, OccursSplit
    <3>. QED  BY <3>5, <3>6 DEF a, c
  <2>2. K =< L + (q - p)
    <3>. SUFFICES ASSUME K > L + (q - p) PROVE FALSE
      BY Lengths, <1>1
    <3>. DEFINE new == Inserted \o Source
                j == K - L - (q - p)
    <3>1. j \in 0..(K - 1) /\ j + L =< K /\ (q - K) + j = p - L
      BY <1>1, Lengths
    <3>2. ~OccursAt(new, j, Source)
      BY <3>1, StageIs DEF InsertsQuietly, K
    <3>3. Len(new) = K + L /\ \A k \in 1..K : new[k] = Inserted[k]
      <4>1. /\ Len(new) = Len(Inserted) + Len(Source)
            /\ \A k \in 1..Len(Inserted) : new[k] = Inserted[k]
        BY InsertedAssumption, SourceAssumption, ConcatProperties
      <4>. QED  BY <4>1 DEF K, L
    <3>. HIDE DEF new, j
    <3>4. ASSUME NEW k \in 1..L PROVE new[j + k] = Source[k]
      <4>1. j + k \in 1..K /\ (q - K) + (j + k) = (p - L) + k
        BY <1>1, <3>1, Lengths
      <4>2. s[(q - K) + (j + k)] = Inserted[j + k]
        BY <1>3, <4>1
      <4>3. s[(p - L) + k] = Source[k]
        BY <1>3, <1>7 DEF OccursAt
      <4>. QED  BY <3>3, <4>1, <4>2, <4>3
    <3>5. j + L =< Len(new)
      BY <3>1, <3>3, Lengths
    <3>. QED  BY <1>3, <3>2, <3>4, <3>5 DEF OccursAt
  <2>. QED  BY <1>5, <1>7, <2>1, <2>2, Lengths
<1>. QED  BY <1>6, <1>7, Zenon

(* Prepend: a source that was given the prefix is the next occurrence in w, *)
(* and carries it.                                                          *)
LEMMA NowPrefixed ==
    ASSUME Mode = "prepend", InsertsQuietly(Stage),
           NEW w \in Seq(Byte), NEW s \in Seq(Byte), NEW i, NEW p, NEW q,
           SameUntil(w, i, s, p, q),
           OccursAt(w, i + (q - p), Inserted \o Source)
    PROVE  /\ Hits(w, i) # {}
           /\ Leftmost(Hits(w, i)) = i + (q - p) + K
           /\ OccursAt(w, i + (q - p) + K, Source)
           /\ Carries(Stage, w, i + (q - p) + K)
<1>. DEFINE new == Inserted \o Source
            d   == q - p
            m   == i + d
<1>1. /\ p \in Nat /\ q \in Nat /\ i \in Nat /\ d \in Nat /\ q =< Len(s) /\ p + d = q
      /\ q \in p..Len(s) /\ Len(s) \in Nat /\ Len(w) \in Nat /\ m \in Nat
  BY DEF SameUntil
<1>2. /\ Inserted \in Seq(Byte) /\ Source \in Seq(Byte) /\ new \in Seq(Byte)
      /\ Len(Inserted) = K /\ Len(Source) = L /\ Len(new) = K + L
  BY SourceAssumption, InsertedAssumption DEF K, L
<1>3. OccursAt(w, m, Inserted) /\ OccursAt(w, m + K, Source)
  BY <1>1, <1>2, OccursSplit
<1>4. Carries(Stage, w, m + K)
  <2>1. m + K >= K /\ (m + K) - K = m
    BY <1>1, Lengths
  <2>. QED  BY <1>2, <1>3, <2>1, StageIs DEF Carries
<1>5. /\ \A j \in 0..(K - 1) : ~OccursAt(new, j, Source)
      /\ \A e \in 1..(L - 1) :
           StartsWith(new, From(Source, e)) => StartsWith(Source, From(Source, e))
  BY StageIs DEF InsertsQuietly, K, L
<1>. DEFINE x == SubSeq(s, p + 1, q)
<1>6. /\ OccursAt(w, i, x) /\ OccursAt(w, m, new) /\ OccursAt(s, q, Source)
      /\ \A r \in p..(q - 1) : ~OccursAt(s, r, Source)
      /\ x \in Seq(Byte) /\ Len(x) = d /\ \A k \in 1..d : x[k] = s[p + k]
  BY DEF SameUntil
<1>7. /\ i + d =< Len(w) /\ m + (K + L) =< Len(w) /\ q + L =< Len(s)
      /\ \A k \in 1..d : w[i + k] = s[p + k]
      /\ \A k \in 1..(K + L) : w[m + k] = new[k]
      /\ \A k \in 1..L : s[q + k] = Source[k]
  <2>. HIDE DEF x, new, d, m
  <2>. QED  BY <1>2, <1>6 DEF OccursAt
<1>8. ASSUME NEW h \in i..((m + K) - 1) PROVE ~OccursAt(w, h, Source)
  <2>. SUFFICES ASSUME OccursAt(w, h, Source) PROVE FALSE
    OBVIOUS
  <2>. DEFINE j == h - i
  <2>1. /\ j \in Nat /\ j < d + K /\ i + j = h /\ h + L =< Len(w)
        /\ \A k \in 1..L : w[h + k] = Source[k]
    <3>1. h + L =< Len(w) /\ \A k \in 1..L : w[h + k] = Source[k]
      BY <1>2 DEF OccursAt
    <3>2. i \in Nat /\ d \in Nat /\ K \in Nat /\ h \in i..(((i + d) + K) - 1)
      BY <1>1, Lengths
    <3>. HIDE DEF d
    <3>3. j \in Nat /\ j < d + K /\ i + j = h
      BY ONLY <3>2, SMT
    <3>. QED  BY <3>1, <3>3
  <2>2. /\ j < d => p + j \in p..(q - 1)
        /\ j + L =< d => j < d
        /\ j >= d \/ j + L =< d \/ (j < d /\ d < j + L)
    <3>1. /\ j \in Nat /\ d \in Nat /\ p \in Nat /\ q = p + d
          /\ L \in Nat /\ L > 0
      BY <1>1, <2>1, Lengths
    <3>. HIDE DEF j, d
    <3>. QED  BY ONLY <3>1, SMT
  <2>. HIDE DEF j, new, d, x
  <2>3. CASE j >= d
    <3>. DEFINE o == j - d
    <3>1. o \in 0..(K - 1) /\ m + o = h /\ o + L =< K + L
      BY <1>1, <2>1, <2>3, Lengths
    <3>. HIDE DEF o
    <3>2. ASSUME NEW k \in 1..L PROVE new[o + k] = Source[k]
      <4>1. o + k \in 1..(K + L) /\ m + (o + k) = h + k
        BY <1>1, <3>1, Lengths
      <4>. QED  BY <1>7, <2>1, <4>1
    <3>3. OccursAt(new, o, Source)
      BY <1>2, <3>1, <3>2 DEF OccursAt
    <3>. QED  BY <1>5, <3>1, <3>3
  <2>4. CASE j + L =< d
    <3>1. OccursAt(w, i + j, Source) <=> OccursAt(s, p + j, Source)
      <4>1. OccursAt(w, i, SubSeq(s, p + 1, q)) /\ j + Len(Source) =< q - p
        BY <1>2, <1>6, <2>4 DEF x, d
      <4>2. /\ j \in Nat /\ i \in Nat /\ p \in Nat /\ q \in p..Len(s)
            /\ Source \in Seq(Byte)
        BY <1>1, <1>2, <2>1
      <4>. QED  BY <4>1, <4>2, OccursInCopy
    <3>2. p + j \in p..(q - 1)
      BY <2>2, <2>4
    <3>. QED  BY <1>6, <2>1, <3>1, <3>2
  <2>5. CASE j < d /\ d < j + L
    <3>. DEFINE e == d - j
                t == From(Source, e)
    <3>1. /\ e \in 1..(L - 1) /\ e \in 0..Len(Source) /\ j + e = d /\ L - e \in Nat
          /\ h + e = m
      BY <1>1, <1>2, <2>1, <2>5, Lengths
    <3>. HIDE DEF e
    <3>2. /\ t \in Seq(Byte) /\ Len(t) = L - e
          /\ \A k \in 1..(L - e) : t[k] = Source[e + k]
      BY <1>2, <3>1, FromSlice
    <3>. HIDE DEF t
    <3>3. StartsWith(new, t)
      <4>1. Len(t) =< Len(new)
        BY <1>2, <3>1, <3>2, Lengths
      <4>2. ASSUME NEW k \in 1..Len(t) PROVE new[k] = t[k]
        <5>1. k \in 1..(L - e) /\ k \in 1..(K + L) /\ e + k \in 1..L
              /\ h + (e + k) = m + k
          BY <1>1, <3>1, <3>2, Lengths
        <5>2. w[m + k] = new[k] /\ w[h + (e + k)] = Source[e + k]
          BY <1>7, <2>1, <5>1
        <5>. QED  BY <3>2, <5>1, <5>2
      <4>. QED  BY <1>2, <3>2, <4>1, <4>2, StartsIs
    <3>4. StartsWith(Source, t)
      BY <1>5, <3>1, <3>3 DEF t
    <3>5. \A k \in 1..(L - e) : Source[k] = Source[e + k]
      <4>1. \A k \in 1..Len(t) : Source[k] = t[k]
        <5>1. t \in Seq(Byte) /\ Source \in Seq(Byte)
          BY <1>2, <3>2
        <5>. QED  BY <3>4, <5>1, StartsIs
      <4>. QED  BY <3>2, <4>1
    <3>6. ASSUME NEW k \in 1..L PROVE s[(p + j) + k] = Source[k]
      <4>1. CASE k =< e
        <5>1. j + k \in 1..d /\ (p + j) + k = p + (j + k) /\ i + (j + k) = h + k
          BY <1>1, <2>1, <3>1, <4>1
        <5>2. w[i + (j + k)] = s[p + (j + k)] /\ w[h + k] = Source[k]
          BY <1>7, <2>1, <5>1
        <5>. QED  BY <5>1, <5>2
      <4>2. CASE k > e
        <5>1. /\ k - e \in 1..(L - e) /\ k - e \in 1..L /\ e + (k - e) = k
              /\ (p + j) + k = q + (k - e)
          BY <1>1, <2>1, <3>1, <4>2, Lengths
        <5>2. s[q + (k - e)] = Source[k - e] /\ Source[k - e] = Source[e + (k - e)]
          BY <1>7, <3>5, <5>1
        <5>. QED  BY <5>1, <5>2
      <4>. QED  BY <3>1, <4>1, <4>2
    <3>7. (p + j) + L =< Len(s) /\ p + j \in p..(q - 1)
      <4>1. p + j \in p..(q - 1)
        BY <2>2, <2>5
      <4>2. q + L =< Len(s)
        BY <1>7
      <4>. QED  BY <1>1, <4>1, <4>2, Lengths
    <3>8. OccursAt(s, p + j, Source)
      BY <1>2, <3>6, <3>7 DEF OccursAt
    <3>. QED  BY <1>6, <3>7, <3>8
  <2>. QED  BY <2>2, <2>3, <2>4, <2>5
<1>9. Hits(w, i) # {} /\ Leftmost(Hits(w, i)) = m + K
  <2>1. m + K \in Nat /\ i =< m + K
    BY <1>1, Lengths
  <2>. HIDE DEF m
  <2>. DEFINE o == m + K
  <2>2. o \in Nat /\ i =< o /\ OccursAt(w, o, Source)
    BY <1>3, <2>1
  <2>3. \A h \in i..(o - 1) : ~OccursAt(w, h, Source)
    BY <1>8
  <2>. HIDE DEF o
  <2>4. Hits(w, i) # {} /\ Leftmost(Hits(w, i)) = o
    BY <1>1, <2>2, <2>3, FirstHit
  <2>. QED  BY <2>4 DEF o
<1>10. i + (q - p) + K = m + K
  BY <1>1, Lengths
<1>. QED  BY <1>3, <1>4, <1>9, <1>10

(* Prepend: the search goes on in w where it went on in s, with the same    *)
(* source before.                                                           *)
LEMMA PrependAgain ==
    ASSUME Mode = "prepend", InsertsQuietly(Stage), NEW s \in Seq(Byte)
    PROVE  Rewritten(Rewritten(s)) = Rewritten(s)
<1>1. PICK r : IsRest(r, s, TRUE)
  BY ReturnedIs
<1>. DEFINE w == r[0]
            Image(p, i) ==
              /\ p \in 0..Len(s) /\ Follows(w, i, r[p])
              /\ \/ i = 0 /\ p = 0
                 \/ /\ L =< i /\ L =< p
                    /\ OccursAt(w, i - L, Source) /\ OccursAt(s, p - L, Source)
            T == {i \in 0..Len(w) : \E p \in 0..Len(s) : Image(p, i)}
<1>2. w \in Seq(Byte) /\ Rewritten(s) = w /\ r \in [0..Len(s) -> Seq(Byte)]
  BY <1>1 DEF IsRest, Rewritten
<1>. HIDE DEF w
<1>3. 0 \in T
  <2>1. From(w, 0) = w
    BY <1>2 DEF From
  <2>2. Follows(w, 0, w)
    BY <1>2, <2>1, FollowsFrom
  <2>3. Image(0, 0)
    BY <2>2 DEF w
  <2>. QED  BY <2>3, <1>2
<1>4. ASSUME NEW i \in T, Hits(w, i) # {}
      PROVE  /\ Carries(Stage, w, Leftmost(Hits(w, i)))
             /\ Leftmost(Hits(w, i)) + L \in T
  <2>1. PICK p \in 0..Len(s) : Image(p, i)
    OBVIOUS
  <2>. DEFINE q == Leftmost(Hits(s, p))
              m == i + (q - p)
              n == Len(Decided(s, q))
              g == Leftmost(Hits(w, i))
  <2>2. /\ SameUntil(w, i, s, p, q)
        /\ OccursAt(w, m, Decided(s, q))
        /\ m \in 0..Len(w) /\ m + n \in 0..Len(w) /\ q + L \in 0..Len(s)
        /\ Follows(w, m + n, r[q + L])
    <3>1. Follows(w, i, r[p])
      BY <2>1
    <3>2. Continues(w, i, s, p, r)
      BY <1>1, <1>2, <3>1, WhatFollows
    <3>. QED  BY <1>4, <3>2 DEF Continues
  <2>. HIDE DEF q
  <2>3. q \in p..Len(s) /\ OccursAt(s, q, Source) /\ i \in 0..Len(w)
    BY <2>2 DEF SameUntil
  <2>4. SameUntil(w, i, s, p, q)
    BY <2>2
  <2>5. /\ Len(Source) = L /\ Len(Inserted \o Source) = K + L
        /\ m \in Nat /\ q \in Nat
    BY <2>2, <2>3, SourceAssumption, InsertedAssumption DEF K, L
  <2>6. Carries(Stage, w, g) /\ OccursAt(w, g, Source) /\ g \in Nat /\ g + L = m + n
    <3>1. CASE Carries(Stage, s, q)
      <4>1. Decided(s, q) = Source /\ n = L
        BY <2>5, <3>1 DEF Decided
      <4>2. OccursAt(w, m, Source)
        BY <2>2, <4>1
      <4>3. g = m
        BY <1>2, <2>4, <4>2, SameHit
      <4>4. Carries(Stage, w, m)
        BY <1>2, <2>1, <2>4, <3>1, <4>2, StillPrefixed
      <4>. QED  BY <2>5, <4>1, <4>2, <4>3, <4>4
    <3>2. CASE ~Carries(Stage, s, q)
      <4>1. Decided(s, q) = Inserted \o Source /\ n = K + L
        BY <2>5, <3>2, StageIs DEF Decided, Replacement
      <4>2. OccursAt(w, m, Inserted \o Source)
        BY <2>2, <4>1
      <4>3. /\ g = i + (q - p) + K
            /\ OccursAt(w, i + (q - p) + K, Source)
            /\ Carries(Stage, w, i + (q - p) + K)
        BY <1>2, <2>4, <4>2, NowPrefixed
      <4>4. i + (q - p) + K = m + K /\ m + K \in Nat /\ (m + K) + L = m + (K + L)
        BY <2>2, <2>3, <2>5, Lengths
      <4>. QED  BY <4>1, <4>3, <4>4
    <3>. QED  BY <3>1, <3>2
  <2>. HIDE DEF g, n, m
  <2>7. Image(q + L, g + L)
    <3>1. /\ L =< g + L /\ L =< q + L /\ (g + L) - L = g /\ (q + L) - L = q
      BY <2>5, <2>6, Lengths
    <3>. QED  BY <2>2, <2>3, <2>6, <3>1
  <2>8. g + L \in T
    BY <2>2, <2>3, <2>6, <2>7
  <2>. QED  BY <2>6, <2>8 DEF g
<1>5. GoesOnIn(T, w)
  BY <1>3, <1>4 DEF GoesOnIn
<1>. HIDE DEF T
<1>6. Rewritten(w) = w
  BY <1>2, <1>5, NothingToDo
<1>. QED  BY <1>2, <1>6

(* Append: no source begins in an inserted suffix. *)
LEMMA NoneInSuffix ==
    ASSUME Mode = "append", InsertsQuietly(Stage),
           NEW w \in Seq(Byte), NEW i \in Nat, OccursAt(w, i, Inserted),
           NEW h \in i..((i + K) - 1)
    PROVE  ~OccursAt(w, h, Source)
<1>. SUFFICES ASSUME OccursAt(w, h, Source) PROVE FALSE
  OBVIOUS
<1>. DEFINE j == h - i
            end == From(Inserted, j)
<1>1. /\ Inserted \in Seq(Byte) /\ Source \in Seq(Byte)
      /\ Len(Inserted) = K /\ Len(Source) = L
      /\ j \in 0..(K - 1) /\ j \in 0..Len(Inserted) /\ K - j \in Nat /\ i + j = h
  BY SourceAssumption, InsertedAssumption, Lengths DEF K, L
<1>2. ~StartsWith(end, Source) /\ ~StartsWith(Source, end)
  BY <1>1, StageIs DEF InsertsQuietly
<1>. HIDE DEF j
<1>3. /\ end \in Seq(Byte) /\ Len(end) = K - j
      /\ \A k \in 1..(K - j) : end[k] = Inserted[j + k]
  BY <1>1, FromSlice
<1>. HIDE DEF end
<1>4. /\ \A k \in 1..K : w[i + k] = Inserted[k]
      /\ \A k \in 1..L : w[h + k] = Source[k]
  BY <1>1 DEF OccursAt
<1>5. \A k \in 1..L : k =< K - j => end[k] = Source[k]
  <2>. SUFFICES ASSUME NEW k \in 1..L, k =< K - j PROVE end[k] = Source[k]
    OBVIOUS
  <2>1. k \in 1..(K - j) /\ j + k \in 1..K /\ i + (j + k) = h + k
    BY <1>1, Lengths
  <2>. QED  BY <1>3, <1>4, <2>1
<1>6. CASE L =< K - j
  <2>1. \A k \in 1..L : end[k] = Source[k]
    BY <1>1, <1>5, <1>6, Lengths
  <2>2. StartsWith(end, Source)
    BY <1>1, <1>3, <1>6, <2>1, StartsIs
  <2>. QED  BY <1>2, <2>2
<1>7. CASE K - j < L
  <2>1. \A k \in 1..(K - j) : Source[k] = end[k]
    BY <1>1, <1>5, <1>7, Lengths
  <2>2. StartsWith(Source, end)
    <3>1. Len(end) =< Len(Source) /\ \A k \in 1..Len(end) : Source[k] = end[k]
      BY <1>1, <1>3, <1>7, <2>1, Lengths
    <3>. QED  BY <1>1, <1>3, <3>1, StartsIs
  <2>. QED  BY <1>2, <2>2
<1>. QED  BY <1>1, <1>6, <1>7, Lengths

(* Append: where w has what the stage returns of s from p on, the next      *)
(* occurrence carries the suffix: it was inserted, or it stood in s after   *)
(* the same occurrence, and was let go as it is.                            *)
LEMMA NowSuffixed ==
    ASSUME Mode = "append", InsertsQuietly(Stage),
           NEW w \in Seq(Byte), NEW s \in Seq(Byte), NEW r, IsRest(r, s, TRUE),
           NEW p \in 0..Len(s), NEW i, Follows(w, i, r[p]), Hits(w, i) # {}
    PROVE  LET g == Leftmost(Hits(w, i))
               q == Leftmost(Hits(s, p))
           IN  /\ Carries(Stage, w, g)
               /\ g + L \in 0..Len(w) /\ q + L \in 0..Len(s)
               /\ \/ Follows(w, g + L, r[q + L])
                  \/ /\ OccursAt(w, g + L, Inserted)
                     /\ Follows(w, (g + L) + K, r[q + L])
<1>. DEFINE q == Leftmost(Hits(s, p))
            m == i + (q - p)
            n == Len(Decided(s, q))
            g == Leftmost(Hits(w, i))
            z == r[q + L]
<1>1. /\ SameUntil(w, i, s, p, q)
      /\ OccursAt(w, m, Decided(s, q))
      /\ m \in 0..Len(w) /\ m + n \in 0..Len(w) /\ q + L \in 0..Len(s)
      /\ Follows(w, m + n, z)
  <2>1. Continues(w, i, s, p, r)
    BY WhatFollows
  <2>. QED  BY <2>1 DEF Continues
<1>. HIDE DEF q
<1>2. /\ q \in Nat /\ OccursAt(s, q, Source) /\ m \in Nat
      /\ z \in Seq(Byte) /\ Source \in Seq(Byte) /\ Inserted \in Seq(Byte)
      /\ Len(Source) = L /\ Len(Inserted) = K
      /\ Len(Source \o Inserted) = L + K
  <2>1. q \in Nat /\ OccursAt(s, q, Source)
    BY <1>1 DEF SameUntil
  <2>2. z \in Seq(Byte)
    BY <1>1 DEF IsRest
  <2>. QED  BY <1>1, <2>1, <2>2, SourceAssumption, InsertedAssumption DEF K, L
<1>3. CASE Carries(Stage, s, q)
  <2>1. Decided(s, q) = Source /\ n = L
    BY <1>2, <1>3 DEF Decided
  <2>2. OccursAt(w, m, Source) /\ Follows(w, m + L, z) /\ m + L \in 0..Len(w)
    BY <1>1, <2>1
  <2>3. OccursAt(s, q + L, Inserted)
    BY <1>3, StageIs DEF Carries, L
  <2>. DEFINE o == q + L
              y == r[o + K]
  <2>4. o \in Nat /\ z = r[o]
    BY <1>1
  <2>. HIDE DEF o, z
  <2>5. o + K =< Len(s) /\ o + K \in 0..Len(s)
    <3>1. o + K =< Len(s)
      BY <1>2, <2>3 DEF OccursAt, o
    <3>. QED  BY <2>4, <3>1, Lengths
  <2>6. MayGo(s, TRUE, o, K)
    <3>1. \A h \in o..(o + K - 1) : ~OccursAt(s, h, Source)
      <4>1. \A h \in o..((o + K) - 1) : ~OccursAt(s, h, Source)
        BY <2>3, <2>4, NoneInSuffix DEF o
      <4>2. (o + K) - 1 = o + K - 1
        BY <2>4, Lengths
      <4>. QED  BY <4>1, <4>2
    <3>2. HeldBack(TRUE) = 0 /\ Len(s) - 0 = Len(s)
      BY DEF HeldBack
    <3>3. o + K =< Len(s) - HeldBack(TRUE)
      BY <2>5, <3>2
    <3>. QED  BY <2>5, <3>1, <3>3 DEF MayGo
  <2>7. Goes(r, s, o, K)
    BY <2>4, <2>6, Lengths, SkipRest
  <2>8. SubSeq(s, o + 1, o + K) = Inserted
    <3>1. OccursAt(s, o, Inserted)
      BY <2>3 DEF o
    <3>. QED  BY <1>2, <2>4, <3>1, LiteralThere
  <2>9. z = Inserted \o y /\ y \in Seq(Byte)
    BY <2>4, <2>5, <2>7, <2>8 DEF Goes, IsRest
  <2>. HIDE DEF y
  <2>10. OccursAt(w, m + L, Inserted)
    BY <1>2, <2>2, <2>9, FollowsSplit
  <2>11. g = m
    BY <1>1, <2>2, SameHit
  <2>12. Carries(Stage, w, m)
    BY <2>10, StageIs DEF Carries, L
  <2>. QED  BY <1>1, <2>2, <2>11, <2>12 DEF q, z
<1>4. CASE ~Carries(Stage, s, q)
  <2>1. Decided(s, q) = Source \o Inserted /\ n = L + K
    BY <1>2, <1>4, StageIs DEF Decided, Replacement
  <2>2. OccursAt(w, m, Source) /\ OccursAt(w, m + L, Inserted)
    <3>1. OccursAt(w, m, Source \o Inserted)
      BY <1>1, <2>1
    <3>. QED  BY <1>2, <3>1, OccursSplit
  <2>3. m + (L + K) = (m + L) + K /\ m + L \in 0..Len(w)
    <3>1. m \in Nat /\ m + (L + K) \in 0..Len(w)
      BY <1>1, <2>1
    <3>. HIDE DEF m
    <3>. QED  BY <3>1, Lengths
  <2>4. Follows(w, (m + L) + K, z)
    BY <1>1, <2>1, <2>3
  <2>5. g = m
    BY <1>1, <2>2, SameHit
  <2>6. Carries(Stage, w, m)
    BY <2>2, StageIs DEF Carries, L
  <2>. QED  BY <1>1, <2>2, <2>3, <2>4, <2>5, <2>6 DEF q
<1>. QED  BY <1>3, <1>4

(* Append: the search goes on in w where it went on in s, or where a suffix *)
(* was inserted before that.                                                *)
LEMMA AppendAgain ==
    ASSUME Mode = "append", InsertsQuietly(Stage), NEW s \in Seq(Byte)
    PROVE  Rewritten(Rewritten(s)) = Rewritten(s)
<1>1. PICK r : IsRest(r, s, TRUE)
  BY ReturnedIs
<1>. DEFINE w == r[0]
            Image(p, i) ==
              \/ Follows(w, i, r[p])
              \/ OccursAt(w, i, Inserted) /\ Follows(w, i + K, r[p])
            T == {i \in 0..Len(w) : \E p \in 0..Len(s) : Image(p, i)}
<1>2. w \in Seq(Byte) /\ Rewritten(s) = w /\ r \in [0..Len(s) -> Seq(Byte)]
  BY <1>1 DEF IsRest, Rewritten
<1>. HIDE DEF w
<1>3. 0 \in T
  <2>1. From(w, 0) = w
    BY <1>2 DEF From
  <2>2. Follows(w, 0, w)
    BY <1>2, <2>1, FollowsFrom
  <2>3. Image(0, 0)
    BY <2>2 DEF w
  <2>. QED  BY <2>3, <1>2
<1>4. ASSUME NEW i \in T, Hits(w, i) # {}
      PROVE  /\ Carries(Stage, w, Leftmost(Hits(w, i)))
             /\ Leftmost(Hits(w, i)) + L \in T
  <2>1. PICK p \in 0..Len(s) : Image(p, i)
    OBVIOUS
  <2>. DEFINE q == Leftmost(Hits(s, p))
  <2>2. ASSUME NEW a, Follows(w, a, r[p]), Hits(w, a) = Hits(w, i)
        PROVE  /\ Carries(Stage, w, Leftmost(Hits(w, i)))
               /\ Leftmost(Hits(w, i)) + L \in T
    <3>. DEFINE g == Leftmost(Hits(w, a))
    <3>1. /\ Carries(Stage, w, g)
          /\ g + L \in 0..Len(w) /\ q + L \in 0..Len(s)
          /\ \/ Follows(w, g + L, r[q + L])
             \/ /\ OccursAt(w, g + L, Inserted)
                /\ Follows(w, (g + L) + K, r[q + L])
      BY <1>1, <1>2, <1>4, <2>2, NowSuffixed
    <3>. HIDE DEF g, q
    <3>2. g + L \in T
      BY <3>1
    <3>3. g = Leftmost(Hits(w, i))
      BY <2>2 DEF g
    <3>. QED  BY <3>1, <3>2, <3>3
  <2>3. CASE Follows(w, i, r[p])
    BY <2>2, <2>3
  <2>4. CASE OccursAt(w, i, Inserted) /\ Follows(w, i + K, r[p])
    <3>1. i \in Nat /\ i + K \in Nat /\ Len(w) \in Nat
      BY <1>2, Lengths
    <3>2. \A h \in i..((i + K) - 1) : ~OccursAt(w, h, Source)
      BY <1>2, <2>4, <3>1, NoneInSuffix
    <3>3. Hits(w, i + K) = Hits(w, i)
      <4>1. ASSUME NEW h \in Hits(w, i) PROVE h \in Hits(w, i + K)
        <5>1. h \in i..Len(w) /\ OccursAt(w, h, Source)
          BY <4>1 DEF Hits
        <5>2. ~(h \in i..((i + K) - 1))
          BY <3>2, <5>1
        <5>3. h \in (i + K)..Len(w)
          BY <3>1, <5>1, <5>2, Lengths
        <5>. QED  BY <5>1, <5>3 DEF Hits
      <4>2. Hits(w, i + K) \subseteq Hits(w, i)
        BY <3>1, Lengths DEF Hits
      <4>. QED  BY <4>1, <4>2
    <3>. QED  BY <2>2, <2>4, <3>3
  <2>. QED  BY <2>1, <2>3, <2>4
<1>5. GoesOnIn(T, w)
  BY <1>3, <1>4 DEF GoesOnIn
<1>. HIDE DEF T
<1>6. Rewritten(w) = w
  BY <1>2, <1>5, NothingToDo
<1>. QED  BY <1>2, <1>6

(* README: every body transform "is idempotent when run again over already  *)
(* rewritten static output".  It is, when to insert the bytes makes no new  *)
(* occurrence of the source: what a literal stage has returned when finish  *)
(* returns, it would return as it is.                                       *)
THEOREM IdempotentWhenQuiet == InsertsQuietly(Stage) => (Spec => []Idempotent)
<1>. SUFFICES ASSUME InsertsQuietly(Stage) PROVE Spec => []Idempotent
  OBVIOUS
<1>1. \A s \in Seq(Byte) : Rewritten(Rewritten(s)) = Rewritten(s)
  BY PrependAgain, AppendAgain, StageIs DEF InsertsQuietly
<1>2. BufferInv /\ OutputIsRewritten => Idempotent
  <2>. SUFFICES ASSUME BufferInv, OutputIsRewritten, Done
                PROVE  Rewritten(output) = output
    BY DEF Idempotent
  <2>1. /\ input \in Seq(Byte) /\ fed = Len(input) /\ finished = TRUE
        /\ phase = "idle"
    BY DEF BufferInv, Done
  <2>2. First(input, fed) = input
    BY <2>1 DEF First
  <2>3. output = Rewritten(input)
    BY <2>1, <2>2 DEF OutputIsRewritten, Rewritten
  <2>. QED  BY <1>1, <2>1, <2>3
<1>. QED  BY <1>2, OutputCorrect, Invariants, PTL
=============================================================================
