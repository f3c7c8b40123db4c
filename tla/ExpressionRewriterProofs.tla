----------------------- MODULE ExpressionRewriterProofs ---------------------
(***************************************************************************)
(* Theorems about ExpressionRewriter, for every set of bytes, every rule   *)
(* of the shape build_response_rewriter gives it, every body and every     *)
(* chunking.                                                               *)
(*                                                                         *)
(* The argument has three parts: what match_candidate says of the bytes    *)
(* that have arrived holds of the whole body, whatever is still to come;   *)
(* previous_byte, which is taken from the output, says the same as the     *)
(* byte of the body before pending; and what has been returned, followed   *)
(* by what becomes of the rest of the body, is the rewritten body.  That a *)
(* second pass changes nothing is then a fact about the rewritten body: a  *)
(* pattern in it would begin in what was written, go on into it, or be a   *)
(* copy of one of the body.                                                *)
(***************************************************************************)
EXTENDS ExpressionRewriter, ByteSlicesProofs

P == Len(Prefix)
S == Len(Suffix)

(* What is known of a rule. *)
RuleInv == rule \in Rules

LEMMA RuleFacts ==
    ASSUME RuleInv
    PROVE  /\ Prefix \in Seq(Byte) /\ P \in Nat /\ P > 0
           /\ Suffix \in Seq(Byte) /\ S \in Nat /\ S > 0
           /\ MemberSyntax \in BOOLEAN
           /\ Template \in Seq(Byte \cup {Marker}) /\ Len(Template) \in Nat
           /\ Len(Template) > 0
           /\ Suffix[1] \notin IdentifierContinue
           /\ MemberSyntax => Suffix[1] # Dot
           /\ Template[Len(Template)] = Suffix[S]
<1>1. /\ Prefix \in Seq(Byte) /\ Len(Prefix) > 0
      /\ Suffix \in Seq(Byte) /\ Len(Suffix) > 0
      /\ MemberSyntax \in BOOLEAN
      /\ Template \in Seq(Byte \cup {Marker}) /\ Len(Template) > 0
  BY RulesAssumption DEF RuleInv, Prefix, Suffix, MemberSyntax, Template
<1>2. /\ Suffix[1] \notin IdentifierContinue
      /\ MemberSyntax => Suffix[1] # Dot
      /\ Template[Len(Template)] = Suffix[Len(Suffix)]
  BY RuleShapeAssumption DEF RuleInv, Prefix, Suffix, MemberSyntax, Template
<1>. QED  BY <1>1, <1>2 DEF P, S

-----------------------------------------------------------------------------
(* Expressions                                                             *)

(* t[a..e] is an expression, whatever comes after it. *)
Expression(t, a, e) ==
    /\ a < e /\ e =< Len(t)
    /\ t[a + 1] \in IdentifierStart
    /\ t[e] # Dot
    /\ \A i \in (a + 1)..e :
         t[i] \in IdentifierContinue \/ (MemberSyntax /\ t[i] = Dot)
    /\ \A i \in (a + 2)..e : t[i - 1] = Dot => t[i] \in IdentifierStart

(* The byte after e does not continue an expression. *)
Stops(t, e) ==
    e < Len(t) => /\ t[e + 1] \notin IdentifierContinue
                  /\ MemberSyntax => t[e + 1] # Dot

(* IsExpression by the offsets in the body. *)
LEMMA IsExpressionIs ==
    ASSUME NEW t \in Seq(Byte), NEW a \in Nat, NEW e \in 0..Len(t)
    PROVE  IsExpression(t, a, e) <=> Expression(t, a, e) /\ Stops(t, e)
<1>. DEFINE text == SubSeq(t, a + 1, e)
            n    == e - a
<1>1. CASE ~(a < e)
  <2>1. Len(text) = 0
    BY <1>1
  <2>. QED  BY <1>1, <2>1 DEF IsExpression, Expression
<1>2. CASE a < e
  <2>1. /\ n \in Nat /\ n > 0 /\ Len(text) = n /\ e \in Nat /\ e =< Len(t)
        /\ a + n = e
        /\ \A i \in 1..n : text[i] = t[a + i]
    BY <1>2
  <2>. HIDE DEF text, n
  <2>. DEFINE starts == {1} \cup {i \in 2..n : text[i - 1] = Dot}
  <2>2. IsExpression(t, a, e) <=>
          /\ \A i \in 1..n : \/ text[i] \in IdentifierContinue
                             \/ MemberSyntax /\ text[i] = Dot
          /\ text[n] # Dot
          /\ \A i \in starts : text[i] \in IdentifierStart
          /\ Stops(t, e)
    BY <2>1 DEF IsExpression, Stops, text
  <2>3. (\A i \in 1..n : \/ text[i] \in IdentifierContinue
                         \/ MemberSyntax /\ text[i] = Dot)
          <=> \A i \in (a + 1)..e :
                t[i] \in IdentifierContinue \/ (MemberSyntax /\ t[i] = Dot)
    <3>1. ASSUME NEW i \in (a + 1)..e
          PROVE  i - a \in 1..n /\ a + (i - a) = i
      BY <2>1
    <3>2. ASSUME NEW i \in 1..n PROVE a + i \in (a + 1)..e
      BY <2>1
    <3>3. \A i \in 1..n : text[i] = t[a + i]
      BY <2>1
    <3>. QED  BY ONLY <3>1, <3>2, <3>3, Zenon
  <2>4. text[n] = t[e]
    BY <2>1
  <2>5. (\A i \in starts : text[i] \in IdentifierStart)
          <=> /\ t[a + 1] \in IdentifierStart
              /\ \A i \in (a + 2)..e : t[i - 1] = Dot => t[i] \in IdentifierStart
    <3>1. text[1] = t[a + 1]
      BY <2>1
    <3>2. ASSUME NEW i \in (a + 2)..e
          PROVE  /\ i - a \in 2..n /\ i - a \in 1..n /\ (i - a) - 1 \in 1..n
                 /\ a + (i - a) = i /\ a + ((i - a) - 1) = i - 1
      BY <2>1
    <3>3. ASSUME NEW i \in 2..n
          PROVE  /\ a + i \in (a + 2)..e /\ (a + i) - 1 = a + (i - 1)
                 /\ i \in 1..n /\ i - 1 \in 1..n
      BY <2>1
    <3>4. ASSUME \A i \in starts : text[i] \in IdentifierStart,
                 NEW i \in (a + 2)..e, t[i - 1] = Dot
          PROVE  t[i] \in IdentifierStart
      <4>1. text[(i - a) - 1] = Dot
        BY <2>1, <3>2, <3>4
      <4>2. i - a \in starts
        BY <3>2, <4>1
      <4>3. text[i - a] \in IdentifierStart
        BY <3>4, <4>2
      <4>. QED  BY <2>1, <3>2, <4>3
    <3>5. ASSUME \A i \in (a + 2)..e : t[i - 1] = Dot => t[i] \in IdentifierStart,
                 NEW i \in 2..n, text[i - 1] = Dot
          PROVE  text[i] \in IdentifierStart
      <4>1. t[(a + i) - 1] = Dot
        BY <2>1, <3>3, <3>5
      <4>2. t[a + i] \in IdentifierStart
        BY <3>3, <3>5, <4>1
      <4>. QED  BY <2>1, <3>3, <4>2
    <3>. QED  BY <3>1, <3>4, <3>5
  <2>. QED  BY <1>2, <2>1, <2>2, <2>3, <2>4, <2>5 DEF Expression
<1>. QED  BY <1>1, <1>2

(* An expression that stops has one end. *)
LEMMA OneEnd ==
    ASSUME NEW t \in Seq(Byte), NEW a \in Nat, NEW e \in Nat, NEW f \in Nat,
           Expression(t, a, e), Stops(t, e), Expression(t, a, f), Stops(t, f)
    PROVE  e = f
<1>1. ASSUME NEW x \in Nat, NEW y \in Nat, x < y,
             Expression(t, a, x), Stops(t, x), Expression(t, a, y)
      PROVE  FALSE
  <2>1. x + 1 \in (a + 1)..y /\ x < Len(t)
    BY <1>1 DEF Expression
  <2>. QED  BY <1>1, <2>1 DEF Expression, Stops
<1>2. ~(e < f) /\ ~(f < e)
  BY <1>1
<1>. QED  BY <1>2

(* An identifier t[a..m], a dot and an expression are an expression. *)
LEMMA Join ==
    ASSUME NEW t \in Seq(Byte), NEW a \in Nat, NEW m \in Nat, NEW e \in Nat,
           a < m, m < Len(t), t[a + 1] \in IdentifierStart,
           \A i \in (a + 1)..m : t[i] \in IdentifierContinue,
           MemberSyntax, t[m + 1] = Dot,
           Expression(t, m + 1, e)
    PROVE  Expression(t, a, e)
<1>1. /\ m + 1 < e /\ e =< Len(t) /\ t[e] # Dot
      /\ t[m + 2] \in IdentifierStart
      /\ \A i \in (m + 2)..e : t[i] \in IdentifierContinue \/ t[i] = Dot
      /\ \A i \in (m + 3)..e : t[i - 1] = Dot => t[i] \in IdentifierStart
  <2>1. (m + 1) + 1 = m + 2 /\ (m + 1) + 2 = m + 3
    OBVIOUS
  <2>. QED  BY <2>1 DEF Expression
<1>2. ASSUME NEW i \in (a + 1)..e
      PROVE  t[i] \in IdentifierContinue \/ t[i] = Dot
  <2>1. i \in (a + 1)..m \/ i = m + 1 \/ i \in (m + 2)..e
    OBVIOUS
  <2>. QED  BY <1>1, <2>1
<1>3. ASSUME NEW i \in (a + 2)..e, t[i - 1] = Dot
      PROVE  t[i] \in IdentifierStart
  <2>1. i - 1 \in (a + 1)..m \/ i = m + 2 \/ i \in (m + 3)..e
    OBVIOUS
  <2>2. ~(i - 1 \in (a + 1)..m)
    BY <1>3, ByteAssumption
  <2>. QED  BY <1>1, <1>3, <2>1, <2>2
<1>. QED  BY <1>1, <1>2, <1>3 DEF Expression

(* The other way: what comes after the dot is an expression. *)
LEMMA Split ==
    ASSUME NEW t \in Seq(Byte), NEW a \in Nat, NEW m \in Nat, NEW e \in Nat,
           a < m, m < Len(t),
           \A i \in (a + 1)..m : t[i] \in IdentifierContinue,
           MemberSyntax, t[m + 1] = Dot,
           Expression(t, a, e), Stops(t, e)
    PROVE  Expression(t, m + 1, e)
<1>1. /\ a < e /\ e =< Len(t) /\ t[e] # Dot
      /\ \A i \in (a + 1)..e : t[i] \in IdentifierContinue \/ t[i] = Dot
      /\ \A i \in (a + 2)..e : t[i - 1] = Dot => t[i] \in IdentifierStart
  BY DEF Expression
<1>2. m < e
  <2>1. ASSUME e =< m PROVE FALSE
    <3>1. e < Len(t)
      BY <2>1
    <3>2. CASE e = m
      BY <3>1, <3>2 DEF Stops
    <3>3. CASE e < m
      <4>1. e + 1 \in (a + 1)..m
        BY <1>1, <3>3
      <4>. QED  BY <3>1, <4>1 DEF Stops
    <3>. QED  BY <2>1, <3>2, <3>3
  <2>. QED  BY <2>1
<1>3. m + 1 < e
  <2>1. e # m + 1
    BY <1>1
  <2>. QED  BY <1>2, <2>1
<1>4. t[(m + 1) + 1] \in IdentifierStart
  <2>1. m + 2 \in (a + 2)..e /\ (m + 2) - 1 = m + 1 /\ (m + 1) + 1 = m + 2
    BY <1>3
  <2>. QED  BY <1>1, <2>1
<1>5. \A i \in ((m + 1) + 1)..e : i \in (a + 1)..e
  OBVIOUS
<1>6. \A i \in ((m + 1) + 2)..e : i \in (a + 2)..e
  OBVIOUS
<1>. QED  BY <1>1, <1>3, <1>4, <1>5, <1>6 DEF Expression

-----------------------------------------------------------------------------
(* scan_identifier_segment and the scan over the dots                      *)

LEMMA IdentifierEndIs ==
    ASSUME NEW s \in Seq(Byte), NEW c \in Nat, c < Len(s),
           s[c + 1] \in IdentifierStart
    PROVE  /\ IdentifierEnd(s, c) \in (c + 1)..Len(s)
           /\ \A i \in (c + 1)..IdentifierEnd(s, c) : s[i] \in IdentifierContinue
           /\ IdentifierEnd(s, c) < Len(s) =>
                s[IdentifierEnd(s, c) + 1] \notin IdentifierContinue
<1>. DEFINE ends == {e \in (c + 1)..Len(s) :
                       e < Len(s) => s[e + 1] \notin IdentifierContinue}
<1>1. Len(s) \in ends /\ ends \in SUBSET Nat
  OBVIOUS
<1>2. PICK e \in ends : \A f \in ends : e =< f
  BY <1>1, LeastNatural
<1>3. e \in (c + 1)..Len(s) /\ (e < Len(s) => s[e + 1] \notin IdentifierContinue)
  BY <1>2
<1>4. ASSUME NEW i \in (c + 1)..e PROVE s[i] \in IdentifierContinue
  <2>1. CASE i = c + 1
    BY <2>1, ByteAssumption
  <2>2. CASE i # c + 1
    <3>1. i - 1 \in (c + 1)..Len(s) /\ i - 1 < Len(s) /\ (i - 1) + 1 = i
          /\ ~(e =< i - 1)
      BY <1>3, <2>2
    <3>2. i - 1 \notin ends
      BY <1>2, <3>1
    <3>. QED  BY <3>1, <3>2
  <2>. QED  BY <2>1, <2>2
<1>. HIDE DEF ends
<1>. DEFINE IsEnd(x) == /\ \A i \in (c + 1)..x : s[i] \in IdentifierContinue
                        /\ x < Len(s) => s[x + 1] \notin IdentifierContinue
<1>5. IsEnd(e)
  BY <1>3, <1>4
<1>6. IdentifierEnd(s, c) = CHOOSE x \in (c + 1)..Len(s) : IsEnd(x)
  BY DEF IdentifierEnd
<1>. HIDE DEF IsEnd
<1>7. IdentifierEnd(s, c) \in (c + 1)..Len(s) /\ IsEnd(IdentifierEnd(s, c))
  BY <1>3, <1>5, <1>6
<1>. QED  BY <1>7 DEF IsEnd

(* What a scan may say. *)
Verdict == [kind : {"NoMatch", "NeedMore", "End"}, at : Nat]

(* The body of the recursion in ScanExpression. *)
ScanAt(s, c, scan) ==
    IF c = Len(s) THEN Open ELSE
    IF s[c + 1] \notin IdentifierStart THEN NoMatch ELSE
    LET e == IdentifierEnd(s, c)
    IN  IF MemberSyntax /\ e < Len(s) /\ s[e + 1] = Dot
           THEN scan[e + 1] ELSE Ends(e)

LEMMA ScanExpressionIs ==
    ASSUME NEW s \in Seq(Byte), NEW start \in 0..Len(s)
    PROVE  \E scan \in [0..Len(s) -> Verdict] :
             /\ \A c \in 0..Len(s) : scan[c] = ScanAt(s, c, scan)
             /\ ScanExpression(s, start) = scan[start]
<1>. DEFINE l    == Len(s)
            F    == [0..l -> Verdict]
            Step == [c \in 0..l |-> [g \in F |-> ScanAt(s, c, g)]]
<1>1. l \in Nat /\ Open \in Verdict /\ NoMatch \in Verdict /\ Verdict # {}
  <2>1. NoMatch \in Verdict /\ NeedMore \in Verdict
    BY DEF NoMatch, NeedMore, Verdict
  <2>2. Open = NoMatch \/ Open = NeedMore
    BY DEF Open
  <2>. QED  BY <2>1, <2>2
<1>2. ASSUME NEW c \in 0..l, NEW g \in F PROVE ScanAt(s, c, g) \in Verdict
  <2>1. CASE c = l
    BY <1>1, <2>1 DEF ScanAt
  <2>2. CASE c # l /\ s[c + 1] \notin IdentifierStart
    BY <1>1, <2>2 DEF ScanAt
  <2>3. CASE c # l /\ s[c + 1] \in IdentifierStart
    <3>. DEFINE e == IdentifierEnd(s, c)
    <3>1. e \in (c + 1)..l
      BY <2>3, IdentifierEndIs
    <3>. HIDE DEF e
    <3>2. Ends(e) \in Verdict
      BY <3>1 DEF Ends, Verdict
    <3>3. e < l => g[e + 1] \in Verdict
      BY <3>1
    <3>4. ScanAt(s, c, g) = IF MemberSyntax /\ e < l /\ s[e + 1] = Dot
                               THEN g[e + 1] ELSE Ends(e)
      BY <2>3 DEF ScanAt, e
    <3>. QED  BY <3>2, <3>3, <3>4
  <2>. QED  BY <2>1, <2>2, <2>3
<1>3. ASSUME NEW c \in 0..l, NEW g, NEW h, \A q \in (c + 1)..l : g[q] = h[q]
      PROVE  ScanAt(s, c, g) = ScanAt(s, c, h)
  <2>1. CASE c = l
    BY <2>1 DEF ScanAt
  <2>2. CASE c # l /\ s[c + 1] \notin IdentifierStart
    BY <2>2 DEF ScanAt
  <2>3. CASE c # l /\ s[c + 1] \in IdentifierStart
    <3>. DEFINE e == IdentifierEnd(s, c)
    <3>1. e \in (c + 1)..l
      BY <2>3, IdentifierEndIs
    <3>. HIDE DEF e
    <3>2. e < l => g[e + 1] = h[e + 1]
      BY <1>3, <3>1
    <3>. QED  BY <2>3, <3>2 DEF ScanAt, e
  <2>. QED  BY <2>1, <2>2, <2>3
<1>4. PICK f \in F : \A c \in 0..l : f[c] = ScanAt(s, c, f)
  <2>1. Step \in [0..l -> [F -> Verdict]]
    BY <1>2
  <2>2. \A c \in 0..l : \A g \in F : Step[c][g] = ScanAt(s, c, g)
    OBVIOUS
  <2>. HIDE DEF Step
  <2>3. ASSUME NEW c \in 0..l, NEW g \in F, NEW h \in F,
               \A q \in (c + 1)..l : g[q] = h[q]
        PROVE  Step[c][g] = Step[c][h]
    <3>1. ScanAt(s, c, g) = ScanAt(s, c, h)
      BY <1>3, <2>3
    <3>. QED  BY <2>2, <3>1
  <2>. HIDE DEF l
  <2>4. \E f \in F : \A c \in 0..l : f[c] = Step[c][f]
    <3>1. IsDownward(Step, Verdict, l)
      BY <1>1, <2>1, <2>3 DEF IsDownward
    <3>. QED  BY ONLY <3>1, DownwardRecursion, SMT DEF F
  <2>. QED  BY <2>2, <2>4
<1>5. f = [c \in 0..l |-> ScanAt(s, c, f)]
  BY <1>4
<1>6. \E g : /\ g = [c \in 0..l |-> ScanAt(s, c, g)]
             /\ ScanExpression(s, start) = g[start]
  BY <1>5, Zenon DEF ScanExpression, ScanAt
<1>7. PICK g : /\ g = [c \in 0..l |-> ScanAt(s, c, g)]
               /\ ScanExpression(s, start) = g[start]
  BY <1>6
<1>8. \A c \in 0..l : g[c] = ScanAt(s, c, g)
  BY <1>7
<1>9. \A c \in 0..l : g[c] = f[c]
  <2>. DEFINE T == {c \in 0..l : g[c] = f[c]}
  <2>1. ASSUME NEW c \in 0..l, \A q \in (c + 1)..l : q \in T PROVE c \in T
    <3>1. \A q \in (c + 1)..l : g[q] = f[q]
      BY <2>1
    <3>2. ScanAt(s, c, g) = ScanAt(s, c, f)
      BY <1>3, <3>1
    <3>. QED  BY <1>4, <1>8, <3>2
  <2>. HIDE DEF T, l
  <2>2. 0..l \subseteq T
    BY <1>1, <2>1, DownwardInduction
  <2>. QED  BY <2>2 DEF T
<1>10. ScanExpression(s, start) = f[start]
  BY <1>1, <1>7, <1>9
<1>. QED  BY <1>4, <1>10

(* s is what has arrived of the body t from offset b on, and all of it when *)
(* finish has been called.                                                  *)
Arrived(s, t, b) ==
    /\ b + Len(s) =< Len(t)
    /\ \A i \in 1..Len(s) : s[i] = t[b + i]
    /\ finished => b + Len(s) = Len(t)

(* What a scan that says v for the expression from offset c on of s says of *)
(* the body.                                                                *)
SaysOfBody(v, s, c, t, b) ==
    /\ v.kind = "End" =>
         /\ v.at \in (c + 1)..Len(s)
         /\ Expression(t, b + c, b + v.at)
         /\ v.at < Len(s) => Stops(t, b + v.at)
    /\ v.kind = "NoMatch" =>
         \A e \in Nat : ~(Expression(t, b + c, e) /\ Stops(t, e))
    /\ v.kind = "NeedMore" =>
         /\ ~finished
         /\ b + Len(s) < Len(t) /\ t[b + Len(s) + 1] \in IdentifierStart =>
              Expression(t, b + c, b + Len(s) + 1)

(* The scan that goes on behind a dot says of the whole expression what it  *)
(* says of the part behind the dot.                                         *)
LEMMA ScanGoesOn ==
    ASSUME NEW s \in Seq(Byte), NEW t \in Seq(Byte), NEW b \in Nat,
           Arrived(s, t, b),
           NEW c \in Nat, NEW m \in Nat, c < m, m < Len(s),
           s[c + 1] \in IdentifierStart,
           \A i \in (c + 1)..m : s[i] \in IdentifierContinue,
           MemberSyntax, s[m + 1] = Dot,
           NEW v, SaysOfBody(v, s, m + 1, t, b)
    PROVE  SaysOfBody(v, s, c, t, b)
<1>. DEFINE a == b + c
            n == b + m
<1>1. /\ a \in Nat /\ n \in Nat /\ a < n /\ n < Len(t)
      /\ t[a + 1] \in IdentifierStart /\ t[n + 1] = Dot
  <2>1. /\ b + Len(s) =< Len(t) /\ Len(s) \in Nat /\ Len(t) \in Nat
        /\ \A i \in 1..Len(s) : s[i] = t[b + i]
    BY DEF Arrived
  <2>2. c + 1 \in 1..Len(s) /\ m + 1 \in 1..Len(s)
        /\ b + (c + 1) = a + 1 /\ b + (m + 1) = n + 1
    BY <2>1
  <2>. QED  BY <2>1, <2>2, SMTT(30)
<1>2. ASSUME NEW i \in (a + 1)..n PROVE t[i] \in IdentifierContinue
  <2>1. /\ i - b \in (c + 1)..m /\ i - b \in 1..Len(s) /\ b + (i - b) = i
    OBVIOUS
  <2>. QED  BY <2>1 DEF Arrived
<1>3. b + (m + 1) = n + 1 /\ (c + 1)..Len(s) \in SUBSET Nat
      /\ (m + 2)..Len(s) \subseteq (c + 1)..Len(s) /\ (m + 1) + 1 = m + 2
  OBVIOUS
<1>. HIDE DEF a, n
<1>4. ASSUME NEW e \in Nat, Expression(t, n + 1, e) PROVE Expression(t, a, e)
  BY <1>1, <1>2, <1>4, Join
<1>5. ASSUME NEW e \in Nat, Expression(t, a, e), Stops(t, e)
      PROVE  Expression(t, n + 1, e)
  BY <1>1, <1>2, <1>5, Split
<1>6. v.kind = "End" =>
        /\ v.at \in (c + 1)..Len(s)
        /\ Expression(t, a, b + v.at)
        /\ v.at < Len(s) => Stops(t, b + v.at)
  <2>. SUFFICES ASSUME v.kind = "End"
                PROVE  /\ v.at \in (c + 1)..Len(s)
                       /\ Expression(t, a, b + v.at)
                       /\ v.at < Len(s) => Stops(t, b + v.at)
    OBVIOUS
  <2>1. /\ v.at \in (m + 2)..Len(s)
        /\ Expression(t, n + 1, b + v.at)
        /\ v.at < Len(s) => Stops(t, b + v.at)
    BY <1>3 DEF SaysOfBody
  <2>2. b + v.at \in Nat
    BY <2>1
  <2>. QED  BY <1>3, <1>4, <2>1, <2>2
<1>7. v.kind = "NoMatch" => \A e \in Nat : ~(Expression(t, a, e) /\ Stops(t, e))
  BY <1>3, <1>5 DEF SaysOfBody
<1>8. v.kind = "NeedMore" =>
        /\ ~finished
        /\ b + Len(s) < Len(t) /\ t[b + Len(s) + 1] \in IdentifierStart =>
             Expression(t, a, b + Len(s) + 1)
  <2>1. b + Len(s) + 1 \in Nat
    OBVIOUS
  <2>. QED  BY <1>3, <1>4, <2>1 DEF SaysOfBody
<1>. QED  BY <1>6, <1>7, <1>8 DEF SaysOfBody, a

(* What the scan says of what has arrived, it says of the body.             *)
LEMMA ScanCorrect ==
    ASSUME NEW s \in Seq(Byte), NEW t \in Seq(Byte), NEW b \in Nat,
           Arrived(s, t, b), MemberSyntax \in BOOLEAN,
           NEW start \in 0..Len(s)
    PROVE  /\ ScanExpression(s, start) \in Verdict
           /\ SaysOfBody(ScanExpression(s, start), s, start, t, b)
<1>1. PICK scan \in [0..Len(s) -> Verdict] :
         /\ \A c \in 0..Len(s) : scan[c] = ScanAt(s, c, scan)
         /\ ScanExpression(s, start) = scan[start]
  BY ScanExpressionIs
<1>. DEFINE l == Len(s)
            T == {c \in 0..l : SaysOfBody(scan[c], s, c, t, b)}
<1>0. /\ l \in Nat /\ b + l =< Len(t) /\ Len(t) \in Nat
      /\ \A i \in 1..l : s[i] = t[b + i]
      /\ finished => b + l = Len(t)
  BY DEF Arrived
<1>2. ASSUME NEW c \in 0..l, \A q \in (c + 1)..l : SaysOfBody(scan[q], s, q, t, b)
      PROVE  SaysOfBody(scan[c], s, c, t, b)
  <2>0. scan[c] = ScanAt(s, c, scan)
    BY <1>1
  <2>1. CASE c = l
    <3>1. scan[c] = Open
      BY <2>0, <2>1 DEF ScanAt
    <3>2. CASE finished
      <4>1. scan[c] = NoMatch
        BY <3>1, <3>2 DEF Open
      <4>2. ASSUME NEW e \in Nat PROVE ~Expression(t, b + c, e)
        BY <1>0, <2>1, <3>2 DEF Expression
      <4>. QED  BY <4>1, <4>2 DEF SaysOfBody, NoMatch
    <3>3. CASE ~finished
      <4>1. scan[c] = NeedMore
        BY <3>1, <3>3 DEF Open
      <4>2. ASSUME b + l < Len(t), t[b + l + 1] \in IdentifierStart
            PROVE  Expression(t, b + c, b + l + 1)
        <5>1. /\ b + c < b + l + 1 /\ b + l + 1 =< Len(t)
              /\ (b + c) + 1 = b + l + 1
          BY <1>0, <2>1, <4>2
        <5>2. t[b + l + 1] \in IdentifierContinue /\ t[b + l + 1] # Dot
          BY <4>2, ByteAssumption
        <5>3. \A i \in ((b + c) + 1)..(b + l + 1) : i = b + l + 1
          BY <1>0, <2>1
        <5>4. \A i \in ((b + c) + 2)..(b + l + 1) : FALSE
          BY <1>0, <2>1
        <5>. QED  BY <4>2, <5>1, <5>2, <5>3, <5>4 DEF Expression
      <4>. QED  BY <3>3, <4>1, <4>2 DEF SaysOfBody, NeedMore
    <3>. QED  BY <3>2, <3>3
  <2>2. CASE c # l /\ s[c + 1] \notin IdentifierStart
    <3>1. scan[c] = NoMatch
      BY <2>0, <2>2 DEF ScanAt
    <3>2. t[(b + c) + 1] \notin IdentifierStart
      <4>1. c + 1 \in 1..l /\ b + (c + 1) = (b + c) + 1
        BY <1>0, <2>2
      <4>. QED  BY <1>0, <2>2, <4>1
    <3>. QED  BY <3>1, <3>2 DEF SaysOfBody, NoMatch, Expression
  <2>3. CASE c # l /\ s[c + 1] \in IdentifierStart
    <3>. DEFINE m == IdentifierEnd(s, c)
    <3>1. /\ m \in (c + 1)..l
          /\ \A i \in (c + 1)..m : s[i] \in IdentifierContinue
          /\ m < l => s[m + 1] \notin IdentifierContinue
          /\ c \in Nat /\ c < l
      BY <1>0, <2>3, IdentifierEndIs
    <3>2. scan[c] = IF MemberSyntax /\ m < l /\ s[m + 1] = Dot
                       THEN scan[m + 1] ELSE Ends(m)
      BY <2>0, <2>3 DEF ScanAt
    <3>. HIDE DEF m
    <3>3. m \in Nat /\ c < m /\ m =< l
      BY <1>0, <3>1
    <3>4. CASE MemberSyntax /\ m < l /\ s[m + 1] = Dot
      <4>1. m + 1 \in (c + 1)..l
        BY <3>3, <3>4
      <4>2. SaysOfBody(scan[m + 1], s, m + 1, t, b)
        BY <1>2, <4>1
      <4>3. SaysOfBody(scan[m + 1], s, c, t, b)
        BY <2>3, <3>1, <3>3, <3>4, <4>2, ScanGoesOn
      <4>. QED  BY <3>2, <3>4, <4>3
    <3>5. CASE ~(MemberSyntax /\ m < l /\ s[m + 1] = Dot)
      <4>1. scan[c] = Ends(m)
        BY <3>2, <3>5
      <4>2. Expression(t, b + c, b + m)
        <5>1. ASSUME NEW i \in ((b + c) + 1)..(b + m)
              PROVE  t[i] \in IdentifierContinue
          <6>1. i - b \in (c + 1)..m /\ i - b \in 1..l /\ b + (i - b) = i
            BY <1>0, <3>3
          <6>. QED  BY <1>0, <3>1, <6>1
        <5>2. t[(b + c) + 1] \in IdentifierStart
          <6>1. c + 1 \in 1..l /\ b + (c + 1) = (b + c) + 1
            BY <1>0, <3>1
          <6>. QED  BY <1>0, <2>3, <6>1
        <5>3. b + c < b + m /\ b + m =< Len(t) /\ b + m \in ((b + c) + 1)..(b + m)
          BY <1>0, <3>1, <3>3
        <5>4. Dot \notin IdentifierContinue
          BY ByteAssumption
        <5>5. \A i \in ((b + c) + 2)..(b + m) : i - 1 \in ((b + c) + 1)..(b + m)
          BY <1>0, <3>3
        <5>. QED  BY <5>1, <5>2, <5>3, <5>4, <5>5 DEF Expression
      <4>3. ASSUME m < l PROVE Stops(t, b + m)
        <5>1. m + 1 \in 1..l /\ b + (m + 1) = (b + m) + 1
          BY <1>0, <3>3, <4>3
        <5>. QED  BY <1>0, <3>1, <3>5, <4>3, <5>1 DEF Stops
      <4>. QED  BY <3>1, <4>1, <4>2, <4>3 DEF SaysOfBody, Ends
    <3>. QED  BY <3>4, <3>5
  <2>. QED  BY <2>1, <2>2, <2>3
<1>3. ASSUME NEW c \in 0..l, \A q \in (c + 1)..l : q \in T PROVE c \in T
  <2>1. \A q \in (c + 1)..l : SaysOfBody(scan[q], s, q, t, b)
    BY <1>3
  <2>. QED  BY <1>2, <2>1
<1>4. 0..l \subseteq T
  <2>. HIDE DEF T, l
  <2>. QED  BY <1>0, <1>3, DownwardInduction
<1>. QED  BY <1>1, <1>4

-----------------------------------------------------------------------------
(* match_candidate                                                         *)

(* A literal that has arrived is in the body. *)
LEMMA OccursArrived ==
    ASSUME NEW s \in Seq(Byte), NEW t \in Seq(Byte), NEW b \in Nat,
           Arrived(s, t, b), NEW p \in Nat, NEW w \in Seq(Byte),
           p + Len(w) =< Len(s)
    PROVE  OccursAt(s, p, w) <=> OccursAt(t, b + p, w)
<1>1. /\ Len(w) \in Nat /\ Len(s) \in Nat /\ Len(t) \in Nat
      /\ b + p + Len(w) =< Len(t)
      /\ \A i \in 1..Len(s) : s[i] = t[b + i]
  BY DEF Arrived
<1>2. ASSUME NEW k \in 1..Len(w) PROVE s[p + k] = t[b + p + k]
  <2>1. p + k \in 1..Len(s) /\ b + (p + k) = b + p + k
    BY <1>1
  <2>. QED  BY <1>1, <2>1
<1>. QED  BY <1>1, <1>2 DEF OccursAt

(* The bytes behind the expression, compared with the suffix. *)
LEMMA AfterIs ==
    ASSUME NEW s \in Seq(Byte), NEW t \in Seq(Byte), NEW b \in Nat,
           Arrived(s, t, b), NEW e \in 0..Len(s), NEW w \in Seq(Byte)
    PROVE  /\ Len(From(s, e)) = Len(s) - e
           /\ StartsWith(From(s, e), w)
                <=> e + Len(w) =< Len(s) /\ OccursAt(t, b + e, w)
           /\ StartsWith(w, From(s, e))
                <=> /\ Len(s) - e =< Len(w)
                    /\ \A k \in 1..(Len(s) - e) : t[b + e + k] = w[k]
<1>. DEFINE after == From(s, e)
            n     == Len(s) - e
<1>1. /\ Len(w) \in Nat /\ Len(s) \in Nat /\ Len(t) \in Nat /\ e \in Nat
      /\ n \in Nat /\ e + n = Len(s) /\ b + e + n =< Len(t)
      /\ \A i \in 1..Len(s) : s[i] = t[b + i]
  BY DEF Arrived
<1>2. Len(after) = n /\ \A k \in 1..n : after[k] = s[e + k]
  BY FromSlice
<1>. HIDE DEF after, n
<1>3. ASSUME NEW k \in 1..n PROVE after[k] = t[b + e + k]
  <2>1. e + k \in 1..Len(s) /\ b + (e + k) = b + e + k
    BY <1>1
  <2>. QED  BY <1>1, <1>2, <2>1
<1>4. StartsWith(after, w) <=> e + Len(w) =< Len(s) /\ OccursAt(t, b + e, w)
  <2>1. StartsWith(after, w)
          <=> Len(w) =< n /\ \A k \in 1..Len(w) : after[k] = w[k]
    BY <1>1, <1>2 DEF StartsWith, OccursAt
  <2>2. Len(w) =< n <=> e + Len(w) =< Len(s)
    BY <1>1
  <2>3. ASSUME Len(w) =< n
        PROVE  OccursAt(t, b + e, w) <=> \A k \in 1..Len(w) : after[k] = w[k]
    <3>1. b + e + Len(w) =< Len(t) /\ 1..Len(w) \subseteq 1..n
      BY <1>1, <2>3
    <3>. QED  BY <1>3, <3>1 DEF OccursAt
  <2>. QED  BY <2>1, <2>2, <2>3
<1>5. StartsWith(w, after)
        <=> n =< Len(w) /\ \A k \in 1..n : t[b + e + k] = w[k]
  <2>1. StartsWith(w, after)
          <=> n =< Len(w) /\ \A k \in 1..n : w[k] = after[k]
    BY <1>1, <1>2 DEF StartsWith, OccursAt
  <2>. QED  BY <1>3, <2>1
<1>. QED  BY <1>2, <1>4, <1>5 DEF after, n

(* The body has one pattern at an offset. *)
LEMMA IsPatternIs ==
    ASSUME NEW s \in Seq(Byte), RuleInv, NEW p \in Nat, NEW e \in 0..Len(s)
    PROVE  IsPattern(s, p, e) <=>
             /\ OccursAt(s, p, Prefix)
             /\ Expression(s, p + P, e) /\ Stops(s, e)
             /\ OccursAt(s, e, Suffix)
             /\ p > 0 => s[p] \notin IdentifierContinue
<1>1. p + P \in Nat
  BY RuleFacts
<1>2. IsExpression(s, p + P, e) <=> Expression(s, p + P, e) /\ Stops(s, e)
  BY <1>1, IsExpressionIs
<1>. QED  BY <1>2 DEF IsPattern, P

LEMMA OnePattern ==
    ASSUME NEW s \in Seq(Byte), RuleInv, NEW p \in Nat,
           NEW e \in (p + 1)..Len(s), IsPattern(s, p, e)
    PROVE  PatternAt(s, p) /\ ExpressionEnd(s, p) = e
<1>1. p + P \in Nat
  BY RuleFacts
<1>2. ASSUME NEW f \in (p + 1)..Len(s), IsPattern(s, p, f) PROVE f = e
  <2>1. e \in 0..Len(s) /\ f \in 0..Len(s)
    OBVIOUS
  <2>2. /\ Expression(s, p + P, e) /\ Stops(s, e)
        /\ Expression(s, p + P, f) /\ Stops(s, f)
    BY <1>2, <2>1, IsPatternIs
  <2>3. e \in Nat /\ f \in Nat
    OBVIOUS
  <2>. QED  BY <1>1, <2>2, <2>3, OneEnd
<1>3. ExpressionEnd(s, p) \in (p + 1)..Len(s) /\ IsPattern(s, p, ExpressionEnd(s, p))
  BY DEF ExpressionEnd
<1>. QED  BY <1>2, <1>3 DEF PatternAt

(* previous_byte is a byte of the output; what matters of it is what it     *)
(* says of the byte of the body before pending.                             *)
BufferInv ==
    /\ RuleInv
    /\ input \in Seq(Byte)
    /\ fed \in 0..Len(input)
    /\ base \in 0..fed
    /\ pending = SubSeq(input, base + 1, fed)
    /\ finished \in BOOLEAN
    /\ finished => fed = Len(input)
    /\ phase \in {"idle", "scan"}

PreviousInv ==
    /\ previous_byte \in Byte \cup {None}
    /\ previous_byte \in IdentifierContinue
         <=> base > 0 /\ input[base] \in IdentifierContinue

LEMMA PendingArrived ==
    ASSUME BufferInv
    PROVE  /\ pending \in Seq(Byte) /\ Len(pending) = fed - base
           /\ Arrived(pending, input, base)
           /\ input \in Seq(Byte) /\ base \in Nat /\ fed \in Nat
           /\ Len(input) \in Nat /\ fed =< Len(input) /\ base =< fed
<1>1. /\ input \in Seq(Byte) /\ base \in Nat /\ fed \in Nat
      /\ Len(input) \in Nat /\ fed =< Len(input) /\ base =< fed
  BY DEF BufferInv
<1>2. /\ pending \in Seq(Byte) /\ Len(pending) = fed - base
      /\ \A i \in 1..(fed - base) : pending[i] = input[base + i]
  BY <1>1 DEF BufferInv
<1>3. base + Len(pending) = fed
  BY <1>1, <1>2
<1>. QED  BY <1>1, <1>2, <1>3 DEF Arrived, BufferInv

(* What match_candidate says of a prefix at the beginning of pending holds  *)
(* of the body.                                                             *)
LEMMA CandidateIs ==
    ASSUME BufferInv, PreviousInv, OccursAt(pending, 0, Prefix)
    PROVE  /\ Candidate.kind \in {"NoMatch", "NeedMore", "End"}
           /\ Candidate.kind = "End" =>
                /\ Candidate.at \in (P + 1)..Len(pending)
                /\ Candidate.at + S =< Len(pending)
                /\ IsPattern(input, base, base + Candidate.at)
           /\ Candidate.kind = "NoMatch" => ~PatternAt(input, base)
<1>. DEFINE s   == pending
            t   == input
            end == ScanExpression(pending, P)
            e   == end.at
            after == From(pending, end.at)
<1>1. /\ s \in Seq(Byte) /\ t \in Seq(Byte) /\ base \in Nat /\ Len(s) \in Nat
      /\ Len(t) \in Nat /\ Arrived(s, t, base) /\ base + Len(s) =< Len(t)
      /\ RuleInv /\ finished \in BOOLEAN
  <2>1. /\ pending \in Seq(Byte) /\ Len(pending) = fed - base
        /\ Arrived(pending, input, base)
        /\ input \in Seq(Byte) /\ base \in Nat /\ fed \in Nat
        /\ Len(input) \in Nat /\ fed =< Len(input) /\ base =< fed
    BY PendingArrived, Zenon
  <2>2. Len(pending) \in Nat /\ base + Len(pending) =< Len(input)
    BY ONLY <2>1
  <2>3. RuleInv /\ finished \in BOOLEAN
    BY Zenon DEF BufferInv
  <2>. QED  BY <2>1, <2>2, <2>3, Zenon
<1>2. /\ Prefix \in Seq(Byte) /\ P \in Nat /\ P > 0 /\ P = Len(Prefix)
      /\ Suffix \in Seq(Byte) /\ S \in Nat /\ S > 0 /\ S = Len(Suffix)
      /\ MemberSyntax \in BOOLEAN
  BY <1>1, RuleFacts DEF P, S
<1>3. P \in 0..Len(s) /\ OccursAt(t, base, Prefix)
  <2>1. P =< Len(s)
    BY <1>2 DEF OccursAt
  <2>2. base + 0 = base
    BY <1>1
  <2>. QED  BY <1>1, <1>2, <2>1, <2>2, OccursArrived
<1>4. end \in Verdict /\ SaysOfBody(end, s, P, t, base)
  BY <1>1, <1>2, <1>3, ScanCorrect
<1>5. CASE previous_byte \in IdentifierContinue
  <2>1. Candidate = NoMatch
    BY <1>5 DEF Candidate
  <2>2. base > 0 /\ t[base] \in IdentifierContinue
    BY <1>5 DEF PreviousInv
  <2>3. ~PatternAt(t, base)
    BY <2>2 DEF PatternAt, IsPattern
  <2>. QED  BY <2>1, <2>3 DEF NoMatch
<1>6. CASE previous_byte \notin IdentifierContinue
  <2>0. base > 0 => t[base] \notin IdentifierContinue
    BY <1>6 DEF PreviousInv
  <2>1. Candidate = IF end.kind = "End" /\ ~StartsWith(after, Suffix)
                       THEN IF Len(after) < Len(Suffix) /\ StartsWith(Suffix, after)
                               THEN Open ELSE NoMatch
                       ELSE end
    BY <1>6 DEF Candidate, MatchCandidate, P
  <2>2. ASSUME NEW f \in (base + 1)..Len(t), IsPattern(t, base, f)
        PROVE  /\ Expression(t, base + P, f) /\ Stops(t, f)
               /\ OccursAt(t, f, Suffix) /\ f \in Nat
    <3>1. f \in 0..Len(t) /\ f \in Nat
      BY <1>1
    <3>. QED  BY <1>1, <2>2, <3>1, IsPatternIs
  <2>. HIDE DEF s, t, end
  <2>3. CASE end.kind # "End"
    <3>1. Candidate = end /\ end.kind \in {"NoMatch", "NeedMore"}
      BY <1>4, <2>1, <2>3 DEF Verdict
    <3>2. end.kind = "NoMatch" => ~PatternAt(t, base)
      BY <1>4, <2>2 DEF SaysOfBody, PatternAt
    <3>. QED  BY <3>1, <3>2 DEF t
  <2>4. CASE end.kind = "End"
    <3>1. /\ e \in (P + 1)..Len(s) /\ Expression(t, base + P, base + e)
          /\ e < Len(s) => Stops(t, base + e)
      BY <1>4, <2>4 DEF SaysOfBody
    <3>. HIDE DEF e
    <3>2. /\ Len(after) = Len(s) - e
          /\ StartsWith(after, Suffix)
               <=> e + S =< Len(s) /\ OccursAt(t, base + e, Suffix)
          /\ StartsWith(Suffix, after)
               <=> /\ Len(s) - e =< S
                   /\ \A k \in 1..(Len(s) - e) : t[base + e + k] = Suffix[k]
      <4>1. e \in 0..Len(s)
        BY <1>1, <1>2, <3>1
      <4>2. after = From(s, e)
        BY DEF after, e, s
      <4>. HIDE DEF after
      <4>3. /\ Len(From(s, e)) = Len(s) - e
            /\ StartsWith(From(s, e), Suffix)
                 <=> e + Len(Suffix) =< Len(s) /\ OccursAt(t, base + e, Suffix)
            /\ StartsWith(Suffix, From(s, e))
                 <=> /\ Len(s) - e =< Len(Suffix)
                     /\ \A k \in 1..(Len(s) - e) : t[base + e + k] = Suffix[k]
        <5>1. /\ s \in Seq(Byte) /\ t \in Seq(Byte) /\ base \in Nat
              /\ Arrived(s, t, base) /\ Suffix \in Seq(Byte)
          BY <1>1, <1>2
        <5>. QED  BY ONLY <4>1, <5>1, AfterIs
      <4>. QED  BY <1>2, <4>2, <4>3
    <3>. HIDE DEF after
    <3>3. ASSUME NEW f \in (base + 1)..Len(t), IsPattern(t, base, f),
                 Stops(t, base + e)
          PROVE  OccursAt(t, base + e, Suffix)
      <4>1. f = base + e
        <5>1. base + P \in Nat /\ base + e \in Nat
          BY <1>1, <1>2, <3>1
        <5>. QED  BY <1>1, <2>2, <3>1, <3>3, <5>1, OneEnd
      <4>. QED  BY <2>2, <3>3, <4>1
    <3>4. CASE StartsWith(after, Suffix)
      <4>1. Candidate = end
        BY <2>1, <3>4
      <4>2. e < Len(s) /\ base + e \in (base + 1)..Len(t) /\ base + e \in 0..Len(t)
        <5>1. e + S =< Len(s)
          BY <3>2, <3>4, Zenon
        <5>2. e \in (P + 1)..Len(s)
          BY <3>1
        <5>3. /\ base \in Nat /\ Len(s) \in Nat /\ Len(t) \in Nat
              /\ base + Len(s) =< Len(t) /\ P \in Nat /\ S \in Nat /\ S > 0
          BY <1>1, <1>2
        <5>. QED  BY ONLY <5>1, <5>2, <5>3
      <4>3. IsPattern(t, base, base + e)
        BY <1>1, <1>3, <2>0, <3>1, <3>2, <3>4, <4>2, IsPatternIs DEF s, t
      <4>. QED  BY <2>4, <3>1, <3>2, <3>4, <4>1, <4>3 DEF s, t, e
    <3>5. CASE ~StartsWith(after, Suffix)
      <4>1. CASE Len(after) < S /\ StartsWith(Suffix, after)
        <5>1. Candidate = Open
          BY <1>2, <2>1, <2>4, <3>5, <4>1
        <5>2. CASE finished
          <6>1. Candidate.kind = "NoMatch"
            BY <5>1, <5>2 DEF Open, NoMatch
          <6>2. base + Len(s) = Len(t)
            BY <1>1, <5>2 DEF Arrived
          <6>3. Stops(t, base + e)
            BY <1>1, <3>1, <6>2 DEF Stops
          <6>4. ~OccursAt(t, base + e, Suffix)
            BY <1>1, <1>2, <3>1, <3>2, <4>1, <6>2 DEF OccursAt
          <6>. QED  BY <6>1, <3>3, <6>3, <6>4 DEF PatternAt, t
        <5>3. CASE ~finished
          BY <5>1, <5>3 DEF Open, NeedMore
        <5>. QED  BY <5>2, <5>3
      <4>2. CASE ~(Len(after) < S /\ StartsWith(Suffix, after))
        <5>1. Candidate.kind = "NoMatch"
          BY <1>2, <2>1, <2>4, <3>5, <4>2 DEF NoMatch
        <5>2. e < Len(s)
          <6>1. ASSUME e = Len(s) PROVE FALSE
            <7>1. Len(s) - e = 0
              BY <1>1, <6>1
            <7>2. Len(after) < S /\ Len(s) - e =< S
                  /\ \A k \in 1..(Len(s) - e) : FALSE
              BY <1>2, <3>2, <7>1
            <7>. QED  BY <3>2, <4>2, <7>2
          <6>. QED  BY <1>1, <1>2, <3>1, <6>1
        <5>3. ~OccursAt(t, base + e, Suffix)
          <6>1. CASE Len(after) >= S
            <7>1. e + S =< Len(s)
              BY <1>1, <1>2, <3>1, <3>2, <6>1
            <7>. QED  BY <3>2, <3>5, <7>1
          <6>2. CASE Len(after) < S
            <7>1. Len(s) - e =< S
              BY <1>1, <1>2, <3>1, <3>2, <6>2
            <7>2. PICK k \in 1..(Len(s) - e) : t[base + e + k] # Suffix[k]
              BY <3>2, <4>2, <6>2, <7>1
            <7>3. k \in 1..S
              BY <1>1, <1>2, <3>1, <7>1
            <7>. QED  BY <1>2, <7>2, <7>3 DEF OccursAt
          <6>3. Len(after) \in Int
            BY <1>1, <3>1, <3>2
          <6>. QED  BY <1>2, <6>1, <6>2, <6>3
        <5>. QED  BY <3>1, <3>3, <5>1, <5>2, <5>3 DEF PatternAt, t
      <4>. QED  BY <4>1, <4>2
    <3>. QED  BY <3>4, <3>5
  <2>. QED  BY <2>3, <2>4
<1>. QED  BY <1>5, <1>6

(* Some rest of the body makes a pattern of bytes that match_candidate wants *)
(* more of.                                                                  *)
LEMMA NeedMoreCompletes ==
    ASSUME BufferInv, OccursAt(pending, 0, Prefix), Candidate.kind = "NeedMore"
    PROVE  \E b \in IdentifierStart, n \in 0..Len(Suffix) :
             \E whole \in {pending \o From(Suffix, n),
                           pending \o <<b>> \o Suffix} :
               PatternAt(whole, 0)
<1>. DEFINE s   == pending
            end == ScanExpression(pending, P)
            e   == end.at
            after == From(pending, end.at)
            l   == Len(s)
<1>1. /\ s \in Seq(Byte) /\ l \in Nat /\ RuleInv /\ finished \in BOOLEAN
  BY PendingArrived DEF BufferInv
<1>2. /\ Prefix \in Seq(Byte) /\ P \in Nat /\ P > 0 /\ P = Len(Prefix)
      /\ Suffix \in Seq(Byte) /\ S \in Nat /\ S > 0 /\ S = Len(Suffix)
      /\ MemberSyntax \in BOOLEAN
      /\ Suffix[1] \notin IdentifierContinue
      /\ MemberSyntax => Suffix[1] # Dot
  BY <1>1, RuleFacts DEF P, S
<1>3. P \in 0..l
  <2>1. P =< l
    BY <1>2 DEF OccursAt
  <2>. QED  BY <1>1, <1>2, <2>1
<1>4. Candidate = IF end.kind = "End" /\ ~StartsWith(after, Suffix)
                     THEN IF Len(after) < Len(Suffix) /\ StartsWith(Suffix, after)
                             THEN Open ELSE NoMatch
                     ELSE end
  BY DEF Candidate, MatchCandidate, P, NoMatch
(* t continues pending and has the suffix at offset f, where an expression  *)
(* from P on ends.                                                          *)
<1>5. ASSUME ~finished, NEW t \in Seq(Byte), l =< Len(t),
             \A i \in 1..l : t[i] = s[i]
      PROVE  /\ Arrived(s, t, 0)
             /\ end \in Verdict /\ SaysOfBody(end, s, P, t, 0)
             /\ \A f \in Nat : Expression(t, P, f) /\ Stops(t, f)
                                 /\ OccursAt(t, f, Suffix) => PatternAt(t, 0)
  <2>1. Arrived(s, t, 0)
    <3>1. \A i \in 1..l : 0 + i = i
      OBVIOUS
    <3>. QED  BY <1>1, <1>5, <3>1 DEF Arrived
  <2>2. OccursAt(t, 0, Prefix)
    <3>1. 0 + P =< l
      BY <1>3
    <3>. QED  BY <1>1, <1>2, <2>1, <3>1, OccursArrived
  <2>3. end \in Verdict /\ SaysOfBody(end, s, P, t, 0)
    BY <1>1, <1>2, <1>3, <2>1, ScanCorrect
  <2>4. ASSUME NEW f \in Nat, Expression(t, P, f), Stops(t, f),
               OccursAt(t, f, Suffix)
        PROVE  PatternAt(t, 0)
    <3>1. f \in (0 + 1)..Len(t) /\ f \in 0..Len(t) /\ 0 + P = P
      BY <1>2, <2>4 DEF Expression
    <3>2. IsPattern(t, 0, f)
      BY <1>1, <2>2, <2>4, <3>1, IsPatternIs
    <3>. QED  BY <3>1, <3>2 DEF PatternAt
  <2>. QED  BY <2>1, <2>3, <2>4
<1>6. PICK b \in IdentifierStart : b \in Byte
  BY RuleShapeAssumption, ByteAssumption
<1>. HIDE DEF s, end, l
<1>7. CASE end.kind = "NeedMore"
  <2>. DEFINE t == s \o <<b>> \o Suffix
  <2>1. /\ t \in Seq(Byte) /\ Len(t) = l + 1 + S
        /\ \A i \in 1..l : t[i] = s[i]
        /\ t[l + 1] = b
        /\ \A k \in 1..S : t[l + 1 + k] = Suffix[k]
    BY <1>1, <1>2, <1>6 DEF l
  <2>. HIDE DEF t
  <2>2. ~finished
    <3>1. SaysOfBody(end, pending, P, input, base)
      BY <1>1, <1>2, <1>3, PendingArrived, ScanCorrect DEF end, s, l
    <3>. QED  BY <1>7, <3>1 DEF SaysOfBody
  <2>3. l =< Len(t)
    BY <1>1, <1>2, <2>1
  <2>4. SaysOfBody(end, s, P, t, 0)
    BY <1>5, <2>1, <2>2, <2>3
  <2>5. 0 + Len(s) < Len(t) /\ 0 + Len(s) + 1 = l + 1 /\ 0 + P = P
    BY <1>1, <1>2, <2>1 DEF l
  <2>6. Expression(t, P, l + 1)
    BY <1>7, <2>1, <2>4, <2>5 DEF SaysOfBody
  <2>7. t[(l + 1) + 1] = Suffix[1]
    BY <1>2, <2>1
  <2>8. Stops(t, l + 1)
    BY <1>2, <2>7 DEF Stops
  <2>9. OccursAt(t, l + 1, Suffix)
    BY <1>1, <1>2, <2>1 DEF OccursAt
  <2>10. PatternAt(t, 0)
    <3>1. l + 1 \in Nat
      BY <1>1
    <3>. QED  BY <1>5, <2>1, <2>2, <2>3, <2>6, <2>8, <2>9, <3>1
  <2>11. 0 \in 0..Len(Suffix)
    BY <1>2
  <2>. QED  BY <2>10, <2>11 DEF t, s
<1>8. CASE end.kind # "NeedMore"
  <2>1. /\ end.kind = "End" /\ ~finished
        /\ Len(after) < S /\ StartsWith(Suffix, after)
    BY <1>2, <1>4, <1>8 DEF Open, NoMatch, NeedMore
  <2>. DEFINE n == l - e
              t == s \o From(Suffix, n)
  <2>2. e \in (P + 1)..l
    <3>1. SaysOfBody(end, s, P, s, 0)
      BY <1>1, <1>5, <2>1 DEF l
    <3>. QED  BY <2>1, <3>1 DEF SaysOfBody, l
  <2>3. Arrived(s, s, 0)
    BY <1>1, <1>5, <2>1 DEF l
  <2>. HIDE DEF e
  <2>4. /\ Len(after) = n
        /\ n < S
        /\ \A k \in 1..n : s[e + k] = Suffix[k]
    <3>1. e \in 0..Len(s)
      BY <1>1, <1>2, <2>2 DEF l
    <3>2. /\ Len(From(s, e)) = l - e
          /\ StartsWith(Suffix, From(s, e))
               <=> /\ l - e =< S
                   /\ \A k \in 1..(l - e) : s[0 + e + k] = Suffix[k]
      BY <1>1, <1>2, <2>3, <3>1, AfterIs, SMTT(30) DEF l
    <3>3. \A k \in 1..(l - e) : 0 + e + k = e + k
      BY <2>2
    <3>4. after = From(s, e)
      BY DEF e, s
    <3>. QED  BY <2>1, <3>2, <3>3, <3>4
  <2>5. n \in 0..S /\ n \in Nat /\ e \in Nat /\ e + n = l
    BY <1>1, <1>2, <2>2, <2>4
  <2>. HIDE DEF n, after
  <2>6. /\ From(Suffix, n) \in Seq(Byte) /\ Len(From(Suffix, n)) = S - n
        /\ \A k \in 1..(S - n) : From(Suffix, n)[k] = Suffix[n + k]
    BY <1>2, <2>5, FromSlice
  <2>7. /\ t \in Seq(Byte) /\ Len(t) = e + S
        /\ \A i \in 1..l : t[i] = s[i]
        /\ \A k \in 1..(S - n) : t[l + k] = Suffix[n + k]
    <3>. DEFINE r == From(Suffix, n)
    <3>1. r \in Seq(Byte) /\ Len(r) = S - n /\ s \in Seq(Byte) /\ Len(s) = l
      BY <1>1, <2>6 DEF l
    <3>2. \A k \in 1..(S - n) : r[k] = Suffix[n + k]
      BY <2>6
    <3>. HIDE DEF r
    <3>3. /\ s \o r \in Seq(Byte) /\ Len(s \o r) = l + (S - n)
          /\ \A i \in 1..l : (s \o r)[i] = s[i]
          /\ \A k \in 1..(S - n) : (s \o r)[l + k] = r[k]
      <4>1. S - n \in Nat
        BY <1>2, <2>5
      <4>. HIDE DEF s, l
      <4>2. /\ s \o r \in Seq(Byte) /\ Len(s \o r) = Len(s) + Len(r)
            /\ \A i \in 1..(Len(s) + Len(r)) :
                 (s \o r)[i] = IF i =< Len(s) THEN s[i] ELSE r[i - Len(s)]
        BY ONLY <3>1, ConcatProperties
      <4>3. ASSUME NEW i \in 1..l PROVE (s \o r)[i] = s[i]
        <5>1. i \in 1..(Len(s) + Len(r)) /\ i =< Len(s)
          BY <1>1, <3>1, <4>1
        <5>. QED  BY ONLY <4>2, <5>1
      <4>4. ASSUME NEW k \in 1..(S - n) PROVE (s \o r)[l + k] = r[k]
        <5>1. /\ l + k \in 1..(Len(s) + Len(r)) /\ ~(l + k =< Len(s))
              /\ (l + k) - Len(s) = k
          BY <1>1, <3>1, <4>1
        <5>. QED  BY ONLY <4>2, <5>1
      <4>. QED  BY <3>1, <4>2, <4>3, <4>4
    <3>4. l + (S - n) = e + S
      BY <1>2, <2>5
    <3>. QED  BY <3>2, <3>3, <3>4 DEF r
  <2>. HIDE DEF t
  <2>8. ASSUME NEW k \in 1..S PROVE t[e + k] = Suffix[k]
    <3>1. CASE k =< n
      <4>1. k \in 1..n /\ e + k \in 1..l
        BY <1>1, <2>2, <2>5, <3>1
      <4>. QED  BY <2>4, <2>7, <4>1
    <3>2. CASE k > n
      <4>1. k - n \in 1..(S - n) /\ l + (k - n) = e + k /\ n + (k - n) = k
        BY <1>2, <2>5, <3>2
      <4>. QED  BY <2>7, <4>1
    <3>. QED  BY <2>5, <3>1, <3>2
  <2>9. l =< Len(t)
    BY <1>1, <1>2, <2>5, <2>7
  <2>10. SaysOfBody(end, s, P, t, 0)
    BY <1>5, <2>1, <2>7, <2>9
  <2>11. Expression(t, P, e) /\ (e < l => Stops(t, e))
    <3>1. 0 + P = P /\ 0 + e = e
      BY <1>2, <2>5
    <3>. QED  BY <2>1, <2>10, <3>1 DEF SaysOfBody, e, l
  <2>12. Stops(t, e)
    <3>1. CASE e = l
      <4>1. t[e + 1] = Suffix[1]
        BY <1>2, <2>8
      <4>. QED  BY <1>2, <4>1 DEF Stops
    <3>. QED  BY <1>1, <2>2, <2>11, <3>1
  <2>13. OccursAt(t, e, Suffix)
    BY <1>2, <2>5, <2>7, <2>8 DEF OccursAt
  <2>14. PatternAt(t, 0)
    BY <1>5, <2>1, <2>5, <2>7, <2>9, <2>11, <2>12, <2>13
  <2>15. n \in 0..Len(Suffix)
    BY <1>2, <2>5
  <2>. QED  BY <1>6, <2>14, <2>15 DEF t, s
<1>. QED  BY <1>7, <1>8
-----------------------------------------------------------------------------
(* render_identifier_template                                              *)

(* The body of the recursion in Render. *)
RenderAt(expression, i, render) ==
    IF i = 0 THEN <<>> ELSE
    render[i - 1] \o
      (IF Template[i] = Marker THEN expression ELSE <<Template[i]>>)

(* The last byte that is written is the last of the suffix, whatever the    *)
(* template and the expression: it says of the bytes to come what the last  *)
(* byte of the pattern says.                                                *)
LEMMA RenderIs ==
    ASSUME RuleInv, NEW x \in Seq(Byte)
    PROVE  /\ Render(x) \in Seq(Byte)
           /\ Len(Render(x)) \in Nat /\ Len(Render(x)) > 0
           /\ Render(x)[Len(Render(x))] = Suffix[S]
<1>. DEFINE l    == Len(Template)
            F    == [0..l -> Seq(Byte)]
            Step == [i \in 0..l |-> [g \in F |-> RenderAt(x, i, g)]]
            Piece(i) == IF Template[i] = Marker THEN x ELSE <<Template[i]>>
<1>1. /\ l \in Nat /\ l > 0 /\ Seq(Byte) # {}
      /\ Template \in Seq(Byte \cup {Marker})
      /\ Template[l] = Suffix[S] /\ Suffix[S] \in Byte
  <2>1. /\ Template \in Seq(Byte \cup {Marker}) /\ l \in Nat /\ l > 0
        /\ Template[l] = Suffix[S]
    BY RuleFacts
  <2>2. Suffix \in Seq(Byte) /\ S \in 1..Len(Suffix)
    BY RuleFacts DEF S
  <2>3. Suffix[S] \in Byte
    BY ONLY <2>2
  <2>4. Seq(Byte) # {}
    OBVIOUS
  <2>. QED  BY <2>1, <2>3, <2>4
<1>2. ASSUME NEW i \in 1..l PROVE Piece(i) \in Seq(Byte)
  <2>1. Template[i] \in Byte \cup {Marker}
    BY <1>1
  <2>. QED  BY <2>1
<1>3. ASSUME NEW i \in 0..l, NEW g \in F PROVE RenderAt(x, i, g) \in Seq(Byte)
  <2>1. CASE i = 0
    BY <2>1 DEF RenderAt
  <2>2. CASE i # 0
    <3>1. i \in 1..l /\ i - 1 \in 0..l
      BY <1>1, <2>2
    <3>2. g[i - 1] \in Seq(Byte) /\ Piece(i) \in Seq(Byte)
      BY <1>2, <3>1
    <3>3. RenderAt(x, i, g) = g[i - 1] \o Piece(i)
      BY <2>2 DEF RenderAt
    <3>. HIDE DEF Piece
    <3>. QED  BY <3>2, <3>3
  <2>. QED  BY <2>1, <2>2
<1>4. ASSUME NEW i \in 0..l, NEW g, NEW h, \A q \in 0..(i - 1) : g[q] = h[q]
      PROVE  RenderAt(x, i, g) = RenderAt(x, i, h)
  <2>1. CASE i = 0
    BY <2>1 DEF RenderAt
  <2>2. CASE i # 0
    <3>1. i - 1 \in 0..(i - 1)
      BY <1>1, <2>2
    <3>. QED  BY <1>4, <2>2, <3>1 DEF RenderAt
  <2>. QED  BY <2>1, <2>2
<1>5. PICK f \in F : \A i \in 0..l : f[i] = RenderAt(x, i, f)
  <2>1. Step \in [0..l -> [F -> Seq(Byte)]]
    BY <1>3
  <2>2. \A i \in 0..l : \A g \in F : Step[i][g] = RenderAt(x, i, g)
    OBVIOUS
  <2>. HIDE DEF Step
  <2>3. ASSUME NEW i \in 0..l, NEW g \in F, NEW h \in F,
               \A q \in 0..(i - 1) : g[q] = h[q]
        PROVE  Step[i][g] = Step[i][h]
    <3>1. RenderAt(x, i, g) = RenderAt(x, i, h)
      BY <1>4, <2>3
    <3>. QED  BY <2>2, <3>1
  <2>. HIDE DEF l
  <2>4. \E f \in F : \A i \in 0..l : f[i] = Step[i][f]
    <3>1. IsUpward(Step, Seq(Byte), l)
      BY <1>1, <2>1, <2>3 DEF IsUpward
    <3>. QED  BY ONLY <3>1, UpwardRecursion, SMT DEF F
  <2>. QED  BY <2>2, <2>4
<1>6. f = [i \in 0..l |-> RenderAt(x, i, f)]
  BY <1>5
<1>7. \E g : g = [i \in 0..l |-> RenderAt(x, i, g)] /\ Render(x) = g[l]
  BY <1>6, Zenon DEF Render, RenderBy, RenderAt, Template
<1>8. PICK g : g = [i \in 0..l |-> RenderAt(x, i, g)] /\ Render(x) = g[l]
  BY <1>7
<1>9. \A i \in 0..l : g[i] = RenderAt(x, i, g)
  BY <1>8
<1>10. \A i \in 0..l : g[i] = f[i]
  <2>. DEFINE T == {i \in Nat : i =< l => g[i] = f[i]}
  <2>1. ASSUME NEW i \in Nat, \A q \in 0..(i - 1) : q \in T, i =< l
        PROVE  g[i] = f[i]
    <3>1. i \in 0..l /\ \A q \in 0..(i - 1) : g[q] = f[q]
      BY <1>1, <2>1
    <3>2. RenderAt(x, i, g) = RenderAt(x, i, f)
      BY <1>4, <3>1
    <3>. QED  BY <1>5, <1>9, <3>1, <3>2
  <2>2. ASSUME NEW i \in Nat, \A q \in 0..(i - 1) : q \in T PROVE i \in T
    BY <2>1, <2>2
  <2>. HIDE DEF T
  <2>3. Nat \subseteq T
    BY <2>2, StrongInduction
  <2>. QED  BY <2>3 DEF T
<1>11. Render(x) = f[l - 1] \o <<Suffix[S]>>
  <2>1. l \in 0..l /\ l # 0
    BY <1>1
  <2>2. Render(x) = f[l]
    BY <1>8, <1>10, <2>1
  <2>3. Template[l] # Marker
    BY <1>1, ByteAssumption
  <2>4. f[l] = RenderAt(x, l, f)
    BY <1>5, <2>1
  <2>. HIDE DEF l
  <2>. QED  BY <1>1, <2>1, <2>2, <2>3, <2>4 DEF RenderAt
<1>12. f[l - 1] \in Seq(Byte)
  <2>1. l - 1 \in 0..l
    BY <1>1
  <2>. QED  BY <2>1
<1>. DEFINE begin == f[l - 1]
            last  == Suffix[S]
<1>13. begin \in Seq(Byte) /\ last \in Byte /\ Render(x) = begin \o <<last>>
  BY <1>1, <1>11, <1>12
<1>. HIDE DEF begin, last
<1>14. /\ begin \o <<last>> \in Seq(Byte)
       /\ Len(begin \o <<last>>) = Len(begin) + 1 /\ Len(begin) \in Nat
       /\ (begin \o <<last>>)[Len(begin) + 1] = last
  BY ONLY <1>13
<1>. QED  BY <1>13, <1>14 DEF last
-----------------------------------------------------------------------------
(* The buffer                                                              *)

(* Bytes leave pending from its beginning. *)
LEMMA Drop ==
    ASSUME BufferInv, NEW n \in 0..Len(pending),
           pending' = From(pending, n), base' = base + n,
           rule' = rule, input' = input, fed' = fed, finished' = finished,
           phase' \in {"idle", "scan"}
    PROVE  BufferInv'
<1>1. /\ input \in Seq(Byte) /\ base \in Nat /\ fed \in Nat
      /\ Len(input) \in Nat /\ fed =< Len(input) /\ base =< fed
      /\ n \in 0..(fed - base) /\ pending = SubSeq(input, base + 1, fed)
  BY PendingArrived DEF BufferInv
<1>2. pending' = SubSeq(input, base + n + 1, fed)
  BY <1>1, Shrink
<1>3. base + n \in 0..fed
  BY <1>1
<1>. QED  BY <1>2, <1>3 DEF BufferInv, RuleInv

(* How far pending can be emptied in each iteration: there is no pattern in *)
(* what goes out as it is.                                                  *)
LEMMA LetGoIsFree ==
    ASSUME BufferInv, NEW n \in 0..Len(pending),
           \A q \in 0..(n - 1) : ~OccursAt(pending, q, Prefix),
           finished \/ n + P =< Len(pending) + 1
    PROVE  \A r \in base..(base + n - 1) : ~PatternAt(input, r)
<1>1. /\ pending \in Seq(Byte) /\ input \in Seq(Byte) /\ base \in Nat
      /\ Len(pending) \in Nat /\ Len(input) \in Nat
      /\ Arrived(pending, input, base)
      /\ finished => base + Len(pending) = Len(input)
      /\ Prefix \in Seq(Byte) /\ P \in Nat /\ P = Len(Prefix)
  BY PendingArrived, RuleFacts DEF BufferInv, Arrived, P
<1>. SUFFICES ASSUME NEW r \in base..(base + n - 1) PROVE ~PatternAt(input, r)
  OBVIOUS
<1>2. r - base \in 0..(n - 1) /\ r - base \in Nat /\ base + (r - base) = r
  BY <1>1
<1>3. CASE (r - base) + P =< Len(pending)
  <2>1. ~OccursAt(input, base + (r - base), Prefix)
    BY <1>1, <1>2, <1>3, OccursArrived
  <2>. QED  BY <1>2, <2>1 DEF PatternAt, IsPattern
<1>4. CASE ~((r - base) + P =< Len(pending))
  <2>1. finished
    BY <1>1, <1>2, <1>4
  <2>2. ~(r + P =< Len(input))
    BY <1>1, <1>2, <1>4, <2>1
  <2>3. ~OccursAt(input, r, Prefix)
    BY <1>1, <2>2 DEF OccursAt
  <2>. QED  BY <2>3 DEF PatternAt, IsPattern
<1>. QED  BY <1>3, <1>4

LEMMA SkipIsFree ==
    ASSUME BufferInv, NEW p \in 1..Len(pending), SkipToPrefix(p)
    PROVE  /\ p \in 0..Len(pending)
           /\ \A r \in base..(base + p - 1) : ~PatternAt(input, r)
<1>1. /\ OccursAt(pending, p, Prefix)
      /\ \A q \in 0..(p - 1) : ~OccursAt(pending, q, Prefix)
  BY DEF SkipToPrefix, FindsAt
<1>2. p \in 0..Len(pending) /\ Len(pending) \in Nat
  BY PendingArrived
<1>3. p + P =< Len(pending) + 1
  <2>1. p + P =< Len(pending) /\ P \in Nat
    BY <1>1, RuleFacts DEF OccursAt, P, BufferInv
  <2>. QED  BY <1>2, <2>1
<1>. QED  BY <1>1, <1>2, <1>3, LetGoIsFree

LEMMA RejectIsFree ==
    ASSUME BufferInv, PreviousInv, Reject
    PROVE  /\ 1 \in 0..Len(pending)
           /\ \A r \in base..(base + 1 - 1) : ~PatternAt(input, r)
<1>1. OccursAt(pending, 0, Prefix) /\ Candidate.kind = "NoMatch"
  BY DEF Reject
<1>2. ~PatternAt(input, base)
  BY <1>1, CandidateIs
<1>3. 1 \in 0..Len(pending)
  <2>1. 0 + P =< Len(pending) /\ P \in Nat /\ P > 0 /\ Len(pending) \in Nat
    BY <1>1, RuleFacts, PendingArrived DEF OccursAt, P, BufferInv
  <2>. QED  BY <2>1
<1>4. ASSUME NEW r \in base..(base + 1 - 1) PROVE r = base
  BY PendingArrived
<1>. QED  BY <1>2, <1>3, <1>4

LEMMA TailIsFree ==
    ASSUME BufferInv, EmitTail
    PROVE  /\ EmitLength \in 0..Len(pending)
           /\ \A r \in base..(base + EmitLength - 1) : ~PatternAt(input, r)
           /\ Len(pending) - EmitLength < P
           /\ finished => base + EmitLength = Len(input)
<1>1. /\ Len(pending) \in Nat /\ P \in Nat /\ P > 0 /\ P = Len(Prefix)
      /\ base \in Nat
      /\ finished => base + Len(pending) = Len(input)
  BY PendingArrived, RuleFacts DEF P, BufferInv, Arrived
<1>2. \A q \in 0..Len(pending) : ~OccursAt(pending, q, Prefix)
  BY DEF EmitTail, Found
<1>3. /\ EmitLength \in 0..Len(pending)
      /\ finished \/ EmitLength + P =< Len(pending) + 1 \/ EmitLength = 0
      /\ Len(pending) - EmitLength < P
      /\ finished => EmitLength = Len(pending)
  BY <1>1 DEF EmitLength
<1>4. \A q \in 0..(EmitLength - 1) : ~OccursAt(pending, q, Prefix)
  <2>1. ASSUME NEW q \in 0..(EmitLength - 1) PROVE q \in 0..Len(pending)
    BY <1>1, <1>3
  <2>. QED  BY <1>2, <2>1
<1>5. CASE EmitLength = 0
  <2>1. ASSUME NEW r \in base..(base + EmitLength - 1) PROVE FALSE
    BY <1>1, <1>5
  <2>. QED  BY <1>1, <1>3, <2>1
<1>6. CASE EmitLength # 0
  <2>1. \A r \in base..(base + EmitLength - 1) : ~PatternAt(input, r)
    BY <1>3, <1>4, <1>6, LetGoIsFree
  <2>. QED  BY <1>1, <1>3, <2>1
<1>. QED  BY <1>5, <1>6

(* A match: the pattern is in the body, its expression in pending. *)
LEMMA MatchIs ==
    ASSUME BufferInv, PreviousInv, OccursAt(pending, 0, Prefix),
           Candidate.kind = "End"
    PROVE  /\ Candidate.at \in Nat /\ base + Candidate.at \in (base + 1)..Len(input)
           /\ Candidate.at + S \in 1..Len(pending)
           /\ IsPattern(input, base, base + Candidate.at)
           /\ PatternAt(input, base)
           /\ ExpressionEnd(input, base) = base + Candidate.at
           /\ SubSeq(pending, P + 1, Candidate.at)
                = SubSeq(input, base + P + 1, base + Candidate.at)
           /\ SubSeq(pending, P + 1, Candidate.at) \in Seq(Byte)
<1>. DEFINE e == Candidate.at
            s == pending
            t == input
            l == Len(pending)
<1>1. /\ s \in Seq(Byte) /\ t \in Seq(Byte) /\ base \in Nat /\ l \in Nat
      /\ Len(t) \in Nat /\ base + l =< Len(t) /\ Len(s) = l
      /\ \A i \in 1..l : s[i] = t[base + i]
      /\ RuleInv
  <2>1. /\ pending \in Seq(Byte) /\ Len(pending) = fed - base
        /\ Arrived(pending, input, base)
        /\ input \in Seq(Byte) /\ base \in Nat /\ fed \in Nat
        /\ Len(input) \in Nat /\ fed =< Len(input) /\ base =< fed
    BY PendingArrived, Zenon
  <2>2. l \in Nat /\ base + l =< Len(input)
    BY ONLY <2>1
  <2>3. \A i \in 1..l : pending[i] = input[base + i]
    BY ONLY <2>1, Zenon DEF Arrived
  <2>4. RuleInv
    BY Zenon DEF BufferInv
  <2>. QED  BY <2>1, <2>2, <2>3, <2>4, Zenon
<1>2. P \in Nat /\ P > 0 /\ S \in Nat /\ S > 0
  BY <1>1, RuleFacts
<1>3. e \in (P + 1)..l /\ e + S =< l /\ IsPattern(t, base, base + e)
  BY CandidateIs
<1>. HIDE DEF e, s, t, l
<1>4. e \in Nat /\ base + e \in (base + 1)..Len(t) /\ e + S \in 1..l
  BY <1>1, <1>2, <1>3
<1>5. PatternAt(t, base) /\ ExpressionEnd(t, base) = base + e
  BY <1>1, <1>3, <1>4, OnePattern
<1>6. /\ SubSeq(s, P + 1, e) \in Seq(Byte)
      /\ Len(SubSeq(s, P + 1, e)) = e - P
      /\ \A i \in 1..(e - P) : SubSeq(s, P + 1, e)[i] = s[P + i]
  BY <1>1, <1>2, <1>3
<1>7. /\ SubSeq(t, base + P + 1, base + e) \in Seq(Byte)
      /\ Len(SubSeq(t, base + P + 1, base + e)) = e - P
      /\ \A i \in 1..(e - P) :
           SubSeq(t, base + P + 1, base + e)[i] = t[base + P + i]
  BY <1>1, <1>2, <1>3, <1>4
<1>8. ASSUME NEW i \in 1..(e - P) PROVE s[P + i] = t[base + P + i]
  <2>1. P + i \in 1..l /\ base + (P + i) = base + P + i
    BY <1>1, <1>2, <1>3
  <2>. QED  BY <1>1, <2>1
<1>9. SubSeq(s, P + 1, e) = SubSeq(t, base + P + 1, base + e)
  <2>. DEFINE a == SubSeq(s, P + 1, e)
              b == SubSeq(t, base + P + 1, base + e)
              n == e - P
  <2>1. a \in Seq(Byte) /\ b \in Seq(Byte) /\ Len(a) = n /\ Len(b) = n
        /\ \A i \in 1..n : a[i] = b[i]
    BY <1>6, <1>7, <1>8
  <2>. HIDE DEF a, b, n
  <2>2. a = b
    BY ONLY <2>1, SeqEqual
  <2>. QED  BY <2>2 DEF a, b
<1>. QED  BY <1>3, <1>4, <1>5, <1>6, <1>9 DEF e, s, t, l

(* match_candidate gives up or decides once the whole body has arrived. *)
LEMMA WaitsForMore ==
    ASSUME BufferInv, OccursAt(pending, 0, Prefix), Candidate.kind = "NeedMore"
    PROVE  ~finished
<1>. DEFINE end == ScanExpression(pending, P)
<1>1. P \in 0..Len(pending) /\ MemberSyntax \in BOOLEAN
  <2>1. 0 + P =< Len(pending) /\ P \in Nat
    BY RuleFacts DEF OccursAt, P, BufferInv
  <2>. QED  BY <2>1, PendingArrived, RuleFacts DEF BufferInv
<1>2. SaysOfBody(end, pending, P, input, base)
  BY <1>1, PendingArrived, ScanCorrect
<1>3. CASE Candidate = end
  BY <1>2, <1>3 DEF SaysOfBody
<1>4. CASE Candidate # end
  <2>1. Candidate = NoMatch \/ Candidate = Open
    BY <1>4 DEF Candidate, MatchCandidate, P
  <2>. QED  BY <2>1 DEF Open, NoMatch
<1>. QED  BY <1>3, <1>4
-----------------------------------------------------------------------------
(* The inductive invariant: pending and previous_byte                      *)

(* Emit keeps previous_byte in step with the body. *)
LEMMA EmitKeeps ==
    ASSUME BufferInv, PreviousInv, NEW n \in 0..Len(pending), Emit(n),
           phase' \in {"idle", "scan"}
    PROVE  BufferInv' /\ PreviousInv'
<1>1. BufferInv'
  BY Drop DEF Emit, given
<1>2. /\ base \in Nat /\ n \in Nat /\ Len(pending) \in Nat /\ input' = input
      /\ pending \in Seq(Byte)
      /\ \A i \in 1..Len(pending) : pending[i] = input[base + i]
      /\ base' = base + n
      /\ previous_byte' = IF n > 0 THEN pending[n] ELSE previous_byte
  BY PendingArrived DEF Arrived, Emit, given
<1>3. CASE n = 0
  <2>1. base' = base /\ previous_byte' = previous_byte
    BY <1>2, <1>3
  <2>. QED  BY <1>1, <1>2, <2>1 DEF PreviousInv
<1>4. CASE n # 0
  <2>1. n \in 1..Len(pending) /\ n > 0 /\ base + n > 0
    BY <1>2, <1>4
  <2>2. previous_byte' = input[base + n] /\ previous_byte' \in Byte
    BY <1>2, <2>1
  <2>. QED  BY <1>1, <1>2, <2>1, <2>2 DEF PreviousInv
<1>. QED  BY <1>3, <1>4

(* So does a match, the last byte of which the template keeps. *)
LEMMA MatchKeeps ==
    ASSUME BufferInv, PreviousInv, RewriteMatch
    PROVE  BufferInv' /\ PreviousInv'
<1>. DEFINE e   == Candidate.at
            n   == e + Len(Suffix)
            new == Render(SubSeq(pending, Len(Prefix) + 1, e))
<1>1. OccursAt(pending, 0, Prefix) /\ Candidate.kind = "End"
  BY DEF RewriteMatch
<1>2. /\ e \in Nat /\ n \in 1..Len(pending) /\ IsPattern(input, base, base + e)
      /\ SubSeq(pending, Len(Prefix) + 1, e) \in Seq(Byte)
  BY <1>1, MatchIs DEF P, S
<1>3. /\ pending' = From(pending, n) /\ base' = base + e + Len(Suffix)
      /\ previous_byte' = new[Len(new)]
      /\ rule' = rule /\ input' = input /\ fed' = fed /\ finished' = finished
      /\ phase' = "scan"
  BY DEF RewriteMatch, given
<1>4. /\ base \in Nat /\ S \in Nat /\ S > 0 /\ S = Len(Suffix)
      /\ Suffix \in Seq(Byte) /\ RuleInv
  BY RuleFacts DEF BufferInv, S
<1>5. new[Len(new)] = Suffix[S]
  BY <1>2, <1>4, RenderIs
<1>. HIDE DEF e, new
<1>6. n \in 0..Len(pending) /\ base' = base + n
  BY <1>2, <1>3, <1>4
<1>. HIDE DEF n
<1>7. BufferInv'
  BY <1>3, <1>6, Drop
<1>8. previous_byte' = input[base'] /\ base' > 0 /\ previous_byte' \in Byte
  <2>1. input[(base + e) + S] = Suffix[S]
    <3>1. OccursAt(input, base + e, Suffix) /\ S \in 1..Len(Suffix)
      BY <1>2, <1>4 DEF IsPattern
    <3>. QED  BY <1>4, <3>1 DEF OccursAt
  <2>2. base' = (base + e) + S /\ (base + e) + S > 0
    BY <1>2, <1>3, <1>4
  <2>3. Suffix[S] \in Byte
    BY <1>4
  <2>. QED  BY <1>3, <1>5, <2>1, <2>2, <2>3
<1>. QED  BY <1>3, <1>7, <1>8 DEF PreviousInv

(* match_candidate is right about the body in every reachable state: what   *)
(* it looks at is the part of the body it should be, and previous_byte      *)
(* stands for the byte before.                                              *)
LEMMA Invariants == Spec => [](BufferInv /\ PreviousInv)
<1>1. Init => BufferInv /\ PreviousInv
  <2>. SUFFICES ASSUME Init PROVE BufferInv /\ PreviousInv
    OBVIOUS
  <2>1. input \in Seq(Byte) /\ rule \in Rules
    BY InputsAssumption DEF Init
  <2>2. BufferInv
    <3>1. /\ fed = 0 /\ base = 0 /\ pending = <<>> /\ finished = FALSE
          /\ phase = "idle" /\ Len(input) \in Nat
      BY <2>1 DEF Init
    <3>2. SubSeq(input, 0 + 1, 0) = <<>>
      BY <2>1
    <3>3. pending = SubSeq(input, base + 1, fed)
      BY <3>1, <3>2
    <3>4. fed \in 0..Len(input) /\ base \in 0..fed
      BY <3>1
    <3>. QED  BY <2>1, <3>1, <3>3, <3>4 DEF BufferInv, RuleInv
  <2>3. PreviousInv
    BY ByteAssumption DEF Init, PreviousInv
  <2>. QED  BY <2>2, <2>3
<1>2. BufferInv /\ PreviousInv /\ [Next]_vars => BufferInv' /\ PreviousInv'
  <2>. SUFFICES ASSUME BufferInv, PreviousInv, [Next]_vars
                PROVE  BufferInv' /\ PreviousInv'
    OBVIOUS
  <2>0. ASSUME input' = input, base' = base, previous_byte' = previous_byte
        PROVE  PreviousInv'
    BY <2>0 DEF PreviousInv
  <2>1. ASSUME NEW n \in 0..Len(input), Push(n) PROVE BufferInv' /\ PreviousInv'
    <3>1. /\ fed + n =< Len(input) /\ ~finished /\ finished' = finished
          /\ pending' = pending \o SubSeq(input, fed + 1, fed + n)
          /\ fed' = fed + n /\ base' = base /\ phase' = "scan"
          /\ rule' = rule /\ input' = input
          /\ previous_byte' = previous_byte
      BY <2>1 DEF Push, given
    <3>2. /\ input \in Seq(Byte) /\ base \in Nat /\ fed \in Nat /\ n \in Nat
          /\ base =< fed /\ Len(input) \in Nat
      BY PendingArrived
    <3>3. pending' = SubSeq(input, base + 1, fed + n)
      <4>1. /\ pending = SubSeq(input, base + 1, fed)
            /\ pending' = pending \o SubSeq(input, fed + 1, fed + n)
            /\ fed + n =< Len(input)
        BY <3>1, Zenon DEF BufferInv
      <4>2. Adjoins(input, base, fed, n)
        BY ONLY <3>2, <4>1, Adjoining
      <4>. QED  BY ONLY <4>1, <4>2, Zenon DEF Adjoins
    <3>4. fed + n \in 0..Len(input) /\ base \in 0..(fed + n)
      BY <3>1, <3>2
    <3>5. BufferInv'
      BY <3>1, <3>3, <3>4 DEF BufferInv, RuleInv
    <3>. QED  BY <2>0, <3>1, <3>5
  <2>2. CASE Finish
    <3>1. BufferInv'
      BY <2>2 DEF Finish, given, BufferInv, RuleInv
    <3>. QED  BY <2>0, <2>2, <3>1 DEF Finish, given
  <2>3. ASSUME NEW p \in 1..Len(pending), SkipToPrefix(p)
        PROVE  BufferInv' /\ PreviousInv'
    <3>1. p \in 0..Len(pending)
      BY <2>3, SkipIsFree
    <3>2. Emit(p) /\ phase' \in {"idle", "scan"}
      BY <2>3 DEF SkipToPrefix
    <3>. QED  BY <3>1, <3>2, EmitKeeps
  <2>4. CASE Reject
    <3>1. 1 \in 0..Len(pending)
      BY <2>4, RejectIsFree
    <3>2. Emit(1) /\ phase' \in {"idle", "scan"}
      BY <2>4 DEF Reject
    <3>. QED  BY <3>1, <3>2, EmitKeeps
  <2>5. CASE RewriteMatch
    BY <2>5, MatchKeeps
  <2>6. CASE WaitForMore
    <3>1. BufferInv'
      BY <2>6 DEF WaitForMore, given, BufferInv, RuleInv
    <3>. QED  BY <2>0, <2>6, <3>1 DEF WaitForMore, given
  <2>7. CASE EmitTail
    <3>1. EmitLength \in 0..Len(pending)
      BY <2>7, TailIsFree
    <3>2. Emit(EmitLength) /\ phase' \in {"idle", "scan"}
      BY <2>7 DEF EmitTail
    <3>. QED  BY <3>1, <3>2, EmitKeeps
  <2>8. CASE UNCHANGED vars
    <3>1. BufferInv'
      BY <2>8 DEF vars, BufferInv, RuleInv
    <3>. QED  BY <2>0, <2>8, <3>1 DEF vars
  <2>. QED  BY <2>1, <2>2, <2>3, <2>4, <2>5, <2>6, <2>7, <2>8 DEF Next
<1>. QED  BY <1>1, <1>2, PTL DEF Spec
-----------------------------------------------------------------------------
(* What is rewritten                                                       *)

(* The stage is made for one rule and one body. *)
LEMMA SamePatterns ==
    ASSUME rule' = rule, input' = input
    PROVE  /\ \A p : PatternAt(input, p)' <=> PatternAt(input, p)
           /\ \A p : ExpressionEnd(input, p)' = ExpressionEnd(input, p)
           /\ Len(Suffix)' = Len(Suffix)
BY SMT DEF PatternAt, ExpressionEnd, IsPattern, IsExpression, OccursAt, Prefix,
           Suffix, MemberSyntax

(* Behind base, what is in replaced is what is rewritten from left to right. *)
HistoryInv ==
    /\ replaced \subseteq 0..(base - 1)
    /\ ReplacesLeftmost

(* Letting bytes go in which no pattern begins. *)
LEMMA HistoryEmit ==
    ASSUME BufferInv, HistoryInv, NEW n \in Nat,
           \A r \in base..(base + n - 1) : ~PatternAt(input, r),
           base' = base + n, replaced' = replaced, rule' = rule, input' = input
    PROVE  HistoryInv'
<1>1. base \in Nat
  BY DEF BufferInv
<1>2. \A p \in replaced' : PatternAt(input, p)'
  BY SamePatterns DEF HistoryInv, ReplacesLeftmost
<1>3. ASSUME NEW p \in 0..(base' - 1), PatternAt(input, p), p \notin replaced
      PROVE  \E q \in replaced : q < p /\ p < ExpressionEnd(input, q) + Len(Suffix)
  <2>1. ~(p \in base..(base + n - 1))
    BY <1>3
  <2>2. p \in 0..(base - 1)
    BY <1>1, <1>3, <2>1
  <2>. QED  BY <1>3, <2>2 DEF HistoryInv, ReplacesLeftmost
<1>4. replaced' \subseteq 0..(base' - 1)
  BY <1>1 DEF HistoryInv
<1>. QED  BY <1>2, <1>3, <1>4, SamePatterns DEF HistoryInv, ReplacesLeftmost

LEMMA HistoryMatch ==
    ASSUME BufferInv, PreviousInv, HistoryInv, RewriteMatch
    PROVE  HistoryInv'
<1>. DEFINE e == Candidate.at
<1>1. /\ e \in Nat /\ PatternAt(input, base)
      /\ ExpressionEnd(input, base) = base + e
  BY MatchIs DEF RewriteMatch
<1>2. /\ base' = base + e + Len(Suffix) /\ replaced' = replaced \cup {base}
      /\ rule' = rule /\ input' = input
  BY DEF RewriteMatch, given
<1>. HIDE DEF e
<1>3. base \in Nat /\ Len(Suffix) \in Nat /\ Len(Suffix) > 0
  BY RuleFacts DEF BufferInv, S
<1>4. replaced' \subseteq 0..(base' - 1)
  BY <1>1, <1>2, <1>3 DEF HistoryInv
<1>5. \A p \in replaced' : PatternAt(input, p)'
  BY <1>1, <1>2, SamePatterns DEF HistoryInv, ReplacesLeftmost
<1>6. ASSUME NEW p \in 0..(base' - 1), PatternAt(input, p), p \notin replaced'
      PROVE  \E q \in replaced' : q < p /\ p < ExpressionEnd(input, q) + Len(Suffix)
  <2>1. CASE p < base
    <3>1. p \in 0..(base - 1) /\ p \notin replaced
      BY <1>2, <1>3, <1>6, <2>1
    <3>2. \E q \in replaced : q < p /\ p < ExpressionEnd(input, q) + Len(Suffix)
      BY <1>6, <3>1 DEF HistoryInv, ReplacesLeftmost
    <3>. QED  BY <1>2, <3>2
  <2>2. CASE ~(p < base)
    <3>1. base < p /\ p < base + e + Len(Suffix)
      BY <1>1, <1>2, <1>3, <1>6, <2>2
    <3>. QED  BY <1>1, <1>2, <3>1
  <2>. QED  BY <2>1, <2>2
<1>. QED  BY <1>2, <1>4, <1>5, <1>6, SamePatterns DEF HistoryInv, ReplacesLeftmost

LEMMA History == Spec => []HistoryInv
<1>1. Init => HistoryInv
  <2>. SUFFICES ASSUME Init PROVE HistoryInv
    OBVIOUS
  <2>1. base = 0 /\ replaced = {}
    BY DEF Init
  <2>2. \A p \in 0..(base - 1) : FALSE
    BY <2>1
  <2>. QED  BY <2>1, <2>2 DEF HistoryInv, ReplacesLeftmost
<1>2. BufferInv /\ PreviousInv /\ HistoryInv /\ [Next]_vars => HistoryInv'
  <2>. SUFFICES ASSUME BufferInv, PreviousInv, HistoryInv, [Next]_vars
                PROVE  HistoryInv'
    OBVIOUS
  <2>0. ASSUME base' = base, replaced' = replaced, rule' = rule, input' = input
        PROVE  HistoryInv'
    <3>1. base \in Nat /\ 0 \in Nat /\ base' = base + 0
      BY <2>0 DEF BufferInv
    <3>2. \A r \in base..(base + 0 - 1) : FALSE
      BY <3>1
    <3>. QED  BY <2>0, <3>1, <3>2, HistoryEmit
  <2>1. ASSUME NEW n \in 0..Len(input), Push(n) PROVE HistoryInv'
    BY <2>0, <2>1 DEF Push, given
  <2>2. CASE Finish
    BY <2>0, <2>2 DEF Finish, given
  <2>3. ASSUME NEW p \in 1..Len(pending), SkipToPrefix(p) PROVE HistoryInv'
    <3>1. \A r \in base..(base + p - 1) : ~PatternAt(input, r)
      BY <2>3, SkipIsFree
    <3>2. p \in Nat
      OBVIOUS
    <3>. QED  BY <2>3, <3>1, <3>2, HistoryEmit DEF SkipToPrefix, Emit, given
  <2>4. CASE Reject
    <3>1. \A r \in base..(base + 1 - 1) : ~PatternAt(input, r)
      BY <2>4, RejectIsFree
    <3>. QED  BY <2>4, <3>1, HistoryEmit DEF Reject, Emit, given
  <2>5. CASE RewriteMatch
    BY <2>5, HistoryMatch
  <2>6. CASE WaitForMore
    BY <2>0, <2>6 DEF WaitForMore, given
  <2>7. CASE EmitTail
    <3>1. /\ \A r \in base..(base + EmitLength - 1) : ~PatternAt(input, r)
          /\ EmitLength \in 0..Len(pending)
      BY <2>7, TailIsFree
    <3>2. EmitLength \in Nat
      BY <3>1
    <3>. QED  BY <2>7, <3>1, <3>2, HistoryEmit DEF EmitTail, Emit, given
  <2>8. CASE UNCHANGED vars
    BY <2>0, <2>8 DEF vars
  <2>. QED  BY <2>1, <2>2, <2>3, <2>4, <2>5, <2>6, <2>7, <2>8 DEF Next
<1>. QED  BY <1>1, <1>2, Invariants, PTL DEF Spec

(* Only patterns of the body are rewritten, and none but those that overlap *)
(* a rewritten one before them is passed over: what is said of a candidate  *)
(* from the bytes that have arrived and the byte written last is right,     *)
(* wherever the chunks are cut.                                             *)
THEOREM RewritesTheLeftmost == Spec => []ReplacesLeftmost
<1>1. HistoryInv => ReplacesLeftmost
  BY DEF HistoryInv
<1>. QED  BY <1>1, History, PTL
-----------------------------------------------------------------------------
(* What is kept back                                                       *)

(* Between two chunks a prefix at the beginning of pending is one that      *)
(* match_candidate wants more of.                                           *)
OpenInv ==
    phase = "idle" /\ Len(pending) >= P =>
        OccursAt(pending, 0, Prefix) /\ Candidate.kind = "NeedMore"

LEMMA SameCandidate ==
    ASSUME rule' = rule, pending' = pending, finished' = finished,
           previous_byte' = previous_byte
    PROVE  /\ OccursAt(pending, 0, Prefix)' <=> OccursAt(pending, 0, Prefix)
           /\ Candidate' = Candidate
BY SMT DEF Candidate, MatchCandidate, ScanExpression, IdentifierEnd, Open,
           NoMatch, NeedMore, Ends, StartsWith, OccursAt, From, Prefix, Suffix,
           MemberSyntax

LEMMA OpenInvariant == Spec => []OpenInv
<1>1. Init => OpenInv
  <2>. SUFFICES ASSUME Init PROVE OpenInv
    OBVIOUS
  <2>1. RuleInv /\ Len(pending) = 0
    BY DEF Init, RuleInv
  <2>. QED  BY <2>1, RuleFacts DEF OpenInv
<1>2. BufferInv /\ PreviousInv /\ OpenInv /\ [Next]_vars => OpenInv'
  <2>. SUFFICES ASSUME BufferInv, PreviousInv, OpenInv, [Next]_vars
                PROVE  OpenInv'
    OBVIOUS
  <2>0. ASSUME phase' = "scan" PROVE OpenInv'
    BY <2>0 DEF OpenInv
  <2>1. ASSUME NEW n \in 0..Len(input), Push(n) PROVE OpenInv'
    BY <2>0, <2>1 DEF Push
  <2>2. CASE Finish
    BY <2>0, <2>2 DEF Finish
  <2>3. ASSUME NEW p \in 1..Len(pending), SkipToPrefix(p) PROVE OpenInv'
    BY <2>0, <2>3 DEF SkipToPrefix
  <2>4. CASE Reject
    BY <2>0, <2>4 DEF Reject
  <2>5. CASE RewriteMatch
    BY <2>0, <2>5 DEF RewriteMatch
  <2>6. CASE WaitForMore
    <3>1. (OccursAt(pending, 0, Prefix) /\ Candidate.kind = "NeedMore")'
      <4>1. OccursAt(pending, 0, Prefix) /\ Candidate.kind = "NeedMore"
        BY <2>6 DEF WaitForMore
      <4>2. /\ rule' = rule /\ pending' = pending /\ finished' = finished
            /\ previous_byte' = previous_byte
        BY <2>6 DEF WaitForMore, given
      <4>. QED  BY <4>1, <4>2, SameCandidate
    <3>. QED  BY <3>1 DEF OpenInv
  <2>7. CASE EmitTail
    <3>1. /\ EmitLength \in 0..Len(pending) /\ Len(pending) - EmitLength < P
          /\ pending \in Seq(Byte)
      BY <2>7, TailIsFree, PendingArrived
    <3>2. pending' = From(pending, EmitLength) /\ rule' = rule
      BY <2>7 DEF EmitTail, Emit, given
    <3>3. Len(pending') = Len(pending) - EmitLength /\ Len(pending) \in Nat
      BY <3>1, <3>2, FromSlice
    <3>4. P' = P /\ P \in Nat
      BY <3>2, RuleFacts DEF P, Prefix, BufferInv
    <3>5. ~(Len(pending') >= P')
      BY <3>1, <3>3, <3>4
    <3>. QED  BY <3>5 DEF OpenInv
  <2>8. CASE UNCHANGED vars
    <3>1. /\ rule' = rule /\ pending' = pending /\ finished' = finished
          /\ previous_byte' = previous_byte /\ phase' = phase
      BY <2>8 DEF vars
    <3>2. P' = P
      BY <3>1 DEF P, Prefix
    <3>. QED  BY <3>1, <3>2, SameCandidate DEF OpenInv
  <2>. QED  BY <2>1, <2>2, <2>3, <2>4, <2>5, <2>6, <2>7, <2>8 DEF Next
<1>. QED  BY <1>1, <1>2, Invariants, PTL DEF Spec

(* process_available returns with more than a partial prefix only if some   *)
(* rest of the body makes it a pattern: it holds nothing back that could go *)
(* out, whatever the rule and the body.                                     *)
THEOREM KeepsBackOnlyWhatIsOpen == Spec => []KeepsBackOnlyOpen
<1>1. BufferInv /\ OpenInv => KeepsBackOnlyOpen
  <2>. SUFFICES ASSUME BufferInv, OpenInv, phase = "idle",
                       Len(pending) >= Len(Prefix)
                PROVE  \E b \in IdentifierStart, n \in 0..Len(Suffix) :
                         \E whole \in {pending \o From(Suffix, n),
                                       pending \o <<b>> \o Suffix} :
                           PatternAt(whole, 0)
    BY DEF KeepsBackOnlyOpen
  <2>1. OccursAt(pending, 0, Prefix) /\ Candidate.kind = "NeedMore"
    BY DEF OpenInv, P
  <2>. QED  BY <2>1, NeedMoreCompletes
<1>. QED  BY <1>1, Invariants, OpenInvariant, PTL
-----------------------------------------------------------------------------
(* The output                                                              *)

(* The body of the recursion in Rewritten: what s from offset i on becomes, *)
(* when rest says it of the offsets after i.                                *)
RestAt(s, i, rest) ==
    IF i = Len(s) THEN <<>> ELSE
    IF PatternAt(s, i)
       THEN LET e == ExpressionEnd(s, i)
            IN  Render(SubSeq(s, i + Len(Prefix) + 1, e))
                  \o rest[e + Len(Suffix)]
       ELSE <<s[i + 1]>> \o rest[i + 1]

(* The expression and the end of a pattern, and what the rule makes of it.  *)
ExpressionOf(s, i) == SubSeq(s, i + Len(Prefix) + 1, ExpressionEnd(s, i))
PatternEnd(s, i)   == ExpressionEnd(s, i) + Len(Suffix)
Replaced(s, i)     == Render(ExpressionOf(s, i))

LEMMA RestAtIs ==
    ASSUME NEW s, NEW i, NEW rest
    PROVE  RestAt(s, i, rest) =
             IF i = Len(s) THEN <<>> ELSE
             IF PatternAt(s, i) THEN Replaced(s, i) \o rest[PatternEnd(s, i)]
                                ELSE <<s[i + 1]>> \o rest[i + 1]
BY DEF RestAt, Replaced, ExpressionOf, PatternEnd

(* The recursion is well-founded: a pattern is longer than nothing.         *)
LEMMA PatternIs ==
    ASSUME NEW s \in Seq(Byte), RuleInv, NEW i \in 0..Len(s), PatternAt(s, i)
    PROVE  /\ i < Len(s)
           /\ PatternEnd(s, i) \in (i + 1)..Len(s)
           /\ Replaced(s, i) \in Seq(Byte)
<1>. DEFINE e == ExpressionEnd(s, i)
<1>1. e \in (i + 1)..Len(s) /\ IsPattern(s, i, e)
  BY DEF PatternAt, ExpressionEnd
<1>2. S \in Nat /\ S = Len(Suffix) /\ P \in Nat /\ P = Len(Prefix) /\ Len(s) \in Nat
  BY RuleFacts DEF S, P
<1>. HIDE DEF e
<1>3. e + S =< Len(s)
  BY <1>1 DEF IsPattern, OccursAt, S
<1>4. SubSeq(s, i + P + 1, e) \in Seq(Byte)
  BY <1>1, <1>2
<1>5. Replaced(s, i) \in Seq(Byte)
  BY <1>2, <1>4, RenderIs DEF Replaced, ExpressionOf, e
<1>6. PatternEnd(s, i) = e + S
  BY <1>2 DEF PatternEnd, e
<1>. QED  BY <1>1, <1>2, <1>3, <1>5, <1>6

LEMMA RewrittenIs ==
    ASSUME NEW s \in Seq(Byte), RuleInv
    PROVE  \E rest \in [0..Len(s) -> Seq(Byte)] :
             /\ \A i \in 0..Len(s) : rest[i] = RestAt(s, i, rest)
             /\ Rewritten(s) = rest[0]
<1>. DEFINE l    == Len(s)
            F    == [0..l -> Seq(Byte)]
            Step == [i \in 0..l |-> [g \in F |-> RestAt(s, i, g)]]
<1>1. l \in Nat /\ Seq(Byte) # {}
  OBVIOUS
<1>2. ASSUME NEW i \in 0..l, NEW g \in F PROVE RestAt(s, i, g) \in Seq(Byte)
  <2>1. CASE i = l
    <3>1. RestAt(s, i, g) = <<>>
      BY <2>1 DEF RestAt
    <3>2. <<>> \in Seq(Byte)
      OBVIOUS
    <3>. QED  BY <3>1, <3>2
  <2>2. CASE i # l /\ PatternAt(s, i)
    <3>. DEFINE e == PatternEnd(s, i)
                d == Replaced(s, i)
    <3>1. e \in (i + 1)..l /\ d \in Seq(Byte)
      BY <2>2, PatternIs
    <3>2. RestAt(s, i, g) = d \o g[e]
      BY <2>2, RestAtIs
    <3>. HIDE DEF e, d
    <3>3. g[e] \in Seq(Byte)
      BY <3>1
    <3>. QED  BY <3>1, <3>2, <3>3
  <2>3. CASE i # l /\ ~PatternAt(s, i)
    <3>1. i + 1 \in 0..l /\ s[i + 1] \in Byte
      BY <1>1, <2>3
    <3>2. g[i + 1] \in Seq(Byte) /\ <<s[i + 1]>> \in Seq(Byte)
      BY <3>1
    <3>3. RestAt(s, i, g) = <<s[i + 1]>> \o g[i + 1]
      BY <2>3, RestAtIs
    <3>. QED  BY <3>2, <3>3
  <2>. QED  BY <2>1, <2>2, <2>3
<1>3. ASSUME NEW i \in 0..l, NEW g, NEW h, \A q \in (i + 1)..l : g[q] = h[q]
      PROVE  RestAt(s, i, g) = RestAt(s, i, h)
  <2>1. CASE i = l
    BY <2>1, RestAtIs
  <2>2. CASE i # l /\ PatternAt(s, i)
    <3>1. PatternEnd(s, i) \in (i + 1)..l
      BY <2>2, PatternIs
    <3>2. g[PatternEnd(s, i)] = h[PatternEnd(s, i)]
      BY <1>3, <3>1
    <3>. QED  BY <2>2, <3>2, RestAtIs
  <2>3. CASE i # l /\ ~PatternAt(s, i)
    <3>1. i + 1 \in (i + 1)..l
      BY <1>1, <2>3
    <3>2. g[i + 1] = h[i + 1]
      BY <1>3, <3>1
    <3>. QED  BY <2>3, <3>2, RestAtIs
  <2>. QED  BY <2>1, <2>2, <2>3
<1>4. PICK f \in F : \A i \in 0..l : f[i] = RestAt(s, i, f)
  <2>1. Step \in [0..l -> [F -> Seq(Byte)]]
    BY <1>2
  <2>2. \A i \in 0..l : \A g \in F : Step[i][g] = RestAt(s, i, g)
    OBVIOUS
  <2>. HIDE DEF Step
  <2>3. ASSUME NEW i \in 0..l, NEW g \in F, NEW h \in F,
               \A q \in (i + 1)..l : g[q] = h[q]
        PROVE  Step[i][g] = Step[i][h]
    <3>1. RestAt(s, i, g) = RestAt(s, i, h)
      BY <1>3, <2>3
    <3>. QED  BY <2>2, <3>1
  <2>. HIDE DEF l
  <2>4. \E f \in F : \A i \in 0..l : f[i] = Step[i][f]
    <3>1. IsDownward(Step, Seq(Byte), l)
      BY <1>1, <2>1, <2>3 DEF IsDownward
    <3>. QED  BY ONLY <3>1, DownwardRecursion, SMT DEF F
  <2>. QED  BY <2>2, <2>4
<1>5. f = [i \in 0..l |-> RestAt(s, i, f)]
  BY <1>4
<1>6. \E g : g = [i \in 0..l |-> RestAt(s, i, g)] /\ Rewritten(s) = g[0]
  BY <1>5, Zenon DEF Rewritten, RestAt
<1>7. PICK g : g = [i \in 0..l |-> RestAt(s, i, g)] /\ Rewritten(s) = g[0]
  BY <1>6
<1>8. \A i \in 0..l : g[i] = RestAt(s, i, g)
  BY <1>7
<1>9. \A i \in 0..l : g[i] = f[i]
  <2>. DEFINE T == {i \in 0..l : g[i] = f[i]}
  <2>1. ASSUME NEW i \in 0..l, \A q \in (i + 1)..l : q \in T PROVE i \in T
    <3>1. \A q \in (i + 1)..l : g[q] = f[q]
      BY <2>1
    <3>2. RestAt(s, i, g) = RestAt(s, i, f)
      BY <1>3, <3>1
    <3>. QED  BY <1>4, <1>8, <3>2
  <2>. HIDE DEF T, l
  <2>2. 0..l \subseteq T
    BY <1>1, <2>1, DownwardInduction
  <2>. QED  BY <2>2 DEF T
<1>10. Rewritten(s) = f[0]
  BY <1>1, <1>7, <1>9
<1>. QED  BY <1>4, <1>10

(* rest says of every offset of s what s becomes from there on.             *)
IsRest(rest, s) ==
    /\ rest \in [0..Len(s) -> Seq(Byte)]
    /\ \A i \in 0..Len(s) : rest[i] = RestAt(s, i, rest)
    /\ Rewritten(s) = rest[0]

(* From i on, what comes before the first pattern stays as it is. *)
StaysAsIs(rest, s, i) ==
    \A n \in Nat :
      /\ i + n =< Len(s)
      /\ \A r \in i..(i + n - 1) : ~PatternAt(s, r)
      => rest[i] = SubSeq(s, i + 1, i + n) \o rest[i + n]

LEMMA SkipRest ==
    ASSUME NEW s \in Seq(Byte), RuleInv, NEW rest, IsRest(rest, s), NEW i \in Nat
    PROVE  StaysAsIs(rest, s, i)
<1>. DEFINE Skips(n) == rest[i] = SubSeq(s, i + 1, i + n) \o rest[i + n]
            Free(n)  == /\ i + n =< Len(s)
                        /\ \A r \in i..(i + n - 1) : ~PatternAt(s, r)
            T        == {n \in Nat : Free(n) => Skips(n)}
<1>1. ASSUME NEW k \in 0..Len(s) PROVE rest[k] \in Seq(Byte)
  BY <1>1 DEF IsRest
<1>2. ASSUME Free(0) PROVE Skips(0)
  <2>1. i \in 0..Len(s) /\ i + 0 = i /\ SubSeq(s, i + 1, i) = <<>>
    BY <1>2
  <2>2. rest[i] \in Seq(Byte)
    BY <1>1, <2>1
  <2>3. <<>> \o rest[i] = rest[i]
    BY ONLY <2>2
  <2>. QED  BY <2>1, <2>3
<1>3. ASSUME NEW n \in Nat, Free(n) => Skips(n), Free(n + 1)
      PROVE  Skips(n + 1)
  <2>. DEFINE a == SubSeq(s, i + 1, i + n)
              k == i + n
              b == <<s[k + 1]>>
              c == rest[k + 1]
  <2>1. /\ k \in 0..Len(s) /\ k + 1 \in 0..Len(s) /\ k + 1 \in 1..Len(s)
        /\ k # Len(s) /\ i + (n + 1) = k + 1 /\ k \in i..(i + (n + 1) - 1)
        /\ i + n =< Len(s) /\ i =< k /\ k \in Nat
    BY <1>3
  <2>2. Free(n)
    <3>1. ASSUME NEW r \in i..(i + n - 1) PROVE r \in i..(i + (n + 1) - 1)
      OBVIOUS
    <3>. QED  BY <1>3, <2>1, <3>1
  <2>3. rest[i] = a \o rest[k]
    BY <1>3, <2>2
  <2>4. rest[k] = b \o c
    <3>1. ~PatternAt(s, k)
      BY <1>3, <2>1
    <3>2. rest[k] = RestAt(s, k, rest)
      BY <2>1 DEF IsRest
    <3>. QED  BY <2>1, <3>1, <3>2, RestAtIs
  <2>5. a \in Seq(Byte) /\ b \in Seq(Byte) /\ c \in Seq(Byte)
    <3>1. c \in Seq(Byte)
      BY <1>1, <2>1
    <3>2. s[k + 1] \in Byte
      BY <2>1
    <3>3. a \in Seq(Byte)
      BY <2>1
    <3>. QED  BY <3>1, <3>2, <3>3
  <2>6. SubSeq(s, i + 1, k + 1) = a \o b
    <3>1. b = SubSeq(s, k + 1, k + 1)
      BY <2>1
    <3>2. SubSeq(s, i + 1, k) \o SubSeq(s, k + 1, k + 1) = SubSeq(s, i + 1, k + 1)
      <4>. HIDE DEF k
      <4>1. k + 1 =< Len(s) /\ 1 \in Nat
        BY <2>1
      <4>. QED  BY <2>1, <4>1, Extend
    <3>. QED  BY <3>1, <3>2
  <2>7. Skips(n + 1) <=> rest[i] = SubSeq(s, i + 1, k + 1) \o c
    BY <2>1
  <2>. HIDE DEF a, b, c, k
  <2>8. (a \o b) \o c = a \o (b \o c)
    <3>1. Regroups(Byte, a, b, c)
      BY ONLY <2>5, Reassociate
    <3>. QED  BY ONLY <3>1, Zenon DEF Regroups
  <2>. QED  BY <2>3, <2>4, <2>6, <2>7, <2>8
<1>. HIDE DEF Skips, Free
<1>4. 0 \in T /\ \A n \in Nat : n \in T => n + 1 \in T
  BY <1>2, <1>3
<1>5. Nat \subseteq T
  <2>. HIDE DEF T
  <2>. QED  BY <1>4, SetInduction
<1>. QED  BY <1>5 DEF Skips, Free, StaysAsIs

(* What becomes of a pattern. *)
LEMMA TakeRest ==
    ASSUME NEW s \in Seq(Byte), RuleInv, NEW rest, IsRest(rest, s),
           NEW i \in 0..Len(s), PatternAt(s, i)
    PROVE  /\ PatternEnd(s, i) \in 0..Len(s)
           /\ Replaced(s, i) \in Seq(Byte)
           /\ rest[PatternEnd(s, i)] \in Seq(Byte)
           /\ rest[i] = Replaced(s, i) \o rest[PatternEnd(s, i)]
<1>1. /\ i < Len(s) /\ PatternEnd(s, i) \in (i + 1)..Len(s)
      /\ Replaced(s, i) \in Seq(Byte)
  BY PatternIs
<1>2. PatternEnd(s, i) \in 0..Len(s) /\ i # Len(s)
  BY <1>1
<1>3. rest[PatternEnd(s, i)] \in Seq(Byte)
  BY <1>2 DEF IsRest
<1>4. rest[i] = RestAt(s, i, rest)
  BY DEF IsRest
<1>. QED  BY <1>1, <1>2, <1>3, <1>4, RestAtIs

(* First(pending, n) is a slice of the body. *)
LEMMA FirstIsSlice ==
    ASSUME BufferInv, NEW n \in 0..Len(pending)
    PROVE  /\ base \in Nat /\ n \in Nat /\ base + n =< Len(input)
           /\ First(pending, n) = SubSeq(input, base + 1, base + n)
           /\ First(pending, n) \in Seq(Byte)
<1>1. /\ base \in Nat /\ n \in Nat /\ Len(pending) \in Nat
      /\ base + n =< Len(input) /\ pending \in Seq(Byte)
      /\ input \in Seq(Byte) /\ Len(input) \in Nat
      /\ \A i \in 1..Len(pending) : pending[i] = input[base + i]
  BY PendingArrived DEF Arrived
<1>2. /\ First(pending, n) \in Seq(Byte)
      /\ Len(First(pending, n)) = n
      /\ \A i \in 1..n : First(pending, n)[i] = input[base + i]
  <2>1. /\ First(pending, n) \in Seq(Byte)
        /\ Len(First(pending, n)) = n
        /\ \A i \in 1..n : First(pending, n)[i] = pending[i]
    BY <1>1, FirstSlice
  <2>2. ASSUME NEW i \in 1..n PROVE i \in 1..Len(pending)
    BY <1>1
  <2>. QED  BY <1>1, <2>1, <2>2
<1>3. /\ SubSeq(input, base + 1, base + n) \in Seq(Byte)
      /\ Len(SubSeq(input, base + 1, base + n)) = n
      /\ \A i \in 1..n : SubSeq(input, base + 1, base + n)[i] = input[base + i]
  BY <1>1
<1>4. First(pending, n) = SubSeq(input, base + 1, base + n)
  BY <1>2, <1>3, SeqEqual
<1>. QED  BY <1>1, <1>2, <1>4

(* What has been returned, and what becomes of the rest of the body, is the *)
(* rewritten body; when finish has returned there is no rest.               *)
RestInv ==
    /\ output \in Seq(Byte)
    /\ \E rest : IsRest(rest, input)
                 /\ Rewritten(input) = output \o rest[base]
    /\ Done => base = Len(input)

LEMMA SameRest ==
    ASSUME rule' = rule, input' = input, NEW CONSTANT rest
    PROVE  /\ IsRest(rest, input)' <=> IsRest(rest, input)
           /\ Rewritten(input)' = Rewritten(input)
BY SMT DEF IsRest, RestAt, Rewritten, Render, RenderBy, PatternAt, ExpressionEnd,
           IsPattern, IsExpression, OccursAt, Prefix, Suffix, MemberSyntax,
           Template

(* Bytes before the first pattern are let go as they are. *)
LEMMA LetGo ==
    ASSUME BufferInv, NEW CONSTANT rest, IsRest(rest, input),
           NEW n \in 0..Len(pending),
           output \in Seq(Byte), Rewritten(input) = output \o rest[base],
           \A r \in base..(base + n - 1) : ~PatternAt(input, r),
           Emit(n), Done' => base + n = Len(input)
    PROVE  RestInv'
<1>. DEFINE a == First(pending, n)
            b == rest[base + n]
<1>1. /\ base \in Nat /\ n \in Nat /\ base + n =< Len(input)
      /\ a = SubSeq(input, base + 1, base + n) /\ a \in Seq(Byte)
      /\ input \in Seq(Byte) /\ RuleInv
  BY FirstIsSlice DEF BufferInv
<1>2. rest[base] = a \o b
  <2>1. rest[base] = SubSeq(input, base + 1, base + n) \o rest[base + n]
    <3>1. StaysAsIs(rest, input, base)
      BY <1>1, SkipRest
    <3>2. n \in Nat /\ base + n =< Len(input)
      BY <1>1
    <3>. QED  BY <3>1, <3>2, Zenon DEF StaysAsIs
  <2>. QED  BY <1>1, <2>1
<1>3. b \in Seq(Byte)
  <2>1. base + n \in 0..Len(input)
    BY <1>1
  <2>2. rest \in [0..Len(input) -> Seq(Byte)]
    BY DEF IsRest
  <2>. HIDE DEF a
  <2>. QED  BY <2>1, <2>2
<1>4. /\ output' = output \o a /\ base' = base + n
      /\ rule' = rule /\ input' = input
  BY DEF Emit, given
<1>5. b = rest[base']
  BY <1>4
<1>6. a \in Seq(Byte)
  BY <1>1
<1>. HIDE DEF a, b
<1>7. output \o a \in Seq(Byte) /\ output \o (a \o b) = (output \o a) \o b
  <2>1. Regroups(Byte, output, a, b)
    BY <1>3, <1>6, Reassociate
  <2>. QED  BY ONLY <2>1, Zenon DEF Regroups
<1>8. Rewritten(input) = output' \o rest[base'] /\ output' \in Seq(Byte)
  BY <1>2, <1>4, <1>5, <1>7
<1>9. IsRest(rest, input)' /\ Rewritten(input)' = Rewritten(input)
  BY <1>4, SameRest
<1>. QED  BY <1>4, <1>8, <1>9 DEF RestInv

(* A pattern is replaced by what the template makes of it. *)
LEMMA Replace ==
    ASSUME BufferInv, PreviousInv, NEW CONSTANT rest, IsRest(rest, input),
           output \in Seq(Byte), Rewritten(input) = output \o rest[base],
           RewriteMatch
    PROVE  RestInv'
<1>. DEFINE d == Replaced(input, base)
            b == PatternEnd(input, base)
            c == rest[b]
<1>1. /\ PatternAt(input, base)
      /\ ExpressionEnd(input, base) = base + Candidate.at
      /\ SubSeq(pending, P + 1, Candidate.at)
           = SubSeq(input, base + P + 1, base + Candidate.at)
  BY MatchIs DEF RewriteMatch
<1>2. base \in 0..Len(input) /\ input \in Seq(Byte) /\ RuleInv
  BY DEF BufferInv
<1>3. /\ d \in Seq(Byte) /\ c \in Seq(Byte) /\ rest[base] = d \o c
  BY <1>1, <1>2, TakeRest
<1>4. d = Render(SubSeq(pending, Len(Prefix) + 1, Candidate.at))
  BY <1>1 DEF Replaced, ExpressionOf, P
<1>5. b = base + Candidate.at + Len(Suffix)
  BY <1>1 DEF PatternEnd
<1>6. /\ output' = output \o d /\ base' = b /\ phase' = "scan"
      /\ rule' = rule /\ input' = input
  BY <1>4, <1>5 DEF RewriteMatch, given
<1>7. c = rest[base']
  BY <1>6
<1>. HIDE DEF d, b, c
<1>8. output \o d \in Seq(Byte) /\ output \o (d \o c) = (output \o d) \o c
  <2>1. Regroups(Byte, output, d, c)
    BY <1>3, Reassociate
  <2>. QED  BY ONLY <2>1, Zenon DEF Regroups
<1>9. Rewritten(input) = output' \o rest[base'] /\ output' \in Seq(Byte)
  BY <1>3, <1>6, <1>7, <1>8
<1>10. IsRest(rest, input)' /\ Rewritten(input)' = Rewritten(input)
  BY <1>6, SameRest
<1>11. ~Done'
  BY <1>6 DEF Done
<1>. QED  BY <1>9, <1>10, <1>11 DEF RestInv

LEMMA RestInvariant == Spec => []RestInv
<1>1. Init => RestInv
  <2>. SUFFICES ASSUME Init PROVE RestInv
    OBVIOUS
  <2>1. /\ input \in Seq(Byte) /\ output = <<>> /\ base = 0 /\ ~Done
        /\ RuleInv
    BY InputsAssumption DEF Init, Done, RuleInv
  <2>2. PICK rest : IsRest(rest, input)
    BY <2>1, RewrittenIs DEF IsRest
  <2>3. rest[0] \in Seq(Byte) /\ Rewritten(input) = rest[0]
    BY <2>1, <2>2 DEF IsRest
  <2>4. Rewritten(input) = <<>> \o rest[0]
    BY <2>3
  <2>. QED  BY <2>1, <2>2, <2>4 DEF RestInv
<1>2. BufferInv /\ PreviousInv /\ RestInv /\ [Next]_vars => RestInv'
  <2>. SUFFICES ASSUME BufferInv, PreviousInv, RestInv, [Next]_vars
                PROVE  RestInv'
    OBVIOUS
  <2>0. PICK rest : IsRest(rest, input) /\ Rewritten(input) = output \o rest[base]
    BY DEF RestInv
  <2>01. output \in Seq(Byte)
    BY DEF RestInv
  <2>a. ASSUME rule' = rule, input' = input, output' = output, base' = base,
               Done' => base' = Len(input)
        PROVE  RestInv'
    <3>1. IsRest(rest, input)' /\ Rewritten(input)' = Rewritten(input)
      BY <2>0, <2>a, SameRest
    <3>. QED  BY <2>0, <2>01, <2>a, <3>1 DEF RestInv
  <2>1. ASSUME NEW n \in 0..Len(input), Push(n) PROVE RestInv'
    BY <2>1, <2>a DEF Push, given, Done
  <2>2. CASE Finish
    BY <2>2, <2>a DEF Finish, given, Done
  <2>3. ASSUME NEW p \in 1..Len(pending), SkipToPrefix(p) PROVE RestInv'
    <3>1. Emit(p) /\ ~Done'
      BY <2>3 DEF SkipToPrefix, Done
    <3>. QED  BY <2>0, <2>01, <2>3, <3>1, SkipIsFree, LetGo
  <2>4. CASE Reject
    <3>1. Emit(1) /\ ~Done'
      BY <2>4 DEF Reject, Done
    <3>. QED  BY <2>0, <2>01, <2>4, <3>1, RejectIsFree, LetGo
  <2>5. CASE RewriteMatch
    BY <2>0, <2>01, <2>5, Replace
  <2>6. CASE WaitForMore
    <3>1. ~finished /\ finished' = finished
      BY <2>6, WaitsForMore DEF WaitForMore
    <3>. QED  BY <2>6, <2>a, <3>1 DEF WaitForMore, given, Done
  <2>7. CASE EmitTail
    <3>1. Emit(EmitLength) /\ finished' = finished
      BY <2>7 DEF EmitTail, Emit
    <3>2. /\ EmitLength \in 0..Len(pending)
          /\ \A r \in base..(base + EmitLength - 1) : ~PatternAt(input, r)
          /\ finished => base + EmitLength = Len(input)
      BY <2>7, TailIsFree
    <3>3. Done' => base + EmitLength = Len(input)
      BY <3>1, <3>2 DEF Done
    <3>. QED  BY <2>0, <2>01, <3>1, <3>2, <3>3, LetGo
  <2>8. CASE UNCHANGED vars
    <3>1. Done' => base' = Len(input)
      BY <2>8 DEF vars, RestInv, Done
    <3>. QED  BY <2>8, <2>a, <3>1 DEF vars
  <2>. QED  BY <2>1, <2>2, <2>3, <2>4, <2>5, <2>6, <2>7, <2>8 DEF Next
<1>. QED  BY <1>1, <1>2, Invariants, PTL DEF Spec

(* The stage computes the rewritten body wherever the chunks are cut: what  *)
(* process_available has returned is a beginning of it, and all of it once  *)
(* finish has returned.                                                     *)
THEOREM OutputCorrect == Spec => []OutputIsRewritten
<1>1. BufferInv /\ RestInv => OutputIsRewritten
  <2>. SUFFICES ASSUME BufferInv, RestInv PROVE OutputIsRewritten
    OBVIOUS
  <2>1. PICK rest : IsRest(rest, input) /\ Rewritten(input) = output \o rest[base]
    BY DEF RestInv
  <2>2. base \in 0..Len(input) /\ input \in Seq(Byte)
    BY DEF BufferInv
  <2>3. rest[base] \in Seq(Byte) /\ output \in Seq(Byte)
    BY <2>1, <2>2 DEF IsRest, RestInv
  <2>4. StartsWith(Rewritten(input), output)
    <3>. DEFINE r == rest[base]
    <3>1. r \in Seq(Byte) /\ Rewritten(input) = output \o r
      BY <2>1, <2>3
    <3>. HIDE DEF r
    <3>. QED  BY <2>3, <3>1, PrefixOfConcat
  <2>5. ASSUME Done PROVE output = Rewritten(input)
    <3>1. base = Len(input)
      BY <2>5 DEF RestInv
    <3>2. rest[base] = <<>>
      BY <2>1, <2>2, <3>1 DEF IsRest, RestAt
    <3>. QED  BY <2>1, <2>3, <3>2
  <2>. QED  BY <2>4, <2>5 DEF OutputIsRewritten
<1>. QED  BY <1>1, Invariants, RestInvariant, PTL

(* The type invariant: pending is the received part of the body from base on. *)
THEOREM TypeCorrect == Spec => []TypeOK
<1>1. BufferInv /\ PreviousInv /\ RestInv /\ HistoryInv => TypeOK
  <2>. SUFFICES ASSUME BufferInv, PreviousInv, RestInv, HistoryInv PROVE TypeOK
    OBVIOUS
  <2>1. replaced \subseteq 0..Len(input)
    <3>1. \A p \in 0..(base - 1) : p \in 0..Len(input)
      BY PendingArrived
    <3>. QED  BY <3>1 DEF HistoryInv
  <2>. QED  BY <2>1 DEF TypeOK, BufferInv, PreviousInv, RestInv
<1>. QED  BY <1>1, Invariants, RestInvariant, History, PTL

-----------------------------------------------------------------------------
(* A second pass                                                           *)

(* Two strings that stand at the same offset agree. *)
LEMMA AgreeThere ==
    ASSUME NEW w \in Seq(Byte), NEW i \in Nat, NEW x \in Seq(Byte),
           NEW z \in Seq(Byte), OccursAt(w, i, x), OccursAt(w, i, z)
    PROVE  Agree(x, z)
<1>1. /\ Len(x) \in Nat /\ Len(z) \in Nat
      /\ \A k \in 1..Len(x) : w[i + k] = x[k]
      /\ \A k \in 1..Len(z) : w[i + k] = z[k]
  BY DEF OccursAt
<1>2. CASE Len(x) =< Len(z)
  <2>1. ASSUME NEW k \in 1..Len(x) PROVE z[k] = x[k]
    <3>1. k \in 1..Len(z)
      BY <1>1, <1>2
    <3>. QED  BY <1>1, <3>1
  <2>. QED  BY <1>2, <2>1, StartsIs DEF Agree
<1>3. CASE Len(z) =< Len(x)
  <2>1. ASSUME NEW k \in 1..Len(z) PROVE x[k] = z[k]
    <3>1. k \in 1..Len(x)
      BY <1>1, <1>3
    <3>. QED  BY <1>1, <3>1
  <2>. QED  BY <1>3, <2>1, StartsIs DEF Agree
<1>. QED  BY <1>1, <1>2, <1>3

(* Where a string stands, so do its ends. *)
LEMMA FromThere ==
    ASSUME NEW w \in Seq(Byte), NEW i \in Nat, NEW x \in Seq(Byte),
           NEW j \in 0..Len(x), OccursAt(w, i, x)
    PROVE  From(x, j) \in Seq(Byte) /\ OccursAt(w, i + j, From(x, j))
<1>. DEFINE z == From(x, j)
            m == Len(x) - j
<1>1. /\ z \in Seq(Byte) /\ Len(z) = m
      /\ \A k \in 1..m : z[k] = x[j + k]
  BY FromSlice
<1>. HIDE DEF z
<1>2. /\ m \in Nat /\ Len(x) \in Nat /\ Len(w) \in Nat
      /\ i + Len(x) =< Len(w) /\ (i + j) + m =< Len(w)
      /\ \A k \in 1..Len(x) : w[i + k] = x[k]
  BY DEF OccursAt
<1>3. ASSUME NEW k \in 1..m PROVE w[(i + j) + k] = z[k]
  <2>1. j + k \in 1..Len(x) /\ (i + j) + k = i + (j + k)
    BY <1>2
  <2>. QED  BY <1>1, <1>2, <2>1
<1>4. OccursAt(w, i + j, z)
  BY <1>1, <1>2, <1>3 DEF OccursAt
<1>. QED  BY <1>1, <1>4 DEF z

(* Offset o of the rewritten body w is offset u of the body s: from there   *)
(* on w is what s becomes, and the byte before is the same.                 *)
Image(rest, s, w, u, o) ==
    /\ u \in 0..Len(s)
    /\ Follows(w, o, rest[u])
    /\ \/ u = 0 /\ o = 0
       \/ u > 0 /\ o > 0 /\ s[u] = w[o]

(* The rewritten body begins where the body does, and ends where it does.   *)
LEMMA ImageStart ==
    ASSUME NEW s \in Seq(Byte), NEW rest, IsRest(rest, s)
    PROVE  /\ Rewritten(s) \in Seq(Byte)
           /\ Image(rest, s, Rewritten(s), 0, 0)
<1>. DEFINE w == Rewritten(s)
<1>1. w \in Seq(Byte) /\ rest[0] = w /\ 0 \in 0..Len(s)
  BY DEF IsRest
<1>. HIDE DEF w
<1>2. Follows(w, 0, w)
  <2>1. Len(w) \in Nat /\ \A k \in 1..Len(w) : 0 + k = k
    BY <1>1
  <2>. QED  BY <2>1 DEF Follows
<1>3. Image(rest, s, w, 0, 0)
  BY <1>1, <1>2 DEF Image
<1>. QED  BY <1>1, <1>3 DEF w

LEMMA ImageTypes ==
    ASSUME NEW s \in Seq(Byte), NEW w \in Seq(Byte), NEW rest, IsRest(rest, s),
           NEW u, NEW o, Image(rest, s, w, u, o)
    PROVE  /\ u \in 0..Len(s) /\ u \in Nat /\ Len(s) \in Nat
           /\ o \in 0..Len(w) /\ o \in Nat /\ Len(w) \in Nat
           /\ rest[u] \in Seq(Byte) /\ Follows(w, o, rest[u])
<1>1. u \in 0..Len(s) /\ Follows(w, o, rest[u]) /\ o \in 0..Len(w)
  BY DEF Image, Follows
<1>2. rest[u] \in Seq(Byte)
  BY <1>1 DEF IsRest
<1>. QED  BY <1>1, <1>2

(* A byte that no pattern begins at is copied. *)
LEMMA ImageCopied ==
    ASSUME NEW s \in Seq(Byte), NEW w \in Seq(Byte), RuleInv,
           NEW rest, IsRest(rest, s), NEW u, NEW o, Image(rest, s, w, u, o),
           u # Len(s), ~PatternAt(s, u)
    PROVE  /\ w[o + 1] = s[u + 1]
           /\ Image(rest, s, w, u + 1, o + 1)
<1>. DEFINE b == <<s[u + 1]>>
            c == rest[u + 1]
<1>1. /\ u \in Nat /\ u + 1 \in 0..Len(s) /\ u + 1 \in 1..Len(s) /\ u + 1 > 0
      /\ o \in Nat /\ o + 1 > 0 /\ u \in 0..Len(s)
  BY ImageTypes
<1>2. b \in Seq(Byte) /\ Len(b) = 1 /\ b[1] = s[u + 1] /\ c \in Seq(Byte)
  <2>1. s[u + 1] \in Byte
    BY <1>1
  <2>2. c \in Seq(Byte)
    BY <1>1 DEF IsRest
  <2>. QED  BY <2>1, <2>2
<1>3. rest[u] = b \o c
  <2>1. rest[u] = RestAt(s, u, rest)
    BY <1>1 DEF IsRest
  <2>. QED  BY <2>1, RestAtIs
<1>. HIDE DEF b, c
<1>4. Follows(w, o, b \o c)
  BY <1>3 DEF Image
<1>5. OccursAt(w, o, b) /\ Follows(w, o + Len(b), c)
  BY <1>2, <1>4, FollowsSplit
<1>6. w[o + 1] = s[u + 1]
  BY <1>2, <1>5 DEF OccursAt
<1>. QED  BY <1>1, <1>2, <1>5, <1>6 DEF Image, c

(* A pattern is replaced; the byte it ends with is also the last that is    *)
(* written for it.                                                          *)
LEMMA ImageWritten ==
    ASSUME NEW s \in Seq(Byte), NEW w \in Seq(Byte), RuleInv,
           NEW rest, IsRest(rest, s), NEW u, NEW o, Image(rest, s, w, u, o),
           PatternAt(s, u)
    PROVE  /\ Replaced(s, u) \in Seq(Byte)
           /\ Len(Replaced(s, u)) \in Nat /\ Len(Replaced(s, u)) > 0
           /\ OccursAt(w, o, Replaced(s, u))
           /\ Image(rest, s, w, PatternEnd(s, u), o + Len(Replaced(s, u)))
<1>. DEFINE e   == ExpressionEnd(s, u)
            new == Replaced(s, u)
            n   == Len(new)
            f   == PatternEnd(s, u)
            c   == rest[f]
<1>1. u \in 0..Len(s) /\ u \in Nat /\ o \in Nat
  BY ImageTypes
<1>2. /\ e \in (u + 1)..Len(s) /\ OccursAt(s, e, Suffix) /\ f = e + S
      /\ SubSeq(s, u + Len(Prefix) + 1, e) \in Seq(Byte)
  <2>1. e \in (u + 1)..Len(s) /\ IsPattern(s, u, e)
    BY DEF PatternAt, ExpressionEnd
  <2>2. u + Len(Prefix) + 1 \in Nat /\ u + Len(Prefix) + 1 > 0
    BY <1>1, RuleFacts DEF P
  <2>. HIDE DEF e
  <2>3. SubSeq(s, u + Len(Prefix) + 1, e) \in Seq(Byte)
    BY <2>1, <2>2
  <2>4. f = e + S
    BY DEF PatternEnd, e, S
  <2>. QED  BY <2>1, <2>3, <2>4 DEF IsPattern
<1>3. new \in Seq(Byte) /\ n \in Nat /\ n > 0 /\ new[n] = Suffix[S]
  BY <1>2, RenderIs DEF Replaced, ExpressionOf
<1>4. f \in 0..Len(s) /\ c \in Seq(Byte) /\ rest[u] = new \o c
  BY <1>1, TakeRest
<1>5. f \in Nat /\ f > 0 /\ s[f] = Suffix[S]
  <2>. HIDE DEF e, f
  <2>1. S \in 1..Len(Suffix) /\ S \in Nat /\ S > 0
    BY RuleFacts DEF S
  <2>. QED  BY <1>1, <1>2, <2>1 DEF OccursAt
<1>. HIDE DEF new, c, f, e
<1>6. Follows(w, o, new \o c)
  BY <1>4 DEF Image
<1>7. OccursAt(w, o, new) /\ Follows(w, o + n, c)
  BY <1>3, <1>4, <1>6, FollowsSplit
<1>8. o + n > 0 /\ w[o + n] = Suffix[S]
  BY <1>1, <1>3, <1>7 DEF OccursAt
<1>9. Image(rest, s, w, f, o + n)
  BY <1>4, <1>5, <1>7, <1>8 DEF Image, c
<1>. QED  BY <1>3, <1>7, <1>9 DEF new, f

LEMMA ImageEnd ==
    ASSUME NEW s \in Seq(Byte), NEW w \in Seq(Byte), NEW rest, IsRest(rest, s),
           NEW o, Image(rest, s, w, Len(s), o)
    PROVE  o = Len(w)
<1>1. rest[Len(s)] = <<>>
  <2>1. Len(s) \in 0..Len(s)
    OBVIOUS
  <2>2. rest[Len(s)] = RestAt(s, Len(s), rest)
    BY <2>1 DEF IsRest
  <2>. QED  BY <2>2, RestAtIs
<1>2. Follows(w, o, <<>>)
  BY <1>1 DEF Image
<1>. QED  BY <1>2 DEF Follows

(* Every byte of the rewritten body is copied or written for a pattern. *)
LEMMA Covered ==
    ASSUME NEW s \in Seq(Byte), NEW w \in Seq(Byte), RuleInv,
           NEW rest, IsRest(rest, s), Image(rest, s, w, 0, 0),
           NEW o \in Nat, o < Len(w)
    PROVE  \E u \in Nat, i \in 0..o :
             /\ u # Len(s) /\ Image(rest, s, w, u, i)
             /\ IF PatternAt(s, u) THEN o < i + Len(Replaced(s, u)) ELSE i = o
<1>. DEFINE T == {d \in 0..o : \E u \in Nat : Image(rest, s, w, u, o - d)}
<1>1. o \in T
  <2>1. o \in 0..o /\ o - o = 0 /\ 0 \in Nat
    OBVIOUS
  <2>. QED  BY <2>1
<1>2. PICK d \in T : \A k \in T : d =< k
  <2>1. T \in SUBSET Nat
    OBVIOUS
  <2>. HIDE DEF T
  <2>. QED  BY <1>1, <2>1, LeastNatural
<1>. DEFINE i == o - d
<1>3. PICK u \in Nat : Image(rest, s, w, u, i)
  BY <1>2
<1>4. d \in 0..o /\ i \in 0..o /\ i \in Nat
  BY <1>2
<1>5. u # Len(s)
  <2>1. ASSUME u = Len(s) PROVE FALSE
    <3>1. i = Len(w)
      BY <1>3, <2>1, ImageEnd
    <3>. QED  BY <1>4, <3>1
  <2>. QED  BY <2>1
<1>6. ASSUME NEW v \in Nat, NEW m \in Nat, m > 0, Image(rest, s, w, v, i + m)
      PROVE  o < i + m
  <2>1. ASSUME ~(o < i + m) PROVE FALSE
    <3>1. o - (i + m) \in 0..o /\ o - (o - (i + m)) = i + m
      BY <1>4, <1>6, <2>1
    <3>2. o - (i + m) \in T
      BY <1>6, <3>1
    <3>3. d =< o - (i + m)
      BY <1>2, <3>2
    <3>. QED  BY <1>4, <1>6, <3>3
  <2>. QED  BY <2>1
<1>. HIDE DEF i, T
<1>7. CASE PatternAt(s, u)
  <2>. DEFINE n == Len(Replaced(s, u))
  <2>1. n \in Nat /\ n > 0 /\ Image(rest, s, w, PatternEnd(s, u), i + n)
    BY <1>3, <1>7, ImageWritten
  <2>2. PatternEnd(s, u) \in Nat
    BY <2>1, ImageTypes
  <2>. HIDE DEF n
  <2>3. o < i + n
    BY <1>6, <2>1, <2>2
  <2>. QED  BY <1>3, <1>4, <1>5, <1>7, <2>3 DEF n
<1>8. CASE ~PatternAt(s, u)
  <2>1. Image(rest, s, w, u + 1, i + 1)
    BY <1>3, <1>5, <1>8, ImageCopied
  <2>2. o < i + 1
    BY <1>6, <2>1
  <2>3. i = o
    BY <1>4, <2>2
  <2>. QED  BY <1>3, <1>4, <1>5, <1>8, <2>3
<1>. QED  BY <1>7, <1>8

(* A pattern of w: its expression, all of it, and as much of it as can be   *)
(* told from the byte after the prefix.                                     *)
Text(w, o, e) == SubSeq(w, o + P + 1, e)
Whole(w, o, e) == Prefix \o Text(w, o, e) \o Suffix

LEMMA PatternThere ==
    ASSUME NEW w \in Seq(Byte), RuleInv, NEW o \in Nat,
           NEW e \in (o + 1)..Len(w), IsPattern(w, o, e)
    PROVE  /\ Text(w, o, e) \in Expressions
           /\ Whole(w, o, e) \in Seq(Byte)
           /\ Len(Whole(w, o, e)) = (e - o) + S
           /\ o + P < e /\ e =< Len(w)
           /\ OccursAt(w, o, Whole(w, o, e))
           /\ w[o + P + 1] \in IdentifierStart
           /\ Append(Prefix, w[o + P + 1]) \in Seq(Byte)
           /\ OccursAt(w, o, Append(Prefix, w[o + P + 1]))
<1>. DEFINE a == o + P
            y == Text(w, o, e)
            n == e - a
            b == w[a + 1]
            start == Append(Prefix, b)
            z == Prefix \o y
<1>1. /\ OccursAt(w, o, Prefix) /\ Expression(w, a, e) /\ Stops(w, e)
      /\ OccursAt(w, e, Suffix)
  <2>1. e \in 0..Len(w)
    OBVIOUS
  <2>. QED  BY <2>1, IsPatternIs
<1>2. /\ P \in Nat /\ P > 0 /\ a \in Nat /\ e \in Nat /\ Len(w) \in Nat
      /\ a < e /\ e =< Len(w) /\ n \in Nat /\ n > 0 /\ S \in Nat
      /\ Prefix \in Seq(Byte) /\ Len(Prefix) = P
      /\ Suffix \in Seq(Byte) /\ Len(Suffix) = S
  BY <1>1, RuleFacts DEF Expression, P, S
<1>3. /\ y \in Seq(Byte) /\ Len(y) = n
      /\ \A k \in 1..n : y[k] = w[a + k]
  <2>1. y = SubSeq(w, a + 1, e)
    BY DEF Text
  <2>2. a \in Nat /\ e \in Nat /\ a < e /\ e =< Len(w)
    BY <1>2
  <2>. HIDE DEF a, y
  <2>3. /\ SubSeq(w, a + 1, e) \in Seq(Byte)
        /\ Len(SubSeq(w, a + 1, e)) = e - a
        /\ \A k \in 1..(e - a) : SubSeq(w, a + 1, e)[k] = w[a + k]
    BY ONLY w \in Seq(Byte), <2>2
  <2>. QED  BY <2>1, <2>3
<1>4. b \in IdentifierStart
  BY <1>1 DEF Expression
<1>5. y \in Expressions
  <2>1. y[1] \in IdentifierStart
    BY <1>2, <1>3, <1>4
  <2>2. ASSUME NEW k \in 1..n PROVE y[k] \in IdentifierContinue \cup {Dot}
    <3>1. a + k \in (a + 1)..e
      BY <1>2
    <3>2. w[a + k] \in IdentifierContinue \/ w[a + k] = Dot
      BY <1>1, <3>1 DEF Expression
    <3>. QED  BY <1>3, <3>2
  <2>. HIDE DEF y
  <2>. QED  BY <1>2, <1>3, <2>1, <2>2 DEF Expressions
<1>6. OccursAt(w, a, y)
  <2>. HIDE DEF y
  <2>1. a + n =< Len(w)
    BY <1>2
  <2>. QED  BY <1>3, <2>1 DEF OccursAt
<1>. HIDE DEF y, n
<1>7. z \in Seq(Byte) /\ Len(z) = P + Len(y) /\ OccursAt(w, o, z)
  <2>0. Prefix \in Seq(Byte) /\ Len(Prefix) = P /\ y \in Seq(Byte)
    BY <1>2, <1>3
  <2>1. z \in Seq(Byte) /\ Len(z) = P + Len(y)
    BY ONLY <2>0, ConcatProperties
  <2>2. OccursAt(w, o + Len(Prefix), y)
    BY <1>2, <1>6
  <2>. QED  BY <1>1, <1>2, <1>3, <2>1, <2>2, OccursSplit
<1>8. o + Len(z) = e
  BY <1>2, <1>3, <1>7 DEF n
<1>. HIDE DEF z
<1>9. /\ z \o Suffix \in Seq(Byte) /\ Len(z \o Suffix) = (e - o) + S
      /\ OccursAt(w, o, z \o Suffix)
  <2>0. Suffix \in Seq(Byte) /\ Len(Suffix) = S /\ z \in Seq(Byte)
    BY <1>2, <1>7
  <2>1. z \o Suffix \in Seq(Byte) /\ Len(z \o Suffix) = Len(z) + S
    BY ONLY <2>0, ConcatProperties
  <2>2. OccursAt(w, o + Len(z), Suffix)
    BY <1>1, <1>8
  <2>3. OccursAt(w, o, z \o Suffix)
    BY <1>2, <1>7, <2>2, OccursSplit
  <2>4. /\ o \in Nat /\ e \in Nat /\ S \in Nat /\ Len(z) \in Nat
        /\ o + Len(z) = e
    BY <1>2, <1>7, <1>8
  <2>5. Len(z) + S = (e - o) + S
    BY ONLY <2>4
  <2>. QED  BY <2>1, <2>3, <2>5
<1>10. start \in Seq(Byte) /\ OccursAt(w, o, start)
  <2>1. b \in Byte /\ a + 1 =< Len(w) /\ a + 1 = o + (P + 1)
    BY <1>2
  <2>. HIDE DEF b
  <2>2. /\ start \in Seq(Byte) /\ Len(start) = P + 1 /\ start[P + 1] = b
        /\ \A k \in 1..P : start[k] = Prefix[k]
    BY <1>2, <2>1
  <2>. HIDE DEF start
  <2>3. \A k \in 1..P : w[o + k] = Prefix[k]
    BY <1>1, <1>2 DEF OccursAt
  <2>4. \A k \in 1..(P + 1) : k \in 1..P \/ k = P + 1
    BY <1>2
  <2>5. w[o + (P + 1)] = b
    BY <2>1 DEF b
  <2>6. \A k \in 1..(P + 1) : w[o + k] = start[k]
    BY <2>2, <2>3, <2>4, <2>5
  <2>. QED  BY <2>1, <2>2, <2>6 DEF OccursAt
<1>11. Whole(w, o, e) = z \o Suffix
  BY DEF Whole, z, y
<1>. QED  BY <1>2, <1>4, <1>5, <1>9, <1>10, <1>11 DEF y

(* What a quiet rule writes has no pattern begin in it. *)
LEMMA NoneBegins ==
    ASSUME NEW w \in Seq(Byte), RuleInv, RendersQuietly(rule, Expressions),
           NEW x \in Expressions, Render(x) \in Seq(Byte), NEW i \in Nat,
           OccursAt(w, i, Render(x)), NEW o \in Nat, i =< o,
           o < i + Len(Render(x)), PatternAt(w, o)
    PROVE  FALSE
<1>. DEFINE new == Render(x)
            j   == o - i
<1>1. PICK e \in (o + 1)..Len(w) : IsPattern(w, o, e)
  BY DEF PatternAt
<1>. DEFINE b     == w[o + P + 1]
            start == Append(Prefix, b)
<1>2. b \in IdentifierStart /\ start \in Seq(Byte) /\ OccursAt(w, o, start)
  BY <1>1, PatternThere
<1>. HIDE DEF b
<1>3. j \in 0..(Len(new) - 1) /\ j \in 0..Len(new) /\ i + j = o
  <2>1. Len(new) \in Nat
    OBVIOUS
  <2>. HIDE DEF new
  <2>. QED  BY <2>1 DEF new
<1>4. From(new, j) \in Seq(Byte) /\ OccursAt(w, o, From(new, j))
  BY <1>3, FromThere
<1>5. Agree(From(new, j), start)
  BY <1>2, <1>4, AgreeThere
<1>6. ~Agree(From(new, j), start)
  <2>1. start = Append(rule.prefix, b) /\ new = RenderBy(rule, x)
    BY DEF Prefix, Render
  <2>. HIDE DEF new, j, start
  <2>. QED  BY <1>2, <1>3, <2>1 DEF RendersQuietly
<1>. QED  BY <1>5, <1>6

(* No pattern that began before it goes on in it. *)
LEMMA NoneGoesOn ==
    ASSUME NEW w \in Seq(Byte), RuleInv, RendersQuietly(rule, Expressions),
           NEW x \in Expressions, Render(x) \in Seq(Byte), NEW o \in Nat,
           NEW e \in (o + 1)..Len(w), IsPattern(w, o, e),
           NEW d \in 1..(((e - o) + S) - 1), OccursAt(w, o + d, Render(x))
    PROVE  FALSE
<1>. DEFINE new == Render(x)
            y   == Text(w, o, e)
            old == Whole(w, o, e)
<1>1. /\ y \in Expressions /\ old \in Seq(Byte) /\ Len(old) = (e - o) + S
      /\ OccursAt(w, o, old)
  BY PatternThere
<1>2. old = rule.prefix \o y \o rule.suffix /\ new = RenderBy(rule, x)
  BY DEF Whole, Prefix, Suffix, Render
<1>. HIDE DEF new, y, old
<1>3. d \in 1..(Len(old) - 1) /\ d \in 0..Len(old) /\ o + d \in Nat
  BY <1>1
<1>4. From(old, d) \in Seq(Byte) /\ OccursAt(w, o + d, From(old, d))
  BY <1>1, <1>3, FromThere
<1>5. new \in Seq(Byte) /\ OccursAt(w, o + d, new)
  BY DEF new
<1>6. Agree(new, From(old, d))
  BY <1>3, <1>4, <1>5, AgreeThere
<1>7. ~Agree(new, From(old, d))
  BY <1>1, <1>2, <1>3 DEF RendersQuietly
<1>. QED  BY <1>6, <1>7

(* The expression of a pattern. *)
LEMMA TextOf ==
    ASSUME NEW s \in Seq(Byte), RuleInv, NEW u \in Nat, PatternAt(s, u)
    PROVE  /\ ExpressionOf(s, u) \in Expressions
           /\ Replaced(s, u) = Render(ExpressionOf(s, u))
<1>. DEFINE e == ExpressionEnd(s, u)
<1>1. e \in (u + 1)..Len(s) /\ IsPattern(s, u, e)
  BY DEF PatternAt, ExpressionEnd
<1>2. ExpressionOf(s, u) = Text(s, u, e)
  BY DEF ExpressionOf, Text, P
<1>. HIDE DEF e
<1>3. Text(s, u, e) \in Expressions
  BY <1>1, PatternThere
<1>. QED  BY <1>2, <1>3 DEF Replaced

(* A pattern that is copied was one of the body. *)
LEMMA CopiedWhole ==
    ASSUME NEW s \in Seq(Byte), NEW w \in Seq(Byte), RuleInv, NEW u \in Nat,
           NEW o \in Nat, NEW e \in (o + 1)..Len(w), IsPattern(w, o, e),
           u + ((e - o) + S) =< Len(s),
           \A k \in 1..((e - o) + S) : s[u + k] = w[o + k],
           (u = 0 /\ o = 0) \/ (u > 0 /\ o > 0 /\ s[u] = w[o])
    PROVE  PatternAt(s, u)
<1>. DEFINE n == e - o
            f == u + n
            a == u + P
            c == o + P
<1>1. /\ OccursAt(w, o, Prefix) /\ Expression(w, c, e)
      /\ OccursAt(w, e, Suffix)
      /\ o > 0 => w[o] \notin IdentifierContinue
  <2>1. e \in 0..Len(w)
    OBVIOUS
  <2>. QED  BY <2>1, IsPatternIs
<1>2. /\ P \in Nat /\ P > 0 /\ S \in Nat /\ S > 0 /\ n \in Nat /\ f \in Nat
      /\ a \in Nat /\ c \in Nat /\ e \in Nat /\ Len(s) \in Nat /\ Len(w) \in Nat
      /\ c < e /\ P < n /\ e = o + n /\ f + S =< Len(s) /\ a < f
      /\ Prefix \in Seq(Byte) /\ Len(Prefix) = P
      /\ Suffix \in Seq(Byte) /\ Len(Suffix) = S
  BY <1>1, RuleFacts DEF Expression, P, S
<1>3. \A k \in 1..(n + S) : s[u + k] = w[o + k]
  OBVIOUS
<1>. HIDE DEF n
<1>4. OccursAt(s, u, Prefix)
  <2>1. \A k \in 1..P : k \in 1..(n + S) /\ w[o + k] = Prefix[k]
    BY <1>1, <1>2 DEF OccursAt
  <2>2. u + P =< Len(s)
    BY <1>2
  <2>. QED  BY <1>2, <1>3, <2>1, <2>2 DEF OccursAt
<1>5. OccursAt(s, f, Suffix)
  <2>1. ASSUME NEW k \in 1..S PROVE s[f + k] = Suffix[k]
    <3>1. n + k \in 1..(n + S) /\ f + k = u + (n + k) /\ o + (n + k) = e + k
      BY <1>2
    <3>2. w[e + k] = Suffix[k]
      <4>1. \A i \in 1..Len(Suffix) : w[e + i] = Suffix[i]
        BY <1>1 DEF OccursAt
      <4>. QED  BY <1>2, <4>1
    <3>3. s[u + (n + k)] = w[o + (n + k)]
      BY <1>3, <3>1
    <3>. QED  BY <3>1, <3>2, <3>3
  <2>. QED  BY <1>2, <2>1 DEF OccursAt
<1>6. Stops(s, f)
  <2>1. 1 \in 1..S /\ Suffix[1] = s[f + 1]
    BY <1>2, <1>5 DEF OccursAt
  <2>. QED  BY <2>1, RuleFacts DEF Stops
<1>7. Expression(s, a, f)
  <2>1. ASSUME NEW k \in (P + 1)..n
        PROVE  /\ s[u + k] = w[o + k] /\ o + k \in (c + 1)..e
    <3>1. k \in 1..(n + S) /\ o + k \in (c + 1)..e
      BY <1>2
    <3>. QED  BY <1>3, <3>1
  <2>2. s[a + 1] = w[c + 1] /\ s[f] = w[e]
    <3>1. /\ P + 1 \in (P + 1)..n /\ n \in (P + 1)..n
          /\ u + (P + 1) = a + 1 /\ o + (P + 1) = c + 1
      BY <1>2
    <3>. QED  BY <1>2, <2>1, <3>1
  <2>3. ASSUME NEW i \in (a + 1)..f
        PROVE  /\ i - u \in (P + 1)..n /\ u + (i - u) = i
               /\ s[i] = w[o + (i - u)] /\ o + (i - u) \in (c + 1)..e
    <3>1. i - u \in (P + 1)..n /\ u + (i - u) = i
      BY <1>2
    <3>. QED  BY <2>1, <3>1
  <2>4. ASSUME NEW i \in (a + 1)..f
        PROVE  s[i] \in IdentifierContinue \/ (MemberSyntax /\ s[i] = Dot)
    BY <1>1, <2>3 DEF Expression
  <2>5. ASSUME NEW i \in (a + 2)..f, s[i - 1] = Dot PROVE s[i] \in IdentifierStart
    <3>1. i \in (a + 1)..f /\ i - 1 \in (a + 1)..f
      BY <1>2
    <3>2. /\ o + (i - u) \in (c + 2)..e
          /\ (o + (i - u)) - 1 = o + ((i - 1) - u)
      BY <1>2
    <3>3. s[i] = w[o + (i - u)] /\ s[i - 1] = w[o + ((i - 1) - u)]
      BY <2>3, <3>1
    <3>4. w[(o + (i - u)) - 1] = Dot
      BY <2>5, <3>2, <3>3
    <3>. QED  BY <1>1, <3>2, <3>3, <3>4 DEF Expression
  <2>6. a < f /\ f =< Len(s) /\ s[a + 1] \in IdentifierStart /\ s[f] # Dot
    <3>1. w[c + 1] \in IdentifierStart /\ w[e] # Dot
      BY <1>1 DEF Expression
    <3>2. a < f /\ f =< Len(s)
      BY <1>2
    <3>. QED  BY <2>2, <3>1, <3>2
  <2>. HIDE DEF a, f
  <2>. QED  BY <2>4, <2>5, <2>6 DEF Expression
<1>8. IsPattern(s, u, f)
  <2>1. f \in 0..Len(s)
    BY <1>2
  <2>2. u > 0 => s[u] \notin IdentifierContinue
    <3>1. u = 0 \/ (o > 0 /\ s[u] = w[o])
      OBVIOUS
    <3>. HIDE DEF a, c, f
    <3>. QED  BY <1>1, <3>1
  <2>. QED  BY <1>4, <1>5, <1>6, <1>7, <2>1, <2>2, IsPatternIs
<1>9. f \in (u + 1)..Len(s)
  BY <1>2
<1>. QED  BY <1>8, <1>9 DEF PatternAt

(* There is no pattern left. *)
LEMMA NoneLeft ==
    ASSUME NEW s \in Seq(Byte), NEW w \in Seq(Byte), RuleInv,
           RendersQuietly(rule, Expressions),
           NEW rest, IsRest(rest, s), Image(rest, s, w, 0, 0), NEW o \in Nat
    PROVE  ~PatternAt(w, o)
<1>. SUFFICES ASSUME PatternAt(w, o) PROVE FALSE
  OBVIOUS
<1>1. PICK e \in (o + 1)..Len(w) : IsPattern(w, o, e)
  BY DEF PatternAt
<1>. DEFINE l == (e - o) + S
<1>2. o < Len(w) /\ l \in Nat /\ l > 0 /\ o + l =< Len(w) /\ l = (e - o) + S
  <2>1. /\ Len(Whole(w, o, e)) = (e - o) + S
        /\ OccursAt(w, o, Whole(w, o, e))
    BY <1>1, PatternThere
  <2>2. S \in Nat
    BY RuleFacts
  <2>3. o + ((e - o) + S) =< Len(w)
    BY <2>1 DEF OccursAt
  <2>. QED  BY <2>2, <2>3
<1>. HIDE DEF l
<1>3. PICK u \in Nat, i \in 0..o :
        /\ u # Len(s) /\ Image(rest, s, w, u, i)
        /\ IF PatternAt(s, u) THEN o < i + Len(Replaced(s, u)) ELSE i = o
  BY <1>2, Covered
<1>4. CASE PatternAt(s, u)
  <2>. DEFINE x == ExpressionOf(s, u)
  <2>1. x \in Expressions /\ Replaced(s, u) = Render(x)
    BY <1>4, TextOf
  <2>2. Render(x) \in Seq(Byte) /\ OccursAt(w, i, Render(x))
    BY <1>3, <1>4, <2>1, ImageWritten
  <2>3. o < i + Len(Render(x)) /\ i \in Nat /\ i =< o
    BY <1>3, <1>4, <2>1
  <2>. HIDE DEF x
  <2>. QED  BY <2>1, <2>2, <2>3, NoneBegins
<1>5. CASE ~PatternAt(s, u)
  <2>. DEFINE Copied(d) == /\ Image(rest, s, w, u + d, o + d)
                           /\ \A k \in 1..d : s[u + k] = w[o + k]
              T == {d \in Nat : d =< l => Copied(d)}
  <2>1. Image(rest, s, w, u, o)
    BY <1>3, <1>5
  <2>2. Copied(0)
    <3>1. u + 0 = u /\ o + 0 = o
      OBVIOUS
    <3>. QED  BY <2>1, <3>1
  <2>3. ASSUME NEW d \in Nat, d + 1 =< l, Copied(d) PROVE Copied(d + 1)
    <3>1. Image(rest, s, w, u + d, o + d)
      BY <2>3
    <3>2. /\ u + (d + 1) = (u + d) + 1 /\ o + (d + 1) = (o + d) + 1
          /\ u + d \in Nat /\ o + d \in Nat
      OBVIOUS
    <3>3. u + d # Len(s)
      <4>1. ASSUME u + d = Len(s) PROVE FALSE
        <5>1. o + d = Len(w)
          BY <3>1, <4>1, ImageEnd
        <5>. QED  BY <1>2, <2>3, <5>1
      <4>. QED  BY <4>1
    <3>4. ~PatternAt(s, u + d)
      <4>1. ASSUME PatternAt(s, u + d) PROVE FALSE
        <5>. DEFINE v == u + d
                    x == ExpressionOf(s, v)
        <5>1. d # 0
          <6>1. d = 0 => u + d = u
            OBVIOUS
          <6>. QED  BY <1>5, <4>1, <6>1
        <5>2. d \in 1..(l - 1)
          BY <1>2, <2>3, <5>1
        <5>3. v \in Nat /\ PatternAt(s, v) /\ Image(rest, s, w, v, o + d)
          BY <3>1, <3>2, <4>1
        <5>. HIDE DEF v
        <5>4. x \in Expressions /\ Replaced(s, v) = Render(x)
          BY <5>3, TextOf
        <5>5. Render(x) \in Seq(Byte) /\ OccursAt(w, o + d, Render(x))
          BY <5>3, <5>4, ImageWritten
        <5>. HIDE DEF x
        <5>6. d \in 1..(((e - o) + S) - 1)
          BY <5>2 DEF l
        <5>. QED  BY <1>1, <5>4, <5>5, <5>6, NoneGoesOn
      <4>. QED  BY <4>1
    <3>5. /\ w[(o + d) + 1] = s[(u + d) + 1]
          /\ Image(rest, s, w, (u + d) + 1, (o + d) + 1)
      BY <3>1, <3>3, <3>4, ImageCopied
    <3>6. ASSUME NEW k \in 1..(d + 1) PROVE s[u + k] = w[o + k]
      <4>1. CASE k \in 1..d
        BY <2>3, <4>1
      <4>2. CASE k = d + 1
        BY <3>2, <3>5, <4>2
      <4>. QED  BY <4>1, <4>2
    <3>. QED  BY <3>2, <3>5, <3>6
  <2>. HIDE DEF Copied
  <2>4. 0 \in T /\ \A d \in Nat : d \in T => d + 1 \in T
    BY <1>2, <2>2, <2>3
  <2>5. Nat \subseteq T
    <3>. HIDE DEF T
    <3>. QED  BY <2>4, SetInduction
  <2>6. Copied(l)
    BY <1>2, <2>5
  <2>7. /\ u + l =< Len(s) /\ \A k \in 1..l : s[u + k] = w[o + k]
    <3>1. Image(rest, s, w, u + l, o + l) /\ \A k \in 1..l : s[u + k] = w[o + k]
      BY <2>6 DEF Copied
    <3>2. u + l \in 0..Len(s)
      BY <3>1 DEF Image
    <3>. QED  BY <3>1, <3>2
  <2>8. (u = 0 /\ o = 0) \/ (u > 0 /\ o > 0 /\ s[u] = w[o])
    BY <2>1 DEF Image
  <2>9. PatternAt(s, u)
    BY <1>1, <2>7, <2>8, CopiedWhole DEF l
  <2>. QED  BY <1>5, <2>9
<1>. QED  BY <1>4, <1>5

(* The rewritten body is its own rewriting. *)
LEMMA RewrittenAgain ==
    ASSUME NEW s \in Seq(Byte), RuleInv, RendersQuietly(rule, Expressions)
    PROVE  Rewritten(Rewritten(s)) = Rewritten(s)
<1>. DEFINE w == Rewritten(s)
            n == Len(w)
<1>1. PICK rest : IsRest(rest, s)
  BY RewrittenIs DEF IsRest
<1>2. w \in Seq(Byte) /\ Image(rest, s, w, 0, 0)
  BY <1>1, ImageStart
<1>. HIDE DEF w
<1>3. n \in Nat /\ \A o \in Nat : ~PatternAt(w, o)
  BY <1>1, <1>2, NoneLeft
<1>4. PICK again : IsRest(again, w)
  BY <1>2, RewrittenIs DEF IsRest
<1>5. again[0] = SubSeq(w, 1, n) \o again[n]
  <2>1. 0 + n = n /\ 0 + 1 = 1 /\ \A r \in 0..(0 + n - 1) : r \in Nat
    BY <1>3
  <2>2. \A r \in 0..(0 + n - 1) : ~PatternAt(w, r)
    BY <1>3, <2>1
  <2>3. again[0] = SubSeq(w, 0 + 1, 0 + n) \o again[0 + n]
    <3>1. 0 + n =< Len(w) /\ 0 \in Nat /\ n \in Nat
      BY <1>3
    <3>2. w \in Seq(Byte) /\ IsRest(again, w)
      BY <1>2, <1>4
    <3>. HIDE DEF n
    <3>3. StaysAsIs(again, w, 0)
      BY ONLY RuleInv, <3>1, <3>2, SkipRest
    <3>. QED  BY ONLY <2>2, <3>1, <3>3, Zenon DEF StaysAsIs
  <2>. QED  BY <2>1, <2>3
<1>6. again[n] = <<>>
  <2>1. n \in 0..n
    BY <1>3
  <2>2. again[n] = RestAt(w, n, again)
    BY <1>4, <2>1 DEF IsRest
  <2>. QED  BY <2>2, RestAtIs
<1>7. SubSeq(w, 1, n) = w
  BY <1>2
<1>8. Rewritten(w) = again[0]
  BY <1>4 DEF IsRest
<1>9. Rewritten(w) = w
  <2>1. again[0] = w \o <<>>
    BY <1>5, <1>6, <1>7
  <2>2. w \o <<>> = w
    BY ONLY <1>2
  <2>. QED  BY <1>8, <2>1, <2>2
<1>. QED  BY <1>9 DEF w

(* A body that a rule has rewritten is left as it is by a second pass, when *)
(* what the rule writes makes no pattern: process_available returns it byte *)
(* for byte, for every body and wherever both passes cut it.                *)
THEOREM IdempotentWhenQuiet ==
    (\A r \in Rules : RendersQuietly(r, Expressions)) => (Spec => []Idempotent)
<1>. SUFFICES ASSUME \A r \in Rules : RendersQuietly(r, Expressions)
              PROVE  Spec => []Idempotent
  OBVIOUS
<1>1. BufferInv /\ OutputIsRewritten => Idempotent
  <2>. SUFFICES ASSUME BufferInv, OutputIsRewritten, Done
                PROVE  Rewritten(output) = output
    BY DEF Idempotent
  <2>1. output = Rewritten(input)
    BY DEF OutputIsRewritten
  <2>2. input \in Seq(Byte) /\ RuleInv
    BY DEF BufferInv
  <2>3. RendersQuietly(rule, Expressions)
    BY <2>2 DEF RuleInv
  <2>. QED  BY <2>1, <2>2, <2>3, RewrittenAgain
<1>. QED  BY <1>1, Invariants, OutputCorrect, PTL
=============================================================================
