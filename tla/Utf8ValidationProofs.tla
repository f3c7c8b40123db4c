------------------------ MODULE Utf8ValidationProofs ------------------------
(***************************************************************************)
(* Facts about Utf8Validation, for any classes of bytes: what is a text,   *)
(* or begins one, is a matter of single bytes and those before them, so    *)
(* that it holds of parts and of what parts are put together to; and the   *)
(* check of a stage, chunk by chunk, is right about all that has arrived.  *)
(***************************************************************************)
EXTENDS Utf8Validation, ByteSlicesProofs

-----------------------------------------------------------------------------
(* Text, byte by byte                                                      *)

(* Position j is in the character that begins at position i, behind it.     *)
Within(s, i, j) == s[i] \in Lead /\ i < j /\ j < i + LeadLength[s[i]]

(* All bytes of s are where they may be in a text that begins with s; and   *)
(* the last character is all there.                                        *)
Fits(s) ==
    /\ \A i \in 1..Len(s) : s[i] \in Ascii \cup Trail \cup Lead
    /\ \A i, j \in 1..Len(s) : Within(s, i, j) =>
         s[j] \in Trail /\ (j = i + 1 => s[j] \in SecondByte[s[i]])
    /\ \A j \in 1..Len(s) : s[j] \in Trail => \E i \in 1..Len(s) : Within(s, i, j)
Complete(s) ==
    \A i \in 1..Len(s) : s[i] \in Lead => i + LeadLength[s[i]] - 1 =< Len(s)
Text(s) == Fits(s) /\ Complete(s)

LEMMA LeadIs ==
    ASSUME NEW b \in Lead
    PROVE  /\ LeadLength[b] \in 2..4 /\ SecondByte[b] \subseteq Trail
           /\ b \notin Trail /\ b \notin Ascii /\ b \notin Invalid /\ b \in Byte
BY Utf8Assumption DEF Byte

LEMMA NoText == Text(<<>>)
BY DEF Text, Fits, Complete

LEMMA AsciiIsText ==
    ASSUME NEW s \in Seq(Byte), \A i \in 1..Len(s) : s[i] \in Ascii
    PROVE  Text(s)
<1>1. \A i \in 1..Len(s) : s[i] \notin Lead /\ s[i] \notin Trail
  BY Utf8Assumption
<1>. QED  BY <1>1 DEF Text, Fits, Complete, Within

LEMMA FitsStart ==
    ASSUME NEW t \in Seq(Byte), NEW s \in Seq(Byte), StartsWith(t, s), Fits(t)
    PROVE  Fits(s)
<1>1. /\ Len(s) =< Len(t) /\ \A i \in 1..Len(s) : t[i] = s[i]
      /\ Len(s) \in Nat /\ Len(t) \in Nat
  BY StartsIs
<1>2. \A i \in 1..Len(s) : i \in 1..Len(t)
  BY <1>1
<1>3. \A i, j \in 1..Len(s) : Within(t, i, j) <=> Within(s, i, j)
  BY <1>1 DEF Within
<1>4. \A i \in 1..Len(s) : s[i] \in Ascii \cup Trail \cup Lead
  BY <1>1, <1>2 DEF Fits
<1>5. \A i, j \in 1..Len(s) : Within(s, i, j) =>
         s[j] \in Trail /\ (j = i + 1 => s[j] \in SecondByte[s[i]])
  BY <1>1, <1>2, <1>3 DEF Fits
<1>6. ASSUME NEW j \in 1..Len(s), s[j] \in Trail
      PROVE  \E i \in 1..Len(s) : Within(s, i, j)
  <2>1. PICK i \in 1..Len(t) : Within(t, i, j)
    BY <1>1, <1>2, <1>6 DEF Fits
  <2>2. i \in 1..Len(s)
    BY <1>1, <2>1 DEF Within
  <2>. QED  BY <1>3, <2>1, <2>2
<1>. QED  BY <1>4, <1>5, <1>6 DEF Fits

(* The bytes of a and b, one after the other.                              *)
LEMMA Joined ==
    ASSUME NEW a \in Seq(Byte), NEW b \in Seq(Byte)
    PROVE  /\ a \o b \in Seq(Byte)
           /\ Len(a) \in Nat /\ Len(b) \in Nat /\ Len(a \o b) = Len(a) + Len(b)
           /\ \A i \in 1..Len(a) : (a \o b)[i] = a[i]
           /\ \A i \in 1..Len(b) : (a \o b)[Len(a) + i] = b[i]
           /\ \A i \in 1..Len(a \o b) :
                i \in 1..Len(a) \/ \E k \in 1..Len(b) : i = Len(a) + k
<1>. DEFINE m == Len(a)
            n == Len(b)
<1>1. /\ a \o b \in Seq(Byte) /\ Len(a \o b) = m + n /\ m \in Nat /\ n \in Nat
      /\ \A i \in 1..(m + n) : (a \o b)[i] = IF i =< m THEN a[i] ELSE b[i - m]
  BY ConcatProperties
<1>. HIDE DEF m, n
<1>2. \A i \in 1..m : (a \o b)[i] = a[i]
  BY <1>1
<1>3. ASSUME NEW i \in 1..n PROVE (a \o b)[m + i] = b[i]
  <2>1. m + i \in 1..(m + n) /\ ~(m + i =< m) /\ m + i - m = i
    BY <1>1
  <2>. QED  BY <1>1, <2>1
<1>4. ASSUME NEW i \in 1..(m + n), i \notin 1..m PROVE \E k \in 1..n : i = m + k
  <2>1. i - m \in 1..n /\ i = m + (i - m)
    BY <1>1, <1>4
  <2>. QED  BY <2>1
<1>. QED  BY <1>1, <1>2, <1>3, <1>4 DEF m, n

LEMMA WithinJoined ==
    ASSUME NEW a \in Seq(Byte), NEW b \in Seq(Byte)
    PROVE  /\ \A i, j \in 1..Len(a) : Within(a \o b, i, j) <=> Within(a, i, j)
           /\ \A i, j \in 1..Len(b) :
                Within(a \o b, Len(a) + i, Len(a) + j) <=> Within(b, i, j)
           /\ Complete(a) => \A i \in 1..Len(a), j \in 1..Len(b) :
                ~Within(a \o b, i, Len(a) + j)
           /\ \A i \in 1..Len(b), j \in 1..Len(a) : ~Within(a \o b, Len(a) + i, j)
<1>. DEFINE m == Len(a)
            n == Len(b)
            c == a \o b
<1>1. /\ m \in Nat /\ n \in Nat
      /\ \A i \in 1..m : c[i] = a[i]
      /\ \A i \in 1..n : c[m + i] = b[i]
  BY Joined
<1>. HIDE DEF m, n, c
<1>2. \A i, j \in 1..m : Within(c, i, j) <=> Within(a, i, j)
  BY <1>1 DEF Within
<1>3. ASSUME NEW i \in 1..n, NEW j \in 1..n
      PROVE  Within(c, m + i, m + j) <=> Within(b, i, j)
  <2>1. c[m + i] = b[i]
    BY <1>1
  <2>2. CASE b[i] \in Lead
    <3>1. LeadLength[b[i]] \in 2..4
      BY <2>2, LeadIs
    <3>. DEFINE k == LeadLength[b[i]]
    <3>2. k \in Nat
      BY <3>1
    <3>. HIDE DEF k
    <3>3. m + i < m + j <=> i < j
      BY <1>1
    <3>4. m + j < m + i + k <=> j < i + k
      BY <1>1, <3>2
    <3>. QED  BY <2>1, <2>2, <3>3, <3>4 DEF Within, k
  <2>. QED  BY <2>1, <2>2 DEF Within
<1>4. ASSUME Complete(a), NEW i \in 1..m, NEW j \in 1..n
      PROVE  ~Within(c, i, m + j)
  <2>. SUFFICES ASSUME a[i] \in Lead, m + j < i + LeadLength[a[i]] PROVE FALSE
    BY <1>1 DEF Within
  <2>. DEFINE k == LeadLength[a[i]]
  <2>1. i + k - 1 =< m
    BY <1>4 DEF Complete, m
  <2>2. k \in Nat /\ m + j < i + k
    BY LeadIs
  <2>. HIDE DEF k
  <2>. QED  BY <1>1, <2>1, <2>2
<1>5. \A i \in 1..n, j \in 1..m : ~Within(c, m + i, j)
  BY <1>1 DEF Within
<1>. QED  BY <1>2, <1>3, <1>4, <1>5 DEF m, n, c

LEMMA FitsJoined ==
    ASSUME NEW a \in Seq(Byte), NEW b \in Seq(Byte), Text(a), Fits(b)
    PROVE  Fits(a \o b)
<1>. DEFINE m == Len(a)
            n == Len(b)
            c == a \o b
<1>1. /\ m \in Nat /\ n \in Nat /\ Len(c) = m + n
      /\ \A i \in 1..m : c[i] = a[i]
      /\ \A i \in 1..n : c[m + i] = b[i]
      /\ \A i \in 1..Len(c) : i \in 1..m \/ \E k \in 1..n : i = m + k
  BY Joined
<1>2. /\ \A i, j \in 1..m : Within(c, i, j) <=> Within(a, i, j)
      /\ \A i, j \in 1..n : Within(c, m + i, m + j) <=> Within(b, i, j)
      /\ \A i \in 1..m, j \in 1..n : ~Within(c, i, m + j)
      /\ \A i \in 1..n, j \in 1..m : ~Within(c, m + i, j)
  BY WithinJoined DEF Text
<1>3. Fits(a) /\ Fits(b)
  BY DEF Text
<1>. HIDE DEF c
<1>4. \A i \in 1..m : a[i] \in Ascii \cup Trail \cup Lead
  BY <1>3 DEF Fits
<1>5. \A i \in 1..n : b[i] \in Ascii \cup Trail \cup Lead
  BY <1>3 DEF Fits
<1>6. \A i \in 1..Len(c) : c[i] \in Ascii \cup Trail \cup Lead
  BY <1>1, <1>4, <1>5
<1>7. ASSUME NEW i \in 1..Len(c), NEW j \in 1..Len(c), Within(c, i, j)
      PROVE  c[j] \in Trail /\ (j = i + 1 => c[j] \in SecondByte[c[i]])
  <2>1. CASE i \in 1..m /\ j \in 1..m
    BY <1>1, <1>2, <1>3, <1>7, <2>1 DEF Fits
  <2>2. ASSUME NEW k \in 1..n, NEW l \in 1..n, i = m + k, j = m + l
        PROVE  c[j] \in Trail /\ (j = i + 1 => c[j] \in SecondByte[c[i]])
    <3>1. Within(b, k, l)
      BY <1>2, <1>7, <2>2
    <3>2. b[l] \in Trail /\ (l = k + 1 => b[l] \in SecondByte[b[k]])
      BY <1>3, <3>1 DEF Fits
    <3>3. j = i + 1 => l = k + 1
      BY <1>1, <2>2
    <3>. QED  BY <1>1, <2>2, <3>2, <3>3
  <2>3. ASSUME i \in 1..m, NEW l \in 1..n, j = m + l PROVE FALSE
    BY <1>2, <1>7, <2>3
  <2>4. ASSUME NEW k \in 1..n, i = m + k, j \in 1..m PROVE FALSE
    BY <1>2, <1>7, <2>4
  <2>. QED  BY <1>1, <2>1, <2>2, <2>3, <2>4
<1>8. ASSUME NEW j \in 1..Len(c), c[j] \in Trail
      PROVE  \E i \in 1..Len(c) : Within(c, i, j)
  <2>1. CASE j \in 1..m
    <3>1. PICK i \in 1..m : Within(a, i, j)
      BY <1>1, <1>3, <1>8, <2>1 DEF Fits
    <3>2. i \in 1..Len(c)
      BY <1>1
    <3>. QED  BY <1>2, <2>1, <3>1, <3>2
  <2>2. ASSUME NEW l \in 1..n, j = m + l PROVE \E i \in 1..Len(c) : Within(c, i, j)
    <3>1. PICK k \in 1..n : Within(b, k, l)
      BY <1>1, <1>3, <1>8, <2>2 DEF Fits
    <3>2. m + k \in 1..Len(c)
      BY <1>1
    <3>. QED  BY <1>2, <2>2, <3>1, <3>2
  <2>. QED  BY <1>1, <2>1, <2>2
<1>. QED  BY <1>6, <1>7, <1>8 DEF Fits, c

LEMMA CompleteJoined ==
    ASSUME NEW a \in Seq(Byte), NEW b \in Seq(Byte), Complete(a)
    PROVE  Complete(b) <=> Complete(a \o b)
<1>. DEFINE m == Len(a)
            n == Len(b)
            c == a \o b
<1>1. /\ m \in Nat /\ n \in Nat /\ Len(c) = m + n
      /\ \A i \in 1..m : c[i] = a[i]
      /\ \A i \in 1..n : c[m + i] = b[i]
      /\ \A i \in 1..Len(c) : i \in 1..m \/ \E k \in 1..n : i = m + k
  BY Joined
<1>. HIDE DEF c
<1>2. ASSUME NEW i \in 1..m, c[i] \in Lead PROVE i + LeadLength[c[i]] - 1 =< Len(c)
  <2>. DEFINE k == LeadLength[a[i]]
  <2>1. a[i] \in Lead /\ c[i] = a[i]
    BY <1>1, <1>2
  <2>2. i + k - 1 =< m /\ k \in Nat
    BY <2>1, LeadIs DEF Complete
  <2>. HIDE DEF k, m, n
  <2>3. i + k - 1 =< m + n
    BY <1>1, <2>2
  <2>. QED  BY <1>1, <2>1, <2>3 DEF k
<1>3. ASSUME NEW i \in 1..n, b[i] \in Lead
      PROVE  /\ m + i \in 1..Len(c) /\ c[m + i] = b[i]
             /\ (i + LeadLength[b[i]] - 1 =< n <=>
                   m + i + LeadLength[b[i]] - 1 =< Len(c))
  <2>. DEFINE k == LeadLength[b[i]]
  <2>1. k \in Nat
    BY <1>3, LeadIs
  <2>. HIDE DEF k, m, n
  <2>2. m + i \in 1..Len(c) /\ (i + k - 1 =< n <=> m + i + k - 1 =< Len(c))
    BY <1>1, <2>1
  <2>. QED  BY <1>1, <2>2 DEF k
<1>4. Complete(b) => Complete(c)
  <2>. SUFFICES ASSUME Complete(b), NEW i \in 1..Len(c), c[i] \in Lead
                PROVE  i + LeadLength[c[i]] - 1 =< Len(c)
    BY DEF Complete
  <2>1. CASE i \in 1..m
    BY <1>2, <2>1
  <2>2. ASSUME NEW k \in 1..n, i = m + k PROVE i + LeadLength[c[i]] - 1 =< Len(c)
    <3>1. b[k] \in Lead /\ c[i] = b[k]
      BY <1>1, <2>2
    <3>2. k + LeadLength[b[k]] - 1 =< n
      BY <3>1 DEF Complete
    <3>. QED  BY <1>3, <2>2, <3>1, <3>2
  <2>. QED  BY <1>1, <2>1, <2>2
<1>5. Complete(c) => Complete(b)
  <2>. SUFFICES ASSUME Complete(c), NEW i \in 1..n, b[i] \in Lead
                PROVE  i + LeadLength[b[i]] - 1 =< n
    BY DEF Complete
  <2>1. m + i \in 1..Len(c) /\ c[m + i] = b[i]
    BY <1>3
  <2>2. m + i + LeadLength[b[i]] - 1 =< Len(c)
    BY <2>1 DEF Complete
  <2>. QED  BY <1>3, <2>2
<1>. QED  BY <1>4, <1>5 DEF c

LEMMA FitsBehind ==
    ASSUME NEW a \in Seq(Byte), NEW b \in Seq(Byte), Complete(a), Fits(a \o b)
    PROVE  Fits(b)
<1>. DEFINE m == Len(a)
            n == Len(b)
            c == a \o b
<1>1. /\ m \in Nat /\ n \in Nat /\ Len(c) = m + n
      /\ \A i \in 1..n : c[m + i] = b[i]
      /\ \A i \in 1..Len(c) : i \in 1..m \/ \E k \in 1..n : i = m + k
  BY Joined
<1>2. /\ \A i, j \in 1..n : Within(c, m + i, m + j) <=> Within(b, i, j)
      /\ \A i \in 1..m, j \in 1..n : ~Within(c, i, m + j)
  BY WithinJoined
<1>. HIDE DEF c
<1>3. \A i \in 1..n : m + i \in 1..Len(c)
  BY <1>1
<1>4. Fits(c)
  BY DEF c
<1>5. \A i \in 1..n : b[i] \in Ascii \cup Trail \cup Lead
  BY <1>1, <1>3, <1>4 DEF Fits
<1>6. ASSUME NEW i \in 1..n, NEW j \in 1..n, Within(b, i, j)
      PROVE  b[j] \in Trail /\ (j = i + 1 => b[j] \in SecondByte[b[i]])
  <2>1. Within(c, m + i, m + j) /\ m + i \in 1..Len(c) /\ m + j \in 1..Len(c)
    BY <1>2, <1>3, <1>6
  <2>2. c[m + j] \in Trail /\ (m + j = m + i + 1 => c[m + j] \in SecondByte[c[m + i]])
    BY <1>4, <2>1 DEF Fits
  <2>3. j = i + 1 => m + j = m + i + 1
    BY <1>1
  <2>. QED  BY <1>1, <2>2, <2>3
<1>7. ASSUME NEW j \in 1..n, b[j] \in Trail PROVE \E i \in 1..n : Within(b, i, j)
  <2>1. c[m + j] \in Trail /\ m + j \in 1..Len(c)
    BY <1>1, <1>3, <1>7
  <2>2. PICK i \in 1..Len(c) : Within(c, i, m + j)
    BY <1>4, <2>1 DEF Fits
  <2>3. PICK k \in 1..n : i = m + k
    BY <1>1, <1>2, <2>2
  <2>. QED  BY <1>2, <2>2, <2>3
<1>. QED  BY <1>5, <1>6, <1>7 DEF Fits

(* Text is put together and taken apart at the ends of characters.         *)
LEMMA TextJoined ==
    ASSUME NEW a \in Seq(Byte), NEW b \in Seq(Byte), Text(a)
    PROVE  /\ Fits(b) <=> Fits(a \o b)
           /\ Text(b) <=> Text(a \o b)
<1>1. Complete(a)
  BY DEF Text
<1>. QED  BY <1>1, FitsJoined, FitsBehind, CompleteJoined DEF Text

-----------------------------------------------------------------------------
(* Characters                                                              *)

LEMMA PartFits ==
    ASSUME NEW s \in Seq(Byte), IsPartOfCharacter(s)
    PROVE  /\ Fits(s)
           /\ s[1] \in Lead /\ Len(s) =< LeadLength[s[1]] /\ Len(s) \in 1..4
           /\ Complete(s) <=> Len(s) = LeadLength[s[1]]
<1>. DEFINE k == LeadLength[s[1]]
            n == Len(s)
<1>1. /\ n > 0 /\ n \in Nat /\ s[1] \in Lead /\ n =< k
      /\ n > 1 => s[2] \in SecondByte[s[1]]
      /\ \A i \in 2..n : s[i] \in Trail
  BY DEF IsPartOfCharacter
<1>2. k \in 2..4
  BY <1>1, LeadIs
<1>. HIDE DEF n, k
<1>3. n \in 1..4 /\ 1 \in 1..n
  BY <1>1, <1>2
<1>4. \A i \in 1..n : i = 1 \/ i \in 2..n
  BY <1>1
<1>5. \A i \in 2..n : s[i] \notin Lead
  BY <1>1, Utf8Assumption
<1>6. \A i \in 1..n : s[i] \in Ascii \cup Trail \cup Lead
  BY <1>1, <1>4
<1>7. ASSUME NEW i \in 1..n, NEW j \in 1..n, Within(s, i, j)
      PROVE  s[j] \in Trail /\ (j = i + 1 => s[j] \in SecondByte[s[i]])
  <2>1. i = 1 /\ j \in 2..n /\ (j = i + 1 => j = 2 /\ n > 1)
    <3>1. i = 1 /\ i < j
      BY <1>4, <1>5, <1>7 DEF Within
    <3>. QED  BY <1>1, <3>1
  <2>. QED  BY <1>1, <2>1
<1>8. ASSUME NEW j \in 1..n, s[j] \in Trail PROVE \E i \in 1..n : Within(s, i, j)
  <2>1. s[1] \notin Trail
    BY <1>1, LeadIs
  <2>2. j \in 2..n
    BY <1>4, <1>8, <2>1
  <2>3. Within(s, 1, j)
    BY <1>1, <1>2, <2>2 DEF Within, k
  <2>. QED  BY <1>3, <2>3
<1>9. Fits(s)
  BY <1>6, <1>7, <1>8 DEF Fits, n
<1>10. Complete(s) <=> n = k
  <2>1. Complete(s) <=> 1 + k - 1 =< n
    BY <1>1, <1>3, <1>4, <1>5 DEF Complete, n, k
  <2>. QED  BY <1>1, <1>2, <2>1
<1>. QED  BY <1>1, <1>3, <1>9, <1>10 DEF n, k

LEMMA CharacterIsText ==
    ASSUME NEW s \in Seq(Byte), IsCharacter(s)
    PROVE  Text(s) /\ Len(s) \in 1..4
<1>1. CASE Len(s) = 1 /\ s[1] \in Ascii
  <2>1. \A i \in 1..Len(s) : s[i] \in Ascii
    BY <1>1
  <2>. QED  BY <1>1, <2>1, AsciiIsText
<1>2. CASE IsPartOfCharacter(s) /\ Len(s) = LeadLength[s[1]]
  BY <1>2, PartFits DEF Text
<1>. QED  BY <1>1, <1>2 DEF IsCharacter

(* What fits begins with a character, or is the beginning of one.          *)
LEMMA FitsBegins ==
    ASSUME NEW s \in Seq(Byte), Fits(s), Len(s) > 0
    PROVE  \/ \E n \in 1..4 : n =< Len(s) /\ IsCharacter(First(s, n))
           \/ IsPartOfCharacter(s) /\ Len(s) < LeadLength[s[1]]
<1>0. Len(s) \in Nat /\ 1 \in 1..Len(s)
  OBVIOUS
<1>1. s[1] \notin Trail
  <2>1. \A i \in 1..Len(s) : ~Within(s, i, 1)
    BY DEF Within
  <2>. QED  BY <1>0, <2>1 DEF Fits
<1>2. s[1] \in Ascii \/ s[1] \in Lead
  BY <1>0, <1>1 DEF Fits
<1>3. CASE s[1] \in Ascii
  <2>1. Len(First(s, 1)) = 1 /\ First(s, 1)[1] = s[1]
    <3>1. 1 \in 0..Len(s) /\ 1 \in 1..1
      BY <1>0
    <3>. QED  BY <3>1, FirstSlice
  <2>2. IsCharacter(First(s, 1)) /\ 1 \in 1..4 /\ 1 =< Len(s)
    BY <1>0, <1>3, <2>1 DEF IsCharacter
  <2>. QED  BY <2>2
<1>4. CASE s[1] \in Lead
  <2>. DEFINE k == LeadLength[s[1]]
              Part(m) == IsPartOfCharacter(First(s, m)) /\ Len(First(s, m)) = m
                         /\ First(s, m)[1] = s[1]
  <2>1. k \in 2..4
    BY <1>4, LeadIs
  <2>2. ASSUME NEW j \in 2..Len(s), j =< k
        PROVE  s[j] \in Trail /\ (j = 2 => s[j] \in SecondByte[s[1]])
    <3>1. Within(s, 1, j) /\ j \in 1..Len(s)
      BY <1>4, <2>1, <2>2 DEF Within
    <3>2. s[j] \in Trail /\ (j = 1 + 1 => s[j] \in SecondByte[s[1]])
      BY <1>0, <3>1 DEF Fits
    <3>. QED  BY <3>2
  <2>3. ASSUME NEW m \in 1..Len(s), m =< k PROVE Part(m)
    <3>. DEFINE t == First(s, m)
    <3>1. Len(t) = m /\ \A i \in 1..m : t[i] = s[i]
      BY <2>3, FirstSlice
    <3>. HIDE DEF t, k
    <3>2. 1 \in 1..m /\ m \in Nat /\ m > 0
      BY <2>3
    <3>3. t[1] = s[1]
      BY <3>1, <3>2
    <3>4. \A i \in 2..m : t[i] \in Trail /\ (i = 2 => t[i] \in SecondByte[s[1]])
      <4>. TAKE i \in 2..m
      <4>1. i \in 1..m /\ i \in 2..Len(s) /\ i =< k
        BY <1>0, <2>1, <2>3
      <4>. QED  BY <2>2, <3>1, <4>1
    <3>5. m > 1 => 2 \in 2..m
      BY <3>2
    <3>6. Len(t) =< LeadLength[t[1]]
      BY <2>3, <3>1, <3>3 DEF k
    <3>7. IsPartOfCharacter(t)
      BY <1>4, <3>1, <3>2, <3>3, <3>4, <3>5, <3>6 DEF IsPartOfCharacter
    <3>. QED  BY <3>1, <3>3, <3>7 DEF t
  <2>. HIDE DEF Part
  <2>4. CASE k =< Len(s)
    <3>1. k \in 1..Len(s) /\ k \in 1..4
      BY <1>0, <2>1, <2>4
    <3>2. Part(k)
      <4>. HIDE DEF k
      <4>. QED  BY <2>1, <2>3, <3>1
    <3>3. IsCharacter(First(s, k))
      BY <3>2 DEF IsCharacter, Part
    <3>. QED  BY <2>4, <3>1, <3>3
  <2>5. CASE ~(k =< Len(s))
    <3>1. Len(s) \in 1..Len(s) /\ Len(s) =< k /\ Len(s) < k
      BY <1>0, <2>1, <2>5
    <3>2. Part(Len(s))
      BY <2>3, <3>1
    <3>3. First(s, Len(s)) = s
      BY DEF First
    <3>. QED  BY <3>1, <3>2, <3>3 DEF Part
  <2>. QED  BY <2>4, <2>5
<1>. QED  BY <1>2, <1>3, <1>4

(* The rest of s from an offset on, and the character that it begins with. *)
LEMMA RestOf ==
    ASSUME NEW s \in Seq(Byte), NEW i \in 0..Len(s), NEW e \in i..Len(s)
    PROVE  /\ From(s, i) \in Seq(Byte) /\ Len(From(s, i)) = Len(s) - i
           /\ SubSeq(s, i + 1, e) \in Seq(Byte) /\ Len(SubSeq(s, i + 1, e)) = e - i
           /\ From(s, e) \in Seq(Byte)
           /\ From(s, i) = SubSeq(s, i + 1, e) \o From(s, e)
           /\ First(From(s, i), e - i) = SubSeq(s, i + 1, e)
<1>. DEFINE l == Len(s)
            x == SubSeq(s, i + 1, e)
            y == From(s, i)
            z == First(y, e - i)
<1>1. l \in Nat /\ i \in Nat /\ e \in Nat /\ i =< e /\ e =< l
  OBVIOUS
<1>2. /\ x \in Seq(Byte) /\ Len(x) = e - i /\ \A k \in 1..(e - i) : x[k] = s[i + k]
  BY <1>1
<1>3. y \in Seq(Byte) /\ Len(y) = l - i /\ \A k \in 1..(l - i) : y[k] = s[i + k]
  BY FromSlice
<1>4. From(s, e) \in Seq(Byte)
  <2>1. e \in 0..Len(s)
    BY <1>1
  <2>. QED  BY <2>1, FromSlice
<1>5. y = x \o From(s, e)
  <2>. DEFINE n == l - e
  <2>1. n \in Nat /\ e + n =< Len(s) /\ e + n = l
    BY <1>1
  <2>2. SubSeq(s, i + 1, e) \o SubSeq(s, e + 1, e + n) = SubSeq(s, i + 1, e + n)
    <3>. HIDE DEF n, l
    <3>. QED  BY ONLY s \in Seq(Byte), <1>1, <2>1, Extend
  <2>. QED  BY <2>1, <2>2, Zenon DEF From
<1>. HIDE DEF x, y
<1>6. e - i \in 0..Len(y)
  BY <1>1, <1>3
<1>7. z \in Seq(Byte) /\ Len(z) = e - i /\ \A k \in 1..(e - i) : z[k] = y[k]
  BY <1>3, <1>6, FirstSlice
<1>. HIDE DEF z
<1>8. \A k \in 1..(e - i) : k \in 1..(l - i)
  BY <1>1
<1>9. z = x
  BY <1>2, <1>3, <1>7, <1>8, SeqEqual
<1>. QED  BY <1>2, <1>3, <1>4, <1>5, <1>9 DEF x, y, z

-----------------------------------------------------------------------------
(* What is a text, and what begins one                                     *)

LEMMA RestOfAll ==
    ASSUME NEW s \in Seq(Byte)
    PROVE  From(s, 0) = s /\ From(s, Len(s)) = <<>> /\ First(s, Len(s)) = s
<1>1. Len(s) \in Nat
  OBVIOUS
<1>2. From(s, 0) = s
  <2>1. /\ From(s, 0) \in Seq(Byte) /\ Len(From(s, 0)) = Len(s) - 0
        /\ \A i \in 1..(Len(s) - 0) : From(s, 0)[i] = s[0 + i]
    BY <1>1, FromSlice
  <2>2. Len(s) - 0 = Len(s) /\ \A i \in 1..Len(s) : 0 + i = i
    BY <1>1
  <2>. QED  BY <2>1, <2>2, SeqEqual
<1>3. From(s, Len(s)) = <<>>
  <2>1. From(s, Len(s)) \in Seq(Byte) /\ Len(From(s, Len(s))) = Len(s) - Len(s)
    BY <1>1, FromSlice
  <2>. QED  BY <1>1, <2>1
<1>4. First(s, Len(s)) = s
  BY DEF First
<1>. QED  BY <1>2, <1>3, <1>4

(* The body of the recursion in IsText.                                    *)
TextAt(s, i, from) ==
    \/ i = Len(s)
    \/ \E n \in 1..4 : /\ i + n =< Len(s)
                       /\ IsCharacter(SubSeq(s, i + 1, i + n))
                       /\ from[i + n]

LEMMA TextAtIs ==
    ASSUME NEW s \in Seq(Byte), NEW i \in 0..Len(s), NEW from,
           \A q \in (i + 1)..Len(s) : from[q] <=> Text(From(s, q))
    PROVE  TextAt(s, i, from) <=> Text(From(s, i))
<1>1. CASE i = Len(s)
  BY <1>1, RestOfAll, NoText DEF TextAt
<1>2. CASE i # Len(s)
  <2>1. ASSUME NEW n \in 1..4, i + n =< Len(s), IsCharacter(SubSeq(s, i + 1, i + n))
        PROVE  from[i + n] <=> Text(From(s, i))
    <3>. DEFINE e == i + n
    <3>1. e \in i..Len(s) /\ e \in (i + 1)..Len(s)
      BY <2>1
    <3>2. IsCharacter(SubSeq(s, i + 1, e))
      BY <2>1
    <3>. HIDE DEF e
    <3>3. /\ From(s, e) \in Seq(Byte) /\ SubSeq(s, i + 1, e) \in Seq(Byte)
          /\ From(s, i) = SubSeq(s, i + 1, e) \o From(s, e)
      BY <3>1, RestOf
    <3>4. Text(SubSeq(s, i + 1, e))
      BY <3>2, <3>3, CharacterIsText
    <3>5. Text(From(s, e)) <=> Text(From(s, i))
      BY <3>3, <3>4, TextJoined
    <3>6. from[e] <=> Text(From(s, e))
      BY <3>1
    <3>. QED  BY <3>5, <3>6 DEF e
  <2>2. ASSUME Text(From(s, i))
        PROVE  \E n \in 1..4 : i + n =< Len(s) /\ IsCharacter(SubSeq(s, i + 1, i + n))
    <3>. DEFINE t == From(s, i)
    <3>1. t \in Seq(Byte) /\ Len(t) = Len(s) - i /\ Len(t) > 0
      BY <1>2, FromSlice
    <3>. HIDE DEF t
    <3>2. Text(t)
      BY <2>2 DEF t
    <3>3. ~(IsPartOfCharacter(t) /\ Len(t) < LeadLength[t[1]])
      <4>1. IsPartOfCharacter(t) => Len(t) = LeadLength[t[1]] /\ Len(t) \in Int
        BY <3>1, <3>2, PartFits, SMTT(30) DEF Text
      <4>. QED  BY <4>1
    <3>4. PICK n \in 1..4 : n =< Len(t) /\ IsCharacter(First(t, n))
      BY <3>1, <3>2, <3>3, FitsBegins DEF Text
    <3>5. i + n \in i..Len(s) /\ i + n =< Len(s) /\ i + n - i = n
      BY <3>1, <3>4
    <3>6. First(t, n) = SubSeq(s, i + 1, i + n)
      <4>. DEFINE e == i + n
      <4>1. e \in i..Len(s) /\ e - i = n
        BY <3>5
      <4>. HIDE DEF e
      <4>2. First(From(s, i), e - i) = SubSeq(s, i + 1, e)
        BY <4>1, RestOf
      <4>. QED  BY <4>1, <4>2 DEF e, t
    <3>. QED  BY <3>4, <3>5, <3>6
  <2>. QED  BY <1>2, <2>1, <2>2 DEF TextAt
<1>. QED  BY <1>1, <1>2

LEMMA IsTextIs ==
    ASSUME NEW s \in Seq(Byte)
    PROVE  IsText(s) <=> Text(s)
<1>. DEFINE l    == Len(s)
            F    == [0..l -> BOOLEAN]
            Step == [i \in 0..l |-> [g \in F |-> TextAt(s, i, g)]]
<1>1. l \in Nat /\ BOOLEAN # {}
  <2>1. l \in Nat
    OBVIOUS
  <2>2. TRUE \in BOOLEAN
    BY Zenon
  <2>. QED  BY ONLY <2>1, <2>2, Zenon
<1>2. ASSUME NEW i \in 0..l, NEW g \in F PROVE TextAt(s, i, g) \in BOOLEAN
  BY Zenon DEF TextAt
<1>3. ASSUME NEW i \in 0..l, NEW g, NEW h, \A q \in (i + 1)..l : g[q] = h[q]
      PROVE  TextAt(s, i, g) = TextAt(s, i, h)
  <2>1. ASSUME NEW n \in 1..4, i + n =< Len(s) PROVE g[i + n] = h[i + n]
    <3>1. i + n \in (i + 1)..l
      BY <2>1
    <3>. QED  BY <1>3, <3>1
  <2>2. TextAt(s, i, g) <=> TextAt(s, i, h)
    BY <2>1, Zenon DEF TextAt
  <2>. QED  BY <2>2, Zenon DEF TextAt
<1>4. PICK f \in F : \A i \in 0..l : f[i] = TextAt(s, i, f)
  <2>1. Step \in [0..l -> [F -> BOOLEAN]]
    BY <1>2, Zenon
  <2>2. \A i \in 0..l : \A g \in F : Step[i][g] = TextAt(s, i, g)
    BY Zenon
  <2>. HIDE DEF Step, l
  <2>3. ASSUME NEW i \in 0..l, NEW g \in F, NEW h \in F,
               \A q \in (i + 1)..l : g[q] = h[q]
        PROVE  Step[i][g] = Step[i][h]
    <3>1. TextAt(s, i, g) = TextAt(s, i, h)
      BY <1>3, <2>3
    <3>. QED  BY <2>2, <3>1, Zenon
  <2>4. \E f \in F : \A i \in 0..l : f[i] = Step[i][f]
    <3>1. IsDownward(Step, BOOLEAN, l)
      BY <1>1, <2>1, <2>3, Zenon DEF IsDownward
    <3>. QED  BY ONLY <3>1, DownwardRecursion, SMT DEF F
  <2>. QED  BY <2>2, <2>4, Zenon
<1>5. f = [i \in 0..Len(s) |-> TextAt(s, i, f)]
  BY <1>4, Zenon
<1>6. \E g : g = [i \in 0..Len(s) |-> TextAt(s, i, g)] /\ (IsText(s) <=> g[0])
  BY <1>5, Zenon DEF IsText, TextAt
<1>7. PICK g : g = [i \in 0..Len(s) |-> TextAt(s, i, g)] /\ (IsText(s) <=> g[0])
  BY <1>6
<1>. DEFINE T == {i \in 0..l : g[i] <=> Text(From(s, i))}
<1>8. ASSUME NEW i \in 0..l, \A q \in (i + 1)..l : q \in T PROVE i \in T
  <2>1. \A q \in (i + 1)..Len(s) : g[q] <=> Text(From(s, q))
    BY <1>8
  <2>2. TextAt(s, i, g) <=> Text(From(s, i))
    BY <2>1, TextAtIs
  <2>3. g[i] = TextAt(s, i, g)
    BY <1>7, Zenon
  <2>. QED  BY <2>2, <2>3, Zenon
<1>9. 0..l \subseteq T
  <2>. HIDE DEF T, l
  <2>. QED  BY <1>1, <1>8, DownwardInduction
<1>10. 0 \in T
  <2>. HIDE DEF T, l
  <2>1. 0 \in 0..l
    BY <1>1
  <2>. QED  BY <1>9, <2>1
<1>11. g[0] <=> Text(s)
  BY <1>10, RestOfAll, Zenon
<1>. QED  BY <1>7, <1>11, Zenon

-----------------------------------------------------------------------------
(* The check                                                               *)

(* s is text and the tail, which is nothing or the beginning of one        *)
(* character.                                                              *)
IsTail(tail) ==
    \/ tail = <<>>
    \/ IsPartOfCharacter(tail) /\ Len(tail) < LeadLength[tail[1]]
Held(s, tail) ==
    /\ tail \in Seq(Byte) /\ IsTail(tail)
    /\ \E t \in Seq(Byte) : Text(t) /\ s = t \o tail

Kinds   == {"ok", "incomplete", "error"}
Answers == [kind : Kinds, at : Nat]

(* r is the right answer about s from offset i on.                         *)
IsAnswer(s, i, r) ==
    /\ r.kind \in Kinds /\ r.at \in i..Len(s)
    /\ r.kind = "ok" => Text(From(s, i))
    /\ r.kind = "incomplete" =>
         /\ Text(SubSeq(s, i + 1, r.at)) /\ IsPartOfCharacter(From(s, r.at))
         /\ IsTail(From(s, r.at))
    /\ r.kind = "error" => ~Fits(From(s, i))

(* The body of the recursion in FromUtf8.                                  *)
ReadAt(s, i, scan) ==
    IF i = Len(s) THEN [kind |-> "ok", at |-> i] ELSE
    IF CharacterEnds(s, i) # {} THEN scan[CharacterEnd(s, i)] ELSE
    IF IsPartOfCharacter(From(s, i))
       THEN [kind |-> "incomplete", at |-> i]
       ELSE [kind |-> "error", at |-> i]

LEMMA ReadAtIs ==
    ASSUME NEW s \in Seq(Byte), NEW i \in 0..Len(s)
    PROVE  \/ i = Len(s) /\ \A g : ReadAt(s, i, g) = [kind |-> "ok", at |-> i]
           \/ \E e \in (i + 1)..Len(s) : /\ e =< i + 4
                                         /\ IsCharacter(SubSeq(s, i + 1, e))
                                         /\ \A g : ReadAt(s, i, g) = g[e]
           \/ /\ i < Len(s) /\ CharacterEnds(s, i) = {} /\ IsPartOfCharacter(From(s, i))
              /\ \A g : ReadAt(s, i, g) = [kind |-> "incomplete", at |-> i]
           \/ /\ i < Len(s) /\ CharacterEnds(s, i) = {} /\ ~IsPartOfCharacter(From(s, i))
              /\ \A g : ReadAt(s, i, g) = [kind |-> "error", at |-> i]
<1>. DEFINE ends == CharacterEnds(s, i)
            e    == CharacterEnd(s, i)
<1>1. ASSUME NEW g
      PROVE  ReadAt(s, i, g) =
               IF i = Len(s) THEN [kind |-> "ok", at |-> i] ELSE
               IF ends # {} THEN g[e] ELSE
               IF IsPartOfCharacter(From(s, i))
                  THEN [kind |-> "incomplete", at |-> i]
                  ELSE [kind |-> "error", at |-> i]
  BY DEF ReadAt
<1>2. ends # {} => e \in ends
  BY DEF CharacterEnd
<1>3. \A d \in ends : /\ d \in (i + 1)..Len(s) /\ d =< i + 4
                      /\ IsCharacter(SubSeq(s, i + 1, d))
  BY DEF CharacterEnds
<1>4. i # Len(s) => i < Len(s)
  OBVIOUS
<1>. HIDE DEF ends, e
<1>5. CASE i = Len(s)
  BY <1>1, <1>5
<1>6. CASE i # Len(s) /\ ends # {}
  <2>1. \A g : ReadAt(s, i, g) = g[e]
    BY <1>1, <1>6
  <2>. QED  BY <1>2, <1>3, <1>6, <2>1
<1>7. CASE i # Len(s) /\ ends = {} /\ IsPartOfCharacter(From(s, i))
  <2>1. \A g : ReadAt(s, i, g) = [kind |-> "incomplete", at |-> i]
    BY <1>1, <1>7
  <2>. QED  BY <1>4, <1>7, <2>1 DEF ends
<1>8. CASE i # Len(s) /\ ends = {} /\ ~IsPartOfCharacter(From(s, i))
  <2>1. \A g : ReadAt(s, i, g) = [kind |-> "error", at |-> i]
    BY <1>1, <1>8
  <2>. QED  BY <1>4, <1>8, <2>1 DEF ends
<1>. QED  BY <1>5, <1>6, <1>7, <1>8

LEMMA AnswerFollows ==
    ASSUME NEW s \in Seq(Byte), NEW i \in 0..Len(s), NEW g,
           \A q \in (i + 1)..Len(s) : IsAnswer(s, q, g[q])
    PROVE  IsAnswer(s, i, ReadAt(s, i, g))
<1>. DEFINE r == ReadAt(s, i, g)
<1>0. Len(s) \in Nat /\ i \in Nat /\ i =< Len(s) /\ i \in i..Len(s)
  OBVIOUS
<1>1. CASE i = Len(s) /\ \A h : ReadAt(s, i, h) = [kind |-> "ok", at |-> i]
  <2>1. r.kind = "ok" /\ r.at = i
    BY <1>1
  <2>2. Text(From(s, i))
    BY <1>1, RestOfAll, NoText
  <2>. HIDE DEF r
  <2>. QED  BY <1>0, <2>1, <2>2 DEF IsAnswer, Kinds, r
<1>2. ASSUME NEW e \in (i + 1)..Len(s), IsCharacter(SubSeq(s, i + 1, e)),
             \A h : ReadAt(s, i, h) = h[e]
      PROVE  IsAnswer(s, i, r)
  <2>. DEFINE c == SubSeq(s, i + 1, e)
              x == From(s, i)
              y == From(s, e)
  <2>0. e \in i..Len(s) /\ e \in Nat
    OBVIOUS
  <2>1. /\ x \in Seq(Byte) /\ c \in Seq(Byte) /\ y \in Seq(Byte) /\ x = c \o y
    BY <2>0, RestOf
  <2>2. Text(c)
    BY <1>2, <2>1, CharacterIsText
  <2>. HIDE DEF c, x, y
  <2>3. (Text(y) <=> Text(x)) /\ (Fits(y) <=> Fits(x))
    BY <2>1, <2>2, TextJoined
  <2>4. r = g[e]
    BY <1>2
  <2>. HIDE DEF r
  <2>5. IsAnswer(s, e, r)
    BY <2>4
  <2>6. r.kind \in Kinds /\ r.at \in e..Len(s) /\ r.at \in i..Len(s)
    BY <1>0, <2>0, <2>5 DEF IsAnswer
  <2>7. r.kind = "ok" => Text(x)
    BY <2>3, <2>5 DEF IsAnswer, y
  <2>8. r.kind = "error" => ~Fits(x)
    BY <2>3, <2>5 DEF IsAnswer, y
  <2>9. ASSUME r.kind = "incomplete"
        PROVE  /\ Text(SubSeq(s, i + 1, r.at)) /\ IsPartOfCharacter(From(s, r.at))
               /\ IsTail(From(s, r.at))
    <3>1. /\ Text(SubSeq(s, e + 1, r.at)) /\ IsPartOfCharacter(From(s, r.at))
          /\ IsTail(From(s, r.at))
      BY <2>5, <2>9 DEF IsAnswer
    <3>. DEFINE n == r.at - e
    <3>2. n \in Nat /\ e + n =< Len(s) /\ e + n = r.at /\ i =< e
      BY <1>0, <2>0, <2>6
    <3>3. SubSeq(s, i + 1, e) \o SubSeq(s, e + 1, e + n) = SubSeq(s, i + 1, e + n)
      <4>. HIDE DEF n
      <4>. QED  BY ONLY s \in Seq(Byte), <1>0, <2>0, <3>2, Extend
    <3>4. c \o SubSeq(s, e + 1, r.at) = SubSeq(s, i + 1, r.at)
      BY <3>2, <3>3 DEF c
    <3>5. SubSeq(s, e + 1, r.at) \in Seq(Byte)
      BY <2>0, <2>6
    <3>6. Text(SubSeq(s, i + 1, r.at))
      <4>. DEFINE d == SubSeq(s, e + 1, r.at)
      <4>1. d \in Seq(Byte) /\ Text(d)
        BY <3>1, <3>5
      <4>. HIDE DEF d
      <4>2. Text(c \o d)
        BY <2>1, <2>2, <4>1, TextJoined
      <4>. QED  BY <3>4, <4>2 DEF d
    <3>. QED  BY <3>1, <3>6
  <2>. QED  BY <2>6, <2>7, <2>8, <2>9 DEF IsAnswer, x
<1>3. ASSUME i < Len(s), CharacterEnds(s, i) = {}
      PROVE  /\ From(s, i) \in Seq(Byte) /\ Len(From(s, i)) > 0
             /\ \A n \in 1..4 : n =< Len(From(s, i)) => ~IsCharacter(First(From(s, i), n))
  <2>1. From(s, i) \in Seq(Byte) /\ Len(From(s, i)) = Len(s) - i
    BY FromSlice
  <2>2. ASSUME NEW n \in 1..4, n =< Len(From(s, i))
        PROVE  ~IsCharacter(First(From(s, i), n))
    <3>. DEFINE e == i + n
    <3>1. e \in i..Len(s) /\ e - i = n /\ e \in (i + 1)..(i + 4) /\ e =< Len(s)
      BY <1>0, <2>1, <2>2
    <3>. HIDE DEF e
    <3>2. First(From(s, i), e - i) = SubSeq(s, i + 1, e)
      BY <3>1, RestOf
    <3>3. ~IsCharacter(SubSeq(s, i + 1, e))
      BY <1>3, <3>1 DEF CharacterEnds
    <3>. QED  BY <3>1, <3>2, <3>3
  <2>. QED  BY <1>0, <1>3, <2>1, <2>2
<1>4. CASE /\ i < Len(s) /\ CharacterEnds(s, i) = {} /\ IsPartOfCharacter(From(s, i))
           /\ \A h : ReadAt(s, i, h) = [kind |-> "incomplete", at |-> i]
  <2>. DEFINE t == From(s, i)
  <2>1. r.kind = "incomplete" /\ r.at = i
    BY <1>4
  <2>2. SubSeq(s, i + 1, i) = <<>>
    BY <1>0
  <2>3. t \in Seq(Byte) /\ IsPartOfCharacter(t)
        /\ \A n \in 1..4 : n =< Len(t) => ~IsCharacter(First(t, n))
    BY <1>3, <1>4
  <2>. HIDE DEF t, r
  <2>4. Len(t) \in 1..4 /\ Len(t) =< LeadLength[t[1]] /\ t[1] \in Lead /\ First(t, Len(t)) = t
    BY <2>3, PartFits, RestOfAll
  <2>5. Len(t) # LeadLength[t[1]]
    <3>1. ~IsCharacter(t)
      <4>1. Len(t) =< Len(t)
        BY <2>4
      <4>. QED  BY <2>3, <2>4, <4>1
    <3>. QED  BY <2>3, <3>1 DEF IsCharacter
  <2>6. IsTail(t)
    <3>1. LeadLength[t[1]] \in 2..4
      BY <2>4, LeadIs
    <3>2. Len(t) < LeadLength[t[1]]
      BY <2>4, <2>5, <3>1
    <3>. QED  BY <2>3, <3>2 DEF IsTail
  <2>. QED  BY <1>0, <2>1, <2>2, <2>3, <2>6, NoText DEF IsAnswer, Kinds, t, r
<1>5. CASE /\ i < Len(s) /\ CharacterEnds(s, i) = {} /\ ~IsPartOfCharacter(From(s, i))
           /\ \A h : ReadAt(s, i, h) = [kind |-> "error", at |-> i]
  <2>1. r.kind = "error" /\ r.at = i
    BY <1>5
  <2>2. ~Fits(From(s, i))
    BY <1>3, <1>5, FitsBegins
  <2>. HIDE DEF r
  <2>. QED  BY <1>0, <2>1, <2>2 DEF IsAnswer, Kinds, r
<1>. QED  BY <1>1, <1>2, <1>4, <1>5, ReadAtIs

LEMMA FromUtf8Is ==
    ASSUME NEW s \in Seq(Byte)
    PROVE  IsAnswer(s, 0, FromUtf8(s))
<1>. DEFINE l    == Len(s)
            F    == [0..l -> Answers]
            Step == [i \in 0..l |-> [g \in F |-> ReadAt(s, i, g)]]
<1>1. l \in Nat /\ Answers # {}
  <2>1. [kind |-> "ok", at |-> 0] \in Answers
    BY DEF Answers, Kinds
  <2>. QED  BY <2>1
<1>2. ASSUME NEW i \in 0..l, NEW g \in F PROVE ReadAt(s, i, g) \in Answers
  <2>1. \A kind \in Kinds : [kind |-> kind, at |-> i] \in Answers
    BY DEF Answers
  <2>2. "ok" \in Kinds /\ "incomplete" \in Kinds /\ "error" \in Kinds
    BY DEF Kinds
  <2>3. ASSUME NEW e \in (i + 1)..Len(s) PROVE g[e] \in Answers
    OBVIOUS
  <2>. HIDE DEF F
  <2>. QED  BY <2>1, <2>2, <2>3, ReadAtIs
<1>3. ASSUME NEW i \in 0..l, NEW g, NEW h, \A q \in (i + 1)..l : g[q] = h[q]
      PROVE  ReadAt(s, i, g) = ReadAt(s, i, h)
  BY <1>3, ReadAtIs
<1>4. PICK f \in F : \A i \in 0..l : f[i] = ReadAt(s, i, f)
  <2>1. Step \in [0..l -> [F -> Answers]]
    BY <1>2
  <2>2. \A i \in 0..l : \A g \in F : Step[i][g] = ReadAt(s, i, g)
    OBVIOUS
  <2>. HIDE DEF Step, l
  <2>3. ASSUME NEW i \in 0..l, NEW g \in F, NEW h \in F,
               \A q \in (i + 1)..l : g[q] = h[q]
        PROVE  Step[i][g] = Step[i][h]
    <3>1. ReadAt(s, i, g) = ReadAt(s, i, h)
      BY <1>3, <2>3
    <3>. QED  BY <2>2, <3>1
  <2>4. \E f \in F : \A i \in 0..l : f[i] = Step[i][f]
    <3>1. IsDownward(Step, Answers, l)
      BY <1>1, <2>1, <2>3 DEF IsDownward
    <3>. QED  BY ONLY <3>1, DownwardRecursion, SMT DEF F
  <2>. QED  BY <2>2, <2>4
<1>5. f = [i \in 0..Len(s) |-> ReadAt(s, i, f)]
  BY <1>4
<1>6. \E g : g = [i \in 0..Len(s) |-> ReadAt(s, i, g)] /\ FromUtf8(s) = g[0]
  BY <1>5, Zenon DEF FromUtf8, ReadAt
<1>7. PICK g : g = [i \in 0..Len(s) |-> ReadAt(s, i, g)] /\ FromUtf8(s) = g[0]
  BY <1>6
<1>. DEFINE T == {i \in 0..l : IsAnswer(s, i, g[i])}
<1>8. ASSUME NEW i \in 0..l, \A q \in (i + 1)..l : q \in T PROVE i \in T
  <2>1. \A q \in (i + 1)..Len(s) : IsAnswer(s, q, g[q])
    BY <1>8
  <2>2. IsAnswer(s, i, ReadAt(s, i, g))
    BY <2>1, AnswerFollows
  <2>3. g[i] = ReadAt(s, i, g)
    BY <1>7
  <2>. QED  BY <2>2, <2>3
<1>9. 0..l \subseteq T
  <2>. HIDE DEF T, l
  <2>. QED  BY <1>1, <1>8, DownwardInduction
<1>10. 0 \in T
  <2>. HIDE DEF T, l
  <2>1. 0 \in 0..l
    BY <1>1
  <2>. QED  BY <1>9, <2>1
<1>. QED  BY <1>7, <1>10

(* The parts of an answer about all of s.                                  *)
LEMMA FromUtf8Parts ==
    ASSUME NEW s \in Seq(Byte)
    PROVE  /\ FromUtf8(s).kind \in Kinds
           /\ FromUtf8(s).kind = "ok" => Text(s)
           /\ FromUtf8(s).kind = "incomplete" =>
                /\ FromUtf8(s).at \in 0..Len(s)
                /\ Text(First(s, FromUtf8(s).at))
                /\ IsPartOfCharacter(From(s, FromUtf8(s).at))
                /\ IsTail(From(s, FromUtf8(s).at))
           /\ FromUtf8(s).kind = "error" => ~Fits(s)
<1>1. IsAnswer(s, 0, FromUtf8(s))
  BY FromUtf8Is
<1>2. From(s, 0) = s /\ 0 + 1 = 1
  BY RestOfAll
<1>. QED  BY <1>1, <1>2 DEF IsAnswer, First

LEMMA FirstAndRest ==
    ASSUME NEW s \in Seq(Byte), NEW n \in 0..Len(s)
    PROVE  /\ First(s, n) \in Seq(Byte) /\ Len(First(s, n)) = n
           /\ From(s, n) \in Seq(Byte) /\ Len(From(s, n)) = Len(s) - n
           /\ s = First(s, n) \o From(s, n)
<1>1. 0 \in 0..Len(s) /\ n \in 0..Len(s)
  OBVIOUS
<1>2. From(s, 0) = SubSeq(s, 0 + 1, n) \o From(s, n)
  BY <1>1, RestOf
<1>3. s = First(s, n) \o From(s, n)
  BY <1>2, RestOfAll DEF First
<1>. QED  BY <1>3, FirstSlice, FromSlice

(* A sequence of bytes begins a text just when each fits.                  *)
LEMMA BeginsTextIs ==
    ASSUME NEW s \in Seq(Byte)
    PROVE  BeginsText(s) <=> Fits(s)
<1>0. Len(s) \in Nat /\ Len(s) \in 0..Len(s)
  OBVIOUS
<1>1. ASSUME BeginsText(s) PROVE Fits(s)
  <2>1. PICK n \in 0..Len(s) : /\ IsText(First(s, n))
                               /\ n < Len(s) => IsPartOfCharacter(From(s, n))
    BY <1>1 DEF BeginsText
  <2>2. /\ First(s, n) \in Seq(Byte) /\ From(s, n) \in Seq(Byte)
        /\ s = First(s, n) \o From(s, n)
    BY FirstAndRest
  <2>3. Text(First(s, n))
    BY <2>1, <2>2, IsTextIs
  <2>4. CASE n = Len(s)
    BY <2>3, <2>4, RestOfAll DEF Text
  <2>5. CASE n # Len(s)
    <3>. DEFINE a == First(s, n)
                b == From(s, n)
    <3>0. n < Len(s)
      BY <1>0, <2>5
    <3>1. a \in Seq(Byte) /\ b \in Seq(Byte) /\ s = a \o b /\ Text(a)
          /\ IsPartOfCharacter(b)
      BY <2>1, <2>2, <2>3, <3>0
    <3>. HIDE DEF a, b
    <3>2. Fits(b)
      BY <3>1, PartFits
    <3>3. Fits(a \o b)
      BY <3>1, <3>2, TextJoined
    <3>. QED  BY <3>1, <3>3
  <2>. QED  BY <2>4, <2>5
<1>2. ASSUME Fits(s) PROVE BeginsText(s)
  <2>1. CASE FromUtf8(s).kind = "ok"
    <3>1. IsText(First(s, Len(s)))
      BY <2>1, FromUtf8Parts, RestOfAll, IsTextIs
    <3>. QED  BY <1>0, <3>1 DEF BeginsText
  <2>2. CASE FromUtf8(s).kind = "incomplete"
    <3>. DEFINE n == FromUtf8(s).at
    <3>1. n \in 0..Len(s) /\ Text(First(s, n)) /\ IsPartOfCharacter(From(s, n))
      BY <2>2, FromUtf8Parts
    <3>. HIDE DEF n
    <3>2. IsText(First(s, n))
      BY <3>1, FirstAndRest, IsTextIs
    <3>. QED  BY <3>1, <3>2 DEF BeginsText
  <2>. QED  BY <1>2, <2>1, <2>2, FromUtf8Parts DEF Kinds
<1>. QED  BY <1>1, <1>2

(* What is held is a beginning of a text, and all of one just when nothing  *)
(* is kept.                                                                *)
LEMMA HeldIs ==
    ASSUME NEW s \in Seq(Byte), NEW tail, Held(s, tail)
    PROVE  /\ Fits(s) /\ tail \in Seq(Byte)
           /\ Text(s) <=> tail = <<>>
<1>1. PICK t \in Seq(Byte) : Text(t) /\ s = t \o tail
  BY DEF Held
<1>2. tail \in Seq(Byte) /\ IsTail(tail)
  BY DEF Held
<1>3. (Fits(tail) <=> Fits(s)) /\ (Text(tail) <=> Text(s))
  BY <1>1, <1>2, TextJoined
<1>4. CASE tail = <<>>
  <2>1. Text(tail) /\ Fits(tail)
    BY <1>4, NoText DEF Text
  <2>. QED  BY <1>2, <1>3, <1>4, <2>1
<1>5. CASE tail # <<>>
  <2>1. IsPartOfCharacter(tail) /\ Len(tail) < LeadLength[tail[1]]
    BY <1>2, <1>5 DEF IsTail
  <2>2. Fits(tail) /\ Len(tail) \in 1..4
    BY <1>2, <2>1, PartFits
  <2>3. ~Text(tail)
    <3>1. Complete(tail) <=> Len(tail) = LeadLength[tail[1]]
      BY <1>2, <2>1, PartFits
    <3>. HIDE DEF Complete
    <3>2. Len(tail) # LeadLength[tail[1]]
      BY <2>1, <2>2
    <3>. QED  BY <3>1, <3>2 DEF Text
  <2>. QED  BY <1>2, <1>3, <1>5, <2>2, <2>3
<1>. QED  BY <1>4, <1>5

(* Text before what is held, and before what does not fit.                 *)
LEMMA HeldBehind ==
    ASSUME NEW t \in Seq(Byte), Text(t), NEW x \in Seq(Byte)
    PROVE  /\ \A tail \in Seq(Byte) : Held(x, tail) => Held(t \o x, tail)
           /\ Fits(x) <=> Fits(t \o x)
<1>1. ASSUME NEW tail \in Seq(Byte), Held(x, tail) PROVE Held(t \o x, tail)
  <2>1. PICK r \in Seq(Byte) : Text(r) /\ x = r \o tail
    BY <1>1 DEF Held
  <2>2. t \o x = (t \o r) \o tail /\ t \o r \in Seq(Byte)
    <3>1. Regroups(Byte, t, r, tail)
      BY <2>1, Reassociate
    <3>. QED  BY <2>1, <3>1, Zenon DEF Regroups
  <2>3. Text(t \o r)
    BY <2>1, TextJoined
  <2>. QED  BY <1>1, <2>2, <2>3 DEF Held
<1>. QED  BY <1>1, TextJoined

(* v is the right verdict on s.                                            *)
IsVerdict(v, s) ==
    /\ v.valid \in BOOLEAN /\ v.tail \in Seq(Byte)
    /\ v.valid => Held(s, v.tail)
    /\ ~v.valid => v.tail = <<>> /\ ~Fits(s)

LEMMA ValidateSliceIs ==
    ASSUME NEW s \in Seq(Byte)
    PROVE  IsVerdict(ValidateSlice(s), s)
<1>. DEFINE v == ValidateSlice(s)
<1>0. <<>> \in Seq(Byte) /\ s \o <<>> = s
  OBVIOUS
<1>1. CASE FromUtf8(s).kind = "ok"
  <2>1. v.valid = TRUE /\ v.tail = <<>>
    BY <1>1 DEF ValidateSlice
  <2>. HIDE DEF v
  <2>2. Text(s)
    BY <1>1, FromUtf8Parts
  <2>3. Held(s, <<>>)
    <3>1. \E t \in Seq(Byte) : Text(t) /\ s = t \o <<>>
      BY <1>0, <2>2
    <3>2. IsTail(<<>>)
      BY DEF IsTail
    <3>. QED  BY <1>0, <3>1, <3>2 DEF Held
  <2>. QED  BY <1>0, <2>1, <2>3 DEF IsVerdict, v
<1>2. CASE FromUtf8(s).kind = "incomplete"
  <2>. DEFINE n == FromUtf8(s).at
  <2>1. v.valid = TRUE /\ v.tail = From(s, n)
    BY <1>2 DEF ValidateSlice
  <2>2. n \in 0..Len(s) /\ Text(First(s, n)) /\ IsTail(From(s, n))
    BY <1>2, FromUtf8Parts
  <2>. HIDE DEF v, n
  <2>3. /\ First(s, n) \in Seq(Byte) /\ From(s, n) \in Seq(Byte)
        /\ s = First(s, n) \o From(s, n)
    BY <2>2, FirstAndRest
  <2>4. Held(s, From(s, n))
    BY <2>2, <2>3 DEF Held
  <2>. QED  BY <2>1, <2>3, <2>4 DEF IsVerdict, v
<1>3. CASE FromUtf8(s).kind = "error"
  <2>1. v.valid = FALSE /\ v.tail = <<>>
    BY <1>3 DEF ValidateSlice
  <2>. HIDE DEF v
  <2>2. ~Fits(s)
    BY <1>3, FromUtf8Parts
  <2>. QED  BY <1>0, <2>1, <2>2 DEF IsVerdict, v
<1>. QED  BY <1>1, <1>2, <1>3, FromUtf8Parts DEF Kinds

(* What is not finished within the length that the first byte has it is    *)
(* the beginning of the one character.                                     *)
LEMMA BoundaryIs ==
    ASSUME NEW x \in Seq(Byte), Len(x) > 0, x[1] \in Lead,
           Len(x) =< LeadLength[x[1]], FromUtf8(x).kind = "incomplete"
    PROVE  IsTail(x) /\ Len(x) < LeadLength[x[1]]
<1>. DEFINE at == FromUtf8(x).at
            k  == LeadLength[x[1]]
<1>1. /\ at \in 0..Len(x) /\ Text(First(x, at))
      /\ IsPartOfCharacter(From(x, at)) /\ IsTail(From(x, at))
  BY FromUtf8Parts
<1>. HIDE DEF at
<1>2. k \in 2..4 /\ Len(x) \in Nat
  BY LeadIs
<1>3. CASE at = 0
  <2>1. From(x, at) = x
    BY <1>3, RestOfAll
  <2>2. IsPartOfCharacter(x) /\ IsTail(x) /\ x # <<>>
    BY <1>1, <2>1
  <2>. QED  BY <2>2 DEF IsTail
<1>4. CASE at # 0
  <2>. DEFINE t == First(x, at)
  <2>1. Len(t) = at /\ t[1] = x[1] /\ 1 \in 1..at
    <3>1. 1 \in 1..at
      BY <1>1, <1>4
    <3>. QED  BY <1>1, <3>1, FirstSlice
  <2>2. Complete(t)
    BY <1>1 DEF Text
  <2>. HIDE DEF t
  <2>3. 1 + k - 1 =< at
    BY <2>1, <2>2 DEF Complete
  <2>. HIDE DEF k
  <2>4. at = Len(x)
    BY <1>1, <1>2, <2>3 DEF k
  <2>5. From(x, at) = <<>>
    BY <2>4, RestOfAll
  <2>. QED  BY <1>1, <2>5 DEF IsPartOfCharacter
<1>. QED  BY <1>3, <1>4

(* The check, chunk by chunk, is right about all that has arrived: it       *)
(* keeps what begins a character at the end, and refuses only what no rest *)
(* can make text of.                                                       *)
LEMMA ValidateUtf8Is ==
    ASSUME NEW s \in Seq(Byte), NEW tail, Held(s, tail), NEW input \in Seq(Byte)
    PROVE  IsVerdict(ValidateUtf8(tail, input), s \o input)
<1>. DEFINE v == ValidateUtf8(tail, input)
<1>1. PICK t \in Seq(Byte) : Text(t) /\ s = t \o tail
  BY DEF Held
<1>2. tail \in Seq(Byte) /\ IsTail(tail)
  BY DEF Held
<1>3. CASE tail = <<>>
  <2>1. v = ValidateSlice(input)
    BY <1>3 DEF ValidateUtf8
  <2>2. s = t
    BY <1>1, <1>3
  <2>. HIDE DEF v
  <2>3. IsVerdict(v, input)
    BY <2>1, ValidateSliceIs
  <2>4. IsVerdict(v, t \o input)
    BY <1>1, <2>3, HeldBehind DEF IsVerdict
  <2>. QED  BY <2>2, <2>4 DEF v
<1>4. CASE tail # <<>>
  <2>. DEFINE k       == LeadLength[tail[1]]
              missing == k - Len(tail)
              n       == IF Len(input) < missing THEN Len(input) ELSE missing
              x       == tail \o First(input, n)
              y       == From(input, n)
              l       == Len(tail)
  <2>1. IsPartOfCharacter(tail) /\ l < k
    BY <1>2, <1>4 DEF IsTail
  <2>2. tail[1] \in Lead /\ l \in 1..4 /\ k \in 2..4
    BY <1>2, <2>1, PartFits, LeadIs
  <2>3. Len(input) \in Nat
    OBVIOUS
  <2>4. n \in 0..Len(input) /\ l + n =< k /\ (l + n < k => n = Len(input))
    <3>. HIDE DEF l, k
    <3>. QED  BY <2>1, <2>2, <2>3 DEF l
  <2>5. v = CASE FromUtf8(x).kind = "ok" -> ValidateSlice(y)
              [] FromUtf8(x).kind = "incomplete" -> [valid |-> TRUE, tail |-> x]
              [] OTHER -> [valid |-> FALSE, tail |-> <<>>]
    BY <1>4 DEF ValidateUtf8
  <2>. HIDE DEF v, n
  <2>6. /\ First(input, n) \in Seq(Byte) /\ Len(First(input, n)) = n
        /\ y \in Seq(Byte) /\ input = First(input, n) \o y
    BY <2>4, FirstAndRest
  <2>7. /\ x \in Seq(Byte) /\ Len(x) = l + n /\ x[1] = tail[1]
    <3>. DEFINE f == First(input, n)
    <3>1. 1 \in 1..Len(tail) /\ f \in Seq(Byte) /\ Len(f) = n
      BY <2>2, <2>6
    <3>. HIDE DEF f
    <3>2. /\ tail \o f \in Seq(Byte) /\ Len(tail \o f) = Len(tail) + Len(f)
          /\ (tail \o f)[1] = tail[1]
      BY <1>2, <3>1, Joined, ZenonT(60)
    <3>. QED  BY <3>1, <3>2 DEF f
  <2>8. s \o input = t \o (x \o y) /\ x \o y \in Seq(Byte)
    <3>. DEFINE f == First(input, n)
    <3>1. f \in Seq(Byte) /\ y \in Seq(Byte) /\ input = f \o y
          /\ x = tail \o f
      BY <2>6
    <3>. HIDE DEF f, x, y
    <3>0. f \o y \in Seq(Byte)
      BY <3>1
    <3>2. (t \o tail) \o (f \o y) = t \o (tail \o (f \o y))
      <4>1. Regroups(Byte, t, tail, f \o y)
        BY <1>1, <1>2, <3>0, Reassociate
      <4>. QED  BY ONLY <4>1, Zenon DEF Regroups
    <3>3. tail \o (f \o y) = x \o y
      <4>1. (tail \o f) \o y = tail \o (f \o y)
        <5>1. Regroups(Byte, tail, f, y)
          BY <1>2, <3>1, Reassociate
        <5>. QED  BY ONLY <5>1, Zenon DEF Regroups
      <4>. QED  BY <3>1, <4>1
    <3>. QED  BY <1>1, <2>7, <3>1, <3>2, <3>3
  <2>. HIDE DEF x, y, l
  <2>9. CASE FromUtf8(x).kind = "ok"
    <3>1. v = ValidateSlice(y)
      BY <2>5, <2>9
    <3>2. IsVerdict(v, y)
      BY <2>6, <3>1, ValidateSliceIs
    <3>3. Text(x)
      BY <2>7, <2>9, FromUtf8Parts
    <3>4. IsVerdict(v, x \o y)
      BY <2>6, <2>7, <3>2, <3>3, HeldBehind DEF IsVerdict
    <3>5. IsVerdict(v, t \o (x \o y))
      BY <1>1, <2>8, <3>4, HeldBehind DEF IsVerdict
    <3>. QED  BY <2>8, <3>5 DEF v
  <2>10. CASE FromUtf8(x).kind = "incomplete"
    <3>1. v.valid = TRUE /\ v.tail = x
      BY <2>5, <2>10
    <3>2. Len(x) > 0 /\ x[1] \in Lead /\ Len(x) =< LeadLength[x[1]]
      BY <2>2, <2>4, <2>7
    <3>3. IsTail(x) /\ Len(x) < k
      BY <2>7, <2>10, <3>2, BoundaryIs
    <3>4. n = Len(input)
      BY <2>4, <2>7, <3>3
    <3>5. y = <<>>
      BY <3>4, RestOfAll DEF y
    <3>6. s \o input = t \o x
      BY <2>7, <2>8, <3>5
    <3>7. Held(s \o input, x)
      BY <1>1, <2>7, <3>3, <3>6 DEF Held
    <3>. QED  BY <2>7, <3>1, <3>7 DEF IsVerdict, v
  <2>11. CASE FromUtf8(x).kind = "error"
    <3>1. v.valid = FALSE /\ v.tail = <<>>
      BY <2>5, <2>11
    <3>2. ~Fits(x)
      BY <2>7, <2>11, FromUtf8Parts
    <3>3. ~Fits(x \o y)
      <4>1. StartsWith(x \o y, x)
        BY <2>6, <2>7, PrefixOfConcat
      <4>. QED  BY <2>7, <2>8, <3>2, <4>1, FitsStart
    <3>4. ~Fits(t \o (x \o y))
      BY <1>1, <2>8, <3>3, HeldBehind
    <3>5. <<>> \in Seq(Byte)
      OBVIOUS
    <3>. QED  BY <2>8, <3>1, <3>4, <3>5 DEF IsVerdict, v
  <2>. QED  BY <2>7, <2>9, <2>10, <2>11, FromUtf8Parts DEF Kinds
<1>. QED  BY <1>3, <1>4

-----------------------------------------------------------------------------
(* Between two characters                                                  *)

LEMMA BoundaryBefore ==
    ASSUME NEW s \in Seq(Byte), Fits(s), NEW p \in 0..Len(s),
           \/ p = 0
           \/ p < Len(s) /\ s[p + 1] \notin Trail
           \/ p > 0 /\ s[p] \in Ascii
    PROVE  Text(First(s, p)) /\ Fits(From(s, p)) /\ (Text(From(s, p)) <=> Text(s))
<1>. DEFINE t == First(s, p)
            y == From(s, p)
<1>1. /\ t \in Seq(Byte) /\ Len(t) = p /\ y \in Seq(Byte) /\ s = t \o y
  BY FirstAndRest
<1>2. \A i \in 1..p : t[i] = s[i]
  BY FirstSlice
<1>. HIDE DEF t, y
<1>3. p \in Nat /\ Len(s) \in Nat /\ p =< Len(s)
  OBVIOUS
<1>4. Fits(t)
  <2>1. StartsWith(t \o y, t)
    BY <1>1, PrefixOfConcat
  <2>. QED  BY <1>1, <2>1, FitsStart
<1>5. ASSUME NEW i \in 1..p, t[i] \in Lead, ~(i + LeadLength[t[i]] - 1 =< p)
      PROVE  FALSE
  <2>. DEFINE k == LeadLength[s[i]]
  <2>1. s[i] \in Lead /\ k \in 2..4
    BY <1>2, <1>5, LeadIs
  <2>2. k \in Nat /\ ~(i + k - 1 =< p)
    BY <1>2, <1>5, <2>1
  <2>. HIDE DEF k
  <2>3. CASE p < Len(s) /\ s[p + 1] \notin Trail
    <3>1. i < p + 1 /\ p + 1 < i + k /\ i \in 1..Len(s) /\ p + 1 \in 1..Len(s)
      BY <1>3, <2>2, <2>3
    <3>2. Within(s, i, p + 1)
      BY <2>1, <3>1 DEF Within, k
    <3>. QED  BY <2>3, <3>1, <3>2 DEF Fits
  <2>4. CASE p > 0 /\ s[p] \in Ascii
    <3>1. i # p
      BY <2>1, <2>4, LeadIs
    <3>2. i < p /\ p < i + k /\ i \in 1..Len(s) /\ p \in 1..Len(s)
      BY <1>3, <2>2, <3>1
    <3>3. Within(s, i, p)
      BY <2>1, <3>2 DEF Within, k
    <3>4. s[p] \in Trail
      BY <3>2, <3>3 DEF Fits
    <3>. QED  BY <2>4, <3>4, Utf8Assumption
  <2>5. CASE p = 0
    BY <2>5
  <2>. QED  BY <2>3, <2>4, <2>5
<1>6. Text(t)
  BY <1>1, <1>4, <1>5 DEF Text, Complete
<1>7. Fits(y) /\ (Text(y) <=> Text(s))
  BY <1>1, <1>6, TextJoined
<1>. QED  BY <1>6, <1>7 DEF t, y

(* The bytes between two boundaries.                                       *)
LEMMA TextBetween ==
    ASSUME NEW s \in Seq(Byte), NEW p \in 0..Len(s), NEW q \in p..Len(s),
           Text(First(s, p)), Text(First(s, q))
    PROVE  Text(SubSeq(s, p + 1, q))
<1>1. p \in Nat /\ q \in Nat /\ p =< q /\ q =< Len(s) /\ q \in 0..Len(s)
  OBVIOUS
<1>. DEFINE n == q - p
            a == First(s, p)
            b == SubSeq(s, p + 1, q)
<1>2. n \in Nat /\ p + n = q /\ p + n =< Len(s) /\ 0 =< p
  BY <1>1
<1>3. SubSeq(s, 0 + 1, p) \o SubSeq(s, p + 1, p + n) = SubSeq(s, 0 + 1, p + n)
  <2>. HIDE DEF n
  <2>. QED  BY ONLY s \in Seq(Byte), <1>1, <1>2, Extend
<1>4. a \o b = First(s, q) /\ a \in Seq(Byte) /\ b \in Seq(Byte)
  <2>1. a \o b = First(s, q)
    BY <1>2, <1>3 DEF First
  <2>2. a \in Seq(Byte)
    BY FirstSlice
  <2>3. b \in Seq(Byte)
    BY <1>1
  <2>. QED  BY <2>1, <2>2, <2>3
<1>. HIDE DEF a, b
<1>5. Text(a) /\ Text(a \o b)
  BY <1>4 DEF a
<1>. QED  BY <1>4, <1>5, TextJoined DEF b

(* Bytes that are characters of their own may be replaced by such.         *)
LEMMA AsciiReplaced ==
    ASSUME NEW s \in Seq(Byte), NEW w \in Seq(Byte), Len(w) = Len(s),
           \A i \in 1..Len(s) : w[i] = s[i] \/ (w[i] \in Ascii /\ s[i] \in Ascii),
           Text(s)
    PROVE  Text(w)
<1>. DEFINE n == Len(s)
<1>1. ASSUME NEW i \in 1..n
      PROVE  /\ w[i] \in Lead <=> s[i] \in Lead
             /\ w[i] \in Trail <=> s[i] \in Trail
             /\ s[i] \in Lead \cup Trail => w[i] = s[i]
             /\ s[i] \in Ascii => w[i] \in Ascii
  BY Utf8Assumption
<1>2. \A i, j \in 1..n : Within(w, i, j) <=> Within(s, i, j)
  BY <1>1 DEF Within
<1>3. Fits(s) /\ Complete(s)
  BY DEF Text
<1>4. \A i \in 1..n : w[i] \in Ascii \cup Trail \cup Lead
  BY <1>1, <1>3 DEF Fits
<1>5. ASSUME NEW i \in 1..n, NEW j \in 1..n, Within(w, i, j)
      PROVE  w[j] \in Trail /\ (j = i + 1 => w[j] \in SecondByte[w[i]])
  <2>1. Within(s, i, j)
    BY <1>2, <1>5
  <2>2. s[j] \in Trail /\ (j = i + 1 => s[j] \in SecondByte[s[i]])
    BY <1>3, <2>1 DEF Fits
  <2>3. w[i] = s[i] /\ w[j] = s[j]
    BY <1>1, <2>1, <2>2 DEF Within
  <2>. QED  BY <2>2, <2>3
<1>6. ASSUME NEW j \in 1..n, w[j] \in Trail PROVE \E i \in 1..n : Within(w, i, j)
  BY <1>1, <1>2, <1>3, <1>6 DEF Fits
<1>7. ASSUME NEW i \in 1..n, w[i] \in Lead PROVE i + LeadLength[w[i]] - 1 =< n
  BY <1>1, <1>3, <1>7 DEF Complete
<1>. QED  BY <1>4, <1>5, <1>6, <1>7 DEF Text, Fits, Complete
=============================================================================
