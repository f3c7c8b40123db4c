----------------------------- MODULE ByteSlices -----------------------------
(***************************************************************************)
(* Byte slices, by offset as in the code: the first byte is at offset 0.   *)
(***************************************************************************)
EXTENDS Integers, Sequences

First(s, n) == SubSeq(s, 1, n)               \* s[..n]
From(s, n)  == SubSeq(s, n + 1, Len(s))      \* s[n..]
Last(s, n)  == From(s, Len(s) - n)           \* s[s.len() - n..]

\* literal is at offset p of s.
OccursAt(s, p, literal) ==
    /\ p + Len(literal) =< Len(s)
    /\ \A k \in 1..Len(literal) : s[p + k] = literal[k]

StartsWith(s, literal) == OccursAt(s, 0, literal)
EndsWith(s, literal) ==
    Len(literal) =< Len(s) /\ OccursAt(s, Len(s) - Len(literal), literal)

\* What a search returns that finds something at these offsets.
Leftmost(offsets) == CHOOSE p \in offsets : \A q \in offsets : p =< q
=============================================================================
