--------------------------- MODULE Utf8Validation ---------------------------
(***************************************************************************)
(* The UTF-8 check of a literal stage (src/src/literal.rs): text arrives   *)
(* in chunks, and the bytes of a character that a chunk leaves incomplete  *)
(* are kept as a tail until the next one.                                  *)
(*                                                                         *)
(* A byte stands for a class of bytes: a lead byte for those with the same *)
(* length and the same allowed second bytes.  The second byte is the only  *)
(* one a lead restricts further than to the trail bytes.                   *)
(***************************************************************************)
EXTENDS ByteSlices

CONSTANTS
    Ascii,       \* one-byte characters
    Trail,       \* the bytes 80 to BF
    Invalid,     \* the bytes that occur in no character
    LeadLength,  \* LeadLength[b] = the length of the characters b begins
    SecondByte   \* SecondByte[b] = the trail bytes allowed after b

Lead == DOMAIN LeadLength
Byte == Ascii \cup Trail \cup Invalid \cup Lead

ASSUME Utf8Assumption ==
    /\ LeadLength \in [Lead -> 2..4]
    /\ SecondByte \in [Lead -> SUBSET Trail]
    /\ Ascii \cap (Trail \cup Lead) = {} /\ Trail \cap Lead = {}
    /\ Invalid \cap (Ascii \cup Trail \cup Lead) = {}

\* s is the beginning of a character, and more than nothing of it.
IsPartOfCharacter(s) ==
    /\ Len(s) > 0
    /\ s[1] \in Lead
    /\ Len(s) =< LeadLength[s[1]]
    /\ Len(s) > 1 => s[2] \in SecondByte[s[1]]
    /\ \A i \in 2..Len(s) : s[i] \in Trail

IsCharacter(s) ==
    \/ Len(s) = 1 /\ s[1] \in Ascii
    \/ IsPartOfCharacter(s) /\ Len(s) = LeadLength[s[1]]

\* Where a character of s ends that begins at offset i; there is one at most.
CharacterEnds(s, i) ==
    {e \in (i + 1)..(i + 4) : e =< Len(s) /\ IsCharacter(SubSeq(s, i + 1, e))}
CharacterEnd(s, i) == CHOOSE e \in CharacterEnds(s, i) : TRUE

\* std::str::from_utf8: "ok", or "incomplete" from offset at on when only the
\* end of the last character is missing, or "error".
FromUtf8(s) ==
    LET scan[i \in 0..Len(s)] ==
          IF i = Len(s) THEN [kind |-> "ok", at |-> i] ELSE
          IF CharacterEnds(s, i) # {} THEN scan[CharacterEnd(s, i)] ELSE
          IF IsPartOfCharacter(From(s, i))
             THEN [kind |-> "incomplete", at |-> i]
             ELSE [kind |-> "error", at |-> i]
    IN  scan[0]

\* validate_utf8_slice, when the tail is empty.
ValidateSlice(input) ==
    LET text == FromUtf8(input)
    IN  [valid |-> text.kind # "error",
         tail  |-> IF text.kind = "incomplete" THEN From(input, text.at)
                                               ELSE <<>>]

\* A mutant of ValidateUtf8: the tail is replaced, not extended.
ValidateUtf8_TailReplaced(tail, input) ==
    IF tail = <<>> THEN ValidateSlice(input) ELSE
    LET missing  == LeadLength[tail[1]] - Len(tail)
        n        == IF Len(input) < missing THEN Len(input) ELSE missing
        boundary == tail \o First(input, n)
    IN  CASE FromUtf8(boundary).kind = "ok" -> ValidateSlice(From(input, n))
          [] FromUtf8(boundary).kind = "incomplete" ->
               [valid |-> TRUE, tail |-> First(input, n)]
          [] OTHER -> [valid |-> FALSE, tail |-> <<>>]

\* validate_utf8: the tail is completed before the rest is looked at.
ValidateUtf8(tail, input) ==
    IF tail = <<>> THEN ValidateSlice(input) ELSE
    LET missing  == LeadLength[tail[1]] - Len(tail)
        n        == IF Len(input) < missing THEN Len(input) ELSE missing
        boundary == tail \o First(input, n)
    IN  CASE FromUtf8(boundary).kind = "ok" -> ValidateSlice(From(input, n))
          [] FromUtf8(boundary).kind = "incomplete" ->
               [valid |-> TRUE, tail |-> boundary]
          [] OTHER -> [valid |-> FALSE, tail |-> <<>>]

-----------------------------------------------------------------------------
(* What the check should find, stated on all that has arrived.             *)

\* s is a sequence of characters.
IsText(s) ==
    LET from[i \in 0..Len(s)] ==
          \/ i = Len(s)
          \/ \E n \in 1..4 : /\ i + n =< Len(s)
                             /\ IsCharacter(SubSeq(s, i + 1, i + n))
                             /\ from[i + n]
    IN  from[0]

\* Some characters, and then perhaps the beginning of one.
BeginsText(s) ==
    \E n \in 0..Len(s) :
        IsText(First(s, n)) /\ (n < Len(s) => IsPartOfCharacter(From(s, n)))
=============================================================================
