------------------------------- MODULE MigMeta ------------------------------
(***************************************************************************)
(* rewrite_mig_meta_base_uri (src/src/rewrite.rs), the transform of the    *)
(* buffered stage of rule 5: in every assignment to window._mig_meta of a  *)
(* quoted Base64 JSON document, the base URI in the document is replaced.  *)
(*                                                                         *)
(* The name of the variable is one symbol: the whole page is there, so     *)
(* that nothing can cut it.  So is a text that decodes to a JSON document. *)
(***************************************************************************)
EXTENDS ByteSlices

CONSTANTS
    BaseUri,    \* BaseUri[e]: the top-level baseURI in the document that e
                \* decodes to, for each e that has one
    Rebased,    \* Rebased[e]: that document with the desired base URI, encoded
    DesiredUri  \* {base_path}/proxy/ys1000

OriginalUri == "/proxy/ys1000"

ASSUME MetadataAssumption ==
    /\ DOMAIN Rebased = DOMAIN BaseUri
    /\ \A e \in DOMAIN BaseUri :
         Rebased[e] \in DOMAIN BaseUri /\ BaseUri[Rebased[e]] = DesiredUri
    /\ DesiredUri # OriginalUri

ASSIGNMENT == "window._mig_meta"
Whitespace == {" "}
Quotes     == {"'", "\""}

\* The byte at offset p, as input.get(p) has it: none at the end.
IsAt(s, p, bytes) == p < Len(s) /\ s[p + 1] \in bytes

\* skip_ascii_whitespace
SkipWhitespace(s, p) ==
    CHOOSE q \in p..Len(s) :
        /\ \A i \in p..(q - 1) : IsAt(s, i, Whitespace)
        /\ ~IsAt(s, q, Whitespace)

\* rewrite_mig_meta_payload returns Some.
IsRewritable(payload) ==
    /\ Len(payload) = 1 /\ payload[1] \in DOMAIN BaseUri
    /\ BaseUri[payload[1]] = OriginalUri

\* Where s has one of bytes, from offset p on.
Occurrences(s, p, bytes) == {q \in p..(Len(s) - 1) : s[q + 1] \in bytes}

\* Mutants of SearchFrom: the search goes on inside a value that stays as it
\* is, and it ends with the first value that does not.
SearchFrom_IntoValues(s, quote, end) ==
    IF IsRewritable(SubSeq(s, quote + 2, end)) THEN end + 1 ELSE quote + 1
SearchFrom_FirstOnly(s, quote, end) ==
    IF IsRewritable(SubSeq(s, quote + 2, end)) THEN Len(s) ELSE end + 1

\* search_from after the value between two quotes.
SearchFrom(s, quote, end) == end + 1

\* rewrite_mig_meta_base_uri: the search from search_from on, where the input
\* is copied up to copied_until, at these two offsets.
RewriteMigMeta(s) ==
    LET scan[at \in (0..Len(s)) \X (0..Len(s))] ==
          LET from   == at[1]
              copied == at[2]
              starts == Occurrences(s, from, {ASSIGNMENT})
              start  == Leftmost(starts)
              equals == SkipWhitespace(s, start + 1)
              quote  == SkipWhitespace(s, equals + 1)
              ends   == Occurrences(s, quote + 1, {s[quote + 1]})
              end    == Leftmost(ends)
              value  == SubSeq(s, quote + 2, end)
          IN  IF starts = {} THEN From(s, copied) ELSE
              IF ~IsAt(s, equals, {"="}) \/ ~IsAt(s, quote, Quotes)
                 THEN scan[<<start + 1, copied>>] ELSE
              IF ends = {} THEN From(s, copied) ELSE
              IF IsRewritable(value)
                 THEN SubSeq(s, copied + 1, quote + 1) \o <<Rebased[value[1]]>>
                        \o scan[<<SearchFrom(s, quote, end), end>>]
                 ELSE scan[<<SearchFrom(s, quote, end), copied>>]
    IN  scan[<<0, 0>>]

-----------------------------------------------------------------------------
(* What it should compute, without a scan.                                 *)

\* At offset a of s begins an assignment whose value is quoted at offset q.
Opens(s, a, q) ==
    /\ IsAt(s, a, {ASSIGNMENT}) /\ IsAt(s, q, Quotes)
    /\ \E e \in (a + 1)..(q - 1) :
         /\ s[e + 1] = "="
         /\ \A i \in (a + 1)..(q - 1) : i # e => s[i + 1] \in Whitespace

\* The value quoted at offset q ends at offset e.
Closes(s, q, e) ==
    /\ q < e /\ e < Len(s) /\ s[e + 1] = s[q + 1]
    /\ \A i \in (q + 1)..(e - 1) : s[i + 1] # s[q + 1]

\* The offsets at which an assignment begins that is not part of the value of
\* another one; a value that is not closed is all of the rest.
Assignments(s) ==
    LET outermost[a \in 0..Len(s)] ==
          /\ \E q \in a..Len(s) : Opens(s, a, q)
          /\ \A b \in 0..(a - 1), q \in 0..(a - 1) :
               Opens(s, b, q) /\ outermost[b] => \E e \in q..a : Closes(s, q, e)
    IN  {a \in 0..Len(s) : outermost[a]}

\* s with the document replaced in every assignment that has the original one.
WithDesiredUri(s) ==
    LET replaced == {i \in 3..Len(s) :
                       \E a \in Assignments(s) :
                         /\ Opens(s, a, i - 2) /\ Closes(s, i - 2, i)
                         /\ s[i] \in DOMAIN BaseUri
                         /\ BaseUri[s[i]] = OriginalUri}
    IN  [i \in 1..Len(s) |-> IF i \in replaced THEN Rebased[s[i]] ELSE s[i]]
=============================================================================
