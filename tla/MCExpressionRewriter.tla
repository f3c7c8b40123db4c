------------------------ MODULE MCExpressionRewriter ------------------------
(* TLC instances of ExpressionRewriter: every body up to MaxLength bytes   *)
(* over a small alphabet, cut into chunks in every way.                    *)
EXTENDS ExpressionRewriter

CONSTANTS MaxLength

(* basename:"".concat(a.b,"/consolev3") : the prefix begins with an        *)
(* identifier byte, so that it may end a longer identifier.  Only the      *)
(* prefix is replaced, with "a," for the one that has the base path.       *)
Basename == [prefix   |-> <<"a", ":">>,
             suffix   |-> <<",", ":">>,
             member   |-> TRUE,
             template |-> <<"a", ",", Marker, ",", ":">>]

(* )),a.replace(/\/\/+/,"/")} : a prefix of punctuation, a suffix that begins *)
(* with a dot and ends with the byte the prefix ends with, and a template   *)
(* that begins with the prefix and has the identifier twice.                *)
Replace == [prefix   |-> <<"}", ",">>,
            suffix   |-> <<".", ",">>,
            member   |-> FALSE,
            template |-> <<"}", ",", ".", Marker, ",", Marker, ".", ",">>]

(* No two patterns of one rule of build_response_rewriter can overlap.      *)
(* Those of this rule can, so that the stage has to choose.                 *)
Shared == [prefix   |-> <<"}", ",">>,
           suffix   |-> <<"}", ",">>,
           member   |-> FALSE,
           template |-> <<".", Marker, "}", Marker, ",">>]

AllRules == {Basename, Replace, Shared}

Bodies(bytes, length) == UNION {[1..n -> bytes] : n \in 0..length}

(* Two patterns of Shared that overlap are eight bytes: its bodies are     *)
(* longer and over fewer bytes, those of Replace shorter and over more.    *)
AllInputs(r) ==
    CASE r = Basename -> Bodies({"a", ":", ".", ","}, MaxLength)
      [] r = Replace  -> Bodies({"a", "1", "}", ".", ","}, MaxLength - 1)
      [] r = Shared   -> Bodies({"a", "}", ","}, MaxLength + 1)

(* What the rules write makes no pattern; shown for expressions of up to   *)
(* four bytes, as long as a prefix and a suffix together.                  *)
ShortExpressions ==
    Bodies(IdentifierContinue \cup {Dot}, 4) \cap Expressions

ASSUME QuietAssumption == \A r \in Rules : RendersQuietly(r, ShortExpressions)
=============================================================================
