------------------------- MODULE MCLiteralRewriter --------------------------
(* TLC instances of LiteralRewriter: every body up to MaxLength bytes over *)
(* a small alphabet, cut into chunks in every way.                         *)
EXTENDS LiteralRewriter

CONSTANTS MaxLength

AllInputs == UNION {[1..n -> Byte] : n \in 0..MaxLength}

(* "/e/" stands for /extensions-static/<name>/dist/v3dist/: it ends with   *)
(* the byte it begins with, so that occurrences can overlap.  "/b" is a    *)
(* base path; it shares the slash with the source.                         *)
PathSource == <<"/", "e", "/">>
PathPrefix == <<"/", "b">>

(* "/h/" stands for the host template that rule 2 searches for, and "b/"   *)
(* for the base path and slash that it appends.                            *)
HostSource == <<"h", "/">>
HostSuffix == <<"b", "/">>

(* A quoted path, replaced by the same path under the base path.           *)
QuotedSource == <<"q", "e", "q">>
QuotedTarget == <<"q", "b", "e", "q">>

(* The literals of the Prepend and Append instances insert quietly.        *)
ASSUME QuietAssumption == Mode # "exact" => InsertsQuietly(Stage)
=============================================================================
