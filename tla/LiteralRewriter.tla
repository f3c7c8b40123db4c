--------------------------- MODULE LiteralRewriter --------------------------
(***************************************************************************)
(* StreamingLiteralRewriter (src/src/literal.rs): one search-and-replace   *)
(* stage over a body that arrives in chunks cut anywhere.  The rewriter    *)
(* searches for a literal source and inserts bytes before it (Prepend),    *)
(* after it (Append), or replaces it (Exact); Prepend and Append leave an  *)
(* occurrence alone that already carries the inserted bytes.               *)
(*                                                                         *)
(* push and finish are steps of their caller; each is followed by the      *)
(* iterations of process_available, one step per iteration, and nothing    *)
(* else can happen until it returns.  The consumed part of pending is      *)
(* dropped at each iteration instead of at the end.  The body is UTF-8 and *)
(* within the limit: a stage of a pipeline has the limit usize::MAX.       *)
(*                                                                         *)
(* base, matched and kept are history variables: they say which bytes of   *)
(* the input, by their offset, the rewriter has dealt with, and how.       *)
(***************************************************************************)
EXTENDS LiteralStage

CONSTANTS
    Byte,      \* the bytes that bodies and literals are made of
    Mode,      \* LiteralRewriteMode: "prepend", "exact" or "append"
    Source,    \* the literal that is searched for
    Inserted,  \* inserted_prefix or inserted_suffix; in Exact mode, what
               \* replaces the source
    Inputs     \* the bodies

ASSUME ModeAssumption == Mode \in {"prepend", "exact", "append"}
ASSUME SourceAssumption == Source \in Seq(Byte) /\ Len(Source) > 0
ASSUME InsertedAssumption == Inserted \in Seq(Byte)
ASSUME InputsAssumption == Inputs \subseteq Seq(Byte)

VARIABLES
    input,     \* the whole body
    fed,       \* how much of it push has been given
    pending,   \* received and not consumed
    history,   \* input_history: the last input bytes before pending
    finished,  \* finish has been called
    phase,     \* "idle", or "scan" inside process_available
    output,    \* everything returned so far
    base,      \* offset in input of the first byte of pending
    matched,   \* offsets of the occurrences the search stopped at
    kept       \* those of them that were left as they are

vars == <<input, fed, pending, history, finished, phase, output, base,
          matched, kept>>

\* The stage as LiteralStage has it.
Stage == [mode |-> Mode, source |-> Source, inserted |-> Inserted]

-----------------------------------------------------------------------------
(* The search                                                              *)

\* memmem::Finder::find stops at the first occurrence in s.
FindsAt(s, p) ==
    /\ OccursAt(s, p, Source)
    /\ \A q \in 0..(p - 1) : ~OccursAt(s, q, Source)

Found(s) == \E p \in 0..Len(s) : OccursAt(s, p, Source)

-----------------------------------------------------------------------------
(* The input before the match.                                             *)

\* A mutant of AlreadyPrefixed: only what is in pending is looked at.
AlreadyPrefixed_SamePush(before) ==
    Mode = "prepend" /\ EndsWith(before, Inserted)

\* original_input_ends_with_prefix: the prefix may lie in what precedes the
\* match in pending, in the history, or across the two.
AlreadyPrefixed(before) ==
    /\ Mode = "prepend"
    /\ LET missing == Len(Inserted) - Len(before)
       IN  IF missing =< 0
              THEN EndsWith(before, Inserted)
              ELSE /\ EndsWith(history, First(Inserted, missing))
                   /\ before = From(Inserted, missing)

\* A mutant of Remember: the old bytes make room all at once.
Remember_Cleared(hist, bytes) ==
    IF Mode # "prepend"
       THEN hist
       ELSE IF Len(bytes) >= Len(Inserted)
               THEN Last(bytes, Len(Inserted))
               ELSE IF Len(hist) + Len(bytes) > Len(Inserted)
                       THEN bytes
                       ELSE hist \o bytes

\* remember_input: the history keeps the last bytes of the input, as many as
\* the inserted prefix has.
Remember(hist, bytes) ==
    IF Mode # "prepend"
       THEN hist
       ELSE IF Len(bytes) >= Len(Inserted)
               THEN Last(bytes, Len(Inserted))
               ELSE LET excess == Len(hist) + Len(bytes) - Len(Inserted)
                    IN  (IF excess > 0 THEN From(hist, excess) ELSE hist)
                           \o bytes

-----------------------------------------------------------------------------
Init ==
    /\ input \in Inputs
    /\ fed = 0
    /\ pending = <<>>
    /\ history = <<>>
    /\ finished = FALSE
    /\ phase = "idle"
    /\ output = <<>>
    /\ base = 0
    /\ matched = {}
    /\ kept = {}

\* The next n bytes of the body arrive; a chunk may be empty.
Push(n) ==
    /\ phase = "idle" /\ ~finished
    /\ fed + n =< Len(input)
    /\ pending' = pending \o SubSeq(input, fed + 1, fed + n)
    /\ fed' = fed + n
    /\ phase' = "scan"
    /\ UNCHANGED <<input, history, finished, output, base, matched, kept>>

\* The caller has pushed the whole body.
Finish ==
    /\ phase = "idle" /\ ~finished
    /\ fed = Len(input)
    /\ finished' = TRUE
    /\ phase' = "scan"
    /\ UNCHANGED <<input, fed, pending, history, output, base, matched, kept>>

\* A mutant of SuffixUndecided: the decision is taken on what has arrived.
SuffixUndecided_Never(after) == FALSE

\* Append: too little has arrived after the match to see the whole suffix, and
\* what has arrived agrees with it.
SuffixUndecided(after) ==
    /\ Mode = "append"
    /\ ~finished
    /\ Len(after) < Len(Inserted)
    /\ StartsWith(Inserted, after)

\* The match at p stays as it is.
Keep(p) ==
    \/ AlreadyPrefixed(First(pending, p))
    \/ Mode = "append" /\ StartsWith(From(pending, p + Len(Source)), Inserted)

\* One iteration of the loop: the next match is at offset p of pending.
RewriteMatch(p) ==
    /\ phase = "scan"
    /\ FindsAt(pending, p)
    /\ ~SuffixUndecided(From(pending, p + Len(Source)))
    /\ output' = output \o First(pending, p)
                        \o (IF Keep(p) THEN Source ELSE Replacement(Stage))
    /\ history' = Remember(Remember(history, First(pending, p)), Source)
    /\ pending' = From(pending, p + Len(Source))
    /\ base' = base + p + Len(Source)
    /\ matched' = matched \cup {base + p}
    /\ kept' = IF Keep(p) THEN kept \cup {base + p} ELSE kept
    /\ UNCHANGED <<input, fed, finished, phase>>

\* The early return of the loop: wait for the rest of the suffix.
WaitForSuffix(p) ==
    /\ phase = "scan"
    /\ FindsAt(pending, p)
    /\ SuffixUndecided(From(pending, p + Len(Source)))
    /\ output' = output \o First(pending, p)
    /\ history' = Remember(history, First(pending, p))
    /\ pending' = From(pending, p)
    /\ base' = base + p
    /\ phase' = "idle"
    /\ UNCHANGED <<input, fed, finished, matched, kept>>

\* Mutants of EmitLength: a source cut by a chunk boundary is let go, and
\* nothing is let go before the end.
EmitLength_CutSource ==
    IF finished THEN Len(pending) ELSE
    IF Len(pending) > Len(Source) - 2 THEN Len(pending) - (Len(Source) - 2)
                                      ELSE 0
EmitLength_Hoard == IF finished THEN Len(pending) ELSE 0

\* How much can be let go when nothing matches: all but the bytes that may
\* begin a source that continues in the next chunk.
EmitLength ==
    IF finished THEN Len(pending) ELSE
    IF Len(pending) > Len(Source) - 1 THEN Len(pending) - (Len(Source) - 1)
                                      ELSE 0

\* A mutant of EmitTail: what is let go is not drained from pending.
EmitTail_NotDrained ==
    /\ phase = "scan"
    /\ ~Found(pending)
    /\ output' = output \o First(pending, EmitLength)
    /\ history' = Remember(history, First(pending, EmitLength))
    /\ base' = base + EmitLength
    /\ phase' = "idle"
    /\ UNCHANGED <<input, fed, pending, finished, matched, kept>>

\* No further match: let the rest go and return.
EmitTail ==
    /\ phase = "scan"
    /\ ~Found(pending)
    /\ output' = output \o First(pending, EmitLength)
    /\ history' = IF EmitLength > 0
                     THEN Remember(history, First(pending, EmitLength))
                     ELSE history
    /\ pending' = From(pending, EmitLength)
    /\ base' = base + EmitLength
    /\ phase' = "idle"
    /\ UNCHANGED <<input, fed, finished, matched, kept>>

Next ==
    \/ \E n \in 0..Len(input) : Push(n)
    \/ Finish
    \/ \E p \in 0..Len(pending) : RewriteMatch(p) \/ WaitForSuffix(p)
    \/ EmitTail

Spec == Init /\ [][Next]_vars

\* The whole body has been pushed and finish has returned.
Done == finished /\ phase = "idle"

-----------------------------------------------------------------------------
(* What the stage should compute, stated on the whole body.                *)

\* The rewritten body.
Rewritten(s) == LiteralReturned(Stage, s, TRUE)

-----------------------------------------------------------------------------
(* Properties                                                              *)

(* Type invariant: pending is the received part of the body from base on.  *)
TypeOK ==
    /\ input \in Seq(Byte)
    /\ fed \in 0..Len(input)
    /\ base \in 0..fed
    /\ pending = SubSeq(input, base + 1, fed)
    /\ history \in Seq(Byte)
    /\ finished \in BOOLEAN
    /\ phase \in {"idle", "scan"}
    /\ output \in Seq(Byte)
    /\ matched \subseteq 0..Len(input)
    /\ kept \subseteq matched

(* Wherever the chunks are cut, the search stops at exactly the leftmost   *)
(* non-overlapping occurrences of the source in the part consumed: each    *)
(* one it stopped at is an occurrence, no two overlap, and an occurrence   *)
(* it did not stop at overlaps an earlier one that it did.                 *)
StopsAtLeftmost ==
    /\ \A p \in matched :
         OccursAt(input, p, Source) /\ p + Len(Source) =< base
    /\ \A p, q \in matched : p < q => p + Len(Source) =< q
    /\ \A p \in 0..(base - 1) :
         OccursAt(input, p, Source) /\ p \notin matched =>
            \E q \in matched : q < p /\ p < q + Len(Source)

(* An occurrence is left alone exactly when the whole body, not the chunk  *)
(* or the output, has the inserted bytes next to it.                       *)
KeepsExactlyCarriers ==
    \A p \in matched : p \in kept <=> Carries(Stage, input, p)

(* The output is a beginning of the rewritten body at all times.  Between  *)
(* two calls it is exactly what can be returned for what has been received *)
(* so far, however it was cut, and all of it once finish returned.         *)
OutputIsRewritten ==
    /\ StartsWith(Rewritten(input), output)
    /\ phase = "idle" =>
         output = LiteralReturned(Stage, First(input, fed), finished)

(* Between two chunks the stage buffers less than one source, and one      *)
(* suffix in Append mode: memory does not grow with the body.              *)
BoundedLookahead ==
    phase = "idle" =>
        Len(pending) < Len(Source) + (IF Mode = "append" THEN Len(Inserted)
                                                         ELSE 0)

(* README: every body transform "is idempotent when run again over already *)
(* rewritten static output".                                               *)
Idempotent == Done => Rewritten(output) = output
=============================================================================
