------------------------- MODULE ExpressionRewriter -------------------------
(***************************************************************************)
(* StreamingExpressionPatternRewriter (src/src/literal.rs): one stage that *)
(* rewrites prefix, expression, suffix, where the expression is an         *)
(* identifier or, in member syntax, identifiers joined by dots.  Either    *)
(* the prefix is replaced, or the whole is by a template that the          *)
(* expression is put into.                                                 *)
(*                                                                         *)
(* As in LiteralRewriter, push and finish are followed by the iterations   *)
(* of process_available, one step each, and the consumed part of pending   *)
(* is dropped at each iteration instead of at the end.                     *)
(*                                                                         *)
(* base and replaced are history variables: how much of the body has been  *)
(* consumed, and the offsets in it of the patterns that were rewritten.    *)
(***************************************************************************)
EXTENDS ByteSlices

CONSTANTS
    Byte,                \* the bytes that bodies and patterns are made of
    IdentifierStart,     \* is_ascii_identifier_start
    IdentifierContinue,  \* is_ascii_identifier_continue
    Dot,                 \* the byte "."
    Marker,              \* stands for the expression in a template
    None,                \* previous_byte before any byte
    Rules,               \* set of [prefix |-> ..., suffix |-> ...,
                         \*         member |-> BOOLEAN, template |-> ...]
    Inputs(_)            \* the bodies that the stage of a rule is given

ASSUME RulesAssumption ==
    \A r \in Rules :
      /\ r.prefix \in Seq(Byte) /\ Len(r.prefix) > 0
      /\ r.suffix \in Seq(Byte) /\ Len(r.suffix) > 0
      /\ r.member \in BOOLEAN
      /\ r.template \in Seq(Byte \cup {Marker}) /\ Len(r.template) > 0
ASSUME ByteAssumption ==
    /\ IdentifierStart \subseteq IdentifierContinue
    /\ IdentifierContinue \subseteq Byte
    /\ Dot \in Byte \ IdentifierContinue
    /\ None \notin Byte /\ Marker \notin Byte
\* The rules of build_response_rewriter: a suffix cannot continue the expression
\* before it, and a template ends with the byte that the suffix ends with.
ASSUME RuleShapeAssumption ==
    /\ IdentifierStart # {}
    /\ \A r \in Rules :
         /\ r.suffix[1] \notin IdentifierContinue
         /\ r.member => r.suffix[1] # Dot
         /\ r.template[Len(r.template)] = r.suffix[Len(r.suffix)]
ASSUME InputsAssumption == \A r \in Rules : Inputs(r) \subseteq Seq(Byte)

VARIABLES
    rule,           \* what the stage was made for
    input,          \* the whole body
    fed,            \* how much of it push has been given
    pending,        \* received and not consumed
    previous_byte,  \* the byte written last
    finished,       \* finish has been called
    phase,          \* "idle", or "scan" inside process_available
    output,         \* everything returned so far
    base,           \* offset in input of the first byte of pending
    replaced        \* offsets of the patterns that were rewritten

vars == <<rule, input, fed, pending, previous_byte, finished, phase, output,
          base, replaced>>

given == <<rule, input>>

Prefix       == rule.prefix
Suffix       == rule.suffix
MemberSyntax == rule.member     \* PatternSyntax::MemberExpression
Template     == rule.template

-----------------------------------------------------------------------------
(* The pattern                                                             *)

\* memmem::Finder::find stops at the first prefix in s.
FindsAt(s, p) ==
    /\ OccursAt(s, p, Prefix)
    /\ \A q \in 0..(p - 1) : ~OccursAt(s, q, Prefix)

Found(s) == \E p \in 0..Len(s) : OccursAt(s, p, Prefix)

NoMatch  == [kind |-> "NoMatch", at |-> 0]
NeedMore == [kind |-> "NeedMore", at |-> 0]
Open     == IF finished THEN NoMatch ELSE NeedMore
Ends(c)  == [kind |-> "End", at |-> c]

\* The offset at which the identifier that begins at c ends.
IdentifierEnd(s, c) ==
    CHOOSE e \in (c + 1)..Len(s) :
        /\ \A i \in (c + 1)..e : s[i] \in IdentifierContinue
        /\ e < Len(s) => s[e + 1] \notin IdentifierContinue

\* scan_identifier_segment, repeated over the dots in member syntax.
ScanExpression(s, start) ==
    LET scan[c \in 0..Len(s)] ==
          IF c = Len(s) THEN Open ELSE
          IF s[c + 1] \notin IdentifierStart THEN NoMatch ELSE
          LET e == IdentifierEnd(s, c)
          IN  IF MemberSyntax /\ e < Len(s) /\ s[e + 1] = Dot
                 THEN scan[e + 1] ELSE Ends(e)
    IN  scan[start]

\* A mutant of MatchCandidate: a suffix that has not arrived in full does not
\* match.
MatchCandidate_Impatient(s) ==
    LET end   == ScanExpression(s, Len(Prefix))
        after == From(s, end.at)
    IN  IF end.kind = "End" /\ ~StartsWith(after, Suffix)
           THEN NoMatch ELSE end

\* A mutant of MatchCandidate: while the suffix is incomplete it is not
\* compared.
MatchCandidate_Patient(s) ==
    LET end   == ScanExpression(s, Len(Prefix))
        after == From(s, end.at)
    IN  IF end.kind = "End" /\ ~StartsWith(after, Suffix)
           THEN IF Len(after) < Len(Suffix) THEN Open ELSE NoMatch
           ELSE end

\* match_candidate, for a prefix at offset 0: where the expression ends if the
\* suffix follows it, and Open as long as what has arrived can become that.
MatchCandidate(s) ==
    LET end   == ScanExpression(s, Len(Prefix))
        after == From(s, end.at)
    IN  IF end.kind = "End" /\ ~StartsWith(after, Suffix)
           THEN IF Len(after) < Len(Suffix) /\ StartsWith(Suffix, after)
                   THEN Open ELSE NoMatch
           ELSE end

\* preceded_by_identifier rules a candidate out.
Candidate == IF previous_byte \in IdentifierContinue
                THEN NoMatch ELSE MatchCandidate(pending)

\* render_identifier_template; a rule that replaces the prefix is a template
\* of the replacement, the marker and the suffix.
RenderBy(r, expression) ==
    LET render[i \in 0..Len(r.template)] ==
          IF i = 0 THEN <<>> ELSE
          render[i - 1] \o
            (IF r.template[i] = Marker THEN expression ELSE <<r.template[i]>>)
    IN  render[Len(r.template)]

Render(expression) == RenderBy(rule, expression)

-----------------------------------------------------------------------------
Init ==
    /\ rule \in Rules
    /\ input \in Inputs(rule)
    /\ fed = 0
    /\ pending = <<>>
    /\ previous_byte = None
    /\ finished = FALSE
    /\ phase = "idle"
    /\ output = <<>>
    /\ base = 0
    /\ replaced = {}

\* The next n bytes of the body arrive; a chunk may be empty.
Push(n) ==
    /\ phase = "idle" /\ ~finished
    /\ fed + n =< Len(input)
    /\ pending' = pending \o SubSeq(input, fed + 1, fed + n)
    /\ fed' = fed + n
    /\ phase' = "scan"
    /\ UNCHANGED <<given, previous_byte, finished, output, base, replaced>>

\* The caller has pushed the whole body.
Finish ==
    /\ phase = "idle" /\ ~finished
    /\ fed = Len(input)
    /\ finished' = TRUE
    /\ phase' = "scan"
    /\ UNCHANGED <<given, fed, pending, previous_byte, output, base, replaced>>

\* Mutants of Emit: what is let go is not drained from pending, and the byte
\* before the next candidate is not noted.
Emit_NotDrained(n) ==
    /\ output' = output \o First(pending, n)
    /\ pending' = pending
    /\ base' = base + n
    /\ previous_byte' = IF n > 0 THEN pending[n] ELSE previous_byte
    /\ UNCHANGED <<given, fed, finished, replaced>>
Emit_Unnoted(n) ==
    /\ output' = output \o First(pending, n)
    /\ pending' = From(pending, n)
    /\ base' = base + n
    /\ previous_byte' = previous_byte
    /\ UNCHANGED <<given, fed, finished, replaced>>

\* The first n bytes of pending go out as they are.
Emit(n) ==
    /\ output' = output \o First(pending, n)
    /\ pending' = From(pending, n)
    /\ base' = base + n
    /\ previous_byte' = IF n > 0 THEN pending[n] ELSE previous_byte
    /\ UNCHANGED <<given, fed, finished, replaced>>

\* One iteration of the loop: go to the next prefix.
SkipToPrefix(p) ==
    /\ phase = "scan"
    /\ p > 0 /\ FindsAt(pending, p)
    /\ Emit(p)
    /\ phase' = phase

\* A prefix that no expression and suffix follow: one byte goes out.
Reject ==
    /\ phase = "scan"
    /\ OccursAt(pending, 0, Prefix)
    /\ Candidate.kind = "NoMatch"
    /\ Emit(1)
    /\ phase' = phase

\* A pattern: what the template makes of it goes out.
RewriteMatch ==
    /\ phase = "scan"
    /\ OccursAt(pending, 0, Prefix)
    /\ Candidate.kind = "End"
    /\ LET end == Candidate.at
           new == Render(SubSeq(pending, Len(Prefix) + 1, end))
       IN  /\ output' = output \o new
           /\ previous_byte' = new[Len(new)]
           /\ pending' = From(pending, end + Len(Suffix))
           /\ base' = base + end + Len(Suffix)
    /\ replaced' = replaced \cup {base}
    /\ UNCHANGED <<given, fed, finished, phase>>

\* What has arrived may become a pattern: return.
WaitForMore ==
    /\ phase = "scan"
    /\ OccursAt(pending, 0, Prefix)
    /\ Candidate.kind = "NeedMore"
    /\ phase' = "idle"
    /\ UNCHANGED <<given, fed, pending, previous_byte, finished, output, base,
                   replaced>>

\* How much can be let go when there is no prefix: all but the bytes that may
\* begin one that continues in the next chunk.
EmitLength ==
    IF finished THEN Len(pending) ELSE
    IF Len(pending) > Len(Prefix) - 1 THEN Len(pending) - (Len(Prefix) - 1)
                                      ELSE 0

\* No further prefix: let the rest go and return.
EmitTail ==
    /\ phase = "scan"
    /\ ~Found(pending)
    /\ Emit(EmitLength)
    /\ phase' = "idle"

Next ==
    \/ \E n \in 0..Len(input) : Push(n)
    \/ Finish
    \/ \E p \in 1..Len(pending) : SkipToPrefix(p)
    \/ Reject
    \/ RewriteMatch
    \/ WaitForMore
    \/ EmitTail

Spec == Init /\ [][Next]_vars

\* The whole body has been pushed and finish has returned.
Done == finished /\ phase = "idle"

-----------------------------------------------------------------------------
(* What the stage should compute, stated on the whole body.                *)

\* s[a..e] is an expression that the bytes after it do not continue.
IsExpression(s, a, e) ==
    LET text   == SubSeq(s, a + 1, e)
        starts == {1} \cup {i \in 2..Len(text) : text[i - 1] = Dot}
    IN  /\ Len(text) > 0
        /\ \A i \in 1..Len(text) :
             \/ text[i] \in IdentifierContinue
             \/ MemberSyntax /\ text[i] = Dot
        /\ text[Len(text)] # Dot
        /\ \A i \in starts : text[i] \in IdentifierStart
        /\ e < Len(s) => /\ s[e + 1] \notin IdentifierContinue
                         /\ MemberSyntax => s[e + 1] # Dot

\* The body has the pattern from p, its expression ending at e.
IsPattern(s, p, e) ==
    /\ OccursAt(s, p, Prefix)
    /\ IsExpression(s, p + Len(Prefix), e)
    /\ OccursAt(s, e, Suffix)
    /\ p > 0 => s[p] \notin IdentifierContinue

PatternAt(s, p) == \E e \in (p + 1)..Len(s) : IsPattern(s, p, e)
ExpressionEnd(s, p) == CHOOSE e \in (p + 1)..Len(s) : IsPattern(s, p, e)

\* The rewritten body: from left to right, every pattern that does not overlap
\* the one before it is replaced.
Rewritten(s) ==
    LET rest[i \in 0..Len(s)] ==
          IF i = Len(s) THEN <<>> ELSE
          IF PatternAt(s, i)
             THEN LET e == ExpressionEnd(s, i)
                  IN  Render(SubSeq(s, i + Len(Prefix) + 1, e))
                        \o rest[e + Len(Suffix)]
             ELSE <<s[i + 1]>> \o rest[i + 1]
    IN  rest[0]

-----------------------------------------------------------------------------
(* Properties                                                              *)

(* Type invariant: pending is the received part of the body from base on.  *)
TypeOK ==
    /\ fed \in 0..Len(input)
    /\ base \in 0..fed
    /\ pending = SubSeq(input, base + 1, fed)
    /\ previous_byte \in Byte \cup {None}
    /\ finished \in BOOLEAN
    /\ phase \in {"idle", "scan"}
    /\ output \in Seq(Byte)
    /\ replaced \subseteq 0..Len(input)

(* Wherever the chunks are cut, the stage computes what the whole body     *)
(* says, and what it has returned is never to be taken back: whether it    *)
(* waits or gives up at the end of a chunk does not show.                  *)
OutputIsRewritten ==
    /\ StartsWith(Rewritten(input), output)
    /\ Done => output = Rewritten(input)

(* previous_byte is taken from the output, yet stands for the body: what   *)
(* is rewritten is a pattern whose prefix is not the end of a longer       *)
(* identifier of the body, across chunks, skipped bytes and the pattern    *)
(* before, and no such pattern is passed over.                             *)
ReplacesLeftmost ==
    /\ \A p \in replaced : PatternAt(input, p)
    /\ \A p \in 0..(base - 1) :
         PatternAt(input, p) /\ p \notin replaced =>
            \E q \in replaced : q < p /\ p < ExpressionEnd(input, q) + Len(Suffix)

(* The stage keeps bytes back between two chunks only while they may still *)
(* become a pattern: fewer than a prefix, or a prefix and what some rest   *)
(* of the body would complete.                                             *)
KeepsBackOnlyOpen ==
    phase = "idle" /\ Len(pending) >= Len(Prefix) =>
        \E b \in IdentifierStart, n \in 0..Len(Suffix) :
            \E whole \in {pending \o From(Suffix, n),
                          pending \o <<b>> \o Suffix} :
                PatternAt(whole, 0)

(* What stands for an expression, in either syntax.                        *)
Expressions ==
    {x \in Seq(Byte) :
       /\ Len(x) > 0 /\ x[1] \in IdentifierStart
       /\ \A i \in 1..Len(x) : x[i] \in IdentifierContinue \cup {Dot}}

(* What a rule writes for these expressions makes no pattern, whatever      *)
(* stands around it: no prefix followed by an expression begins in it, and *)
(* no pattern that began before it goes on in it.                          *)
Agree(s, t) == StartsWith(s, t) \/ StartsWith(t, s)

RendersQuietly(r, expressions) ==
    \A x \in expressions :
      LET new == RenderBy(r, x)
      IN  /\ \A j \in 0..(Len(new) - 1), b \in IdentifierStart :
               ~Agree(From(new, j), Append(r.prefix, b))
          /\ \A y \in expressions :
               LET old == r.prefix \o y \o r.suffix
               IN  \A d \in 1..(Len(old) - 1) : ~Agree(new, From(old, d))

(* README: every body transform "is idempotent when run again over already *)
(* rewritten static output".  So it is when the rules render quietly.      *)
Idempotent == Done => Rewritten(output) = output
=============================================================================
