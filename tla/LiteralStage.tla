---------------------------- MODULE LiteralStage ----------------------------
(***************************************************************************)
(* What a literal stage (StreamingLiteralRewriter, src/src/literal.rs)     *)
(* returns for what it has received, without chunks, buffer or history.    *)
(* LiteralRewriter shows that the stage computes it, whatever chunks the   *)
(* body comes in, and RewritePipeline takes it for its stages.             *)
(*                                                                         *)
(* A stage is [mode |-> "prepend", "exact" or "append", source |-> the     *)
(* literal that is searched for, inserted |-> the prefix or suffix, or in  *)
(* exact mode what replaces the source].                                   *)
(***************************************************************************)
EXTENDS ByteSlices

\* What becomes of an occurrence that is rewritten.
Replacement(st) ==
    CASE st.mode = "prepend" -> st.inserted \o st.source
      [] st.mode = "append"  -> st.source \o st.inserted
      [] st.mode = "exact"   -> st.inserted

\* The source at offset q of s has the inserted bytes next to it already.
Carries(st, s, q) ==
    \/ /\ st.mode = "prepend"
       /\ q >= Len(st.inserted)
       /\ OccursAt(s, q - Len(st.inserted), st.inserted)
    \/ st.mode = "append" /\ OccursAt(s, q + Len(st.source), st.inserted)

\* Whether it has is not known yet.
Undecided(st, after) ==
    /\ st.mode = "append"
    /\ Len(after) < Len(st.inserted) /\ StartsWith(st.inserted, after)

\* Everything the stage has returned once it has received s: from left to right,
\* every occurrence that does not overlap the one before it is replaced unless it
\* carries the inserted bytes.  Before the end of the body the stage holds back
\* an occurrence that is undecided, and the bytes that may begin another one.
LiteralReturned(st, s, at_end) ==
    LET held == IF at_end THEN 0 ELSE Len(st.source) - 1
        rest[p \in 0..Len(s)] ==
          LET hits == {q \in p..Len(s) : OccursAt(s, q, st.source)}
              q    == Leftmost(hits)
              next == q + Len(st.source)
          IN  IF hits = {} THEN SubSeq(s, p + 1, Len(s) - held) ELSE
              IF ~at_end /\ Undecided(st, From(s, next))
                 THEN SubSeq(s, p + 1, q)
                 ELSE SubSeq(s, p + 1, q)
                        \o (IF Carries(st, s, q) THEN st.source
                                                 ELSE Replacement(st))
                        \o rest[next]
    IN  rest[0]

\* To insert the text makes no occurrence of the source, whatever stands around
\* it, but for those that were there.
InsertsQuietly(st) ==
    \/ /\ st.mode = "prepend"
       /\ LET new == st.inserted \o st.source
          IN  /\ \A j \in 0..(Len(st.inserted) - 1) : ~OccursAt(new, j, st.source)
              /\ \A e \in 1..(Len(st.source) - 1) :
                   LET end == From(st.source, e)
                   IN  StartsWith(new, end) => StartsWith(st.source, end)
    \/ /\ st.mode = "append"
       /\ \A j \in 0..(Len(st.inserted) - 1) :
            LET end == From(st.inserted, j)
            IN  ~StartsWith(end, st.source) /\ ~StartsWith(st.source, end)
=============================================================================
