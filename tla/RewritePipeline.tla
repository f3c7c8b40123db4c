--------------------------- MODULE RewritePipeline --------------------------
(***************************************************************************)
(* StreamingRewritePipeline (src/src/literal.rs) as response_body_filter   *)
(* (src/src/proxy.rs) drives it: the decoded-byte limit, the UTF-8 check,  *)
(* the stages that hand the body on to each other, and finish.             *)
(*                                                                         *)
(* A stage is modelled by what it returns for what it has received: of a   *)
(* literal stage, LiteralRewriter shows that this is LiteralReturned.  A   *)
(* buffered stage returns everything at the end.  Literal stages check     *)
(* UTF-8.                                                                  *)
(***************************************************************************)
EXTENDS LiteralStage, Utf8Validation, MigMeta, Profiles

CONSTANTS
    Cases  \* what a pipeline may be given: [stages, body, max_bytes |->
           \* limits.maxDecodedBytes, sizes |-> the sizes of the chunks that
           \* the body comes in, besides one of all that is left]

ASSUME CasesAssumption ==
    \A c \in Cases :
      /\ Len(c.stages) > 0 /\ c.stages[1].mode # "buffered"
      /\ \A i \in 1..Len(c.stages) :
           /\ c.stages[i].mode \in {"prepend", "exact", "append", "buffered"}
           /\ c.stages[i].inserted \in Seq(Ascii)
           /\ c.stages[i].source \in Seq(Ascii)
           /\ c.stages[i].mode # "buffered" => Len(c.stages[i].source) > 0
      /\ c.body \in Seq(Byte)
      /\ c.max_bytes \in Nat \ {0}
      /\ c.sizes \subseteq Nat
ASSUME SymbolsAssumption ==
    {ASSIGNMENT, "="} \cup Whitespace \cup Quotes \cup DOMAIN BaseUri \subseteq Ascii
\* A text that decodes to a JSON document with a base URI is none of the symbols
\* that the scan of a page looks for, and no part of a literal.
ASSUME DocumentsAssumption ==
    /\ DOMAIN BaseUri \cap ({ASSIGNMENT, "="} \cup Whitespace \cup Quotes) = {}
    /\ \A pipeline \in ProfilePipelines : \A i \in 1..Len(pipeline) :
         \A k \in 1..Len(pipeline[i].source) :
           pipeline[i].source[k] \notin DOMAIN BaseUri

VARIABLES
    given,        \* the pipeline, the body of the upstream and the limit
    fed,          \* how much of it response_body_filter has been given
    total_bytes,  \* what the pipeline has counted
    received,     \* received[i]: everything stage i has been pushed
    utf8_tail,    \* utf8_tail[i] of stage i
    ended,        \* ended[i]: finish of stage i has been called
    call,         \* "idle", or the call that is running: "push" or "finish"
    last_call,    \* it is the filter call of the end of the stream
    stage,        \* the stage that is called next
    carry,        \* what the stage before has returned to this call
    chunk,        \* what push has returned to a filter call not over yet
    result,       \* "running", "done" or the error
    sent          \* what the filter has passed on to the client

vars == <<given, fed, total_bytes, received, utf8_tail, ended, call,
          last_call, stage, carry, chunk, result, sent>>

stages == given.stages
body   == given.body
N      == Len(stages)

-----------------------------------------------------------------------------
(* What a stage returns                                                    *)

\* Everything the stage has returned once it has received s, before the end of
\* the body and after it.
Returned(st, s, at_end) ==
    CASE st.mode # "buffered" -> LiteralReturned(st, s, at_end)
      [] st.mode = "buffered" /\ at_end -> RewriteMigMeta(s)
      [] OTHER -> <<>>

\* push and finish of stage i: what is returned now.
StagePush(i, s) == From(Returned(stages[i], received[i] \o s, FALSE),
                        Len(Returned(stages[i], received[i], FALSE)))
StageFinish(i, s) == From(Returned(stages[i], s, TRUE),
                          Len(Returned(stages[i], s, FALSE)))

\* The check of stage i on what it is pushed.
Checked(i, s) == IF stages[i].mode # "buffered"
                    THEN ValidateUtf8(utf8_tail[i], s)
                    ELSE [valid |-> TRUE, tail |-> <<>>]

-----------------------------------------------------------------------------
Init ==
    /\ given \in Cases
    /\ fed = 0
    /\ total_bytes = 0
    /\ received = [i \in 1..N |-> <<>>]
    /\ utf8_tail = [i \in 1..N |-> <<>>]
    /\ ended = [i \in 1..N |-> FALSE]
    /\ call = "idle"
    /\ last_call = FALSE
    /\ stage = 1
    /\ carry = <<>>
    /\ chunk = <<>>
    /\ result = "running"
    /\ sent = <<>>

\* The error goes up to Pingora, which ends the request.
Fail(error) ==
    /\ result' = error
    /\ call' = "idle"
    /\ UNCHANGED <<given, last_call, stage, carry, chunk, sent>>

\* A mutant of OverLimit: the limit itself is refused.
OverLimit_Inclusive(n) == total_bytes + n >= given.max_bytes

\* The pipeline counts what it is pushed, and nothing that it makes of it.
OverLimit(n) == total_bytes + n > given.max_bytes

\* response_body_filter is given the next n bytes, or none, and pushes them;
\* end_of_stream comes with the last ones, or after them.
BodyFilter(n, end_of_stream) ==
    /\ result = "running" /\ call = "idle" /\ ~last_call
    /\ end_of_stream => fed + n = Len(body)
    /\ fed' = fed + n
    /\ total_bytes' = total_bytes + n
    /\ UNCHANGED <<received, utf8_tail, ended>>
    /\ IF OverLimit(n)
          THEN Fail("TooLarge")
          ELSE /\ call' = "push"
               /\ stage' = 1
               /\ carry' = SubSeq(body, fed + 1, fed + n)
               /\ last_call' = end_of_stream
               /\ UNCHANGED <<given, chunk, result, sent>>

\* The loop of push: the next stage is pushed what the one before returned.
PushStage ==
    /\ call = "push" /\ stage =< N
    /\ LET check == Checked(stage, carry)
       IN  /\ utf8_tail' = [utf8_tail EXCEPT ![stage] = check.tail]
           /\ IF ended[stage] \/ ~check.valid
                 THEN /\ Fail(IF ended[stage] THEN "AlreadyFinished"
                                              ELSE "InvalidUtf8")
                      /\ UNCHANGED received
                 ELSE /\ received' = [received EXCEPT ![stage] = @ \o carry]
                      /\ carry' = StagePush(stage, carry)
                      /\ stage' = stage + 1
                      /\ UNCHANGED <<given, call, last_call, chunk, result, sent>>
    /\ UNCHANGED <<fed, total_bytes, ended>>

\* push returns; at the end of the stream finish is called, and what push has
\* returned waits for it.
PushReturns ==
    /\ call = "push" /\ stage > N
    /\ IF last_call
          THEN /\ call' = "finish"
               /\ stage' = 1
               /\ chunk' = carry
               /\ carry' = <<>>
               /\ UNCHANGED sent
          ELSE /\ call' = "idle"
               /\ sent' = sent \o carry
               /\ UNCHANGED <<stage, chunk, carry>>
    /\ UNCHANGED <<given, fed, total_bytes, received, utf8_tail, ended, last_call,
                   result>>

\* A mutant of FinishStage: a stage is finished before it is pushed the tail
\* of the one before.
FinishStage_PushedLate ==
    /\ call = "finish" /\ stage =< N
    /\ LET check == Checked(stage, carry)
       IN  /\ utf8_tail' = [utf8_tail EXCEPT ![stage] = check.tail]
           /\ ended' = [ended EXCEPT ![stage] = TRUE]
           /\ IF carry # <<>> /\ stage > 1
                 THEN Fail("AlreadyFinished") /\ UNCHANGED received
                 ELSE /\ received' = received
                      /\ carry' = StageFinish(stage, received[stage])
                      /\ stage' = stage + 1
                      /\ UNCHANGED <<given, call, last_call, chunk, result, sent>>
    /\ UNCHANGED <<fed, total_bytes>>

\* A mutant of FinishStage: a character that is cut off at the end passes.
FinishStage_CutPasses ==
    /\ call = "finish" /\ stage =< N
    /\ LET check == Checked(stage, carry)
           all   == received[stage] \o carry
       IN  /\ utf8_tail' = [utf8_tail EXCEPT ![stage] = check.tail]
           /\ ended' = [ended EXCEPT ![stage] = TRUE]
           /\ received' = [received EXCEPT ![stage] = all]
           /\ carry' = StagePush(stage, carry) \o StageFinish(stage, all)
           /\ stage' = stage + 1
           /\ UNCHANGED <<given, call, last_call, chunk, result, sent>>
    /\ UNCHANGED <<fed, total_bytes>>

\* The loop of finish: every stage but the first is pushed what the one before
\* has returned, and then finished.  carry is <<>> for the first, so that its
\* push, which is not in the code, is without effect.
FinishStage ==
    /\ call = "finish" /\ stage =< N
    /\ LET check == Checked(stage, carry)
           all   == received[stage] \o carry
       IN  /\ utf8_tail' = [utf8_tail EXCEPT ![stage] = check.tail]
           /\ ended' = [ended EXCEPT ![stage] = TRUE]
           /\ IF ended[stage] \/ ~check.valid \/ check.tail # <<>>
                 THEN /\ Fail(IF ended[stage] THEN "AlreadyFinished"
                                              ELSE "InvalidUtf8")
                      /\ UNCHANGED received
                 ELSE /\ received' = [received EXCEPT ![stage] = all]
                      /\ carry' = StagePush(stage, carry)
                                    \o StageFinish(stage, all)
                      /\ stage' = stage + 1
                      /\ UNCHANGED <<given, call, last_call, chunk, result, sent>>
    /\ UNCHANGED <<fed, total_bytes>>

\* A mutant of FinishReturns: what the last push has returned is overwritten.
FinishReturns_ChunkLost ==
    /\ call = "finish" /\ stage > N
    /\ call' = "idle"
    /\ sent' = sent \o carry
    /\ result' = "done"
    /\ UNCHANGED <<given, fed, total_bytes, received, utf8_tail, ended, last_call,
                   stage, carry, chunk>>

\* finish returns, and the filter call with it.
FinishReturns ==
    /\ call = "finish" /\ stage > N
    /\ call' = "idle"
    /\ sent' = sent \o chunk \o carry
    /\ result' = "done"
    /\ UNCHANGED <<given, fed, total_bytes, received, utf8_tail, ended, last_call,
                   stage, carry, chunk>>

Next ==
    \/ \E n \in {k \in given.sizes \cup {Len(body) - fed} : fed + k =< Len(body)},
         end_of_stream \in BOOLEAN :
         BodyFilter(n, end_of_stream)
    \/ PushStage
    \/ PushReturns
    \/ FinishStage
    \/ FinishReturns

Spec == Init /\ [][Next]_vars

-----------------------------------------------------------------------------
(* What the pipeline should compute, stated on the whole body.             *)

\* s, rewritten by the first k stages one after the other.
Composed(s, k) ==
    LET after[i \in 0..N] == IF i = 0 THEN s
                                      ELSE Returned(stages[i], after[i - 1], TRUE)
    IN  after[k]

\* In what each exact stage is given no two occurrences overlap.
ExactSourcesDisjoint ==
    \A i \in 1..N : stages[i].mode = "exact" =>
      LET s == Composed(body, i - 1)
          hits == {q \in 0..Len(s) : OccursAt(s, q, stages[i].source)}
      IN  \A p, q \in hits : p < q => p + Len(stages[i].source) =< q

-----------------------------------------------------------------------------
(* Properties                                                              *)

(* Type invariant.                                                         *)
TypeOK ==
    /\ fed \in 0..Len(body) /\ total_bytes = fed
    /\ \A i \in 1..N : /\ received[i] \in Seq(Byte)
                       /\ utf8_tail[i] # <<>> => IsPartOfCharacter(utf8_tail[i])
    /\ ended \in [1..N -> BOOLEAN]
    /\ call \in {"idle", "push", "finish"}
    /\ last_call \in BOOLEAN
    /\ stage \in 1..(N + 1)
    /\ carry \in Seq(Byte) /\ chunk \in Seq(Byte) /\ sent \in Seq(Byte)
    /\ result \in {"running", "done", "TooLarge", "InvalidUtf8", "AlreadyFinished"}

(* The stages together compute what they would one after the other on the  *)
(* whole body, in whatever chunks it comes: what the client has been sent  *)
(* is a beginning of that, also when an error has cut it off, and all of   *)
(* it when the filter is done.                                             *)
OutputIsComposed ==
    /\ StartsWith(Composed(body, N), sent)
    /\ result = "done" => sent = Composed(body, N)

(* A body of exactly the limit passes and one byte more is refused, before *)
(* anything of the chunk with that byte is passed on; what the stages      *)
(* insert does not count.                                                  *)
LimitIsExact ==
    /\ result = "TooLarge" => Len(body) > given.max_bytes
    /\ result = "done" => Len(body) =< given.max_bytes
    /\ fed > given.max_bytes =>
         result = "TooLarge" /\ Len(received[1]) =< given.max_bytes

(* A body is refused as text exactly when it is none, wherever its         *)
(* characters are cut: when no rest could make text of what was received,  *)
(* or at its end.                                                          *)
RefusesExactlyInvalid ==
    /\ result = "InvalidUtf8" =>
         /\ ~IsText(body)
         /\ ~BeginsText(First(body, fed)) \/ last_call
    /\ result = "done" => IsText(body)
    /\ result = "running" /\ call = "idle" => BeginsText(First(body, fed))

(* A later stage never refuses what the one before has made of the body:   *)
(* characters may be cut between two stages, but are always completed, and *)
(* no stage is pushed anything once it is finished.                        *)
OnlyTheFirstRefuses ==
    /\ result = "InvalidUtf8" => stage = 1
    /\ result # "AlreadyFinished"

(* The page that the client gets differs from what the literal stages made *)
(* only in the documents assigned to window._mig_meta, and in all of those *)
(* that have the original base URI and are not themselves in the value of  *)
(* another assignment: whatever else is quoted, broken off or assigned.    *)
MigMetaIsRewritten ==
    result = "done" /\ stages[N].mode = "buffered" =>
        sent = WithDesiredUri(Composed(body, N - 1))

(* README: every body transform "is idempotent when run again over already *)
(* rewritten static output": so is the pipeline of each profile as a whole *)
(* where no two occurrences of an exact source overlap in the body, that   *)
(* is, no stage makes an occurrence for itself or for one before it.       *)
RewrittenOnce ==
    result = "done" /\ stages \in ProfilePipelines /\ ExactSourcesDisjoint =>
        Composed(sent, N) = sent

(* The asset root lies in the static root, and both get the base path, in  *)
(* two stages: in the end each reference has it, and none has it twice     *)
(* unless the upstream has written it so.                                  *)
BasePathOnce ==
    result = "done" /\ stages = StagesOf("ConsoleV3", FALSE) =>
        \A p \in 0..Len(sent) :
          OccursAt(sent, p, StaticRoot) =>
            /\ p >= Len(BasePath) /\ OccursAt(sent, p - Len(BasePath), BasePath)
            /\ p >= 2 * Len(BasePath)
                 /\ OccursAt(sent, p - 2 * Len(BasePath), BasePath) =>
               \E q \in 0..Len(body) :
                 OccursAt(body, q, BasePath \o BasePath \o StaticRoot)
=============================================================================
