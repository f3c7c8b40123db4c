-------------------------- MODULE AdmissionControl --------------------------
(***************************************************************************)
(* What the rewrite admission of the sidecar promises, without permits,    *)
(* gauges or request contexts: at most MaxConcurrent requests run, at most *)
(* MaxQueued wait, a request that leaves hands its place to the head of    *)
(* the line in one step, and nobody starts past a non-empty line.  A       *)
(* refused request takes no place, so a refusal is a stuttering step.      *)
(*                                                                         *)
(* KseRewriteProxy implements this module, under its assumptions on the    *)
(* constants: the refinement mapping is the instance Admission there.      *)
(***************************************************************************)
EXTENDS Naturals, Sequences, FiniteSets

CONSTANTS
    Requests,       \* request slots, each carrying one request at a time
    MaxConcurrent,  \* rewriteSidecar.rewrite.maxConcurrent
    MaxQueued       \* rewriteSidecar.rewrite.maxQueued

VARIABLES
    running,   \* requests that own one of the MaxConcurrent places
    entering,  \* requests with a queue place that are not in line yet
    line       \* requests waiting for a place, first come first served

vars == <<running, entering, line>>

InLine == {line[i] : i \in DOMAIN line}
Absent(r) == r \notin running \cup entering \cup InLine

Init ==
    /\ running = {}
    /\ entering = {}
    /\ line = <<>>

\* A place is free and nobody waits: the request runs at once.
Start(r) ==
    /\ Absent(r)
    /\ line = <<>>
    /\ Cardinality(running) < MaxConcurrent
    /\ running' = running \cup {r}
    /\ UNCHANGED <<entering, line>>

\* No place was free: the request takes one of the MaxQueued queue places.
Reserve(r) ==
    /\ Absent(r)
    /\ Cardinality(entering) + Len(line) < MaxQueued
    /\ entering' = entering \cup {r}
    /\ UNCHANGED <<running, line>>

\* It joins the line, unless a place has become free in the meantime.
Join(r) ==
    /\ r \in entering
    /\ entering' = entering \ {r}
    /\ IF Cardinality(running) < MaxConcurrent /\ line = <<>>
          THEN running' = running \cup {r} /\ UNCHANGED line
          ELSE line' = Append(line, r) /\ UNCHANGED running

\* A request that leaves gives its place to the head of the line.
Finish(r) ==
    /\ r \in running
    /\ IF line = <<>>
          THEN running' = running \ {r} /\ UNCHANGED line
          ELSE /\ running' = (running \ {r}) \cup {Head(line)}
               /\ line' = Tail(line)
    /\ UNCHANGED entering

Next == \E r \in Requests : Start(r) \/ Reserve(r) \/ Join(r) \/ Finish(r)

Spec == Init /\ [][Next]_vars
=============================================================================
