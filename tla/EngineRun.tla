------------------------------ MODULE EngineRun ------------------------------
(***************************************************************************)
(* What an EngineRun promises its caller (src/engine/types.ts): the life   *)
(* of a run as JobManager sees it.  It starts at most one child, ends once *)
(* and for all, and fires onEvent only between those two, but for two      *)
(* kinds of straggler: a run that timed out still has a child to bury      *)
(* ("late"), and one that was cancelled while its start function awaits    *)
(* ("ending") may report that the start has failed.  ClaudeRun implements  *)
(* these steps; JobManager's engine actions allow every one of them.       *)
(***************************************************************************)
EXTENDS Integers

CONSTANTS
  Run,       \* agent_run_ids
  MaxEvents  \* bound: events one run may emit

VARIABLES
  engine,   \* per run: none, starting, spawned, late, ending, gone
  emitted   \* per run: onEvent calls made so far

vars == <<engine, emitted>>

Init ==
  /\ engine = [r \in Run |-> "none"]
  /\ emitted = [r \in Run |-> 0]

Moves(r, from, to) == engine[r] \in from /\ engine' = [engine EXCEPT ![r] = to]

Emits(r, n) == emitted' = [emitted EXCEPT ![r] = @ + n]

\* Engine.run returns before the run has a child.
Begin(r) == Moves(r, {"none"}, "starting") /\ UNCHANGED emitted

Spawn(r) == Moves(r, {"starting"}, "spawned") /\ UNCHANGED emitted

\* onEvent, once or more from one chunk of output.
Output(r) ==
  /\ engine[r] \in {"spawned", "late"} /\ UNCHANGED engine
  /\ \E n \in 1 .. MaxEvents : Emits(r, n)

\* engine_error and onDone in one call.
Fail(r) == Moves(r, {"starting", "spawned"}, "gone") /\ Emits(r, 1)

\* onDone of a run cancelled while its start function awaits.
Quit(r) == Moves(r, {"starting"}, "ending") /\ UNCHANGED emitted

\* engine_error after that onDone.
LateFail(r) == Moves(r, {"ending"}, "gone") /\ Emits(r, 1)

\* onDone: the child closed, or a cancel found none.
End(r) == Moves(r, {"starting", "spawned"}, "gone") /\ UNCHANGED emitted

\* onDone while the killed child's pipes are still open.
TimeOut(r) == Moves(r, {"spawned"}, "late") /\ UNCHANGED emitted

LateClose(r) == Moves(r, {"late", "ending"}, "gone") /\ UNCHANGED emitted

\* The daemon dies: nobody is left to call back.
Lost ==
  /\ engine' = [r \in Run |-> IF engine[r] = "none" THEN "none" ELSE "gone"]
  /\ UNCHANGED emitted

Next ==
  \/ \E r \in Run :
       \/ Begin(r) \/ Spawn(r) \/ Output(r) \/ Fail(r) \/ End(r)
       \/ Quit(r) \/ LateFail(r) \/ TimeOut(r) \/ LateClose(r)
  \/ Lost

Spec == Init /\ [][Next]_vars
=============================================================================
