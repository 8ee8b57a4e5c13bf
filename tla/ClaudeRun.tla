------------------------------ MODULE ClaudeRun ------------------------------
(***************************************************************************)
(* ClaudeEngine.run (src/engine/claude.ts) with the per-run resources it   *)
(* holds: the approval run directory, the ApprovalBridge server, the git   *)
(* worktree (src/workspace/worktree.ts), the child and its timers.         *)
(*                                                                         *)
(* The runs of an attempt share the directory worktrees/<segment> of its   *)
(* id, and so do those of two attempts whose ids differ only in characters *)
(* that a path segment may not have.  The manager starts an attempt's next *)
(* run once the last is done or was cancelled (revoked), and may pause a   *)
(* run from inside any onEvent, between two lines of a chunk.              *)
(*                                                                         *)
(* A line of stdout is counted and becomes one event.  Code between two    *)
(* awaits is one action.  The timers are not clocked: an armed one may     *)
(* fire at any time.                                                       *)
(***************************************************************************)
EXTENDS Integers, Paths

CONSTANTS
  Run,        \* runs
  NoRun,      \* null
  AttemptOf,  \* the attempt_id of each: a sequence of characters
  SafeChar,   \* the characters A-Z, a-z, 0-9, _ and -
  Workspace,  \* the workspaces of jobs: repo_root, and cwd resolved against it
  NoCwd,      \* a job without a cwd
  MaxLines,   \* bound: lines one child prints on stdout
  MaxStderr,  \* bound: chunks one child prints on stderr
  MayCrash    \* whether the daemon may die

ASSUME NoRunAssumption == NoRun \notin Run
ASSUME WorkspaceAssumption ==
  /\ AttemptOf \in [Run -> Seq(STRING)]
  /\ Workspace \subseteq [repoRoot : Seq(STRING), cwd : {NoCwd} \cup Seq(STRING)]
ASSUME BoundAssumption == MaxLines \in Nat /\ MaxStderr \in Nat /\ MayCrash \in BOOLEAN

VARIABLES
  run,   \* the closure of each ClaudeEngine.run call
  wtDir  \* the run whose worktree is on disk, under each segment

vars == <<run, wtDir>>

-----------------------------------------------------------------------------
(* validateWorkspace.                                                      *)

SafeSegment(id) ==
  IF id = <<>> THEN <<"_">> ELSE [i \in 1 .. Len(id) |-> IF id[i] \in SafeChar THEN id[i] ELSE "_"]

\* The code it throws, or "ok".
ValidateWorkspace(w) ==
  LET root == RealPath[w.repoRoot]
  IN IF ~InScope(w.repoRoot) THEN "root_not_allowlisted"
     ELSE IF ~Exists(Append(root, ".git")) THEN "not_a_git_repo"
     ELSE IF w.cwd # NoCwd /\ ~(Exists(w.cwd) /\ Within(RealPath[w.cwd], root)) THEN "cwd_escape"
     ELSE "ok"

\* Engine.validate: what the manager rejects the job with, if anything.
Validate(w) ==
  LET code == ValidateWorkspace(w)
  IN IF code \in {"ok", "root_not_allowlisted"} THEN code ELSE "bad_request"

Segment(r) == SafeSegment(AttemptOf[r])
Segments == {Segment(r) : r \in Run}

-----------------------------------------------------------------------------
MaxEvents == MaxLines + MaxStderr + 1

Outcome == {"none", "success", "error", "cancelled"}

\* step: "queued" until the microtask, "bridge" while bridge.start is awaited,
\* "over" when it has settled and nothing is spawned, "spawned" after spawn, "lost"
\* when the daemon died.  child is "closed" after 'close'.  pipe: lines printed and not read; buf: lines left in stdoutBuf.
\* killTimer is the timer a last cancel armed.
ClaudeRunState ==
  [step : {"none", "queued", "bridge", "over", "spawned", "lost"}, child : {"none", "up", "closed"},
   signal : {"none", "TERM", "KILL"}, lines : 0 .. MaxLines, chunks : 0 .. MaxStderr,
   pipe : 0 .. MaxLines, buf : 0 .. MaxLines, emitted : 0 .. MaxEvents,
   paused : BOOLEAN, cancelled : BOOLEAN, finished : BOOLEAN, outcome : Outcome,
   timer : BOOLEAN, killTimer : BOOLEAN, wt : BOOLEAN, runDir : BOOLEAN, bridge : BOOLEAN]

NotRun == [step |-> "none", child |-> "none", signal |-> "none", lines |-> 0, chunks |-> 0,
           pipe |-> 0, buf |-> 0, emitted |-> 0,
           paused |-> FALSE, cancelled |-> FALSE, finished |-> FALSE, outcome |-> "none",
           timer |-> FALSE, killTimer |-> FALSE, wt |-> FALSE, runDir |-> FALSE, bridge |-> FALSE]

TypeOK == run \in [Run -> ClaudeRunState] /\ wtDir \in [Segments -> Run \cup {NoRun}]

Init == run = [r \in Run |-> NotRun] /\ wtDir = [s \in Segments |-> NoRun]

-----------------------------------------------------------------------------
\* finish: timers cleared, bridge closed, run directory removed, onDone.
Finish(c, o) ==
  IF c.finished THEN c
  ELSE [c EXCEPT !.finished = TRUE, !.outcome = o, !.timer = FALSE, !.killTimer = FALSE,
                 !.wt = FALSE, !.bridge = FALSE, !.runDir = FALSE]

Failed(c) == Finish([c EXCEPT !.emitted = @ + 1], "error")

\* Mutant: the worktree is removed by its path, whoever created it.
MutantSet(r, c) ==
  /\ run' = [run EXCEPT ![r] = c]
  /\ wtDir' = [wtDir EXCEPT ![Segment(r)] =
                 IF c.wt THEN r ELSE IF c.finished /\ ~run[r].finished THEN NoRun ELSE @]

\* Run r becomes c; wt.cleanup removes the directory if r's own handle has one.
Set(r, c) ==
  /\ run' = [run EXCEPT ![r] = c]
  /\ wtDir' = [wtDir EXCEPT ![Segment(r)] = IF c.wt THEN r ELSE IF run[r].wt THEN NoRun ELSE @]

\* Mutant: a pause discards the rest of the chunk.
MutantDrains(c, k, p) ==
  IF c.paused THEN c ELSE [c EXCEPT !.buf = 0, !.emitted = @ + k, !.paused = p]

\* drain stops where an onEvent callback paused the run, after k lines.
Drains(c, k, p) ==
  IF c.paused THEN c ELSE [c EXCEPT !.buf = @ - k, !.emitted = @ + k, !.paused = p]

MayDrain(c, k, p) ==
  IF c.paused THEN k = 0 /\ p ELSE k \in 0 .. c.buf /\ (k < c.buf => p /\ k > 0) /\ (k = 0 => ~p)

-----------------------------------------------------------------------------
(* Starting.                                                               *)

Over(r) == run[r].step \in {"none", "lost"} \/ run[r].finished \/ run[r].cancelled

\* The manager has validated the workspace.
Start(r, w) ==
  /\ run[r].step = "none" /\ \A u \in Run : AttemptOf[u] = AttemptOf[r] => Over(u)
  /\ Validate(w) = "ok"
  /\ Set(r, [NotRun EXCEPT !.step = "queued", !.runDir = TRUE])

Waiting(r, s) == run[r].step = s /\ ~run[r].finished

\* git worktree add fails on an existing directory, and may fail for other reasons.
WorktreeFails(r) == Waiting(r, "queued") /\ Set(r, Failed(run[r]))

\* bridge.start: it binds the socket in the run's own directory.
BridgeStarts(c) == [c EXCEPT !.step = "bridge", !.bridge = TRUE]

\* createWorktree succeeds and bridge.start begins.
WorktreeAdded(r) ==
  /\ Waiting(r, "queued") /\ wtDir[Segment(r)] = NoRun
  /\ Set(r, BridgeStarts([run[r] EXCEPT !.wt = TRUE]))

\* Mutant: the failure is reported as an event but the run is not finished.
MutantBridgeFails(r) ==
  /\ run[r].step = "bridge"
  /\ Set(r, [run[r] EXCEPT !.step = "over", !.emitted = @ + 1])

\* bridge.start rejects.  Its catch does not look at `finished`: of a run that was
\* cancelled meanwhile, engine_error comes after onDone.
BridgeFails(r) ==
  /\ run[r].step = "bridge"
  /\ Set(r, Failed([run[r] EXCEPT !.step = "over"]))

\* bridge.start resolves, and the mcp-config cannot be written.
ConfigFails(r) == Waiting(r, "bridge") /\ Set(r, Failed([run[r] EXCEPT !.step = "over"]))

Spawned(c) == [c EXCEPT !.step = "spawned", !.child = "up", !.timer = TRUE]

\* Mutant: no `finished` check after the await.
MutantBridgeReady(r) == run[r].step = "bridge" /\ Set(r, Spawned(run[r]))

\* bridge.start resolves: nothing is spawned for a run that was cancelled meanwhile.
BridgeReady(r) ==
  /\ run[r].step = "bridge"
  /\ Set(r, IF run[r].finished THEN [run[r] EXCEPT !.step = "over"] ELSE Spawned(run[r]))

-----------------------------------------------------------------------------
(* The child.  Its output is read only while the daemon lives.             *)

Reading(r) == run[r].step = "spawned" /\ run[r].child = "up"

\* child 'error': the process could not be started.
ChildError(r) ==
  /\ Reading(r) /\ ~run[r].finished /\ run[r].lines = 0 /\ run[r].chunks = 0
  /\ Set(r, Failed([run[r] EXCEPT !.child = "closed"]))

ChildPrints(r) ==
  /\ Reading(r) /\ run[r].lines < MaxLines
  /\ Set(r, [run[r] EXCEPT !.lines = @ + 1, !.pipe = @ + 1])

\* stdout 'data': a chunk of n lines; pause() keeps further ones in the pipe.
StdoutData(r, n, k, p) ==
  LET c == [run[r] EXCEPT !.pipe = @ - n, !.buf = @ + n]
  IN /\ Reading(r) /\ ~run[r].paused /\ n \in 1 .. run[r].pipe
     /\ MayDrain(c, k, p) /\ Set(r, Drains(c, k, p))

\* stderr is forwarded paused or not; its callback may pause the run.
StderrData(r, p) ==
  /\ Reading(r) /\ run[r].chunks < MaxStderr
  /\ run[r].paused => p
  /\ Set(r, [run[r] EXCEPT !.chunks = @ + 1, !.emitted = @ + 1, !.paused = p])

\* 'close': node has read the pipes to the end, a paused one into stdoutBuf.
ChildCloses(r, o) ==
  LET c == [run[r] EXCEPT !.child = "closed", !.buf = @ + run[r].pipe, !.pipe = 0]
  IN /\ Reading(r) /\ (run[r].paused \/ run[r].pipe = 0)
     /\ o = "cancelled" \/ ~run[r].cancelled
     /\ \E k \in 0 .. MaxLines, p \in BOOLEAN :
          MayDrain(c, k, p) /\ Set(r, Finish(Drains(c, k, p), o))

\* Mutant: the gentle kill of the plan, whose timer finish() clears.
MutantRunTimesOut(r) ==
  /\ run[r].timer
  /\ Set(r, Finish([run[r] EXCEPT !.cancelled = TRUE, !.signal = "TERM", !.killTimer = TRUE], "error"))

RunTimesOut(r) ==
  /\ run[r].timer
  /\ Set(r, Finish([run[r] EXCEPT !.cancelled = TRUE, !.signal = "KILL"], "error"))

KillTimerFires(r) ==
  /\ run[r].killTimer
  /\ Set(r, [run[r] EXCEPT !.signal = "KILL", !.killTimer = FALSE])

-----------------------------------------------------------------------------
(* The manager's calls: it drops its reference to a run that is done.      *)

Callable(r) == run[r].step \in {"queued", "bridge", "spawned"} /\ ~run[r].finished

Resume(r, k, p) ==
  LET c == [run[r] EXCEPT !.paused = FALSE]
  IN /\ Callable(r) /\ run[r].paused /\ MayDrain(c, k, p)
     /\ Set(r, Drains(c, k, p))

Cancel(r) ==
  LET c == [run[r] EXCEPT !.cancelled = TRUE]
  IN /\ Callable(r)
     /\ Set(r, IF c.child = "none" THEN Finish(c, "cancelled")
               ELSE [c EXCEPT !.signal = IF @ = "none" THEN "TERM" ELSE @, !.killTimer = TRUE])

\* The daemon dies: its detached children and the worktree stay.
Crash ==
  /\ MayCrash
  /\ run' = [r \in Run |-> IF run[r].step = "none" THEN run[r]
                           ELSE [run[r] EXCEPT !.step = "lost", !.timer = FALSE, !.killTimer = FALSE,
                                               !.wt = FALSE, !.bridge = FALSE]]
  /\ UNCHANGED wtDir

Next ==
  \/ \E r \in Run :
       \/ \E w \in Workspace : Start(r, w)
       \/ WorktreeFails(r)
       \/ WorktreeAdded(r)
       \/ BridgeFails(r)
       \/ ConfigFails(r)
       \/ BridgeReady(r)
       \/ ChildError(r)
       \/ ChildPrints(r)
       \/ \E n \in 1 .. MaxLines, k \in 0 .. MaxLines, p \in BOOLEAN : StdoutData(r, n, k, p)
       \/ \E p \in BOOLEAN : StderrData(r, p)
       \/ \E o \in Outcome \ {"none"} : ChildCloses(r, o)
       \/ RunTimesOut(r)
       \/ KillTimerFires(r)
       \/ \E k \in 0 .. MaxLines, p \in BOOLEAN : Resume(r, k, p)
       \/ Cancel(r)
  \/ Crash

Spec == Init /\ [][Next]_vars

-----------------------------------------------------------------------------
(* Safety.                                                                 *)

\* wt.cleanup is the run's own: while a run can still use its worktree, no other
\* run removes or replaces it, be it an earlier or later one of the attempt or one
\* of an attempt whose id has the same segment.
WorktreeIsOwn ==
  \A r \in Run : run[r].wt /\ ~run[r].finished => wtDir[Segment(r)] = r

\* drain after each chunk and each resume: unless backpressure holds at the end,
\* a run that succeeds has emitted every complete line.
StdoutComplete ==
  \A r \in Run : run[r].outcome = "success" /\ ~run[r].paused =>
    run[r].emitted = run[r].lines + run[r].chunks

\* engine/types.ts: the run's life as JobManager sees it.
EngineOf(c) ==
  IF c.step = "none" THEN "none"
  ELSE IF c.step = "lost" THEN "gone"
  ELSE IF c.finished THEN (CASE c.step = "bridge" -> "ending" [] c.child = "up" -> "late" [] OTHER -> "gone")
  ELSE IF c.child = "none" THEN "starting"
  ELSE "spawned"

Abstract == INSTANCE EngineRun WITH
  engine <- [r \in Run |-> EngineOf(run[r])],
  emitted <- [r \in Run |-> run[r].emitted]

\* ClaudeEngine implements EngineRun: it ends once, starts nothing after that (even
\* when bridge.start settles later), and calls back only in the states JobManager
\* expects.
ImplementsEngineRun == Abstract!Spec

-----------------------------------------------------------------------------
(* The inductive invariant, run by run.                                    *)

\* Nothing happens to a run before its start, and nothing to a child before spawn; a
\* run whose bridge is starting has emitted nothing.
BeforeSpawn(c) ==
  /\ c.step = "none" => c = NotRun
  /\ c.step \in {"none", "queued", "bridge", "over"} =>
       c.child = "none" /\ c.lines = 0 /\ c.chunks = 0 /\ c.pipe = 0 /\ c.buf = 0 /\ ~c.paused
  /\ c.step = "bridge" => c.emitted = 0

\* A run ends no later than its child closes, and its timeout is armed until then.
EndsWithChild(c) ==
  /\ c.finished <=> c.outcome # "none"
  /\ c.step = "spawned" /\ ~c.finished => c.child = "up"
  /\ c.timer => c.step = "spawned" /\ ~c.finished
  /\ c.outcome = "success" => c.child = "closed" /\ c.pipe = 0

\* Every line is in the pipe, in stdoutBuf (under a pause only) or emitted;
\* engine_error is one event more.
LinesAccounted(c) ==
  /\ ~c.paused => c.buf = 0
  /\ c.pipe + c.buf <= c.lines
  /\ c.emitted + c.pipe + c.buf <= c.lines + c.chunks + 1
  /\ c.outcome \in {"none", "success"} => c.emitted + c.pipe + c.buf = c.lines + c.chunks

\* A handle on a worktree is the owner's.
HandleIsOwners == \A r \in Run : run[r].wt => wtDir[Segment(r)] = r

IInv ==
  /\ TypeOK
  /\ HandleIsOwners
  /\ \A r \in Run : BeforeSpawn(run[r]) /\ EndsWithChild(run[r]) /\ LinesAccounted(run[r])

-----------------------------------------------------------------------------
(* Liveness: microtasks and timers fire, bridge.start settles unless the   *)
(* bridge is closed under it, and a group that got SIGKILL closes its      *)
(* pipes.  The child itself may hang for ever.                             *)

Fairness ==
  \A r \in Run :
    /\ WF_vars(WorktreeAdded(r) \/ WorktreeFails(r))
    /\ WF_vars(~run[r].finished /\ (BridgeReady(r) \/ BridgeFails(r) \/ ConfigFails(r)))
    /\ WF_vars(RunTimesOut(r))
    /\ WF_vars(KillTimerFires(r))
    /\ WF_vars(run[r].signal = "KILL" /\ \E n \in 1 .. MaxLines, k \in 0 .. MaxLines, p \in BOOLEAN :
                                            StdoutData(r, n, k, p))
    /\ WF_vars(run[r].signal = "KILL" /\ \E o \in Outcome \ {"none"} : ChildCloses(r, o))

FairSpec == Spec /\ Fairness

\* timeoutMs: every run ends, even one whose child hangs while paused, unless the
\* daemon itself dies.
RunsEnd == \A r \in Run : run[r].step = "queued" ~> run[r].finished \/ run[r].step = "lost"

\* cancel's SIGTERM and SIGKILL, the timeout's SIGKILL: finish() clears the kill
\* timer, yet no cancelled or finished run of a living daemon leaves its child alive.
ChildrenDie ==
  \A r \in Run : (run[r].finished \/ run[r].cancelled) ~> (run[r].child # "up" \/ run[r].step = "lost")
=============================================================================
