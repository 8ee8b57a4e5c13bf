-------------------------- MODULE ClaudeRunProofs --------------------------
(***************************************************************************)
(* ClaudeRun for every set of runs, every workspace and every amount of    *)
(* output: a run's worktree is its own, a run that succeeds has emitted    *)
(* every line, and the engine keeps the contract of EngineRun.             *)
(***************************************************************************)
EXTENDS ClaudeRun, TLAPS

RunOK(c) == c \in ClaudeRunState /\ BeforeSpawn(c) /\ EndsWithChild(c) /\ LinesAccounted(c)

\* One run becomes c, in order, with a worktree it had or found free.
LEMMA SetKeeps ==
  ASSUME IInv, NEW r \in Run, NEW c, Set(r, c), RunOK(c),
         c.wt => run[r].wt \/ wtDir[Segment(r)] = NoRun
  PROVE  IInv'
<1>1. /\ run \in [Run -> ClaudeRunState] /\ wtDir \in [Segments -> Run \cup {NoRun}]
      /\ Segment(r) \in Segments /\ c \in ClaudeRunState
      /\ run' = [run EXCEPT ![r] = c]
      /\ wtDir' = [wtDir EXCEPT ![Segment(r)] = IF c.wt THEN r ELSE IF run[r].wt THEN NoRun ELSE @]
  BY DEF IInv, TypeOK, Segments, Set, RunOK
<1>2. TypeOK'
  BY <1>1 DEF TypeOK
<1>3. HandleIsOwners'
  <2> SUFFICES ASSUME NEW u \in Run, run'[u].wt PROVE wtDir'[Segment(u)] = u
    BY DEF HandleIsOwners
  <2>1. Segment(u) \in Segments
    BY DEF Segments
  <2>2. CASE u = r
    BY <1>1, <2>1, <2>2
  <2>3. CASE u # r
    BY <1>1, <2>1, <2>3, NoRunAssumption DEF IInv, HandleIsOwners
  <2> QED
    BY <2>2, <2>3
<1>4. \A u \in Run : BeforeSpawn(run'[u]) /\ EndsWithChild(run'[u]) /\ LinesAccounted(run'[u])
  <2> SUFFICES ASSUME NEW u \in Run
               PROVE  BeforeSpawn(run'[u]) /\ EndsWithChild(run'[u]) /\ LinesAccounted(run'[u])
    OBVIOUS
  <2>1. run'[u] = c \/ run'[u] = run[u]
    BY <1>1
  <2> QED
    BY <2>1 DEF IInv, RunOK
<1> QED
  BY <1>2, <1>3, <1>4 DEF IInv

-----------------------------------------------------------------------------
(* The helpers map a run in order to a run in order.                       *)

LEMMA CountsAreNat ==
  /\ MaxLines \in Nat /\ MaxStderr \in Nat /\ MaxEvents \in Nat
  /\ MaxEvents = MaxLines + MaxStderr + 1
BY BoundAssumption DEF MaxEvents

\* finish, called for the first time: the run's lines are accounted for, if it ends
\* well, and its child has closed if it succeeds.
LEMMA FinishOK ==
  ASSUME NEW c \in ClaudeRunState, BeforeSpawn(c), c.step # "none", ~c.finished,
         NEW o \in Outcome \ {"none"}, o = "success" => c.child = "closed" /\ c.pipe = 0,
         ~c.paused => c.buf = 0, c.pipe + c.buf <= c.lines,
         c.emitted + c.pipe + c.buf <= c.lines + c.chunks + 1,
         o = "success" => c.emitted + c.pipe + c.buf = c.lines + c.chunks
  PROVE  RunOK(Finish(c, o)) /\ ~Finish(c, o).wt
<1> DEFINE f == [c EXCEPT !.finished = TRUE, !.outcome = o, !.timer = FALSE, !.killTimer = FALSE,
                          !.wt = FALSE, !.bridge = FALSE, !.runDir = FALSE]
<1>1. f \in ClaudeRunState
  BY DEF ClaudeRunState
<1>2. /\ f.step = c.step /\ f.child = c.child /\ f.lines = c.lines /\ f.chunks = c.chunks
      /\ f.pipe = c.pipe /\ f.buf = c.buf /\ f.emitted = c.emitted /\ f.paused = c.paused
      /\ f.finished /\ f.outcome = o /\ ~f.timer /\ ~f.wt
  BY DEF ClaudeRunState
<1>3. Finish(c, o) = f
  BY DEF Finish
<1> HIDE DEF f
<1> QED
  BY <1>1, <1>2, <1>3 DEF RunOK, BeforeSpawn, EndsWithChild, LinesAccounted

\* engine_error and the end of a run that has not printed anything.
LEMMA FailedOK ==
  ASSUME NEW c \in ClaudeRunState, BeforeSpawn(c), LinesAccounted(c), c.step # "none", ~c.finished,
         c.step # "bridge", c.outcome = "none", c.lines = 0, c.chunks = 0
  PROVE  RunOK(Failed(c)) /\ ~Failed(c).wt
<1> DEFINE d == [c EXCEPT !.emitted = @ + 1]
<1>1. c.emitted = 0 /\ c.pipe = 0 /\ c.buf = 0
  BY DEF LinesAccounted, ClaudeRunState
<1>2. d \in ClaudeRunState
  BY <1>1, CountsAreNat DEF ClaudeRunState
<1>3. /\ d.step = c.step /\ d.child = c.child /\ d.lines = c.lines /\ d.chunks = c.chunks
      /\ d.pipe = c.pipe /\ d.buf = c.buf /\ d.emitted = 1 /\ d.paused = c.paused /\ ~d.finished
  BY <1>1 DEF ClaudeRunState
<1> HIDE DEF d
<1>4. BeforeSpawn(d)
  BY <1>3 DEF BeforeSpawn
<1>5. Failed(c) = Finish(d, "error")
  BY DEF Failed, d
<1> QED
  BY <1>1, <1>2, <1>3, <1>4, <1>5, FinishOK DEF LinesAccounted, Outcome

\* engine_error of a run that was cancelled while its bridge started.
LEMMA LateFailOK ==
  ASSUME NEW c, RunOK(c), c.step = "bridge", c.finished
  PROVE  LET d == Failed([c EXCEPT !.step = "over"])
         IN /\ RunOK(d) /\ d.wt = c.wt /\ d.step = "over" /\ d.child = "none" /\ d.finished
            /\ d.emitted = c.emitted + 1
<1> DEFINE d == [c EXCEPT !.step = "over", !.emitted = @ + 1]
<1>1. c \in ClaudeRunState /\ c.emitted = 0 /\ BeforeSpawn(c) /\ EndsWithChild(c) /\ LinesAccounted(c)
  BY DEF RunOK, BeforeSpawn
<1>2. Failed([c EXCEPT !.step = "over"]) = d
  BY <1>1 DEF Failed, Finish, ClaudeRunState
<1>3. d \in ClaudeRunState
  <2>1. d = [c EXCEPT !.step = "over", !.emitted = 1]
    BY <1>1 DEF ClaudeRunState
  <2>2. 1 \in 0 .. MaxEvents
    BY CountsAreNat
  <2> HIDE DEF d
  <2> QED
    BY <1>1, <2>1, <2>2 DEF ClaudeRunState
<1>4. /\ d.step = "over" /\ d.child = c.child /\ d.finished = c.finished /\ d.outcome = c.outcome
      /\ d.lines = c.lines /\ d.chunks = c.chunks /\ d.pipe = c.pipe /\ d.buf = c.buf
      /\ d.emitted = c.emitted + 1 /\ d.paused = c.paused /\ d.timer = c.timer /\ d.wt = c.wt
  BY <1>1 DEF ClaudeRunState
<1>5. c.child = "none" /\ c.lines = 0 /\ c.chunks = 0 /\ c.pipe = 0 /\ c.buf = 0 /\ ~c.paused
  BY <1>1 DEF BeforeSpawn
<1>6. c.outcome \notin {"none", "success"}
  BY <1>1, <1>5 DEF EndsWithChild
<1> HIDE DEF d
<1>7. BeforeSpawn(d) /\ EndsWithChild(d)
  BY <1>1, <1>4, <1>5, <1>6 DEF BeforeSpawn, EndsWithChild
<1>8. LinesAccounted(d)
  BY <1>1, <1>4, <1>5, <1>6 DEF LinesAccounted
<1> QED
  BY <1>2, <1>3, <1>4, <1>5, <1>7, <1>8 DEF RunOK

\* drain, of a run whose lines were accounted for but for those just read.
LEMMA DrainsOK ==
  ASSUME NEW c \in ClaudeRunState, EndsWithChild(c) \/ c.child = "closed",
         BeforeSpawn(c), c.pipe + c.buf <= c.lines,
         c.emitted + c.pipe + c.buf <= c.lines + c.chunks + 1,
         c.step = "spawned",
         c.outcome \in {"none", "success"} => c.emitted + c.pipe + c.buf = c.lines + c.chunks,
         NEW k \in 0 .. MaxLines, NEW p \in BOOLEAN, MayDrain(c, k, p)
  PROVE  LET d == Drains(c, k, p)
         IN /\ d \in ClaudeRunState /\ BeforeSpawn(d) /\ LinesAccounted(d)
            /\ d.emitted = c.emitted + k
            /\ \A f \in DOMAIN c \ {"buf", "emitted", "paused"} : d[f] = c[f]
<1>1. CASE c.paused
  BY <1>1 DEF Drains, MayDrain, LinesAccounted, ClaudeRunState
<1>2. CASE ~c.paused
  <2> DEFINE d == [c EXCEPT !.buf = @ - k, !.emitted = @ + k, !.paused = p]
  <2>1. k \in 0 .. c.buf /\ (k < c.buf => p /\ k > 0) /\ (k = 0 => ~p)
    BY <1>2 DEF MayDrain
  <2>2. c.buf \in 0 .. MaxLines /\ c.lines \in 0 .. MaxLines /\ c.chunks \in 0 .. MaxStderr /\ c.emitted \in 0 .. MaxEvents
        /\ c.pipe \in 0 .. MaxLines
    BY DEF ClaudeRunState
  <2>3. c.buf - k \in 0 .. MaxLines /\ c.emitted + k \in 0 .. MaxEvents
    BY <2>1, <2>2, CountsAreNat
  <2>4. d \in ClaudeRunState
    BY <2>3 DEF ClaudeRunState
  <2>5. /\ d.step = c.step /\ d.child = c.child /\ d.lines = c.lines /\ d.chunks = c.chunks
        /\ d.pipe = c.pipe /\ d.buf = c.buf - k /\ d.emitted = c.emitted + k /\ d.paused = p
        /\ d.outcome = c.outcome
        /\ \A f \in DOMAIN c \ {"buf", "emitted", "paused"} : d[f] = c[f]
    BY DEF ClaudeRunState
  <2>6. Drains(c, k, p) = d
    BY <1>2 DEF Drains
  <2> HIDE DEF d
  <2>7. BeforeSpawn(d)
    BY <2>1, <2>5 DEF BeforeSpawn
  <2>8. LinesAccounted(d)
    BY <2>1, <2>2, <2>5 DEF LinesAccounted
  <2> QED
    BY <2>4, <2>5, <2>6, <2>7, <2>8
<1> QED
  BY <1>1, <1>2

-----------------------------------------------------------------------------
(* Every step of a run.                                                    *)

\* What the invariant says of one run.
LEMMA RunFacts ==
  ASSUME IInv, NEW r \in Run
  PROVE  RunOK(run[r])
BY DEF IInv, TypeOK, RunOK

LEMMA NotRunOK == NotRun \in ClaudeRunState /\ RunOK(NotRun)
BY CountsAreNat DEF NotRun, ClaudeRunState, Outcome, RunOK, BeforeSpawn, EndsWithChild, LinesAccounted

LEMMA StartingStep ==
  ASSUME IInv, NEW r \in Run,
         \/ \E w \in Workspace : Start(r, w)
         \/ WorktreeFails(r) \/ WorktreeAdded(r) \/ BridgeFails(r) \/ ConfigFails(r) \/ BridgeReady(r)
  PROVE  IInv'
<1> DEFINE c == run[r]
<1>1. RunOK(c) /\ c \in ClaudeRunState
  BY RunFacts DEF RunOK
<1>2. CASE \E w \in Workspace : Start(r, w)
  <2> DEFINE d == [NotRun EXCEPT !.step = "queued", !.runDir = TRUE]
  <2>1. d \in ClaudeRunState
    BY NotRunOK DEF ClaudeRunState
  <2>2. RunOK(d) /\ ~d.wt
    BY <2>1 DEF NotRun, RunOK, BeforeSpawn, EndsWithChild, LinesAccounted
  <2> QED
    BY <1>2, <2>2, SetKeeps DEF Start
<1>3. CASE WorktreeFails(r)
  <2>1. RunOK(Failed(c)) /\ ~Failed(c).wt
    BY <1>1, <1>3, FailedOK DEF WorktreeFails, Waiting, RunOK, BeforeSpawn, EndsWithChild
  <2> QED
    BY <1>3, <2>1, SetKeeps DEF WorktreeFails
<1>6. CASE BridgeFails(r) \/ ConfigFails(r)
  <2> DEFINE d == [c EXCEPT !.step = "over"]
  <2>1. c.step = "bridge" /\ Set(r, Failed(d))
    BY <1>6 DEF BridgeFails, ConfigFails, Waiting
  <2>2. RunOK(Failed(d)) /\ (Failed(d).wt => c.wt)
    <3>1. CASE c.finished
      BY <1>1, <2>1, <3>1, LateFailOK
    <3>2. CASE ~c.finished
      <4>1. /\ d \in ClaudeRunState /\ d.step = "over" /\ d.child = c.child /\ d.finished = c.finished
            /\ d.outcome = c.outcome /\ d.lines = c.lines /\ d.chunks = c.chunks /\ d.pipe = c.pipe
            /\ d.buf = c.buf /\ d.emitted = c.emitted /\ d.paused = c.paused
        BY <1>1 DEF ClaudeRunState
      <4> HIDE DEF c, d
      <4>2. BeforeSpawn(d) /\ LinesAccounted(d) /\ d.outcome = "none" /\ d.lines = 0 /\ d.chunks = 0
        BY <1>1, <2>1, <3>2, <4>1 DEF RunOK, BeforeSpawn, EndsWithChild, LinesAccounted
      <4> QED
        BY <3>2, <4>1, <4>2, FailedOK
    <3> QED
      BY <3>1, <3>2
  <2> QED
    BY <2>1, <2>2, SetKeeps
<1>4. CASE WorktreeAdded(r)
  <2> DEFINE d == BridgeStarts([c EXCEPT !.wt = TRUE])
  <2>1. d \in ClaudeRunState
    BY <1>1 DEF BridgeStarts, ClaudeRunState
  <2>2. /\ d.step = "bridge" /\ d.child = c.child /\ d.lines = c.lines /\ d.chunks = c.chunks
        /\ d.pipe = c.pipe /\ d.buf = c.buf /\ d.emitted = c.emitted /\ d.paused = c.paused
        /\ d.finished = c.finished /\ d.outcome = c.outcome /\ d.timer = c.timer
    BY <1>1 DEF BridgeStarts, ClaudeRunState
  <2>3. c.step = "queued" /\ ~c.finished
    BY <1>4 DEF WorktreeAdded, Waiting
  <2> HIDE DEF c, d
  <2>4. c.outcome = "none" /\ c.lines = 0 /\ c.chunks = 0 /\ c.pipe = 0 /\ c.buf = 0
    BY <1>1, <2>3 DEF RunOK, BeforeSpawn, EndsWithChild
  <2>5. c.emitted = 0
    BY <1>1, <2>4 DEF RunOK, LinesAccounted, ClaudeRunState
  <2>6. BeforeSpawn(d) /\ EndsWithChild(d)
    BY <1>1, <2>2, <2>3, <2>5 DEF RunOK, BeforeSpawn, EndsWithChild
  <2>7. LinesAccounted(d)
    BY <1>1, <2>2 DEF RunOK, LinesAccounted
  <2> QED
    BY <1>4, <2>1, <2>6, <2>7, SetKeeps DEF WorktreeAdded, RunOK, c, d
<1>5. CASE BridgeReady(r)
  <2>1. c.step = "bridge" /\ Set(r, IF c.finished THEN [c EXCEPT !.step = "over"] ELSE Spawned(c))
    BY <1>5 DEF BridgeReady
  <2>2. CASE ~c.finished
    <3> DEFINE d == Spawned(c)
    <3>1. d \in ClaudeRunState
      BY <1>1 DEF Spawned, ClaudeRunState
    <3>2. /\ d.step = "spawned" /\ d.child = "up" /\ d.lines = c.lines /\ d.chunks = c.chunks
          /\ d.pipe = c.pipe /\ d.buf = c.buf /\ d.emitted = c.emitted /\ d.paused = c.paused
          /\ d.finished = c.finished /\ d.outcome = c.outcome /\ d.wt = c.wt
      BY <1>1 DEF Spawned, ClaudeRunState
    <3> HIDE DEF c, d
    <3>3. BeforeSpawn(d) /\ EndsWithChild(d)
      BY <1>1, <2>1, <2>2, <3>2 DEF RunOK, BeforeSpawn, EndsWithChild
    <3>4. LinesAccounted(d)
      BY <1>1, <3>2 DEF RunOK, LinesAccounted
    <3> QED
      BY <2>1, <2>2, <3>1, <3>2, <3>3, <3>4, SetKeeps DEF RunOK, c, d
  <2>3. CASE c.finished
    <3> DEFINE d == [c EXCEPT !.step = "over"]
    <3>1. /\ d \in ClaudeRunState /\ d.step = "over" /\ d.child = c.child /\ d.finished = c.finished
          /\ d.outcome = c.outcome /\ d.lines = c.lines /\ d.chunks = c.chunks /\ d.pipe = c.pipe
          /\ d.buf = c.buf /\ d.emitted = c.emitted /\ d.paused = c.paused /\ d.timer = c.timer
          /\ d.wt = c.wt
      BY <1>1 DEF ClaudeRunState
    <3> HIDE DEF d
    <3>2. RunOK(d)
      BY <1>1, <2>1, <2>3, <3>1 DEF RunOK, BeforeSpawn, EndsWithChild, LinesAccounted
    <3> QED
      BY <2>1, <2>3, <3>1, <3>2, SetKeeps DEF d
  <2> QED
    BY <2>2, <2>3
<1> QED
  BY <1>2, <1>3, <1>4, <1>5, <1>6

LEMMA OutputStep ==
  ASSUME IInv, NEW r \in Run,
         \/ ChildError(r) \/ ChildPrints(r) \/ \E p \in BOOLEAN : StderrData(r, p)
         \/ \E n \in 1 .. MaxLines, k \in 0 .. MaxLines, p \in BOOLEAN : StdoutData(r, n, k, p)
         \/ \E o \in Outcome \ {"none"} : ChildCloses(r, o)
  PROVE  IInv'
<1> DEFINE c == run[r]
<1>1. /\ RunOK(c) /\ c \in ClaudeRunState /\ BeforeSpawn(c) /\ EndsWithChild(c) /\ LinesAccounted(c)
      /\ c.step = "spawned" /\ c.child = "up"
  BY RunFacts DEF RunOK, ChildError, ChildPrints, StderrData, StdoutData, ChildCloses, Reading
<1>2. /\ c.lines \in Nat /\ c.chunks \in Nat /\ c.pipe \in Nat /\ c.buf \in Nat /\ c.emitted \in Nat
      /\ c.lines <= MaxLines /\ c.chunks <= MaxStderr
  BY <1>1, CountsAreNat DEF ClaudeRunState
<1>3. CASE ChildError(r)
  <2> DEFINE d == [c EXCEPT !.child = "closed"]
  <2>1. /\ d \in ClaudeRunState /\ d.step = c.step /\ d.finished = c.finished /\ d.outcome = c.outcome
        /\ d.lines = c.lines /\ d.chunks = c.chunks /\ d.pipe = c.pipe /\ d.buf = c.buf
        /\ d.emitted = c.emitted /\ d.paused = c.paused
    BY <1>1 DEF ClaudeRunState
  <2> HIDE DEF d
  <2>2. RunOK(Failed(d)) /\ ~Failed(d).wt
    BY <1>1, <1>3, <2>1, FailedOK DEF ChildError, BeforeSpawn, LinesAccounted, EndsWithChild
  <2> QED
    BY <1>3, <2>2, SetKeeps DEF ChildError, d
<1>4. CASE ChildPrints(r)
  <2> DEFINE d == [c EXCEPT !.lines = @ + 1, !.pipe = @ + 1]
  <2>1. c.lines + 1 \in 0 .. MaxLines /\ c.pipe + 1 \in 0 .. MaxLines
    BY <1>1, <1>2, <1>4, CountsAreNat DEF ChildPrints, LinesAccounted
  <2>2. /\ d \in ClaudeRunState /\ d.step = c.step /\ d.child = c.child /\ d.finished = c.finished
        /\ d.outcome = c.outcome /\ d.lines = c.lines + 1 /\ d.chunks = c.chunks /\ d.pipe = c.pipe + 1
        /\ d.buf = c.buf /\ d.emitted = c.emitted /\ d.paused = c.paused /\ d.wt = c.wt /\ d.timer = c.timer
    BY <1>1, <2>1 DEF ClaudeRunState
  <2> HIDE DEF d
  <2>3. RunOK(d)
    BY <1>1, <1>2, <2>2 DEF RunOK, BeforeSpawn, EndsWithChild, LinesAccounted
  <2> QED
    BY <1>4, <2>2, <2>3, SetKeeps DEF ChildPrints, d
<1>5. CASE \E p \in BOOLEAN : StderrData(r, p)
  <2>1. PICK p \in BOOLEAN : StderrData(r, p)
    BY <1>5
  <2> DEFINE d == [c EXCEPT !.chunks = @ + 1, !.emitted = @ + 1, !.paused = p]
  <2>2. c.chunks + 1 \in 0 .. MaxStderr /\ c.emitted + 1 \in 0 .. MaxEvents
    <3>1. c.chunks < MaxStderr
      BY <2>1 DEF StderrData
    <3>2. c.emitted + c.pipe + c.buf <= c.lines + c.chunks + 1
      BY <1>1 DEF LinesAccounted
    <3> HIDE DEF c
    <3> QED
      BY <1>2, <3>1, <3>2, CountsAreNat
  <2>3. /\ d \in ClaudeRunState /\ d.step = c.step /\ d.child = c.child /\ d.finished = c.finished
        /\ d.outcome = c.outcome /\ d.lines = c.lines /\ d.chunks = c.chunks + 1 /\ d.pipe = c.pipe
        /\ d.buf = c.buf /\ d.emitted = c.emitted + 1 /\ d.paused = p /\ d.wt = c.wt /\ d.timer = c.timer
    BY <1>1, <2>2 DEF ClaudeRunState
  <2> HIDE DEF d
  <2>4. c.paused => p
    BY <2>1 DEF StderrData
  <2>5. RunOK(d)
    BY <1>1, <1>2, <2>3, <2>4 DEF RunOK, BeforeSpawn, EndsWithChild, LinesAccounted
  <2> QED
    BY <2>1, <2>3, <2>5, SetKeeps DEF StderrData, d
<1>6. CASE \E n \in 1 .. MaxLines, k \in 0 .. MaxLines, p \in BOOLEAN : StdoutData(r, n, k, p)
  <2>1. PICK n \in 1 .. MaxLines, k \in 0 .. MaxLines, p \in BOOLEAN : StdoutData(r, n, k, p)
    BY <1>6
  <2> DEFINE d == [c EXCEPT !.pipe = @ - n, !.buf = @ + n]
  <2>2. c.pipe - n \in 0 .. MaxLines /\ c.buf + n \in 0 .. MaxLines
    <3>1. n \in 1 .. c.pipe
      BY <2>1 DEF StdoutData
    <3>2. c.pipe + c.buf <= c.lines
      BY <1>1 DEF LinesAccounted
    <3> HIDE DEF c
    <3> QED
      BY <1>2, <3>1, <3>2, CountsAreNat
  <2>3. /\ d \in ClaudeRunState /\ d.step = c.step /\ d.child = c.child /\ d.finished = c.finished
        /\ d.outcome = c.outcome /\ d.lines = c.lines /\ d.chunks = c.chunks /\ d.pipe = c.pipe - n
        /\ d.buf = c.buf + n /\ d.emitted = c.emitted /\ d.paused = c.paused /\ d.wt = c.wt
        /\ d.timer = c.timer /\ DOMAIN d = DOMAIN c
        /\ {"step", "child", "finished", "outcome", "timer", "wt", "pipe"} \subseteq DOMAIN c \ {"buf", "emitted", "paused"}
    BY <1>1, <2>2 DEF ClaudeRunState
  <2>4. MayDrain(d, k, p) /\ Set(r, Drains(d, k, p)) /\ n \in 1 .. c.pipe
    BY <2>1 DEF StdoutData
  <2> HIDE DEF d
  <2>5. EndsWithChild(d) /\ BeforeSpawn(d)
    BY <1>1, <1>2, <2>3, <2>4 DEF EndsWithChild, BeforeSpawn
  <2> DEFINE e == Drains(d, k, p)
  <2>6. /\ e \in ClaudeRunState /\ BeforeSpawn(e) /\ LinesAccounted(e)
        /\ \A f \in DOMAIN d \ {"buf", "emitted", "paused"} : e[f] = d[f]
    BY <1>1, <1>2, <2>3, <2>4, <2>5, DrainsOK DEF LinesAccounted
  <2> HIDE DEF e
  <2>7. EndsWithChild(e) /\ e.wt = c.wt
    BY <2>3, <2>5, <2>6 DEF EndsWithChild
  <2> QED
    BY <2>4, <2>6, <2>7, SetKeeps DEF RunOK, e
<1>7. CASE \E o \in Outcome \ {"none"} : ChildCloses(r, o)
  <2>1. PICK o \in Outcome \ {"none"} : ChildCloses(r, o)
    BY <1>7
  <2> DEFINE d == [c EXCEPT !.child = "closed", !.buf = @ + run[r].pipe, !.pipe = 0]
  <2>2. c.buf + c.pipe \in 0 .. MaxLines
    BY <1>1, <1>2, CountsAreNat DEF LinesAccounted
  <2>3. /\ d \in ClaudeRunState /\ d.step = c.step /\ d.child = "closed" /\ d.finished = c.finished
        /\ d.outcome = c.outcome /\ d.lines = c.lines /\ d.chunks = c.chunks /\ d.pipe = 0
        /\ d.buf = c.buf + c.pipe /\ d.emitted = c.emitted /\ d.paused = c.paused /\ d.wt = c.wt
        /\ d.timer = c.timer /\ DOMAIN d = DOMAIN c
        /\ {"step", "child", "finished", "outcome", "timer", "wt", "pipe", "lines", "chunks"}
             \subseteq DOMAIN c \ {"buf", "emitted", "paused"}
    <3> HIDE DEF c
    <3>1. 0 \in 0 .. MaxLines /\ d = [c EXCEPT !.child = "closed", !.buf = @ + c.pipe, !.pipe = 0]
      BY CountsAreNat DEF c
    <3> HIDE DEF d
    <3> QED
      BY <1>1, <2>2, <3>1 DEF ClaudeRunState
  <2>4. PICK k \in 0 .. MaxLines, p \in BOOLEAN : MayDrain(d, k, p) /\ Set(r, Finish(Drains(d, k, p), o))
    BY <2>1 DEF ChildCloses
  <2> HIDE DEF d
  <2>5. BeforeSpawn(d)
    BY <1>1, <2>3 DEF BeforeSpawn
  <2> DEFINE e == Drains(d, k, p)
  <2>6. /\ e \in ClaudeRunState /\ BeforeSpawn(e) /\ LinesAccounted(e)
        /\ \A f \in DOMAIN d \ {"buf", "emitted", "paused"} : e[f] = d[f]
    BY <1>1, <1>2, <2>3, <2>4, <2>5, DrainsOK DEF LinesAccounted
  <2> HIDE DEF e
  <2>7. /\ e.step = "spawned" /\ e.child = "closed" /\ e.finished = c.finished /\ e.outcome = c.outcome
        /\ e.timer = c.timer /\ e.wt = c.wt /\ e.pipe = 0 /\ e.lines = c.lines /\ e.chunks = c.chunks
    BY <1>1, <2>3, <2>6
  <2>8. RunOK(Finish(e, o)) /\ (Finish(e, o).wt => c.wt)
    <3>1. CASE c.finished
      BY <1>1, <2>6, <2>7, <3>1 DEF Finish, RunOK, EndsWithChild
    <3>2. CASE ~c.finished
      <4>1. c.outcome = "none"
        BY <1>1, <3>2 DEF EndsWithChild
      <4> QED
        BY <2>6, <2>7, <3>2, <4>1, FinishOK DEF LinesAccounted
    <3> QED
      BY <3>1, <3>2
  <2> QED
    BY <2>4, <2>8, SetKeeps DEF e
<1> QED
  BY <1>3, <1>4, <1>5, <1>6, <1>7

LEMMA CallStep ==
  ASSUME IInv, NEW r \in Run,
         \/ RunTimesOut(r) \/ KillTimerFires(r) \/ Cancel(r)
         \/ \E k \in 0 .. MaxLines, p \in BOOLEAN : Resume(r, k, p)
  PROVE  IInv'
<1> DEFINE c == run[r]
<1>1. /\ RunOK(c) /\ c \in ClaudeRunState /\ BeforeSpawn(c) /\ EndsWithChild(c) /\ LinesAccounted(c)
  BY RunFacts DEF RunOK
<1>2. CASE RunTimesOut(r)
  <2> DEFINE d == [c EXCEPT !.cancelled = TRUE, !.signal = "KILL"]
  <2>1. /\ d \in ClaudeRunState /\ d.step = c.step /\ d.child = c.child /\ d.finished = c.finished
        /\ d.lines = c.lines /\ d.chunks = c.chunks /\ d.pipe = c.pipe /\ d.buf = c.buf
        /\ d.emitted = c.emitted /\ d.paused = c.paused
    BY <1>1 DEF ClaudeRunState
  <2> HIDE DEF d
  <2>2. c.step = "spawned" /\ ~c.finished
    BY <1>1, <1>2 DEF RunTimesOut, EndsWithChild
  <2>3. RunOK(Finish(d, "error")) /\ ~Finish(d, "error").wt
    BY <1>1, <2>1, <2>2, FinishOK DEF BeforeSpawn, LinesAccounted, Outcome
  <2> QED
    BY <1>2, <2>3, SetKeeps DEF RunTimesOut, d
<1>3. CASE KillTimerFires(r)
  <2> DEFINE d == [c EXCEPT !.signal = "KILL", !.killTimer = FALSE]
  <2>1. /\ d \in ClaudeRunState /\ d.step = c.step /\ d.child = c.child /\ d.finished = c.finished
        /\ d.lines = c.lines /\ d.chunks = c.chunks /\ d.pipe = c.pipe /\ d.buf = c.buf
        /\ d.emitted = c.emitted /\ d.paused = c.paused /\ d.outcome = c.outcome /\ d.timer = c.timer
        /\ d.wt = c.wt
    BY <1>1 DEF ClaudeRunState
  <2>2. c # NotRun
    BY <1>3 DEF KillTimerFires, NotRun
  <2> HIDE DEF d
  <2>3. RunOK(d)
    BY <1>1, <2>1, <2>2 DEF RunOK, BeforeSpawn, EndsWithChild, LinesAccounted
  <2> QED
    BY <1>3, <2>1, <2>3, SetKeeps DEF KillTimerFires, d
<1>4. CASE Cancel(r)
  <2> DEFINE d == [c EXCEPT !.cancelled = TRUE]
             e == [d EXCEPT !.signal = IF @ = "none" THEN "TERM" ELSE @, !.killTimer = TRUE]
  <2>1. /\ d \in ClaudeRunState /\ d.step = c.step /\ d.child = c.child /\ d.finished = c.finished
        /\ d.lines = c.lines /\ d.chunks = c.chunks /\ d.pipe = c.pipe /\ d.buf = c.buf
        /\ d.emitted = c.emitted /\ d.paused = c.paused /\ d.outcome = c.outcome /\ d.timer = c.timer
        /\ d.wt = c.wt
    BY <1>1 DEF ClaudeRunState
  <2>2. Set(r, IF d.child = "none" THEN Finish(d, "cancelled") ELSE e)
    BY <1>4 DEF Cancel
  <2> HIDE DEF d
  <2>3. /\ e \in ClaudeRunState /\ e.step = c.step /\ e.child = c.child /\ e.finished = c.finished
        /\ e.lines = c.lines /\ e.chunks = c.chunks /\ e.pipe = c.pipe /\ e.buf = c.buf
        /\ e.emitted = c.emitted /\ e.paused = c.paused /\ e.outcome = c.outcome /\ e.timer = c.timer
        /\ e.wt = c.wt
    BY <2>1 DEF ClaudeRunState
  <2> HIDE DEF e
  <2>4. c.step \in {"queued", "bridge", "spawned"} /\ ~c.finished /\ c.outcome = "none"
    BY <1>1, <1>4 DEF Cancel, Callable, EndsWithChild
  <2>5. RunOK(Finish(d, "cancelled")) /\ ~Finish(d, "cancelled").wt
    BY <1>1, <2>1, <2>4, FinishOK DEF BeforeSpawn, LinesAccounted, Outcome
  <2>6. RunOK(e)
    BY <1>1, <2>3, <2>4 DEF RunOK, BeforeSpawn, EndsWithChild, LinesAccounted
  <2> QED
    BY <2>2, <2>3, <2>5, <2>6, SetKeeps
<1>5. CASE \E k \in 0 .. MaxLines, p \in BOOLEAN : Resume(r, k, p)
  <2> DEFINE d == [c EXCEPT !.paused = FALSE]
  <2>1. PICK k \in 0 .. MaxLines, p \in BOOLEAN : MayDrain(d, k, p) /\ Set(r, Drains(d, k, p))
    BY <1>5 DEF Resume
  <2>2. c.paused /\ c.step = "spawned"
    BY <1>1, <1>5 DEF Resume, Callable, BeforeSpawn
  <2>3. /\ d \in ClaudeRunState /\ d.step = c.step /\ d.child = c.child /\ d.finished = c.finished
        /\ d.outcome = c.outcome /\ d.lines = c.lines /\ d.chunks = c.chunks /\ d.pipe = c.pipe
        /\ d.buf = c.buf /\ d.emitted = c.emitted /\ ~d.paused /\ d.wt = c.wt /\ d.timer = c.timer
        /\ {"step", "child", "finished", "outcome", "timer", "wt", "pipe"} \subseteq DOMAIN d \ {"buf", "emitted", "paused"}
    BY <1>1 DEF ClaudeRunState
  <2> HIDE DEF d
  <2>4. EndsWithChild(d) /\ BeforeSpawn(d)
    BY <1>1, <2>2, <2>3 DEF EndsWithChild, BeforeSpawn
  <2> DEFINE e == Drains(d, k, p)
  <2>5. /\ e \in ClaudeRunState /\ BeforeSpawn(e) /\ LinesAccounted(e)
        /\ \A f \in DOMAIN d \ {"buf", "emitted", "paused"} : e[f] = d[f]
    BY <1>1, <2>1, <2>2, <2>3, <2>4, DrainsOK DEF LinesAccounted
  <2> HIDE DEF e
  <2>6. EndsWithChild(e) /\ e.wt = c.wt
    BY <2>3, <2>4, <2>5 DEF EndsWithChild
  <2> QED
    BY <2>1, <2>5, <2>6, SetKeeps DEF RunOK, e
<1> QED
  BY <1>2, <1>3, <1>4, <1>5

LEMMA CrashStep == IInv /\ Crash => IInv'
<1> SUFFICES ASSUME IInv, Crash PROVE IInv'
  OBVIOUS
<1> DEFINE Gone(c) == [c EXCEPT !.step = "lost", !.timer = FALSE, !.killTimer = FALSE,
                                !.wt = FALSE, !.bridge = FALSE]
<1>1. /\ run \in [Run -> ClaudeRunState] /\ wtDir' = wtDir
      /\ run' = [r \in Run |-> IF run[r].step = "none" THEN run[r] ELSE Gone(run[r])]
  BY DEF IInv, TypeOK, Crash
<1>2. ASSUME NEW r \in Run
      PROVE  RunOK(run'[r]) /\ (run'[r].wt => run[r].wt)
  <2> DEFINE c == run[r]
             d == Gone(c)
  <2>1. RunOK(c) /\ c \in ClaudeRunState
    BY <1>2, RunFacts DEF RunOK
  <2>2. /\ d \in ClaudeRunState /\ d.step = "lost" /\ d.child = c.child /\ d.finished = c.finished
        /\ d.lines = c.lines /\ d.chunks = c.chunks /\ d.pipe = c.pipe /\ d.buf = c.buf
        /\ d.emitted = c.emitted /\ d.paused = c.paused /\ d.outcome = c.outcome /\ ~d.timer /\ ~d.wt
    BY <2>1 DEF ClaudeRunState
  <2>3. run'[r] = c \/ run'[r] = d
    BY <1>1, <1>2
  <2> HIDE DEF d
  <2>4. RunOK(d)
    BY <2>1, <2>2 DEF RunOK, BeforeSpawn, EndsWithChild, LinesAccounted
  <2> QED
    BY <2>1, <2>2, <2>3, <2>4
<1>3. run' \in [Run -> ClaudeRunState]
  BY <1>1, <1>2 DEF RunOK
<1> QED
  BY <1>1, <1>2, <1>3 DEF IInv, TypeOK, HandleIsOwners, RunOK

\* The inductive invariant holds in every reachable state.
THEOREM ClaudeRunInvariance == Spec => []IInv
<1>1. Init => IInv
  <2> SUFFICES ASSUME Init PROVE IInv
    OBVIOUS
  <2>1. \A r \in Run : run[r] = NotRun /\ RunOK(run[r])
    BY NotRunOK DEF Init
  <2>2. TypeOK
    BY NotRunOK DEF Init, TypeOK
  <2> QED
    BY <2>1, <2>2 DEF IInv, HandleIsOwners, RunOK, NotRun
<1>2. IInv /\ [Next]_vars => IInv'
  <2> SUFFICES ASSUME IInv, [Next]_vars PROVE IInv'
    OBVIOUS
  <2>1. CASE Next
    BY <2>1, StartingStep, OutputStep, CallStep, CrashStep DEF Next
  <2>2. CASE UNCHANGED vars
    BY <2>2 DEF vars, IInv, TypeOK, HandleIsOwners
  <2> QED
    BY <2>1, <2>2
<1> QED
  BY <1>1, <1>2, PTL DEF Spec

\* wt.cleanup is the run's own: no other run removes or replaces the worktree of
\* one that can still use it, whichever attempts share the directory.
THEOREM WorktreeOwned == Spec => []WorktreeIsOwn
<1>1. IInv => WorktreeIsOwn
  BY DEF IInv, HandleIsOwners, WorktreeIsOwn
<1> QED
  BY <1>1, ClaudeRunInvariance, PTL

\* drain loses nothing: a run that succeeds without backpressure at its end has
\* emitted one event for each line of stdout and each chunk of stderr.
THEOREM SuccessIsComplete == Spec => []StdoutComplete
<1>1. IInv => StdoutComplete
  <2> SUFFICES ASSUME IInv, NEW r \in Run, run[r].outcome = "success", ~run[r].paused
               PROVE  run[r].emitted = run[r].lines + run[r].chunks
    BY DEF StdoutComplete
  <2>1. RunOK(run[r])
    BY RunFacts
  <2>2. run[r].pipe = 0 /\ run[r].buf = 0 /\ run[r].emitted \in Nat
    BY <2>1, CountsAreNat DEF RunOK, EndsWithChild, LinesAccounted, ClaudeRunState
  <2> QED
    BY <2>1, <2>2 DEF RunOK, LinesAccounted
<1> QED
  BY <1>1, ClaudeRunInvariance, PTL

-----------------------------------------------------------------------------
(* ClaudeEngine keeps the contract of engine/types.ts: each of its steps   *)
(* is one of EngineRun, or one that EngineRun does not see.                *)

engines == [r \in Run |-> EngineOf(run[r])]
emissions == [r \in Run |-> run[r].emitted]

\* How the run that a step changes looks to the manager, before and after.
LEMMA SetMaps ==
  ASSUME IInv, NEW r \in Run, NEW c, Set(r, c)
  PROVE  /\ engines' = [engines EXCEPT ![r] = EngineOf(c)]
         /\ emissions' = [emissions EXCEPT ![r] = c.emitted]
         /\ engines[r] = EngineOf(run[r]) /\ emissions[r] = run[r].emitted
<1>1. run' = [run EXCEPT ![r] = c] /\ run \in [Run -> ClaudeRunState]
  BY DEF Set, IInv, TypeOK
<1>2. \A u \in Run : run'[u] = IF u = r THEN c ELSE run[u]
  BY <1>1
<1> QED
  BY <1>2 DEF engines, emissions

\* The steps of EngineRun for run r, by how its state and count of events change.
LEMMA AbstractSteps ==
  ASSUME NEW r \in Run, NEW e, NEW n \in Nat,
         engines' = [engines EXCEPT ![r] = e],
         emissions' = [emissions EXCEPT ![r] = @ + n],
         emissions[r] \in Nat,
         \/ e = engines[r] /\ n = 0
         \/ engines[r] = "none" /\ e = "starting" /\ n = 0
         \/ engines[r] = "starting" /\ e = "spawned" /\ n = 0
         \/ engines[r] \in {"spawned", "late"} /\ e = engines[r] /\ n \in 1 .. MaxEvents
         \/ engines[r] \in {"starting", "spawned"} /\ e = "gone" /\ n \in {0, 1}
         \/ engines[r] = "spawned" /\ e = "late" /\ n = 0
         \/ engines[r] = "starting" /\ e = "ending" /\ n = 0
         \/ engines[r] = "ending" /\ e = "gone" /\ n = 1
         \/ engines[r] \in {"late", "ending"} /\ e = "gone" /\ n = 0
  PROVE  [Abstract!Next]_(Abstract!vars)
<1>1. engines = [engines EXCEPT ![r] = engines[r]] /\ emissions = [emissions EXCEPT ![r] = emissions[r] + 0]
  <2>1. emissions[r] + 0 = emissions[r]
    OBVIOUS
  <2> QED
    BY <2>1 DEF engines, emissions
<1>2. CASE e = engines[r] /\ n = 0
  BY <1>1, <1>2 DEF Abstract!vars, engines, emissions
<1>3. CASE engines[r] = "none" /\ e = "starting" /\ n = 0
  BY <1>1, <1>3 DEF Abstract!Next, Abstract!Begin, Abstract!Moves, engines, emissions
<1>4. CASE engines[r] = "starting" /\ e = "spawned" /\ n = 0
  BY <1>1, <1>4 DEF Abstract!Next, Abstract!Spawn, Abstract!Moves, engines, emissions
<1>5. CASE engines[r] \in {"spawned", "late"} /\ e = engines[r] /\ n \in 1 .. MaxEvents
  BY <1>1, <1>5 DEF Abstract!Next, Abstract!Output, Abstract!Emits, engines, emissions
<1>6. CASE engines[r] \in {"starting", "spawned"} /\ e = "gone" /\ n = 0
  BY <1>1, <1>6 DEF Abstract!Next, Abstract!End, Abstract!Moves, engines, emissions
<1>7. CASE engines[r] \in {"starting", "spawned"} /\ e = "gone" /\ n = 1
  BY <1>7 DEF Abstract!Next, Abstract!Fail, Abstract!Moves, Abstract!Emits, engines, emissions
<1>8. CASE engines[r] = "spawned" /\ e = "late" /\ n = 0
  BY <1>1, <1>8 DEF Abstract!Next, Abstract!TimeOut, Abstract!Moves, engines, emissions
<1>9. CASE engines[r] \in {"late", "ending"} /\ e = "gone" /\ n = 0
  BY <1>1, <1>9 DEF Abstract!Next, Abstract!LateClose, Abstract!Moves, engines, emissions
<1>10. CASE engines[r] = "starting" /\ e = "ending" /\ n = 0
  BY <1>1, <1>10 DEF Abstract!Next, Abstract!Quit, Abstract!Moves, engines, emissions
<1>11. CASE engines[r] = "ending" /\ e = "gone" /\ n = 1
  BY <1>11 DEF Abstract!Next, Abstract!LateFail, Abstract!Moves, Abstract!Emits, engines, emissions
<1> QED
  BY <1>2, <1>3, <1>4, <1>5, <1>6, <1>7, <1>8, <1>9, <1>10, <1>11

\* A step of the run that shows to the manager as one of these implements EngineRun.
LEMMA Implements ==
  ASSUME IInv, NEW r \in Run, NEW d, NEW n \in Nat, Set(r, d), d.emitted = run[r].emitted + n,
         LET from == EngineOf(run[r])
             to == EngineOf(d)
         IN \/ to = from /\ n = 0
            \/ from = "none" /\ to = "starting" /\ n = 0
            \/ from = "starting" /\ to = "spawned" /\ n = 0
            \/ from \in {"spawned", "late"} /\ to = from /\ n \in 1 .. MaxEvents
            \/ from \in {"starting", "spawned"} /\ to = "gone" /\ n \in {0, 1}
            \/ from = "spawned" /\ to = "late" /\ n = 0
            \/ from = "starting" /\ to = "ending" /\ n = 0
            \/ from = "ending" /\ to = "gone" /\ n = 1
            \/ from \in {"late", "ending"} /\ to = "gone" /\ n = 0
  PROVE  [Abstract!Next]_(Abstract!vars)
<1>1. run[r].emitted \in Nat
  BY RunFacts, CountsAreNat DEF RunOK, ClaudeRunState
<1>2. /\ engines' = [engines EXCEPT ![r] = EngineOf(d)]
      /\ emissions' = [emissions EXCEPT ![r] = d.emitted]
      /\ engines[r] = EngineOf(run[r]) /\ emissions[r] = run[r].emitted
  BY SetMaps
<1>3. emissions' = [emissions EXCEPT ![r] = @ + n]
  BY <1>2
<1> QED
  BY <1>1, <1>2, <1>3, AbstractSteps

\* A run's own steps are steps of EngineRun.
LEMMA StartingImplements ==
  ASSUME IInv, NEW r \in Run,
         \/ \E w \in Workspace : Start(r, w)
         \/ WorktreeFails(r) \/ WorktreeAdded(r) \/ BridgeFails(r) \/ ConfigFails(r) \/ BridgeReady(r)
  PROVE  [Abstract!Next]_(Abstract!vars)
<1> DEFINE c == run[r]
<1>1. /\ c \in ClaudeRunState /\ BeforeSpawn(c) /\ EndsWithChild(c) /\ LinesAccounted(c)
      /\ c.emitted \in Nat
  BY RunFacts, CountsAreNat DEF RunOK, ClaudeRunState
<1>2. CASE \E w \in Workspace : Start(r, w)
  <2> DEFINE d == [NotRun EXCEPT !.step = "queued", !.runDir = TRUE]
  <2>1. d.emitted = 0 /\ EngineOf(d) = "starting"
    BY DEF NotRun, EngineOf
  <2>2. c.emitted = 0 /\ EngineOf(c) = "none"
    BY <1>1, <1>2 DEF Start, BeforeSpawn, NotRun, EngineOf
  <2>3. Set(r, d)
    BY <1>2 DEF Start
  <2> HIDE DEF c, d
  <2>4. d.emitted = c.emitted + 0
    BY <2>1, <2>2
  <2> QED
    BY <1>1, <2>1, <2>2, <2>3, <2>4, Implements DEF c
<1>3. CASE WorktreeFails(r)
  <2> DEFINE d == Failed(c)
  <2>1. c.step = "queued" /\ ~c.finished /\ c.child = "none"
    BY <1>1, <1>3 DEF WorktreeFails, Waiting, BeforeSpawn
  <2>2. d.finished /\ d.child = "none" /\ d.emitted = c.emitted + 1 /\ d.step = c.step
    BY <1>1, <2>1 DEF Failed, Finish, ClaudeRunState
  <2>3. Set(r, d)
    BY <1>3 DEF WorktreeFails
  <2> HIDE DEF c, d
  <2>4. EngineOf(c) = "starting" /\ EngineOf(d) = "gone"
    BY <2>1, <2>2 DEF EngineOf
  <2> QED
    BY <1>1, <2>2, <2>3, <2>4, Implements DEF c
<1>6. CASE BridgeFails(r) \/ ConfigFails(r)
  <2> DEFINE d == Failed([c EXCEPT !.step = "over"])
  <2>1. c.step = "bridge" /\ c.child = "none" /\ Set(r, d)
    BY <1>1, <1>6 DEF BridgeFails, ConfigFails, Waiting, BeforeSpawn
  <2>2. d.finished /\ d.child = "none" /\ d.emitted = c.emitted + 1 /\ d.step = "over"
    BY <1>1, <2>1 DEF Failed, Finish, ClaudeRunState
  <2> HIDE DEF c, d
  <2>3. EngineOf(c) = (IF c.finished THEN "ending" ELSE "starting") /\ EngineOf(d) = "gone"
    BY <2>1, <2>2 DEF EngineOf
  <2> QED
    BY <1>1, <2>1, <2>2, <2>3, Implements DEF c
<1>4. CASE WorktreeAdded(r)
  <2> DEFINE d == BridgeStarts([c EXCEPT !.wt = TRUE])
  <2>1. c.step = "queued" /\ ~c.finished /\ c.child = "none"
    BY <1>1, <1>4 DEF WorktreeAdded, Waiting, BeforeSpawn
  <2>2. ~d.finished /\ d.child = "none" /\ d.emitted = c.emitted /\ d.step = "bridge"
    BY <1>1, <2>1 DEF BridgeStarts, ClaudeRunState
  <2>3. Set(r, d)
    BY <1>4 DEF WorktreeAdded
  <2> HIDE DEF c, d
  <2>4. EngineOf(c) = "starting" /\ EngineOf(d) = "starting" /\ d.emitted = c.emitted + 0
    BY <1>1, <2>1, <2>2 DEF EngineOf
  <2> QED
    BY <1>1, <2>3, <2>4, Implements DEF c
<1>5. CASE BridgeReady(r)
  <2> DEFINE d == IF c.finished THEN [c EXCEPT !.step = "over"] ELSE Spawned(c)
  <2>1. c.step = "bridge" /\ c.child = "none" /\ Set(r, d)
    BY <1>1, <1>5 DEF BridgeReady, BeforeSpawn
  <2>2. /\ d.finished = c.finished /\ d.emitted = c.emitted
        /\ d.child = (IF c.finished THEN "none" ELSE "up")
        /\ d.step = (IF c.finished THEN "over" ELSE "spawned")
    <3>1. CASE c.finished
      BY <1>1, <2>1, <3>1 DEF ClaudeRunState
    <3>2. CASE ~c.finished
      BY <1>1, <2>1, <3>2 DEF Spawned, ClaudeRunState
    <3> QED
      BY <3>1, <3>2
  <2> HIDE DEF c, d
  <2>3. /\ EngineOf(c) = (IF c.finished THEN "ending" ELSE "starting")
        /\ EngineOf(d) = (IF c.finished THEN "gone" ELSE "spawned")
        /\ d.emitted = c.emitted + 0
    BY <1>1, <2>1, <2>2 DEF EngineOf
  <2> QED
    BY <1>1, <2>1, <2>3, Implements DEF c
<1> QED
  BY <1>2, <1>3, <1>4, <1>5, <1>6

LEMMA OutputImplements ==
  ASSUME IInv, NEW r \in Run,
         \/ ChildError(r) \/ ChildPrints(r) \/ \E p \in BOOLEAN : StderrData(r, p)
         \/ \E n \in 1 .. MaxLines, k \in 0 .. MaxLines, p \in BOOLEAN : StdoutData(r, n, k, p)
         \/ \E o \in Outcome \ {"none"} : ChildCloses(r, o)
  PROVE  [Abstract!Next]_(Abstract!vars)
<1> DEFINE c == run[r]
<1>1. /\ c \in ClaudeRunState /\ BeforeSpawn(c) /\ EndsWithChild(c) /\ LinesAccounted(c)
      /\ c.emitted \in Nat /\ c.step = "spawned" /\ c.child = "up"
  <2>1. RunOK(c) /\ c.step = "spawned" /\ c.child = "up"
    BY RunFacts DEF ChildError, ChildPrints, StderrData, StdoutData, ChildCloses, Reading
  <2> QED
    BY <2>1, CountsAreNat DEF RunOK, ClaudeRunState
<1>2. EngineOf(c) = IF c.finished THEN "late" ELSE "spawned"
  BY <1>1 DEF EngineOf
<1>3. CASE ChildError(r)
  <2> DEFINE d == Failed([c EXCEPT !.child = "closed"])
  <2>1. ~c.finished /\ Set(r, d)
    BY <1>3 DEF ChildError
  <2>2. d.finished /\ d.child = "closed" /\ d.emitted = c.emitted + 1 /\ d.step = "spawned"
    BY <1>1, <2>1 DEF Failed, Finish, ClaudeRunState
  <2> HIDE DEF c, d
  <2>3. EngineOf(d) = "gone"
    BY <2>2 DEF EngineOf
  <2> QED
    BY <1>1, <1>2, <2>1, <2>2, <2>3, Implements DEF c
<1>4. CASE ChildPrints(r)
  <2> DEFINE d == [c EXCEPT !.lines = @ + 1, !.pipe = @ + 1]
  <2>1. Set(r, d)
    BY <1>4 DEF ChildPrints
  <2>2. d.finished = c.finished /\ d.child = c.child /\ d.emitted = c.emitted /\ d.step = c.step
    BY <1>1 DEF ClaudeRunState
  <2> HIDE DEF c, d
  <2>3. EngineOf(d) = EngineOf(c) /\ d.emitted = c.emitted + 0
    BY <1>1, <2>2 DEF EngineOf
  <2> QED
    BY <1>1, <2>1, <2>3, Implements DEF c
<1>5. CASE \E p \in BOOLEAN : StderrData(r, p)
  <2>1. PICK p \in BOOLEAN : StderrData(r, p)
    BY <1>5
  <2> DEFINE d == [c EXCEPT !.chunks = @ + 1, !.emitted = @ + 1, !.paused = p]
  <2>2. Set(r, d)
    BY <2>1 DEF StderrData
  <2>3. d.finished = c.finished /\ d.child = c.child /\ d.emitted = c.emitted + 1 /\ d.step = c.step
    BY <1>1 DEF ClaudeRunState
  <2> HIDE DEF c, d
  <2>4. EngineOf(d) = EngineOf(c) /\ 1 \in 1 .. MaxEvents
    BY <2>3, CountsAreNat DEF EngineOf
  <2> QED
    BY <1>1, <1>2, <2>2, <2>3, <2>4, Implements DEF c
<1>6. CASE \E n \in 1 .. MaxLines, k \in 0 .. MaxLines, p \in BOOLEAN : StdoutData(r, n, k, p)
  <2>1. PICK n \in 1 .. MaxLines, k \in 0 .. MaxLines, p \in BOOLEAN : StdoutData(r, n, k, p)
    BY <1>6
  <2> DEFINE d == [c EXCEPT !.pipe = @ - n, !.buf = @ + n]
             e == Drains(d, k, p)
  <2>2. Set(r, e) /\ ~c.paused
    BY <2>1 DEF StdoutData
  <2>3. e.finished = c.finished /\ e.child = c.child /\ e.emitted = c.emitted + k /\ e.step = c.step
    BY <1>1, <2>2 DEF Drains, ClaudeRunState
  <2> HIDE DEF c, d, e
  <2>4. EngineOf(e) = EngineOf(c) /\ k \in Nat /\ (k = 0 \/ k \in 1 .. MaxEvents)
    BY <2>3, CountsAreNat DEF EngineOf
  <2> QED
    BY <1>1, <1>2, <2>2, <2>3, <2>4, Implements DEF c
<1>7. CASE \E o \in Outcome \ {"none"} : ChildCloses(r, o)
  <2>1. PICK o \in Outcome \ {"none"} : ChildCloses(r, o)
    BY <1>7
  <2> DEFINE d == [c EXCEPT !.child = "closed", !.buf = @ + run[r].pipe, !.pipe = 0]
  <2>2. PICK k \in 0 .. MaxLines, p \in BOOLEAN : MayDrain(d, k, p) /\ Set(r, Finish(Drains(d, k, p), o))
    BY <2>1 DEF ChildCloses
  <2>3. c.paused \/ (c.pipe = 0 /\ c.buf = 0)
    BY <1>1, <2>1 DEF ChildCloses, LinesAccounted
  <2>4. d.paused = c.paused /\ d.buf = c.buf + c.pipe
    BY <1>1 DEF ClaudeRunState
  <2>5. k = 0
    BY <2>2, <2>3, <2>4 DEF MayDrain
  <2> DEFINE e == Drains(d, k, p)
             f == Finish(e, o)
  <2>6. e.finished = c.finished /\ e.child = "closed" /\ e.emitted = c.emitted /\ e.step = c.step
    <3>1. CASE c.paused
      BY <1>1, <3>1 DEF Drains, ClaudeRunState
    <3>2. CASE ~c.paused
      BY <1>1, <2>5, <3>2 DEF Drains, ClaudeRunState
    <3> QED
      BY <3>1, <3>2
  <2>7. f.finished /\ f.child = "closed" /\ f.emitted = c.emitted /\ f.step = "spawned"
    BY <1>1, <2>6 DEF Finish, Drains, ClaudeRunState
  <2>8. Set(r, f)
    BY <2>2
  <2> HIDE DEF c, d, e, f
  <2>9. EngineOf(f) = "gone" /\ f.emitted = c.emitted + 0
    BY <1>1, <2>7 DEF EngineOf
  <2> QED
    BY <1>1, <1>2, <2>8, <2>9, Implements DEF c
<1> QED
  BY <1>3, <1>4, <1>5, <1>6, <1>7

LEMMA CallImplements ==
  ASSUME IInv, NEW r \in Run,
         \/ RunTimesOut(r) \/ KillTimerFires(r) \/ Cancel(r)
         \/ \E k \in 0 .. MaxLines, p \in BOOLEAN : Resume(r, k, p)
  PROVE  [Abstract!Next]_(Abstract!vars)
<1> DEFINE c == run[r]
<1>1. /\ c \in ClaudeRunState /\ BeforeSpawn(c) /\ EndsWithChild(c) /\ LinesAccounted(c)
      /\ c.emitted \in Nat
  BY RunFacts, CountsAreNat DEF RunOK, ClaudeRunState
<1>2. CASE RunTimesOut(r)
  <2> DEFINE d == Finish([c EXCEPT !.cancelled = TRUE, !.signal = "KILL"], "error")
  <2>1. c.step = "spawned" /\ ~c.finished /\ c.child = "up" /\ Set(r, d)
    BY <1>1, <1>2 DEF RunTimesOut, EndsWithChild
  <2>2. d.finished /\ d.child = "up" /\ d.emitted = c.emitted /\ d.step = "spawned"
    BY <1>1, <2>1 DEF Finish, ClaudeRunState
  <2> HIDE DEF c, d
  <2>3. EngineOf(c) = "spawned" /\ EngineOf(d) = "late" /\ d.emitted = c.emitted + 0
    BY <1>1, <2>1, <2>2 DEF EngineOf
  <2> QED
    BY <1>1, <2>1, <2>3, Implements DEF c
<1>3. CASE KillTimerFires(r)
  <2> DEFINE d == [c EXCEPT !.signal = "KILL", !.killTimer = FALSE]
  <2>1. Set(r, d)
    BY <1>3 DEF KillTimerFires
  <2>2. d.finished = c.finished /\ d.child = c.child /\ d.emitted = c.emitted /\ d.step = c.step
    BY <1>1 DEF ClaudeRunState
  <2> HIDE DEF c, d
  <2>3. EngineOf(d) = EngineOf(c) /\ d.emitted = c.emitted + 0
    BY <1>1, <2>2 DEF EngineOf
  <2> QED
    BY <1>1, <2>1, <2>3, Implements DEF c
<1>4. CASE Cancel(r)
  <2> DEFINE d == [c EXCEPT !.cancelled = TRUE]
             e == IF d.child = "none" THEN Finish(d, "cancelled")
                  ELSE [d EXCEPT !.signal = IF @ = "none" THEN "TERM" ELSE @, !.killTimer = TRUE]
  <2>1. Set(r, e) /\ c.step \in {"queued", "bridge", "spawned"} /\ ~c.finished
    BY <1>4 DEF Cancel, Callable
  <2>2. e.child = c.child /\ e.emitted = c.emitted /\ e.step = c.step /\ (e.finished <=> c.child = "none")
    BY <1>1, <2>1 DEF Finish, ClaudeRunState
  <2> HIDE DEF c, d, e
  <2>3. /\ e.emitted = c.emitted + 0
        /\ EngineOf(c) = IF c.child = "none" THEN "starting" ELSE "spawned"
        /\ EngineOf(e) = IF c.child # "none" THEN "spawned" ELSE IF c.step = "bridge" THEN "ending" ELSE "gone"
    BY <1>1, <2>1, <2>2 DEF EngineOf
  <2> QED
    BY <1>1, <2>1, <2>3, Implements DEF c
<1>5. CASE \E k \in 0 .. MaxLines, p \in BOOLEAN : Resume(r, k, p)
  <2>1. PICK k \in 0 .. MaxLines, p \in BOOLEAN : Resume(r, k, p)
    BY <1>5
  <2> DEFINE d == [c EXCEPT !.paused = FALSE]
             e == Drains(d, k, p)
  <2>2. Set(r, e) /\ c.step = "spawned" /\ ~c.finished /\ c.child = "up"
    BY <1>1, <2>1 DEF Resume, Callable, BeforeSpawn, EndsWithChild
  <2>3. e.finished = c.finished /\ e.child = c.child /\ e.emitted = c.emitted + k /\ e.step = c.step
    BY <1>1, <2>2 DEF Drains, ClaudeRunState
  <2> HIDE DEF c, d, e
  <2>4. EngineOf(c) = "spawned" /\ EngineOf(e) = "spawned" /\ k \in Nat /\ (k = 0 \/ k \in 1 .. MaxEvents)
    BY <2>2, <2>3, CountsAreNat DEF EngineOf
  <2> QED
    BY <1>1, <2>2, <2>3, <2>4, Implements DEF c
<1> QED
  BY <1>2, <1>3, <1>4, <1>5

\* EngineRun's Lost: a crash ends every run that was begun.
LEMMA CrashImplements == IInv /\ Crash => Abstract!Lost
<1> SUFFICES ASSUME IInv, Crash PROVE Abstract!Lost
  OBVIOUS
<1>1. ASSUME NEW r \in Run
      PROVE  /\ EngineOf(run'[r]) = IF EngineOf(run[r]) = "none" THEN "none" ELSE "gone"
             /\ run'[r].emitted = run[r].emitted
  <2>1. run[r] \in ClaudeRunState
    BY RunFacts DEF RunOK
  <2> DEFINE d == [run[r] EXCEPT !.step = "lost", !.timer = FALSE, !.killTimer = FALSE,
                                 !.wt = FALSE, !.bridge = FALSE]
  <2>2. CASE run[r].step = "none"
    <3>1. run'[r] = run[r]
      BY <2>2 DEF Crash
    <3>2. EngineOf(run[r]) = "none"
      BY <2>2 DEF EngineOf
    <3> QED
      BY <3>1, <3>2
  <2>3. CASE run[r].step # "none"
    <3>1. run'[r] = d
      BY <2>3 DEF Crash
    <3>2. d.step = "lost" /\ d.emitted = run[r].emitted
      BY <2>1 DEF ClaudeRunState
    <3>3. EngineOf(run[r]) # "none"
      BY <2>3 DEF EngineOf
    <3> HIDE DEF d
    <3>4. EngineOf(d) = "gone"
      BY <3>2 DEF EngineOf
    <3> QED
      BY <3>1, <3>2, <3>3, <3>4
  <2> QED
    BY <2>2, <2>3
<1> QED
  BY <1>1 DEF Abstract!Lost

\* ClaudeEngine.run is an EngineRun: for every job, child and amount of output, it
\* starts at most one child, ends once, and calls back only in the states in which
\* JobManager's model of an engine does.
THEOREM EngineContract == Spec => ImplementsEngineRun
<1>1. Init => Abstract!Init
  BY DEF Init, Abstract!Init, NotRun, EngineOf
<1>2. IInv /\ [Next]_vars => [Abstract!Next]_(Abstract!vars)
  <2> SUFFICES ASSUME IInv, [Next]_vars PROVE [Abstract!Next]_(Abstract!vars)
    OBVIOUS
  <2>1. CASE Next
    BY <2>1, StartingImplements, OutputImplements, CallImplements, CrashImplements DEF Next, Abstract!Next
  <2>2. CASE UNCHANGED vars
    BY <2>2 DEF vars, Abstract!vars
  <2> QED
    BY <2>1, <2>2
<1> QED
  BY <1>1, <1>2, ClaudeRunInvariance, PTL DEF Spec, Abstract!Spec, ImplementsEngineRun
=============================================================================
