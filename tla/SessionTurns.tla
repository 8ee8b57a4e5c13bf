---------------------------- MODULE SessionTurns ----------------------------
(***************************************************************************)
(* Resumed CLI sessions: SessionResumeManager (src/sessions/               *)
(* resume-manager.ts) and the ClaudeResumeRunner / CodexResumeRunner       *)
(* behind each turn (src/sessions/resume.ts; the two differ in arguments   *)
(* and scratch files, not in control).                                     *)
(*                                                                         *)
(* A turn is one session.resume.request or session.message: one CLI child, *)
(* whose output lines become session.event frames.  The manager pauses the *)
(* runner at Cap unacked events; the runner then holds events back.        *)
(* A line is counted, not read: it normalises to EventsPerLine events.     *)
(* stdout and stderr take the same path and are not told apart.            *)
(*                                                                         *)
(* The relay is external: it acks events it has received.  A frame sent    *)
(* while the link is "broken" is lost; on "down" the daemon has noticed.   *)
(***************************************************************************)
EXTENDS Integers, FiniteSets

CONSTANTS
  Turn,           \* turn_ids, one runner each
  Session,        \* session keys: engine, session_id and cwd
  NoSession,      \* null
  Cap,            \* backpressureCap
  EventsPerLine,  \* events one output line normalises to
  MaxLines        \* bound: complete lines one child prints

ASSUME CapAssumption == Cap \in Nat \ {0}
ASSUME LineAssumption == EventsPerLine \in Nat \ {0} /\ MaxLines \in Nat
ASSUME SessionAssumption == NoSession \notin Session

VARIABLES
  turn,    \* TurnState objects; "over" stands for removal from the map
  run,     \* the ResumeRun behind each turn
  active,  \* keys with a turn in progress
  conn,    \* "up", "broken", "down"
  got      \* per turn, session.events the relay has received (external)

vars == <<turn, run, active, conn, got>>

MaxEvents == (MaxLines + 1) * EventsPerLine + 1

Status == {"none", "ok", "error", "cancelled"}

TurnState ==
  [phase : {"idle", "active", "over"}, key : Session \cup {NoSession},
   sent : 0 .. MaxEvents, acked : 0 .. MaxEvents, paused : BOOLEAN, result : Status]

\* child: "queued" until the microtask that spawns it, "up", "gone" after 'close'.
\* pipe: lines printed and not read; buf: lines in stdoutBuf; tail: an
\* unterminated last line in stdoutBuf; pend: pendingEvents; close: closeOutcome.
ResumeRun ==
  [child : {"none", "queued", "up", "gone"}, lines : 0 .. MaxLines,
   pipe : 0 .. MaxLines, buf : 0 .. MaxLines, tail : BOOLEAN, pend : 0 .. MaxEvents,
   paused : BOOLEAN, cancelled : BOOLEAN, finished : BOOLEAN, close : Status]

NoTurn == [phase |-> "idle", key |-> NoSession, sent |-> 0, acked |-> 0, paused |-> FALSE,
           result |-> "none"]
NoRun == [child |-> "none", lines |-> 0, pipe |-> 0, buf |-> 0, tail |-> FALSE, pend |-> 0,
          paused |-> FALSE, cancelled |-> FALSE, finished |-> FALSE, close |-> "none"]

TypeOK ==
  /\ turn \in [Turn -> TurnState]
  /\ run \in [Turn -> ResumeRun]
  /\ active \subseteq Session
  /\ conn \in {"up", "broken", "down"}
  /\ got \in [Turn -> 0 .. MaxEvents]

Init ==
  /\ turn = [t \in Turn |-> NoTurn]
  /\ run = [t \in Turn |-> NoRun]
  /\ active = {}
  /\ conn = "up"
  /\ got = [t \in Turn |-> 0]

-----------------------------------------------------------------------------
(* A turn and its run change together: they call each other synchronously. *)
(* The operators below map such a pair to the pair after the call.         *)

\* m calls of emit: handleRunEvent sends each one and may pause the runner,
\* after which the rest are held back.
Emit(p, m) ==
  LET unacked == p.turn.sent - p.turn.acked
      room == IF unacked < Cap THEN Cap - unacked ELSE 1
      pass == IF m < room THEN m ELSE room
      full == unacked + pass >= Cap
  IN IF m = 0 THEN p
     ELSE IF p.run.paused THEN [p EXCEPT !.run.pend = @ + m]
     ELSE IF p.turn.phase # "active" THEN p
     ELSE [p EXCEPT !.turn.sent = @ + pass, !.turn.paused = full,
                    !.run.paused = full, !.run.pend = m - pass]

\* drain: every complete line, and the unterminated one when flushing.
Drain(p, flush) ==
  LET n == p.run.buf + (IF flush /\ p.run.tail THEN 1 ELSE 0)
  IN Emit([p EXCEPT !.run.buf = 0, !.run.tail = @ /\ ~flush], n * EventsPerLine)

FlushPendingEvents(p) == Emit([p EXCEPT !.run.pend = 0], p.run.pend)

\* Mutant: no `finalized` check.
MutantFinalize(p, s) == [p EXCEPT !.turn.phase = "over", !.turn.result = s]

Finalize(p, s) ==
  IF p.turn.phase # "active" THEN p
  ELSE [p EXCEPT !.turn.phase = "over", !.turn.result = s]

\* finish and, through onDone, finalize.
Finish(p, s) == IF p.run.finished THEN p ELSE Finalize([p EXCEPT !.run.finished = TRUE], s)

\* Mutant: a close while paused ends the turn at once.
MutantMaybeFinishClosed(p) ==
  IF p.run.close = "none" THEN p ELSE Finish(p, p.run.close)

MaybeFinishClosed(p) ==
  IF p.run.close = "none" THEN p
  ELSE IF p.run.cancelled THEN Finish(p, p.run.close)
  ELSE IF p.run.paused THEN p
  ELSE Finish(Drain(p, TRUE), p.run.close)

\* Mutant: stdout is resumed but what was held back is not sent.
MutantRunResume(p) ==
  IF p.run.finished \/ ~p.run.paused THEN p ELSE [p EXCEPT !.run.paused = FALSE]

RunResume(p) ==
  LET flushed == FlushPendingEvents([p EXCEPT !.run.paused = FALSE])
      drained == Drain(flushed, p.run.close # "none")
  IN IF p.run.finished \/ ~p.run.paused THEN p
     ELSE IF flushed.run.paused THEN flushed
     ELSE IF drained.run.paused THEN drained
     ELSE MaybeFinishClosed(drained)

\* cancel: SIGTERM now and SIGKILL later; without a child, done in a microtask.
RunCancel(p) ==
  IF p.run.finished THEN p
  ELSE IF p.run.child = "queued" THEN Finish([p EXCEPT !.run.cancelled = TRUE], "cancelled")
  ELSE [p EXCEPT !.run.cancelled = TRUE]

Pair(t) == [turn |-> turn[t], run |-> run[t]]

\* Mutant: the busy key outlives its turn.
MutantApply(t, p) ==
  /\ turn' = [turn EXCEPT ![t] = p.turn]
  /\ run' = [run EXCEPT ![t] = p.run]
  /\ UNCHANGED <<active, conn>>
  /\ got' = IF conn = "up" THEN [got EXCEPT ![t] = p.turn.sent] ELSE got

\* The pair p replaces turn t's; frames sent on a working link arrive.
Apply(t, p) ==
  /\ turn' = [turn EXCEPT ![t] = p.turn]
  /\ run' = [run EXCEPT ![t] = p.run]
  /\ active' = IF turn[t].phase = "active" /\ p.turn.phase = "over" THEN active \ {turn[t].key}
               ELSE active
  /\ got' = IF conn = "up" /\ p.turn.sent > turn[t].sent THEN [got EXCEPT ![t] = p.turn.sent]
            ELSE got
  /\ UNCHANGED conn

-----------------------------------------------------------------------------
(* Frames.                                                                 *)

\* Mutant: the per-session lock is not consulted.
MutantBusy(s) == FALSE

Busy(s) == s \in active

\* A busy, stale or unsupported session is rejected and leaves no trace.
StartTurn(t, s) ==
  /\ conn # "down" /\ ~Busy(s) /\ turn[t].phase = "idle"
  /\ active' = active \cup {s}
  /\ turn' = [turn EXCEPT ![t] = [NoTurn EXCEPT !.phase = "active", !.key = s]]
  /\ run' = [run EXCEPT ![t] = [NoRun EXCEPT !.child = "queued"]]
  /\ UNCHANGED <<conn, got>>

\* runner.run throws after the accept: the turn ends in the same call.
StartThrows(t, s) ==
  /\ conn # "down" /\ ~Busy(s) /\ turn[t].phase = "idle"
  /\ turn' = [turn EXCEPT ![t] = [NoTurn EXCEPT !.phase = "over", !.key = s, !.result = "error"]]
  /\ UNCHANGED <<run, active, conn, got>>

HandleCancel(t) ==
  /\ conn # "down" /\ turn[t].phase = "active"
  /\ Apply(t, RunCancel(Pair(t)))

MaybeResume(p) ==
  IF p.turn.paused /\ p.turn.sent - p.turn.acked < Cap THEN RunResume([p EXCEPT !.turn.paused = FALSE])
  ELSE p

HandleAck(t, n) ==
  /\ conn # "down" /\ turn[t].phase = "active" /\ n \in 1 .. got[t]
  /\ Apply(t, MaybeResume([Pair(t) EXCEPT !.turn.acked = IF n > @ THEN n ELSE @]))

-----------------------------------------------------------------------------
(* The child and the timers.                                               *)

Spawn(t) ==
  /\ run[t].child = "queued" /\ ~run[t].finished
  /\ Apply(t, [Pair(t) EXCEPT !.run.child = "up"])

\* child 'error': no process; one engine_error event, then done.
SpawnFails(t) ==
  /\ run[t].child = "queued" /\ ~run[t].finished
  /\ Apply(t, Finish(Emit([Pair(t) EXCEPT !.run.child = "gone"], 1), "error"))

ChildPrints(t) ==
  /\ run[t].child = "up" /\ run[t].lines < MaxLines
  /\ Apply(t, [Pair(t) EXCEPT !.run.lines = @ + 1, !.run.pipe = @ + 1])

\* 'data': a chunk of n lines, only while the stream flows.
ReadChunk(t, n) ==
  /\ run[t].child = "up" /\ ~run[t].paused /\ n <= run[t].pipe
  /\ Apply(t, Drain([Pair(t) EXCEPT !.run.pipe = @ - n, !.run.buf = @ + n], FALSE))

\* child 'close', after all output has been delivered: node flushes a paused
\* stdout when the process exits, and what is read then stays in stdoutBuf.
ChildCloses(t, s, tail) ==
  /\ run[t].child = "up"
  /\ run[t].paused \/ run[t].pipe = 0
  /\ run[t].cancelled => s = "cancelled"
  /\ Apply(t, MaybeFinishClosed([Pair(t) EXCEPT !.run.child = "gone", !.run.close = s,
                                                !.run.buf = @ + run[t].pipe, !.run.pipe = 0,
                                                !.run.tail = tail]))

TurnTimesOut(t) ==
  /\ turn[t].phase = "active" /\ run[t].child # "queued"
  /\ Apply(t, Finalize(RunCancel(Pair(t)), "error"))

-----------------------------------------------------------------------------
(* The link.  runSession's finally: cancelActiveTurns.                     *)

LinkBreaks == conn = "up" /\ conn' = "broken" /\ UNCHANGED <<turn, run, active, got>>

CancelActiveTurns ==
  LET ended(t) == Finalize(RunCancel(Pair(t)), "cancelled")
  IN /\ turn' = [t \in Turn |-> IF turn[t].phase = "active" THEN ended(t).turn ELSE turn[t]]
     /\ run' = [t \in Turn |-> IF turn[t].phase = "active" THEN ended(t).run ELSE run[t]]
     /\ active' = active \ {turn[t].key : t \in {u \in Turn : turn[u].phase = "active"}}

Disconnect == conn # "down" /\ conn' = "down" /\ CancelActiveTurns /\ UNCHANGED got

Reconnect == conn = "down" /\ conn' = "up" /\ UNCHANGED <<turn, run, active, got>>

Next ==
  \/ \E t \in Turn :
       \/ \E s \in Session : StartTurn(t, s) \/ StartThrows(t, s)
       \/ HandleCancel(t)
       \/ \E n \in 1 .. MaxEvents : HandleAck(t, n)
       \/ Spawn(t)
       \/ SpawnFails(t)
       \/ ChildPrints(t)
       \/ \E n \in 1 .. MaxLines : ReadChunk(t, n)
       \/ \E s \in {"ok", "error", "cancelled"}, tail \in BOOLEAN : ChildCloses(t, s, tail)
       \/ TurnTimesOut(t)
  \/ LinkBreaks
  \/ Disconnect
  \/ Reconnect

Spec == Init /\ [][Next]_vars

-----------------------------------------------------------------------------
(* Safety.                                                                 *)

Live(t) == turn[t].phase = "active"

\* resume-manager `active`: a key is busy exactly while a turn on it is in
\* progress, and never for two, however cancel, timeout, close and disconnect race.
BusyMeansOneTurn ==
  /\ active = {turn[t].key : t \in {u \in Turn : Live(u)}}
  /\ \A t, u \in Turn : Live(t) /\ Live(u) /\ turn[t].key = turn[u].key => t = u

\* maybeFinishClosed waits for a paused runner: a turn that ends "ok" has sent
\* the events of every complete line its child printed.
OkMeansAllLines ==
  \A t \in Turn : turn[t].result = "ok" => turn[t].sent >= run[t].lines * EventsPerLine

\* Two children on one session: only while one of them is already being killed.
SecondWriterOnlyAfterKill ==
  \A t, u \in Turn :
    t # u /\ turn[t].key = turn[u].key /\ run[t].child = "up" /\ run[u].child = "up" =>
      run[t].cancelled \/ run[u].cancelled

\* A turn's result is final, and nothing is sent on the turn after it.
OverIsFinal ==
  [][\A t \in Turn : turn[t].phase = "over" => turn'[t] = turn[t] /\ got'[t] = got[t]]_vars

-----------------------------------------------------------------------------
(* The inductive invariant, turn by turn.                                  *)

\* What a turn's state says of the run behind it.
RunMatchesTurn(p) ==
  /\ p.turn.phase = "idle" => p.turn = NoTurn /\ p.run = NoRun
  /\ p.turn.phase = "active" =>
       /\ p.turn.key \in Session /\ p.turn.result = "none"
       /\ p.run.child # "none" /\ ~p.run.finished
       /\ p.run.child = "gone" => p.run.close # "none"
  /\ p.run.close # "none" => p.run.child = "gone" /\ p.run.pipe = 0
  /\ p.run.child = "none" => p.run = NoRun
  /\ p.run.child \in {"queued", "up"} /\ ~p.run.cancelled => p.turn.phase = "active"
  /\ p.run.child = "queued" /\ ~p.run.finished => ~p.run.cancelled

\* While a turn is active none of its events is lost: those of a line are sent, held
\* back, or to be made of what is in the pipe or in stdoutBuf.  An unterminated last
\* line is one line more.
EventsAccounted(p) ==
  LET made == p.turn.sent + p.run.pend
      unread == p.run.pipe + p.run.buf
      tail == IF p.run.tail THEN 1 ELSE 0
  IN /\ unread <= p.run.lines
     /\ p.run.child # "gone" => tail = 0 /\ made + unread * EventsPerLine <= p.run.lines * EventsPerLine
     /\ made + (unread + tail) * EventsPerLine <= (p.run.lines + 1) * EventsPerLine
     /\ p.turn.phase = "active" => p.run.lines * EventsPerLine <= made + unread * EventsPerLine

\* Only a paused run holds anything back.
NothingHeld(p) == ~p.run.paused => p.run.pend = 0 /\ p.run.buf = 0

\* OkMeansAllLines, of a child that prints no more.
OkIsComplete(p) ==
  p.turn.result = "ok" => p.run.child = "gone" /\ p.run.lines * EventsPerLine <= p.turn.sent

IInv ==
  /\ TypeOK
  /\ BusyMeansOneTurn
  /\ \A t \in Turn : /\ RunMatchesTurn(Pair(t)) /\ EventsAccounted(Pair(t))
                     /\ NothingHeld(Pair(t)) /\ OkIsComplete(Pair(t))

-----------------------------------------------------------------------------
(* Liveness: the event loop reads what the child prints, a child ends, and *)
(* the relay acks what it has.  Neither the turn timeout nor a cancel is   *)
(* needed.                                                                 *)

Fairness ==
  \A t \in Turn :
    /\ WF_vars(Spawn(t))
    /\ WF_vars(\E n \in 1 .. MaxLines : ReadChunk(t, n))
    /\ WF_vars(\E s \in {"ok", "error", "cancelled"}, tail \in BOOLEAN : ChildCloses(t, s, tail))
    /\ WF_vars(HandleAck(t, got[t]))

FairSpec == Spec /\ Fairness

\* With the link up, every accepted turn gets its result.
TurnsEnd == <>[](conn = "up") => \A t \in Turn : Live(t) ~> ~Live(t)
=============================================================================
