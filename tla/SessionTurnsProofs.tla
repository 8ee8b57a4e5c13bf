------------------------- MODULE SessionTurnsProofs -------------------------
(***************************************************************************)
(* SessionTurns for every set of turns and sessions, every cap and every   *)
(* amount of output: one turn per session, an "ok" that is complete, no    *)
(* second writer, and results that stay.                                   *)
(***************************************************************************)
EXTENDS SessionTurns, TLAPS

PairType == [turn : TurnState, run : ResumeRun]

\* What a pair satisfies between two steps.
InOrder(p) ==
  p \in PairType /\ RunMatchesTurn(p) /\ EventsAccounted(p) /\ NothingHeld(p) /\ OkIsComplete(p)

\* What a call may do to a turn: end it, and nothing once it is over.
Steps(p, q) ==
  /\ q.turn.key = p.turn.key
  /\ q.turn.phase = p.turn.phase \/ (p.turn.phase = "active" /\ q.turn.phase = "over")
  /\ p.turn.phase = "over" => q.turn = p.turn

\* What sending events leaves alone.
Frame(p, q) ==
  /\ q.turn.key = p.turn.key /\ q.turn.phase = p.turn.phase /\ q.turn.result = p.turn.result
  /\ p.turn.sent <= q.turn.sent
  /\ p.turn.phase # "active" => q.turn = p.turn
  /\ \A f \in {"child", "lines", "pipe", "cancelled", "finished", "close"} : q.run[f] = p.run[f]

-----------------------------------------------------------------------------
(* Arithmetic, and the fields of a pair.                                   *)

LEMMA Products ==
  /\ EventsPerLine \in Nat \ {0} /\ MaxLines \in Nat /\ Cap \in Nat \ {0}
  /\ \A a \in Nat : a * EventsPerLine \in Nat
  /\ \A a, b \in Nat : (a + b) * EventsPerLine = a * EventsPerLine + b * EventsPerLine
  /\ \A a, b \in Nat : a <= b => a * EventsPerLine <= b * EventsPerLine
  /\ 0 * EventsPerLine = 0 /\ 1 * EventsPerLine = EventsPerLine
  /\ MaxEvents \in Nat /\ MaxEvents = MaxLines * EventsPerLine + EventsPerLine + 1
<1>1. EventsPerLine \in Nat \ {0} /\ MaxLines \in Nat /\ Cap \in Nat \ {0}
  BY CapAssumption, LineAssumption
<1>2. \A a \in Nat : a * EventsPerLine \in Nat
  BY <1>1
<1>3. \A a, b \in Nat : (a + b) * EventsPerLine = a * EventsPerLine + b * EventsPerLine
  BY <1>1
<1>4. \A a, b \in Nat : a <= b => a * EventsPerLine <= b * EventsPerLine
  <2> SUFFICES ASSUME NEW a \in Nat, NEW b \in Nat, a <= b
               PROVE  a * EventsPerLine <= b * EventsPerLine
    OBVIOUS
  <2>1. PICK c \in Nat : b = a + c
    <3>1. b - a \in Nat /\ b = a + (b - a)
      OBVIOUS
    <3> QED
      BY <3>1
  <2>2. b * EventsPerLine = a * EventsPerLine + c * EventsPerLine
    BY <1>3, <2>1
  <2>3. a * EventsPerLine \in Nat /\ b * EventsPerLine \in Nat /\ c * EventsPerLine \in Nat
    BY <1>2
  <2> QED
    BY <2>2, <2>3
<1>5. 0 * EventsPerLine = 0 /\ 1 * EventsPerLine = EventsPerLine
  BY <1>1
<1>6. MaxEvents = MaxLines * EventsPerLine + EventsPerLine + 1
  BY <1>1, <1>3, <1>5 DEF MaxEvents
<1>7. MaxEvents \in Nat
  BY <1>1, <1>2, <1>6
<1> QED
  BY <1>1, <1>2, <1>3, <1>4, <1>5, <1>6, <1>7

LEMMA Fields ==
  ASSUME NEW p \in PairType
  PROVE  /\ p.turn \in TurnState /\ p.run \in ResumeRun
         /\ p.turn.phase \in {"idle", "active", "over"} /\ p.turn.key \in Session \cup {NoSession}
         /\ p.turn.sent \in 0 .. MaxEvents /\ p.turn.acked \in 0 .. MaxEvents
         /\ p.turn.paused \in BOOLEAN /\ p.turn.result \in Status
         /\ p.run.child \in {"none", "queued", "up", "gone"} /\ p.run.lines \in 0 .. MaxLines
         /\ p.run.pipe \in 0 .. MaxLines /\ p.run.buf \in 0 .. MaxLines
         /\ p.run.tail \in BOOLEAN /\ p.run.pend \in 0 .. MaxEvents
         /\ p.run.paused \in BOOLEAN /\ p.run.cancelled \in BOOLEAN
         /\ p.run.finished \in BOOLEAN /\ p.run.close \in Status
BY DEF PairType, TurnState, ResumeRun

\* Events emitted are sent or held back, and a run that is not paused holds none back.
LEMMA EmitOK ==
  ASSUME NEW p \in PairType, NEW m \in Nat, ~p.run.paused => p.run.pend = 0,
         p.turn.sent + p.run.pend + m <= MaxEvents
  PROVE  LET q == Emit(p, m)
         IN /\ q \in PairType /\ Frame(p, q)
            /\ q.run.buf = p.run.buf /\ q.run.tail = p.run.tail
            /\ ~q.run.paused => q.run.pend = 0
            /\ q.turn.sent + q.run.pend <= p.turn.sent + p.run.pend + m
            /\ p.turn.phase = "active" => q.turn.sent + q.run.pend = p.turn.sent + p.run.pend + m
<1> USE Fields
<1>0. Cap \in Nat \ {0} /\ MaxEvents \in Nat
  BY Products
<1>1. CASE m = 0 \/ (~p.run.paused /\ p.turn.phase # "active")
  <2>1. Emit(p, m) = p
    BY <1>1 DEF Emit
  <2> QED
    BY <1>0, <1>1, <2>1 DEF Frame
<1>2. CASE m # 0 /\ p.run.paused
  <2> DEFINE q == [p EXCEPT !.run.pend = @ + m]
  <2>1. Emit(p, m) = q
    BY <1>2 DEF Emit
  <2>2. p.run.pend + m \in 0 .. MaxEvents
    BY <1>0
  <2>3. q \in PairType
    BY <2>2 DEF PairType, ResumeRun
  <2>4. /\ q.turn = p.turn /\ q.run.pend = p.run.pend + m
        /\ \A f \in DOMAIN p.run \ {"pend"} : q.run[f] = p.run[f]
    BY DEF PairType, ResumeRun
  <2>5. DOMAIN p.run = {"child", "lines", "pipe", "buf", "tail", "pend", "paused", "cancelled",
                        "finished", "close"}
    BY DEF PairType, ResumeRun
  <2> HIDE DEF q
  <2> QED
    BY <1>0, <1>2, <2>1, <2>3, <2>4, <2>5 DEF Frame
<1>3. CASE m # 0 /\ ~p.run.paused /\ p.turn.phase = "active"
  <2> DEFINE unacked == p.turn.sent - p.turn.acked
             room == IF unacked < Cap THEN Cap - unacked ELSE 1
             pass == IF m < room THEN m ELSE room
             full == unacked + pass >= Cap
             q == [p EXCEPT !.turn.sent = @ + pass, !.turn.paused = full,
                            !.run.paused = full, !.run.pend = m - pass]
  <2>1. Emit(p, m) = q
    BY <1>3 DEF Emit
  <2>2. pass \in Nat /\ pass <= m /\ (~full => pass = m)
    BY <1>0
  <2>3. full \in BOOLEAN
    OBVIOUS
  <2> HIDE DEF pass, full
  <2>4. p.turn.sent + pass \in 0 .. MaxEvents /\ m - pass \in 0 .. MaxEvents
    BY <1>0, <2>2
  <2>5. q \in PairType
    BY <2>3, <2>4 DEF PairType, ResumeRun, TurnState
  <2>6. /\ q.turn.sent = p.turn.sent + pass /\ q.run.pend = m - pass /\ q.run.paused = full
        /\ q.turn.key = p.turn.key /\ q.turn.phase = p.turn.phase /\ q.turn.result = p.turn.result
        /\ q.run.buf = p.run.buf /\ q.run.tail = p.run.tail
        /\ \A f \in {"child", "lines", "pipe", "cancelled", "finished", "close"} : q.run[f] = p.run[f]
    BY DEF PairType, ResumeRun, TurnState
  <2> HIDE DEF q
  <2> QED
    BY <1>0, <1>3, <2>1, <2>2, <2>5, <2>6 DEF Frame
<1> QED
  BY <1>1, <1>2, <1>3

\* Reading what is in stdoutBuf: its events are sent or held back.
LEMMA DrainOK ==
  ASSUME NEW p \in PairType, EventsAccounted(p), ~p.run.paused => p.run.pend = 0,
         NEW flush \in BOOLEAN
  PROVE  LET q == Drain(p, flush)
         IN q \in PairType /\ Frame(p, q) /\ EventsAccounted(q) /\ NothingHeld(q)
<1> DEFINE E == EventsPerLine
           last == IF p.run.tail THEN 1 ELSE 0
           n == p.run.buf + (IF flush /\ p.run.tail THEN 1 ELSE 0)
           left == p.run.tail /\ ~flush
           d == [p EXCEPT !.run.buf = 0, !.run.tail = left]
           q == Emit(d, n * E)
<1>1. /\ p.turn.sent \in Nat /\ p.run.pend \in Nat /\ p.run.pipe \in Nat /\ p.run.buf \in Nat
      /\ p.run.lines \in Nat /\ p.run.lines <= MaxLines /\ last \in {0, 1} /\ n \in Nat
      /\ n = p.run.buf \/ (n = p.run.buf + 1 /\ last = 1 /\ flush)
      /\ p.run.tail \in BOOLEAN
  BY Fields, Products
<1>2. /\ (p.run.pipe + p.run.buf) * E = p.run.pipe * E + p.run.buf * E
      /\ (p.run.pipe + p.run.buf + last) * E = p.run.pipe * E + p.run.buf * E + last * E
      /\ (p.run.pipe + 0) * E = p.run.pipe * E
      /\ (p.run.lines + 1) * E = p.run.lines * E + E
      /\ (p.run.buf + 1) * E = p.run.buf * E + E
      /\ p.run.lines * E <= MaxLines * E
      /\ p.run.pipe * E \in Nat /\ p.run.buf * E \in Nat /\ p.run.lines * E \in Nat /\ n * E \in Nat
      /\ last = 0 => last * E = 0
      /\ last = 1 => last * E = E
  <2>1. p.run.pipe + p.run.buf \in Nat /\ p.run.pipe + 0 = p.run.pipe
    BY <1>1
  <2> QED
    BY <1>1, <2>1, Products
<1>3. /\ p.run.pipe + p.run.buf <= p.run.lines
      /\ p.run.child # "gone" =>
           last = 0 /\ p.turn.sent + p.run.pend + (p.run.pipe + p.run.buf) * E <= p.run.lines * E
      /\ p.turn.sent + p.run.pend + (p.run.pipe + p.run.buf + last) * E <= (p.run.lines + 1) * E
      /\ p.turn.phase = "active" =>
           p.run.lines * E <= p.turn.sent + p.run.pend + (p.run.pipe + p.run.buf) * E
  BY DEF EventsAccounted
<1>0. left \in BOOLEAN /\ (left => p.run.tail /\ ~flush) /\ (p.run.tail /\ ~flush => left)
  OBVIOUS
<1> HIDE DEF left
<1>4. d \in PairType
  <2>1. 0 \in 0 .. MaxLines
    BY Products
  <2> QED
    BY <1>0, <2>1 DEF PairType, ResumeRun
<1>5. /\ d.turn = p.turn /\ d.run.pend = p.run.pend /\ d.run.paused = p.run.paused
      /\ d.run.buf = 0 /\ d.run.tail = left
      /\ \A f \in {"child", "lines", "pipe", "cancelled", "finished", "close"} : d.run[f] = p.run[f]
  BY DEF PairType, ResumeRun
<1>6. E \in Nat /\ MaxEvents = MaxLines * E + E + 1
  BY Products
<1> HIDE DEF d, n, E
<1>7. n * E = p.run.buf * E \/ (n * E = p.run.buf * E + E /\ last = 1 /\ flush)
  BY <1>1, <1>2
<1>8. MaxLines * E \in Nat
  BY Products DEF E
<1>9. d.turn.sent + d.run.pend + n * E <= MaxEvents
  <2>1. p.turn.sent + p.run.pend + n * E <= p.turn.sent + p.run.pend + (p.run.pipe + p.run.buf + last) * E
    <3> DEFINE U == p.run.pipe * E
               B == p.run.buf * E
               T == last * E
               N == n * E
    <3>1. (p.run.pipe + p.run.buf + last) * E = U + B + T
      BY <1>2
    <3>2. U \in Nat /\ B \in Nat /\ N \in Nat /\ (T = 0 \/ T = E)
      BY <1>1, <1>2
    <3>3. N = B \/ (N = B + E /\ T = E)
      BY <1>2, <1>7
    <3> HIDE DEF U, B, T, N, last
    <3>4. p.turn.sent + p.run.pend + N <= p.turn.sent + p.run.pend + (U + B + T)
      BY <1>1, <1>6, <3>2, <3>3
    <3> QED
      BY <3>1, <3>4 DEF N
  <2>2. (p.run.lines + 1) * E <= MaxLines * E + E
    BY <1>1, <1>2, <1>6, <1>8
  <2>3. p.turn.sent + p.run.pend + (p.run.pipe + p.run.buf + last) * E <= (p.run.lines + 1) * E
    BY <1>3
  <2> HIDE DEF last
  <2>4. /\ (p.run.pipe + p.run.buf + last) * E \in Nat /\ (p.run.lines + 1) * E \in Nat
        /\ n * E \in Nat
    <3>1. p.run.pipe + p.run.buf + last \in Nat /\ p.run.lines + 1 \in Nat
      BY <1>1
    <3> QED
      BY <1>1, <3>1, Products DEF E
  <2>5. p.turn.sent + p.run.pend + n * E <= MaxEvents
    BY <1>1, <1>6, <1>8, <2>1, <2>2, <2>3, <2>4
  <2> QED
    BY <1>5, <2>5
<1>10. ~d.run.paused => d.run.pend = 0
  BY <1>5
<1>11. /\ q \in PairType /\ Frame(d, q) /\ q.run.buf = 0 /\ q.run.tail = d.run.tail
       /\ ~q.run.paused => q.run.pend = 0
       /\ q.turn.sent + q.run.pend <= p.turn.sent + p.run.pend + n * E
       /\ p.turn.phase = "active" => q.turn.sent + q.run.pend = p.turn.sent + p.run.pend + n * E
  BY <1>2, <1>4, <1>5, <1>9, <1>10, EmitOK
<1> HIDE DEF q
<1>12. Frame(p, q)
  BY <1>5, <1>11 DEF Frame
<1>13. EventsAccounted(q)
  <2> DEFINE rest == IF q.run.tail THEN 1 ELSE 0
  <2>1. q.turn.sent \in Nat /\ q.run.pend \in Nat /\ p.run.pipe + 0 = p.run.pipe
    <3>1. q \in PairType
      BY <1>11
    <3>2. q.turn.sent \in 0 .. MaxEvents /\ q.run.pend \in 0 .. MaxEvents
      BY <3>1, Fields
    <3> QED
      BY <1>1, <3>2
  <2>2. /\ q.run.pipe = p.run.pipe /\ q.run.lines = p.run.lines /\ q.run.child = p.run.child
        /\ q.turn.phase = p.turn.phase
    BY <1>12 DEF Frame
  <2>3. rest \in {0, 1} /\ (rest = 1 => last = 1 /\ ~flush) /\ (last = 1 /\ ~flush => rest = 1)
    <3>1. q.run.tail = left
      BY <1>5, <1>11
    <3>2. (left => p.run.tail /\ ~flush) /\ (p.run.tail /\ ~flush => left)
      BY <1>0
    <3> QED
      BY <3>1, <3>2
  <2> HIDE DEF rest
  <2>4. (q.run.pipe + q.run.buf + rest) * E = p.run.pipe * E + (IF rest = 1 THEN E ELSE 0)
    BY <1>1, <1>2, <1>11, <2>1, <2>2, <2>3, Products DEF E
  <2>5. q.run.pipe + q.run.buf <= q.run.lines
    BY <1>1, <1>3, <1>11, <2>2
  <2>6. q.run.child # "gone" =>
          rest = 0 /\ q.turn.sent + q.run.pend + (q.run.pipe + q.run.buf) * E <= q.run.lines * E
    BY <1>1, <1>2, <1>3, <1>6, <1>7, <1>11, <2>1, <2>2, <2>3
  <2>7. q.turn.sent + q.run.pend + (q.run.pipe + q.run.buf + rest) * E <= (q.run.lines + 1) * E
    <3>1. q.turn.sent + q.run.pend <= p.turn.sent + p.run.pend + n * E
      BY <1>11
    <3> QED
      BY <1>1, <1>2, <1>3, <1>6, <1>7, <2>1, <2>2, <2>3, <2>4, <3>1
  <2>8. q.turn.phase = "active" =>
          q.run.lines * E <= q.turn.sent + q.run.pend + (q.run.pipe + q.run.buf) * E
    <3>1. p.turn.phase = "active" => q.turn.sent + q.run.pend = p.turn.sent + p.run.pend + n * E
      BY <1>11
    <3>2. (q.run.pipe + q.run.buf) * E = p.run.pipe * E
      BY <1>2, <1>11, <2>2
    <3> QED
      BY <1>1, <1>2, <1>3, <1>6, <1>7, <2>1, <2>2, <3>1, <3>2
  <2> QED
    BY <2>5, <2>6, <2>7, <2>8 DEF EventsAccounted, E, rest
<1>14. Drain(p, flush) = q
  BY DEF Drain, q, d, n, E, left
<1> QED
  BY <1>11, <1>12, <1>13, <1>14 DEF NothingHeld

-----------------------------------------------------------------------------
(* The calls between a turn and its run.                                   *)

\* A pair in order stays so while events are sent.
LEMMA FrameKeeps ==
  ASSUME NEW p \in PairType, NEW q \in PairType, Frame(p, q), RunMatchesTurn(p), OkIsComplete(p),
         p.turn.phase # "idle", p.run.child # "none"
  PROVE  RunMatchesTurn(q) /\ OkIsComplete(q) /\ Steps(p, q)
<1>1. /\ q.turn.key = p.turn.key /\ q.turn.phase = p.turn.phase /\ q.turn.result = p.turn.result
      /\ p.turn.phase # "active" => q.turn = p.turn
      /\ q.run.child = p.run.child /\ q.run.lines = p.run.lines /\ q.run.pipe = p.run.pipe
      /\ q.run.cancelled = p.run.cancelled /\ q.run.finished = p.run.finished
      /\ q.run.close = p.run.close
  BY DEF Frame
<1>2. p.turn.phase \in {"idle", "active", "over"} /\ (p.turn.phase = "active" => p.turn.result = "none")
  BY Fields DEF RunMatchesTurn
<1>3. OkIsComplete(q)
  BY <1>1, <1>2 DEF OkIsComplete
<1> QED
  BY <1>1, <1>2, <1>3 DEF RunMatchesTurn, Steps

\* finalize, of a turn whose child has closed or is being killed.
LEMMA FinalizeOK ==
  ASSUME NEW p, InOrder(p), p.turn.phase # "idle", p.run.child = "gone" \/ p.run.cancelled,
         NEW s \in Status \ {"none", "ok"}
  PROVE  InOrder(Finalize(p, s)) /\ Steps(p, Finalize(p, s))
<1>1. CASE p.turn.phase # "active"
  BY <1>1 DEF Finalize, Steps
<1>2. CASE p.turn.phase = "active"
  <2> DEFINE q == [p EXCEPT !.turn.phase = "over", !.turn.result = s]
  <2>1. Finalize(p, s) = q
    BY <1>2 DEF Finalize
  <2>2. p \in PairType
    BY DEF InOrder
  <2>3. q \in PairType
    BY <2>2 DEF PairType, TurnState
  <2>4. /\ q.turn.phase = "over" /\ q.turn.result = s /\ q.turn.key = p.turn.key
        /\ q.turn.sent = p.turn.sent /\ q.run = p.run
    BY <2>2 DEF PairType, TurnState
  <2> HIDE DEF q
  <2>5. RunMatchesTurn(q)
    BY <1>2, <2>4 DEF InOrder, RunMatchesTurn
  <2>6. EventsAccounted(q) /\ NothingHeld(q) /\ OkIsComplete(q)
    BY <1>2, <2>4 DEF InOrder, EventsAccounted, NothingHeld, OkIsComplete
  <2> QED
    BY <1>2, <2>1, <2>3, <2>4, <2>5, <2>6 DEF InOrder, Steps
<1> QED
  BY <1>1, <1>2

\* finish, of a turn whose child has closed or is being killed; "ok" when its lines are sent.
LEMMA FinishOK ==
  ASSUME NEW p \in PairType, EventsAccounted(p), NothingHeld(p), OkIsComplete(p),
         p.turn.phase # "idle", p.run.child \in {"queued", "up", "gone"},
         p.run.child = "gone" \/ p.run.cancelled,
         p.run.close # "none" => p.run.child = "gone" /\ p.run.pipe = 0,
         p.run.finished => RunMatchesTurn(p),
         NEW s \in Status \ {"none"},
         s = "ok" /\ p.turn.phase = "active" =>
           p.run.child = "gone" /\ p.run.lines * EventsPerLine <= p.turn.sent
  PROVE  InOrder(Finish(p, s)) /\ Steps(p, Finish(p, s))
<1>1. CASE p.run.finished
  BY <1>1 DEF Finish, InOrder, Steps
<1>2. CASE ~p.run.finished
  <2> DEFINE d == [p EXCEPT !.run.finished = TRUE]
             q == Finalize(d, s)
             e == [d EXCEPT !.turn.phase = "over", !.turn.result = s]
  <2>1. Finish(p, s) = q
    BY <1>2 DEF Finish
  <2>2. d \in PairType
    BY DEF PairType, ResumeRun
  <2>3. /\ d.turn = p.turn /\ d.run.finished
        /\ \A f \in DOMAIN p.run \ {"finished"} : d.run[f] = p.run[f]
    BY DEF PairType, ResumeRun
  <2>4. DOMAIN p.run = {"child", "lines", "pipe", "buf", "tail", "pend", "paused", "cancelled",
                        "finished", "close"}
    BY DEF PairType, ResumeRun
  <2>5. e \in PairType
    BY <2>2 DEF PairType, TurnState
  <2>6. /\ e.turn.phase = "over" /\ e.turn.result = s /\ e.turn.key = p.turn.key
        /\ e.turn.sent = p.turn.sent /\ e.run = d.run
    BY <2>2, <2>3 DEF PairType, TurnState
  <2>7. (p.turn.phase # "active" => q = d) /\ (p.turn.phase = "active" => q = e)
    BY <2>3 DEF Finalize
  <2>8. q \in PairType /\ q.run = d.run /\ q.turn.phase = "over" /\ q.turn.sent = p.turn.sent
        /\ q.turn.key = p.turn.key /\ (p.turn.phase # "active" => q.turn = p.turn)
        /\ (p.turn.phase = "active" => q.turn.result = s)
    BY <2>2, <2>3, <2>5, <2>6, <2>7, Fields
  <2> HIDE DEF d, e, q
  <2>9. RunMatchesTurn(q)
    BY <2>3, <2>4, <2>8 DEF RunMatchesTurn
  <2>10. EventsAccounted(q) /\ NothingHeld(q) /\ OkIsComplete(q)
    BY <2>3, <2>4, <2>8 DEF EventsAccounted, NothingHeld, OkIsComplete
  <2> QED
    BY <2>1, <2>8, <2>9, <2>10, Fields DEF InOrder, Steps
<1> QED
  BY <1>1, <1>2

LEMMA StepsCompose ==
  ASSUME NEW p, NEW q, NEW r, Steps(p, q), Steps(q, r)
  PROVE  Steps(p, r)
BY DEF Steps

\* maybeFinishClosed: what a run that is not paused has printed is sent before its "ok".
LEMMA MaybeFinishClosedOK ==
  ASSUME NEW p, InOrder(p), p.turn.phase # "idle",
         p.run.cancelled /\ p.run.close = "ok" => ~p.run.paused
  PROVE  InOrder(MaybeFinishClosed(p)) /\ Steps(p, MaybeFinishClosed(p))
<1> DEFINE s == p.run.close
<1>1. p \in PairType /\ RunMatchesTurn(p) /\ EventsAccounted(p) /\ NothingHeld(p) /\ OkIsComplete(p)
  BY DEF InOrder
<1>2. /\ p.run.child \in {"none", "queued", "up", "gone"} /\ s \in Status
      /\ p.turn.sent \in Nat /\ p.run.lines \in Nat /\ p.run.lines * EventsPerLine \in Nat
  BY <1>1, Fields, Products
<1>3. CASE s = "none" \/ (~p.run.cancelled /\ p.run.paused)
  BY <1>3 DEF MaybeFinishClosed, Steps
<1>4. ASSUME s # "none"
      PROVE  /\ p.run.child = "gone" /\ p.run.pipe = 0
             /\ ~p.run.paused /\ p.turn.phase = "active" => p.run.lines * EventsPerLine <= p.turn.sent
  <2>1. p.run.child = "gone" /\ p.run.pipe = 0
    BY <1>1, <1>4 DEF RunMatchesTurn
  <2>2. ASSUME ~p.run.paused, p.turn.phase = "active"
        PROVE  p.run.lines * EventsPerLine <= p.turn.sent
    <3>1. p.run.pend = 0 /\ p.run.buf = 0
      BY <1>1, <2>2 DEF NothingHeld
    <3>2. p.run.lines * EventsPerLine <= p.turn.sent + 0 + (0 + 0) * EventsPerLine
      BY <1>1, <2>1, <2>2, <3>1 DEF EventsAccounted
    <3>3. (0 + 0) * EventsPerLine = 0
      BY Products
    <3> QED
      BY <1>2, <3>2, <3>3
  <2> QED
    BY <2>1, <2>2
<1>5. CASE s # "none" /\ p.run.cancelled
  <2>1. MaybeFinishClosed(p) = Finish(p, s)
    BY <1>5 DEF MaybeFinishClosed
  <2>2. s = "ok" /\ p.turn.phase = "active" =>
          p.run.child = "gone" /\ p.run.lines * EventsPerLine <= p.turn.sent
    BY <1>4, <1>5
  <2> QED
    BY <1>1, <1>2, <1>4, <1>5, <2>1, <2>2, FinishOK
<1>6. CASE s # "none" /\ ~p.run.cancelled /\ ~p.run.paused
  <2> DEFINE d == Drain(p, TRUE)
  <2>1. MaybeFinishClosed(p) = Finish(d, s)
    BY <1>6 DEF MaybeFinishClosed
  <2>2. ~p.run.paused => p.run.pend = 0
    BY <1>1 DEF NothingHeld
  <2>3. d \in PairType /\ Frame(p, d) /\ EventsAccounted(d) /\ NothingHeld(d)
    BY <1>1, <2>2, DrainOK
  <2> HIDE DEF d
  <2>4. RunMatchesTurn(d) /\ OkIsComplete(d) /\ Steps(p, d)
    BY <1>1, <1>4, <1>6, <2>3, FrameKeeps
  <2>5. /\ d.run.child = "gone" /\ d.run.close = s /\ d.run.pipe = 0 /\ d.run.lines = p.run.lines
        /\ d.turn.phase = p.turn.phase /\ p.turn.sent <= d.turn.sent
    BY <1>4, <1>6, <2>3 DEF Frame
  <2>6. d.turn.phase = "active" => d.run.lines * EventsPerLine <= d.turn.sent
    <3>1. d.turn.sent \in Nat
      BY <2>3, Fields, Products
    <3> QED
      BY <1>2, <1>4, <1>6, <2>5, <3>1
  <2>7. InOrder(Finish(d, s)) /\ Steps(d, Finish(d, s))
    BY <1>2, <1>6, <2>3, <2>4, <2>5, <2>6, FinishOK
  <2> QED
    BY <2>1, <2>4, <2>7, StepsCompose
<1> QED
  BY <1>3, <1>5, <1>6

LEMMA MadeBounded ==
  ASSUME NEW p \in PairType, EventsAccounted(p)
  PROVE  p.turn.sent + p.run.pend + 1 <= MaxEvents
<1> DEFINE tail == IF p.run.tail THEN 1 ELSE 0
           unread == p.run.pipe + p.run.buf
<1>1. /\ p.turn.sent \in Nat /\ p.run.pend \in Nat /\ unread + tail \in Nat
      /\ p.run.lines + 1 \in Nat /\ p.run.lines + 1 <= MaxLines + 1 /\ MaxLines + 1 \in Nat
  <2>1. /\ p.turn.sent \in 0 .. MaxEvents /\ p.run.pend \in 0 .. MaxEvents
        /\ p.run.lines \in 0 .. MaxLines /\ p.run.pipe \in 0 .. MaxLines
        /\ p.run.buf \in 0 .. MaxLines
    BY Fields
  <2>2. tail \in {0, 1} /\ MaxLines \in Nat /\ MaxEvents \in Nat
    BY Products
  <2> HIDE DEF tail
  <2> QED
    BY <2>1, <2>2
<1>2. p.turn.sent + p.run.pend + (unread + tail) * EventsPerLine <= (p.run.lines + 1) * EventsPerLine
  BY DEF EventsAccounted
<1> HIDE DEF tail, unread
<1>3. /\ (unread + tail) * EventsPerLine \in Nat /\ (p.run.lines + 1) * EventsPerLine \in Nat
      /\ (p.run.lines + 1) * EventsPerLine <= (MaxLines + 1) * EventsPerLine
      /\ MaxEvents = (MaxLines + 1) * EventsPerLine + 1
      /\ (MaxLines + 1) * EventsPerLine \in Nat
  BY <1>1, Products DEF MaxEvents
<1> QED
  BY <1>1, <1>2, <1>3

\* resume: what was held back is sent, then what was not read, then the end if the child closed.
LEMMA RunResumeOK ==
  ASSUME NEW p, InOrder(p), p.turn.phase = "active"
  PROVE  InOrder(RunResume(p)) /\ Steps(p, RunResume(p))
<1>1. p \in PairType /\ RunMatchesTurn(p) /\ EventsAccounted(p) /\ NothingHeld(p) /\ OkIsComplete(p)
  BY DEF InOrder
<1>2. p.run.child # "none" /\ p.turn.phase # "idle"
  BY <1>1 DEF RunMatchesTurn
<1>3. CASE p.run.finished \/ ~p.run.paused
  BY <1>3 DEF RunResume, Steps
<1>4. CASE ~(p.run.finished \/ ~p.run.paused)
  <2> DEFINE r == [p EXCEPT !.run.paused = FALSE]
             g == [r EXCEPT !.run.pend = 0]
             f == Emit(g, r.run.pend)
             flush == p.run.close # "none"
             d == Drain(f, flush)
  <2>1. r \in PairType /\ r.run.pend = p.run.pend
    BY <1>1 DEF PairType, ResumeRun
  <2>2. g \in PairType
    <3>1. 0 \in 0 .. MaxEvents
      BY Products
    <3> QED
      BY <2>1, <3>1 DEF PairType, ResumeRun
  <2>3. /\ g.turn = p.turn /\ g.run.pend = 0 /\ ~g.run.paused
        /\ g.run.buf = p.run.buf /\ g.run.tail = p.run.tail
        /\ \A x \in {"child", "lines", "pipe", "cancelled", "finished", "close"} : g.run[x] = p.run[x]
    BY <1>1 DEF PairType, ResumeRun
  <2>4. FlushPendingEvents(r) = f
    BY DEF FlushPendingEvents
  <2>5. RunResume(p) = IF f.run.paused THEN f ELSE IF d.run.paused THEN d ELSE MaybeFinishClosed(d)
    BY <1>4, <2>4 DEF RunResume
  <2> HIDE DEF r, g
  <2>6. g.turn.sent + g.run.pend + p.run.pend <= MaxEvents /\ p.run.pend \in Nat /\ p.turn.sent \in Nat
    BY <1>1, <2>3, MadeBounded, Fields, Products
  <2>7. /\ f \in PairType /\ Frame(g, f) /\ f.run.buf = p.run.buf /\ f.run.tail = p.run.tail
        /\ ~f.run.paused => f.run.pend = 0
        /\ f.turn.sent + f.run.pend = p.turn.sent + 0 + p.run.pend
    BY <1>4, <2>1, <2>2, <2>3, <2>6, EmitOK
  <2> HIDE DEF f
  <2>8. Frame(p, f)
    BY <2>3, <2>7 DEF Frame
  <2>9. RunMatchesTurn(f) /\ OkIsComplete(f) /\ Steps(p, f)
    BY <1>1, <1>2, <2>7, <2>8, FrameKeeps
  <2>10. EventsAccounted(f)
    <3>1. f.turn.sent + f.run.pend = p.turn.sent + p.run.pend
      BY <2>6, <2>7
    <3>2. /\ f.run.buf = p.run.buf /\ f.run.tail = p.run.tail /\ f.turn.phase = p.turn.phase
          /\ f.run.child = p.run.child /\ f.run.lines = p.run.lines /\ f.run.pipe = p.run.pipe
      BY <2>7, <2>8 DEF Frame
    <3> QED
      BY <1>1, <3>1, <3>2 DEF EventsAccounted
  <2>11. CASE f.run.paused
    BY <2>5, <2>7, <2>9, <2>10, <2>11 DEF InOrder, NothingHeld
  <2>12. CASE ~f.run.paused
    <3>1. d \in PairType /\ Frame(f, d) /\ EventsAccounted(d) /\ NothingHeld(d)
      BY <2>7, <2>10, <2>12, DrainOK
    <3>2. f.turn.phase # "idle" /\ f.run.child # "none"
      BY <1>2, <2>8 DEF Frame
    <3> HIDE DEF d
    <3>3. RunMatchesTurn(d) /\ OkIsComplete(d) /\ Steps(f, d)
      BY <2>7, <2>9, <3>1, <3>2, FrameKeeps
    <3>4. InOrder(d) /\ Steps(p, d) /\ d.turn.phase # "idle"
      BY <2>9, <3>1, <3>2, <3>3, StepsCompose DEF InOrder, Frame
    <3>5. CASE d.run.paused
      BY <2>5, <2>12, <3>4, <3>5
    <3>6. CASE ~d.run.paused
      BY <2>5, <2>12, <3>4, <3>6, MaybeFinishClosedOK, StepsCompose
    <3> QED
      BY <3>5, <3>6
  <2> QED
    BY <2>11, <2>12
<1> QED
  BY <1>3, <1>4

\* maybeResume: the turn's own flag first.
LEMMA MaybeResumeOK ==
  ASSUME NEW p, InOrder(p), p.turn.phase = "active"
  PROVE  InOrder(MaybeResume(p)) /\ Steps(p, MaybeResume(p))
<1> DEFINE q == [p EXCEPT !.turn.paused = FALSE]
<1>1. p \in PairType
  BY DEF InOrder
<1>2. q \in PairType
  BY <1>1 DEF PairType, TurnState
<1>3. /\ q.run = p.run /\ q.turn.phase = "active" /\ q.turn.key = p.turn.key
      /\ q.turn.result = p.turn.result /\ q.turn.sent = p.turn.sent
  BY <1>1 DEF PairType, TurnState
<1>4. MaybeResume(p) = p \/ MaybeResume(p) = RunResume(q)
  BY DEF MaybeResume
<1> HIDE DEF q
<1>5. InOrder(q)
  BY <1>2, <1>3 DEF InOrder, RunMatchesTurn, EventsAccounted, NothingHeld, OkIsComplete
<1>6. Steps(p, q)
  BY <1>3 DEF Steps
<1> QED
  BY <1>3, <1>4, <1>5, <1>6, RunResumeOK, StepsCompose DEF Steps

\* cancel: a run that has not finished is being killed from here on.
LEMMA RunCancelOK ==
  ASSUME NEW p, InOrder(p), p.turn.phase = "active"
  PROVE  /\ InOrder(RunCancel(p)) /\ Steps(p, RunCancel(p)) /\ RunCancel(p).turn.phase # "idle"
         /\ RunCancel(p).run.cancelled
<1> DEFINE c == [p EXCEPT !.run.cancelled = TRUE]
<1>1. p \in PairType /\ RunMatchesTurn(p) /\ EventsAccounted(p) /\ NothingHeld(p) /\ OkIsComplete(p)
  BY DEF InOrder
<1>2. ~p.run.finished /\ p.run.child \in {"queued", "up", "gone"}
  BY <1>1, Fields DEF RunMatchesTurn
<1>3. c \in PairType
  BY <1>1 DEF PairType, ResumeRun
<1>4. /\ c.turn = p.turn /\ c.run.cancelled
      /\ \A f \in DOMAIN p.run \ {"cancelled"} : c.run[f] = p.run[f]
  BY <1>1 DEF PairType, ResumeRun
<1>5. DOMAIN p.run = {"child", "lines", "pipe", "buf", "tail", "pend", "paused", "cancelled",
                      "finished", "close"}
  BY <1>1 DEF PairType, ResumeRun
<1>6. RunCancel(p) = IF p.run.child = "queued" THEN Finish(c, "cancelled") ELSE c
  BY <1>2 DEF RunCancel
<1>7. Finish(c, "cancelled").run.cancelled
  <2> DEFINE d == [c EXCEPT !.run.finished = TRUE]
  <2>1. d \in PairType /\ d.run.cancelled /\ ~c.run.finished
    BY <1>2, <1>3, <1>4, <1>5 DEF PairType, ResumeRun
  <2>2. Finish(c, "cancelled") = Finalize(d, "cancelled")
    BY <2>1 DEF Finish
  <2> HIDE DEF d
  <2> QED
    BY <2>1, <2>2 DEF Finalize, PairType
<1> HIDE DEF c
<1>8. EventsAccounted(c) /\ NothingHeld(c) /\ OkIsComplete(c)
  BY <1>1, <1>4, <1>5 DEF EventsAccounted, NothingHeld, OkIsComplete
<1>9. Steps(p, c)
  BY <1>4 DEF Steps
<1>10. CASE p.run.child = "queued"
  <2>1. p.run.close = "none" /\ c.run.close = "none" /\ ~c.run.finished /\ c.run.child = "queued"
    BY <1>1, <1>2, <1>4, <1>5, <1>10 DEF RunMatchesTurn
  <2>2. InOrder(Finish(c, "cancelled")) /\ Steps(c, Finish(c, "cancelled"))
    BY <1>3, <1>4, <1>8, <2>1, FinishOK DEF Status
  <2> QED
    BY <1>6, <1>7, <1>9, <1>10, <2>2, StepsCompose DEF Steps
<1>11. CASE p.run.child # "queued"
  <2>1. RunMatchesTurn(c)
    BY <1>1, <1>2, <1>4, <1>5, <1>11 DEF RunMatchesTurn
  <2> QED
    BY <1>3, <1>4, <1>6, <1>8, <1>9, <1>11, <2>1 DEF InOrder
<1> QED
  BY <1>10, <1>11

-----------------------------------------------------------------------------
(* Every step.                                                             *)

LEMMA PairInOrder ==
  ASSUME IInv, NEW t \in Turn
  PROVE  InOrder(Pair(t)) /\ Pair(t).turn = turn[t] /\ Pair(t).run = run[t]
<1>1. Pair(t).turn = turn[t] /\ Pair(t).run = run[t]
  BY DEF Pair
<1>2. Pair(t) \in PairType
  BY DEF IInv, TypeOK, Pair, PairType
<1> QED
  BY <1>1, <1>2 DEF IInv, InOrder

\* What every step keeps of the turns that are over.
Past(t) == turn[t].phase = "over" => turn'[t] = turn[t] /\ got'[t] = got[t]

\* One turn takes a step in order.
LEMMA ApplyKeeps ==
  ASSUME IInv, NEW t \in Turn, NEW p, InOrder(p), Steps(Pair(t), p), Apply(t, p)
  PROVE  IInv' /\ \A u \in Turn : Past(u)
<1>1. /\ turn \in [Turn -> TurnState] /\ run \in [Turn -> ResumeRun] /\ active \subseteq Session
      /\ conn \in {"up", "broken", "down"} /\ got \in [Turn -> 0 .. MaxEvents]
  BY DEF IInv, TypeOK
<1>2. p \in PairType /\ p.turn \in TurnState /\ p.run \in ResumeRun /\ p.turn.sent \in 0 .. MaxEvents
  BY Fields DEF InOrder
<1>3. /\ turn' = [turn EXCEPT ![t] = p.turn] /\ run' = [run EXCEPT ![t] = p.run]
      /\ active' = IF turn[t].phase = "active" /\ p.turn.phase = "over" THEN active \ {turn[t].key}
                   ELSE active
      /\ got' = IF conn = "up" /\ p.turn.sent > turn[t].sent THEN [got EXCEPT ![t] = p.turn.sent]
                ELSE got
      /\ conn' = conn
  BY DEF Apply
<1>4. TypeOK'
  BY <1>1, <1>2, <1>3 DEF TypeOK
<1>5. /\ p.turn.key = turn[t].key
      /\ p.turn.phase = turn[t].phase \/ (turn[t].phase = "active" /\ p.turn.phase = "over")
      /\ turn[t].phase = "over" => p.turn = turn[t]
  BY PairInOrder DEF Steps
<1>6. /\ active = {turn[u].key : u \in {v \in Turn : turn[v].phase = "active"}}
      /\ \A u, v \in Turn :
           turn[u].phase = "active" /\ turn[v].phase = "active" /\ turn[u].key = turn[v].key => u = v
  BY DEF IInv, BusyMeansOneTurn, Live
<1>7. /\ turn'[t] = p.turn /\ run'[t] = p.run
      /\ \A u \in Turn \ {t} : turn'[u] = turn[u] /\ run'[u] = run[u]
  BY <1>1, <1>3
<1>8. BusyMeansOneTurn'
  <2>1. active' = {turn'[u].key : u \in {v \in Turn : turn'[v].phase = "active"}}
    <3>1. CASE turn[t].phase = "active" /\ p.turn.phase = "over"
      BY <1>3, <1>5, <1>6, <1>7, <3>1
    <3>2. CASE p.turn.phase = turn[t].phase
      <4>1. active' = active
        BY <1>3, <3>2
      <4> QED
        BY <1>5, <1>6, <1>7, <3>2, <4>1
    <3> QED
      BY <1>5, <3>1, <3>2
  <2>2. \A u, v \in Turn :
          turn'[u].phase = "active" /\ turn'[v].phase = "active" /\ turn'[u].key = turn'[v].key => u = v
    BY <1>5, <1>6, <1>7
  <2> QED
    BY <2>1, <2>2 DEF BusyMeansOneTurn, Live
<1>9. \A u \in Turn : InOrder([turn |-> turn'[u], run |-> run'[u]])
  <2> SUFFICES ASSUME NEW u \in Turn PROVE InOrder([turn |-> turn'[u], run |-> run'[u]])
    OBVIOUS
  <2>1. CASE u = t
    <3>1. [turn |-> turn'[t], run |-> run'[t]] = p
      BY <1>2, <1>7 DEF PairType
    <3> QED
      BY <2>1, <3>1
  <2>2. CASE u # t
    BY <1>7, <2>2, PairInOrder DEF Pair
  <2> QED
    BY <2>1, <2>2
<1>10. \A u \in Turn : Past(u)
  <2> SUFFICES ASSUME NEW u \in Turn, turn[u].phase = "over"
               PROVE  turn'[u] = turn[u] /\ got'[u] = got[u]
    BY DEF Past
  <2>1. CASE u = t
    <3>1. turn[t].sent \in 0 .. MaxEvents /\ p.turn = turn[t]
      BY <1>2, <1>5, <2>1
    <3> QED
      BY <1>3, <1>7, <2>1, <3>1
  <2>2. CASE u # t
    BY <1>1, <1>3, <1>7, <2>2
  <2> QED
    BY <2>1, <2>2
<1> QED
  BY <1>4, <1>8, <1>9, <1>10 DEF IInv, InOrder, Pair

\* A pair whose turn has just been replaced, with the others as they were.
LEMMA NewTurnKeeps ==
  ASSUME IInv, NEW t \in Turn, turn[t].phase = "idle", NEW a \in TurnState, NEW c \in ResumeRun,
         turn' = [turn EXCEPT ![t] = a], run' = [run EXCEPT ![t] = c], UNCHANGED <<conn, got>>,
         InOrder([turn |-> a, run |-> c]),
         \/ a.phase = "over" /\ active' = active
         \/ a.phase = "active" /\ a.key \in Session \ active /\ active' = active \cup {a.key}
  PROVE  IInv' /\ \A u \in Turn : Past(u)
<1>1. /\ turn \in [Turn -> TurnState] /\ run \in [Turn -> ResumeRun] /\ active \subseteq Session
      /\ conn \in {"up", "broken", "down"} /\ got \in [Turn -> 0 .. MaxEvents]
  BY DEF IInv, TypeOK
<1>2. TypeOK'
  BY <1>1 DEF TypeOK
<1>3. /\ active = {turn[u].key : u \in {v \in Turn : turn[v].phase = "active"}}
      /\ \A u, v \in Turn :
           turn[u].phase = "active" /\ turn[v].phase = "active" /\ turn[u].key = turn[v].key => u = v
  BY DEF IInv, BusyMeansOneTurn, Live
<1>4. /\ turn'[t] = a /\ run'[t] = c
      /\ \A u \in Turn \ {t} : turn'[u] = turn[u] /\ run'[u] = run[u]
  BY <1>1
<1>5. BusyMeansOneTurn'
  <2>1. active' = {turn'[u].key : u \in {v \in Turn : turn'[v].phase = "active"}}
    <3>1. CASE a.phase = "over" /\ active' = active
      BY <1>3, <1>4, <3>1
    <3>2. CASE a.phase = "active" /\ active' = active \cup {a.key}
      BY <1>3, <1>4, <3>2
    <3> QED
      BY <3>1, <3>2
  <2>2. \A u, v \in Turn :
          turn'[u].phase = "active" /\ turn'[v].phase = "active" /\ turn'[u].key = turn'[v].key => u = v
    BY <1>3, <1>4
  <2> QED
    BY <2>1, <2>2 DEF BusyMeansOneTurn, Live
<1>6. \A u \in Turn : InOrder([turn |-> turn'[u], run |-> run'[u]])
  BY <1>4, PairInOrder DEF Pair
<1>7. \A u \in Turn : Past(u)
  BY <1>4 DEF Past
<1> QED
  BY <1>2, <1>5, <1>6, <1>7 DEF IInv, InOrder, Pair

\* Nothing printed, nothing sent.
LEMMA FreshInOrder ==
  /\ NoTurn \in TurnState /\ NoRun \in ResumeRun /\ InOrder([turn |-> NoTurn, run |-> NoRun])
  /\ \A s \in Session :
       LET started == [turn |-> [NoTurn EXCEPT !.phase = "active", !.key = s],
                       run |-> [NoRun EXCEPT !.child = "queued"]]
           thrown == [NoTurn EXCEPT !.phase = "over", !.key = s, !.result = "error"]
       IN /\ started.turn \in TurnState /\ started.run \in ResumeRun /\ InOrder(started)
          /\ thrown \in TurnState /\ InOrder([turn |-> thrown, run |-> NoRun])
<1>1. 0 \in 0 .. MaxEvents /\ 0 \in 0 .. MaxLines
  BY Products
<1>2. /\ EventsPerLine \in Nat /\ (0 + 0) * EventsPerLine = 0 /\ (0 + 0 + 0) * EventsPerLine = 0
      /\ 0 * EventsPerLine = 0 /\ (0 + 1) * EventsPerLine = EventsPerLine
  BY Products
<1>3. NoTurn \in TurnState /\ NoRun \in ResumeRun
  BY <1>1 DEF NoTurn, NoRun, TurnState, ResumeRun, Status
<1>4. InOrder([turn |-> NoTurn, run |-> NoRun])
  BY <1>2, <1>3 DEF InOrder, PairType, RunMatchesTurn, EventsAccounted, NothingHeld, OkIsComplete,
                    NoTurn, NoRun
<1>5. ASSUME NEW s \in Session, NEW a, NEW c,
             \/ a = [NoTurn EXCEPT !.phase = "active", !.key = s] /\ c = [NoRun EXCEPT !.child = "queued"]
             \/ a = [NoTurn EXCEPT !.phase = "over", !.key = s, !.result = "error"] /\ c = NoRun
      PROVE  a \in TurnState /\ c \in ResumeRun /\ InOrder([turn |-> a, run |-> c])
  <2>1. a \in TurnState /\ c \in ResumeRun
    <3>1. a \in TurnState
      BY <1>3, <1>5 DEF TurnState, Status
    <3>2. c \in ResumeRun
      BY <1>3, <1>5 DEF ResumeRun
    <3> QED
      BY <3>1, <3>2
  <2>2. /\ a.sent = 0 /\ c.lines = 0 /\ c.pipe = 0 /\ c.buf = 0 /\ ~c.tail /\ c.pend = 0
        /\ ~c.cancelled /\ ~c.finished /\ c.close = "none"
        /\ \/ a.phase = "active" /\ a.key = s /\ a.result = "none" /\ c.child = "queued"
           \/ a.phase = "over" /\ a.result = "error" /\ c = NoRun
    <3>1. CASE a = [NoTurn EXCEPT !.phase = "active", !.key = s] /\ c = [NoRun EXCEPT !.child = "queued"]
      <4>1. a.sent = 0 /\ a.phase = "active" /\ a.key = s /\ a.result = "none"
        BY <3>1 DEF NoTurn
      <4>2. /\ c.lines = 0 /\ c.pipe = 0 /\ c.buf = 0 /\ ~c.tail /\ c.pend = 0
            /\ ~c.cancelled /\ ~c.finished /\ c.close = "none" /\ c.child = "queued"
        BY <3>1 DEF NoRun
      <4> QED
        BY <4>1, <4>2
    <3>2. CASE a = [NoTurn EXCEPT !.phase = "over", !.key = s, !.result = "error"] /\ c = NoRun
      <4>1. a.sent = 0 /\ a.phase = "over" /\ a.result = "error"
        BY <3>2 DEF NoTurn
      <4>2. /\ c.lines = 0 /\ c.pipe = 0 /\ c.buf = 0 /\ ~c.tail /\ c.pend = 0
            /\ ~c.cancelled /\ ~c.finished /\ c.close = "none"
        BY <3>2 DEF NoRun
      <4> QED
        BY <3>2, <4>1, <4>2
    <3> QED
      BY <1>5, <3>1, <3>2
  <2> DEFINE p == [turn |-> a, run |-> c]
  <2>3. p \in PairType /\ p.turn = a /\ p.run = c
    BY <2>1 DEF PairType
  <2> HIDE DEF p
  <2>4. RunMatchesTurn(p)
    BY <2>2, <2>3 DEF RunMatchesTurn, NoRun
  <2>5. EventsAccounted(p) /\ NothingHeld(p) /\ OkIsComplete(p)
    BY <1>2, <2>2, <2>3 DEF EventsAccounted, NothingHeld, OkIsComplete
  <2> QED
    BY <2>1, <2>3, <2>4, <2>5 DEF InOrder, p
<1> QED
  BY <1>3, <1>4, <1>5

LEMMA InitInOrder == Init => IInv
<1> SUFFICES ASSUME Init PROVE IInv
  OBVIOUS
<1>1. 0 \in 0 .. MaxEvents
  BY Products
<1>2. TypeOK
  BY <1>1, FreshInOrder DEF Init, TypeOK
<1>3. BusyMeansOneTurn
  BY DEF Init, BusyMeansOneTurn, Live, NoTurn
<1>4. \A t \in Turn : Pair(t) = [turn |-> NoTurn, run |-> NoRun]
  BY DEF Init, Pair
<1> QED
  BY <1>2, <1>3, <1>4, FreshInOrder DEF IInv, InOrder

LEMMA StartTurnOK ==
  ASSUME IInv, NEW t \in Turn, NEW s \in Session, StartTurn(t, s) \/ StartThrows(t, s)
  PROVE  IInv' /\ \A u \in Turn : Past(u)
<1>0. run[t] = NoRun /\ turn[t].phase = "idle" /\ run \in [Turn -> ResumeRun]
  BY PairInOrder DEF InOrder, RunMatchesTurn, StartTurn, StartThrows, IInv, TypeOK
<1>1. CASE StartTurn(t, s)
  <2> DEFINE a == [NoTurn EXCEPT !.phase = "active", !.key = s]
             c == [NoRun EXCEPT !.child = "queued"]
  <2>1. a.phase = "active" /\ a.key = s
    BY DEF NoTurn
  <2>2. a \in TurnState /\ c \in ResumeRun /\ InOrder([turn |-> a, run |-> c])
    BY FreshInOrder
  <2>3. /\ turn' = [turn EXCEPT ![t] = a] /\ run' = [run EXCEPT ![t] = c] /\ UNCHANGED <<conn, got>>
        /\ s \notin active /\ active' = active \cup {s}
    BY <1>1 DEF StartTurn, Busy
  <2> HIDE DEF a, c
  <2> QED
    BY <1>0, <2>1, <2>2, <2>3, NewTurnKeeps
<1>2. CASE StartThrows(t, s)
  <2> DEFINE a == [NoTurn EXCEPT !.phase = "over", !.key = s, !.result = "error"]
  <2>1. a.phase = "over"
    BY DEF NoTurn
  <2>2. a \in TurnState /\ NoRun \in ResumeRun /\ InOrder([turn |-> a, run |-> NoRun])
    BY FreshInOrder
  <2>3. /\ turn' = [turn EXCEPT ![t] = a] /\ run' = [run EXCEPT ![t] = NoRun]
        /\ UNCHANGED <<conn, got>> /\ active' = active
    BY <1>0, <1>2 DEF StartThrows
  <2> HIDE DEF a
  <2> QED
    BY <1>0, <2>1, <2>2, <2>3, NewTurnKeeps
<1> QED
  BY <1>1, <1>2

LEMMA CancelOK ==
  ASSUME IInv, NEW t \in Turn, HandleCancel(t)
  PROVE  IInv' /\ \A u \in Turn : Past(u)
BY PairInOrder, RunCancelOK, ApplyKeeps DEF HandleCancel

LEMMA AckOK ==
  ASSUME IInv, NEW t \in Turn, NEW n \in 1 .. MaxEvents, HandleAck(t, n)
  PROVE  IInv' /\ \A u \in Turn : Past(u)
<1> DEFINE p == Pair(t)
           d == [p EXCEPT !.turn.acked = IF n > @ THEN n ELSE @]
<1>1. InOrder(p) /\ p \in PairType /\ p.turn.phase = "active"
  BY PairInOrder DEF InOrder, HandleAck
<1> DEFINE m == IF n > p.turn.acked THEN n ELSE p.turn.acked
<1>2. m \in 0 .. MaxEvents
  BY <1>1, Fields, Products
<1>3. Apply(t, MaybeResume(d)) /\ d = [p EXCEPT !.turn.acked = m]
  BY DEF HandleAck
<1> HIDE DEF p, m
<1>4. d \in PairType
  BY <1>1, <1>2, <1>3 DEF PairType, TurnState
<1>5. /\ d.run = p.run /\ d.turn.phase = "active" /\ d.turn.key = p.turn.key
      /\ d.turn.result = p.turn.result /\ d.turn.sent = p.turn.sent
  BY <1>1, <1>3 DEF PairType, TurnState
<1> HIDE DEF d
<1>6. InOrder(d)
  BY <1>1, <1>4, <1>5 DEF InOrder, RunMatchesTurn, EventsAccounted, NothingHeld, OkIsComplete
<1>7. Steps(p, d)
  BY <1>1, <1>5 DEF Steps
<1>8. InOrder(MaybeResume(d)) /\ Steps(p, MaybeResume(d))
  BY <1>5, <1>6, <1>7, MaybeResumeOK, StepsCompose
<1> QED
  BY <1>3, <1>8, ApplyKeeps DEF p

LEMMA SpawnOK ==
  ASSUME IInv, NEW t \in Turn, Spawn(t)
  PROVE  IInv' /\ \A u \in Turn : Past(u)
<1> DEFINE p == Pair(t)
           d == [p EXCEPT !.run.child = "up"]
<1>1. /\ InOrder(p) /\ p \in PairType /\ p.run.child = "queued" /\ ~p.run.finished
      /\ RunMatchesTurn(p)
  BY PairInOrder DEF InOrder, Spawn
<1>2. Apply(t, d)
  BY DEF Spawn
<1> HIDE DEF p
<1>3. d \in PairType
  BY <1>1 DEF PairType, ResumeRun
<1>4. /\ d.turn = p.turn /\ d.run.child = "up"
      /\ \A f \in DOMAIN p.run \ {"child"} : d.run[f] = p.run[f]
  BY <1>1 DEF PairType, ResumeRun
<1>5. DOMAIN p.run = {"child", "lines", "pipe", "buf", "tail", "pend", "paused", "cancelled",
                      "finished", "close"}
  BY <1>1 DEF PairType, ResumeRun
<1> HIDE DEF d
<1>6. p.turn.phase = "active" /\ p.run.close = "none"
  BY <1>1 DEF RunMatchesTurn
<1>7. RunMatchesTurn(d) /\ OkIsComplete(d)
  BY <1>1, <1>4, <1>5, <1>6 DEF RunMatchesTurn, OkIsComplete
<1>8. EventsAccounted(d) /\ NothingHeld(d)
  BY <1>1, <1>4, <1>5 DEF InOrder, EventsAccounted, NothingHeld
<1>9. Steps(p, d)
  BY <1>4 DEF Steps
<1> QED
  BY <1>2, <1>3, <1>7, <1>8, <1>9, ApplyKeeps DEF InOrder, p

LEMMA SpawnFailsOK ==
  ASSUME IInv, NEW t \in Turn, SpawnFails(t)
  PROVE  IInv' /\ \A u \in Turn : Past(u)
<1> DEFINE p == Pair(t)
           d == [p EXCEPT !.run.child = "gone"]
           e == Emit(d, 1)
<1>1. /\ InOrder(p) /\ p \in PairType /\ p.run.child = "queued" /\ ~p.run.finished
      /\ RunMatchesTurn(p) /\ EventsAccounted(p) /\ NothingHeld(p) /\ OkIsComplete(p)
  BY PairInOrder DEF InOrder, SpawnFails
<1>2. Apply(t, Finish(e, "error"))
  BY DEF SpawnFails
<1> HIDE DEF p
<1>3. d \in PairType
  BY <1>1 DEF PairType, ResumeRun
<1>4. /\ d.turn = p.turn /\ d.run.child = "gone"
      /\ \A f \in DOMAIN p.run \ {"child"} : d.run[f] = p.run[f]
  BY <1>1 DEF PairType, ResumeRun
<1>5. DOMAIN p.run = {"child", "lines", "pipe", "buf", "tail", "pend", "paused", "cancelled",
                      "finished", "close"}
  BY <1>1 DEF PairType, ResumeRun
<1> HIDE DEF d
<1>6. p.turn.phase = "active" /\ p.run.close = "none" /\ p.turn.result = "none" /\ ~p.run.cancelled
  BY <1>1 DEF RunMatchesTurn
<1>7. d.turn.sent + d.run.pend + 1 <= MaxEvents /\ (~d.run.paused => d.run.pend = 0)
  BY <1>1, <1>4, <1>5, MadeBounded DEF NothingHeld
<1>8. /\ e \in PairType /\ Frame(d, e) /\ e.run.buf = d.run.buf /\ e.run.tail = d.run.tail
      /\ ~e.run.paused => e.run.pend = 0
      /\ e.turn.sent + e.run.pend = p.turn.sent + p.run.pend + 1
  BY <1>3, <1>4, <1>5, <1>6, <1>7, EmitOK
<1> HIDE DEF e
<1>9. /\ e.turn.key = p.turn.key /\ e.turn.phase = "active" /\ e.turn.result = "none"
      /\ e.run.child = "gone" /\ e.run.lines = p.run.lines /\ e.run.pipe = p.run.pipe
      /\ e.run.cancelled = p.run.cancelled /\ e.run.finished = p.run.finished
      /\ e.run.close = "none" /\ e.run.buf = p.run.buf /\ e.run.tail = p.run.tail
      /\ ~e.run.paused => ~p.run.paused
  <2>1. e.run.child = d.run.child /\ e.run.close = d.run.close /\ e.turn.phase = d.turn.phase
    BY <1>8 DEF Frame
  <2>2. ~e.run.paused => ~p.run.paused
    BY <1>4, <1>5, <1>6, <1>3 DEF Emit, e, PairType, ResumeRun
  <2> QED
    BY <1>4, <1>5, <1>6, <1>8, <2>1, <2>2 DEF Frame
<1>10. EventsAccounted(e)
  <2> DEFINE unread == p.run.pipe + p.run.buf
             X == unread * EventsPerLine
             L == p.run.lines * EventsPerLine
  <2>1. /\ unread \in Nat /\ p.run.lines \in Nat /\ p.turn.sent \in Nat /\ p.run.pend \in Nat
        /\ e.turn.sent \in Nat /\ e.run.pend \in Nat
    <3>1. /\ p.run.pipe \in 0 .. MaxLines /\ p.run.buf \in 0 .. MaxLines /\ p.run.lines \in 0 .. MaxLines
          /\ p.turn.sent \in 0 .. MaxEvents /\ p.run.pend \in 0 .. MaxEvents
      BY <1>1, Fields
    <3>2. e.turn.sent \in 0 .. MaxEvents /\ e.run.pend \in 0 .. MaxEvents
      BY <1>8, Fields
    <3>3. MaxLines \in Nat /\ MaxEvents \in Nat
      BY Products
    <3> QED
      BY <3>1, <3>2, <3>3
  <2>2. /\ ~p.run.tail /\ unread <= p.run.lines
        /\ p.turn.sent + p.run.pend + X <= L
        /\ L <= p.turn.sent + p.run.pend + X
    BY <1>1, <1>6 DEF EventsAccounted
  <2>3. /\ X \in Nat /\ L \in Nat /\ EventsPerLine \in Nat \ {0}
        /\ (unread + 0) * EventsPerLine = X + 0 * EventsPerLine
        /\ (p.run.lines + 1) * EventsPerLine = L + 1 * EventsPerLine
        /\ 0 * EventsPerLine = 0 /\ 1 * EventsPerLine = EventsPerLine
    BY <2>1, Products
  <2> HIDE DEF X, L, unread
  <2>4. /\ e.turn.sent + e.run.pend + (unread + 0) * EventsPerLine <= (p.run.lines + 1) * EventsPerLine
        /\ L <= e.turn.sent + e.run.pend + X
    BY <1>8, <2>1, <2>2, <2>3
  <2>5. e.run.pipe + e.run.buf = unread /\ e.run.lines * EventsPerLine = L
    BY <1>9 DEF unread, L
  <2> QED
    BY <1>9, <2>2, <2>4, <2>5 DEF EventsAccounted, X
<1>11. NothingHeld(e) /\ OkIsComplete(e)
  BY <1>1, <1>8, <1>9 DEF NothingHeld, OkIsComplete
<1>12. InOrder(Finish(e, "error")) /\ Steps(e, Finish(e, "error"))
  BY <1>1, <1>8, <1>9, <1>10, <1>11, FinishOK DEF Status
<1>13. Steps(p, e)
  BY <1>6, <1>9 DEF Steps
<1> QED
  BY <1>2, <1>12, <1>13, StepsCompose, ApplyKeeps DEF p

LEMMA PrintsOK ==
  ASSUME IInv, NEW t \in Turn, ChildPrints(t)
  PROVE  IInv' /\ \A u \in Turn : Past(u)
<1> DEFINE p == Pair(t)
           d == [p EXCEPT !.run.lines = @ + 1, !.run.pipe = @ + 1]
<1>1. /\ InOrder(p) /\ p \in PairType /\ p.run.child = "up" /\ p.run.lines < MaxLines
      /\ RunMatchesTurn(p) /\ EventsAccounted(p) /\ NothingHeld(p) /\ OkIsComplete(p)
  BY PairInOrder DEF InOrder, ChildPrints
<1>2. Apply(t, d)
  BY DEF ChildPrints
<1> HIDE DEF p
<1>3. /\ p.run.pipe \in Nat /\ p.run.buf \in Nat /\ p.run.lines \in Nat /\ MaxLines \in Nat
      /\ p.turn.sent \in Nat /\ p.run.pend \in Nat
  <2>1. /\ p.run.pipe \in 0 .. MaxLines /\ p.run.buf \in 0 .. MaxLines /\ p.run.lines \in 0 .. MaxLines
        /\ p.turn.sent \in 0 .. MaxEvents /\ p.run.pend \in 0 .. MaxEvents
    BY <1>1, Fields
  <2>2. MaxLines \in Nat /\ MaxEvents \in Nat
    BY Products
  <2> QED
    BY <2>1, <2>2
<1>4. p.run.pipe + p.run.buf <= p.run.lines
  BY <1>1 DEF EventsAccounted
<1>5. p.run.lines + 1 \in 0 .. MaxLines /\ p.run.pipe + 1 \in 0 .. MaxLines
  BY <1>1, <1>3, <1>4
<1>6. d \in PairType
  BY <1>1, <1>5 DEF PairType, ResumeRun
<1>7. /\ d.turn = p.turn /\ d.run.lines = p.run.lines + 1 /\ d.run.pipe = p.run.pipe + 1
      /\ d.run.child = p.run.child /\ d.run.buf = p.run.buf /\ d.run.tail = p.run.tail
      /\ d.run.pend = p.run.pend /\ d.run.paused = p.run.paused
      /\ d.run.cancelled = p.run.cancelled /\ d.run.finished = p.run.finished
      /\ d.run.close = p.run.close
  BY <1>1 DEF PairType, ResumeRun
<1> HIDE DEF d
<1>8. p.run.close = "none" /\ p.turn.phase # "idle" /\ p.turn.result # "ok"
  BY <1>1 DEF RunMatchesTurn, OkIsComplete, NoRun
<1>9. RunMatchesTurn(d) /\ OkIsComplete(d) /\ NothingHeld(d)
  BY <1>1, <1>7, <1>8 DEF RunMatchesTurn, OkIsComplete, NothingHeld
<1>10. EventsAccounted(d)
  <2> DEFINE unread == p.run.pipe + p.run.buf
             X == unread * EventsPerLine
             L == p.run.lines * EventsPerLine
  <2>1. /\ unread \in Nat /\ ~p.run.tail /\ unread <= p.run.lines
        /\ p.turn.sent + p.run.pend + X <= L
        /\ p.turn.phase = "active" => L <= p.turn.sent + p.run.pend + X
    BY <1>1, <1>3 DEF EventsAccounted
  <2>2. /\ X \in Nat /\ L \in Nat /\ EventsPerLine \in Nat \ {0}
        /\ (unread + 1) * EventsPerLine = X + 1 * EventsPerLine
        /\ (p.run.lines + 1) * EventsPerLine = L + 1 * EventsPerLine
        /\ 1 * EventsPerLine = EventsPerLine
    BY <1>3, <2>1, Products
  <2>3. /\ (unread + 1 + 0) * EventsPerLine = (unread + 1) * EventsPerLine
        /\ (p.run.lines + 1 + 1) * EventsPerLine = (p.run.lines + 1) * EventsPerLine + 1 * EventsPerLine
    <3>1. unread + 1 \in Nat /\ unread + 1 + 0 = unread + 1 /\ p.run.lines + 1 \in Nat
      BY <1>3, <2>1
    <3> QED
      BY <3>1, Products
  <2>4. d.run.pipe + d.run.buf = unread + 1
    BY <1>3, <1>7
  <2> HIDE DEF X, L, unread
  <2>5. /\ p.turn.sent + p.run.pend + (unread + 1) * EventsPerLine <= (p.run.lines + 1) * EventsPerLine
        /\ p.turn.sent + p.run.pend + (unread + 1 + 0) * EventsPerLine <= (p.run.lines + 1 + 1) * EventsPerLine
        /\ p.turn.phase = "active" =>
             (p.run.lines + 1) * EventsPerLine <= p.turn.sent + p.run.pend + (unread + 1) * EventsPerLine
        /\ unread + 1 <= p.run.lines + 1
    BY <1>3, <2>1, <2>2, <2>3
  <2> QED
    BY <1>1, <1>7, <2>1, <2>4, <2>5 DEF EventsAccounted
<1>11. Steps(p, d)
  BY <1>7 DEF Steps
<1> QED
  BY <1>2, <1>6, <1>9, <1>10, <1>11, ApplyKeeps DEF InOrder, p

LEMMA ReadOK ==
  ASSUME IInv, NEW t \in Turn, NEW n \in 1 .. MaxLines, ReadChunk(t, n)
  PROVE  IInv' /\ \A u \in Turn : Past(u)
<1> DEFINE p == Pair(t)
           d == [p EXCEPT !.run.pipe = @ - n, !.run.buf = @ + n]
           q == Drain(d, FALSE)
<1>1. /\ InOrder(p) /\ p \in PairType /\ p.run.child = "up" /\ ~p.run.paused /\ n <= p.run.pipe
      /\ RunMatchesTurn(p) /\ EventsAccounted(p) /\ NothingHeld(p) /\ OkIsComplete(p)
  BY PairInOrder DEF InOrder, ReadChunk
<1>2. Apply(t, q)
  BY DEF ReadChunk
<1> HIDE DEF p
<1>3. /\ p.run.pipe \in Nat /\ p.run.buf \in Nat /\ p.run.lines \in 0 .. MaxLines /\ MaxLines \in Nat
      /\ n \in Nat
  <2>1. p.run.pipe \in 0 .. MaxLines /\ p.run.buf \in 0 .. MaxLines /\ p.run.lines \in 0 .. MaxLines
    BY <1>1, Fields
  <2>2. MaxLines \in Nat
    BY Products
  <2> QED
    BY <2>1, <2>2
<1>4. p.run.pipe + p.run.buf <= p.run.lines
  BY <1>1 DEF EventsAccounted
<1>5. p.run.pipe - n \in 0 .. MaxLines /\ p.run.buf + n \in 0 .. MaxLines
  BY <1>1, <1>3, <1>4
<1>6. d \in PairType
  BY <1>1, <1>5 DEF PairType, ResumeRun
<1>7. /\ d.turn = p.turn /\ d.run.pipe = p.run.pipe - n /\ d.run.buf = p.run.buf + n
      /\ d.run.lines = p.run.lines
      /\ d.run.child = p.run.child /\ d.run.tail = p.run.tail
      /\ d.run.pend = p.run.pend /\ d.run.paused = p.run.paused
      /\ d.run.cancelled = p.run.cancelled /\ d.run.finished = p.run.finished
      /\ d.run.close = p.run.close
  BY <1>1 DEF PairType, ResumeRun
<1> HIDE DEF d, q
<1>8. p.run.close = "none" /\ p.turn.phase # "idle"
  BY <1>1 DEF RunMatchesTurn, NoRun
<1>9. RunMatchesTurn(d) /\ OkIsComplete(d)
  BY <1>1, <1>7, <1>8 DEF RunMatchesTurn, OkIsComplete
<1>10. EventsAccounted(d)
  <2>1. d.run.pipe + d.run.buf = p.run.pipe + p.run.buf
    BY <1>3, <1>7
  <2> QED
    BY <1>1, <1>7, <2>1 DEF EventsAccounted
<1>11. ~d.run.paused => d.run.pend = 0
  BY <1>1, <1>7 DEF NothingHeld
<1>12. q \in PairType /\ Frame(d, q) /\ EventsAccounted(q) /\ NothingHeld(q)
  BY <1>6, <1>10, <1>11, DrainOK DEF q
<1>13. RunMatchesTurn(q) /\ OkIsComplete(q) /\ Steps(d, q)
  BY <1>1, <1>6, <1>7, <1>8, <1>9, <1>12, FrameKeeps
<1>14. Steps(p, d)
  BY <1>7 DEF Steps
<1> QED
  BY <1>2, <1>12, <1>13, <1>14, StepsCompose, ApplyKeeps DEF InOrder, p

LEMMA ClosesOK ==
  ASSUME IInv, NEW t \in Turn, NEW s \in {"ok", "error", "cancelled"}, NEW tail \in BOOLEAN,
         ChildCloses(t, s, tail)
  PROVE  IInv' /\ \A u \in Turn : Past(u)
<1> DEFINE p == Pair(t)
           d == [p EXCEPT !.run.child = "gone", !.run.close = s, !.run.buf = @ + run[t].pipe,
                          !.run.pipe = 0, !.run.tail = tail]
<1>1. /\ InOrder(p) /\ p \in PairType /\ p.run.child = "up" /\ p.run = run[t]
      /\ p.run.paused \/ p.run.pipe = 0
      /\ p.run.cancelled => s = "cancelled"
      /\ RunMatchesTurn(p) /\ EventsAccounted(p) /\ NothingHeld(p) /\ OkIsComplete(p)
  BY PairInOrder DEF InOrder, ChildCloses
<1>2. Apply(t, MaybeFinishClosed(d)) /\ d = [p EXCEPT !.run.child = "gone", !.run.close = s,
                                      !.run.buf = @ + p.run.pipe, !.run.pipe = 0, !.run.tail = tail]
  BY <1>1 DEF ChildCloses
<1> HIDE DEF p, d
<1>3. /\ p.run.pipe \in Nat /\ p.run.buf \in Nat /\ p.run.lines \in 0 .. MaxLines /\ MaxLines \in Nat
      /\ p.turn.sent \in Nat /\ p.run.pend \in Nat
  <2>1. /\ p.run.pipe \in 0 .. MaxLines /\ p.run.buf \in 0 .. MaxLines /\ p.run.lines \in 0 .. MaxLines
        /\ p.turn.sent \in 0 .. MaxEvents /\ p.run.pend \in 0 .. MaxEvents
    BY <1>1, Fields
  <2>2. MaxLines \in Nat /\ MaxEvents \in Nat
    BY Products
  <2> QED
    BY <2>1, <2>2
<1>4. p.run.pipe + p.run.buf <= p.run.lines
  BY <1>1 DEF EventsAccounted
<1>5. p.run.buf + p.run.pipe \in 0 .. MaxLines /\ 0 \in 0 .. MaxLines
  BY <1>3, <1>4
<1>6. d \in PairType
  <2> DEFINE c == [p.run EXCEPT !.child = "gone", !.close = s, !.buf = @ + p.run.pipe, !.pipe = 0,
                                !.tail = tail]
  <2>1. p.run \in ResumeRun /\ p.turn \in TurnState /\ s \in Status
    BY <1>1, Fields DEF Status
  <2>2. c \in ResumeRun
    BY <1>5, <2>1 DEF ResumeRun
  <2>3. d = [p EXCEPT !.run = c]
    BY <1>1, <1>2
  <2> HIDE DEF c
  <2> QED
    BY <1>1, <2>2, <2>3 DEF PairType
<1>7. /\ d.turn = p.turn /\ d.run.child = "gone" /\ d.run.close = s
      /\ d.run.buf = p.run.buf + p.run.pipe /\ d.run.pipe = 0 /\ d.run.tail = tail
      /\ d.run.lines = p.run.lines /\ d.run.pend = p.run.pend /\ d.run.paused = p.run.paused
      /\ d.run.cancelled = p.run.cancelled /\ d.run.finished = p.run.finished
  BY <1>1, <1>2 DEF PairType, ResumeRun
<1>8. p.turn.phase # "idle" /\ p.turn.result # "ok"
  BY <1>1 DEF RunMatchesTurn, OkIsComplete, NoRun
<1>9. RunMatchesTurn(d) /\ OkIsComplete(d)
  BY <1>1, <1>7, <1>8 DEF RunMatchesTurn, OkIsComplete
<1>10. NothingHeld(d)
  BY <1>1, <1>3, <1>7 DEF NothingHeld
<1>11. EventsAccounted(d)
  <2> DEFINE unread == p.run.pipe + p.run.buf
             X == unread * EventsPerLine
             L == p.run.lines * EventsPerLine
             rest == IF tail THEN 1 ELSE 0
  <2>1. /\ unread \in Nat /\ unread <= p.run.lines
        /\ p.turn.sent + p.run.pend + X <= L
        /\ p.turn.phase = "active" => L <= p.turn.sent + p.run.pend + X
    BY <1>1, <1>3 DEF EventsAccounted
  <2>2. rest \in {0, 1}
    OBVIOUS
  <2>3. d.run.pipe + d.run.buf = unread
    BY <1>3, <1>7
  <2> HIDE DEF unread, rest
  <2>4. /\ X \in Nat /\ L \in Nat /\ EventsPerLine \in Nat \ {0}
        /\ (unread + rest) * EventsPerLine = X + rest * EventsPerLine
        /\ (p.run.lines + 1) * EventsPerLine = L + 1 * EventsPerLine
        /\ 0 * EventsPerLine = 0 /\ 1 * EventsPerLine = EventsPerLine
    BY <1>3, <2>1, <2>2, Products
  <2>5. rest * EventsPerLine = 0 \/ rest * EventsPerLine = EventsPerLine
    BY <2>2, <2>4
  <2> HIDE DEF X, L
  <2>6. p.turn.sent + p.run.pend + (unread + rest) * EventsPerLine <= (p.run.lines + 1) * EventsPerLine
    BY <1>3, <2>1, <2>4, <2>5
  <2> QED
    BY <1>7, <2>1, <2>3, <2>6 DEF EventsAccounted, X, L, rest
<1>12. InOrder(MaybeFinishClosed(d)) /\ Steps(d, MaybeFinishClosed(d))
  BY <1>1, <1>6, <1>7, <1>8, <1>9, <1>10, <1>11, MaybeFinishClosedOK DEF InOrder
<1>13. Steps(p, d)
  BY <1>7 DEF Steps
<1> QED
  BY <1>2, <1>12, <1>13, StepsCompose, ApplyKeeps DEF p

LEMMA EndedInOrder ==
  ASSUME NEW p, InOrder(p), p.turn.phase = "active", NEW s \in {"error", "cancelled"}
  PROVE  /\ InOrder(Finalize(RunCancel(p), s)) /\ Steps(p, Finalize(RunCancel(p), s))
         /\ Finalize(RunCancel(p), s).turn.phase = "over"
<1> DEFINE c == RunCancel(p)
<1>1. InOrder(c) /\ Steps(p, c) /\ c.turn.phase # "idle" /\ c.run.cancelled
  BY RunCancelOK
<1> HIDE DEF c
<1>2. InOrder(Finalize(c, s)) /\ Steps(c, Finalize(c, s))
  BY <1>1, FinalizeOK DEF Status
<1>3. Finalize(c, s).turn.phase = "over"
  BY <1>1, Fields DEF Finalize, InOrder, PairType, TurnState
<1> QED
  BY <1>1, <1>2, <1>3, StepsCompose DEF c

LEMMA TimesOutOK ==
  ASSUME IInv, NEW t \in Turn, TurnTimesOut(t)
  PROVE  IInv' /\ \A u \in Turn : Past(u)
BY PairInOrder, EndedInOrder, ApplyKeeps DEF TurnTimesOut

\* cancelActiveTurns: every turn in progress at once.
LEMMA DisconnectOK ==
  ASSUME IInv, Disconnect
  PROVE  IInv' /\ \A u \in Turn : Past(u)
<1> DEFINE ended(t) == Finalize(RunCancel(Pair(t)), "cancelled")
           a(t) == IF turn[t].phase = "active" THEN ended(t).turn ELSE turn[t]
           c(t) == IF turn[t].phase = "active" THEN ended(t).run ELSE run[t]
<1>1. /\ turn' = [t \in Turn |-> a(t)] /\ run' = [t \in Turn |-> c(t)]
      /\ active' = active \ {turn[t].key : t \in {u \in Turn : turn[u].phase = "active"}}
      /\ got' = got /\ conn' = "down"
  BY DEF Disconnect, CancelActiveTurns
<1>2. ASSUME NEW t \in Turn
      PROVE  /\ InOrder([turn |-> a(t), run |-> c(t)]) /\ a(t).phase # "active"
             /\ turn[t].phase = "over" => a(t) = turn[t]
  <2>1. CASE turn[t].phase = "active"
    <3>1. InOrder(ended(t)) /\ ended(t).turn.phase = "over"
      BY <2>1, PairInOrder, EndedInOrder
    <3>2. a(t) = ended(t).turn /\ c(t) = ended(t).run
      BY <2>1
    <3> HIDE DEF ended, a, c
    <3>3. [turn |-> a(t), run |-> c(t)] = ended(t)
      BY <3>1, <3>2 DEF InOrder, PairType
    <3> QED
      BY <2>1, <3>1, <3>2, <3>3
  <2>2. CASE turn[t].phase # "active"
    <3>1. a(t) = turn[t] /\ c(t) = run[t]
      BY <2>2
    <3> HIDE DEF ended, a, c
    <3> QED
      BY <2>2, <3>1, PairInOrder DEF Pair
  <2> QED
    BY <2>1, <2>2
<1> HIDE DEF ended, a, c
<1>3. \A t \in Turn : turn'[t] = a(t) /\ run'[t] = c(t)
  BY <1>1
<1>4. \A t \in Turn : /\ InOrder([turn |-> turn'[t], run |-> run'[t]]) /\ turn'[t].phase # "active"
                      /\ turn[t].phase = "over" => turn'[t] = turn[t]
  BY <1>2, <1>3
<1>5. \A t \in Turn : a(t) \in TurnState /\ c(t) \in ResumeRun
  <2> SUFFICES ASSUME NEW t \in Turn PROVE a(t) \in TurnState /\ c(t) \in ResumeRun
    OBVIOUS
  <2>1. [turn |-> a(t), run |-> c(t)] \in PairType
    BY <1>2 DEF InOrder
  <2> QED
    BY <2>1 DEF PairType
<1>6. TypeOK'
  BY <1>1, <1>5 DEF IInv, TypeOK
<1>7. BusyMeansOneTurn'
  <2>1. active' = {}
    BY <1>1 DEF IInv, BusyMeansOneTurn, Live
  <2> QED
    BY <1>4, <2>1 DEF BusyMeansOneTurn, Live
<1>8. \A u \in Turn : Past(u)
  BY <1>1, <1>4 DEF Past
<1> QED
  BY <1>4, <1>6, <1>7, <1>8 DEF IInv, InOrder, Pair

LEMMA LinkOK ==
  ASSUME IInv, LinkBreaks \/ Reconnect \/ UNCHANGED vars
  PROVE  IInv' /\ \A u \in Turn : Past(u)
<1>1. /\ turn' = turn /\ run' = run /\ active' = active /\ got' = got
      /\ conn' \in {"up", "broken", "down"}
  BY DEF LinkBreaks, Reconnect, vars, IInv, TypeOK
<1> QED
  BY <1>1 DEF IInv, TypeOK, BusyMeansOneTurn, Live, RunMatchesTurn, EventsAccounted, NothingHeld,
              OkIsComplete, Pair, Past

LEMMA StepInOrder == IInv /\ [Next]_vars => IInv' /\ \A u \in Turn : Past(u)
<1> SUFFICES ASSUME IInv, [Next]_vars PROVE IInv' /\ \A u \in Turn : Past(u)
  OBVIOUS
<1>1. CASE \E t \in Turn, s \in Session : StartTurn(t, s) \/ StartThrows(t, s)
  BY <1>1, StartTurnOK
<1>2. CASE \E t \in Turn : HandleCancel(t)
  BY <1>2, CancelOK
<1>3. CASE \E t \in Turn, n \in 1 .. MaxEvents : HandleAck(t, n)
  BY <1>3, AckOK
<1>4. CASE \E t \in Turn : Spawn(t)
  BY <1>4, SpawnOK
<1>5. CASE \E t \in Turn : SpawnFails(t)
  BY <1>5, SpawnFailsOK
<1>6. CASE \E t \in Turn : ChildPrints(t)
  BY <1>6, PrintsOK
<1>7. CASE \E t \in Turn, n \in 1 .. MaxLines : ReadChunk(t, n)
  BY <1>7, ReadOK
<1>8. CASE \E t \in Turn, s \in {"ok", "error", "cancelled"}, tail \in BOOLEAN : ChildCloses(t, s, tail)
  BY <1>8, ClosesOK
<1>9. CASE \E t \in Turn : TurnTimesOut(t)
  BY <1>9, TimesOutOK
<1>10. CASE Disconnect
  BY <1>10, DisconnectOK
<1>11. CASE LinkBreaks \/ Reconnect \/ UNCHANGED vars
  BY <1>11, LinkOK
<1> QED
  BY <1>1, <1>2, <1>3, <1>4, <1>5, <1>6, <1>7, <1>8, <1>9, <1>10, <1>11 DEF Next

-----------------------------------------------------------------------------
(* The theorems.                                                           *)

\* Every state is of its type and in order: resume-manager's busy set is its turns in
\* progress, and behind each of them no event is lost.
THEOREM SessionTurnsInvariance == Spec => []IInv
<1>1. Init => IInv
  BY InitInOrder
<1>2. IInv /\ [Next]_vars => IInv'
  BY StepInOrder
<1> QED
  BY <1>1, <1>2, PTL DEF Spec

\* A session key is busy exactly while one turn on it is in progress, however cancel,
\* timeout, close, ack and disconnect race.
THEOREM OneTurnPerSession == Spec => []BusyMeansOneTurn
<1>1. IInv => BusyMeansOneTurn
  BY DEF IInv
<1> QED
  BY <1>1, SessionTurnsInvariance, PTL

\* A turn that ends "ok" has sent the events of every line its child printed, through
\* any number of pauses.
THEOREM OkIsAllLines == Spec => []OkMeansAllLines
<1>1. IInv => OkMeansAllLines
  <2> SUFFICES ASSUME IInv, NEW t \in Turn, turn[t].result = "ok"
               PROVE  turn[t].sent >= run[t].lines * EventsPerLine
    BY DEF OkMeansAllLines
  <2>1. Pair(t) \in PairType /\ Pair(t).turn = turn[t] /\ Pair(t).run = run[t] /\ OkIsComplete(Pair(t))
    BY PairInOrder DEF InOrder
  <2>2. run[t].lines * EventsPerLine <= turn[t].sent
    BY <2>1 DEF OkIsComplete
  <2> QED
    BY <2>2
<1> QED
  BY <1>1, SessionTurnsInvariance, PTL

\* Two children are up on one session only while one of them is being killed.
THEOREM OneWriterPerSession == Spec => []SecondWriterOnlyAfterKill
<1>1. IInv => SecondWriterOnlyAfterKill
  <2> SUFFICES ASSUME IInv, NEW t \in Turn, NEW u \in Turn, t # u, turn[t].key = turn[u].key,
                      run[t].child = "up", run[u].child = "up", ~run[t].cancelled, ~run[u].cancelled
               PROVE  FALSE
    BY DEF SecondWriterOnlyAfterKill
  <2>1. turn[t].phase = "active" /\ turn[u].phase = "active"
    BY PairInOrder DEF InOrder, RunMatchesTurn
  <2> QED
    BY <2>1 DEF IInv, BusyMeansOneTurn, Live
<1> QED
  BY <1>1, SessionTurnsInvariance, PTL

\* A turn that is over keeps its result, and the relay gets nothing more of it.
THEOREM ResultsAreFinal == Spec => OverIsFinal
<1>1. IInv /\ [Next]_vars => \A t \in Turn : turn[t].phase = "over" => turn'[t] = turn[t] /\ got'[t] = got[t]
  BY StepInOrder DEF Past
<1> QED
  BY <1>1, SessionTurnsInvariance, PTL DEF Spec, OverIsFinal
=============================================================================
