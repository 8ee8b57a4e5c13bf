--------------------------- MODULE PidfileProofs ---------------------------
(***************************************************************************)
(* Pidfile for every set of command-line processes: while no removal has   *)
(* hit a wrong file, the pidfile is a lock on starting a daemon, and no    *)
(* daemon is left running that `stop` does not know of.                    *)
(***************************************************************************)
EXTENDS Pidfile, TLAPS

-----------------------------------------------------------------------------
(* Types.                                                                  *)

LEMMA FilesTyped ==
  ASSUME NEW p \in Pid
  PROVE  /\ NoFile \in File /\ Empty(p) \in File /\ Claim(p) \in File
         /\ Record(p) \in File /\ Legacy(p) \in File
BY DEF NoFile, Empty, Claim, Record, Legacy, File

LEMMA NewCliTyped == NewCli \in CliState
BY FilesTyped DEF NewCli, CliState, Step, Result, NoFile, File, Pid

\* The state a command goes on in after its result.
LEMMA EndedTyped ==
  ASSUME TypeOK, NEW c \in Cli, NEW r \in Result
  PROVE  Ended(c, r) \in CliState
BY ZenonT(60), NewCliTyped DEF Ended, TypeOK, CliState, Step, Result, NewCli, Pid, NoFile

LEMMA OnwardTyped ==
  ASSUME TypeOK, NEW c \in Cli, NEW w \in {"open", "killchild"} \cup Result
  PROVE  Onward(c, w) \in CliState
BY EndedTyped DEF Onward, TypeOK, CliState, Step

LEMMA JudgedTyped ==
  ASSUME TypeOK, NEW c \in Cli, NEW i \in InspectPidfile(cli[c].seen)
  PROVE  /\ JudgeStart(c, i) \in CliState
         /\ JudgeStatus(c, i) \in CliState
         /\ JudgeStop(c, i) \in CliState
<1>0. cli[c] \in CliState
  BY DEF TypeOK
<1>1. ASSUME NEW w \in {"open", "killchild"} \cup Result
      PROVE  RemoveIfUnchanged(c, w) \in CliState
  BY OnwardTyped, <1>0 DEF RemoveIfUnchanged, CliState, Step
<1>2. ASSUME NEW p \in Pid \cup {NoOne}, NEW w \in {"open", "killchild"} \cup Result
      PROVE  RemoveIfHoldsPid(c, p, w) \in CliState
  BY <1>0 DEF RemoveIfHoldsPid, CliState, Step
<1>3. cli[c].seen.who \in Pid \cup {NoOne}
  BY DEF TypeOK, CliState, File
<1>4. JudgeStart(c, i) \in CliState
  <2>1. RemoveIfUnchanged(c, "open") \in CliState /\ Ended(c, "refused") \in CliState
    BY <1>1, EndedTyped DEF Result
  <2> QED
    BY <2>1 DEF JudgeStart, CliState
<1>5. JudgeStatus(c, i) \in CliState
  BY <1>1, EndedTyped DEF JudgeStatus, Result
<1>6. JudgeStop(c, i) \in CliState
  <2>1. /\ RemoveIfUnchanged(c, "notrunning") \in CliState
        /\ RemoveIfHoldsPid(c, cli[c].seen.who, "notrunning") \in CliState
        /\ Ended(c, "refused") \in CliState /\ Ended(c, "notrunning") \in CliState
    BY <1>1, <1>2, <1>3, EndedTyped DEF Result
  <2>2. [cli[c] EXCEPT !.pc = "kill", !.pid = cli[c].seen.who] \in CliState
    BY <1>0, <1>3 DEF CliState, Step
  <2> QED
    BY <2>1, <2>2 DEF JudgeStop
<1> QED
  BY <1>4, <1>5, <1>6

LEMMA TypeStep == TypeOK /\ [Next]_vars => TypeOK'
<1> SUFFICES ASSUME TypeOK, Next PROVE TypeOK'
  BY DEF TypeOK, vars
<1>0. ASSUME NEW c \in Cli, NEW s \in CliState, Goto(c, s), file' \in File,
             proc' \in [Pid -> {"none", "up", "dead", "stranger"}],
             signalled' \subseteq Pid, clobbered' \in BOOLEAN
      PROVE  TypeOK'
  BY <1>0 DEF Goto, TypeOK
<1>1. ASSUME NEW c \in Cli, NEW cmd \in {"start", "stop", "status", "restart"}, NEW force \in BOOLEAN,
             Invoke(c, cmd, force)
      PROVE  TypeOK'
  <2>1. [NewCli EXCEPT !.cmd = cmd, !.force = force,
                       !.pc = IF cmd = "start" THEN "open" ELSE "stat"] \in CliState
    BY ZenonT(60), NewCliTyped DEF CliState, Step
  <2> QED
    BY <1>0, <1>1, <2>1 DEF Invoke, TypeOK
<1>2. ASSUME NEW c \in Cli, Inspects(c)
      PROVE  TypeOK'
  <2>1. cli[c].next \in {"open", "killchild"} \cup Result /\ cli[c] \in CliState /\ NoFile \in File
    BY DEF TypeOK, CliState, NoFile, File
  <2>2. CASE StatPidfile(c)
    <3>1. /\ [cli[c] EXCEPT !.fp = file, !.pc = "read"] \in CliState
          /\ [cli[c] EXCEPT !.seen = NoFile, !.pc = "judge"] \in CliState
          /\ Onward(c, cli[c].next) \in CliState
      BY <2>1, OnwardTyped DEF TypeOK, CliState, Step
    <3> QED
      BY <1>0, <2>2, <3>1 DEF StatPidfile, TypeOK
  <2>3. CASE ReadPidfile(c)
    <3>1. /\ [cli[c] EXCEPT !.seen = file, !.pc = "judge"] \in CliState
          /\ [cli[c] EXCEPT !.seen = file, !.pc = "compare"] \in CliState
          /\ Onward(c, cli[c].next) \in CliState
      BY <2>1, OnwardTyped DEF TypeOK, CliState, Step
    <3> QED
      BY <1>0, <2>3, <3>1 DEF ReadPidfile, TypeOK
  <2>4. CASE Compare(c)
    BY <1>0, <2>1, <2>4, OnwardTyped DEF Compare, TypeOK, CliState, Step
  <2>5. CASE Unlink(c)
    BY <1>0, <2>1, <2>5, OnwardTyped DEF Unlink, Remove, TypeOK
  <2>6. CASE Judge(c)
    BY <1>0, <2>6, JudgedTyped DEF Judge, TypeOK
  <2> QED
    BY <1>2, <2>2, <2>3, <2>4, <2>5, <2>6 DEF Inspects
<1>3. ASSUME NEW c \in Cli, Start(c)
      PROVE  TypeOK'
  <2>1. c \in Pid /\ cli[c] \in CliState /\ "failed" \in Result /\ "started" \in Result /\ NoFile \in File
    BY DEF TypeOK, Pid, Result, NoFile, File
  <2>2. CASE Open(c)
    BY <1>0, <2>1, <2>2, FilesTyped DEF Open, TypeOK, CliState, Step
  <2>3. CASE WriteClaim(c)
    <3>1. [cli[c] EXCEPT !.pc = "spawn"] \in CliState /\ Ended(c, "failed") \in CliState
      BY <2>1, EndedTyped DEF CliState, Step
    <3> QED
      BY <1>0, <2>1, <2>3, <3>1, FilesTyped DEF WriteClaim, Remove, TypeOK
  <2>4. CASE Spawn(c)
    BY <1>0, <2>1, <2>4 DEF Spawn, TypeOK, CliState, Step
  <2>5. CASE WriteRecordAtomic(c)
    BY <1>0, <2>1, <2>5, FilesTyped DEF WriteRecordAtomic, TypeOK, CliState, Step
  <2>6. CASE DropClaim(c)
    BY <1>0, <2>1, <2>6, EndedTyped DEF DropClaim, Remove, TypeOK
  <2>7. CASE Poll(c) \/ ReadyAgain(c)
    BY <1>0, <2>1, <2>7 DEF Poll, ReadyAgain, TypeOK, CliState, Step
  <2>8. CASE ReadyEnds(c)
    <3>1. RemoveIfHoldsPid(c, c, "killchild") \in CliState
      BY <2>1 DEF RemoveIfHoldsPid, CliState, Step
    <3>2. [cli[c] EXCEPT !.pc = "killchild"] \in CliState
      BY <2>1 DEF CliState, Step
    <3> QED
      BY <1>0, <2>1, <2>8, <3>1, <3>2, EndedTyped DEF ReadyEnds, TypeOK
  <2>9. CASE KillStartedChild(c)
    BY <1>0, <2>1, <2>9, EndedTyped DEF KillStartedChild, TypeOK
  <2> QED
    BY <1>3, <2>2, <2>3, <2>4, <2>5, <2>6, <2>7, <2>8, <2>9 DEF Start
<1>4. ASSUME NEW c \in Cli, Stop(c)
      PROVE  TypeOK'
  <2>1. cli[c] \in CliState /\ "gaveup" \in Result
    BY DEF TypeOK, Result
  <2>2. CASE Kill(c)
    <3>1. [cli[c] EXCEPT !.pc = "wait"] \in CliState /\ Ended(c, "gaveup") \in CliState
      BY <2>1, EndedTyped DEF CliState, Step
    <3> QED
      BY <1>0, <2>2, <3>1 DEF Kill, TypeOK
  <2>3. CASE WaitExited(c)
    <3>1. RemoveIfHoldsPid(c, cli[c].pid, "stopped") \in CliState
      BY <2>1 DEF RemoveIfHoldsPid, CliState, Step, Result
    <3> QED
      BY <1>0, <2>3, <3>1 DEF WaitExited, TypeOK
  <2>4. CASE WaitTimesOut(c)
    <3>1. [cli[c] EXCEPT !.pc = "lastwait"] \in CliState /\ Ended(c, "gaveup") \in CliState
      BY <2>1, EndedTyped DEF CliState, Step
    <3> QED
      BY <1>0, <2>4, <3>1 DEF WaitTimesOut, TypeOK
  <2> QED
    BY <1>4, <2>2, <2>3, <2>4 DEF Stop
<1>5. ASSUME NEW c \in Cli, CliDies(c)
      PROVE  TypeOK'
  <2>1. [NewCli EXCEPT !.pc = "died", !.cmd = cli[c].cmd,
                       !.pid = IF At(c, "rename") THEN c ELSE NoOne] \in CliState
    BY ZenonT(60), NewCliTyped DEF TypeOK, CliState, Result, Pid
  <2> QED
    BY <1>0, <1>5, <2>1 DEF CliDies, TypeOK
<1>6. ASSUME NEW p \in Pid, ProcessExits(p)
      PROVE  TypeOK'
  BY <1>6 DEF ProcessExits, TypeOK
<1> QED
  BY <1>1, <1>2, <1>3, <1>4, <1>5, <1>6 DEF Next

-----------------------------------------------------------------------------
(* Steps that touch neither the pidfile nor a process.                     *)

\* What such a step of CLI c into state s must respect: it learns only what is in
\* the file, claims nothing, and sets out to remove only what is spent.
Moves(c, s) ==
  /\ s \in CliState /\ cli[c].pc \notin Result
  /\ s.fp \in {cli[c].fp, file, NoFile} /\ s.seen \in {cli[c].seen, file, NoFile}
  /\ s.pc \notin {"idle", "write", "spawn", "rename"}
  /\ BeforeClaim(s) => BeforeClaim(cli[c])
  /\ \A e \in Cli : \A f \in {Claim(e), Record(e)} : s.fp = f /\ file = f =>
       /\ s.pc = "judge" => s.seen = f
       /\ s.pc \in {"compare", "unlink"} => Spent(f)
  /\ s.pc \in {"stat", "read"} =>
       /\ \A e \in Cli : s.then = "compare" /\ s.pid = e => proc[e] # "up"
       /\ s.next = "killchild" => s.then = "compare"
  /\ s.pc \in {"open", "judge"} => s.next # "killchild"
  /\ \A e \in Cli : s.pid = e => proc[e] # "none"
  /\ At(c, "rename") => c \in signalled' \/ (s.pc = "died" /\ s.pid = c)

Parts ==
  /\ FilesInOrder /\ NamedIsSpawned /\ ClaimMatchesStep
  /\ SnapshotJudged /\ RemovalOfDead /\ DaemonIsPublished

LEMMA MovesKeep ==
  ASSUME TypeOK, Parts, NEW c \in Cli, NEW s, Goto(c, s), Moves(c, s),
         UNCHANGED <<file, proc>>, signalled \subseteq signalled'
  PROVE  Parts'
<1> USE DEF Parts
<1>1. /\ cli' = [cli EXCEPT ![c] = s] /\ s \in CliState /\ cli \in [Cli -> CliState]
      /\ file' = file /\ proc' = proc
  BY DEF Goto, Moves, TypeOK
<1>2. cli'[c] = s /\ \A e \in Cli : e # c => cli'[e] = cli[e]
  BY <1>1
<1>3. ASSUME NEW f, f.kind # "none", Noted(f)'
      PROVE  Noted(f)
  BY <1>1, <1>2, <1>3 DEF Noted, Moves, NoFile
<1>4. FilesInOrder'
  <2> SUFFICES ASSUME NEW e \in Cli
               PROVE  /\ BeforeClaim(cli[e])' => BeforeClaim(cli[e])
                      /\ At(e, "write")' => At(e, "write")
                      /\ At(e, "spawn")' => At(e, "spawn")
                      /\ Claiming(e)' => Claiming(e)
    BY <1>1, <1>3 DEF FilesInOrder, Empty, Claim, Record
  <2> QED
    BY <1>1, <1>2 DEF Moves, At, Claiming, BeforeClaim
<1>5. ClaimMatchesStep'
  BY <1>1, <1>2 DEF ClaimMatchesStep, Moves, At, Empty, Claim
<1>6. SnapshotJudged'
  <2> DEFINE Fit(e, d, f) == cli[d].fp = f /\ file = f =>
                               /\ At(d, "judge") => cli[d].seen = f
                               /\ At(d, "compare") \/ At(d, "unlink") => Spent(f)
  <2>1. ASSUME NEW e \in Cli, NEW d \in Cli
        PROVE  Fit(e, d, Record(e))'
    <3>1. Spent(Record(e)) => Spent(Record(e))'
      BY <1>1 DEF Spent, Record
    <3> QED
      BY <1>1, <1>2, <3>1 DEF SnapshotJudged, Moves, At
  <2>2. ASSUME NEW e \in Cli, NEW d \in Cli
        PROVE  Fit(e, d, Claim(e))'
    <3> SUFFICES ASSUME file = Claim(e)
                 PROVE  Fit(e, d, Claim(e))'
      BY <1>1 DEF Claim
    <3>1. ~BeforeClaim(cli[e])
      BY DEF FilesInOrder, Noted
    <3>2. ~Active(e) => cli'[e] = cli[e]
      BY <1>2, <3>1 DEF Active, BeforeClaim, Moves
    <3>3. Spent(Claim(e)) => Spent(Claim(e))'
      BY <3>2 DEF Spent, Claim, Active
    <3> QED
      BY <1>1, <1>2, <3>3 DEF SnapshotJudged, Moves, At
  <2> QED
    BY <2>1, <2>2 DEF SnapshotJudged
<1>7. RemovalOfDead'
  BY <1>1, <1>2 DEF RemovalOfDead, Moves
<1>8. DaemonIsPublished'
  BY <1>1, <1>2 DEF DaemonIsPublished, Moves, At, Record, Result
<1>9. NamedIsSpawned'
  BY <1>1, <1>2 DEF NamedIsSpawned, Moves, Holds, IsRecord, At, NoFile
<1> QED
  BY <1>4, <1>5, <1>6, <1>7, <1>8, <1>9

\* The end of a command, and what follows a removal, are such steps.
LEMMA EndedMoves ==
  ASSUME TypeOK, Parts, NEW c \in Cli, NEW r \in Result, cli[c].pc \notin Result,
         r \in {"stopped", "notrunning"} => BeforeClaim(cli[c]),
         At(c, "rename") => c \in signalled'
  PROVE  Moves(c, Ended(c, r))
<1>1. Ended(c, r) \in CliState
  BY EndedTyped
<1>2. Ended(c, r).fp = NoFile /\ Ended(c, r).seen = NoFile /\ Ended(c, r).next = "open"
  BY DEF Ended, NewCli
<1>3. Ended(c, r).pc \in Result \cup {"open"} /\ (Ended(c, r).pc = "open" => BeforeClaim(cli[c]))
  BY DEF Ended, NewCli, Result
<1>4. Ended(c, r).pid \in {cli[c].pid, NoOne}
  BY DEF Ended, NewCli
<1>5. \A e \in Cli : Ended(c, r).pid = e => proc[e] # "none"
  BY <1>4, ProcessAssumption DEF Parts, NamedIsSpawned
<1> QED
  BY <1>1, <1>2, <1>3, <1>5 DEF Moves, BeforeClaim, Result, NoFile, Claim, Record

LEMMA OnwardMoves ==
  ASSUME TypeOK, Parts, NEW c \in Cli, cli[c].pc \in {"stat", "read", "compare", "unlink", "judge"},
         NEW w \in {"open", "killchild"} \cup Result, w # "killchild" => BeforeClaim(cli[c])
  PROVE  Moves(c, Onward(c, w))
<1>1. CASE w \in Result
  BY <1>1, EndedMoves DEF Onward, At, Result
<1>2. CASE w \notin Result
  <2>1. [cli[c] EXCEPT !.pc = w] \in CliState
    BY <1>2, OnwardTyped DEF Onward
  <2> QED
    BY <1>2, <2>1 DEF Onward, Moves, TypeOK, CliState, BeforeClaim, At, Result, Parts, NamedIsSpawned,
                      RemovalOfDead
<1> QED
  BY <1>1, <1>2

\* So is a judgement, however it comes out: a removal is of a file it found spent.
LEMMA JudgedMoves ==
  ASSUME TypeOK, Parts, NEW c \in Cli, At(c, "judge"), NEW i \in InspectPidfile(cli[c].seen)
  PROVE  /\ Moves(c, JudgeStart(c, i))
         /\ Moves(c, JudgeStatus(c, i))
         /\ Moves(c, JudgeStop(c, i))
<1> DEFINE f == cli[c].seen
<1>1. /\ f \in File /\ cli[c] \in CliState /\ cli[c].pc = "judge" /\ BeforeClaim(cli[c])
      /\ \A e \in Cli : cli[c].pid = e \/ (IsRecord(f) /\ f.who = e) => proc[e] # "none"
  BY DEF TypeOK, CliState, At, BeforeClaim, Parts, NamedIsSpawned, Holds
<1>2. ASSUME NEW r \in Result
      PROVE  Moves(c, Ended(c, r))
  BY <1>1, EndedMoves DEF At, Result
<1>3. ASSUME NEW e \in Cli, f \in {Claim(e), Record(e)}, i.state = "stale"
      PROVE  Spent(f)
  <2>1. CASE f = Claim(e)
    BY <1>3, <2>1 DEF InspectPidfile, Spent, Claim
  <2>2. CASE f = Record(e)
    BY <1>3, <2>2 DEF InspectPidfile, Spent, Record, ProcessMatches, IsPidAlive
  <2> QED
    BY <1>3, <2>1, <2>2
<1>4. ASSUME NEW w \in {"open"} \cup Result, i.state \in {"stale", "none"}
      PROVE  Moves(c, RemoveIfUnchanged(c, w))
  <2>1. CASE f.kind = "none"
    BY <1>1, <2>1, OnwardMoves DEF RemoveIfUnchanged
  <2>2. CASE f.kind # "none"
    <3>1. i.state = "stale"
      BY <1>4, <2>2, <1>1 DEF InspectPidfile, File
    <3>2. RemoveIfUnchanged(c, w) = [cli[c] EXCEPT !.pc = "compare", !.next = w]
      BY <2>2 DEF RemoveIfUnchanged
    <3>3. [cli[c] EXCEPT !.pc = "compare", !.next = w] \in CliState
      BY <1>1 DEF CliState, Step
    <3>4. ASSUME NEW e \in Cli, NEW g \in {Claim(e), Record(e)}, cli[c].fp = g, file = g
          PROVE  Spent(g)
      BY <1>3, <3>1, <3>4 DEF Parts, SnapshotJudged, At
    <3> QED
      BY <1>1, <3>2, <3>3, <3>4 DEF Moves, Result, At, CliState
  <2> QED
    BY <2>1, <2>2
<1>5. Moves(c, JudgeStart(c, i))
  <2> DEFINE s == RemoveIfUnchanged(c, "open")
             t == [s EXCEPT !.again = TRUE]
  <2>1. ASSUME i.state \in {"stale", "none"}
        PROVE  Moves(c, t)
    <3> HIDE DEF s
    <3>1. Moves(c, s) /\ s \in CliState
      BY <1>4, <2>1 DEF Moves, s
    <3>2. t \in CliState
      BY <3>1 DEF CliState
    <3>3. /\ t.pc = s.pc /\ t.next = s.next /\ t.then = s.then
          /\ t.pid = s.pid /\ t.fp = s.fp /\ t.seen = s.seen
      BY <3>1 DEF CliState
    <3> QED
      BY <3>1, <3>2, <3>3 DEF Moves, BeforeClaim
  <2> QED
    BY <1>2, <2>1 DEF JudgeStart, Result
<1>6. Moves(c, JudgeStatus(c, i))
  BY <1>2, <1>4 DEF JudgeStatus, Result
<1>7. Moves(c, JudgeStop(c, i))
  <2>1. StopDecision(i, cli[c].force) = "stale" => i.state = "stale"
    BY DEF StopDecision
  <2>2. ASSUME i.state = "stale", IsRecord(f)
        PROVE  Moves(c, RemoveIfHoldsPid(c, f.who, "notrunning"))
    <3>1. RemoveIfHoldsPid(c, f.who, "notrunning") \in CliState
      BY <1>1 DEF RemoveIfHoldsPid, CliState, Step, Result, File
    <3>2. \A e \in Cli : f.who = e => proc[e] # "up"
      BY <2>2 DEF InspectPidfile, IsRecord, ProcessMatches, IsPidAlive
    <3> QED
      BY <1>1, <2>2, <3>1, <3>2 DEF RemoveIfHoldsPid, Moves, Result, At, CliState
  <2>3. ASSUME IsRecord(f)
        PROVE  Moves(c, [cli[c] EXCEPT !.pc = "kill", !.pid = f.who])
    <3>1. [cli[c] EXCEPT !.pc = "kill", !.pid = f.who] \in CliState
      BY <1>1 DEF CliState, Step, File
    <3> QED
      BY <1>1, <2>3, <3>1 DEF Moves, Result, At, CliState
  <2>4. StopDecision(i, cli[c].force) = "kill" => IsRecord(f)
    BY <1>1 DEF StopDecision, InspectPidfile, IsRecord, File
  <2> QED
    BY <1>2, <1>4, <2>1, <2>2, <2>3, <2>4 DEF JudgeStop, Result
<1> QED
  BY <1>5, <1>6, <1>7

-----------------------------------------------------------------------------
(* Steps that change the pidfile or a process.                             *)

\* A removal by CLI c takes no other CLI's claim and no live daemon's record.
LEMMA RemovalKeeps ==
  ASSUME TypeOK, Parts, NEW c \in Cli, NEW s, Goto(c, s), Moves(c, s),
         file' = NoFile, UNCHANGED <<proc, signalled>>,
         \A e \in Cli \ {c} : file \in {Empty(e), Claim(e)} => ~Active(e),
         \A e \in Cli : file = Record(e) => proc[e] # "up"
  PROVE  Parts'
<1> USE DEF Parts
<1>1. /\ cli' = [cli EXCEPT ![c] = s] /\ s \in CliState /\ cli \in [Cli -> CliState]
      /\ proc' = proc /\ signalled' = signalled
  BY DEF Goto, Moves, TypeOK
<1>2. cli'[c] = s /\ \A e \in Cli : e # c => cli'[e] = cli[e]
  BY <1>1
<1>3. ASSUME NEW f, f.kind # "none", Noted(f)'
      PROVE  Noted(f)
  BY <1>1, <1>2, <1>3 DEF Noted, Moves, NoFile
<1>4. FilesInOrder'
  <2> SUFFICES ASSUME NEW e \in Cli
               PROVE  /\ BeforeClaim(cli[e])' => BeforeClaim(cli[e])
                      /\ At(e, "write")' => At(e, "write")
                      /\ At(e, "spawn")' => At(e, "spawn")
                      /\ Claiming(e)' => Claiming(e)
    BY <1>1, <1>3 DEF FilesInOrder, Empty, Claim, Record
  <2> QED
    BY <1>1, <1>2 DEF Moves, At, Claiming, BeforeClaim
<1>5. ClaimMatchesStep'
  <2> SUFFICES ASSUME NEW e \in Cli, Claiming(e)' PROVE FALSE
    BY DEF ClaimMatchesStep, Claiming, At
  <2>1. e # c /\ Claiming(e) /\ Active(e)
    BY <1>2 DEF Claiming, Moves, Active, Result
  <2> QED
    BY <2>1 DEF ClaimMatchesStep, Claiming, At
<1>6. SnapshotJudged'
  BY DEF SnapshotJudged, NoFile, Claim, Record
<1>7. RemovalOfDead'
  BY <1>1, <1>2 DEF RemovalOfDead, Moves
<1>8. DaemonIsPublished'
  BY <1>1, <1>2 DEF DaemonIsPublished, Moves, At, Record, Result
<1>9. NamedIsSpawned'
  BY <1>1, <1>2 DEF NamedIsSpawned, Moves, Holds, IsRecord, At, NoFile
<1> QED
  BY <1>4, <1>5, <1>6, <1>7, <1>8, <1>9

\* A removal that did not hit a wrong file: what Remove says of it.
LEMMA RemoveIsOfMeant ==
  ASSUME NEW c \in Cli, NEW meant, Remove(c, meant), ~clobbered'
  PROVE  /\ file' = NoFile
         /\ file.kind # "none" => file = meant
         /\ \A e \in Cli \ {c} : file = Empty(e) => ~Active(e)
<1>1. /\ file' = NoFile
      /\ ~(/\ file.kind # "none"
           /\ \/ file # meant
              \/ file.kind = "empty" /\ file.who \in Cli \ {c} /\ Active(file.who))
  BY DEF Remove
<1> QED
  BY <1>1 DEF Empty

\* The steps of a start that succeed, each putting its own file or daemon in place.
LEMMA ClaimKeeps ==
  ASSUME TypeOK, Parts, NEW c \in Cli, UNCHANGED <<proc, signalled>>,
         \/ At(c, "open") /\ file.kind = "none" /\ file' = Empty(c)
              /\ Goto(c, [cli[c] EXCEPT !.pc = "write"])
         \/ At(c, "write") /\ file' = Claim(c) /\ Goto(c, [cli[c] EXCEPT !.pc = "spawn"])
         \/ At(c, "rename") /\ file' = Record(c) /\ Goto(c, [cli[c] EXCEPT !.pc = "poll"])
  PROVE  Parts'
<1> USE DEF Parts
<1> DEFINE s == cli'[c]
<1>1. /\ cli \in [Cli -> CliState] /\ proc' = proc /\ signalled' = signalled
      /\ s.fp = cli[c].fp /\ s.seen = cli[c].seen
      /\ \A e \in Cli : e # c => cli'[e] = cli[e]
      /\ s.pid = cli[c].pid /\ (At(c, "rename") => proc[c] # "none")
      /\ \/ At(c, "open") /\ file.kind = "none" /\ file' = Empty(c) /\ s.pc = "write"
         \/ At(c, "write") /\ file = Empty(c) /\ file' = Claim(c) /\ s.pc = "spawn"
         \/ At(c, "rename") /\ file = Claim(c) /\ file' = Record(c) /\ s.pc = "poll"
  BY DEF Goto, TypeOK, CliState, ClaimMatchesStep, NamedIsSpawned
<1>2. ASSUME NEW f, Noted(f)'
      PROVE  Noted(f) \/ f = file'
  BY <1>1, <1>2 DEF Noted
<1>3. \A e \in Cli : e # c => ~Claiming(e)
  BY <1>1 DEF ClaimMatchesStep, Claiming, At, Empty, Claim
<1>4. FilesInOrder'
  <2> SUFFICES ASSUME NEW e \in Cli
               PROVE  /\ BeforeClaim(cli[e])' => ~Noted(Empty(e))'
                      /\ BeforeClaim(cli[e])' \/ At(e, "write")' => ~Noted(Claim(e))'
                      /\ BeforeClaim(cli[e])' \/ Claiming(e)' => ~Noted(Record(e))'
                      /\ BeforeClaim(cli[e])' \/ At(e, "write")' \/ At(e, "spawn")' => proc[e] = "none"
    BY <1>1 DEF FilesInOrder
  <2>1. CASE e = c
    BY <1>1, <1>2, <2>1 DEF FilesInOrder, BeforeClaim, Claiming, At, Empty, Claim, Record
  <2>2. CASE e # c
    <3>1. file' \notin {Empty(e), Claim(e), Record(e)}
      BY <1>1, <2>2 DEF Empty, Claim, Record
    <3> QED
      BY <1>1, <1>2, <2>2, <3>1 DEF FilesInOrder, BeforeClaim, Claiming, At
  <2> QED
    BY <2>1, <2>2
<1>5. ClaimMatchesStep'
  BY <1>1, <1>3 DEF ClaimMatchesStep, Claiming, At
<1>6. SnapshotJudged'
  <2>1. \A d \in Cli : cli'[d].fp = cli[d].fp
    BY <1>1
  <2>2. \A d \in Cli : cli[d].fp # file'
    BY <1>1 DEF FilesInOrder, Noted, BeforeClaim, Claiming, At
  <2> QED
    BY <2>1, <2>2 DEF SnapshotJudged
<1>7. RemovalOfDead'
  BY <1>1 DEF RemovalOfDead
<1>8. DaemonIsPublished'
  BY <1>1 DEF DaemonIsPublished, At, Empty, Claim, Record, FilesInOrder, BeforeClaim
<1>9. NamedIsSpawned'
  BY <1>1 DEF NamedIsSpawned, Holds, IsRecord, At, Empty, Claim, Record
<1> QED
  BY <1>4, <1>5, <1>6, <1>7, <1>8, <1>9

LEMMA SpawnKeeps ==
  ASSUME TypeOK, Parts, NEW c \in Cli, At(c, "spawn"), proc' = [proc EXCEPT ![c] = "up"],
         Goto(c, [cli[c] EXCEPT !.pc = "rename", !.pid = c]), UNCHANGED <<file, signalled>>
  PROVE  Parts'
<1> USE DEF Parts
<1> DEFINE s == cli'[c]
<1>1. /\ cli \in [Cli -> CliState] /\ file' = file /\ signalled' = signalled
      /\ s.fp = cli[c].fp /\ s.seen = cli[c].seen /\ s.pc = "rename" /\ s.pid = c
      /\ proc'[c] = "up"
      /\ \A e \in Cli : e # c => cli'[e] = cli[e]
      /\ \A p \in Pid : p # c => proc'[p] = proc[p]
      /\ cli[c].pc = "spawn" /\ c \in Pid /\ Cli \subseteq Pid
  BY DEF Goto, TypeOK, CliState, At, Pid
<1>2. ASSUME NEW f, Noted(f)'
      PROVE  Noted(f)
  BY <1>1, <1>2 DEF Noted
<1>3. FilesInOrder'
  BY ZenonT(60), <1>1, <1>2 DEF FilesInOrder, BeforeClaim, Claiming, At, Empty, Claim, Record, Pid
<1>4. ClaimMatchesStep'
  BY <1>1 DEF ClaimMatchesStep, At, Empty, Claim
<1>5. file = Claim(c) /\ Active(c) /\ \A d \in Cli : cli[d].fp # Record(c) /\ cli[d].seen # Record(c)
  BY <1>1 DEF ClaimMatchesStep, At, FilesInOrder, Claiming, Noted, Active, Result
<1>6. SnapshotJudged'
  <2> SUFFICES ASSUME NEW d \in Cli, s.pc = "rename", cli'[d].fp = Claim(c)
               PROVE  ~At(d, "compare")' /\ ~At(d, "unlink")' /\ (At(d, "judge")' => cli'[d].seen = Claim(c))
    BY <1>1, <1>5 DEF SnapshotJudged, Claim, Record
  <2> QED
    BY <1>1, <1>5 DEF SnapshotJudged, Spent, Claim, At
<1>7. RemovalOfDead'
  <2>1. proc[c] = "none"
    BY <1>1 DEF FilesInOrder, At
  <2> QED
    BY <1>1, <2>1 DEF RemovalOfDead, NamedIsSpawned, Pid
<1>8. DaemonIsPublished'
  BY <1>1 DEF DaemonIsPublished, At, Record, Pid
<1>9. NamedIsSpawned'
  BY <1>1 DEF NamedIsSpawned, Holds, IsRecord, At
<1> QED
  BY <1>3, <1>4, <1>6, <1>7, <1>8, <1>9

LEMMA ExitKeeps ==
  ASSUME TypeOK, Parts, NEW p \in Pid, ProcessExits(p)
  PROVE  Parts'
<1> USE DEF Parts
<1>1. /\ file' = file /\ cli' = cli /\ signalled' = signalled
      /\ \A q \in Pid : proc'[q] = IF q = p THEN "dead" ELSE proc[q]
      /\ proc[p] \in {"up", "stranger"}
  BY DEF ProcessExits, TypeOK
<1>2. Cli \subseteq Pid
  BY DEF Pid
<1>3. FilesInOrder'
  BY <1>1, <1>2 DEF FilesInOrder, BeforeClaim, Claiming, Noted, At, Empty, Claim, Record
<1>4. ClaimMatchesStep'
  BY <1>1 DEF ClaimMatchesStep, At, Empty, Claim
<1>5. SnapshotJudged'
  <2> DEFINE Fit(d, f) == cli[d].fp = f /\ file = f =>
                            /\ At(d, "judge") => cli[d].seen = f
                            /\ At(d, "compare") \/ At(d, "unlink") => Spent(f)
  <2>1. ASSUME NEW e \in Cli, NEW d \in Cli
        PROVE  Fit(d, Claim(e))' /\ Fit(d, Record(e))'
    <3>1. Spent(Claim(e)) => Spent(Claim(e))'
      BY <1>1 DEF Spent, Active, Claim
    <3>2. Spent(Record(e)) => Spent(Record(e))'
      BY <1>1, <1>2 DEF Spent, Record
    <3> QED
      BY <1>1, <3>1, <3>2 DEF SnapshotJudged, At
  <2> QED
    BY <2>1 DEF SnapshotJudged
<1>6. RemovalOfDead'
  BY <1>1, <1>2 DEF RemovalOfDead
<1>7. DaemonIsPublished'
  BY <1>1, <1>2 DEF DaemonIsPublished, At, Record
<1>8. NamedIsSpawned'
  BY <1>1, <1>2 DEF NamedIsSpawned, Holds, IsRecord, At
<1> QED
  BY <1>3, <1>4, <1>5, <1>6, <1>7, <1>8

-----------------------------------------------------------------------------
(* Every step of the specification.                                        *)

LEMMA InspectStep ==
  ASSUME TypeOK, Parts, NEW c \in Cli, Inspects(c), ~clobbered'
  PROVE  Parts'
<1>1. cli[c] \in CliState /\ file \in File /\ NoFile \in File
  BY DEF TypeOK, NoFile, File
<1>2. \A e \in Cli : cli[c].pid = e => proc[e] # "none"
  BY DEF Parts, NamedIsSpawned
<1>3. CASE StatPidfile(c)
  <2>1. cli[c].pc = "stat"
    BY <1>3 DEF StatPidfile, At
  <2>2. CASE file.kind # "none"
    <3>1. [cli[c] EXCEPT !.fp = file, !.pc = "read"] \in CliState
      BY <1>1 DEF CliState, Step
    <3>2. Moves(c, [cli[c] EXCEPT !.fp = file, !.pc = "read"])
      BY <1>1, <1>2, <2>1, <3>1 DEF Moves, BeforeClaim, Result, CliState, At, Parts, RemovalOfDead
    <3> QED
      BY <1>3, <2>2, <3>2, MovesKeep DEF StatPidfile
  <2>3. CASE file.kind = "none" /\ cli[c].then = "judge"
    <3>1. [cli[c] EXCEPT !.seen = NoFile, !.pc = "judge"] \in CliState
      BY <1>1 DEF CliState, Step
    <3>2. cli[c].next # "killchild"
      BY <2>1, <2>3 DEF Parts, RemovalOfDead
    <3>3. Moves(c, [cli[c] EXCEPT !.seen = NoFile, !.pc = "judge"])
      BY <1>1, <1>2, <2>1, <2>3, <3>1, <3>2
         DEF Moves, BeforeClaim, Result, CliState, At, Claim, Record
    <3> QED
      BY <1>3, <2>3, <3>3, MovesKeep DEF StatPidfile
  <2>4. CASE file.kind = "none" /\ cli[c].then # "judge"
    <3>1. Moves(c, Onward(c, cli[c].next))
      BY <1>1, <2>1, OnwardMoves DEF CliState, BeforeClaim
    <3> QED
      BY <1>3, <2>4, <3>1, MovesKeep DEF StatPidfile
  <2> QED
    BY <2>2, <2>3, <2>4
<1>4. CASE ReadPidfile(c)
  <2>1. cli[c].pc = "read"
    BY <1>4 DEF ReadPidfile, At
  <2>2. CASE cli[c].then = "judge"
    <3>1. [cli[c] EXCEPT !.seen = file, !.pc = "judge"] \in CliState
      BY <1>1 DEF CliState, Step
    <3>2. cli[c].next # "killchild"
      BY <2>1, <2>2 DEF Parts, RemovalOfDead
    <3>3. Moves(c, [cli[c] EXCEPT !.seen = file, !.pc = "judge"])
      BY <1>1, <1>2, <2>1, <3>1, <3>2 DEF Moves, BeforeClaim, Result, CliState, At
    <3> QED
      BY <1>4, <2>2, <3>3, MovesKeep DEF ReadPidfile
  <2>3. CASE cli[c].then # "judge" /\ Holds(file, cli[c].pid)
    <3>1. [cli[c] EXCEPT !.seen = file, !.pc = "compare"] \in CliState
      BY <1>1 DEF CliState, Step
    <3>2. cli[c].then = "compare"
      BY <1>1, <2>3 DEF CliState
    <3>3. ASSUME NEW e \in Cli, NEW f \in {Claim(e), Record(e)}, file = f
          PROVE  Spent(f)
      BY <2>1, <2>3, <3>2, <3>3 DEF Holds, IsRecord, Parts, RemovalOfDead, Spent, Claim, Record
    <3>4. Moves(c, [cli[c] EXCEPT !.seen = file, !.pc = "compare"])
      BY <1>1, <1>2, <2>1, <3>1, <3>3 DEF Moves, BeforeClaim, Result, CliState, At
    <3> QED
      BY <1>4, <2>3, <3>4, MovesKeep DEF ReadPidfile
  <2>4. CASE cli[c].then # "judge" /\ ~Holds(file, cli[c].pid)
    <3>1. Moves(c, Onward(c, cli[c].next))
      BY <1>1, <2>1, OnwardMoves DEF CliState, BeforeClaim
    <3> QED
      BY <1>4, <2>4, <3>1, MovesKeep DEF ReadPidfile
  <2> QED
    BY <2>2, <2>3, <2>4
<1>5. CASE Compare(c)
  <2>1. cli[c].pc = "compare"
    BY <1>5 DEF Compare, At
  <2>2. CASE file = cli[c].fp
    <3>1. [cli[c] EXCEPT !.pc = "unlink"] \in CliState
      BY <1>1 DEF CliState, Step
    <3>2. ASSUME NEW e \in Cli, NEW f \in {Claim(e), Record(e)}, cli[c].fp = f
          PROVE  Spent(f)
      BY <2>1, <2>2, <3>2 DEF Parts, SnapshotJudged, At
    <3>3. Moves(c, [cli[c] EXCEPT !.pc = "unlink"])
      BY <1>1, <1>2, <2>1, <3>1, <3>2 DEF Moves, BeforeClaim, Result, CliState, At
    <3> QED
      BY <1>5, <2>2, <3>3, MovesKeep DEF Compare
  <2>3. CASE file # cli[c].fp
    <3>1. Moves(c, Onward(c, cli[c].next))
      BY <1>1, <2>1, OnwardMoves DEF CliState, BeforeClaim
    <3> QED
      BY <1>5, <2>3, <3>1, MovesKeep DEF Compare
  <2> QED
    BY <2>2, <2>3
<1>6. CASE Unlink(c)
  <2>1. cli[c].pc = "unlink"
    BY <1>6 DEF Unlink, At
  <2>2. Moves(c, Onward(c, cli[c].next))
    BY <1>1, <2>1, OnwardMoves DEF CliState, BeforeClaim
  <2>3. /\ file' = NoFile
        /\ file.kind # "none" => file = cli[c].fp
        /\ \A e \in Cli \ {c} : file = Empty(e) => ~Active(e)
    BY <1>6, RemoveIsOfMeant DEF Unlink
  <2>4. ASSUME NEW e \in Cli, NEW f \in {Claim(e), Record(e)}, file = f
        PROVE  Spent(f)
    <3>1. file.kind # "none"
      BY <2>4 DEF Claim, Record
    <3> QED
      BY <2>1, <2>3, <2>4, <3>1 DEF Parts, SnapshotJudged, At
  <2>5. \A e \in Cli : /\ file = Claim(e) => ~Active(e)
                       /\ file = Record(e) => proc[e] # "up"
    BY <2>4 DEF Spent, Claim, Record
  <2> QED
    BY <1>6, <2>2, <2>3, <2>5, RemovalKeeps DEF Unlink
<1>7. CASE Judge(c)
  BY <1>7, JudgedMoves, MovesKeep DEF Judge
<1> QED
  BY <1>3, <1>4, <1>5, <1>6, <1>7 DEF Inspects

LEMMA StartStep ==
  ASSUME TypeOK, Parts, NEW c \in Cli, Start(c), ~clobbered'
  PROVE  Parts'
<1>1. cli[c] \in CliState /\ file \in File
  BY DEF TypeOK
<1>2. \A e \in Cli : cli[c].pid = e => proc[e] # "none"
  BY DEF Parts, NamedIsSpawned
\* A removal of a start's own claim.
<1>3. ASSUME NEW f \in {Empty(c), Claim(c)}, Remove(c, f), Goto(c, Ended(c, "failed")),
             UNCHANGED <<proc, signalled>>, cli[c].pc \in {"write", "drop"}
      PROVE  Parts'
  <2>1. Moves(c, Ended(c, "failed"))
    BY <1>3, EndedMoves DEF At, Result
  <2>2. /\ file' = NoFile
        /\ file.kind # "none" => file = f
        /\ \A e \in Cli \ {c} : file = Empty(e) => ~Active(e)
    BY <1>3, RemoveIsOfMeant
  <2>3. \A e \in Cli : file # Record(e) /\ (e # c => file # Claim(e))
    BY <1>3, <2>2 DEF Empty, Claim, Record
  <2> QED
    BY <1>3, <2>1, <2>2, <2>3, RemovalKeeps
<1>4. CASE Open(c)
  <2>1. CASE file.kind = "none"
    BY <1>4, <2>1, ClaimKeeps DEF Open
  <2>2. CASE file.kind # "none"
    <3>1. [cli[c] EXCEPT !.pc = "stat", !.then = "judge"] \in CliState
      BY <1>1 DEF CliState, Step
    <3>2. cli[c].pc = "open" /\ cli[c].next # "killchild"
      BY <1>4 DEF Open, At, Parts, RemovalOfDead
    <3>3. Moves(c, [cli[c] EXCEPT !.pc = "stat", !.then = "judge"])
      BY <1>1, <1>2, <3>1, <3>2 DEF At, Moves, BeforeClaim, Result, CliState
    <3> QED
      BY <1>4, <2>2, <3>3, MovesKeep DEF Open
  <2> QED
    BY <2>1, <2>2
<1>5. CASE WriteClaim(c)
  <2>1. file = Empty(c) /\ cli[c].pc = "write"
    BY <1>5 DEF WriteClaim, Parts, ClaimMatchesStep, At
  <2>2. CASE Remove(c, Empty(c)) /\ Goto(c, Ended(c, "failed"))
    BY <1>3, <1>5, <2>1, <2>2 DEF WriteClaim
  <2>3. CASE file' = Claim(c) /\ Goto(c, [cli[c] EXCEPT !.pc = "spawn"])
    BY <1>5, <2>3, ClaimKeeps DEF WriteClaim
  <2> QED
    BY <1>5, <2>1, <2>2, <2>3 DEF WriteClaim
<1>6. CASE Spawn(c)
  <2>1. CASE proc' = [proc EXCEPT ![c] = "up"] /\ Goto(c, [cli[c] EXCEPT !.pc = "rename", !.pid = c])
    BY <1>6, <2>1, SpawnKeeps DEF Spawn
  <2>2. CASE Goto(c, [cli[c] EXCEPT !.pc = "drop"]) /\ UNCHANGED proc
    <3>1. [cli[c] EXCEPT !.pc = "drop"] \in CliState
      BY <1>1 DEF CliState, Step
    <3>2. Moves(c, [cli[c] EXCEPT !.pc = "drop"])
      BY <1>1, <1>2, <1>6, <3>1 DEF Spawn, At, Moves, BeforeClaim, Result, CliState
    <3> QED
      BY <1>6, <2>2, <3>2, MovesKeep DEF Spawn
  <2> QED
    BY <1>6, <2>1, <2>2 DEF Spawn
<1>7. CASE WriteRecordAtomic(c)
  <2>1. CASE file' = Record(c) /\ Goto(c, [cli[c] EXCEPT !.pc = "poll"]) /\ UNCHANGED signalled
    BY <1>7, <2>1, ClaimKeeps DEF WriteRecordAtomic
  <2>2. CASE signalled' = signalled \cup {c} /\ Goto(c, [cli[c] EXCEPT !.pc = "drop"]) /\ UNCHANGED file
    <3>1. [cli[c] EXCEPT !.pc = "drop"] \in CliState
      BY <1>1 DEF CliState, Step
    <3>2. Moves(c, [cli[c] EXCEPT !.pc = "drop"])
      BY <1>1, <1>2, <1>7, <2>2, <3>1 DEF WriteRecordAtomic, At, Moves, BeforeClaim, Result, CliState
    <3> QED
      BY <1>7, <2>2, <3>2, MovesKeep DEF WriteRecordAtomic
  <2> QED
    BY <1>7, <2>1, <2>2 DEF WriteRecordAtomic
<1>8. CASE DropClaim(c)
  BY <1>3, <1>8 DEF DropClaim, At
<1>9. CASE Poll(c)
  <2>1. [cli[c] EXCEPT !.seen = file, !.pc = "ready"] \in CliState
    BY <1>1 DEF CliState, Step
  <2>2. Moves(c, [cli[c] EXCEPT !.seen = file, !.pc = "ready"])
    BY <1>1, <1>2, <1>9, <2>1 DEF Poll, At, Moves, BeforeClaim, Result, CliState
  <2> QED
    BY <1>9, <2>2, MovesKeep DEF Poll
<1>10. CASE ReadyAgain(c)
  <2>1. [cli[c] EXCEPT !.pc = "poll"] \in CliState
    BY <1>1 DEF CliState, Step
  <2>2. Moves(c, [cli[c] EXCEPT !.pc = "poll"])
    BY <1>1, <1>2, <1>10, <2>1 DEF ReadyAgain, At, Moves, BeforeClaim, Result, CliState
  <2> QED
    BY <1>10, <2>2, MovesKeep DEF ReadyAgain
<1>11. CASE ReadyEnds(c)
  <2>1. cli[c].pc = "ready"
    BY <1>11 DEF ReadyEnds, At
  <2>2. CASE ~Holds(cli[c].seen, c)
    <3>1. [cli[c] EXCEPT !.pc = "killchild"] \in CliState
      BY <1>1 DEF CliState, Step
    <3>2. Moves(c, [cli[c] EXCEPT !.pc = "killchild"])
      BY <1>1, <1>2, <2>1, <3>1 DEF At, Moves, BeforeClaim, Result, CliState
    <3> QED
      BY <1>11, <2>2, <3>2, MovesKeep DEF ReadyEnds
  <2>3. CASE Holds(cli[c].seen, c) /\ IsPidAlive(c)
    <3>1. Moves(c, Ended(c, "started"))
      BY <2>1, EndedMoves DEF At, Result
    <3> QED
      BY <1>11, <2>3, <3>1, MovesKeep DEF ReadyEnds
  <2>4. CASE Holds(cli[c].seen, c) /\ ~IsPidAlive(c)
    <3>1. RemoveIfHoldsPid(c, c, "killchild") \in CliState
      BY <1>1 DEF RemoveIfHoldsPid, CliState, Step, Pid
    <3>2. proc[c] \notin {"none", "up"}
      BY <2>4 DEF Parts, NamedIsSpawned, IsPidAlive
    <3>3. Moves(c, RemoveIfHoldsPid(c, c, "killchild"))
      BY <1>1, <2>1, <3>1, <3>2 DEF RemoveIfHoldsPid, At, Moves, BeforeClaim, Result, CliState
    <3> QED
      BY <1>11, <2>4, <3>3, MovesKeep DEF ReadyEnds
  <2> QED
    BY <2>2, <2>3, <2>4
<1>12. CASE KillStartedChild(c)
  <2>1. Moves(c, Ended(c, "failed"))
    BY <1>12, EndedMoves DEF KillStartedChild, At, Result
  <2> QED
    BY <1>12, <2>1, MovesKeep DEF KillStartedChild
<1> QED
  BY <1>4, <1>5, <1>6, <1>7, <1>8, <1>9, <1>10, <1>11, <1>12 DEF Start

LEMMA StopStep ==
  ASSUME TypeOK, Parts, NEW c \in Cli, Stop(c) \/ CliDies(c)
  PROVE  Parts'
<1>1. cli[c] \in CliState
  BY DEF TypeOK
<1>2. \A e \in Cli : cli[c].pid = e => proc[e] # "none"
  BY DEF Parts, NamedIsSpawned
<1>3. CASE Kill(c)
  <2>1. cli[c].pc = "kill"
    BY <1>3 DEF Kill, At
  <2>2. Moves(c, Ended(c, "gaveup"))
    BY <2>1, EndedMoves DEF At, Result
  <2>3. [cli[c] EXCEPT !.pc = "wait"] \in CliState
    BY <1>1 DEF CliState, Step
  <2>4. Moves(c, [cli[c] EXCEPT !.pc = "wait"])
    BY <1>1, <1>2, <2>1, <2>3 DEF At, Moves, BeforeClaim, Result, CliState
  <2> QED
    BY <1>3, <2>2, <2>4, MovesKeep DEF Kill
<1>4. CASE WaitExited(c)
  <2>1. cli[c].pc \in {"wait", "lastwait"} /\ ~IsPidAlive(cli[c].pid)
    BY <1>4 DEF WaitExited, At
  <2>2. RemoveIfHoldsPid(c, cli[c].pid, "stopped") \in CliState
    BY <1>1 DEF RemoveIfHoldsPid, CliState, Step, Result
  <2>3. Moves(c, RemoveIfHoldsPid(c, cli[c].pid, "stopped"))
    BY <1>1, <1>2, <2>1, <2>2
       DEF RemoveIfHoldsPid, IsPidAlive, At, Moves, BeforeClaim, Result, CliState
  <2> QED
    BY <1>4, <2>3, MovesKeep DEF WaitExited
<1>5. CASE WaitTimesOut(c)
  <2>1. cli[c].pc \in {"wait", "lastwait"}
    BY <1>5 DEF WaitTimesOut, At
  <2>2. Moves(c, Ended(c, "gaveup"))
    BY <2>1, EndedMoves DEF At, Result
  <2>3. [cli[c] EXCEPT !.pc = "lastwait"] \in CliState
    BY <1>1 DEF CliState, Step
  <2>4. Moves(c, [cli[c] EXCEPT !.pc = "lastwait"])
    BY <1>1, <1>2, <2>1, <2>3 DEF At, Moves, BeforeClaim, Result, CliState
  <2> QED
    BY <1>5, <2>2, <2>4, MovesKeep DEF WaitTimesOut
<1>6. CASE CliDies(c)
  <2> DEFINE s == [NewCli EXCEPT !.pc = "died", !.cmd = cli[c].cmd,
                                 !.pid = IF At(c, "rename") THEN c ELSE NoOne]
  <2>1. s \in CliState
    <3>1. c \in Pid /\ "died" \in Result
      BY DEF Pid, Result
    <3> QED
      BY <1>1, <3>1, NewCliTyped DEF CliState
  <2>2. /\ s.pc = "died" /\ s.fp = NoFile /\ s.seen = NoFile
        /\ s.pid = IF At(c, "rename") THEN c ELSE NoOne
    BY DEF NewCli
  <2>3. \A e \in Cli : s.pid = e => proc[e] # "none"
    BY <2>2, ProcessAssumption DEF Parts, NamedIsSpawned
  <2>4. cli[c].pc \notin Result
    BY <1>6 DEF CliDies, Active
  <2> HIDE DEF s
  <2>5. Moves(c, s)
    BY <2>1, <2>2, <2>3, <2>4 DEF Moves, BeforeClaim, NoFile, Claim, Record
  <2> QED
    BY <1>6, <2>5, MovesKeep DEF CliDies, s
<1> QED
  BY <1>3, <1>4, <1>5, <1>6 DEF Stop

LEMMA PartsStep == TypeOK /\ Parts /\ [Next]_vars /\ ~clobbered' => Parts'
<1> SUFFICES ASSUME TypeOK, Parts, [Next]_vars, ~clobbered' PROVE Parts'
  OBVIOUS
<1>1. ASSUME NEW c \in Cli, NEW cmd \in {"start", "stop", "status", "restart"}, NEW force \in BOOLEAN,
             Invoke(c, cmd, force)
      PROVE  Parts'
  <2> DEFINE s == [NewCli EXCEPT !.cmd = cmd, !.force = force,
                                 !.pc = IF cmd = "start" THEN "open" ELSE "stat"]
  <2>1. s \in CliState
    BY NewCliTyped DEF CliState, Step
  <2>2. /\ s.pc \in {"open", "stat"} /\ s.fp = NoFile /\ s.seen = NoFile /\ s.pid = NoOne
        /\ s.then = "judge" /\ s.next = "open"
    BY DEF NewCli
  <2>3. \A e \in Cli : s.pid # e
    BY <2>2, ProcessAssumption
  <2> HIDE DEF s
  <2>4. Moves(c, s)
    BY <1>1, <2>1, <2>2, <2>3 DEF Invoke, At, Moves, BeforeClaim, Result, NoFile, Claim, Record
  <2> QED
    BY <1>1, <2>4, MovesKeep DEF Invoke, s
<1>2. CASE UNCHANGED vars
  BY <1>2 DEF vars, Parts, FilesInOrder, NamedIsSpawned, ClaimMatchesStep, SnapshotJudged, RemovalOfDead,
              DaemonIsPublished, Noted, Claiming, Holds, At, Spent, Active
<1> QED
  BY <1>1, <1>2, InspectStep, StartStep, StopStep, ExitKeeps DEF Next

LEMMA InitParts == Init => TypeOK /\ Parts
<1> SUFFICES ASSUME Init PROVE TypeOK /\ Parts
  OBVIOUS
<1>1. /\ cli = [c \in Cli |-> NewCli] /\ signalled = {} /\ clobbered = FALSE
      /\ file \in {NoFile, Empty(Old), Record(Old), Legacy(Old)}
      /\ proc \in [Pid -> {"none", "up", "dead", "stranger"}]
      /\ \A c \in Cli : proc[c] = "none"
  BY ProcessAssumption DEF Init, Pid
<1>2. Old \in Pid /\ NoFile \in File
  BY DEF Pid, NoFile, File
<1>3. TypeOK
  BY <1>1, <1>2, NewCliTyped, FilesTyped DEF TypeOK
<1>4. \A c \in Cli : /\ cli[c].pc = "idle" /\ cli[c].fp = NoFile /\ cli[c].seen = NoFile
                     /\ cli[c].pid = NoOne
  BY <1>1 DEF NewCli
<1>5. \A c \in Cli : /\ NoFile \notin {Empty(c), Claim(c), Record(c)}
                     /\ file \notin {Empty(c), Claim(c), Record(c)} /\ ~Holds(file, c)
  BY <1>1, ProcessAssumption DEF NoFile, Empty, Claim, Record, Legacy, Holds, IsRecord
<1>6. FilesInOrder
  BY <1>1, <1>4, <1>5 DEF FilesInOrder, Noted, Claiming
<1>7. NamedIsSpawned
  BY <1>4, <1>5, ProcessAssumption DEF NamedIsSpawned, At, Holds, IsRecord, NoFile
<1>8. ClaimMatchesStep /\ RemovalOfDead /\ SnapshotJudged
  BY <1>4 DEF ClaimMatchesStep, RemovalOfDead, SnapshotJudged, At
<1>9. DaemonIsPublished
  BY <1>1 DEF DaemonIsPublished
<1> QED
  BY <1>3, <1>6, <1>7, <1>8, <1>9 DEF Parts

\* The inductive invariant: it holds at first and every step keeps it, for as long
\* as no removal has hit a wrong file.
THEOREM PidfileInvariance == Spec => []IInv
<1>1. Init => IInv
  BY InitParts DEF IInv, Parts
<1>2. IInv /\ [Next]_vars => IInv'
  <2> SUFFICES ASSUME IInv, [Next]_vars PROVE IInv'
    OBVIOUS
  <2>1. TypeOK'
    BY TypeStep DEF IInv
  <2>2. ASSUME ~clobbered'
        PROVE  ~clobbered
    BY <2>2 DEF Next, vars, Invoke, Inspects, StatPidfile, ReadPidfile, Compare, Unlink, Remove, Judge, Start,
                Open, WriteClaim, Spawn, WriteRecordAtomic, DropClaim, Poll, ReadyAgain, ReadyEnds,
                KillStartedChild, Stop, Kill, WaitExited, WaitTimesOut, CliDies, ProcessExits
  <2>3. ASSUME ~clobbered'
        PROVE  Parts'
    BY <2>2, <2>3, PartsStep DEF IInv, Parts
  <2> QED
    BY <2>1, <2>3 DEF IInv, Parts
<1> QED
  BY <1>1, <1>2, PTL DEF Spec

\* claimPidfile is a lock: while a live CLI is starting a daemon, the pidfile is
\* its claim, however many others start, stop, ask and die meanwhile.
THEOREM PidfileIsLock == Spec => []ClaimHeld
<1>1. IInv => ClaimHeld
  BY DEF IInv, ClaimHeld, ClaimMatchesStep, Claiming, At
<1> QED
  BY <1>1, PidfileInvariance, PTL

\* No daemon is left running that the pidfile does not name and nobody watches
\* over, but for the window the README of the service admits.
THEOREM NoDaemonIsLost == Spec => []NoOrphan
<1>1. IInv => NoOrphan
  BY DEF IInv, NoOrphan, DaemonIsPublished, Active, At, Result
<1> QED
  BY <1>1, PidfileInvariance, PTL
=============================================================================
