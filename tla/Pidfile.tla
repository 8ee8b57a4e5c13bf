------------------------------- MODULE Pidfile -------------------------------
(***************************************************************************)
(* `hugind start | stop | status | restart` (src/cli.ts): command-line     *)
(* processes that start and stop one detached daemon and know of each      *)
(* other only through hugind.pid.  They run in parallel, so each step here *)
(* is one system call on the pidfile, one look at a process or one signal. *)
(*                                                                         *)
(* A CLI process runs one command.  Processes are named by who made them:  *)
(* c is the process of CLI c or, in proc, the daemon it spawned; Old is    *)
(* the process a pidfile from earlier days names.  The contents of a file, *)
(* its kind and whom it is about, never repeat, so they also stand for its *)
(* fingerprint (dev, ino, mtime, size).                                    *)
(***************************************************************************)
EXTENDS Naturals, FiniteSets

CONSTANTS
  Cli,    \* CLI processes
  Old,    \* the pid in the pidfile found at first
  NoOne   \* no process

ASSUME ProcessAssumption == Old \notin Cli /\ NoOne \notin Cli \cup {Old}

VARIABLES
  file,      \* the pidfile
  cli,       \* the CLI processes
  proc,      \* daemons; "stranger" is a live process that reuses a daemon's pid
  signalled, \* processes a CLI has sent a signal to
  clobbered  \* an unlink has removed a file other than the one it was meant for

vars == <<file, cli, proc, signalled, clobbered>>

Pid == Cli \cup {Old}

\* "empty" is a claim created and not yet written, or any other contents that do
\* not parse; "legacy" a bare pid.
File == [kind : {"none", "empty", "claim", "record", "legacy"}, who : Pid \cup {NoOne}]
NoFile == [kind |-> "none", who |-> NoOne]
Empty(c) == [kind |-> "empty", who |-> c]
Claim(c) == [kind |-> "claim", who |-> c]
Record(p) == [kind |-> "record", who |-> p]
Legacy(p) == [kind |-> "legacy", who |-> p]
IsRecord(f) == f.kind \in {"record", "legacy"}

Result == {"started", "refused", "failed", "stopped", "notrunning", "gaveup", "reported", "died"}
Step == {"idle", "open", "write", "stat", "read", "judge", "compare", "unlink", "spawn", "rename",
         "drop", "poll", "ready", "killchild", "kill", "wait", "lastwait"}

\* fp and seen are the fingerprint and the contents of the last snapshot, pid the
\* process acted on, then what the snapshot is for, next where a removal leads.
CliState ==
  [cmd : {"start", "stop", "status", "restart"}, force : BOOLEAN, pc : Step \cup Result,
   again : BOOLEAN, fp : File, seen : File, pid : Pid \cup {NoOne},
   then : {"judge", "compare"}, next : {"open", "killchild"} \cup Result]

NewCli == [cmd |-> "start", force |-> FALSE, pc |-> "idle", again |-> FALSE, fp |-> NoFile,
           seen |-> NoFile, pid |-> NoOne, then |-> "judge", next |-> "open"]

TypeOK ==
  /\ file \in File
  /\ cli \in [Cli -> CliState]
  /\ proc \in [Pid -> {"none", "up", "dead", "stranger"}]
  /\ signalled \subseteq Pid
  /\ clobbered \in BOOLEAN

Init ==
  /\ file \in {NoFile, Empty(Old), Record(Old), Legacy(Old)}
  /\ cli = [c \in Cli |-> NewCli]
  /\ \E s \in {"up", "dead", "stranger"} :
       /\ IsRecord(file) \/ s = "dead"
       /\ proc = [p \in Pid |-> IF p = Old THEN s ELSE "none"]
  /\ signalled = {} /\ clobbered = FALSE

-----------------------------------------------------------------------------
At(c, step) == cli[c].pc = step
Active(c) == cli[c].pc \notin Result \cup {"idle"}
IsPidAlive(p) == proc[p] \in {"up", "stranger"}

\* A command has its result; restart goes on to start unless the stop failed.
Ended(c, r) ==
  IF cli[c].cmd = "restart" /\ r \in {"stopped", "notrunning"}
  THEN [NewCli EXCEPT !.pc = "open"]
  ELSE [NewCli EXCEPT !.pc = r, !.cmd = cli[c].cmd, !.pid = cli[c].pid]

\* Control leaves a removal for `next`.
Onward(c, where) == IF where \in Result THEN Ended(c, where) ELSE [cli[c] EXCEPT !.pc = where]

Goto(c, state) == cli' = [cli EXCEPT ![c] = state]

Holds(f, p) == IsRecord(f) /\ f.who = p

\* removePidfileIfHoldsPid starts with a snapshot of its own.
RemoveIfHoldsPid(c, p, where) ==
  [cli[c] EXCEPT !.pc = "stat", !.then = "compare", !.pid = p, !.next = where]

RemoveIfUnchanged(c, where) ==
  IF cli[c].seen.kind = "none" THEN Onward(c, where)
  ELSE [cli[c] EXCEPT !.pc = "compare", !.next = where]

\* rm -f by c.  It hits a stranger's file if that is not the one compared, or is
\* the claim of a live CLI that took over two seconds to write it.
Remove(c, meant) ==
  /\ file' = NoFile
  /\ clobbered' = (clobbered \/ /\ file.kind # "none"
                                /\ \/ file # meant
                                   \/ file.kind = "empty" /\ file.who \in Cli \ {c} /\ Active(file.who))

-----------------------------------------------------------------------------
(* runCli, and the snapshot and removal that every command uses.           *)

Invoke(c, cmd, force) ==
  /\ At(c, "idle") /\ (force => cmd \in {"stop", "restart"})
  /\ Goto(c, [NewCli EXCEPT !.cmd = cmd, !.force = force,
                            !.pc = IF cmd = "start" THEN "open" ELSE "stat"])
  /\ UNCHANGED <<file, proc, signalled, clobbered>>

StatPidfile(c) ==
  /\ At(c, "stat")
  /\ Goto(c, IF file.kind # "none" THEN [cli[c] EXCEPT !.fp = file, !.pc = "read"]
             ELSE IF cli[c].then = "judge" THEN [cli[c] EXCEPT !.seen = NoFile, !.pc = "judge"]
             ELSE Onward(c, cli[c].next))
  /\ UNCHANGED <<file, proc, signalled, clobbered>>

ReadPidfile(c) ==
  /\ At(c, "read")
  /\ Goto(c, IF cli[c].then = "judge" THEN [cli[c] EXCEPT !.seen = file, !.pc = "judge"]
             ELSE IF Holds(file, cli[c].pid) THEN [cli[c] EXCEPT !.seen = file, !.pc = "compare"]
             ELSE Onward(c, cli[c].next))
  /\ UNCHANGED <<file, proc, signalled, clobbered>>

\* Mutant: the file is removed whether or not it has changed.
MutantCompare(c) ==
  /\ At(c, "compare")
  /\ Goto(c, IF file.kind # "none" THEN [cli[c] EXCEPT !.pc = "unlink", !.fp = file] ELSE Onward(c, cli[c].next))
  /\ UNCHANGED <<file, proc, signalled, clobbered>>

\* The second stat, and then the unlink: another process may come in between.
Compare(c) ==
  /\ At(c, "compare")
  /\ Goto(c, IF file = cli[c].fp THEN [cli[c] EXCEPT !.pc = "unlink"] ELSE Onward(c, cli[c].next))
  /\ UNCHANGED <<file, proc, signalled, clobbered>>

Unlink(c) ==
  /\ At(c, "unlink")
  /\ Remove(c, cli[c].fp)
  /\ Goto(c, Onward(c, cli[c].next))
  /\ UNCHANGED <<proc, signalled>>

\* What `ps` says of a live pid: it may fail, says nothing of a legacy record, and a
\* stranger's command line may hold the token that is looked for.
ProcessMatches(f) ==
  IF f.kind = "legacy" THEN {"unknown"}
  ELSE {"unknown", "yes"} \cup (IF proc[f.who] = "stranger" THEN {"no"} ELSE {})

\* Mutant: a claim has no owner, only an age.
MutantInspect(f) ==
  CASE f.kind = "none" -> {[state |-> "none", match |-> "unknown"]}
    [] f.kind \in {"claim", "empty"} -> [state : {"starting", "stale"}, match : {"unknown"}]
    [] OTHER -> IF ~IsPidAlive(f.who) THEN {[state |-> "stale", match |-> "unknown"]}
                ELSE {[state |-> IF m = "no" THEN "stale" ELSE "running", match |-> m] : m \in ProcessMatches(f)}

\* inspectPidfile: an "empty" file counts as a start in progress while it is fresh.
InspectPidfile(f) ==
  CASE f.kind = "none" -> {[state |-> "none", match |-> "unknown"]}
    [] f.kind = "claim" -> {[state |-> IF Active(f.who) THEN "starting" ELSE "stale", match |-> "unknown"]}
    [] f.kind = "empty" -> [state : {"starting", "stale"}, match : {"unknown"}]
    [] OTHER -> IF ~IsPidAlive(f.who) THEN {[state |-> "stale", match |-> "unknown"]}
                ELSE {[state |-> IF m = "no" THEN "stale" ELSE "running", match |-> m] : m \in ProcessMatches(f)}

\* The rest of claimPidfile's EEXIST branch: one more try after a stale file.
JudgeStart(c, i) ==
  IF i.state \in {"stale", "none"} /\ ~cli[c].again
  THEN [RemoveIfUnchanged(c, "open") EXCEPT !.again = TRUE]
  ELSE Ended(c, "refused")

StopDecision(i, force) ==
  CASE i.state = "none" -> "not-running"
    [] i.state = "starting" -> "starting"
    [] i.state = "stale" -> "stale"
    [] i.state = "running" /\ i.match # "yes" /\ ~force -> "refuse-unverified"
    [] OTHER -> "kill"

JudgeStop(c, i) ==
  LET d == StopDecision(i, cli[c].force)
      f == cli[c].seen
  IN CASE d = "not-running" -> Ended(c, "notrunning")
       [] d = "stale" -> IF IsRecord(f) THEN RemoveIfHoldsPid(c, f.who, "notrunning")
                         ELSE RemoveIfUnchanged(c, "notrunning")
       [] d = "kill" -> [cli[c] EXCEPT !.pc = "kill", !.pid = f.who]
       [] OTHER -> Ended(c, "refused")

JudgeStatus(c, i) ==
  IF i.state = "stale" THEN RemoveIfUnchanged(c, "reported") ELSE Ended(c, "reported")

Judge(c) ==
  /\ At(c, "judge")
  /\ \E i \in InspectPidfile(cli[c].seen) :
       Goto(c, CASE cli[c].cmd = "start" -> JudgeStart(c, i)
                 [] cli[c].cmd = "status" -> JudgeStatus(c, i)
                 [] OTHER -> JudgeStop(c, i))
  /\ UNCHANGED <<file, proc, signalled, clobbered>>

-----------------------------------------------------------------------------
(* startDaemon.                                                            *)

\* open(pidfile, "wx")
Open(c) ==
  /\ At(c, "open")
  /\ \/ /\ file.kind = "none"
        /\ file' = Empty(c)
        /\ Goto(c, [cli[c] EXCEPT !.pc = "write"])
     \/ /\ file.kind # "none"
        /\ Goto(c, [cli[c] EXCEPT !.pc = "stat", !.then = "judge"])
        /\ UNCHANGED file
  /\ UNCHANGED <<proc, signalled, clobbered>>

\* The claim goes to the file that was opened, which may have been unlinked; if
\* it cannot be written, whatever has the name is removed.
WriteClaim(c) ==
  /\ At(c, "write")
  /\ \/ /\ file' = IF file = Empty(c) THEN Claim(c) ELSE file
        /\ Goto(c, [cli[c] EXCEPT !.pc = "spawn"])
        /\ UNCHANGED clobbered
     \/ Remove(c, Empty(c)) /\ Goto(c, Ended(c, "failed"))
  /\ UNCHANGED <<proc, signalled>>

\* spawn, or a failure before it or of it, after which the claim is dropped.
Spawn(c) ==
  /\ At(c, "spawn")
  /\ \/ /\ proc' = [proc EXCEPT ![c] = "up"]
        /\ Goto(c, [cli[c] EXCEPT !.pc = "rename", !.pid = c])
     \/ Goto(c, [cli[c] EXCEPT !.pc = "drop"]) /\ UNCHANGED proc
  /\ UNCHANGED <<file, signalled, clobbered>>

\* writeRecordAtomic renames over whatever is there; if it fails, the child is
\* killed and the claim dropped.
WriteRecordAtomic(c) ==
  /\ At(c, "rename")
  /\ \/ file' = Record(c) /\ Goto(c, [cli[c] EXCEPT !.pc = "poll"]) /\ UNCHANGED signalled
     \/ /\ signalled' = signalled \cup {c}
        /\ Goto(c, [cli[c] EXCEPT !.pc = "drop"])
        /\ UNCHANGED file
  /\ UNCHANGED <<proc, clobbered>>

DropClaim(c) ==
  /\ At(c, "drop")
  /\ Remove(c, Claim(c))
  /\ Goto(c, Ended(c, "failed"))
  /\ UNCHANGED <<proc, signalled>>

\* waitForDaemonReadiness: the pidfile is read, then the child looked at, again
\* and again until the marker is in the log and the daemon stable, or time is up.
Poll(c) ==
  /\ At(c, "poll")
  /\ Goto(c, [cli[c] EXCEPT !.seen = file, !.pc = "ready"])
  /\ UNCHANGED <<file, proc, signalled, clobbered>>

ReadyAgain(c) ==
  /\ At(c, "ready") /\ Holds(cli[c].seen, c) /\ IsPidAlive(c)
  /\ Goto(c, [cli[c] EXCEPT !.pc = "poll"])
  /\ UNCHANGED <<file, proc, signalled, clobbered>>

ReadyEnds(c) ==
  /\ At(c, "ready")
  /\ Goto(c, IF Holds(cli[c].seen, c)
             THEN IF IsPidAlive(c) THEN Ended(c, "started") ELSE RemoveIfHoldsPid(c, c, "killchild")
             ELSE [cli[c] EXCEPT !.pc = "killchild"])
  /\ UNCHANGED <<file, proc, signalled, clobbered>>

KillStartedChild(c) ==
  /\ At(c, "killchild")
  /\ signalled' = IF IsPidAlive(c) THEN signalled \cup {c} ELSE signalled
  /\ Goto(c, Ended(c, "failed"))
  /\ UNCHANGED <<file, proc, clobbered>>

-----------------------------------------------------------------------------
(* stopDaemon.                                                             *)

\* SIGTERM, which is not permitted for the process of another user.
Kill(c) ==
  /\ At(c, "kill")
  /\ \/ /\ signalled' = signalled \cup {p \in Pid : p = cli[c].pid /\ IsPidAlive(p)}
        /\ Goto(c, [cli[c] EXCEPT !.pc = "wait"])
     \/ /\ proc[cli[c].pid] = "stranger"
        /\ Goto(c, Ended(c, "gaveup"))
        /\ UNCHANGED signalled
  /\ UNCHANGED <<file, proc, clobbered>>

WaitExited(c) ==
  /\ (At(c, "wait") \/ At(c, "lastwait")) /\ ~IsPidAlive(cli[c].pid)
  /\ Goto(c, RemoveIfHoldsPid(c, cli[c].pid, "stopped"))
  /\ UNCHANGED <<file, proc, signalled, clobbered>>

\* With --force a process that did not go gets SIGKILL and two more seconds.
WaitTimesOut(c) ==
  /\ At(c, "wait") \/ At(c, "lastwait")
  /\ IsPidAlive(cli[c].pid)
  /\ Goto(c, IF At(c, "wait") /\ cli[c].force THEN [cli[c] EXCEPT !.pc = "lastwait"]
             ELSE Ended(c, "gaveup"))
  /\ UNCHANGED <<file, proc, signalled, clobbered>>

-----------------------------------------------------------------------------
(* A daemon may end by itself or because of a signal, a stranger only for  *)
(* a signal; a CLI may be killed between any two steps.                    *)

ProcessExits(p) ==
  /\ proc[p] = "up" \/ (proc[p] = "stranger" /\ p \in signalled)
  /\ proc' = [proc EXCEPT ![p] = "dead"]
  /\ UNCHANGED <<file, cli, signalled, clobbered>>

\* pid keeps a daemon whose start dies in the window between spawn and record.
CliDies(c) ==
  /\ Active(c)
  /\ Goto(c, [NewCli EXCEPT !.pc = "died", !.cmd = cli[c].cmd,
                            !.pid = IF At(c, "rename") THEN c ELSE NoOne])
  /\ UNCHANGED <<file, proc, signalled, clobbered>>

Start(c) ==
  \/ Open(c) \/ WriteClaim(c) \/ Spawn(c) \/ WriteRecordAtomic(c) \/ DropClaim(c)
  \/ Poll(c) \/ ReadyAgain(c) \/ ReadyEnds(c) \/ KillStartedChild(c)

Stop(c) == Kill(c) \/ WaitExited(c) \/ WaitTimesOut(c)

Inspects(c) == StatPidfile(c) \/ ReadPidfile(c) \/ Compare(c) \/ Unlink(c) \/ Judge(c)

Next ==
  \/ \E c \in Cli :
       \/ \E cmd \in {"start", "stop", "status", "restart"}, force \in BOOLEAN : Invoke(c, cmd, force)
       \/ Inspects(c) \/ Start(c) \/ Stop(c) \/ CliDies(c)
  \/ \E p \in Pid : ProcessExits(p)

Spec == Init /\ [][Next]_vars

-----------------------------------------------------------------------------
(* Safety.  service/README.md names the limits of a pidfile: a removal is  *)
(* not atomic (clobbered), and a start may be killed before it has         *)
(* published its daemon.                                                   *)

\* The CLI has the claim and has not published its daemon.
Claiming(c) == cli[c].pc \in {"write", "spawn", "rename"}

\* claimPidfile, the lock: while a live CLI is starting a daemon the pidfile is its
\* claim, so no second one gets that far and no stop or status takes it away.
ClaimHeld == ~clobbered => \A c \in Cli : Claiming(c) => file \in {Empty(c), Claim(c)}

\* A daemon nobody has asked to go is the one the pidfile names, or its start is
\* still watching over it, or was killed between spawn and record: no other way
\* leaves one running unknown to `stop`.
NoOrphan ==
  ~clobbered => \A c \in Cli : proc[c] = "up" /\ c \notin signalled =>
    file = Record(c) \/ Active(c) \/ (At(c, "died") /\ cli[c].pid = c)
-----------------------------------------------------------------------------
(* The inductive invariant, for as long as no removal has hit a wrong file. *)

Noted(f) == file = f \/ \E d \in Cli : cli[d].fp = f \/ cli[d].seen = f

\* A CLI in this state has not created a claim yet.
BeforeClaim(s) ==
  \/ s.pc \in {"idle", "open", "judge", "kill", "wait", "lastwait"}
  \/ s.pc \in {"stat", "read", "compare", "unlink"} /\ s.next # "killchild"

\* A start makes its claim, writes it, spawns and publishes, each once.
FilesInOrder ==
  \A c \in Cli :
    /\ BeforeClaim(cli[c]) => ~Noted(Empty(c))
    /\ BeforeClaim(cli[c]) \/ At(c, "write") => ~Noted(Claim(c))
    /\ BeforeClaim(cli[c]) \/ Claiming(c) => ~Noted(Record(c))
    /\ BeforeClaim(cli[c]) \/ At(c, "write") \/ At(c, "spawn") => proc[c] = "none"

\* Only a daemon that was spawned is ever named by a record or acted on.
NamedIsSpawned ==
  \A c \in Cli : proc[c] = "none" =>
    ~At(c, "rename") /\ ~Holds(file, c) /\ \A d \in Cli : cli[d].pid # c /\ ~Holds(cli[d].seen, c)

\* ClaimHeld, with what the file holds at each step.
ClaimMatchesStep ==
  \A c \in Cli :
    /\ At(c, "write") => file = Empty(c)
    /\ At(c, "spawn") \/ At(c, "rename") => file = Claim(c)

\* Nobody is served by the file any more.
Spent(f) ==
  \/ f.kind = "claim" /\ ~Active(f.who)
  \/ f.kind = "record" /\ proc[f.who] # "up"

\* A snapshot whose file is still there was judged for what the file says, and a
\* removal under way is of a file that is spent.
SnapshotJudged ==
  \A c, d \in Cli : \A f \in {Claim(c), Record(c)} : cli[d].fp = f /\ file = f =>
    /\ At(d, "judge") => cli[d].seen = f
    /\ At(d, "compare") \/ At(d, "unlink") => Spent(f)

\* removePidfileIfHoldsPid is called for a process that has gone, by a start for
\* its own daemon.
RemovalOfDead ==
  \A d \in Cli :
    /\ cli[d].pc \in {"stat", "read"} =>
         /\ \A c \in Cli : cli[d].then = "compare" /\ cli[d].pid = c => proc[c] # "up"
         /\ cli[d].next = "killchild" => cli[d].then = "compare"
    /\ cli[d].pc \in {"open", "judge"} => cli[d].next # "killchild"

\* NoOrphan, with the step at which a start has not published its daemon yet.
DaemonIsPublished ==
  \A c \in Cli : proc[c] = "up" /\ c \notin signalled =>
    file = Record(c) \/ At(c, "rename") \/ (At(c, "died") /\ cli[c].pid = c)

IInv ==
  /\ TypeOK
  /\ ~clobbered =>
       /\ FilesInOrder
       /\ NamedIsSpawned
       /\ ClaimMatchesStep
       /\ SnapshotJudged
       /\ RemovalOfDead
       /\ DaemonIsPublished
=============================================================================
