----------------------------- MODULE JobManager -----------------------------
(***************************************************************************)
(* The job core of the hugin daemon: JobManager (src/jobs/manager.ts) with *)
(* its JobRegistry, the durable EventLog, the part of Daemon.runSession    *)
(* that reports durable state and applies resume directives, and the       *)
(* engine callbacks that drive it.                                         *)
(*                                                                         *)
(* JavaScript runs a handler to completion, so a handler is one action.    *)
(* What interleaves is: inbound frames, engine callbacks, timers, the      *)
(* connection going up and down, and a crash of the process, which may     *)
(* also fall between two SQL statements of a handler.                      *)
(*                                                                         *)
(* `relay` is the far side, external: its state is what it has received,   *)
(* and it is bound only by the protocol's rules (it acks what it has,      *)
(* answers every reported attempt with a directive, never re-assigns an    *)
(* attempt whose result it has acked).  A frame sent while conn = "up"     *)
(* reaches the relay; from the moment the link is "broken" until the       *)
(* daemon notices, frames vanish.                                          *)
(*                                                                         *)
(* Left to other modules: the approval timers of a JobState and the        *)
(* durations in startedAt; neither feeds back into the state kept here.    *)
(***************************************************************************)
EXTENDS EventLog

CONSTANTS
  NoAttempt,      \* null
  CapAttempt,     \* per-attempt unacked cap (the tighter of events and bytes)
  CapConn,        \* per-connection unacked cap, over all attempts
  MaxConcurrent,  \* capacity of the JobRegistry
  Faults          \* the faults an instance includes, out of FaultKinds

ASSUME CapAssumption == CapAttempt \in Nat /\ CapConn \in Nat /\ MaxConcurrent \in Nat
\* "late": a run calls back after its onDone, because it outlived its hour or was
\* cancelled while its approval bridge started; "crash": the process dies between
\* two handlers; "torn": it dies between two statements of one handler.
FaultKinds == {"late", "crash", "torn"}
ASSUME FaultAssumption == Faults \subseteq FaultKinds
ASSUME AttemptAssumption == NoAttempt \notin Attempt /\ IsFiniteSet(Attempt)

VARIABLES
  attempts, events, results,  \* the three tables of the EventLog
  registry,   \* JobRegistry: attempt -> the run whose JobState it holds
  job,        \* the JobState objects, one per run
  conn,       \* "down", "hello" (awaiting hello.accepted), "up", "broken"
  hello,      \* what the hello reported, and what it was too early to report
  relay       \* per attempt, what the relay knows (external)

store == <<attempts, events, results>>
memory == <<registry, job>>
vars == <<attempts, events, results, registry, job, conn, hello, relay>>

-----------------------------------------------------------------------------
(* JobState.  engine is the EngineRun behind it: "starting" until the      *)
(* child process exists, "spawned" while it runs, "late" after onDone if   *)
(* onEvent may still come: a timed-out run's child has output left in its  *)
(* pipes, or a cancelled run's bridge.start rejects (EngineRun's "late"    *)
(* and "ending", as one).                                                  *)
(* state.run is non-null exactly while the engine is starting or spawned.  *)
(* prev is prevLease while the rotation overlap lasts, 0 afterwards.       *)

EngineState == {"none", "starting", "spawned", "late", "gone"}

JobState ==
  [attempt : Attempt \cup {NoAttempt}, lease : LeaseId, prev : LeaseId,
   status : {"running", "cancelling"}, seq : 0 .. MaxSeq,
   paused : BOOLEAN, fenced : BOOLEAN, engine : EngineState]

NoJob == [attempt |-> NoAttempt, lease |-> 0, prev |-> 0, status |-> "running",
          seq |-> 0, paused |-> FALSE, fenced |-> FALSE, engine |-> "none"]

\* A finished JobState is out of the registry and referenced by nobody.
SpentJob == [NoJob EXCEPT !.engine = "gone"]

Live(r) == job[r].engine \in {"starting", "spawned"}
Registered(a) == registry[a] # NoRun
CurrentJob(a) == job[registry[a]]

\* Mutant: off by one.
MutantAtCapacity == Cardinality({a \in Attempt : Registered(a)}) > MaxConcurrent

AtCapacity == Cardinality({a \in Attempt : Registered(a)}) >= MaxConcurrent

\* active and pending: active_jobs and pending_results of a hello that awaits its
\* answer.  missed, once that is here: the runs that ended in between, whose results
\* no frame of this connection carries.
Hello == [active : SUBSET Attempt, pending : SUBSET Attempt, missed : SUBSET Attempt]
NoHello == [active |-> {}, pending |-> {}, missed |-> {}]

-----------------------------------------------------------------------------
(* The relay, per attempt.  lease is the last one it issued, base the one  *)
(* its current assignment began with, open whether the assignment is in    *)
(* force, closed whether it has acked the result, run the agent_run_id it  *)
(* was told, got the contiguous prefix of the stream it stored, gap        *)
(* whether a frame ever skipped ahead of that prefix, result the terminal  *)
(* result it received.                                                     *)

RelayState ==
  [lease : LeaseId, base : LeaseId, open : BOOLEAN, closed : BOOLEAN, run : RunRef,
   got : 0 .. MaxSeq, gap : BOOLEAN, result : ResultRow]

RelayIdle == [lease |-> 0, base |-> 0, open |-> FALSE, closed |-> FALSE, run |-> NoRun,
              got |-> 0, gap |-> FALSE, result |-> NoResult]

\* Revoked, abandoned or refused: the relay forgets the run, not the lease number.
RelayForgets(rl) == [RelayIdle EXCEPT !.lease = rl.lease, !.closed = rl.closed]

RelayAccepts(rl, r) ==
  IF rl.run = r THEN rl
  ELSE [rl EXCEPT !.run = r, !.got = 0, !.gap = FALSE, !.result = NoResult]

\* How far 1..n extends without a gap once the seqs in S are stored too.
Contiguous(n, S) == n + Cardinality({k \in (n + 1) .. MaxSeq : (n + 1) .. k \subseteq S})

\* stream.event frames arriving in seq order; the result ends the stream.
RelayStores(rl, r, S) ==
  IF rl.run # r \/ rl.result.status # "absent" THEN rl
  ELSE LET k == Contiguous(rl.got, S)
       IN [rl EXCEPT !.got = k, !.gap = @ \/ \E s \in S : s > k]

RelayResult(rl, row) == IF rl.run = row.run THEN [rl EXCEPT !.result = row] ELSE rl

\* safeSend: a frame reaches the relay only over a working connection.
Delivered(a, rl) == relay' = IF conn = "up" THEN [relay EXCEPT ![a] = rl] ELSE relay

Linked == conn \in {"up", "broken"}

-----------------------------------------------------------------------------
TypeOK ==
  /\ attempts \in [Attempt -> AttemptRow]
  /\ events \in [Attempt -> SUBSET EventRow]
  /\ results \in [Attempt -> ResultRow]
  /\ registry \in [Attempt -> RunRef]
  /\ job \in [Run -> JobState]
  /\ conn \in {"down", "hello", "up", "broken"}
  /\ hello \in Hello
  /\ relay \in [Attempt -> RelayState]

Init ==
  /\ attempts = [a \in Attempt |-> NoRow]
  /\ events = [a \in Attempt |-> {}]
  /\ results = [a \in Attempt |-> NoResult]
  /\ registry = [a \in Attempt |-> NoRun]
  /\ job = [r \in Run |-> NoJob]
  /\ conn = "down"
  /\ hello = NoHello
  /\ relay = [a \in Attempt |-> RelayIdle]

-----------------------------------------------------------------------------
(* Lease checks and backpressure.                                          *)

LeaseOk(a, l) ==
  IF Registered(a)
  THEN \/ l = CurrentJob(a).lease
       \/ CurrentJob(a).prev # 0 /\ l = CurrentJob(a).prev
  ELSE l = attempts[a].lease

OverCap(evs, a) == UnackedEvents(evs, a) >= CapAttempt \/ ConnUnacked(evs) >= CapConn

\* now() passes leaseOverlapUntil.
OverlapExpires(r) ==
  /\ job[r].prev # 0
  /\ job' = [job EXCEPT ![r].prev = 0]
  /\ UNCHANGED <<store, registry, conn, hello, relay>>

-----------------------------------------------------------------------------
(* handleAssign.  The relay may repeat an assign under the lease in force, *)
(* or issue the next lease once none is.                                   *)

AssignedLease(a, l) ==
  /\ ~relay[a].closed
  /\ \/ relay[a].open /\ l = relay[a].lease
     \/ ~relay[a].open /\ l = relay[a].lease + 1

Issued(a, l) ==
  [relay[a] EXCEPT !.lease = l, !.open = TRUE, !.base = IF relay[a].open THEN @ ELSE l]

\* What the reply does at the relay; unanswered, the lease still counts as issued.
AssignReplied(a, l, reply) ==
  relay' = [relay EXCEPT ![a] = IF conn = "up" THEN reply ELSE Issued(a, l)]

Existing(a) == IF Registered(a)
               THEN [lease |-> CurrentJob(a).lease, run |-> registry[a]]
               ELSE [lease |-> attempts[a].lease, run |-> attempts[a].run]

\* Mutant: duplicates are looked up in memory only.
MutantKnown(a) == Registered(a)

Known(a) == Registered(a) \/ HasRow(attempts, a)

AssignDuplicate(a, l) ==
  /\ Linked /\ AssignedLease(a, l) /\ Known(a)
  /\ AssignReplied(a, l, IF Existing(a).lease = l
                         THEN RelayAccepts(Issued(a, l), Existing(a).run)
                         ELSE RelayForgets(Issued(a, l)))
  /\ UNCHANGED <<store, memory, conn, hello>>

\* busy, engine.validate, or no approval gate for a gated job.
AssignRefused(a, l) ==
  /\ Linked /\ AssignedLease(a, l) /\ ~Known(a)
  /\ AssignReplied(a, l, RelayForgets(Issued(a, l)))
  /\ UNCHANGED <<store, memory, conn, hello>>

AssignStarts(a, l, r) ==
  /\ Linked /\ AssignedLease(a, l) /\ ~Known(a)
  /\ ~AtCapacity
  /\ job[r].engine = "none"
  /\ attempts' = SetAttemptStatus(CreateAttempt(attempts, a, l, r), a, "running")
  /\ registry' = [registry EXCEPT ![a] = r]
  /\ job' = [job EXCEPT ![r] = [NoJob EXCEPT !.attempt = a, !.lease = l, !.engine = "starting"]]
  /\ AssignReplied(a, l, RelayAccepts(Issued(a, l), r))
  /\ UNCHANGED <<events, results, conn, hello>>

-----------------------------------------------------------------------------
(* Engine callbacks.                                                       *)

\* onEvent for a run that is not fenced, up to the write that may throw.
EventFits(r) == ~job[r].fenced /\ job[r].seq < MaxSeq

OnEvent(r) ==
  LET a == job[r].attempt
      s == job[r].seq + 1
  IN /\ EventFits(r)
     /\ ~EventKeyTaken(events, a, s)
     /\ events' = InsertEvent(events, a, s, r)
     /\ attempts' = RaiseLastSeq(attempts, a, s)
     /\ job' = [job EXCEPT ![r].seq = s, ![r].paused = @ \/ OverCap(events', a)]
     /\ Delivered(a, RelayStores(relay[a], r, {s}))
     /\ UNCHANGED <<results, registry, conn, hello>>

\* A line of stdout: ClaudeEngine stops draining while it is paused.
EngineStdout(r) == job[r].engine = "spawned" /\ ~job[r].paused /\ OnEvent(r)

\* stderr is forwarded whether or not the run is paused.
EngineStderr(r) == job[r].engine = "spawned" /\ OnEvent(r)

\* Output still in the pipes of a child killed by the run timeout, or the
\* engine_error of a run cancelled while its bridge started.
EngineLateOutput(r) == job[r].engine = "late" /\ OnEvent(r)

ResultOf(r, s, n) == [lease |-> job[r].lease, run |-> r, seq |-> n, status |-> s]

\* Mutant: a stale callback evicts whatever run the registry holds now.
MutantOnDoneByKey(r, s, n, e) ==
  LET a == job[r].attempt
  IN /\ registry' = [registry EXCEPT ![a] = NoRun]
     /\ IF job[r].fenced
        THEN /\ job' = [job EXCEPT ![r] = SpentJob]
             /\ UNCHANGED <<results, relay>>
        ELSE /\ results' = SaveResult(results, a, ResultOf(r, s, n))
             /\ job' = [job EXCEPT ![r] = IF e = "late" THEN [@ EXCEPT !.engine = e] ELSE SpentJob]
             /\ Delivered(a, RelayResult(RelayStores(relay[a], r, {k \in {n} : k > job[r].seq}),
                                         ResultOf(r, s, n)))

\* Mutant: the terminal callback forgets to free the registry slot.
MutantOnDoneKeepsSlot(r, s, n, e) ==
  LET a == job[r].attempt
  IN /\ UNCHANGED registry
     /\ job' = [job EXCEPT ![r].engine = "gone"]
     /\ results' = SaveResult(results, a, ResultOf(r, s, n))
     /\ Delivered(a, RelayResult(relay[a], ResultOf(r, s, n)))

\* onDone with seq n, leaving the engine in state e.
OnDone(r, s, n, e) ==
  LET a == job[r].attempt
  IN IF job[r].fenced
     THEN /\ registry' = IF registry[a] = r THEN [registry EXCEPT ![a] = NoRun] ELSE registry
          /\ job' = [job EXCEPT ![r] = SpentJob]
          /\ UNCHANGED <<results, relay>>
     ELSE /\ results' = SaveResult(results, a, ResultOf(r, s, n))
          /\ registry' = IF registry[a] = r THEN [registry EXCEPT ![a] = NoRun] ELSE registry
          /\ job' = [job EXCEPT ![r] = IF e = "late" THEN [@ EXCEPT !.engine = e] ELSE SpentJob]
          /\ Delivered(a, RelayResult(RelayStores(relay[a], r, {k \in {n} : k > job[r].seq}),
                                      ResultOf(r, s, n)))

DoneStatus(r, s) ==
  attempts' = IF job[r].fenced THEN attempts ELSE SetAttemptStatus(attempts, job[r].attempt, s)

EngineSpawns(r) ==
  /\ job[r].engine = "starting"
  /\ job' = [job EXCEPT ![r].engine = "spawned"]
  /\ UNCHANGED <<store, registry, conn, hello, relay>>

\* Worktree, bridge or mcp-config failure, or child 'error': an engine_error
\* event, then the result.
EngineFails(r) ==
  LET a == job[r].attempt
      s == job[r].seq + 1
  IN /\ Live(r) /\ EventFits(r)
     /\ ~EventKeyTaken(events, a, s)
     /\ events' = InsertEvent(events, a, s, r)
     /\ attempts' = SetAttemptStatus(RaiseLastSeq(attempts, a, s), a, "failed")
     /\ OnDone(r, "failed", s, "gone")
     /\ UNCHANGED <<conn, hello>>

\* child 'close'; after a cancel the outcome is never success.
EngineExits(r, s) ==
  /\ job[r].engine = "spawned"
  /\ job[r].status = "cancelling" => s # "completed"
  /\ OnDone(r, s, job[r].seq, "gone")
  /\ DoneStatus(r, s)
  /\ UNCHANGED <<events, conn, hello>>

\* The run timeout kills the group and finishes at once, before 'close'.
EngineTimesOut(r) ==
  /\ "late" \in Faults
  /\ job[r].engine = "spawned"
  /\ OnDone(r, "failed", job[r].seq, "late")
  /\ DoneStatus(r, "failed")
  /\ UNCHANGED <<events, conn, hello>>

EngineLateClose(r) ==
  /\ job[r].engine = "late"
  /\ job' = [job EXCEPT ![r] = SpentJob]
  /\ UNCHANGED <<store, registry, conn, hello, relay>>

-----------------------------------------------------------------------------
(* Inbound frames about a running or finished attempt.                     *)

Frame(a, l) == Linked /\ relay[a].open /\ ~relay[a].closed /\ l \in 1 .. relay[a].lease

\* Mutant: the ack frees the rows but never resumes the paused run.
MutantHandleStreamAck(a, l, n) ==
  /\ Frame(a, l) /\ LeaseOk(a, l)
  /\ n \in 1 .. relay[a].got
  /\ events' = AckEvents(events, a, n)
  /\ UNCHANGED <<attempts, results, memory, conn, hello, relay>>

HandleStreamAck(a, l, n) ==
  /\ Frame(a, l) /\ LeaseOk(a, l)
  /\ n \in 1 .. relay[a].got
  /\ events' = AckEvents(events, a, n)
  /\ job' = IF Registered(a) /\ CurrentJob(a).paused /\ ~OverCap(events', a)
            THEN [job EXCEPT ![registry[a]].paused = FALSE] ELSE job
  /\ UNCHANGED <<attempts, results, registry, conn, hello, relay>>

\* The relay holds a result and acks it, under its lease or the result's own.
AckingResult(a, l) ==
  /\ Frame(a, l) /\ relay[a].result.status # "absent"
  /\ l \in {relay[a].lease, relay[a].result.lease}

HandleResultAck(a, l) ==
  /\ AckingResult(a, l)
  /\ relay' = [relay EXCEPT ![a].closed = TRUE]
  /\ IF LeaseOk(a, l) /\ AckMatches(results, a, Digest(relay[a].result))
     THEN /\ results' = DeleteResult(results, a)
          /\ attempts' = DeleteAttemptRow(attempts, a)
          /\ events' = DeleteEvents(events, a)
          /\ registry' = [registry EXCEPT ![a] = NoRun]
     ELSE UNCHANGED <<store, registry>>
  /\ UNCHANGED <<job, conn, hello>>

\* The next lease of an attempt that the relay knows somebody holds one for.
HandleLeaseGranted(a) ==
  LET l == relay[a].lease + 1
  IN /\ Linked /\ relay[a].open /\ ~relay[a].closed /\ l <= MaxLease
     /\ relay[a].run # NoRun
     /\ relay' = [relay EXCEPT ![a].lease = l]
     /\ IF Registered(a)
        THEN /\ job' = [job EXCEPT ![registry[a]].prev = CurrentJob(a).lease,
                                   ![registry[a]].lease = l]
             /\ attempts' = SetAttemptLease(attempts, a, l)
        ELSE UNCHANGED <<job, attempts>>
     /\ UNCHANGED <<events, results, registry, conn, hello>>

\* run.cancel() on a run with no child yet finishes synchronously, but does not
\* recall a bridge.start that is awaited.
HandleCancel(a, l) ==
  LET r == registry[a]
  IN /\ Frame(a, l) /\ Registered(a) /\ LeaseOk(a, l)
     /\ IF job[r].engine = "starting"
        THEN /\ \E e \in {"gone"} \cup (Faults \cap {"late"}) : OnDone(r, "cancelled", job[r].seq, e)
             /\ DoneStatus(r, "cancelled")
        ELSE /\ job' = [job EXCEPT ![r].status = "cancelling"]
             /\ attempts' = SetAttemptStatus(attempts, a, "cancelling")
             /\ UNCHANGED <<results, registry, relay>>
     /\ UNCHANGED <<events, conn, hello>>

\* state.fenced = true; run.cancel(0).
Fence(j) == IF j.engine = "starting" THEN SpentJob ELSE [j EXCEPT !.fenced = TRUE]

HandleRevoke(a) ==
  /\ Linked /\ relay[a].open /\ ~relay[a].closed
  /\ relay' = [relay EXCEPT ![a] = RelayForgets(@)]
  /\ IF Registered(a) /\ LeaseOk(a, relay[a].lease)
     THEN /\ job' = [job EXCEPT ![registry[a]] = Fence(@)]
          /\ registry' = [registry EXCEPT ![a] = NoRun]
          /\ attempts' = DeleteAttemptRow(attempts, a)
          /\ events' = DeleteEvents(events, a)
     ELSE UNCHANGED <<memory, attempts, events>>
  /\ UNCHANGED <<results, conn, hello>>

-----------------------------------------------------------------------------
(* The connection: Daemon.runSession.  The durable state is read when the  *)
(* socket opens; hello.accepted comes back later, and only then is the     *)
(* client made active and the directives applied, in one synchronous step. *)

Dial ==
  /\ conn = "down"
  /\ conn' = "hello"
  /\ hello' = [NoHello EXCEPT !.active = ActiveJobsForResume(attempts),
                             !.pending = PendingResults(results)]
  /\ UNCHANGED <<store, memory, relay>>

\* rejected, timed out, stale connection_epoch, or the socket closed.
HandshakeFails ==
  /\ conn = "hello"
  /\ conn' = "down"
  /\ hello' = NoHello
  /\ UNCHANGED <<store, memory, relay>>

LinkBreaks == conn = "up" /\ conn' = "broken" /\ UNCHANGED <<store, memory, hello, relay>>

Disconnect ==
  /\ Linked
  /\ conn' = "down"
  /\ hello' = NoHello
  /\ UNCHANGED <<store, memory, relay>>

\* While partitioned the relay may let a lease lapse, or its ack may be lost.
RelayGivesUp(a) ==
  /\ conn # "up" /\ relay[a].open /\ ~relay[a].closed
  /\ relay' = [relay EXCEPT ![a] = RelayForgets(@)]
  /\ UNCHANGED <<store, memory, conn, hello>>

ResultAckLost(a) ==
  /\ conn # "up" /\ relay[a].open /\ ~relay[a].closed /\ relay[a].result.status # "absent"
  /\ relay' = [relay EXCEPT ![a].closed = TRUE]
  /\ UNCHANGED <<store, memory, conn, hello>>

-----------------------------------------------------------------------------
(* applyResume.  A directive is an action and a lease: the schema asks for *)
(* one to resume or resend, and 0 stands for none.  "resume_and_resend" is *)
(* resume_from then resend_result.                                         *)

Resumes == {"resume_from", "resume_and_resend"}
Resends == {"resend_result", "resume_and_resend"}
Drops == {"ack_pending", "abandon"}
Directive == [act : Resumes \cup Resends \cup Drops \cup {"none"}, lease : LeaseId]

\* The relay answers exactly the attempts the hello reported, and abandons one
\* reported under a lease older than its current assignment.
DirectiveFor(a, d) ==
  LET rl == relay[a]
      lapsed == ~rl.open \/ attempts[a].lease < rl.base \/ (rl.closed /\ a \notin hello.pending)
  IN IF a \notin hello.active \cup hello.pending THEN d.act = "none" /\ d.lease = 0
     ELSE \/ d.act = "abandon" /\ d.lease = 0 /\ ~(rl.closed /\ a \in hello.pending)
          \/ /\ d.act = "ack_pending" /\ d.lease = 0 /\ ~lapsed
             /\ a \in hello.pending /\ rl.result.status # "absent"
          \/ /\ d.act \in Resumes \cup Resends /\ ~lapsed /\ ~rl.closed
             /\ d.act \in Resends <=> a \in hello.pending
             /\ d.lease \in {rl.lease, rl.lease + 1}

Adopts(d) == d.act \in Resumes \cup Resends /\ d.lease # 0

ResumedRow(a, d) ==
  IF d.act \in Drops THEN NoRow
  ELSE IF Adopts(d) THEN SetAttemptLease(attempts, a, d.lease)[a] ELSE attempts[a]

ResumedEvents(a, d) == IF d.act \in Drops THEN {} ELSE events[a]

ResumedResult(a, d) ==
  IF d.act \in Drops THEN NoResult
  ELSE IF d.act \in Resends /\ Adopts(d) THEN UpdateResult(results, a, d.lease)[a] ELSE results[a]

\* adoptLease on the live JobState; abandon fences it, ack_pending does not.
ResumedJob(r, d) ==
  IF d.act = "abandon" THEN Fence(job[r])
  ELSE IF Adopts(d) /\ job[r].lease # d.lease
       THEN [job[r] EXCEPT !.prev = job[r].lease, !.lease = d.lease] ELSE job[r]

ResumedRelay(a, d) ==
  LET known == RelayAccepts(relay[a], attempts[a].run)
      leased == IF d.lease # 0 THEN [known EXCEPT !.lease = d.lease] ELSE known
      streamed == IF d.act \in Resumes
                  THEN RelayStores(leased, leased.run,
                                   {e.seq : e \in EventsAfter(events, a, leased.got)})
                  ELSE leased
  IN CASE d.act = "none" -> relay[a]
       [] d.act = "abandon" -> RelayForgets(relay[a])
       [] d.act = "ack_pending" -> [relay[a] EXCEPT !.closed = TRUE]
       [] d.act \in Resumes \cup Resends ->
            IF d.act \in Resends /\ HasRow(results, a)
            THEN RelayResult(streamed, ResumedResult(a, d)) ELSE streamed

HelloAccepted ==
  /\ conn = "hello"
  /\ conn' = "up"
  /\ \E dir \in [Attempt -> Directive] :
       /\ \A a \in Attempt : DirectiveFor(a, dir[a])
       /\ attempts' = [a \in Attempt |-> ResumedRow(a, dir[a])]
       /\ events' = [a \in Attempt |-> ResumedEvents(a, dir[a])]
       /\ results' = [a \in Attempt |-> ResumedResult(a, dir[a])]
       /\ registry' = [a \in Attempt |-> IF dir[a].act \in Drops THEN NoRun ELSE registry[a]]
       /\ job' = [r \in Run |-> IF job[r].attempt \in Attempt /\ registry[job[r].attempt] = r
                                THEN ResumedJob(r, dir[job[r].attempt]) ELSE job[r]]
       /\ relay' = [a \in Attempt |-> ResumedRelay(a, dir[a])]
  /\ hello' = [NoHello EXCEPT !.missed = {a \in hello.active \ hello.pending : HasRow(results', a)}]

-----------------------------------------------------------------------------
(* The process dies: memory is lost, tables stay.  CrashIn... are deaths   *)
(* between two statements of one handler.  A duplicate event key throws    *)
(* out of the engine callback and takes the process down the same way.     *)

Dies ==
  /\ registry' = [a \in Attempt |-> NoRun]
  /\ job' = [r \in Run |-> IF job[r].engine = "none" THEN NoJob ELSE SpentJob]
  /\ conn' = "down"
  /\ hello' = NoHello

Crash == "crash" \in Faults /\ Dies /\ UNCHANGED <<store, relay>>

EventKeyThrows(r) ==
  /\ job[r].engine \in {"starting", "spawned", "late"} /\ EventFits(r)
  /\ EventKeyTaken(events, job[r].attempt, job[r].seq + 1)
  /\ Dies /\ UNCHANGED <<store, relay>>

CrashInAssign(a, l, r) ==
  /\ Linked /\ AssignedLease(a, l) /\ ~Known(a) /\ ~AtCapacity /\ job[r].engine = "none"
  /\ attempts' = CreateAttempt(attempts, a, l, r)
  /\ relay' = [relay EXCEPT ![a] = Issued(a, l)]
  /\ registry' = [x \in Attempt |-> NoRun]
  /\ job' = [x \in Run |-> IF job[x].engine = "none" /\ x # r THEN NoJob ELSE SpentJob]
  /\ conn' = "down" /\ hello' = NoHello
  /\ UNCHANGED <<events, results>>

CrashInAppend(r) ==
  /\ job[r].engine \in {"starting", "spawned", "late"} /\ EventFits(r)
  /\ ~EventKeyTaken(events, job[r].attempt, job[r].seq + 1)
  /\ events' = InsertEvent(events, job[r].attempt, job[r].seq + 1, r)
  /\ Dies /\ UNCHANGED <<attempts, results, relay>>

CrashInOnDone(r, s) ==
  /\ job[r].engine = "spawned" /\ ~job[r].fenced
  /\ results' = SaveResult(results, job[r].attempt, ResultOf(r, s, job[r].seq))
  /\ Dies /\ UNCHANGED <<attempts, events, relay>>

\* ackResult, then deleteAttempt's two statements.
CrashInResultAck(a, l) ==
  /\ AckingResult(a, l) /\ LeaseOk(a, l) /\ AckMatches(results, a, Digest(relay[a].result))
  /\ relay' = [relay EXCEPT ![a].closed = TRUE]
  /\ results' = DeleteResult(results, a)
  /\ attempts' \in {attempts, DeleteAttemptRow(attempts, a)}
  /\ Dies /\ UNCHANGED events

CrashInRevoke(a) ==
  /\ Linked /\ relay[a].open /\ ~relay[a].closed
  /\ Registered(a) /\ LeaseOk(a, relay[a].lease)
  /\ relay' = [relay EXCEPT ![a] = RelayForgets(@)]
  /\ attempts' = DeleteAttemptRow(attempts, a)
  /\ Dies /\ UNCHANGED <<events, results>>

\* A resume list whose first directive is d for a, cut short inside it.
CrashInResume(a, d) ==
  /\ conn = "hello" /\ DirectiveFor(a, d)
  /\ \/ /\ d.act \in Drops
        /\ results' = DeleteResult(results, a)
        /\ attempts' \in {attempts, DeleteAttemptRow(attempts, a)}
        /\ relay' = [relay EXCEPT ![a] = ResumedRelay(a, d)]
     \/ /\ d.act \in Resends /\ Adopts(d)
        /\ attempts' = SetAttemptLease(attempts, a, d.lease)
        /\ relay' = [relay EXCEPT ![a].lease = d.lease]
        /\ UNCHANGED results
  /\ Dies /\ UNCHANGED events

-----------------------------------------------------------------------------
Inbound(a) ==
  \/ \E l \in 1 .. MaxLease :
       \/ AssignDuplicate(a, l)
       \/ AssignRefused(a, l)
       \/ \E r \in Run : AssignStarts(a, l, r)
       \/ \E n \in 1 .. MaxSeq : HandleStreamAck(a, l, n)
       \/ HandleResultAck(a, l)
       \/ HandleCancel(a, l)
  \/ HandleLeaseGranted(a)
  \/ HandleRevoke(a)

Engine(r) ==
  \/ EngineSpawns(r)
  \/ EngineFails(r)
  \/ EngineStdout(r)
  \/ EngineStderr(r)
  \/ \E s \in FinalStatus : EngineExits(r, s)
  \/ EngineTimesOut(r)
  \/ EngineLateOutput(r)
  \/ EngineLateClose(r)
  \/ OverlapExpires(r)

Session ==
  \/ Dial
  \/ HandshakeFails
  \/ HelloAccepted
  \/ LinkBreaks
  \/ Disconnect
  \/ \E a \in Attempt : RelayGivesUp(a) \/ ResultAckLost(a)

TornCrash ==
  \/ \E r \in Run : CrashInAppend(r)
  \/ \E r \in Run, s \in FinalStatus : CrashInOnDone(r, s)
  \/ \E a \in Attempt, l \in 1 .. MaxLease :
       CrashInResultAck(a, l) \/ \E r \in Run : CrashInAssign(a, l, r)
  \/ \E a \in Attempt : CrashInRevoke(a) \/ \E d \in Directive : CrashInResume(a, d)

Next ==
  \/ \E a \in Attempt : Inbound(a)
  \/ \E r \in Run : Engine(r)
  \/ Session
  \/ Crash
  \/ \E r \in Run : EventKeyThrows(r)
  \/ "torn" \in Faults /\ TornCrash

Spec == Init /\ [][Next]_vars

-----------------------------------------------------------------------------
(* Safety.                                                                 *)

\* manager.ts "Idempotent by attempt_id", onDone's identity gate: whatever is
\* re-assigned, revoked or called back late, a run that still counts is the one
\* the registry holds, so an attempt never has two.
LiveRunIsRegistered ==
  \A r \in Run : Live(r) /\ ~job[r].fenced => registry[job[r].attempt] = r

\* handleResultAck and ack_pending drop the registry entry without fencing it:
\* sound only because a stored result and a running JobState never coexist, and
\* the row the ack's lease is checked against outlives the result.
ResultMeansFinished ==
  \A a \in Attempt : HasRow(results, a) => HasRow(attempts, a) /\ ~Registered(a)

\* registry.ts atCapacity: whatever order runs end, are revoked, abandoned or
\* replaced in, no more than MaxConcurrent runs that still count are alive.
LiveRunsWithinCapacity ==
  Cardinality({r \in Run : Live(r) /\ ~job[r].fenced}) <= MaxConcurrent

\* Persist-before-send and cumulative ack: each event a running or finished run
\* has emitted and the relay has not stored is still in the events table.
NoEventLost ==
  \A a \in Attempt : \A s \in 1 .. MaxSeq :
    LET r == attempts[a].run
        emitted == \/ registry[a] = r /\ r # NoRun /\ s <= job[r].seq
                   \/ HasRow(results, a) /\ s <= results[a].seq
    IN emitted /\ relay[a].run = r /\ s > relay[a].got => [seq |-> s, run |-> r] \in events[a]

\* Resends come before live events on a new connection (activeClient, applyResume
\* and the drain are one synchronous step): the relay never sees a seq skipped.
NoGap == \A a \in Attempt : ~relay[a].gap

\* On a working connection the relay holds every pending result of an attempt it
\* has not given up, but for a run that ended after its hello was sent as active
\* and before hello.accepted: applyResume resends only what the hello listed.
ResultReachesRelayOutsideHandshake ==
  conn = "up" => \A a \in Attempt :
    HasRow(results, a) /\ relay[a].open /\ a \notin hello.missed =>
      relay[a].result = results[a]

-----------------------------------------------------------------------------
(* The inductive invariant behind the safety and action properties.        *)

\* A run with a child process, or pipes left of one, belongs to an attempt.
JobHasAttempt ==
  \A r \in Run : job[r].engine \in {"starting", "spawned", "late"} => job[r].attempt \in Attempt

\* What the registry holds is a live, unfenced run that the attempts row names,
\* and it has no result yet.
RegistryBacked ==
  \A a \in Attempt : Registered(a) =>
    /\ CurrentJob(a).attempt = a /\ Live(registry[a]) /\ ~CurrentJob(a).fenced
    /\ HasRow(attempts, a) /\ attempts[a].run = registry[a]
    /\ ~HasRow(results, a)

ResultBacked ==
  \A a \in Attempt : HasRow(results, a) =>
    HasRow(attempts, a) /\ results[a].run = attempts[a].run /\ results[a].run # NoRun

\* What a hello in flight reported is still in the tables.
HelloBacked ==
  conn = "hello" => /\ \A a \in hello.active : HasRow(attempts, a)
                    /\ \A a \in hello.pending : HasRow(results, a)

\* The run the relay was told is the one the row names, or is over and acked.
RelayRunKnown ==
  \A a \in Attempt :
    /\ relay[a].run # NoRun => IF HasRow(attempts, a) THEN attempts[a].run = relay[a].run
                               ELSE relay[a].closed
    /\ relay[a].result.status # "absent" =>
         relay[a].result.run = relay[a].run /\ relay[a].run # NoRun

IInv ==
  /\ TypeOK
  /\ LiveRunIsRegistered
  /\ JobHasAttempt
  /\ RegistryBacked
  /\ ResultBacked
  /\ HelloBacked
  /\ RelayRunKnown

-----------------------------------------------------------------------------
(* What the capacity, the results and the stream rest on besides IInv.     *)

\* The slots in use, and a registered run's row and lease.
SlotsHeld ==
  /\ Cardinality({a \in Attempt : Registered(a)}) <= MaxConcurrent
  /\ \A a \in Attempt : Registered(a) =>
       /\ attempts[a].status \in ActiveStatus /\ CurrentJob(a).lease = attempts[a].lease
       /\ relay[a].result.status = "absent"

\* A row names a run and is not ahead of the relay's lease, and the relay knows a run
\* only while the assignment in force covers its row.
LeasesKnown ==
  \A a \in Attempt :
    /\ HasRow(attempts, a) => attempts[a].run # NoRun
    /\ attempts[a].lease <= relay[a].lease /\ relay[a].base <= relay[a].lease
    /\ relay[a].run = NoRun => relay[a].got = 0
    /\ relay[a].run # NoRun => /\ relay[a].open
                               /\ HasRow(attempts, a) => relay[a].base <= attempts[a].lease

\* A hello in flight reported every run and every result there is by now; once it is
\* accepted, the relay knows each run it has not given up.
HelloCovers ==
  /\ conn = "hello" => \A a \in Attempt :
       /\ Registered(a) => a \in hello.active
       /\ HasRow(results, a) => a \in hello.active \cup hello.pending
  /\ conn = "up" => \A a \in Attempt : Registered(a) /\ relay[a].open => relay[a].run = registry[a]

LinkInv == SlotsHeld /\ LeasesKnown /\ HelloCovers /\ ResultReachesRelayOutsideHandshake

\* The assignment in force covers the row, so a hello resumes it.
InForce(a) == HasRow(attempts, a) /\ relay[a].open /\ relay[a].base <= attempts[a].lease

Emitted(a, s) ==
  \/ Registered(a) /\ s <= CurrentJob(a).seq
  \/ HasRow(results, a) /\ s <= results[a].seq
  \/ \E e \in events[a] : s <= e.seq

\* Without late callbacks and torn handlers no output comes late, and events are of the run
\* that the row names.
EventsOfRow ==
  /\ \A r \in Run : job[r].engine # "late"
  /\ \A a \in Attempt : \A e \in events[a] :
       /\ HasRow(attempts, a) /\ e.run = attempts[a].run
       /\ Registered(a) => e.seq <= CurrentJob(a).seq

\* Between what the relay stored and what was emitted nothing is missing, the relay is
\* never ahead of the run, and over a working connection it has it all.
StreamWhole ==
  \A a \in Attempt :
    /\ InForce(a) => \A s \in 1 .. MaxSeq : Emitted(a, s) /\ s > relay[a].got =>
         [seq |-> s, run |-> attempts[a].run] \in events[a]
    /\ Registered(a) => relay[a].got <= CurrentJob(a).seq
    /\ conn = "up" /\ Registered(a) /\ relay[a].run = registry[a] => relay[a].got = CurrentJob(a).seq

StreamInv == EventsOfRow /\ StreamWhole /\ NoGap

-----------------------------------------------------------------------------
(* What the documentation says, and the code does not keep (each is the    *)
(* subject of a violation run).                                            *)

\* plan 5.3 "On any cap -> pause reading the engine stdout; resume after acks
\* drain": a run is not left paused once nothing at all is unacked.
NoStuckPause ==
  \A a \in Attempt : Registered(a) /\ CurrentJob(a).paused => \E b \in Attempt : events[b] # {}

-----------------------------------------------------------------------------
(* What a step may never do.                                               *)

\* plan 5.5: a repeated job.assign is re-confirmed with the agent_run_id of the
\* first one, across reconnects and restarts.
RunStable ==
  [][\A a \in Attempt : relay[a].run # NoRun => relay'[a].run \in {relay[a].run, NoRun}]_vars

\* plan 5.3: a pending result goes away or changes run only when the relay has
\* that run's result or has itself given the attempt up.
NoResultLost ==
  [][\A a \in Attempt :
       HasRow(results, a) /\ results'[a].run # results[a].run =>
         relay[a].result.run = results[a].run \/ ~relay'[a].open]_vars

-----------------------------------------------------------------------------
(* Liveness.  The engine makes progress unless paused, and ends when it is *)
(* killed; the relay acks what it has received; the daemon redials and the *)
(* relay answers.  Nothing forces the link to stay up: that is a premise.  *)

Fairness ==
  /\ \A r \in Run : /\ WF_vars(EngineSpawns(r))
                    /\ WF_vars(~job[r].paused /\ \E s \in FinalStatus : EngineExits(r, s))
                    /\ WF_vars(job[r].fenced /\ \E s \in FinalStatus : EngineExits(r, s))
  /\ \A a \in Attempt : /\ WF_vars(\E l \in 1 .. MaxLease : HandleStreamAck(a, l, relay[a].got))
                        /\ WF_vars(\E l \in 1 .. MaxLease : HandleResultAck(a, l))
  /\ WF_vars(Dial)
  /\ WF_vars(HelloAccepted)

FairSpec == Spec /\ Fairness

\* A run that backpressure paused is resumed by the acks of its own events, so
\* once the link stays up every started run ends and frees its slot.
RunsFinish ==
  <>[](conn = "up") => \A r \in Run : Live(r) ~> ~Live(r)

\* Once the link stays up, a pending result is acked and collected, or the relay
\* gives the attempt up, unless the run ended between the hello and its answer.
ResultsCollected ==
  <>[](conn = "up") => \A a \in Attempt :
    (conn = "up" /\ HasRow(results, a) /\ a \notin hello.missed)
      ~> (~HasRow(results, a) \/ ~relay[a].open)
=============================================================================
