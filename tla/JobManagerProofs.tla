-------------------------- MODULE JobManagerProofs --------------------------
(***************************************************************************)
(* Proofs about JobManager, for every set of attempts and runs, every cap  *)
(* and every choice of faults.                                             *)
(***************************************************************************)
EXTENDS JobManager, FiniteSetTheorems, TLAPS

-----------------------------------------------------------------------------
(* The operators: what the relay's and the tables' helpers return.         *)

\* The null rows are rows.
LEMMA NullRows ==
  /\ NoRow \in AttemptRow
  /\ NoResult \in ResultRow
  /\ NoJob \in JobState
  /\ SpentJob \in JobState
  /\ RelayIdle \in RelayState
  /\ NoHello \in Hello
<1>1. 0 \in LeaseId /\ 0 \in 0 .. MaxSeq /\ NoRun \in RunRef
  BY BoundAssumption DEF LeaseId, RunRef
<1>2. NoRow \in AttemptRow
  BY <1>1 DEF NoRow, AttemptRow
<1>3. NoResult \in ResultRow
  BY <1>1 DEF NoResult, ResultRow
<1>4. NoJob \in JobState
  BY <1>1 DEF NoJob, JobState, EngineState
<1>5. SpentJob \in JobState
  BY <1>4 DEF SpentJob, JobState, EngineState
<1>6. RelayIdle \in RelayState
  BY <1>1, <1>3 DEF RelayIdle, RelayState
<1>7. NoHello \in Hello
  BY DEF NoHello, Hello
<1> QED
  BY <1>2, <1>3, <1>4, <1>5, <1>6, <1>7

\* The contiguous prefix never leaves the range of sequence numbers.
LEMMA ContiguousType ==
  ASSUME NEW n \in 0 .. MaxSeq, NEW S
  PROVE  Contiguous(n, S) \in 0 .. MaxSeq
<1> DEFINE K == {k \in (n + 1) .. MaxSeq : (n + 1) .. k \subseteq S}
<1>1. MaxSeq \in Int /\ n + 1 \in Int
  BY BoundAssumption
<1>2. /\ IsFiniteSet((n + 1) .. MaxSeq)
      /\ Cardinality((n + 1) .. MaxSeq) = IF n + 1 > MaxSeq THEN 0 ELSE MaxSeq - (n + 1) + 1
  BY <1>1, FS_Interval
<1>3. K \subseteq (n + 1) .. MaxSeq
  OBVIOUS
<1>4. IsFiniteSet(K) /\ Cardinality(K) <= Cardinality((n + 1) .. MaxSeq)
  BY <1>2, <1>3, FS_Subset
<1>5. Cardinality(K) \in Nat
  BY <1>4, FS_CardinalityType
<1>6. n + Cardinality(K) \in 0 .. MaxSeq
  BY <1>1, <1>2, <1>4, <1>5, BoundAssumption
<1> QED
  BY <1>6 DEF Contiguous

\* Storing stream frames moves only the prefix and the gap flag.
LEMMA RelayStoresFacts ==
  ASSUME NEW rl \in RelayState, NEW r, NEW S
  PROVE  /\ RelayStores(rl, r, S) \in RelayState
         /\ RelayStores(rl, r, S).run = rl.run
         /\ RelayStores(rl, r, S).closed = rl.closed
         /\ RelayStores(rl, r, S).result = rl.result
<1> DEFINE k == Contiguous(rl.got, S)
<1>1. k \in 0 .. MaxSeq
  BY ContiguousType DEF RelayState
<1> HIDE DEF k
<1>2. [rl EXCEPT !.got = k, !.gap = @ \/ \E s \in S : s > k] \in RelayState
  BY <1>1 DEF RelayState
<1>3. RelayStores(rl, r, S) = IF rl.run # r \/ rl.result.status # "absent" THEN rl
                              ELSE [rl EXCEPT !.got = k, !.gap = @ \/ \E s \in S : s > k]
  BY DEF RelayStores, k
<1> QED
  BY <1>2, <1>3 DEF RelayState

\* A result is kept exactly when it is of the run the relay knows.
LEMMA RelayResultFacts ==
  ASSUME NEW rl \in RelayState, NEW row \in ResultRow
  PROVE  /\ RelayResult(rl, row) \in RelayState
         /\ RelayResult(rl, row).run = rl.run
         /\ RelayResult(rl, row).closed = rl.closed
         /\ RelayResult(rl, row).result = IF rl.run = row.run THEN row ELSE rl.result
BY DEF RelayResult, RelayState

\* A job.accept tells the relay a run; a new run starts without result or stream.
LEMMA RelayAcceptsFacts ==
  ASSUME NEW rl \in RelayState, NEW r \in RunRef
  PROVE  /\ RelayAccepts(rl, r) \in RelayState
         /\ RelayAccepts(rl, r).run = r
         /\ RelayAccepts(rl, r).closed = rl.closed
         /\ RelayAccepts(rl, r).result \in {rl.result, NoResult}
         /\ rl.run # r => RelayAccepts(rl, r).result = NoResult
<1>1. NoResult \in ResultRow /\ 0 \in 0 .. MaxSeq
  BY NullRows, BoundAssumption
<1> QED
  BY <1>1 DEF RelayAccepts, RelayState

\* Giving an attempt up keeps only its lease number and whether it was acked.
LEMMA RelayForgetsFacts ==
  ASSUME NEW rl \in RelayState
  PROVE  /\ RelayForgets(rl) \in RelayState
         /\ RelayForgets(rl).run = NoRun
         /\ RelayForgets(rl).result = NoResult
         /\ ~RelayForgets(rl).open
BY NullRows DEF RelayForgets, RelayIdle, RelayState

\* Issuing a lease with an assign leaves the relay's run and result alone.
LEMMA IssuedFacts ==
  ASSUME TypeOK, NEW a \in Attempt, NEW l \in 1 .. MaxLease
  PROVE  /\ Issued(a, l) \in RelayState
         /\ Issued(a, l).run = relay[a].run
         /\ Issued(a, l).closed = relay[a].closed
         /\ Issued(a, l).result = relay[a].result
<1>1. relay[a] \in RelayState /\ l \in LeaseId
  BY BoundAssumption DEF TypeOK, LeaseId
<1> QED
  BY <1>1 DEF Issued, RelayState

\* A hello reports attempts.
LEMMA HelloScope ==
  ASSUME TypeOK
  PROVE  hello.active \subseteq Attempt /\ hello.pending \subseteq Attempt
BY DEF TypeOK, Hello

\* The statements on attempts keep the table's type; an UPDATE keeps every row
\* and the run it names.
LEMMA AttemptStatements ==
  ASSUME NEW tbl \in [Attempt -> AttemptRow], NEW a \in Attempt
  PROVE  /\ \A l \in LeaseId : \A r \in Run : CreateAttempt(tbl, a, l, r) \in [Attempt -> AttemptRow]
         /\ DeleteAttemptRow(tbl, a) \in [Attempt -> AttemptRow]
         /\ \A s \in ActiveStatus \cup FinalStatus :
              /\ SetAttemptStatus(tbl, a, s) \in [Attempt -> AttemptRow]
              /\ \A b \in Attempt : /\ SetAttemptStatus(tbl, a, s)[b].run = tbl[b].run
                                    /\ HasRow(SetAttemptStatus(tbl, a, s), b) <=> HasRow(tbl, b)
         /\ \A l \in LeaseId :
              /\ SetAttemptLease(tbl, a, l) \in [Attempt -> AttemptRow]
              /\ \A b \in Attempt : /\ SetAttemptLease(tbl, a, l)[b].run = tbl[b].run
                                    /\ HasRow(SetAttemptLease(tbl, a, l), b) <=> HasRow(tbl, b)
         /\ \A q \in 0 .. MaxSeq :
              /\ RaiseLastSeq(tbl, a, q) \in [Attempt -> AttemptRow]
              /\ \A b \in Attempt : /\ RaiseLastSeq(tbl, a, q)[b].run = tbl[b].run
                                    /\ HasRow(RaiseLastSeq(tbl, a, q), b) <=> HasRow(tbl, b)
<1>1. ASSUME NEW l \in LeaseId, NEW r \in Run
      PROVE  CreateAttempt(tbl, a, l, r) \in [Attempt -> AttemptRow]
  BY BoundAssumption DEF CreateAttempt, AttemptRow, RunRef, ActiveStatus
<1>2. DeleteAttemptRow(tbl, a) \in [Attempt -> AttemptRow]
  BY NullRows DEF DeleteAttemptRow
<1>3. ASSUME NEW s \in ActiveStatus \cup FinalStatus
      PROVE  /\ SetAttemptStatus(tbl, a, s) \in [Attempt -> AttemptRow]
             /\ \A b \in Attempt : /\ SetAttemptStatus(tbl, a, s)[b].run = tbl[b].run
                                   /\ HasRow(SetAttemptStatus(tbl, a, s), b) <=> HasRow(tbl, b)
  BY DEF SetAttemptStatus, HasRow, AttemptRow, ActiveStatus, FinalStatus
<1>4. ASSUME NEW l \in LeaseId
      PROVE  /\ SetAttemptLease(tbl, a, l) \in [Attempt -> AttemptRow]
             /\ \A b \in Attempt : /\ SetAttemptLease(tbl, a, l)[b].run = tbl[b].run
                                   /\ HasRow(SetAttemptLease(tbl, a, l), b) <=> HasRow(tbl, b)
  BY DEF SetAttemptLease, HasRow, AttemptRow
<1>5. ASSUME NEW q \in 0 .. MaxSeq
      PROVE  /\ RaiseLastSeq(tbl, a, q) \in [Attempt -> AttemptRow]
             /\ \A b \in Attempt : /\ RaiseLastSeq(tbl, a, q)[b].run = tbl[b].run
                                   /\ HasRow(RaiseLastSeq(tbl, a, q), b) <=> HasRow(tbl, b)
  BY DEF RaiseLastSeq, HasRow, AttemptRow
<1> QED
  BY <1>1, <1>2, <1>3, <1>4, <1>5

\* The statements on events and results keep their tables' types.
LEMMA EventStatements ==
  ASSUME NEW tbl \in [Attempt -> SUBSET EventRow], NEW a \in Attempt
  PROVE  /\ \A s \in 1 .. MaxSeq : \A r \in Run :
              InsertEvent(tbl, a, s, r) \in [Attempt -> SUBSET EventRow]
         /\ \A n : AckEvents(tbl, a, n) \in [Attempt -> SUBSET EventRow]
         /\ DeleteEvents(tbl, a) \in [Attempt -> SUBSET EventRow]
<1>1. ASSUME NEW s \in 1 .. MaxSeq, NEW r \in Run
      PROVE  InsertEvent(tbl, a, s, r) \in [Attempt -> SUBSET EventRow]
  BY DEF InsertEvent, EventRow
<1>2. ASSUME NEW n
      PROVE  AckEvents(tbl, a, n) \in [Attempt -> SUBSET EventRow]
  BY DEF AckEvents
<1>3. DeleteEvents(tbl, a) \in [Attempt -> SUBSET EventRow]
  BY DEF DeleteEvents
<1> QED
  BY <1>1, <1>2, <1>3

-----------------------------------------------------------------------------
(* Preservation.  The proofs below share two shapes: a terminal callback,  *)
(* and the death of the process.                                           *)

\* A terminal callback of a live run keeps the invariant, whatever the caller
\* does to the rows other than adding, dropping or renaming one.
LEMMA OnDoneStep ==
  ASSUME IInv, NEW r \in Run, Live(r),
         NEW s \in FinalStatus, NEW n \in 0 .. MaxSeq, NEW e \in {"late", "gone"},
         OnDone(r, s, n, e),
         attempts' \in [Attempt -> AttemptRow],
         \A b \in Attempt : /\ attempts'[b].run = attempts[b].run
                            /\ HasRow(attempts', b) <=> HasRow(attempts, b),
         events' \in [Attempt -> SUBSET EventRow],
         UNCHANGED <<conn, hello>>
  PROVE  IInv'
<1> DEFINE a == job[r].attempt
           row == ResultOf(r, s, n)
<1>0. a \in Attempt /\ TypeOK
  BY DEF IInv, JobHasAttempt, Live
<1>1. CASE job[r].fenced
  <2>1. registry[a] # r
    BY <1>0, <1>1, RunAssumption DEF IInv, RegistryBacked, Registered, CurrentJob
  <2>2. /\ job' = [job EXCEPT ![r] = SpentJob]
        /\ UNCHANGED <<registry, results, relay>>
    BY <1>1, <2>1 DEF OnDone
  <2>3. TypeOK'
    BY <2>2, <1>0, NullRows DEF TypeOK
  <2>4. /\ \A x \in Run \ {r} : job'[x] = job[x]
        /\ job'[r].engine = "gone"
    BY <2>2, <1>0 DEF TypeOK, SpentJob, NoJob
  <2>5. LiveRunIsRegistered' /\ JobHasAttempt'
    BY <2>2, <2>4 DEF IInv, LiveRunIsRegistered, JobHasAttempt, Live
  <2>6. RegistryBacked'
    <3> SUFFICES ASSUME NEW b \in Attempt, registry[b] # NoRun
                 PROVE  (/\ CurrentJob(b).attempt = b /\ Live(registry[b]) /\ ~CurrentJob(b).fenced
                         /\ HasRow(attempts, b) /\ attempts[b].run = registry[b]
                         /\ ~HasRow(results, b))'
      BY <2>2 DEF RegistryBacked, Registered
    <3>1. /\ CurrentJob(b).attempt = b /\ Live(registry[b]) /\ ~CurrentJob(b).fenced
          /\ HasRow(attempts, b) /\ attempts[b].run = registry[b]
          /\ ~HasRow(results, b)
      BY DEF IInv, RegistryBacked, Registered
    <3>2. registry[b] \in Run \ {r}
      BY <3>1, <1>1, <1>0 DEF TypeOK, RunRef, CurrentJob
    <3> QED
      BY <3>1, <3>2, <2>2, <2>4 DEF CurrentJob, Live, HasRow
  <2>7. ResultBacked' /\ HelloBacked' /\ RelayRunKnown'
    BY <2>2, HelloScope DEF IInv, ResultBacked, HelloBacked, RelayRunKnown, HasRow
  <2> QED
    BY <2>3, <2>5, <2>6, <2>7 DEF IInv
<1>2. CASE ~job[r].fenced
  <2>1. registry[a] = r /\ HasRow(attempts, a) /\ attempts[a].run = r
    BY <1>2, <1>0, RunAssumption DEF IInv, LiveRunIsRegistered, RegistryBacked, Registered
  <2>2. /\ results' = [results EXCEPT ![a] = row]
        /\ registry' = [registry EXCEPT ![a] = NoRun]
        /\ job' = [job EXCEPT ![r] = IF e = "late" THEN [@ EXCEPT !.engine = e] ELSE SpentJob]
        /\ Delivered(a, RelayResult(RelayStores(relay[a], r, {k \in {n} : k > job[r].seq}), row))
    BY <1>2, <2>1 DEF OnDone, SaveResult
  <2>3. row \in ResultRow /\ row.run = r /\ row.status \in FinalStatus
    BY <1>0 DEF ResultOf, ResultRow, TypeOK, JobState, RunRef
  <2> HIDE DEF row
  <2>4. /\ \A x \in Run \ {r} : job'[x] = job[x]
        /\ job'[r] \in JobState /\ job'[r].engine \notin {"starting", "spawned"}
        /\ job'[r].engine = "late" => job'[r].attempt = a
    BY <2>2, <1>0, NullRows DEF TypeOK, SpentJob, NoJob, JobState, EngineState
  <2>5. /\ relay' \in [Attempt -> RelayState]
        /\ \A b \in Attempt : /\ relay'[b].run = relay[b].run
                              /\ relay'[b].closed = relay[b].closed
                              /\ \/ relay'[b].result = relay[b].result
                                 \/ relay'[b].result = row /\ relay[b].run = r
    <3> DEFINE st == RelayStores(relay[a], r, {k \in {n} : k > job[r].seq})
               rr == RelayResult(st, row)
    <3>1. relay \in [Attempt -> RelayState] /\ relay[a] \in RelayState
      BY <1>0 DEF TypeOK
    <3>2. st \in RelayState /\ st.run = relay[a].run /\ st.closed = relay[a].closed
          /\ st.result = relay[a].result
      BY <3>1, RelayStoresFacts
    <3>3. /\ rr \in RelayState /\ rr.run = relay[a].run /\ rr.closed = relay[a].closed
          /\ rr.result = IF relay[a].run = r THEN row ELSE relay[a].result
      BY <3>2, <2>3, RelayResultFacts
    <3>4. relay' = IF conn = "up" THEN [relay EXCEPT ![a] = rr] ELSE relay
      BY <2>2 DEF Delivered
    <3> HIDE DEF rr
    <3> QED
      BY <3>1, <3>3, <3>4, <1>0
  <2>6. TypeOK'
    <3>1. results' \in [Attempt -> ResultRow] /\ registry' \in [Attempt -> RunRef]
      BY <2>2, <2>3, <1>0 DEF TypeOK, RunRef
    <3>2. job' \in [Run -> JobState]
      BY <2>2, <2>4, <1>0 DEF TypeOK
    <3> QED
      BY <3>1, <3>2, <2>5, <1>0 DEF TypeOK
  <2>7. LiveRunIsRegistered' /\ JobHasAttempt'
    <3> SUFFICES ASSUME NEW x \in Run
                 PROVE  /\ (Live(x) /\ ~job[x].fenced => registry[job[x].attempt] = x)'
                        /\ job'[x].engine \in {"starting", "spawned", "late"} =>
                             job'[x].attempt \in Attempt
      BY DEF LiveRunIsRegistered, JobHasAttempt
    <3>1. CASE x = r
      BY <3>1, <2>4, <1>0 DEF Live
    <3>2. CASE x # r
      <4>1. job'[x] = job[x]
        BY <3>2, <2>4
      <4>2. Live(x) /\ ~job[x].fenced => registry[job[x].attempt] = x /\ job[x].attempt \in Attempt
        BY DEF IInv, LiveRunIsRegistered, JobHasAttempt, Live
      <4> QED
        BY <4>1, <4>2, <3>2, <2>1, <2>2, <1>0 DEF IInv, JobHasAttempt, Live, TypeOK
    <3> QED
      BY <3>1, <3>2
  <2>8. RegistryBacked'
    <3> SUFFICES ASSUME NEW b \in Attempt, registry'[b] # NoRun
                 PROVE  (/\ CurrentJob(b).attempt = b /\ Live(registry[b]) /\ ~CurrentJob(b).fenced
                         /\ HasRow(attempts, b) /\ attempts[b].run = registry[b]
                         /\ ~HasRow(results, b))'
      BY DEF RegistryBacked, Registered
    <3>1. b # a /\ registry'[b] = registry[b] /\ results'[b] = results[b]
      BY <2>2, <1>0 DEF TypeOK
    <3>2. /\ CurrentJob(b).attempt = b /\ Live(registry[b]) /\ ~CurrentJob(b).fenced
          /\ HasRow(attempts, b) /\ attempts[b].run = registry[b]
          /\ ~HasRow(results, b)
      BY <3>1 DEF IInv, RegistryBacked, Registered
    <3>3. registry[b] \in Run \ {r}
      BY <3>1, <3>2, <1>0 DEF TypeOK, RunRef, CurrentJob
    <3> QED
      BY <3>1, <3>2, <3>3, <2>4 DEF CurrentJob, Live, HasRow
  <2>9. ResultBacked' /\ HelloBacked'
    <3>1. \A b \in Attempt : results'[b] = IF b = a THEN row ELSE results[b]
      BY <2>2, <1>0 DEF TypeOK
    <3>2. row.status # "absent"
      BY <2>3 DEF FinalStatus
    <3> QED
      BY <3>1, <3>2, <2>1, <2>3, HelloScope, RunAssumption
      DEF IInv, ResultBacked, HelloBacked, HasRow
  <2>10. RelayRunKnown'
    BY <2>3, <2>5, RunAssumption DEF IInv, RelayRunKnown, HasRow
  <2> QED
    BY <2>6, <2>7, <2>8, <2>9, <2>10 DEF IInv
<1> QED
  BY <1>1, <1>2

\* A death of the process keeps the invariant if the tables it leaves do.
LEMMA DeathStep ==
  ASSUME IInv,
         registry' = [x \in Attempt |-> NoRun],
         job' \in [Run -> {NoJob, SpentJob}],
         conn' = "down", hello' = NoHello,
         attempts' \in [Attempt -> AttemptRow],
         events' \in [Attempt -> SUBSET EventRow],
         results' \in [Attempt -> ResultRow],
         relay' \in [Attempt -> RelayState],
         ResultBacked', RelayRunKnown'
  PROVE  IInv'
<1>1. TypeOK'
  BY NullRows DEF TypeOK, RunRef
<1>2. \A x \in Run : job'[x].engine \in {"none", "gone"}
  BY DEF NoJob, SpentJob
<1>3. LiveRunIsRegistered' /\ JobHasAttempt' /\ RegistryBacked' /\ HelloBacked'
  BY <1>2 DEF LiveRunIsRegistered, JobHasAttempt, RegistryBacked, HelloBacked, Live, Registered
<1> QED
  BY <1>1, <1>3 DEF IInv

\* Dies gives the first premises of DeathStep.
LEMMA DiesFacts ==
  ASSUME Dies
  PROVE  /\ registry' = [x \in Attempt |-> NoRun]
         /\ job' \in [Run -> {NoJob, SpentJob}]
         /\ conn' = "down" /\ hello' = NoHello
BY DEF Dies

\* A step that starts, ends and fences no run, and leaves the results and the
\* identity of the rows alone.
LEMMA SteadyStep ==
  ASSUME IInv, UNCHANGED <<registry, results>>,
         job' \in [Run -> JobState],
         \A x \in Run : /\ Live(x)' <=> Live(x)
                        /\ Live(x) => /\ job'[x].attempt = job[x].attempt
                                      /\ job'[x].fenced = job[x].fenced
                        /\ job'[x].engine = "late" => job'[x].attempt \in Attempt,
         attempts' \in [Attempt -> AttemptRow],
         \A b \in Attempt : /\ attempts'[b].run = attempts[b].run
                            /\ HasRow(attempts', b) <=> HasRow(attempts, b),
         events' \in [Attempt -> SUBSET EventRow],
         conn' \in {"down", "hello", "up", "broken"}, hello' \in Hello, HelloBacked',
         relay' \in [Attempt -> RelayState], RelayRunKnown'
  PROVE  IInv'
<1>1. TypeOK'
  BY DEF IInv, TypeOK
<1>2. LiveRunIsRegistered'
  BY DEF IInv, LiveRunIsRegistered
<1>3. JobHasAttempt'
  <2> SUFFICES ASSUME NEW x \in Run, job'[x].engine \in {"starting", "spawned", "late"}
               PROVE  job'[x].attempt \in Attempt
    BY DEF JobHasAttempt
  <2>1. Live(x) \/ job'[x].engine = "late"
    BY DEF Live
  <2> QED
    BY <2>1 DEF IInv, JobHasAttempt, Live
<1>4. RegistryBacked'
  <2> SUFFICES ASSUME NEW b \in Attempt, registry[b] # NoRun
               PROVE  (/\ CurrentJob(b).attempt = b /\ Live(registry[b]) /\ ~CurrentJob(b).fenced
                       /\ HasRow(attempts, b) /\ attempts[b].run = registry[b]
                       /\ ~HasRow(results, b))'
    BY DEF RegistryBacked, Registered
  <2>1. /\ CurrentJob(b).attempt = b /\ Live(registry[b]) /\ ~CurrentJob(b).fenced
        /\ HasRow(attempts, b) /\ attempts[b].run = registry[b]
        /\ ~HasRow(results, b)
    BY DEF IInv, RegistryBacked, Registered
  <2>2. registry[b] \in Run
    BY DEF IInv, TypeOK, RunRef
  <2>3. Live(registry[b])' /\ CurrentJob(b)' = job'[registry[b]]
    BY <2>1, <2>2 DEF CurrentJob, Live
  <2> QED
    BY <2>1, <2>2, <2>3 DEF CurrentJob, HasRow
<1>5. ResultBacked'
  BY DEF IInv, ResultBacked, HasRow
<1> QED
  BY <1>1, <1>2, <1>3, <1>4, <1>5 DEF IInv

-----------------------------------------------------------------------------
(* Actions on jobs and frames about them.                                  *)

\* The end of a rotation overlap changes nothing the invariant reads.
LEMMA OverlapExpiresStep ==
  ASSUME IInv, NEW r \in Run, OverlapExpires(r)
  PROVE  IInv'
<1>1. /\ job' \in [Run -> JobState]
      /\ \A x \in Run : /\ job'[x].attempt = job[x].attempt
                        /\ job'[x].fenced = job[x].fenced
                        /\ job'[x].engine = job[x].engine
  BY SMTT(30), BoundAssumption DEF OverlapExpires, IInv, TypeOK, JobState, LeaseId
<1> QED
  BY <1>1, SteadyStep
  DEF OverlapExpires, store, IInv, TypeOK, JobHasAttempt, Live, HelloBacked, RelayRunKnown, HasRow

\* handleAssign, known attempt: the re-confirmed run is the one on record.
LEMMA AssignDuplicateStep ==
  ASSUME IInv, NEW a \in Attempt, NEW l \in 1 .. MaxLease, AssignDuplicate(a, l)
  PROVE  IInv'
<1>1. Existing(a).run = attempts[a].run /\ HasRow(attempts, a) /\ attempts[a].run \in RunRef
  BY DEF AssignDuplicate, Known, Existing, IInv, RegistryBacked, Registered, TypeOK, AttemptRow
<1>2. Issued(a, l) \in RelayState /\ Issued(a, l).run = relay[a].run
      /\ Issued(a, l).closed = relay[a].closed /\ Issued(a, l).result = relay[a].result
  BY IssuedFacts DEF IInv
<1> DEFINE acc == RelayAccepts(Issued(a, l), attempts[a].run)
           fgt == RelayForgets(Issued(a, l))
<1>3. acc \in RelayState /\ acc.run = attempts[a].run
      /\ ((acc.result = relay[a].result /\ relay[a].run = acc.run) \/ acc.result = NoResult)
  BY <1>1, <1>2, RelayAcceptsFacts
<1>4. fgt \in RelayState /\ fgt.run = NoRun /\ fgt.result = NoResult
  BY <1>2, RelayForgetsFacts
<1>5. relay' \in {[relay EXCEPT ![a] = Issued(a, l)], [relay EXCEPT ![a] = acc],
                  [relay EXCEPT ![a] = fgt]}
  BY <1>1 DEF AssignDuplicate, AssignReplied
<1> HIDE DEF acc, fgt
<1>6. relay' \in [Attempt -> RelayState]
  BY <1>2, <1>3, <1>4, <1>5 DEF IInv, TypeOK
<1>7. RelayRunKnown'
  BY <1>1, <1>2, <1>3, <1>4, <1>5
  DEF AssignDuplicate, store, IInv, TypeOK, RelayRunKnown, HasRow, NoResult
<1> QED
  BY <1>6, <1>7, SteadyStep
  DEF AssignDuplicate, store, memory, IInv, TypeOK, JobHasAttempt, Live, HelloBacked, HasRow

\* handleAssign, rejected: the relay forgets the run, and no row names one.
LEMMA AssignRefusedStep ==
  ASSUME IInv, NEW a \in Attempt, NEW l \in 1 .. MaxLease, AssignRefused(a, l)
  PROVE  IInv'
<1>2. Issued(a, l) \in RelayState /\ Issued(a, l).run = relay[a].run
      /\ Issued(a, l).closed = relay[a].closed /\ Issued(a, l).result = relay[a].result
  BY IssuedFacts DEF IInv
<1> DEFINE fgt == RelayForgets(Issued(a, l))
<1>4. fgt \in RelayState /\ fgt.run = NoRun /\ fgt.result = NoResult
  BY <1>2, RelayForgetsFacts
<1>5. relay' \in {[relay EXCEPT ![a] = Issued(a, l)], [relay EXCEPT ![a] = fgt]}
  BY DEF AssignRefused, AssignReplied
<1> HIDE DEF fgt
<1>6. relay' \in [Attempt -> RelayState]
  BY <1>2, <1>4, <1>5 DEF IInv, TypeOK
<1>7. RelayRunKnown'
  BY <1>2, <1>4, <1>5 DEF AssignRefused, store, IInv, TypeOK, RelayRunKnown, HasRow, NoResult
<1> QED
  BY <1>6, <1>7, SteadyStep
  DEF AssignRefused, store, memory, IInv, TypeOK, JobHasAttempt, Live, HelloBacked, HasRow

\* handleAssign, accepted: registry, row and JobState begin together.
LEMMA AssignStartsStep ==
  ASSUME IInv, NEW a \in Attempt, NEW l \in 1 .. MaxLease, NEW r \in Run, AssignStarts(a, l, r)
  PROVE  IInv'
<1> DEFINE acc == RelayAccepts(Issued(a, l), r)
           tbl == CreateAttempt(attempts, a, l, r)
<1>0. TypeOK /\ l \in LeaseId
  BY BoundAssumption DEF IInv, LeaseId
<1>1. /\ registry[a] = NoRun /\ ~HasRow(attempts, a) /\ ~HasRow(results, a)
      /\ job[r].engine = "none"
  BY DEF AssignStarts, Known, Registered, IInv, ResultBacked
<1>2. Issued(a, l) \in RelayState /\ Issued(a, l).run = relay[a].run
      /\ Issued(a, l).closed = relay[a].closed /\ Issued(a, l).result = relay[a].result
  BY <1>0, IssuedFacts
<1>3. acc \in RelayState /\ acc.run = r
      /\ ((acc.result = relay[a].result /\ relay[a].run = r) \/ acc.result = NoResult)
  BY <1>2, RelayAcceptsFacts DEF RunRef
<1>4. relay' \in {[relay EXCEPT ![a] = Issued(a, l)], [relay EXCEPT ![a] = acc]}
  BY DEF AssignStarts, AssignReplied
<1>5. /\ tbl \in [Attempt -> AttemptRow] /\ tbl[a].run = r /\ HasRow(tbl, a)
      /\ \A b \in Attempt \ {a} : tbl[b] = attempts[b]
  <2>1. tbl \in [Attempt -> AttemptRow]
    BY <1>0, AttemptStatements DEF TypeOK
  <2> QED
    BY <2>1, <1>0, <1>1 DEF CreateAttempt, HasRow, TypeOK
<1>6. /\ attempts' \in [Attempt -> AttemptRow]
      /\ \A b \in Attempt : /\ attempts'[b].run = tbl[b].run
                            /\ HasRow(attempts', b) <=> HasRow(tbl, b)
  <2>1. attempts' = SetAttemptStatus(tbl, a, "running") /\ "running" \in ActiveStatus
    BY DEF AssignStarts, ActiveStatus
  <2> HIDE DEF tbl
  <2> QED
    BY <2>1, <1>5, AttemptStatements
<1> HIDE DEF acc, tbl
<1>7. /\ job' \in [Run -> JobState]
      /\ \A x \in Run \ {r} : job'[x] = job[x]
      /\ job'[r].attempt = a /\ job'[r].engine = "starting" /\ ~job'[r].fenced
  BY <1>0, NullRows DEF AssignStarts, TypeOK, NoJob, JobState, EngineState
<1>8. registry' = [registry EXCEPT ![a] = r] /\ UNCHANGED <<events, results, conn, hello>>
  BY DEF AssignStarts
<1>9. TypeOK'
  <2>1. relay' \in [Attempt -> RelayState]
    BY <1>0, <1>2, <1>3, <1>4 DEF TypeOK
  <2>2. registry' \in [Attempt -> RunRef]
    BY <1>0, <1>8 DEF TypeOK, RunRef
  <2> QED
    BY <2>1, <2>2, <1>0, <1>6, <1>7, <1>8 DEF TypeOK
<1>10. LiveRunIsRegistered' /\ JobHasAttempt'
  <2> SUFFICES ASSUME NEW x \in Run
               PROVE  /\ (Live(x) /\ ~job[x].fenced => registry[job[x].attempt] = x)'
                      /\ job'[x].engine \in {"starting", "spawned", "late"} =>
                           job'[x].attempt \in Attempt
    BY DEF LiveRunIsRegistered, JobHasAttempt
  <2>1. CASE x = r
    BY <2>1, <1>0, <1>7, <1>8 DEF TypeOK
  <2>2. CASE x # r
    <3>1. job'[x] = job[x]
      BY <2>2, <1>7
    <3>2. Live(x) /\ ~job[x].fenced =>
            registry[job[x].attempt] = x /\ job[x].attempt \in Attempt \ {a}
      BY <1>1, RunAssumption DEF IInv, LiveRunIsRegistered, JobHasAttempt, Live
    <3> QED
      BY <3>1, <3>2, <1>0, <1>8 DEF IInv, JobHasAttempt, Live, TypeOK
  <2> QED
    BY <2>1, <2>2
<1>11. RegistryBacked'
  <2> SUFFICES ASSUME NEW b \in Attempt, registry'[b] # NoRun
               PROVE  (/\ CurrentJob(b).attempt = b /\ Live(registry[b]) /\ ~CurrentJob(b).fenced
                       /\ HasRow(attempts, b) /\ attempts[b].run = registry[b]
                       /\ ~HasRow(results, b))'
    BY DEF RegistryBacked, Registered
  <2>1. CASE b = a
    BY <2>1, <1>0, <1>1, <1>5, <1>6, <1>7, <1>8 DEF TypeOK, CurrentJob, Live, HasRow
  <2>2. CASE b # a
    <3>1. registry'[b] = registry[b] /\ tbl[b] = attempts[b]
      BY <2>2, <1>0, <1>5, <1>8 DEF TypeOK
    <3>2. /\ CurrentJob(b).attempt = b /\ Live(registry[b]) /\ ~CurrentJob(b).fenced
          /\ HasRow(attempts, b) /\ attempts[b].run = registry[b]
          /\ ~HasRow(results, b)
      BY <3>1 DEF IInv, RegistryBacked, Registered
    <3>3. registry[b] \in Run \ {r}
      BY <3>1, <3>2, <1>0, <1>1 DEF TypeOK, RunRef, Live
    <3> QED
      BY <3>1, <3>2, <3>3, <1>6, <1>7, <1>8 DEF CurrentJob, Live, HasRow
  <2> QED
    BY <2>1, <2>2
<1>12. ResultBacked' /\ HelloBacked'
  BY <1>1, <1>5, <1>6, <1>8, HelloScope DEF IInv, ResultBacked, HelloBacked, HasRow
<1>13. RelayRunKnown'
  <2>1. relay[a].run = NoRun
    BY <1>1 DEF AssignStarts, AssignedLease, IInv, RelayRunKnown
  <2>2. /\ \A b \in Attempt \ {a} : relay'[b] = relay[b]
        /\ relay'[a].run \in {NoRun, r}
        /\ relay'[a].result.status # "absent" =>
           relay'[a].result.run = relay'[a].run /\ relay'[a].run # NoRun
    BY <2>1, <1>0, <1>2, <1>3, <1>4 DEF IInv, TypeOK, RelayRunKnown, NoResult
  <2> QED
    BY <2>2, <1>5, <1>6 DEF IInv, RelayRunKnown, HasRow
<1> QED
  BY <1>9, <1>10, <1>11, <1>12, <1>13 DEF IInv

\* onEvent writes an event row and raises last_seq, nothing else that is durable.
LEMMA OnEventStep ==
  ASSUME IInv, NEW r \in Run, job[r].engine \in {"spawned", "late"}, OnEvent(r)
  PROVE  IInv'
<1> DEFINE a == job[r].attempt
           s == job[r].seq + 1
           st == RelayStores(relay[a], r, {s})
<1>0. TypeOK /\ a \in Attempt /\ s \in 1 .. MaxSeq
  BY BoundAssumption DEF IInv, JobHasAttempt, OnEvent, EventFits, TypeOK, JobState
<1>1. /\ events' = InsertEvent(events, a, s, r)
      /\ attempts' = RaiseLastSeq(attempts, a, s)
      /\ job' = [job EXCEPT ![r].seq = s, ![r].paused = @ \/ OverCap(events', a)]
      /\ Delivered(a, st)
      /\ UNCHANGED <<results, registry, conn, hello>>
  BY DEF OnEvent
<1>2. /\ relay' \in [Attempt -> RelayState]
      /\ \A b \in Attempt : /\ relay'[b].run = relay[b].run
                            /\ relay'[b].closed = relay[b].closed
                            /\ relay'[b].result = relay[b].result
  <2>1. relay[a] \in RelayState /\ relay \in [Attempt -> RelayState]
    BY <1>0 DEF TypeOK
  <2>2. /\ st \in RelayState /\ st.run = relay[a].run /\ st.closed = relay[a].closed
        /\ st.result = relay[a].result
    BY <2>1, RelayStoresFacts
  <2> HIDE DEF st
  <2> QED
    BY <2>1, <2>2, <1>0, <1>1 DEF Delivered
<1>3. events' \in [Attempt -> SUBSET EventRow]
  BY <1>0, <1>1, EventStatements DEF TypeOK
<1>4. /\ attempts' \in [Attempt -> AttemptRow]
      /\ \A b \in Attempt : /\ attempts'[b].run = attempts[b].run
                            /\ HasRow(attempts', b) <=> HasRow(attempts, b)
  <2>1. s \in 0 .. MaxSeq /\ attempts \in [Attempt -> AttemptRow]
    BY <1>0 DEF TypeOK
  <2> HIDE DEF s
  <2> QED
    BY <2>1, <1>0, <1>1, AttemptStatements
<1>5. /\ job' \in [Run -> JobState]
      /\ \A x \in Run : /\ job'[x].attempt = job[x].attempt
                        /\ job'[x].fenced = job[x].fenced
                        /\ job'[x].engine = job[x].engine
  <2> DEFINE p == job[r].paused \/ OverCap(events', a)
             jr == [job[r] EXCEPT !.seq = s, !.paused = p]
  <2>1. s \in 0 .. MaxSeq /\ p \in BOOLEAN
    BY <1>0
  <2>2. job' = [job EXCEPT ![r] = jr]
    BY <1>0, <1>1 DEF TypeOK
  <2> HIDE DEF s, p
  <2>3. /\ jr \in JobState /\ jr.attempt = job[r].attempt
        /\ jr.fenced = job[r].fenced /\ jr.engine = job[r].engine
    BY <2>1, <1>0 DEF TypeOK, JobState
  <2> HIDE DEF jr
  <2> QED
    BY <2>2, <2>3, <1>0 DEF TypeOK
<1>6. HelloBacked' /\ RelayRunKnown'
  BY <1>1, <1>2, <1>4, HelloScope DEF IInv, HelloBacked, RelayRunKnown, HasRow
<1> QED
  BY <1>0, <1>1, <1>2, <1>3, <1>4, <1>5, <1>6, SteadyStep DEF IInv, TypeOK, JobHasAttempt, Live

\* A run that gets its child stays live.
LEMMA EngineSpawnsStep ==
  ASSUME IInv, NEW r \in Run, EngineSpawns(r)
  PROVE  IInv'
<1>1. /\ job' \in [Run -> JobState]
      /\ \A x \in Run : /\ job'[x].attempt = job[x].attempt
                        /\ job'[x].fenced = job[x].fenced
                        /\ x # r => job'[x].engine = job[x].engine
      /\ job[r].engine = "starting" /\ job'[r].engine = "spawned"
  BY DEF EngineSpawns, IInv, TypeOK, JobState, EngineState
<1> QED
  BY <1>1, SteadyStep
  DEF EngineSpawns, store, IInv, TypeOK, JobHasAttempt, Live, HelloBacked, RelayRunKnown, HasRow

\* A late run is out of the registry, so its end frees nothing.
LEMMA EngineLateCloseStep ==
  ASSUME IInv, NEW r \in Run, EngineLateClose(r)
  PROVE  IInv'
<1>1. /\ job' \in [Run -> JobState]
      /\ \A x \in Run \ {r} : job'[x] = job[x]
      /\ job[r].engine = "late" /\ job'[r].engine = "gone"
  BY NullRows DEF EngineLateClose, IInv, TypeOK, SpentJob, NoJob
<1> QED
  BY <1>1, SteadyStep
  DEF EngineLateClose, store, IInv, TypeOK, JobHasAttempt, Live, HelloBacked, RelayRunKnown, HasRow

\* onDone by failure, exit or time limit: the result replaces the registry entry.
LEMMA EngineEndsStep ==
  ASSUME IInv, NEW r \in Run,
         EngineFails(r) \/ EngineTimesOut(r) \/ \E s \in FinalStatus : EngineExits(r, s)
  PROVE  IInv'
<1> DEFINE a == job[r].attempt
<1>0. /\ TypeOK /\ Live(r) /\ a \in Attempt
      /\ job[r].seq \in 0 .. MaxSeq /\ "failed" \in FinalStatus
  BY DEF IInv, JobHasAttempt, EngineFails, EngineTimesOut, EngineExits, Live, TypeOK,
         JobState, FinalStatus
<1>1. CASE EngineFails(r)
  <2> DEFINE s == job[r].seq + 1
             tbl == RaiseLastSeq(attempts, a, s)
  <2>1. s \in 1 .. MaxSeq /\ s \in 0 .. MaxSeq
    BY <1>0, <1>1, BoundAssumption DEF EngineFails, EventFits
  <2>2. /\ events' = InsertEvent(events, a, s, r)
        /\ attempts' = SetAttemptStatus(tbl, a, "failed")
        /\ OnDone(r, "failed", s, "gone")
        /\ UNCHANGED <<conn, hello>>
    BY <1>1 DEF EngineFails
  <2> HIDE DEF s
  <2>3. events' \in [Attempt -> SUBSET EventRow]
    BY <1>0, <2>1, <2>2, EventStatements DEF TypeOK
  <2>4. /\ tbl \in [Attempt -> AttemptRow]
        /\ \A b \in Attempt : tbl[b].run = attempts[b].run /\ (HasRow(tbl, b) <=> HasRow(attempts, b))
    BY <1>0, <2>1, AttemptStatements DEF TypeOK
  <2> HIDE DEF tbl
  <2>5. /\ attempts' \in [Attempt -> AttemptRow]
        /\ \A b \in Attempt : attempts'[b].run = tbl[b].run /\ (HasRow(attempts', b) <=> HasRow(tbl, b))
    BY <1>0, <2>2, <2>4, AttemptStatements
  <2> QED
    BY <1>0, <2>1, <2>2, <2>3, <2>4, <2>5, OnDoneStep
<1>2. ASSUME NEW s \in FinalStatus, DoneStatus(r, s)
      PROVE  /\ attempts' \in [Attempt -> AttemptRow]
             /\ \A b \in Attempt : /\ attempts'[b].run = attempts[b].run
                                   /\ HasRow(attempts', b) <=> HasRow(attempts, b)
  <2>1. attempts' \in {attempts, SetAttemptStatus(attempts, a, s)}
    BY <1>2 DEF DoneStatus
  <2>2. s \in ActiveStatus \cup FinalStatus /\ attempts \in [Attempt -> AttemptRow]
    BY <1>0 DEF TypeOK
  <2> HIDE DEF a
  <2>3. CASE attempts' = attempts
    BY <2>2, <2>3
  <2>4. CASE attempts' = SetAttemptStatus(attempts, a, s)
    BY <1>0, <2>2, <2>4, AttemptStatements
  <2> QED
    BY <2>1, <2>3, <2>4
<1>3. CASE EngineTimesOut(r)
  BY <1>0, <1>2, <1>3, OnDoneStep DEF EngineTimesOut, TypeOK
<1>4. ASSUME NEW s \in FinalStatus, EngineExits(r, s)
      PROVE  IInv'
  BY <1>0, <1>2, <1>4, OnDoneStep DEF EngineExits, TypeOK
<1> QED
  BY <1>1, <1>3, <1>4

\* handleStreamAck drops acked events and may resume the run.
LEMMA HandleStreamAckStep ==
  ASSUME IInv, NEW a \in Attempt, NEW l, NEW n, HandleStreamAck(a, l, n)
  PROVE  IInv'
<1>1. events' \in [Attempt -> SUBSET EventRow]
  BY EventStatements DEF HandleStreamAck, IInv, TypeOK
<1>2. /\ job' \in [Run -> JobState]
      /\ \A x \in Run : /\ job'[x].attempt = job[x].attempt
                        /\ job'[x].fenced = job[x].fenced
                        /\ job'[x].engine = job[x].engine
  <2>0. TypeOK
    BY DEF IInv
  <2>1. CASE job' = job
    BY <2>0, <2>1 DEF TypeOK
  <2>2. CASE Registered(a) /\ job' = [job EXCEPT ![registry[a]].paused = FALSE]
    <3> DEFINE q == registry[a]
               jq == [job[q] EXCEPT !.paused = FALSE]
    <3>1. q \in Run
      BY <2>0, <2>2 DEF Registered, TypeOK, RunRef
    <3>2. job' = [job EXCEPT ![q] = jq]
      BY <3>1, <2>0, <2>2 DEF TypeOK
    <3>3. /\ jq \in JobState /\ jq.attempt = job[q].attempt
          /\ jq.fenced = job[q].fenced /\ jq.engine = job[q].engine
      BY ZenonT(60), <3>1, <2>0 DEF TypeOK, JobState
    <3> HIDE DEF jq
    <3> QED
      BY <3>1, <3>2, <3>3, <2>0 DEF TypeOK
  <2> QED
    BY <2>1, <2>2 DEF HandleStreamAck
<1> QED
  BY <1>1, <1>2, SteadyStep
  DEF HandleStreamAck, IInv, TypeOK, JobHasAttempt, Live, HelloBacked, RelayRunKnown, HasRow

\* handleLeaseGranted moves the lease in memory and in the row together.
LEMMA HandleLeaseGrantedStep ==
  ASSUME IInv, NEW a \in Attempt, HandleLeaseGranted(a)
  PROVE  IInv'
<1> DEFINE l == relay[a].lease + 1
<1>0. TypeOK /\ l \in LeaseId
  BY BoundAssumption DEF HandleLeaseGranted, IInv, TypeOK, RelayState, LeaseId
<1>1. /\ relay' \in [Attempt -> RelayState]
      /\ \A b \in Attempt : /\ relay'[b].run = relay[b].run
                            /\ relay'[b].closed = relay[b].closed
                            /\ relay'[b].result = relay[b].result
  BY <1>0 DEF HandleLeaseGranted, TypeOK, RelayState
<1>2. /\ attempts' \in [Attempt -> AttemptRow]
      /\ \A b \in Attempt : /\ attempts'[b].run = attempts[b].run
                            /\ HasRow(attempts', b) <=> HasRow(attempts, b)
  <2>1. attempts' \in {attempts, SetAttemptLease(attempts, a, l)}
    BY DEF HandleLeaseGranted
  <2>2. attempts \in [Attempt -> AttemptRow]
    BY <1>0 DEF TypeOK
  <2> HIDE DEF l
  <2>3. CASE attempts' = attempts
    BY <2>2, <2>3
  <2>4. CASE attempts' = SetAttemptLease(attempts, a, l)
    BY <1>0, <2>2, <2>4, AttemptStatements
  <2> QED
    BY <2>1, <2>3, <2>4
<1>3. /\ job' \in [Run -> JobState]
      /\ \A x \in Run : /\ job'[x].attempt = job[x].attempt
                        /\ job'[x].fenced = job[x].fenced
                        /\ job'[x].engine = job[x].engine
  <2>1. CASE ~Registered(a)
    BY <2>1, <1>0 DEF HandleLeaseGranted, TypeOK
  <2>2. CASE Registered(a)
    <3> DEFINE q == registry[a]
               jq == [job[q] EXCEPT !.prev = job[q].lease, !.lease = l]
    <3>1. q \in Run
      BY <2>2, <1>0 DEF Registered, TypeOK, RunRef
    <3>2. job' = [job EXCEPT ![q] = jq]
      BY <2>2, <3>1, <1>0 DEF HandleLeaseGranted, CurrentJob, TypeOK
    <3>3. /\ jq \in JobState /\ jq.attempt = job[q].attempt
          /\ jq.fenced = job[q].fenced /\ jq.engine = job[q].engine
      BY ZenonT(60), <3>1, <1>0 DEF TypeOK, JobState
    <3> HIDE DEF jq
    <3> QED
      BY <3>1, <3>2, <3>3, <1>0 DEF TypeOK
  <2> QED
    BY <2>1, <2>2
<1>4. UNCHANGED <<events, results, registry, conn, hello>>
  BY DEF HandleLeaseGranted
<1>5. HelloBacked' /\ RelayRunKnown'
  BY <1>1, <1>2, <1>4, HelloScope DEF IInv, HelloBacked, RelayRunKnown, HasRow
<1> QED
  BY <1>0, <1>1, <1>2, <1>3, <1>4, <1>5, SteadyStep DEF IInv, TypeOK, JobHasAttempt, Live

\* handleCancel ends a run without a child at once, and marks any other.
LEMMA HandleCancelStep ==
  ASSUME IInv, NEW a \in Attempt, NEW l, HandleCancel(a, l)
  PROVE  IInv'
<1> DEFINE r == registry[a]
<1>0. /\ TypeOK /\ r \in Run /\ Live(r) /\ job[r].attempt = a /\ ~job[r].fenced
      /\ UNCHANGED <<events, conn, hello>>
      /\ attempts \in [Attempt -> AttemptRow]
  BY DEF HandleCancel, IInv, RegistryBacked, Registered, CurrentJob, TypeOK, RunRef
<1>1. CASE job[r].engine = "starting"
  <2>1. PICK e \in {"late", "gone"} : OnDone(r, "cancelled", job[r].seq, e)
    BY <1>1 DEF HandleCancel
  <2>4. attempts' = SetAttemptStatus(attempts, a, "cancelled")
    BY <1>0, <1>1 DEF HandleCancel, DoneStatus
  <2>2. /\ attempts' \in [Attempt -> AttemptRow]
        /\ \A b \in Attempt : /\ attempts'[b].run = attempts[b].run
                              /\ HasRow(attempts', b) <=> HasRow(attempts, b)
    BY <1>0, <2>4, AttemptStatements DEF FinalStatus
  <2>3. job[r].seq \in 0 .. MaxSeq /\ events' \in [Attempt -> SUBSET EventRow]
    BY <1>0 DEF TypeOK, JobState
  <2> QED
    BY <1>0, <2>1, <2>2, <2>3, OnDoneStep DEF FinalStatus
<1>2. CASE job[r].engine # "starting"
  <2>1. /\ job' = [job EXCEPT ![r].status = "cancelling"]
        /\ attempts' = SetAttemptStatus(attempts, a, "cancelling")
        /\ UNCHANGED <<results, registry, relay>>
    BY <1>0, <1>2 DEF HandleCancel
  <2>2. /\ attempts' \in [Attempt -> AttemptRow]
        /\ \A b \in Attempt : /\ attempts'[b].run = attempts[b].run
                              /\ HasRow(attempts', b) <=> HasRow(attempts, b)
    BY <1>0, <2>1, AttemptStatements DEF ActiveStatus
  <2>3. /\ job' \in [Run -> JobState]
        /\ \A x \in Run : /\ job'[x].attempt = job[x].attempt
                          /\ job'[x].fenced = job[x].fenced
                          /\ job'[x].engine = job[x].engine
    BY <1>0, <2>1 DEF TypeOK, JobState
  <2>4. HelloBacked' /\ RelayRunKnown'
    BY <1>0, <2>1, <2>2, HelloScope DEF IInv, HelloBacked, RelayRunKnown, HasRow
  <2> QED
    BY <1>0, <2>1, <2>2, <2>3, <2>4, SteadyStep DEF IInv, TypeOK, JobHasAttempt, Live
<1> QED
  BY <1>1, <1>2

-----------------------------------------------------------------------------
(* Actions that drop an attempt.                                           *)

\* The row and the result of an attempt go together, and its run, if it has
\* one, is fenced or ended.
LEMMA DropStep ==
  ASSUME IInv, NEW a \in Attempt,
         attempts' = DeleteAttemptRow(attempts, a),
         events' = DeleteEvents(events, a),
         registry' = [registry EXCEPT ![a] = NoRun],
         results' \in [Attempt -> ResultRow], ~HasRow(results', a),
         \A b \in Attempt \ {a} : results'[b] = results[b],
         job' \in [Run -> JobState],
         \A x \in Run : IF registry[a] = x
                        THEN job'[x] \in {SpentJob, [job[x] EXCEPT !.fenced = TRUE]}
                        ELSE job'[x] = job[x],
         relay' \in [Attempt -> RelayState],
         \A b \in Attempt \ {a} : relay'[b] = relay[b],
         relay'[a].closed \/ relay'[a].run = NoRun,
         relay'[a].result.status # "absent" =>
           relay'[a].result.run = relay'[a].run /\ relay'[a].run # NoRun,
         Linked, UNCHANGED <<conn, hello>>
  PROVE  IInv'
<1>0. TypeOK
  BY DEF IInv
<1>1. /\ attempts' \in [Attempt -> AttemptRow] /\ ~HasRow(attempts', a)
      /\ \A b \in Attempt \ {a} : attempts'[b] = attempts[b]
  BY <1>0, NullRows DEF DeleteAttemptRow, TypeOK, HasRow, NoRow
<1>2. TypeOK'
  <2>1. events' \in [Attempt -> SUBSET EventRow] /\ registry' \in [Attempt -> RunRef]
    BY <1>0, EventStatements DEF TypeOK, RunRef
  <2> QED
    BY <2>1, <1>0, <1>1 DEF TypeOK
<1>3. ASSUME NEW x \in Run, job'[x].engine \in {"starting", "spawned", "late"}
      PROVE  /\ job'[x].attempt = job[x].attempt /\ job'[x].engine = job[x].engine
             /\ ~job'[x].fenced => registry[a] # x /\ job'[x] = job[x]
  BY <1>3, <1>0 DEF SpentJob, NoJob, TypeOK, JobState
<1>4. LiveRunIsRegistered' /\ JobHasAttempt'
  <2> SUFFICES ASSUME NEW x \in Run, job'[x].engine \in {"starting", "spawned", "late"}
               PROVE  /\ (Live(x) /\ ~job[x].fenced => registry[job[x].attempt] = x)'
                      /\ job'[x].attempt \in Attempt
    BY DEF LiveRunIsRegistered, JobHasAttempt, Live
  <2>1. job'[x].attempt \in Attempt
    BY <1>3 DEF IInv, JobHasAttempt
  <2>2. Live(x)' /\ ~job'[x].fenced => registry[job[x].attempt] = x /\ registry[a] # x
    BY <1>3 DEF IInv, LiveRunIsRegistered, Live
  <2> QED
    BY <2>1, <2>2, <1>0, <1>3 DEF TypeOK
<1>5. RegistryBacked'
  <2> SUFFICES ASSUME NEW b \in Attempt, registry'[b] # NoRun
               PROVE  (/\ CurrentJob(b).attempt = b /\ Live(registry[b]) /\ ~CurrentJob(b).fenced
                       /\ HasRow(attempts, b) /\ attempts[b].run = registry[b]
                       /\ ~HasRow(results, b))'
    BY DEF RegistryBacked, Registered
  <2>1. b # a /\ registry'[b] = registry[b] /\ results'[b] = results[b] /\ attempts'[b] = attempts[b]
    BY <1>0, <1>1 DEF TypeOK
  <2>2. /\ CurrentJob(b).attempt = b /\ Live(registry[b]) /\ ~CurrentJob(b).fenced
        /\ HasRow(attempts, b) /\ attempts[b].run = registry[b]
        /\ ~HasRow(results, b)
    BY <2>1 DEF IInv, RegistryBacked, Registered
  <2>3. registry[b] \in Run /\ registry[a] # registry[b]
    BY <2>1, <2>2, <1>0, RunAssumption
    DEF IInv, RegistryBacked, Registered, TypeOK, RunRef, CurrentJob
  <2> QED
    BY <2>1, <2>2, <2>3 DEF CurrentJob, Live, HasRow
<1>6. ResultBacked' /\ HelloBacked'
  BY <1>1 DEF IInv, ResultBacked, HelloBacked, HasRow, Linked
<1>7. RelayRunKnown'
  BY <1>1 DEF IInv, RelayRunKnown, HasRow
<1> QED
  BY <1>2, <1>4, <1>5, <1>6, <1>7 DEF IInv

\* handleResultAck removes a registry entry that cannot be there.
LEMMA HandleResultAckStep ==
  ASSUME IInv, NEW a \in Attempt, NEW l, HandleResultAck(a, l)
  PROVE  IInv'
<1>0. TypeOK /\ Linked /\ UNCHANGED <<job, conn, hello>>
  BY DEF IInv, HandleResultAck, AckingResult, Frame
<1>1. /\ relay' \in [Attempt -> RelayState]
      /\ \A b \in Attempt : relay'[b].run = relay[b].run /\ relay'[b].result = relay[b].result
      /\ \A b \in Attempt \ {a} : relay'[b] = relay[b]
      /\ relay'[a].closed
  BY ZenonT(60), <1>0 DEF HandleResultAck, TypeOK, RelayState
<1>2. CASE LeaseOk(a, l) /\ AckMatches(results, a, Digest(relay[a].result))
  <2>1. registry[a] = NoRun
    BY <1>2 DEF AckMatches, IInv, RegistryBacked, Registered
  <2>2. /\ results' = DeleteResult(results, a)
        /\ attempts' = DeleteAttemptRow(attempts, a)
        /\ events' = DeleteEvents(events, a)
        /\ registry' = [registry EXCEPT ![a] = NoRun]
    BY <1>2 DEF HandleResultAck
  <2>3. /\ results' \in [Attempt -> ResultRow] /\ ~HasRow(results', a)
        /\ \A b \in Attempt \ {a} : results'[b] = results[b]
    BY <2>2, <1>0, NullRows DEF DeleteResult, TypeOK, HasRow, NoResult
  <2>4. relay'[a].result.status # "absent" =>
           relay'[a].result.run = relay'[a].run /\ relay'[a].run # NoRun
    BY <1>1 DEF IInv, RelayRunKnown
  <2>5. job' \in [Run -> JobState] /\ \A x \in Run : registry[a] # x /\ job'[x] = job[x]
    BY <2>1, <1>0, RunAssumption DEF TypeOK
  <2> QED
    BY <1>0, <1>1, <2>2, <2>3, <2>4, <2>5, DropStep
<1>3. CASE ~(LeaseOk(a, l) /\ AckMatches(results, a, Digest(relay[a].result)))
  <2>1. UNCHANGED <<attempts, events, results, registry>>
    BY <1>3 DEF HandleResultAck, store
  <2>2. HelloBacked' /\ RelayRunKnown'
    BY <2>1, <1>0, <1>1 DEF IInv, HelloBacked, RelayRunKnown, HasRow
  <2> QED
    BY <1>0, <1>1, <2>1, <2>2, SteadyStep DEF IInv, TypeOK, JobHasAttempt, Live, HasRow
<1> QED
  BY <1>2, <1>3

\* handleRevoke fences the run before its row and registry entry go.
LEMMA HandleRevokeStep ==
  ASSUME IInv, NEW a \in Attempt, HandleRevoke(a)
  PROVE  IInv'
<1>0. TypeOK /\ Linked /\ UNCHANGED <<results, conn, hello>> /\ relay[a] \in RelayState
  BY DEF IInv, HandleRevoke, TypeOK
<1>1. /\ relay' \in [Attempt -> RelayState]
      /\ \A b \in Attempt \ {a} : relay'[b] = relay[b]
      /\ relay'[a].run = NoRun /\ relay'[a].result = NoResult
  <2>1. relay' = [relay EXCEPT ![a] = RelayForgets(relay[a])]
    BY <1>0 DEF HandleRevoke, TypeOK
  <2> QED
    BY <2>1, <1>0, RelayForgetsFacts DEF TypeOK
<1>2. CASE Registered(a) /\ LeaseOk(a, relay[a].lease)
  <2> DEFINE r == registry[a]
  <2>1. r \in Run /\ ~HasRow(results, a)
    BY <1>0, <1>2 DEF IInv, RegistryBacked, Registered, TypeOK, RunRef
  <2>2. /\ job' = [job EXCEPT ![r] = Fence(job[r])]
        /\ registry' = [registry EXCEPT ![a] = NoRun]
        /\ attempts' = DeleteAttemptRow(attempts, a)
        /\ events' = DeleteEvents(events, a)
    BY <1>0, <1>2, <2>1 DEF HandleRevoke, TypeOK
  <2>3. Fence(job[r]) \in {SpentJob, [job[r] EXCEPT !.fenced = TRUE]} /\ Fence(job[r]) \in JobState
    BY <1>0, <2>1, NullRows DEF Fence, TypeOK, JobState
  <2>4. /\ job' \in [Run -> JobState]
        /\ \A x \in Run : IF registry[a] = x
                          THEN job'[x] \in {SpentJob, [job[x] EXCEPT !.fenced = TRUE]}
                          ELSE job'[x] = job[x]
    BY <1>0, <2>1, <2>2, <2>3 DEF TypeOK
  <2>5. relay'[a].result.status = "absent" /\ results' \in [Attempt -> ResultRow]
        /\ ~HasRow(results', a) /\ \A b \in Attempt \ {a} : results'[b] = results[b]
    BY <1>0, <1>1, <2>1 DEF NoResult, TypeOK, HasRow
  <2> QED
    BY <1>0, <1>1, <2>2, <2>4, <2>5, DropStep
<1>3. CASE ~(Registered(a) /\ LeaseOk(a, relay[a].lease))
  <2>1. UNCHANGED <<attempts, events, registry, job>>
    BY <1>3 DEF HandleRevoke, memory
  <2>2. HelloBacked' /\ RelayRunKnown'
    BY <2>1, <1>0, <1>1 DEF IInv, HelloBacked, RelayRunKnown, HasRow, NoResult
  <2> QED
    BY <1>0, <1>1, <2>1, <2>2, SteadyStep DEF IInv, TypeOK, JobHasAttempt, Live, HasRow
<1> QED
  BY <1>2, <1>3

-----------------------------------------------------------------------------
(* The connection.                                                         *)

\* Dialling, losing and breaking a link; the hello reports rows that exist.
LEMMA ConnectionStep ==
  ASSUME IInv, Dial \/ HandshakeFails \/ LinkBreaks \/ Disconnect
  PROVE  IInv'
<1>0. TypeOK /\ UNCHANGED <<attempts, events, results, registry, job, relay>>
  BY DEF IInv, Dial, HandshakeFails, LinkBreaks, Disconnect, store, memory
<1>1. conn' \in {"down", "hello", "up", "broken"} /\ hello' \in Hello /\ HelloBacked'
  <2>1. CASE Dial
    <3>1. hello' = [active |-> ActiveJobsForResume(attempts), pending |-> PendingResults(results),
                    missed |-> {}]
          /\ conn' = "hello"
      BY <2>1 DEF Dial, NoHello
    <3>2. /\ ActiveJobsForResume(attempts) \subseteq Attempt
          /\ PendingResults(results) \subseteq Attempt
          /\ \A a \in ActiveJobsForResume(attempts) : HasRow(attempts, a)
          /\ \A a \in PendingResults(results) : HasRow(results, a)
      BY DEF ActiveJobsForResume, PendingResults, HasRow, ActiveStatus
    <3>3. hello' \in Hello
      BY <3>1, <3>2 DEF Hello
    <3> QED
      BY <3>1, <3>2, <3>3, <1>0 DEF HelloBacked, HasRow
  <2>2. CASE HandshakeFails \/ Disconnect
    BY <2>2, NullRows DEF HandshakeFails, Disconnect, HelloBacked
  <2>3. CASE LinkBreaks
    BY <2>3, <1>0 DEF LinkBreaks, HelloBacked, TypeOK
  <2> QED
    BY <2>1, <2>2, <2>3
<1>2. RelayRunKnown'
  BY <1>0 DEF IInv, RelayRunKnown, HasRow
<1> QED
  BY <1>0, <1>1, <1>2, SteadyStep DEF IInv, TypeOK, JobHasAttempt, Live, HasRow

\* What the relay does on its own while partitioned.
LEMMA RelayAloneStep ==
  ASSUME IInv, NEW a \in Attempt, RelayGivesUp(a) \/ ResultAckLost(a)
  PROVE  IInv'
<1>0. /\ TypeOK /\ UNCHANGED <<attempts, events, results, registry, job, conn, hello>>
      /\ relay[a] \in RelayState
  BY DEF IInv, RelayGivesUp, ResultAckLost, store, memory, TypeOK
<1>1. /\ relay' \in [Attempt -> RelayState]
      /\ \A b \in Attempt \ {a} : relay'[b] = relay[b]
      /\ \/ relay'[a].run = NoRun /\ relay'[a].result = NoResult
         \/ /\ relay'[a].run = relay[a].run /\ relay'[a].result = relay[a].result
            /\ relay'[a].closed
  <2>1. CASE RelayGivesUp(a)
    <3>1. relay' = [relay EXCEPT ![a] = RelayForgets(relay[a])]
      BY <2>1, <1>0 DEF RelayGivesUp, TypeOK
    <3> QED
      BY <3>1, <1>0, RelayForgetsFacts DEF TypeOK
  <2>2. CASE ResultAckLost(a)
    BY <2>2, <1>0 DEF ResultAckLost, TypeOK, RelayState
  <2> QED
    BY <2>1, <2>2
<1>2. RelayRunKnown' /\ HelloBacked'
  BY <1>0, <1>1 DEF IInv, RelayRunKnown, HelloBacked, HasRow, NoResult
<1> QED
  BY <1>0, <1>1, <1>2, SteadyStep DEF IInv, TypeOK, JobHasAttempt, Live, HasRow

-----------------------------------------------------------------------------
(* applyResume, one directive at a time.                                   *)

\* A directive drops an attempt's row or moves its lease.
LEMMA ResumedRowFacts ==
  ASSUME TypeOK, NEW a \in Attempt, NEW d \in Directive
  PROVE  /\ ResumedRow(a, d) \in AttemptRow
         /\ d.act \in Drops => ResumedRow(a, d) = NoRow
         /\ d.act \notin Drops => /\ ResumedRow(a, d).run = attempts[a].run
                                  /\ ResumedRow(a, d).status = attempts[a].status
<1>1. attempts \in [Attempt -> AttemptRow] /\ d.lease \in LeaseId
  BY DEF TypeOK, Directive
<1>2. SetAttemptLease(attempts, a, d.lease)[a] =
        IF HasRow(attempts, a) THEN [attempts[a] EXCEPT !.lease = d.lease] ELSE attempts[a]
  BY <1>1 DEF SetAttemptLease
<1>3. [attempts[a] EXCEPT !.lease = d.lease] \in AttemptRow
  BY <1>1 DEF AttemptRow
<1> QED
  BY <1>1, <1>2, <1>3, NullRows DEF ResumedRow, AttemptRow

\* A directive drops an attempt's result or moves its lease.
LEMMA ResumedResultFacts ==
  ASSUME TypeOK, NEW a \in Attempt, NEW d \in Directive
  PROVE  /\ ResumedResult(a, d) \in ResultRow
         /\ d.act \in Drops => ResumedResult(a, d) = NoResult
         /\ d.act \notin Drops => /\ ResumedResult(a, d).run = results[a].run
                                  /\ ResumedResult(a, d).status = results[a].status
<1>1. results \in [Attempt -> ResultRow] /\ d.lease \in LeaseId
  BY DEF TypeOK, Directive
<1>2. UpdateResult(results, a, d.lease)[a] =
        IF HasRow(results, a) THEN [results[a] EXCEPT !.lease = d.lease] ELSE results[a]
  BY <1>1 DEF UpdateResult
<1>3. [results[a] EXCEPT !.lease = d.lease] \in ResultRow
  BY <1>1 DEF ResultRow
<1> QED
  BY <1>1, <1>2, <1>3, NullRows DEF ResumedResult, ResultRow

\* After a directive the relay knows the run of the row that is left, or has
\* forgotten or acked the one that is dropped.
LEMMA ResumedRelayFacts ==
  ASSUME IInv, conn = "hello", NEW a \in Attempt, NEW d \in Directive, DirectiveFor(a, d)
  PROVE  /\ ResumedRelay(a, d) \in RelayState
         /\ ResumedRelay(a, d).result.status # "absent" =>
              /\ ResumedRelay(a, d).result.run = ResumedRelay(a, d).run
              /\ ResumedRelay(a, d).run # NoRun
         /\ d.act = "abandon" => /\ ResumedRelay(a, d).run = NoRun
                                 /\ ~ResumedRelay(a, d).open
         /\ d.act = "ack_pending" => /\ ResumedRelay(a, d).closed
                                     /\ ResumedRelay(a, d).run = relay[a].run
                                     /\ HasRow(results, a)
                                     /\ relay[a].result.status # "absent"
         /\ d.act = "none" => ResumedRelay(a, d) = relay[a]
         /\ d.act \in Resumes \cup Resends =>
              /\ HasRow(attempts, a) /\ ~relay[a].closed
              /\ ResumedRelay(a, d).run = attempts[a].run
<1> DEFINE known == RelayAccepts(relay[a], attempts[a].run)
           leased == IF d.lease # 0 THEN [known EXCEPT !.lease = d.lease] ELSE known
           streamed == IF d.act \in Resumes
                       THEN RelayStores(leased, leased.run,
                                        {e.seq : e \in EventsAfter(events, a, leased.got)})
                       ELSE leased
<1>0. /\ TypeOK /\ relay[a] \in RelayState /\ attempts[a].run \in RunRef /\ d.lease \in LeaseId
      /\ relay[a].result.status # "absent" =>
           relay[a].result.run = relay[a].run /\ relay[a].run # NoRun
  BY DEF IInv, TypeOK, AttemptRow, Directive, RelayRunKnown
<1>1. CASE d.act = "none"
  BY <1>0, <1>1 DEF ResumedRelay, Resumes, Resends
<1>2. CASE d.act = "abandon"
  <2>1. ResumedRelay(a, d) = RelayForgets(relay[a])
    BY <1>2 DEF ResumedRelay, Resumes, Resends
  <2> QED
    BY <2>1, <1>0, <1>2, RelayForgetsFacts DEF NoResult, Resumes, Resends
<1>3. CASE d.act = "ack_pending"
  <2>1. ResumedRelay(a, d) = [relay[a] EXCEPT !.closed = TRUE]
    BY <1>3 DEF ResumedRelay, Resumes, Resends
  <2>2. a \in hello.pending /\ relay[a].result.status # "absent"
    BY <1>3 DEF DirectiveFor, Resumes, Resends
  <2>3. HasRow(results, a)
    BY <2>2 DEF IInv, HelloBacked
  <2> QED
    BY <2>1, <2>2, <2>3, <1>0, <1>3 DEF RelayState, Resumes, Resends
<1>4. CASE d.act \in Resumes \cup Resends
  <2>1. a \in hello.active \cup hello.pending /\ ~relay[a].closed
    BY <1>4 DEF DirectiveFor, Resumes, Resends
  <2>2. HasRow(attempts, a)
    BY <2>1 DEF IInv, HelloBacked, ResultBacked
  <2>3. /\ known \in RelayState /\ known.run = attempts[a].run
        /\ known.result.status # "absent" => known.result.run = known.run /\ known.run # NoRun
    BY <1>0, RelayAcceptsFacts DEF NoResult
  <2> HIDE DEF known
  <2>4. /\ leased \in RelayState /\ leased.run = known.run /\ leased.result = known.result
    BY <2>3, <1>0 DEF RelayState
  <2> HIDE DEF leased
  <2>5. /\ streamed \in RelayState /\ streamed.run = known.run /\ streamed.result = known.result
    BY <2>4, RelayStoresFacts
  <2>6. ResumedRelay(a, d) = IF d.act \in Resends /\ HasRow(results, a)
                             THEN RelayResult(streamed, ResumedResult(a, d)) ELSE streamed
    BY <1>4 DEF ResumedRelay, Resumes, Resends, known, leased
  <2> HIDE DEF streamed
  <2>7. /\ ResumedResult(a, d) \in ResultRow
        /\ HasRow(results, a) => ResumedResult(a, d).run # NoRun
    <3>1. d.act \notin Drops
      BY <1>4 DEF Resumes, Resends, Drops
    <3> QED
      BY <3>1, <1>0, ResumedResultFacts DEF IInv, ResultBacked
  <2>8. CASE d.act \in Resends /\ HasRow(results, a)
    <3>1. ResumedRelay(a, d) = RelayResult(streamed, ResumedResult(a, d))
      BY <2>6, <2>8
    <3>2. /\ ResumedRelay(a, d) \in RelayState /\ ResumedRelay(a, d).run = streamed.run
          /\ ResumedRelay(a, d).result =
               IF streamed.run = ResumedResult(a, d).run THEN ResumedResult(a, d) ELSE streamed.result
      BY <3>1, <2>5, <2>7, RelayResultFacts
    <3> QED
      BY <3>2, <2>1, <2>2, <2>3, <2>5, <2>7, <2>8, <1>4 DEF Resumes, Resends
  <2>9. CASE ~(d.act \in Resends /\ HasRow(results, a))
    BY <2>9, <2>6, <2>1, <2>2, <2>3, <2>5, <1>4 DEF Resumes, Resends
  <2> QED
    BY <2>8, <2>9
<1> QED
  BY <1>1, <1>2, <1>3, <1>4 DEF Directive, Drops

\* applyResume: all directives of a hello.accepted, attempt by attempt.
LEMMA HelloAcceptedStep ==
  ASSUME IInv, HelloAccepted
  PROVE  IInv'
<1>1. PICK dir \in [Attempt -> Directive] :
        /\ \A a \in Attempt : DirectiveFor(a, dir[a])
        /\ attempts' = [a \in Attempt |-> ResumedRow(a, dir[a])]
        /\ events' = [a \in Attempt |-> ResumedEvents(a, dir[a])]
        /\ results' = [a \in Attempt |-> ResumedResult(a, dir[a])]
        /\ registry' = [a \in Attempt |-> IF dir[a].act \in Drops THEN NoRun ELSE registry[a]]
        /\ job' = [r \in Run |-> IF job[r].attempt \in Attempt /\ registry[job[r].attempt] = r
                                 THEN ResumedJob(r, dir[job[r].attempt]) ELSE job[r]]
        /\ relay' = [a \in Attempt |-> ResumedRelay(a, dir[a])]
  BY DEF HelloAccepted
<1>0. TypeOK /\ conn = "hello" /\ conn' = "up" /\ hello' \in Hello
  <2>1. {a \in hello.active \ hello.pending : HasRow(results', a)} \in SUBSET Attempt
    BY HelloScope DEF IInv
  <2>2. [NoHello EXCEPT !.missed = {a \in hello.active \ hello.pending : HasRow(results', a)}] \in Hello
    BY <2>1 DEF NoHello, Hello
  <2> QED
    BY <2>2 DEF IInv, HelloAccepted
<1>2. \A a \in Attempt : dir[a] \in Directive
  OBVIOUS
<1>3. ASSUME NEW a \in Attempt, dir[a].act \in Drops, registry[a] # NoRun
      PROVE  dir[a].act = "abandon"
  <2>1. dir[a].act = "ack_pending" => HasRow(results, a)
    BY <1>0, <1>1, <1>2, ResumedRelayFacts
  <2> QED
    BY <2>1, <1>3 DEF Drops, IInv, RegistryBacked, Registered
<1>4. ASSUME NEW r \in Run
      PROVE  /\ job'[r] \in JobState
             /\ job'[r].engine \in {"starting", "spawned", "late"} =>
                  /\ job'[r].attempt = job[r].attempt
                  /\ job'[r].engine = job[r].engine
                  /\ ~job'[r].fenced => ~job[r].fenced
             /\ job[r].attempt \in Attempt /\ registry[job[r].attempt] = r =>
                  IF dir[job[r].attempt].act = "abandon"
                  THEN job'[r].fenced \/ job'[r].engine = "gone"
                  ELSE /\ job'[r].attempt = job[r].attempt
                       /\ job'[r].engine = job[r].engine
                       /\ job'[r].fenced = job[r].fenced
  <2>1. job[r] \in JobState
    BY <1>0 DEF TypeOK
  <2>2. CASE job[r].attempt \in Attempt /\ registry[job[r].attempt] = r
    <3> DEFINE d == dir[job[r].attempt]
    <3>1. job'[r] = ResumedJob(r, d)
      BY <2>2, <1>1
    <3>2. d.lease \in LeaseId
      BY <2>2, <1>2 DEF Directive
    <3> HIDE DEF d
    <3>3. CASE d.act = "abandon"
      BY ZenonT(60), <3>1, <3>3, <2>1, NullRows DEF ResumedJob, Fence, SpentJob, NoJob, JobState, d
    <3>4. CASE d.act # "abandon"
      BY <3>1, <3>2, <3>4, <2>1 DEF ResumedJob, JobState, d
    <3> QED
      BY <3>3, <3>4
  <2>3. CASE ~(job[r].attempt \in Attempt /\ registry[job[r].attempt] = r)
    BY <2>1, <2>3, <1>1
  <2> QED
    BY <2>2, <2>3
<1>5. TypeOK'
  <2>1. attempts' \in [Attempt -> AttemptRow] /\ results' \in [Attempt -> ResultRow]
    BY <1>0, <1>1, <1>2, ResumedRowFacts, ResumedResultFacts
  <2>2. events' \in [Attempt -> SUBSET EventRow] /\ registry' \in [Attempt -> RunRef]
    BY <1>0, <1>1 DEF ResumedEvents, TypeOK, RunRef
  <2>3. job' \in [Run -> JobState]
    BY <1>1, <1>4
  <2>4. relay' \in [Attempt -> RelayState]
    BY <1>0, <1>1, <1>2, ResumedRelayFacts
  <2> QED
    BY <2>1, <2>2, <2>3, <2>4, <1>0 DEF TypeOK
<1>6. LiveRunIsRegistered' /\ JobHasAttempt'
  <2> SUFFICES ASSUME NEW x \in Run, job'[x].engine \in {"starting", "spawned", "late"}
               PROVE  /\ (Live(x) /\ ~job[x].fenced => registry[job[x].attempt] = x)'
                      /\ job'[x].attempt \in Attempt
    BY DEF LiveRunIsRegistered, JobHasAttempt, Live
  <2>1. job'[x].attempt = job[x].attempt /\ job[x].attempt \in Attempt
        /\ job'[x].engine = job[x].engine
    BY <1>4 DEF IInv, JobHasAttempt
  <2>2. ASSUME Live(x)', ~job'[x].fenced
        PROVE  registry'[job[x].attempt] = x
    <3>1. registry[job[x].attempt] = x
      BY <2>1, <2>2, <1>4 DEF IInv, LiveRunIsRegistered, Live
    <3>2. dir[job[x].attempt].act # "abandon"
      BY <2>1, <2>2, <3>1, <1>4 DEF Live
    <3>3. dir[job[x].attempt].act \notin Drops
      BY <2>1, <3>1, <3>2, <1>3, RunAssumption
    <3> QED
      BY <2>1, <3>1, <3>3, <1>1
  <2> QED
    BY <2>1, <2>2
<1>7. RegistryBacked'
  <2> SUFFICES ASSUME NEW b \in Attempt, registry'[b] # NoRun
               PROVE  (/\ CurrentJob(b).attempt = b /\ Live(registry[b]) /\ ~CurrentJob(b).fenced
                       /\ HasRow(attempts, b) /\ attempts[b].run = registry[b]
                       /\ ~HasRow(results, b))'
    BY DEF RegistryBacked, Registered
  <2>1. registry'[b] = registry[b] /\ dir[b].act \notin Drops
    BY <1>1
  <2>2. /\ CurrentJob(b).attempt = b /\ Live(registry[b]) /\ ~CurrentJob(b).fenced
        /\ HasRow(attempts, b) /\ attempts[b].run = registry[b]
        /\ ~HasRow(results, b)
    BY <2>1 DEF IInv, RegistryBacked, Registered
  <2>3. registry[b] \in Run
    BY <2>1, <1>0 DEF TypeOK, RunRef
  <2>4. /\ job'[registry[b]].attempt = b /\ ~job'[registry[b]].fenced
        /\ job'[registry[b]].engine = job[registry[b]].engine
    BY <2>1, <2>2, <2>3, <1>4 DEF CurrentJob, Drops
  <2>5. attempts'[b].run = attempts[b].run /\ attempts'[b].status = attempts[b].status
        /\ results'[b].status = results[b].status
    BY <2>1, <1>0, <1>1, <1>2, ResumedRowFacts, ResumedResultFacts
  <2> QED
    BY <2>1, <2>2, <2>4, <2>5 DEF CurrentJob, Live, HasRow
<1>8. ResultBacked'
  <2> SUFFICES ASSUME NEW b \in Attempt, results'[b].status # "absent"
               PROVE  /\ attempts'[b].status # "absent" /\ results'[b].run = attempts'[b].run
                      /\ results'[b].run # NoRun
    BY DEF ResultBacked, HasRow
  <2>1. dir[b].act \notin Drops
    BY <1>0, <1>1, <1>2, ResumedResultFacts DEF NoResult
  <2>2. attempts'[b].run = attempts[b].run /\ attempts'[b].status = attempts[b].status
        /\ results'[b].status = results[b].status /\ results'[b].run = results[b].run
    BY <2>1, <1>0, <1>1, <1>2, ResumedRowFacts, ResumedResultFacts
  <2> QED
    BY <2>2 DEF IInv, ResultBacked, HasRow
<1>9. HelloBacked'
  BY <1>0 DEF HelloBacked
<1>10. RelayRunKnown'
  <2> SUFFICES ASSUME NEW b \in Attempt
               PROVE  /\ relay'[b].run # NoRun =>
                           IF attempts'[b].status # "absent" THEN attempts'[b].run = relay'[b].run
                           ELSE relay'[b].closed
                      /\ relay'[b].result.status # "absent" =>
                           relay'[b].result.run = relay'[b].run /\ relay'[b].run # NoRun
    BY DEF RelayRunKnown, HasRow
  <2> DEFINE d == dir[b]
  <2>1. d \in Directive /\ DirectiveFor(b, d) /\ relay'[b] = ResumedRelay(b, d)
        /\ attempts'[b] = ResumedRow(b, d)
    BY <1>1
  <2> HIDE DEF d
  <2>2. CASE d.act = "abandon"
    BY <2>1, <2>2, <1>0, ResumedRelayFacts
  <2>3. CASE d.act = "ack_pending"
    BY <2>1, <2>3, <1>0, ResumedRelayFacts, ResumedRowFacts DEF Drops, NoRow
  <2>4. CASE d.act \in Resumes \cup Resends
    <3>1. d.act \notin Drops
      BY <2>4 DEF Resumes, Resends, Drops
    <3> QED
      BY <3>1, <2>1, <2>4, <1>0, ResumedRelayFacts, ResumedRowFacts DEF HasRow
  <2>5. CASE d.act = "none"
    <3>1. d.act \notin Drops
      BY <2>5 DEF Drops
    <3> QED
      BY <3>1, <2>1, <2>5, <1>0, ResumedRelayFacts, ResumedRowFacts DEF IInv, RelayRunKnown, HasRow
  <2> QED
    BY <2>1, <2>2, <2>3, <2>4, <2>5 DEF Directive, Drops
<1> QED
  BY <1>5, <1>6, <1>7, <1>8, <1>9, <1>10 DEF IInv

-----------------------------------------------------------------------------
(* Deaths of the process.                                                  *)

\* A death that leaves runs and results of the tables as they were.
LEMMA QuietDeathStep ==
  ASSUME IInv, Crash \/ \E r \in Run : EventKeyThrows(r) \/ CrashInAppend(r)
  PROVE  IInv'
<1>0. TypeOK /\ Dies /\ UNCHANGED <<attempts, results, relay>>
  BY DEF IInv, Crash, EventKeyThrows, CrashInAppend, store
<1>1. events' \in [Attempt -> SUBSET EventRow]
  <2>1. CASE events' = events
    BY <2>1, <1>0 DEF TypeOK
  <2>2. ASSUME NEW r \in Run, CrashInAppend(r)
        PROVE  events' \in [Attempt -> SUBSET EventRow]
    <3>1. job[r].attempt \in Attempt /\ job[r].seq + 1 \in 1 .. MaxSeq
      BY <2>2, <1>0, BoundAssumption
      DEF CrashInAppend, EventFits, IInv, JobHasAttempt, TypeOK, JobState
    <3>2. events' = InsertEvent(events, job[r].attempt, job[r].seq + 1, r)
      BY <2>2 DEF CrashInAppend
    <3> QED
      BY <3>1, <3>2, <1>0, EventStatements DEF TypeOK
  <2> QED
    BY <2>1, <2>2 DEF Crash, EventKeyThrows, store
<1>2. ResultBacked' /\ RelayRunKnown'
  BY <1>0 DEF IInv, ResultBacked, RelayRunKnown, HasRow
<1> QED
  BY <1>0, <1>1, <1>2, DiesFacts, DeathStep DEF TypeOK

\* A death after createAttempt: a row without a run in memory.
LEMMA CrashInAssignStep ==
  ASSUME IInv, NEW a \in Attempt, NEW l \in 1 .. MaxLease, NEW r \in Run, CrashInAssign(a, l, r)
  PROVE  IInv'
<1>0. TypeOK /\ l \in LeaseId /\ UNCHANGED <<events, results>>
  BY BoundAssumption DEF IInv, LeaseId, CrashInAssign
<1>1. ~HasRow(attempts, a) /\ ~HasRow(results, a) /\ ~relay[a].closed
  BY DEF CrashInAssign, AssignedLease, Known, IInv, ResultBacked
<1>2. relay' = [relay EXCEPT ![a] = Issued(a, l)] /\ relay[a].run = NoRun
  BY <1>1 DEF CrashInAssign, IInv, RelayRunKnown
<1>3. Issued(a, l) \in RelayState /\ Issued(a, l).run = relay[a].run
      /\ Issued(a, l).closed = relay[a].closed /\ Issued(a, l).result = relay[a].result
  BY <1>0, IssuedFacts
<1>4. relay' \in [Attempt -> RelayState] /\ relay'[a].run = NoRun
      /\ \A b \in Attempt : relay'[b].run = relay[b].run /\ relay'[b].result = relay[b].result
                            /\ relay'[b].closed = relay[b].closed
  BY <1>0, <1>2, <1>3 DEF TypeOK
<1>5. attempts' \in [Attempt -> AttemptRow] /\ \A b \in Attempt \ {a} : attempts'[b] = attempts[b]
  <2>1. attempts' = CreateAttempt(attempts, a, l, r)
    BY DEF CrashInAssign
  <2>2. attempts' \in [Attempt -> AttemptRow]
    BY <2>1, <1>0, AttemptStatements DEF TypeOK
  <2> QED
    BY <2>1, <2>2, <1>0 DEF CreateAttempt, TypeOK
<1>6. ResultBacked' /\ RelayRunKnown'
  BY <1>0, <1>1, <1>4, <1>5 DEF IInv, ResultBacked, RelayRunKnown, HasRow
<1>7. /\ registry' = [x \in Attempt |-> NoRun] /\ job' \in [Run -> {NoJob, SpentJob}]
      /\ conn' = "down" /\ hello' = NoHello
  BY DEF CrashInAssign
<1> QED
  BY <1>0, <1>4, <1>5, <1>6, <1>7, DeathStep DEF TypeOK

\* A death after saveResult: a result whose row still says running.
LEMMA CrashInOnDoneStep ==
  ASSUME IInv, NEW r \in Run, NEW s \in FinalStatus, CrashInOnDone(r, s)
  PROVE  IInv'
<1> DEFINE a == job[r].attempt
           row == ResultOf(r, s, job[r].seq)
<1>0. /\ TypeOK /\ Dies /\ UNCHANGED <<attempts, events, relay>>
      /\ results' = [results EXCEPT ![a] = row]
  BY DEF IInv, CrashInOnDone, SaveResult
<1>1. a \in Attempt /\ HasRow(attempts, a) /\ attempts[a].run = r
  BY RunAssumption
  DEF CrashInOnDone, IInv, LiveRunIsRegistered, RegistryBacked, JobHasAttempt, Live, Registered
<1>2. row \in ResultRow /\ row.run = r
  BY <1>0 DEF ResultOf, ResultRow, TypeOK, JobState, RunRef
<1> HIDE DEF row
<1>3. results' \in [Attempt -> ResultRow]
  BY <1>0, <1>1, <1>2 DEF TypeOK
<1>4. ResultBacked' /\ RelayRunKnown'
  BY <1>0, <1>1, <1>2, RunAssumption DEF IInv, TypeOK, ResultBacked, RelayRunKnown, HasRow
<1> QED
  BY <1>0, <1>3, <1>4, DiesFacts, DeathStep DEF TypeOK

\* The result goes first and the row second: cut in between, no result is left
\* without its row.
LEMMA CutDropStep ==
  ASSUME IInv, NEW a \in Attempt, Dies, UNCHANGED events,
         results' \in [Attempt -> ResultRow], ~HasRow(results', a),
         \A b \in Attempt \ {a} : results'[b] = results[b],
         attempts' \in {attempts, DeleteAttemptRow(attempts, a)},
         relay' \in [Attempt -> RelayState],
         \A b \in Attempt \ {a} : relay'[b] = relay[b],
         \/ relay'[a].run = NoRun
         \/ relay'[a].closed /\ relay'[a].run = relay[a].run,
         relay'[a].result.status # "absent" =>
           relay'[a].result.run = relay'[a].run /\ relay'[a].run # NoRun
  PROVE  IInv'
<1>0. TypeOK
  BY DEF IInv
<1>2. /\ attempts' \in [Attempt -> AttemptRow]
      /\ \A b \in Attempt \ {a} : attempts'[b] = attempts[b]
      /\ attempts'[a] = attempts[a] \/ ~HasRow(attempts', a)
  BY <1>0, NullRows DEF DeleteAttemptRow, TypeOK, HasRow, NoRow
<1>3. ResultBacked'
  BY <1>2 DEF IInv, ResultBacked, HasRow
<1>4. RelayRunKnown'
  BY <1>2 DEF IInv, RelayRunKnown, HasRow
<1> QED
  BY <1>0, <1>2, <1>3, <1>4, DiesFacts, DeathStep DEF TypeOK

\* Deleting a result leaves the others.
LEMMA DeleteResultFacts ==
  ASSUME TypeOK, NEW a \in Attempt
  PROVE  /\ DeleteResult(results, a) \in [Attempt -> ResultRow]
         /\ ~HasRow(DeleteResult(results, a), a)
         /\ \A b \in Attempt \ {a} : DeleteResult(results, a)[b] = results[b]
BY NullRows DEF DeleteResult, TypeOK, HasRow, NoResult

\* A death inside handleResultAck or handleRevoke.
LEMMA CrashInDropStep ==
  ASSUME IInv, NEW a \in Attempt, CrashInRevoke(a) \/ \E l \in 1 .. MaxLease : CrashInResultAck(a, l)
  PROVE  IInv'
<1>0. TypeOK /\ relay[a] \in RelayState
  BY DEF IInv, TypeOK
<1>1. CASE CrashInRevoke(a)
  <2>1. /\ Dies /\ UNCHANGED <<events, results>> /\ attempts' = DeleteAttemptRow(attempts, a)
        /\ relay' = [relay EXCEPT ![a] = RelayForgets(relay[a])]
    BY <1>0, <1>1 DEF CrashInRevoke, TypeOK
  <2>2. results' \in [Attempt -> ResultRow] /\ ~HasRow(results', a)
    BY <1>0, <1>1, <2>1 DEF CrashInRevoke, IInv, RegistryBacked, HasRow, TypeOK
  <2>3. /\ relay' \in [Attempt -> RelayState]
        /\ \A b \in Attempt \ {a} : relay'[b] = relay[b]
        /\ relay'[a].run = NoRun /\ relay'[a].result = NoResult
    BY <2>1, <1>0, RelayForgetsFacts DEF TypeOK
  <2>4. relay'[a].result.status = "absent"
    BY <2>3 DEF NoResult
  <2> QED
    BY <2>1, <2>2, <2>3, <2>4, CutDropStep
<1>2. ASSUME NEW l \in 1 .. MaxLease, CrashInResultAck(a, l)
      PROVE  IInv'
  <2>1. /\ Dies /\ UNCHANGED events /\ results' = DeleteResult(results, a)
        /\ attempts' \in {attempts, DeleteAttemptRow(attempts, a)}
        /\ relay' = [relay EXCEPT ![a].closed = TRUE]
    BY <1>2 DEF CrashInResultAck
  <2>2. /\ relay' \in [Attempt -> RelayState]
        /\ \A b \in Attempt \ {a} : relay'[b] = relay[b]
        /\ relay'[a].run = relay[a].run /\ relay'[a].result = relay[a].result /\ relay'[a].closed
    BY <2>1, <1>0 DEF TypeOK, RelayState
  <2>3. relay'[a].result.status # "absent" =>
           relay'[a].result.run = relay'[a].run /\ relay'[a].run # NoRun
    BY <2>2 DEF IInv, RelayRunKnown
  <2> QED
    BY <2>1, <2>2, <2>3, <1>0, DeleteResultFacts, CutDropStep
<1> QED
  BY <1>1, <1>2

\* A death inside a directive.
LEMMA CrashInResumeStep ==
  ASSUME IInv, NEW a \in Attempt, NEW d \in Directive, CrashInResume(a, d)
  PROVE  IInv'
<1>0. TypeOK /\ Dies /\ UNCHANGED events /\ conn = "hello" /\ DirectiveFor(a, d)
      /\ relay[a] \in RelayState /\ d.lease \in LeaseId
  BY DEF IInv, CrashInResume, TypeOK, Directive
<1>1. CASE d.act \in Drops
  <2>1. /\ results' = DeleteResult(results, a)
        /\ attempts' \in {attempts, DeleteAttemptRow(attempts, a)}
        /\ relay' = [relay EXCEPT ![a] = ResumedRelay(a, d)]
    BY <1>1 DEF CrashInResume, Drops, Resends
  <2>2. /\ ResumedRelay(a, d) \in RelayState
        /\ \/ ResumedRelay(a, d).run = NoRun
           \/ ResumedRelay(a, d).closed /\ ResumedRelay(a, d).run = relay[a].run
        /\ ResumedRelay(a, d).result.status # "absent" =>
             ResumedRelay(a, d).result.run = ResumedRelay(a, d).run /\ ResumedRelay(a, d).run # NoRun
    BY <1>0, <1>1, ResumedRelayFacts DEF Drops
  <2>3. /\ relay' \in [Attempt -> RelayState]
        /\ \A b \in Attempt \ {a} : relay'[b] = relay[b]
        /\ relay'[a] = ResumedRelay(a, d)
    BY <2>1, <2>2, <1>0 DEF TypeOK
  <2> QED
    BY <1>0, <2>1, <2>2, <2>3, DeleteResultFacts, CutDropStep
<1>2. CASE d.act \notin Drops
  <2>1. /\ attempts' = SetAttemptLease(attempts, a, d.lease)
        /\ relay' = [relay EXCEPT ![a].lease = d.lease]
        /\ UNCHANGED results
    BY <1>2 DEF CrashInResume
  <2>2. /\ relay' \in [Attempt -> RelayState]
        /\ \A b \in Attempt : relay'[b].run = relay[b].run /\ relay'[b].result = relay[b].result
                              /\ relay'[b].closed = relay[b].closed
    BY <2>1, <1>0 DEF TypeOK, RelayState
  <2>3. /\ attempts' \in [Attempt -> AttemptRow]
        /\ \A b \in Attempt : /\ attempts'[b].run = attempts[b].run
                              /\ HasRow(attempts', b) <=> HasRow(attempts, b)
    BY <2>1, <1>0, AttemptStatements DEF TypeOK
  <2>4. ResultBacked' /\ RelayRunKnown'
    BY <2>1, <2>2, <2>3 DEF IInv, ResultBacked, RelayRunKnown, HasRow
  <2> QED
    BY <1>0, <2>1, <2>2, <2>3, <2>4, DiesFacts, DeathStep DEF TypeOK
<1> QED
  BY <1>1, <1>2

-----------------------------------------------------------------------------
(* The invariant is inductive.                                             *)

\* The empty store and memory satisfy the invariant.
LEMMA InitIInv == Init => IInv
<1> SUFFICES ASSUME Init PROVE IInv
  OBVIOUS
<1>1. TypeOK
  BY NullRows DEF Init, TypeOK, RunRef
<1>2. \A r \in Run : job[r].engine = "none"
  BY DEF Init, NoJob
<1>3. \A a \in Attempt : relay[a].run = NoRun /\ relay[a].result.status = "absent"
                         /\ results[a].status = "absent"
  BY DEF Init, RelayIdle, NoResult
<1> QED
  BY <1>1, <1>2, <1>3
  DEF Init, IInv, LiveRunIsRegistered, JobHasAttempt, RegistryBacked, ResultBacked, HelloBacked,
      RelayRunKnown, Live, Registered, HasRow

\* Every step keeps the invariant.
LEMMA NextIInv == IInv /\ [Next]_vars => IInv'
<1> SUFFICES ASSUME IInv, [Next]_vars PROVE IInv'
  OBVIOUS
<1>1. ASSUME NEW a \in Attempt, Inbound(a)
      PROVE  IInv'
  BY <1>1, AssignDuplicateStep, AssignRefusedStep, AssignStartsStep, HandleStreamAckStep,
     HandleResultAckStep, HandleCancelStep, HandleLeaseGrantedStep, HandleRevokeStep
  DEF Inbound
<1>2. ASSUME NEW r \in Run, Engine(r)
      PROVE  IInv'
  <2>1. CASE EngineStdout(r) \/ EngineStderr(r) \/ EngineLateOutput(r)
    BY <2>1, OnEventStep DEF EngineStdout, EngineStderr, EngineLateOutput
  <2> QED
    BY <1>2, <2>1, EngineSpawnsStep, EngineEndsStep, EngineLateCloseStep, OverlapExpiresStep
    DEF Engine
<1>3. CASE Session
  BY <1>3, ConnectionStep, HelloAcceptedStep, RelayAloneStep DEF Session
<1>4. CASE Crash \/ \E r \in Run : EventKeyThrows(r)
  BY <1>4, QuietDeathStep
<1>5. CASE TornCrash
  BY <1>5, QuietDeathStep, CrashInAssignStep, CrashInOnDoneStep, CrashInDropStep,
     CrashInResumeStep
  DEF TornCrash
<1>6. CASE UNCHANGED vars
  BY <1>6
  DEF vars, IInv, TypeOK, LiveRunIsRegistered, JobHasAttempt, RegistryBacked, ResultBacked,
      HelloBacked, RelayRunKnown, Live, Registered, CurrentJob, HasRow
<1> QED
  BY <1>1, <1>2, <1>3, <1>4, <1>5, <1>6 DEF Next

\* The tables, the registry and the relay's knowledge agree in every reachable
\* state: manager.ts keeps memory and store in step through every handler, and
\* a restart between any two statements leaves a store the next start can use.
THEOREM Invariance == Spec => []IInv
<1> QED
  BY InitIInv, NextIInv, PTL DEF Spec

\* Every variable keeps its type, for every number of attempts, runs, leases
\* and events.
THEOREM TypeCorrect == Spec => []TypeOK
<1>1. IInv => TypeOK
  BY DEF IInv
<1> QED
  BY <1>1, Invariance, PTL

\* An attempt never has two runs that count: a re-assign, a stale onDone, a
\* revoke or a resume directive cannot leave an unfenced run outside the registry.
THEOREM Fencing == Spec => []LiveRunIsRegistered
<1>1. IInv => LiveRunIsRegistered
  BY DEF IInv
<1> QED
  BY <1>1, Invariance, PTL

\* A stored result belongs to a finished attempt that still has its row, so
\* handleResultAck and ack_pending never evict a running job.
THEOREM ResultsAreOfFinishedRuns == Spec => []ResultMeansFinished
<1>1. IInv => ResultMeansFinished
  BY DEF IInv, ResultMeansFinished, ResultBacked, RegistryBacked
<1> QED
  BY <1>1, Invariance, PTL

-----------------------------------------------------------------------------
(* What a step may never do.                                               *)

RunKept(b) == relay[b].run # NoRun => relay'[b].run \in {relay[b].run, NoRun}

ResultKept(b) ==
  HasRow(results, b) /\ results'[b].run # results[b].run =>
    relay[b].result.run = results[b].run \/ ~relay'[b].open

\* Stream frames and results never tell the relay of another run.
LEMMA DeliveredKeepsRun ==
  ASSUME TypeOK, NEW a \in Attempt, NEW rl, rl.run = relay[a].run, Delivered(a, rl)
  PROVE  \A b \in Attempt : relay'[b].run = relay[b].run
BY DEF Delivered, TypeOK

\* onDone tells the relay no other run, and overwrites no result of one.
LEMMA OnDoneKeeps ==
  ASSUME IInv, NEW r \in Run, Live(r), NEW s \in FinalStatus, NEW n \in 0 .. MaxSeq, NEW e,
         OnDone(r, s, n, e), NEW b \in Attempt
  PROVE  RunKept(b) /\ ResultKept(b)
<1> DEFINE a == job[r].attempt
           st == RelayStores(relay[a], r, {k \in {n} : k > job[r].seq})
           row == ResultOf(r, s, n)
<1>0. TypeOK /\ a \in Attempt /\ relay[a] \in RelayState
  BY DEF IInv, JobHasAttempt, Live, TypeOK
<1>1. CASE job[r].fenced
  BY <1>1 DEF OnDone, RunKept, ResultKept
<1>2. CASE ~job[r].fenced
  <2>1. Delivered(a, RelayResult(st, row)) /\ results' = [results EXCEPT ![a] = row]
    BY <1>2 DEF OnDone, SaveResult
  <2>2. row \in ResultRow
    BY <1>0 DEF ResultOf, ResultRow, TypeOK, JobState, RunRef
  <2>3. RelayResult(st, row).run = relay[a].run
    BY <2>2, <1>0, RelayStoresFacts, RelayResultFacts
  <2>4. RunKept(b)
    BY <2>1, <2>3, <1>0, DeliveredKeepsRun DEF RunKept
  <2>5. ~HasRow(results, a)
    BY <1>0, <1>2, RunAssumption DEF IInv, LiveRunIsRegistered, RegistryBacked, Registered
  <2> HIDE DEF row, a
  <2>6. ResultKept(b)
    BY <2>1, <2>5, <1>0 DEF ResultKept, TypeOK
  <2> QED
    BY <2>4, <2>6
<1> QED
  BY <1>1, <1>2

\* Neither does an inbound frame.
LEMMA InboundKeeps ==
  ASSUME IInv, NEW a \in Attempt, Inbound(a), NEW b \in Attempt
  PROVE  RunKept(b) /\ ResultKept(b)
<1>0. TypeOK /\ relay \in [Attempt -> RelayState]
  BY DEF IInv, TypeOK
<1>1. ASSUME NEW l \in 1 .. MaxLease,
             AssignDuplicate(a, l) \/ AssignRefused(a, l) \/ \E r \in Run : AssignStarts(a, l, r)
      PROVE  RunKept(b) /\ ResultKept(b)
  <2>1. Issued(a, l) \in RelayState /\ Issued(a, l).run = relay[a].run
    BY <1>0, IssuedFacts
  <2>2. RelayForgets(Issued(a, l)).run = NoRun
    BY <2>1, RelayForgetsFacts
  <2>3. results' = results
    BY <1>1 DEF AssignDuplicate, AssignRefused, AssignStarts, store
  <2>4. CASE AssignRefused(a, l)
    BY <2>1, <2>2, <2>3, <2>4, <1>0 DEF AssignRefused, AssignReplied, RunKept, ResultKept
  <2>5. CASE AssignDuplicate(a, l)
    <3>1. Existing(a).run = attempts[a].run /\ HasRow(attempts, a) /\ attempts[a].run \in RunRef
      BY <2>5 DEF AssignDuplicate, Known, Existing, IInv, RegistryBacked, Registered, TypeOK,
                  AttemptRow
    <3>2. relay[a].run # NoRun => relay[a].run = attempts[a].run
      BY <3>1 DEF IInv, RelayRunKnown
    <3>3. RelayAccepts(Issued(a, l), attempts[a].run).run = attempts[a].run
      BY <3>1, <2>1, RelayAcceptsFacts
    <3> QED
      BY <3>1, <3>2, <3>3, <2>1, <2>2, <2>3, <2>5, <1>0
      DEF AssignDuplicate, AssignReplied, RunKept, ResultKept
  <2>6. ASSUME NEW r \in Run, AssignStarts(a, l, r)
        PROVE  RunKept(b)
    <3>1. relay[a].run = NoRun
      BY <2>6 DEF AssignStarts, Known, AssignedLease, IInv, RelayRunKnown
    <3>2. \A x \in Attempt \ {a} : relay'[x] = relay[x]
      BY <2>6, <1>0 DEF AssignStarts, AssignReplied
    <3> QED
      BY <3>1, <3>2 DEF RunKept
  <2> QED
    BY <1>1, <2>3, <2>4, <2>5, <2>6 DEF ResultKept, RunKept
<1>2. ASSUME NEW l \in 1 .. MaxLease, \E n \in 1 .. MaxSeq : HandleStreamAck(a, l, n)
      PROVE  RunKept(b) /\ ResultKept(b)
  BY <1>2 DEF HandleStreamAck, RunKept, ResultKept
<1>3. ASSUME NEW l \in 1 .. MaxLease, HandleResultAck(a, l)
      PROVE  RunKept(b) /\ ResultKept(b)
  <2>1. \A x \in Attempt : relay'[x].run = relay[x].run
    BY <1>0, <1>3 DEF HandleResultAck, RelayState
  <2>2. results' = results \/ results' = [results EXCEPT ![a] = NoResult]
    BY <1>3 DEF HandleResultAck, DeleteResult, store
  <2>3. HasRow(results, a) => relay[a].result.run = results[a].run
    <3>1. relay[a].result.status # "absent" /\ ~relay[a].closed
      BY <1>3 DEF HandleResultAck, AckingResult, Frame
    <3> QED
      BY <3>1 DEF IInv, ResultBacked, RelayRunKnown
  <2> QED
    BY <2>1, <2>2, <2>3, <1>0 DEF RunKept, ResultKept, IInv, TypeOK
<1>4. CASE HandleLeaseGranted(a)
  BY <1>0, <1>4 DEF HandleLeaseGranted, RelayState, RunKept, ResultKept
<1>5. CASE HandleRevoke(a)
  <2>1. relay' = [relay EXCEPT ![a] = RelayForgets(relay[a])] /\ results' = results
    BY <1>0, <1>5 DEF HandleRevoke
  <2> QED
    BY <2>1, <1>0, RelayForgetsFacts DEF RunKept, ResultKept
<1>6. ASSUME NEW l \in 1 .. MaxLease, HandleCancel(a, l)
      PROVE  RunKept(b) /\ ResultKept(b)
  <2>1. CASE results' = results /\ relay' = relay
    BY <2>1 DEF RunKept, ResultKept
  <2>2. CASE CurrentJob(a).engine = "starting"
    <3> DEFINE r == registry[a]
    <3>1. r \in Run /\ Live(r) /\ job[r].seq \in 0 .. MaxSeq
      BY <1>0, <1>6, <2>2
      DEF HandleCancel, Registered, CurrentJob, Live, TypeOK, RunRef, JobState
    <3>2. PICK e : OnDone(r, "cancelled", job[r].seq, e)
      BY <1>6, <2>2 DEF HandleCancel, CurrentJob
    <3> QED
      BY <3>1, <3>2, OnDoneKeeps DEF FinalStatus
  <2> QED
    BY <1>6, <2>1, <2>2 DEF HandleCancel, CurrentJob
<1> QED
  BY <1>1, <1>2, <1>3, <1>4, <1>5, <1>6 DEF Inbound

\* Neither does an engine callback.
LEMMA EngineKeeps ==
  ASSUME IInv, NEW r \in Run, Engine(r), NEW b \in Attempt
  PROVE  RunKept(b) /\ ResultKept(b)
<1>0. TypeOK /\ job[r] \in JobState
  BY DEF IInv, TypeOK
<1>1. CASE EngineSpawns(r) \/ EngineLateClose(r) \/ OverlapExpires(r)
  BY <1>1 DEF EngineSpawns, EngineLateClose, OverlapExpires, store, RunKept, ResultKept
<1>2. CASE EngineStdout(r) \/ EngineStderr(r) \/ EngineLateOutput(r)
  <2> DEFINE a == job[r].attempt
             st == RelayStores(relay[a], r, {job[r].seq + 1})
  <2>1. a \in Attempt /\ Delivered(a, st) /\ results' = results
    BY <1>2 DEF EngineStdout, EngineStderr, EngineLateOutput, OnEvent, IInv, JobHasAttempt
  <2>2. st.run = relay[a].run
    BY <2>1, <1>0, RelayStoresFacts DEF TypeOK
  <2> QED
    BY <2>1, <2>2, <1>0, DeliveredKeepsRun DEF RunKept, ResultKept
<1>3. CASE EngineFails(r)
  <2>1. Live(r) /\ OnDone(r, "failed", job[r].seq + 1, "gone") /\ job[r].seq + 1 \in 0 .. MaxSeq
    BY <1>0, <1>3, BoundAssumption DEF EngineFails, EventFits, Live, JobState
  <2> QED
    BY <2>1, OnDoneKeeps DEF FinalStatus
<1>4. CASE EngineTimesOut(r)
  <2>1. Live(r) /\ OnDone(r, "failed", job[r].seq, "late") /\ job[r].seq \in 0 .. MaxSeq
    BY <1>0, <1>4 DEF EngineTimesOut, Live, JobState
  <2> QED
    BY <2>1, OnDoneKeeps DEF FinalStatus
<1>5. ASSUME NEW s \in FinalStatus, EngineExits(r, s)
      PROVE  RunKept(b) /\ ResultKept(b)
  <2>1. Live(r) /\ OnDone(r, s, job[r].seq, "gone") /\ job[r].seq \in 0 .. MaxSeq
    BY <1>0, <1>5 DEF EngineExits, Live, JobState
  <2> QED
    BY <2>1, OnDoneKeeps
<1> QED
  BY <1>1, <1>2, <1>3, <1>4, <1>5 DEF Engine

\* Neither does the connection, nor a resume directive.
LEMMA SessionKeeps ==
  ASSUME IInv, Session, NEW b \in Attempt
  PROVE  RunKept(b) /\ ResultKept(b)
<1>0. TypeOK /\ relay \in [Attempt -> RelayState]
  BY DEF IInv, TypeOK
<1>1. CASE Dial \/ HandshakeFails \/ LinkBreaks \/ Disconnect
  BY <1>1 DEF Dial, HandshakeFails, LinkBreaks, Disconnect, store, RunKept, ResultKept
<1>2. ASSUME NEW a \in Attempt, RelayGivesUp(a)
      PROVE  RunKept(b) /\ ResultKept(b)
  <2>1. relay' = [relay EXCEPT ![a] = RelayForgets(relay[a])] /\ results' = results
    BY <1>0, <1>2 DEF RelayGivesUp, store
  <2> QED
    BY <2>1, <1>0, RelayForgetsFacts DEF RunKept, ResultKept
<1>3. ASSUME NEW a \in Attempt, ResultAckLost(a)
      PROVE  RunKept(b) /\ ResultKept(b)
  BY <1>0, <1>3 DEF ResultAckLost, store, RelayState, RunKept, ResultKept
<1>4. CASE HelloAccepted
  <2>1. PICK d \in Directive : /\ DirectiveFor(b, d)
                               /\ relay'[b] = ResumedRelay(b, d)
                               /\ results'[b] = ResumedResult(b, d)
    BY <1>4 DEF HelloAccepted
  <2>2. conn = "hello"
    BY <1>4 DEF HelloAccepted
  <2>3. CASE d.act = "abandon"
    BY <2>1, <2>2, <2>3, ResumedRelayFacts DEF RunKept, ResultKept
  <2>4. CASE d.act = "ack_pending"
    <3>1. relay'[b].run = relay[b].run /\ HasRow(results, b) /\ relay[b].result.status # "absent"
      BY <2>1, <2>2, <2>4, ResumedRelayFacts
    <3>2. relay[b].result.run = results[b].run
      BY <3>1 DEF IInv, ResultBacked, RelayRunKnown
    <3> QED
      BY <3>1, <3>2 DEF RunKept, ResultKept
  <2>5. CASE d.act \notin Drops
    <3>1. results'[b].run = results[b].run
      BY <2>1, <2>5, <1>0, ResumedResultFacts
    <3>2. CASE d.act = "none"
      BY <2>1, <2>2, <3>1, <3>2, ResumedRelayFacts DEF RunKept, ResultKept
    <3>3. CASE d.act \in Resumes \cup Resends
      <4>1. relay'[b].run = attempts[b].run /\ HasRow(attempts, b)
        BY <2>1, <2>2, <3>3, ResumedRelayFacts
      <4> QED
        BY <4>1, <3>1 DEF IInv, RelayRunKnown, RunKept, ResultKept
    <3> QED
      BY <2>5, <3>2, <3>3 DEF Directive
  <2> QED
    BY <2>3, <2>4, <2>5 DEF Drops
<1> QED
  BY <1>1, <1>2, <1>3, <1>4 DEF Session

\* Neither does a death of the daemon.
LEMMA DeathKeeps ==
  ASSUME IInv, Crash \/ TornCrash \/ \E r \in Run : EventKeyThrows(r), NEW b \in Attempt
  PROVE  RunKept(b) /\ ResultKept(b)
<1>0. TypeOK /\ relay \in [Attempt -> RelayState] /\ results \in [Attempt -> ResultRow]
  BY DEF IInv, TypeOK
<1>1. CASE Crash \/ \E r \in Run : EventKeyThrows(r) \/ CrashInAppend(r)
  BY <1>1 DEF Crash, EventKeyThrows, CrashInAppend, store, RunKept, ResultKept
<1>2. ASSUME NEW a \in Attempt, NEW l \in 1 .. MaxLease, NEW r \in Run, CrashInAssign(a, l, r)
      PROVE  RunKept(b) /\ ResultKept(b)
  <2>1. relay' = [relay EXCEPT ![a] = Issued(a, l)] /\ Issued(a, l).run = relay[a].run
        /\ results' = results
    BY <1>0, <1>2, IssuedFacts DEF CrashInAssign
  <2> QED
    BY <2>1, <1>0 DEF RunKept, ResultKept
<1>3. ASSUME NEW r \in Run, NEW s \in FinalStatus, CrashInOnDone(r, s)
      PROVE  RunKept(b) /\ ResultKept(b)
  <2> DEFINE a == job[r].attempt
  <2>1. a \in Attempt /\ ~HasRow(results, a)
    BY <1>3, RunAssumption
    DEF CrashInOnDone, IInv, LiveRunIsRegistered, RegistryBacked, JobHasAttempt, Live, Registered
  <2>2. relay' = relay /\ \A x \in Attempt \ {a} : results'[x] = results[x]
    BY <1>0, <1>3 DEF CrashInOnDone, SaveResult
  <2> QED
    BY <2>1, <2>2 DEF RunKept, ResultKept
<1>4. ASSUME NEW a \in Attempt, CrashInRevoke(a)
      PROVE  RunKept(b) /\ ResultKept(b)
  <2>1. relay' = [relay EXCEPT ![a] = RelayForgets(relay[a])] /\ results' = results
    BY <1>0, <1>4 DEF CrashInRevoke
  <2> QED
    BY <2>1, <1>0, RelayForgetsFacts DEF RunKept, ResultKept
<1>5. ASSUME NEW a \in Attempt, NEW l \in 1 .. MaxLease, CrashInResultAck(a, l)
      PROVE  RunKept(b) /\ ResultKept(b)
  <2>1. /\ \A x \in Attempt : relay'[x].run = relay[x].run
        /\ \A x \in Attempt \ {a} : results'[x] = results[x]
    BY <1>0, <1>5 DEF CrashInResultAck, DeleteResult, RelayState
  <2>2. HasRow(results, a) => relay[a].result.run = results[a].run
    BY <1>5 DEF CrashInResultAck, AckingResult, Frame, IInv, ResultBacked, RelayRunKnown
  <2> QED
    BY <2>1, <2>2 DEF RunKept, ResultKept
<1>6. ASSUME NEW a \in Attempt, NEW d \in Directive, CrashInResume(a, d)
      PROVE  RunKept(b) /\ ResultKept(b)
  <2>1. conn = "hello" /\ DirectiveFor(a, d)
    BY <1>6 DEF CrashInResume
  <2>2. CASE d.act \notin Drops
    BY <1>0, <1>6, <2>2 DEF CrashInResume, RelayState, RunKept, ResultKept
  <2>3. CASE d.act \in Drops
    <3>1. /\ relay' = [relay EXCEPT ![a] = ResumedRelay(a, d)]
          /\ results' = [results EXCEPT ![a] = NoResult]
      BY <1>6, <2>3 DEF CrashInResume, Drops, Resends, DeleteResult
    <3>2. CASE d.act = "abandon"
      BY <3>1, <3>2, <2>1, <1>0, ResumedRelayFacts DEF RunKept, ResultKept
    <3>3. CASE d.act = "ack_pending"
      <4>1. ResumedRelay(a, d).run = relay[a].run /\ HasRow(results, a)
            /\ relay[a].result.status # "absent"
        BY <3>3, <2>1, ResumedRelayFacts
      <4>2. relay[a].result.run = results[a].run
        BY <4>1 DEF IInv, ResultBacked, RelayRunKnown
      <4> QED
        BY <3>1, <4>1, <4>2, <1>0 DEF RunKept, ResultKept
    <3> QED
      BY <2>3, <3>2, <3>3 DEF Drops
  <2> QED
    BY <2>2, <2>3
<1> QED
  BY <1>1, <1>2, <1>3, <1>4, <1>5, <1>6 DEF TornCrash

\* So no step does.
LEMMA StepKeeps ==
  ASSUME IInv, [Next]_vars, NEW b \in Attempt
  PROVE  RunKept(b) /\ ResultKept(b)
<1>1. CASE UNCHANGED vars
  BY <1>1 DEF vars, RunKept, ResultKept
<1> QED
  BY <1>1, InboundKeeps, EngineKeeps, SessionKeeps, DeathKeeps DEF Next

\* A repeated job.assign, a reconnect or a restart never tells the relay of a
\* second agent_run_id for an attempt it still tracks.
THEOREM RunIdentity == Spec => RunStable
<1>1. IInv /\ [Next]_vars =>
        [\A a \in Attempt : relay[a].run # NoRun => relay'[a].run \in {relay[a].run, NoRun}]_vars
  BY StepKeeps DEF RunKept
<1> QED
  BY <1>1, Invariance, PTL DEF Spec, RunStable

\* A pending result leaves the store, or is replaced, only once the relay holds
\* it or has given the attempt up, whatever crashes in between.
THEOREM ResultDurability == Spec => NoResultLost
<1>1. IInv /\ [Next]_vars =>
        [\A a \in Attempt :
           HasRow(results, a) /\ results'[a].run # results[a].run =>
             relay[a].result.run = results[a].run \/ ~relay'[a].open]_vars
  BY StepKeeps DEF ResultKept
<1> QED
  BY <1>1, Invariance, PTL DEF Spec, NoResultLost

-----------------------------------------------------------------------------
(***************************************************************************)
(* On top of this invariant: the capacity and the results for every choice *)
(* of faults, and the stream of a daemon that may crash between handlers.  *)
(***************************************************************************)

-----------------------------------------------------------------------------
(* LinkInv, attempt by attempt.                                            *)

LinkAt(a) ==
  /\ Registered(a) => /\ attempts[a].status \in ActiveStatus
                      /\ CurrentJob(a).lease = attempts[a].lease
                      /\ relay[a].result.status = "absent"
  /\ HasRow(attempts, a) => attempts[a].run # NoRun
  /\ attempts[a].lease <= relay[a].lease /\ relay[a].base <= relay[a].lease
  /\ relay[a].run = NoRun => relay[a].got = 0
  /\ relay[a].run # NoRun => /\ relay[a].open
                             /\ HasRow(attempts, a) => relay[a].base <= attempts[a].lease
  /\ conn = "hello" => /\ Registered(a) => a \in hello.active
                       /\ HasRow(results, a) => a \in hello.active \cup hello.pending
  /\ conn = "up" /\ relay[a].open =>
       /\ Registered(a) => relay[a].run = registry[a]
       /\ HasRow(results, a) /\ a \notin hello.missed => relay[a].result = results[a]

SlotsInUse == {a \in Attempt : Registered(a)}

LEMMA LinkSplit ==
  LinkInv <=> Cardinality(SlotsInUse) <= MaxConcurrent /\ \A a \in Attempt : LinkAt(a)
<1>1. ASSUME LinkInv
      PROVE  Cardinality(SlotsInUse) <= MaxConcurrent /\ \A a \in Attempt : LinkAt(a)
  BY <1>1 DEF LinkInv, SlotsHeld, LeasesKnown, HelloCovers, ResultReachesRelayOutsideHandshake, LinkAt, SlotsInUse
<1>2. ASSUME Cardinality(SlotsInUse) <= MaxConcurrent, \A a \in Attempt : LinkAt(a)
      PROVE  LinkInv
  <2>1. SlotsHeld
    BY <1>2 DEF SlotsHeld, LinkAt, SlotsInUse
  <2>2. LeasesKnown
    BY <1>2 DEF LeasesKnown, LinkAt
  <2>3. HelloCovers
    BY <1>2 DEF HelloCovers, LinkAt
  <2>4. ResultReachesRelayOutsideHandshake
    BY <1>2 DEF ResultReachesRelayOutsideHandshake, LinkAt
  <2> QED
    BY <2>1, <2>2, <2>3, <2>4 DEF LinkInv
<1> QED
  BY <1>1, <1>2

\* The types of what LinkAt compares.
LEMMA AttemptTypes ==
  ASSUME TypeOK, NEW a \in Attempt
  PROVE  /\ attempts[a] \in AttemptRow /\ results[a] \in ResultRow /\ relay[a] \in RelayState
         /\ attempts[a].lease \in Nat /\ relay[a].lease \in Nat /\ relay[a].base \in Nat
         /\ registry[a] \in RunRef
<1>1. attempts[a] \in AttemptRow /\ results[a] \in ResultRow /\ relay[a] \in RelayState
      /\ registry[a] \in RunRef
  BY DEF TypeOK
<1>2. LeaseId \subseteq Nat
  BY BoundAssumption DEF LeaseId
<1> QED
  BY <1>1, <1>2 DEF AttemptRow, RelayState

\* What a step leaves of an attempt that it ends at most: no new row, run or result.
Aside(b) ==
  /\ attempts'[b].lease <= attempts[b].lease
  /\ HasRow(attempts', b) => /\ HasRow(attempts, b) /\ attempts'[b].run = attempts[b].run
                             /\ attempts'[b].lease = attempts[b].lease
  /\ \/ registry'[b] = NoRun
     \/ /\ registry'[b] = registry[b] /\ attempts'[b].status \in ActiveStatus
        /\ attempts'[b].lease = attempts[b].lease
        /\ job'[registry[b]].lease = job[registry[b]].lease
  /\ \/ conn' \in {"down", "broken"}
     \/ conn' = conn /\ hello' = hello /\ (results'[b] = results[b] \/ ~HasRow(results', b))

\* The relay's view of the attempt stays, but for the stream of a run it knows.
ViewStays(b) ==
  /\ relay'[b].lease = relay[b].lease /\ relay'[b].base = relay[b].base
  /\ relay'[b].run = relay[b].run /\ relay'[b].open = relay[b].open
  /\ relay'[b].result = relay[b].result
  /\ relay[b].run = NoRun => relay'[b].got = relay[b].got

ViewForgets(b) ==
  /\ relay[b].lease <= relay'[b].lease /\ relay'[b].lease \in Nat
  /\ relay'[b].run = NoRun /\ relay'[b].got = 0 /\ relay'[b].base = 0 /\ ~relay'[b].open
  /\ relay'[b].result.status = "absent"

LEMMA AsideLink ==
  ASSUME IInv, IInv', NEW b \in Attempt, LinkAt(b), Aside(b), ViewStays(b) \/ ViewForgets(b)
  PROVE  LinkAt(b)'
<1>0. /\ attempts[b].lease \in Nat /\ relay[b].lease \in Nat /\ relay[b].base \in Nat
      /\ attempts'[b].lease \in Nat /\ relay'[b].lease \in Nat /\ relay'[b].base \in Nat
  <2>1. attempts'[b] \in AttemptRow /\ relay'[b] \in RelayState
    BY DEF IInv, TypeOK
  <2>2. LeaseId \subseteq Nat
    BY BoundAssumption DEF LeaseId
  <2> QED
    BY <2>1, <2>2, AttemptTypes DEF IInv, AttemptRow, RelayState
<1>1. /\ HasRow(attempts', b) => attempts'[b].run # NoRun
      /\ attempts'[b].lease <= relay'[b].lease /\ relay'[b].base <= relay'[b].lease
      /\ relay'[b].run = NoRun => relay'[b].got = 0
      /\ relay'[b].run # NoRun => /\ relay'[b].open
                                  /\ HasRow(attempts', b) => relay'[b].base <= attempts'[b].lease
  BY <1>0 DEF LinkAt, Aside, ViewStays, ViewForgets
<1>2. registry'[b] # NoRun =>
        /\ attempts'[b].status \in ActiveStatus
        /\ job'[registry'[b]].lease = attempts'[b].lease
        /\ relay'[b].result.status = "absent"
  BY DEF LinkAt, Aside, ViewStays, ViewForgets, Registered, CurrentJob
<1>3. conn' = "hello" => /\ registry'[b] # NoRun => b \in hello'.active
                         /\ HasRow(results', b) => b \in hello'.active \cup hello'.pending
  BY DEF LinkAt, Aside, Registered, HasRow
<1>4. conn' = "up" /\ relay'[b].open =>
        /\ registry'[b] # NoRun => relay'[b].run = registry'[b]
        /\ HasRow(results', b) /\ b \notin hello'.missed => relay'[b].result = results'[b]
  BY DEF LinkAt, Aside, ViewStays, ViewForgets, Registered, HasRow
<1> QED
  BY <1>1, <1>2, <1>3, <1>4 DEF LinkAt, Registered, CurrentJob

\* The run of a JobState is registered for no other attempt.
LEMMA OwnAttempt ==
  ASSUME IInv, NEW a \in Attempt, NEW r \in Run,
         job[r].attempt = a \/ job[r].engine = "none" \/ registry[a] = r
  PROVE  \A b \in Attempt \ {a} : registry[b] # r
BY RunAssumption DEF IInv, RegistryBacked, Registered, CurrentJob, Live

\* UPDATEs of a status or a last_seq keep the leases, the runs and the other rows.
LEMMA UpdatesKeepLeases ==
  ASSUME NEW tbl \in [Attempt -> AttemptRow], NEW a \in Attempt, NEW b \in Attempt
  PROVE  /\ \A s : /\ SetAttemptStatus(tbl, a, s)[b].lease = tbl[b].lease
                   /\ SetAttemptStatus(tbl, a, s)[b].run = tbl[b].run
                   /\ SetAttemptStatus(tbl, a, s)[b].status \in {tbl[b].status, s}
                   /\ s # "absent" => (HasRow(SetAttemptStatus(tbl, a, s), b) <=> HasRow(tbl, b))
                   /\ b # a => SetAttemptStatus(tbl, a, s)[b] = tbl[b]
         /\ \A q : /\ RaiseLastSeq(tbl, a, q)[b].lease = tbl[b].lease
                   /\ RaiseLastSeq(tbl, a, q)[b].run = tbl[b].run
                   /\ RaiseLastSeq(tbl, a, q)[b].status = tbl[b].status
                   /\ b # a => RaiseLastSeq(tbl, a, q)[b] = tbl[b]
<1>1. tbl[b] \in AttemptRow /\ tbl[a] \in AttemptRow
  OBVIOUS
<1> QED
  BY <1>1 DEF SetAttemptStatus, RaiseLastSeq, HasRow, AttemptRow

\* Storing frames and accepting a result touch neither lease nor assignment.
LEMMA StoresKeepLeases ==
  ASSUME NEW rl \in RelayState, NEW r, NEW S, NEW row
  PROVE  /\ \A x \in {RelayStores(rl, r, S), RelayResult(rl, row)} :
              x.lease = rl.lease /\ x.base = rl.base /\ x.open = rl.open /\ x.run = rl.run
         /\ RelayResult(rl, row).got = rl.got /\ RelayResult(rl, row).gap = rl.gap
         /\ rl.run # r => RelayStores(rl, r, S) = rl
BY DEF RelayStores, RelayResult, RelayState

-----------------------------------------------------------------------------
(* Steps that leave an attempt, or end it.                                 *)

LEMMA QuietEngineLink ==
  ASSUME IInv, IInv', NEW r \in Run, OverlapExpires(r) \/ EngineSpawns(r) \/ EngineLateClose(r),
         NEW b \in Attempt, LinkAt(b)
  PROVE  LinkAt(b)'
<1>1. /\ UNCHANGED <<attempts, results, registry, conn, hello, relay>>
      /\ \A x \in Run : Live(x) => job'[x].lease = job[x].lease
  <2>1. job[r] \in JobState /\ job \in [Run -> JobState]
    BY DEF IInv, TypeOK
  <2> QED
    BY <2>1 DEF OverlapExpires, EngineSpawns, EngineLateClose, store, Live, JobState
<1>2. registry[b] # NoRun => /\ registry[b] \in Run /\ Live(registry[b])
                             /\ attempts[b].status \in ActiveStatus
  BY DEF IInv, TypeOK, RunRef, RegistryBacked, Registered, LinkAt
<1>3. Aside(b) /\ ViewStays(b)
  BY <1>1, <1>2, AttemptTypes DEF IInv, Aside, ViewStays, HasRow
<1> QED
  BY <1>3, AsideLink

LEMMA OnEventLink ==
  ASSUME IInv, IInv', NEW r \in Run, job[r].engine \in {"spawned", "late"}, OnEvent(r),
         NEW b \in Attempt, LinkAt(b)
  PROVE  LinkAt(b)'
<1> DEFINE a == job[r].attempt
           s == job[r].seq + 1
           st == RelayStores(relay[a], r, {s})
<1>0. TypeOK /\ a \in Attempt /\ attempts \in [Attempt -> AttemptRow] /\ relay \in [Attempt -> RelayState]
  BY DEF IInv, JobHasAttempt, TypeOK
<1>1. /\ attempts' = RaiseLastSeq(attempts, a, s)
      /\ Delivered(a, st)
      /\ UNCHANGED <<results, registry, conn, hello>>
      /\ \A x \in Run : job'[x].lease = job[x].lease
  BY <1>0 DEF OnEvent, TypeOK, JobState
<1> HIDE DEF s
<1>2. /\ st.lease = relay[a].lease /\ st.base = relay[a].base /\ st.open = relay[a].open
      /\ st.run = relay[a].run /\ st.result = relay[a].result
      /\ relay[a].run = NoRun => st = relay[a]
  BY <1>0, StoresKeepLeases, RelayStoresFacts, RunAssumption
<1>3. relay' = IF conn = "up" THEN [relay EXCEPT ![a] = st] ELSE relay
  BY <1>1 DEF Delivered
<1> HIDE DEF st
<1>4. ViewStays(b)
  BY <1>0, <1>2, <1>3 DEF ViewStays
<1>5. attempts'[b].lease = attempts[b].lease /\ attempts'[b].run = attempts[b].run
      /\ attempts'[b].status = attempts[b].status
  BY <1>0, <1>1, UpdatesKeepLeases
<1>6. Registered(b) => registry[b] \in Run /\ attempts[b].status \in ActiveStatus
  BY <1>0 DEF Registered, TypeOK, RunRef, LinkAt
<1>7. Aside(b)
  BY <1>0, <1>1, <1>5, <1>6, AttemptTypes DEF Aside, Registered, HasRow
<1> QED
  BY <1>4, <1>7, AsideLink

LEMMA HandleStreamAckLink ==
  ASSUME IInv, IInv', NEW a \in Attempt, NEW l, NEW n, HandleStreamAck(a, l, n),
         NEW b \in Attempt, LinkAt(b)
  PROVE  LinkAt(b)'
<1>0. TypeOK /\ job \in [Run -> JobState]
  BY DEF IInv, TypeOK
<1>1. /\ UNCHANGED <<attempts, results, registry, conn, hello, relay>>
      /\ \A x \in Run : job'[x].lease = job[x].lease
  BY <1>0 DEF HandleStreamAck, JobState
<1>2. Registered(b) => registry[b] \in Run /\ attempts[b].status \in ActiveStatus
  BY <1>0 DEF Registered, TypeOK, RunRef, LinkAt
<1>3. Aside(b) /\ ViewStays(b)
  BY <1>0, <1>1, <1>2, AttemptTypes DEF Aside, ViewStays, Registered, HasRow
<1> QED
  BY <1>3, AsideLink

LEMMA HandleResultAckLink ==
  ASSUME IInv, IInv', NEW a \in Attempt, NEW l, HandleResultAck(a, l), NEW b \in Attempt, LinkAt(b)
  PROVE  LinkAt(b)'
<1>0. TypeOK /\ attempts \in [Attempt -> AttemptRow] /\ relay \in [Attempt -> RelayState]
      /\ results \in [Attempt -> ResultRow] /\ registry \in [Attempt -> RunRef]
  BY DEF IInv, TypeOK
<1>1. UNCHANGED <<job, conn, hello>> /\ relay' = [relay EXCEPT ![a].closed = TRUE]
  BY DEF HandleResultAck
<1>2. ViewStays(b)
  BY <1>0, <1>1 DEF ViewStays, RelayState
<1>3. \/ attempts'[b] = attempts[b] /\ results'[b] = results[b] /\ registry'[b] = registry[b]
      \/ attempts'[b] = NoRow /\ results'[b] = NoResult /\ registry'[b] = NoRun
  BY <1>0 DEF HandleResultAck, store, DeleteResult, DeleteAttemptRow
<1>4. Registered(b) => attempts[b].status \in ActiveStatus
  BY DEF Registered, LinkAt
<1>5. Aside(b)
  BY <1>0, <1>1, <1>3, <1>4, AttemptTypes DEF Aside, Registered, HasRow, NoRow, NoResult
<1> QED
  BY <1>2, <1>5, AsideLink

LEMMA HandleRevokeLink ==
  ASSUME IInv, IInv', NEW a \in Attempt, HandleRevoke(a), NEW b \in Attempt, LinkAt(b)
  PROVE  LinkAt(b)'
<1> DEFINE fgt == RelayForgets(relay[a])
<1>0. TypeOK /\ attempts \in [Attempt -> AttemptRow] /\ relay \in [Attempt -> RelayState]
      /\ registry \in [Attempt -> RunRef]
  BY DEF IInv, TypeOK
<1>1. UNCHANGED <<results, conn, hello>> /\ relay' = [relay EXCEPT ![a] = fgt]
  BY DEF HandleRevoke
<1>2. /\ fgt.lease = relay[a].lease /\ fgt.base = 0 /\ ~fgt.open /\ fgt.run = NoRun
      /\ fgt.got = 0 /\ fgt.result.status = "absent" /\ relay[a].lease \in Nat
  BY <1>0, AttemptTypes DEF RelayForgets, RelayIdle, NoResult
<1> HIDE DEF fgt
<1>3. ViewStays(b) \/ ViewForgets(b)
  BY <1>0, <1>1, <1>2 DEF ViewStays, ViewForgets
<1>4. Registered(b) => registry[b] \in Run /\ attempts[b].status \in ActiveStatus
  BY <1>0 DEF Registered, RunRef, LinkAt
<1>5. CASE Registered(a) /\ LeaseOk(a, relay[a].lease)
  <2>1. /\ job' = [job EXCEPT ![registry[a]] = Fence(@)]
        /\ registry' = [registry EXCEPT ![a] = NoRun]
        /\ attempts' = [attempts EXCEPT ![a] = NoRow]
    BY <1>5 DEF HandleRevoke, DeleteAttemptRow
  <2>2. registry[a] \in Run
    BY <1>0, <1>5 DEF Registered, RunRef
  <2>3. b # a => registry[b] # registry[a]
    BY <2>2, OwnAttempt
  <2>4. ASSUME b = a
        PROVE  Aside(b)
    BY <2>1, <2>4, <1>0, <1>1, AttemptTypes DEF Aside, HasRow, NoRow
  <2>5. ASSUME b # a
        PROVE  Aside(b)
    <3>1. Registered(b) => job'[registry[b]] = job[registry[b]]
      BY <2>1, <2>3, <2>5, <1>4, <1>0 DEF TypeOK
    <3>2. attempts'[b] = attempts[b] /\ registry'[b] = registry[b]
      BY <2>1, <2>5, <1>0
    <3> QED
      BY <3>1, <3>2, <1>0, <1>1, <1>4, AttemptTypes DEF Aside, Registered, HasRow
  <2>6. Aside(b)
    BY <2>4, <2>5
  <2> QED
    BY <2>6, <1>3, AsideLink
<1>6. CASE ~(Registered(a) /\ LeaseOk(a, relay[a].lease))
  <2>1. UNCHANGED <<job, registry, attempts>>
    BY <1>6 DEF HandleRevoke, memory
  <2>2. Aside(b)
    BY <2>1, <1>0, <1>1, <1>4, AttemptTypes DEF Aside, Registered, HasRow
  <2> QED
    BY <2>2, <1>3, AsideLink
<1> QED
  BY <1>5, <1>6

LEMMA ConnectionLostLink ==
  ASSUME IInv, IInv', HandshakeFails \/ LinkBreaks \/ Disconnect, NEW b \in Attempt, LinkAt(b)
  PROVE  LinkAt(b)'
<1>1. UNCHANGED <<attempts, results, registry, job, relay>> /\ conn' \in {"down", "broken"}
  BY DEF HandshakeFails, LinkBreaks, Disconnect, store, memory
<1>2. Registered(b) => attempts[b].status \in ActiveStatus
  BY DEF LinkAt
<1>3. Aside(b) /\ ViewStays(b)
  BY <1>1, <1>2, AttemptTypes DEF IInv, Aside, ViewStays, Registered, HasRow
<1> QED
  BY <1>3, AsideLink

LEMMA RelayAloneLink ==
  ASSUME IInv, IInv', NEW a \in Attempt, RelayGivesUp(a) \/ ResultAckLost(a),
         NEW b \in Attempt, LinkAt(b)
  PROVE  LinkAt(b)'
<1> DEFINE fgt == RelayForgets(relay[a])
<1>0. TypeOK /\ relay \in [Attempt -> RelayState]
  BY DEF IInv, TypeOK
<1>1. UNCHANGED <<attempts, results, registry, job, conn, hello>>
  BY DEF RelayGivesUp, ResultAckLost, store, memory
<1>2. /\ fgt.lease = relay[a].lease /\ fgt.base = 0 /\ ~fgt.open /\ fgt.run = NoRun
      /\ fgt.got = 0 /\ fgt.result.status = "absent" /\ relay[a].lease \in Nat
  BY <1>0, AttemptTypes DEF RelayForgets, RelayIdle, NoResult
<1>3. relay' = [relay EXCEPT ![a] = fgt] \/ relay' = [relay EXCEPT ![a].closed = TRUE]
  BY DEF RelayGivesUp, ResultAckLost
<1> HIDE DEF fgt
<1>4. ViewStays(b) \/ ViewForgets(b)
  BY <1>0, <1>2, <1>3 DEF ViewStays, ViewForgets, RelayState
<1>5. Registered(b) => attempts[b].status \in ActiveStatus
  BY DEF LinkAt
<1>6. Aside(b)
  BY <1>0, <1>1, <1>5, AttemptTypes DEF Aside, Registered, HasRow
<1> QED
  BY <1>4, <1>6, AsideLink

-----------------------------------------------------------------------------
(* The end of a run.                                                       *)

\* What a terminal callback of r does to the rows: it moves statuses, of its attempt.
RowsKept(r) ==
  \A b \in Attempt :
    /\ attempts'[b].lease = attempts[b].lease /\ attempts'[b].run = attempts[b].run
    /\ HasRow(attempts', b) <=> HasRow(attempts, b)
    /\ b # job[r].attempt \/ job[r].fenced => attempts'[b] = attempts[b]

\* onDone: the result follows the registry entry, at the relay too.
LEMMA OnDoneLink ==
  ASSUME IInv, IInv', NEW r \in Run, Live(r),
         NEW s \in FinalStatus, NEW n \in 0 .. MaxSeq, NEW e \in {"late", "gone"},
         OnDone(r, s, n, e),
         RowsKept(r), UNCHANGED <<conn, hello>>, NEW b \in Attempt, LinkAt(b)
  PROVE  LinkAt(b)'
<1> DEFINE a == job[r].attempt
           row == ResultOf(r, s, n)
<1>0. /\ a \in Attempt /\ TypeOK /\ relay \in [Attempt -> RelayState] /\ job \in [Run -> JobState]
      /\ registry \in [Attempt -> RunRef] /\ results \in [Attempt -> ResultRow]
  BY DEF IInv, JobHasAttempt, Live, TypeOK
<1>1. Registered(b) => registry[b] \in Run /\ attempts[b].status \in ActiveStatus
  BY <1>0 DEF Registered, RunRef, LinkAt
<1>2. \A x \in Run \ {r} : job'[x] = job[x]
  BY <1>0 DEF OnDone
<1>3. ASSUME registry[b] # r, registry'[b] = registry[b], results'[b] = results[b],
             attempts'[b] = attempts[b], relay'[b] = relay[b]
      PROVE  LinkAt(b)'
  <2>1. Aside(b) /\ ViewStays(b)
    BY <1>0, <1>1, <1>2, <1>3, AttemptTypes DEF Aside, ViewStays, Registered, HasRow
  <2> QED
    BY <2>1, AsideLink
<1>4. CASE job[r].fenced
  <2>1. registry[a] # r
    BY <1>0, <1>4, RunAssumption DEF IInv, RegistryBacked, Registered, CurrentJob
  <2>2. registry' = registry /\ results' = results /\ relay' = relay
    BY <1>4, <2>1 DEF OnDone
  <2>3. registry[b] # r
    BY <1>4, RunAssumption DEF IInv, RegistryBacked, Registered, CurrentJob
  <2> QED
    BY <2>2, <2>3, <1>3, <1>4 DEF RowsKept
<1>5. CASE ~job[r].fenced
  <2>1. registry[a] = r /\ Registered(a)
    BY <1>5, <1>0, RunAssumption DEF IInv, LiveRunIsRegistered, Registered
  <2>2. /\ results' = [results EXCEPT ![a] = row]
        /\ registry' = [registry EXCEPT ![a] = NoRun]
        /\ Delivered(a, RelayResult(RelayStores(relay[a], r, {k \in {n} : k > job[r].seq}), row))
    BY <1>5, <2>1 DEF OnDone, SaveResult
  <2>3. row.run = r /\ row \in ResultRow
    BY <1>0 DEF ResultOf, ResultRow, JobState, RunRef
  <2> HIDE DEF row
  <2> DEFINE S == {k \in {n} : k > job[r].seq}
             st == RelayStores(relay[a], r, S)
             rr == RelayResult(st, row)
  <2>3a. relay[a] \in RelayState
    BY <1>0
  <2> HIDE DEF S
  <2>4. /\ st \in RelayState /\ st.run = relay[a].run /\ st.lease = relay[a].lease
        /\ st.base = relay[a].base /\ st.open = relay[a].open
        /\ relay[a].run # r => st.got = relay[a].got
    BY <2>3a, RelayStoresFacts, StoresKeepLeases
  <2> HIDE DEF st
  <2>5. /\ rr.run = relay[a].run /\ rr.lease = relay[a].lease
        /\ rr.base = relay[a].base /\ rr.open = relay[a].open
        /\ relay[a].run # r => rr.got = relay[a].got
        /\ relay[a].run = r => rr.result = row
    BY <2>3, <2>4 DEF RelayResult, RelayState
  <2>6. relay' = IF conn = "up" THEN [relay EXCEPT ![a] = rr] ELSE relay
    BY <2>2 DEF Delivered, S, st
  <2> HIDE DEF rr
  <2>7. CASE b # a
    <3>1. registry[b] # r
      BY <1>0, <2>7, OwnAttempt
    <3> QED
      BY <3>1, <2>2, <2>6, <2>7, <1>0, <1>3 DEF RowsKept
  <2>8. CASE b = a
    <3>1. /\ registry'[b] = NoRun /\ results'[b] = row /\ attempts'[b].lease = attempts[b].lease
          /\ attempts'[b].run = attempts[b].run
          /\ relay'[b].run = relay[b].run /\ relay'[b].lease = relay[b].lease
          /\ relay'[b].base = relay[b].base /\ relay'[b].open = relay[b].open
          /\ relay[b].run = NoRun => relay'[b].got = relay[b].got
      BY <2>2, <2>5, <2>6, <2>8, <1>0, RunAssumption DEF RowsKept
    <3>2. conn = "hello" => b \in hello.active
      BY <2>1, <2>8 DEF LinkAt
    <3>3. conn = "up" /\ relay[b].open => relay'[b].result = row
      BY <2>1, <2>5, <2>6, <2>8, <1>0 DEF LinkAt
    <3>4. HasRow(attempts, b)
      BY <2>1, <2>8 DEF IInv, RegistryBacked
    <3> QED
      BY <3>1, <3>2, <3>3, <3>4 DEF LinkAt, Registered, HasRow
  <2> QED
    BY <2>7, <2>8
<1> QED
  BY <1>4, <1>5

LEMMA DoneRows ==
  ASSUME IInv, NEW r \in Run, Live(r), NEW s \in FinalStatus, DoneStatus(r, s)
  PROVE  RowsKept(r)
<1>1. attempts \in [Attempt -> AttemptRow] /\ job[r].attempt \in Attempt /\ s # "absent"
  BY DEF IInv, TypeOK, JobHasAttempt, Live, FinalStatus
<1> QED
  BY <1>1, UpdatesKeepLeases DEF DoneStatus, RowsKept

LEMMA FailRows ==
  ASSUME IInv, NEW r \in Run, EngineFails(r)
  PROVE  RowsKept(r)
<1> DEFINE a == job[r].attempt
           s == job[r].seq + 1
           tbl == RaiseLastSeq(attempts, a, s)
<1>0. attempts \in [Attempt -> AttemptRow] /\ a \in Attempt
  BY DEF IInv, TypeOK, JobHasAttempt, EngineFails, Live
<1>1. s \in 0 .. MaxSeq
  BY BoundAssumption DEF IInv, TypeOK, JobState, EngineFails, EventFits
<1>2. attempts' = SetAttemptStatus(tbl, a, "failed") /\ ~job[r].fenced
  BY DEF EngineFails, EventFits
<1> HIDE DEF s
<1>3. tbl \in [Attempt -> AttemptRow]
  BY <1>0, <1>1, AttemptStatements
<1>4. \A x \in Attempt : /\ tbl[x].lease = attempts[x].lease /\ tbl[x].run = attempts[x].run
                         /\ HasRow(tbl, x) <=> HasRow(attempts, x)
                         /\ x # a => tbl[x] = attempts[x]
  BY <1>0, UpdatesKeepLeases DEF HasRow
<1> HIDE DEF tbl
<1>5. \A x \in Attempt : /\ attempts'[x].lease = tbl[x].lease /\ attempts'[x].run = tbl[x].run
                         /\ HasRow(attempts', x) <=> HasRow(tbl, x)
                         /\ x # a => attempts'[x] = tbl[x]
  BY <1>0, <1>2, <1>3, UpdatesKeepLeases
<1> QED
  BY <1>2, <1>4, <1>5 DEF RowsKept

LEMMA EngineEndsLink ==
  ASSUME IInv, IInv', NEW r \in Run,
         EngineFails(r) \/ EngineTimesOut(r) \/ \E s \in FinalStatus : EngineExits(r, s),
         NEW b \in Attempt, LinkAt(b)
  PROVE  LinkAt(b)'
<1>0. /\ Live(r) /\ job[r].seq \in 0 .. MaxSeq /\ "failed" \in FinalStatus
      /\ UNCHANGED <<conn, hello>>
  BY DEF IInv, EngineFails, EngineTimesOut, EngineExits, Live, TypeOK, JobState, FinalStatus
<1>1. CASE EngineFails(r)
  <2>1. job[r].seq + 1 \in 0 .. MaxSeq /\ OnDone(r, "failed", job[r].seq + 1, "gone")
    BY <1>0, <1>1, BoundAssumption DEF EngineFails, EventFits
  <2> QED
    BY <1>0, <1>1, <2>1, FailRows, OnDoneLink
<1>2. CASE EngineTimesOut(r)
  BY <1>0, <1>2, DoneRows, OnDoneLink DEF EngineTimesOut
<1>3. ASSUME NEW s \in FinalStatus, EngineExits(r, s)
      PROVE  LinkAt(b)'
  BY <1>0, <1>3, DoneRows, OnDoneLink DEF EngineExits
<1> QED
  BY <1>1, <1>2, <1>3

LEMMA HandleCancelLink ==
  ASSUME IInv, IInv', NEW a \in Attempt, NEW l, HandleCancel(a, l), NEW b \in Attempt, LinkAt(b)
  PROVE  LinkAt(b)'
<1> DEFINE r == registry[a]
<1>0. /\ r \in Run /\ Live(r) /\ job[r].attempt = a /\ ~job[r].fenced
      /\ UNCHANGED <<conn, hello>> /\ job \in [Run -> JobState]
      /\ attempts \in [Attempt -> AttemptRow] /\ registry \in [Attempt -> RunRef]
  BY DEF HandleCancel, IInv, RegistryBacked, Registered, CurrentJob, TypeOK, RunRef
<1>1. CASE job[r].engine = "starting"
  <2>1. PICK e \in {"late", "gone"} : OnDone(r, "cancelled", job[r].seq, e)
    BY <1>1 DEF HandleCancel
  <2>2. RowsKept(r)
    BY <1>0, <1>1, <2>1, DoneRows DEF HandleCancel, FinalStatus
  <2>3. job[r].seq \in 0 .. MaxSeq
    BY <1>0 DEF JobState
  <2> QED
    BY <1>0, <2>1, <2>2, <2>3, OnDoneLink DEF FinalStatus
<1>2. CASE job[r].engine # "starting"
  <2>1. /\ job' = [job EXCEPT ![r].status = "cancelling"]
        /\ attempts' = SetAttemptStatus(attempts, a, "cancelling")
        /\ UNCHANGED <<results, registry, relay>>
    BY <1>0, <1>2 DEF HandleCancel
  <2>2. /\ attempts'[b].lease = attempts[b].lease /\ attempts'[b].run = attempts[b].run
        /\ attempts'[b].status \in {attempts[b].status, "cancelling"}
        /\ b # a => attempts'[b] = attempts[b]
    BY <1>0, <2>1, UpdatesKeepLeases
  <2>3. \A x \in Run : job'[x].lease = job[x].lease
    BY <1>0, <2>1 DEF JobState
  <2>4. Registered(b) => registry[b] \in Run /\ attempts[b].status \in ActiveStatus
    BY <1>0 DEF Registered, RunRef, LinkAt
  <2>5. HasRow(attempts, a)
    BY <1>0 DEF HandleCancel, IInv, RegistryBacked
  <2>6. Aside(b) /\ ViewStays(b)
    BY <1>0, <2>1, <2>2, <2>3, <2>4, <2>5, AttemptTypes
    DEF IInv, Aside, ViewStays, Registered, HasRow, ActiveStatus
  <2> QED
    BY <2>6, AsideLink
<1> QED
  BY <1>1, <1>2

-----------------------------------------------------------------------------
(* Assignments and leases.                                                 *)

\* What an assign under lease l makes of the relay's view, and the answers to it.
LEMMA AssignFacts ==
  ASSUME IInv, NEW a \in Attempt, LinkAt(a), NEW l \in 1 .. MaxLease, AssignedLease(a, l)
  PROVE  LET i == Issued(a, l)
         IN /\ i \in RelayState /\ i.lease = l /\ i.open /\ i.run = relay[a].run
            /\ i.got = relay[a].got /\ i.result = relay[a].result
            /\ i.base \in Nat /\ i.base <= l /\ relay[a].lease <= l /\ attempts[a].lease <= l
            /\ relay[a].open => i.base = relay[a].base
            /\ l = attempts[a].lease => relay[a].open
<1>1. /\ relay[a] \in RelayState /\ relay[a].lease \in Nat /\ relay[a].base \in Nat
      /\ attempts[a].lease \in Nat /\ l \in Nat
  BY AttemptTypes DEF IInv
<1>2. /\ Issued(a, l).lease = l /\ Issued(a, l).open /\ Issued(a, l).run = relay[a].run
      /\ Issued(a, l).got = relay[a].got /\ Issued(a, l).result = relay[a].result
      /\ Issued(a, l).base = IF relay[a].open THEN relay[a].base ELSE l
  BY <1>1 DEF Issued, RelayState
<1> QED
  BY <1>1, <1>2, IssuedFacts DEF IInv, AssignedLease, LinkAt

LEMMA AssignDuplicateLink ==
  ASSUME IInv, IInv', NEW a \in Attempt, NEW l \in 1 .. MaxLease, AssignDuplicate(a, l),
         NEW b \in Attempt, LinkAt(a), LinkAt(b)
  PROVE  LinkAt(b)'
<1> DEFINE i == Issued(a, l)
           acc == RelayAccepts(i, attempts[a].run)
           fgt == RelayForgets(i)
<1>0. /\ TypeOK /\ relay \in [Attempt -> RelayState] /\ registry \in [Attempt -> RunRef]
      /\ UNCHANGED <<attempts, events, results, registry, job, conn, hello>> /\ Linked
  BY DEF IInv, TypeOK, AssignDuplicate, store, memory
<1>1. /\ Existing(a).run = attempts[a].run /\ Existing(a).lease = attempts[a].lease
      /\ attempts[a].run \in RunRef /\ HasRow(attempts, a) /\ attempts[a].run # NoRun
      /\ Registered(a) => registry[a] = attempts[a].run
  BY DEF AssignDuplicate, Known, Existing, IInv, RegistryBacked, Registered, TypeOK, AttemptRow, LinkAt
<1>2. /\ i \in RelayState /\ i.lease = l /\ i.open /\ i.run = relay[a].run
      /\ i.got = relay[a].got /\ i.result = relay[a].result
      /\ i.base \in Nat /\ i.base <= l /\ relay[a].lease <= l /\ attempts[a].lease <= l
      /\ relay[a].open => i.base = relay[a].base
      /\ l = attempts[a].lease => relay[a].open
  BY AssignFacts DEF AssignDuplicate
<1>3. relay' = [relay EXCEPT ![a] = IF conn # "up" THEN i ELSE IF attempts[a].lease = l THEN acc ELSE fgt]
  BY <1>1 DEF AssignDuplicate, AssignReplied
<1> HIDE DEF i
<1>4. CASE b # a
  <2>1. Aside(b) /\ ViewStays(b)
    BY <1>0, <1>3, <1>4, AttemptTypes DEF Aside, ViewStays, LinkAt, Registered, HasRow
  <2> QED
    BY <2>1, AsideLink
<1>5. CASE b = a /\ conn # "up"
  <2>1. relay'[b] = i /\ conn' = "broken"
    BY <1>0, <1>3, <1>5 DEF Linked
  <2>2. /\ attempts[b].lease <= i.lease /\ i.base <= i.lease /\ (i.run = NoRun => i.got = 0)
        /\ i.run # NoRun => i.open /\ i.base <= attempts[b].lease
    BY <1>1, <1>2, <1>5 DEF LinkAt
  <2> QED
    BY <2>1, <2>2, <1>0, <1>1, <1>2, <1>5 DEF LinkAt, Registered, CurrentJob, HasRow
<1>6. CASE b = a /\ conn = "up" /\ attempts[a].lease # l
  <2>1. relay'[b] = fgt
    BY <1>0, <1>3, <1>6
  <2>2. /\ fgt.lease = l /\ fgt.base = 0 /\ ~fgt.open /\ fgt.run = NoRun /\ fgt.got = 0
        /\ fgt.result.status = "absent"
    BY <1>2 DEF RelayForgets, RelayIdle, NoResult
  <2> HIDE DEF fgt
  <2>3. ViewForgets(b) /\ Aside(b)
    BY <2>1, <2>2, <1>0, <1>2, <1>6, AttemptTypes DEF ViewForgets, Aside, LinkAt, Registered, HasRow
  <2> QED
    BY <2>3, AsideLink
<1>7. CASE b = a /\ conn = "up" /\ attempts[a].lease = l
  <2>1. relay'[b] = acc /\ relay[b].open
    BY <1>0, <1>2, <1>3, <1>7
  <2>2. /\ acc.lease = l /\ acc.base = relay[a].base /\ acc.open /\ acc.run = attempts[a].run
        /\ relay[a].run = attempts[a].run => acc.got = relay[a].got /\ acc.result = relay[a].result
        /\ relay[a].run # attempts[a].run => acc.got = 0 /\ acc.result = NoResult
    BY <1>2, <2>1, <1>7 DEF RelayAccepts, RelayState
  <2> HIDE DEF acc
  <2>3. HasRow(results, a) /\ a \notin hello.missed => acc.result = results[a]
    BY <2>1, <2>2, <1>7 DEF LinkAt, IInv, RelayRunKnown, ResultBacked, HasRow
  <2>4. Registered(a) => acc.result.status = "absent"
    BY <2>2 DEF LinkAt, NoResult
  <2>5. acc.base <= attempts[a].lease
    BY <2>1, <2>2, <1>2, <1>7
  <2> QED
    BY <2>1, <2>2, <2>3, <2>4, <2>5, <1>0, <1>1, <1>2, <1>7
    DEF LinkAt, Registered, CurrentJob, HasRow
<1> QED
  BY <1>4, <1>5, <1>6, <1>7

LEMMA AssignRefusedLink ==
  ASSUME IInv, IInv', NEW a \in Attempt, NEW l \in 1 .. MaxLease, AssignRefused(a, l),
         NEW b \in Attempt, LinkAt(a), LinkAt(b)
  PROVE  LinkAt(b)'
<1> DEFINE i == Issued(a, l)
           fgt == RelayForgets(i)
<1>0. /\ TypeOK /\ relay \in [Attempt -> RelayState]
      /\ UNCHANGED <<attempts, events, results, registry, job, conn, hello>> /\ Linked
  BY DEF IInv, TypeOK, AssignRefused, store, memory
<1>1. ~HasRow(attempts, a) /\ ~HasRow(results, a) /\ ~Registered(a)
  BY DEF AssignRefused, Known, IInv, ResultBacked
<1>2. /\ i \in RelayState /\ i.lease = l /\ i.open /\ i.run = relay[a].run
      /\ i.got = relay[a].got /\ i.base \in Nat /\ i.base <= l
      /\ relay[a].lease <= l /\ attempts[a].lease <= l
  BY AssignFacts DEF AssignRefused
<1>3. relay' = [relay EXCEPT ![a] = IF conn # "up" THEN i ELSE fgt]
  BY DEF AssignRefused, AssignReplied
<1>4. /\ fgt.lease = l /\ fgt.base = 0 /\ ~fgt.open /\ fgt.run = NoRun /\ fgt.got = 0
  BY <1>2 DEF RelayForgets, RelayIdle
<1> HIDE DEF i, fgt
<1>5. CASE b # a
  <2>1. Aside(b) /\ ViewStays(b)
    BY <1>0, <1>3, <1>5, AttemptTypes DEF Aside, ViewStays, LinkAt, Registered, HasRow
  <2> QED
    BY <2>1, AsideLink
<1>6. CASE b = a /\ conn # "up"
  <2>1. relay'[b] = i /\ conn' = "broken"
    BY <1>0, <1>3, <1>6 DEF Linked
  <2> QED
    BY <2>1, <1>0, <1>1, <1>2, <1>6 DEF LinkAt, Registered, HasRow
<1>7. CASE b = a /\ conn = "up"
  <2>1. relay'[b] = fgt /\ conn' = "up"
    BY <1>0, <1>3, <1>7
  <2> QED
    BY <2>1, <1>0, <1>1, <1>2, <1>4, <1>7, BoundAssumption DEF LinkAt, Registered, HasRow
<1> QED
  BY <1>5, <1>6, <1>7

LEMMA AssignStartsLink ==
  ASSUME IInv, IInv', NEW a \in Attempt, NEW l \in 1 .. MaxLease, NEW r \in Run,
         AssignStarts(a, l, r), NEW b \in Attempt, LinkAt(a), LinkAt(b)
  PROVE  LinkAt(b)'
<1> DEFINE i == Issued(a, l)
           acc == RelayAccepts(i, r)
           row == [lease |-> l, run |-> r, lastSeq |-> 0, status |-> "accepted"]
<1>0. /\ TypeOK /\ relay \in [Attempt -> RelayState] /\ attempts \in [Attempt -> AttemptRow]
      /\ registry \in [Attempt -> RunRef] /\ job \in [Run -> JobState]
      /\ UNCHANGED <<events, results, conn, hello>> /\ Linked /\ l \in LeaseId
  BY BoundAssumption DEF IInv, TypeOK, AssignStarts, LeaseId
<1>1. ~HasRow(attempts, a) /\ ~HasRow(results, a) /\ ~Registered(a)
  BY DEF AssignStarts, Known, IInv, ResultBacked
<1>2. /\ i \in RelayState /\ i.lease = l /\ i.open /\ i.run = relay[a].run
      /\ i.got = relay[a].got /\ i.result = relay[a].result /\ i.base \in Nat /\ i.base <= l
  BY AssignFacts DEF AssignStarts
<1>3. relay[a].run = NoRun /\ relay[a].result.status = "absent" /\ relay[a].got = 0
  BY <1>1 DEF AssignStarts, AssignedLease, IInv, RelayRunKnown, LinkAt
<1>4. relay' = [relay EXCEPT ![a] = IF conn # "up" THEN i ELSE acc]
  BY DEF AssignStarts, AssignReplied
<1>5. /\ acc.lease = l /\ acc.open /\ acc.run = r /\ acc.base = i.base
      /\ acc.result.status = "absent"
  BY <1>2, <1>3 DEF RelayAccepts, RelayState, NoResult
<1>6. /\ attempts'[a].lease = l /\ attempts'[a].run = r /\ attempts'[a].status \in ActiveStatus
      /\ b # a => attempts'[b] = attempts[b]
  <2>1. CreateAttempt(attempts, a, l, r) = [attempts EXCEPT ![a] = row] /\ row \in AttemptRow
    BY <1>0, <1>1, BoundAssumption DEF CreateAttempt, AttemptRow, RunRef, ActiveStatus
  <2> DEFINE tbl == [attempts EXCEPT ![a] = row]
  <2>2. tbl \in [Attempt -> AttemptRow] /\ tbl[a].lease = l /\ tbl[a].run = r /\ tbl[a].status \in ActiveStatus
        /\ (b # a => tbl[b] = attempts[b])
    BY <1>0, <2>1 DEF ActiveStatus
  <2>3. attempts' = SetAttemptStatus(tbl, a, "running")
    BY <2>1 DEF AssignStarts
  <2> HIDE DEF tbl
  <2> QED
    BY <2>2, <2>3, UpdatesKeepLeases DEF ActiveStatus
<1> HIDE DEF i, acc
<1>7. registry' = [registry EXCEPT ![a] = r] /\ job'[r].lease = l
      /\ \A x \in Run \ {r} : job'[x] = job[x]
  BY <1>0 DEF AssignStarts, NoJob
<1>8. CASE b # a
  <2>1. registry[b] # r
    BY <1>8, OwnAttempt DEF AssignStarts
  <2>2. registry'[b] = registry[b] /\ (Registered(b) => registry[b] \in Run \ {r})
    BY <2>1, <1>0, <1>7, <1>8 DEF Registered, RunRef
  <2>3. Aside(b) /\ ViewStays(b)
    BY <2>2, <1>0, <1>4, <1>6, <1>7, <1>8, AttemptTypes
    DEF Aside, ViewStays, LinkAt, Registered, HasRow
  <2> QED
    BY <2>3, AsideLink
<1>9. CASE b = a
  <2>1. /\ relay'[b] = IF conn # "up" THEN i ELSE acc
        /\ registry'[b] = r /\ conn' \in {"up", "broken"} /\ attempts'[b].lease = l
        /\ results'[b].status = "absent" /\ l \in Nat
    BY <1>0, <1>1, <1>4, <1>6, <1>7, <1>9, BoundAssumption DEF Linked, HasRow
  <2>2. CASE conn = "up"
    BY <2>1, <2>2, <1>0, <1>2, <1>5, <1>6, <1>7, <1>9, RunAssumption
    DEF LinkAt, Registered, CurrentJob, HasRow
  <2>3. CASE conn # "up"
    BY <2>1, <2>3, <1>0, <1>2, <1>3, <1>6, <1>7, <1>9, RunAssumption
    DEF LinkAt, Registered, CurrentJob, HasRow
  <2> QED
    BY <2>2, <2>3
<1> QED
  BY <1>8, <1>9

LEMMA HandleLeaseGrantedLink ==
  ASSUME IInv, IInv', NEW a \in Attempt, HandleLeaseGranted(a),
         NEW b \in Attempt, LinkAt(a), LinkAt(b)
  PROVE  LinkAt(b)'
<1> DEFINE l == relay[a].lease + 1
<1>0. /\ TypeOK /\ relay \in [Attempt -> RelayState] /\ attempts \in [Attempt -> AttemptRow]
      /\ registry \in [Attempt -> RunRef] /\ job \in [Run -> JobState]
      /\ UNCHANGED <<events, results, registry, conn, hello>>
      /\ relay' = [relay EXCEPT ![a].lease = l] /\ relay[a].run # NoRun
  BY DEF IInv, TypeOK, HandleLeaseGranted
<1>1. /\ relay[a].lease \in Nat /\ relay[a].base \in Nat /\ attempts[a].lease \in Nat /\ l \in Nat
      /\ attempts[a].lease <= l /\ relay[a].base <= l
  BY <1>0, AttemptTypes DEF LinkAt
<1> HIDE DEF l
<1>2. /\ relay'[a].lease = l /\ relay'[a].base = relay[a].base /\ relay'[a].run = relay[a].run
      /\ relay'[a].open = relay[a].open /\ relay'[a].result = relay[a].result
      /\ b # a => relay'[b] = relay[b]
  BY <1>0 DEF RelayState
<1>3. CASE Registered(a)
  <2> DEFINE q == registry[a]
  <2>1. q \in Run /\ attempts' = [attempts EXCEPT ![a].lease = l]
    BY <1>0, <1>3 DEF HandleLeaseGranted, SetAttemptLease, Registered, RunRef, IInv, RegistryBacked, l
  <2>2. job' = [job EXCEPT ![q] = [job[q] EXCEPT !.prev = job[q].lease, !.lease = l]]
    BY <1>0, <1>3, <2>1 DEF HandleLeaseGranted, CurrentJob, l
  <2>3. job'[q].lease = l /\ \A x \in Run \ {q} : job'[x] = job[x]
    BY <1>0, <2>1, <2>2 DEF JobState
  <2>4. /\ attempts'[a].lease = l /\ attempts'[a].status = attempts[a].status
        /\ attempts'[a].run = attempts[a].run
        /\ b # a => attempts'[b] = attempts[b]
    BY <1>0, <2>1 DEF AttemptRow
  <2>5. CASE b # a
    <3>1. registry[b] # q
      BY <2>1, <2>5, OwnAttempt
    <3>2. Registered(b) => registry[b] \in Run \ {q}
      BY <3>1, <1>0 DEF Registered, RunRef
    <3>3. Aside(b) /\ ViewStays(b)
      BY <3>2, <2>3, <2>4, <2>5, <1>0, <1>2, AttemptTypes
      DEF Aside, ViewStays, LinkAt, Registered, HasRow
    <3> QED
      BY <3>3, AsideLink
  <2>6. CASE b = a
    BY <2>3, <2>4, <2>6, <1>0, <1>1, <1>2 DEF LinkAt, Registered, CurrentJob, HasRow
  <2> QED
    BY <2>5, <2>6
<1>4. CASE ~Registered(a)
  <2>1. UNCHANGED <<job, attempts>>
    BY <1>4 DEF HandleLeaseGranted
  <2>2. CASE b # a
    <3>1. Aside(b) /\ ViewStays(b)
      BY <2>1, <2>2, <1>0, <1>2, AttemptTypes DEF Aside, ViewStays, LinkAt, Registered, HasRow
    <3> QED
      BY <3>1, AsideLink
  <2>3. CASE b = a
    BY <2>1, <2>3, <1>0, <1>1, <1>2, <1>4 DEF LinkAt, Registered, CurrentJob, HasRow
  <2> QED
    BY <2>2, <2>3
<1> QED
  BY <1>3, <1>4

LEMMA DialLink ==
  ASSUME IInv, IInv', Dial, NEW b \in Attempt, LinkAt(b)
  PROVE  LinkAt(b)'
<1>1. /\ UNCHANGED <<attempts, results, registry, job, relay>> /\ conn' = "hello"
      /\ hello'.active = {a \in Attempt : attempts[a].status \in ActiveStatus}
      /\ hello'.pending = {a \in Attempt : HasRow(results, a)}
  BY DEF Dial, store, memory, ActiveJobsForResume, PendingResults
<1> QED
  BY <1>1 DEF LinkAt, Registered, CurrentJob, HasRow

-----------------------------------------------------------------------------
(* The resume handshake.                                                   *)

\* A directive to resume or resend leaves the attempt under one lease on both
\* sides; a run comes out without a result at the relay, a result with itself.
LEMMA ResumeAgrees ==
  ASSUME IInv, conn = "hello", NEW b \in Attempt, LinkAt(b), NEW d \in Directive, DirectiveFor(b, d),
         d.act \in Resumes \cup Resends
  PROVE  LET rl == ResumedRelay(b, d)
         IN /\ HasRow(attempts, b) /\ relay[b].open /\ ~relay[b].closed
            /\ relay[b].lease <= d.lease /\ d.lease \in Nat
            /\ rl.lease = d.lease /\ rl.base = relay[b].base /\ rl.open /\ rl.run = attempts[b].run
            /\ rl.base <= d.lease
            /\ attempts[b].run # NoRun /\ ResumedRow(b, d).run = attempts[b].run
            /\ ResumedRow(b, d).lease = d.lease /\ ResumedRow(b, d).status = attempts[b].status
            /\ Registered(b) => rl.result.status = "absent"
            /\ HasRow(results, b) /\ b \in hello.pending => rl.result = ResumedResult(b, d)
            /\ HasRow(results, b) <=> ResumedResult(b, d).status # "absent"
<1> DEFINE known == RelayAccepts(relay[b], attempts[b].run)
           leased == IF d.lease # 0 THEN [known EXCEPT !.lease = d.lease] ELSE known
           streamed == IF d.act \in Resumes
                       THEN RelayStores(leased, leased.run,
                                        {e.seq : e \in EventsAfter(events, b, leased.got)})
                       ELSE leased
<1>0. /\ TypeOK /\ relay[b] \in RelayState /\ attempts[b] \in AttemptRow /\ attempts[b].run \in RunRef
      /\ d.lease \in Nat /\ d.lease \in LeaseId /\ d.act \notin Drops
      /\ attempts[b].lease \in Nat /\ relay[b].lease \in Nat /\ relay[b].base \in Nat
      /\ attempts \in [Attempt -> AttemptRow]
  <2>1. TypeOK /\ attempts \in [Attempt -> AttemptRow] /\ d.lease \in LeaseId /\ d.act \notin Drops
    BY DEF IInv, TypeOK, Directive, Resumes, Resends, Drops
  <2>2. attempts[b].run \in RunRef /\ d.lease \in Nat
    BY <2>1, BoundAssumption DEF AttemptRow, LeaseId
  <2> QED
    BY <2>1, <2>2, AttemptTypes
<1>1. /\ relay[b].open /\ relay[b].base <= attempts[b].lease /\ ~relay[b].closed
      /\ d.act \in Resends <=> b \in hello.pending
      /\ d.lease \in {relay[b].lease, relay[b].lease + 1} /\ b \in hello.active \cup hello.pending
  BY <1>0 DEF DirectiveFor, Resumes, Resends, Drops
<1>2. HasRow(attempts, b)
  BY <1>1 DEF IInv, HelloBacked, ResultBacked
<1>3. /\ relay[b].lease <= d.lease /\ relay[b].base <= d.lease /\ attempts[b].lease <= d.lease
  BY <1>0, <1>1 DEF LinkAt
<1>4. /\ known \in RelayState /\ known.run = attempts[b].run /\ known.lease = relay[b].lease
      /\ known.base = relay[b].base /\ known.open
      /\ known.result.status # "absent" => known.result = relay[b].result
  BY <1>0, <1>1, RelayAcceptsFacts DEF RelayAccepts, RelayState, NoResult
<1> HIDE DEF known
<1>5. /\ leased \in RelayState /\ leased.run = known.run /\ leased.lease = d.lease
      /\ leased.base = known.base /\ leased.open /\ leased.result = known.result
  BY <1>0, <1>1, <1>4 DEF RelayState
<1> HIDE DEF leased
<1>6. /\ streamed \in RelayState /\ streamed.run = known.run /\ streamed.lease = d.lease
      /\ streamed.base = known.base /\ streamed.open /\ streamed.result = known.result
  BY <1>5, RelayStoresFacts, StoresKeepLeases
<1>7. ResumedRelay(b, d) = IF d.act \in Resends /\ HasRow(results, b)
                           THEN RelayResult(streamed, ResumedResult(b, d)) ELSE streamed
  BY DEF ResumedRelay, Resumes, Resends, known, leased
<1> HIDE DEF streamed
<1>8. /\ ResumedResult(b, d) \in ResultRow /\ ResumedResult(b, d).run = results[b].run
      /\ ResumedResult(b, d).status = results[b].status
  BY <1>0, ResumedResultFacts
<1>9. /\ ResumedRow(b, d).lease = d.lease /\ ResumedRow(b, d).status = attempts[b].status
      /\ ResumedRow(b, d).run = attempts[b].run
  <2>1. ResumedRow(b, d) = IF d.lease # 0 THEN [attempts[b] EXCEPT !.lease = d.lease] ELSE attempts[b]
    BY <1>0, <1>2 DEF ResumedRow, Adopts, SetAttemptLease, Drops
  <2> QED
    BY <2>1, <1>0, <1>3 DEF AttemptRow
<1>10. /\ ResumedRelay(b, d).lease = d.lease /\ ResumedRelay(b, d).base = relay[b].base
       /\ ResumedRelay(b, d).open /\ ResumedRelay(b, d).run = attempts[b].run
  BY <1>4, <1>6, <1>7, <1>8 DEF RelayResult, RelayState
<1>11. Registered(b) => ResumedRelay(b, d).result.status = "absent"
  BY <1>4, <1>6, <1>7 DEF LinkAt, IInv, RegistryBacked
<1>12. HasRow(results, b) /\ b \in hello.pending => ResumedRelay(b, d).result = ResumedResult(b, d)
  <2> SUFFICES ASSUME HasRow(results, b), b \in hello.pending
               PROVE  ResumedRelay(b, d).result = ResumedResult(b, d)
    OBVIOUS
  <2>1. ResumedRelay(b, d) = RelayResult(streamed, ResumedResult(b, d))
    BY <1>1, <1>7
  <2>2. streamed.run = ResumedResult(b, d).run
    BY <1>4, <1>6, <1>8 DEF IInv, ResultBacked
  <2> QED
    BY <2>1, <2>2, <1>6, <1>8 DEF RelayResult, RelayState
<1>13. attempts[b].run # NoRun
  BY <1>2 DEF LinkAt
<1> QED
  BY <1>0, <1>1, <1>2, <1>3, <1>8, <1>9, <1>10, <1>11, <1>12, <1>13 DEF HasRow

\* A run comes out of the resume with its lease.
LEMMA ResumedJobLease ==
  ASSUME TypeOK, NEW r \in Run, NEW d \in Directive, d.act # "abandon"
  PROVE  ResumedJob(r, d).lease = IF Adopts(d) THEN d.lease ELSE job[r].lease
<1>1. job[r] \in JobState
  BY DEF TypeOK
<1> QED
  BY <1>1 DEF ResumedJob, JobState

LEMMA HelloAcceptedLink ==
  ASSUME IInv, IInv', HelloAccepted, NEW b \in Attempt, LinkAt(b)
  PROVE  LinkAt(b)'
<1>1. PICK dir \in [Attempt -> Directive] :
        /\ \A a \in Attempt : DirectiveFor(a, dir[a])
        /\ attempts' = [a \in Attempt |-> ResumedRow(a, dir[a])]
        /\ results' = [a \in Attempt |-> ResumedResult(a, dir[a])]
        /\ registry' = [a \in Attempt |-> IF dir[a].act \in Drops THEN NoRun ELSE registry[a]]
        /\ job' = [r \in Run |-> IF job[r].attempt \in Attempt /\ registry[job[r].attempt] = r
                                 THEN ResumedJob(r, dir[job[r].attempt]) ELSE job[r]]
        /\ relay' = [a \in Attempt |-> ResumedRelay(a, dir[a])]
  BY DEF HelloAccepted
<1> DEFINE d == dir[b]
<1>2. /\ d \in Directive /\ DirectiveFor(b, d) /\ attempts'[b] = ResumedRow(b, d)
      /\ results'[b] = ResumedResult(b, d) /\ relay'[b] = ResumedRelay(b, d)
      /\ registry'[b] = IF d.act \in Drops THEN NoRun ELSE registry[b]
      /\ conn = "hello" /\ conn' = "up" /\ TypeOK
      /\ registry \in [Attempt -> RunRef]
  BY <1>1 DEF HelloAccepted, IInv, TypeOK
<1>9. hello'.missed = {a \in hello.active \ hello.pending : HasRow(results', a)}
  BY DEF HelloAccepted, NoHello
<1>10. HasRow(results, b) /\ HasRow(results', b) /\ b \notin hello'.missed => b \in hello.pending
  BY <1>2, <1>9 DEF LinkAt
<1>3. Registered(b) => /\ registry[b] \in Run /\ job[registry[b]].attempt = b
                       /\ job'[registry[b]] = ResumedJob(registry[b], d)
                       /\ attempts[b].status \in ActiveStatus /\ attempts[b].run = registry[b]
                       /\ job[registry[b]].lease = attempts[b].lease
  <2>1. Registered(b) => /\ registry[b] \in Run /\ job[registry[b]].attempt = b
                         /\ attempts[b].status \in ActiveStatus /\ attempts[b].run = registry[b]
                         /\ job[registry[b]].lease = attempts[b].lease
    BY <1>2 DEF Registered, RunRef, IInv, RegistryBacked, CurrentJob, LinkAt
  <2>2. registry[b] \in Run /\ job[registry[b]].attempt = b =>
          job'[registry[b]] = ResumedJob(registry[b], d)
    BY <1>1
  <2> QED
    BY <2>1, <2>2
<1>4. /\ relay[b].lease \in Nat /\ relay[b].base \in Nat /\ relay[b] \in RelayState
  BY <1>2, AttemptTypes
<1> HIDE DEF d
<1>5. CASE d.act \in Resumes \cup Resends
  <2> DEFINE rl == ResumedRelay(b, d)
  <2>1. /\ HasRow(attempts, b) /\ relay[b].open
        /\ relay[b].lease <= d.lease /\ d.lease \in Nat
        /\ rl.lease = d.lease /\ rl.base = relay[b].base /\ rl.open /\ rl.run = attempts[b].run
        /\ rl.base <= d.lease
        /\ attempts[b].run # NoRun /\ ResumedRow(b, d).run = attempts[b].run
        /\ ResumedRow(b, d).lease = d.lease /\ ResumedRow(b, d).status = attempts[b].status
        /\ Registered(b) => rl.result.status = "absent"
        /\ HasRow(results, b) /\ b \in hello.pending => rl.result = ResumedResult(b, d)
        /\ HasRow(results, b) <=> ResumedResult(b, d).status # "absent"
    BY <1>2, <1>5, ResumeAgrees
  <2>2. registry'[b] = registry[b] /\ d.act # "abandon"
    BY <1>2, <1>5 DEF Resumes, Resends, Drops
  <2>3. Registered(b) => job'[registry[b]].lease = d.lease
    <3>1. attempts[b].lease <= relay[b].lease /\ attempts[b].lease \in Nat
      BY <1>2, AttemptTypes DEF LinkAt
    <3>2. Registered(b) => job'[registry[b]].lease = IF Adopts(d) THEN d.lease ELSE job[registry[b]].lease
      BY <1>2, <1>3, <2>2, ResumedJobLease
    <3> QED
      BY <3>1, <3>2, <1>3, <1>4, <1>5, <2>1 DEF Adopts
  <2> HIDE DEF rl
  <2> QED
    BY <2>1, <2>2, <2>3, <1>2, <1>3, <1>10 DEF LinkAt, Registered, CurrentJob, HasRow, rl
<1>6. CASE d.act = "abandon"
  <2>1. relay'[b] = RelayForgets(relay[b]) /\ attempts'[b] = NoRow /\ registry'[b] = NoRun
        /\ results'[b] = NoResult
    BY <1>2, <1>6 DEF ResumedRelay, ResumedRow, ResumedResult, Resumes, Resends, Drops
  <2>2. /\ relay'[b].lease = relay[b].lease /\ relay'[b].base = 0 /\ ~relay'[b].open
        /\ relay'[b].run = NoRun /\ relay'[b].got = 0
    BY <2>1, <1>4 DEF RelayForgets, RelayIdle
  <2> QED
    BY <2>1, <2>2, <1>2, <1>4 DEF LinkAt, Registered, HasRow, NoRow, NoResult
<1>7. CASE d.act = "ack_pending"
  <2>1. relay'[b] = [relay[b] EXCEPT !.closed = TRUE] /\ attempts'[b] = NoRow /\ registry'[b] = NoRun
        /\ results'[b] = NoResult
    BY <1>2, <1>7 DEF ResumedRelay, ResumedRow, ResumedResult, Resumes, Resends, Drops
  <2>2. /\ relay'[b].lease = relay[b].lease /\ relay'[b].base = relay[b].base
        /\ relay'[b].open = relay[b].open /\ relay'[b].run = relay[b].run /\ relay'[b].got = relay[b].got
    BY <2>1, <1>4 DEF RelayState
  <2> QED
    BY <2>1, <2>2, <1>2, <1>4 DEF LinkAt, Registered, HasRow, NoRow, NoResult
<1>8. CASE d.act = "none"
  <2>1. b \notin hello.active \cup hello.pending
    BY <1>2, <1>8 DEF DirectiveFor, Resumes, Resends, Drops
  <2>2. ~Registered(b) /\ ~HasRow(results, b)
    BY <2>1, <1>2 DEF LinkAt
  <2>3. relay'[b] = relay[b] /\ registry'[b] = registry[b]
        /\ attempts'[b] = attempts[b] /\ results'[b] = results[b]
    BY <1>2, <1>8 DEF ResumedRelay, ResumedRow, ResumedResult, Adopts, Resumes, Resends, Drops
  <2> QED
    BY <2>2, <2>3, <1>2 DEF LinkAt, Registered, HasRow
<1> QED
  BY <1>2, <1>5, <1>6, <1>7, <1>8 DEF Directive, Drops

-----------------------------------------------------------------------------
(* Deaths of the process.                                                  *)

\* A death that leaves the attempt's row, or none, and the relay's view of it.
LEMMA DeathLink ==
  ASSUME IInv, IInv', NEW b \in Attempt, LinkAt(b), Dies,
         attempts'[b] \in {attempts[b], NoRow}, ViewStays(b) \/ ViewForgets(b)
  PROVE  LinkAt(b)'
<1>1. registry'[b] = NoRun /\ conn' = "down"
  BY DEF Dies
<1>2. Aside(b)
  BY <1>1, AttemptTypes DEF IInv, Aside, HasRow, NoRow
<1> QED
  BY <1>2, AsideLink

LEMMA QuietDeathLink ==
  ASSUME IInv, IInv',
         \/ Crash
         \/ \E r \in Run : EventKeyThrows(r) \/ CrashInAppend(r) \/ \E s \in FinalStatus : CrashInOnDone(r, s),
         NEW b \in Attempt, LinkAt(b)
  PROVE  LinkAt(b)'
<1>1. Dies /\ UNCHANGED <<attempts, relay>>
  BY DEF Crash, EventKeyThrows, CrashInAppend, CrashInOnDone, store
<1> QED
  BY <1>1, DeathLink DEF ViewStays

LEMMA CrashInAssignLink ==
  ASSUME IInv, IInv', NEW a \in Attempt, NEW l \in 1 .. MaxLease, NEW r \in Run,
         CrashInAssign(a, l, r), NEW b \in Attempt, LinkAt(a), LinkAt(b)
  PROVE  LinkAt(b)'
<1> DEFINE i == Issued(a, l)
<1>0. /\ TypeOK /\ relay \in [Attempt -> RelayState] /\ attempts \in [Attempt -> AttemptRow]
      /\ registry'[b] = NoRun /\ conn' = "down" /\ relay' = [relay EXCEPT ![a] = i]
      /\ ~HasRow(attempts, a) /\ ~relay[a].closed
  BY DEF IInv, TypeOK, CrashInAssign, AssignedLease, Known
<1>1. /\ i.lease = l /\ i.open /\ i.run = relay[a].run /\ i.got = relay[a].got
      /\ i.base \in Nat /\ i.base <= l
  BY AssignFacts DEF CrashInAssign
<1>2. relay[a].run = NoRun
  BY <1>0 DEF IInv, RelayRunKnown
<1>3. /\ attempts'[a].lease = l /\ attempts'[a].run = r
      /\ b # a => attempts'[b] = attempts[b]
  BY <1>0 DEF CrashInAssign, CreateAttempt
<1> HIDE DEF i
<1>4. CASE b # a
  <2>1. relay'[b] = relay[b] /\ attempts'[b] = attempts[b]
    BY <1>0, <1>3, <1>4
  <2>2. ViewStays(b) /\ Aside(b)
    BY <2>1, <1>0, AttemptTypes DEF ViewStays, Aside, HasRow
  <2> QED
    BY <2>2, AsideLink
<1>5. CASE b = a
  <2>1. relay'[b] = i /\ l \in Nat
    BY <1>0, <1>5, BoundAssumption
  <2> QED
    BY <2>1, <1>0, <1>1, <1>2, <1>3, <1>5, RunAssumption DEF LinkAt, Registered, HasRow
<1> QED
  BY <1>4, <1>5

LEMMA CrashInDropLink ==
  ASSUME IInv, IInv', NEW a \in Attempt, CrashInRevoke(a) \/ \E l \in 1 .. MaxLease : CrashInResultAck(a, l),
         NEW b \in Attempt, LinkAt(b)
  PROVE  LinkAt(b)'
<1> DEFINE fgt == RelayForgets(relay[a])
<1>0. /\ TypeOK /\ relay \in [Attempt -> RelayState] /\ attempts \in [Attempt -> AttemptRow] /\ Dies
      /\ relay' = [relay EXCEPT ![a] = fgt] \/ relay' = [relay EXCEPT ![a].closed = TRUE]
      /\ attempts' \in {attempts, DeleteAttemptRow(attempts, a)}
  BY DEF IInv, TypeOK, CrashInRevoke, CrashInResultAck
<1>1. /\ fgt.lease = relay[a].lease /\ fgt.base = 0 /\ ~fgt.open /\ fgt.run = NoRun
      /\ fgt.got = 0 /\ fgt.result.status = "absent" /\ relay[a].lease \in Nat
  BY <1>0, AttemptTypes DEF RelayForgets, RelayIdle, NoResult
<1> HIDE DEF fgt
<1>2. ViewStays(b) \/ ViewForgets(b)
  BY <1>0, <1>1 DEF ViewStays, ViewForgets, RelayState
<1>3. attempts'[b] \in {attempts[b], NoRow}
  BY <1>0 DEF DeleteAttemptRow
<1> QED
  BY <1>0, <1>2, <1>3, DeathLink

LEMMA CrashInResumeLink ==
  ASSUME IInv, IInv', NEW a \in Attempt, NEW d \in Directive, CrashInResume(a, d),
         NEW b \in Attempt, LinkAt(a), LinkAt(b)
  PROVE  LinkAt(b)'
<1>0. /\ TypeOK /\ relay \in [Attempt -> RelayState] /\ attempts \in [Attempt -> AttemptRow] /\ Dies
      /\ conn = "hello" /\ DirectiveFor(a, d) /\ registry'[b] = NoRun /\ conn' = "down"
  BY DEF IInv, TypeOK, CrashInResume, Dies
<1>1. CASE /\ d.act \in Drops
           /\ attempts' \in {attempts, DeleteAttemptRow(attempts, a)}
           /\ relay' = [relay EXCEPT ![a] = ResumedRelay(a, d)]
  <2> DEFINE rl == ResumedRelay(a, d)
  <2>1. rl = RelayForgets(relay[a]) \/ rl = [relay[a] EXCEPT !.closed = TRUE]
    BY <1>1 DEF ResumedRelay, Resumes, Resends, Drops
  <2>2. relay'[b] = (IF b = a THEN rl ELSE relay[b]) /\ relay[a] \in RelayState
    BY <1>0, <1>1
  <2>3. attempts'[b] \in {attempts[b], NoRow}
    BY <1>0, <1>1 DEF DeleteAttemptRow
  <2> HIDE DEF rl
  <2>4. CASE rl = RelayForgets(relay[a])
    <3>1. /\ rl.lease = relay[a].lease /\ rl.base = 0 /\ ~rl.open /\ rl.run = NoRun
          /\ rl.got = 0 /\ rl.result.status = "absent"
      BY <2>4 DEF RelayForgets, RelayIdle, NoResult
    <3>2. ViewStays(b) \/ ViewForgets(b)
      BY <3>1, <2>2, <1>0, AttemptTypes DEF ViewStays, ViewForgets
    <3> QED
      BY <3>2, <2>3, <1>0, DeathLink
  <2>5. CASE rl = [relay[a] EXCEPT !.closed = TRUE]
    <3>1. ViewStays(b)
      BY <2>2, <2>5 DEF ViewStays, RelayState
    <3> QED
      BY <3>1, <2>3, <1>0, DeathLink
  <2> QED
    BY <2>1, <2>4, <2>5
<1>2. CASE /\ d.act \in Resends /\ Adopts(d)
           /\ attempts' = SetAttemptLease(attempts, a, d.lease)
           /\ relay' = [relay EXCEPT ![a].lease = d.lease]
  <2>1. /\ HasRow(attempts, a) /\ relay[a].open /\ attempts[a].run # NoRun
        /\ relay[a].lease <= d.lease /\ d.lease \in Nat /\ relay[a].base <= d.lease
    <3>1. d.act \in Resumes \cup Resends
      BY <1>2
    <3> QED
      BY <3>1, <1>0, ResumeAgrees
  <2>2. /\ attempts'[a].lease = d.lease /\ attempts'[a].run = attempts[a].run
        /\ b # a => attempts'[b] = attempts[b]
    BY <1>0, <1>2, <2>1 DEF SetAttemptLease, AttemptRow
  <2>3. /\ relay'[a].lease = d.lease /\ relay'[a].base = relay[a].base /\ relay'[a].run = relay[a].run
        /\ relay'[a].open = relay[a].open /\ relay'[a].got = relay[a].got
        /\ b # a => relay'[b] = relay[b]
    BY <1>0, <1>2 DEF RelayState
  <2>4. CASE b # a
    <3>1. attempts'[b] \in {attempts[b], NoRow} /\ ViewStays(b)
      BY <2>2, <2>3, <2>4 DEF ViewStays
    <3> QED
      BY <3>1, <1>0, DeathLink
  <2>5. CASE b = a
    <3>1. /\ relay'[b].lease = d.lease /\ relay'[b].base <= d.lease /\ relay'[b].open
          /\ attempts'[b].lease = d.lease /\ attempts'[b].run # NoRun
          /\ relay'[b].run = NoRun => relay'[b].got = 0
      BY <2>1, <2>2, <2>3, <2>5 DEF LinkAt
    <3> QED
      BY <3>1, <2>1, <1>0 DEF LinkAt, Registered
  <2> QED
    BY <2>4, <2>5
<1> QED
  BY <1>1, <1>2 DEF CrashInResume

-----------------------------------------------------------------------------
(* The registry's slots.                                                   *)

\* Only an accepted assignment takes a slot.
RegistryShrinks == \A b \in Attempt : registry'[b] \in {registry[b], NoRun}

LEMMA SlotsFinite ==
  ASSUME NEW S \in SUBSET Attempt
  PROVE  IsFiniteSet(S) /\ Cardinality(S) \in Nat
BY AttemptAssumption, FS_Subset, FS_CardinalityType

LEMMA SlotTaken ==
  ASSUME IInv, [Next]_vars
  PROVE  \/ RegistryShrinks
         \/ \E a \in Attempt, l \in 1 .. MaxLease, r \in Run : AssignStarts(a, l, r)
<1> USE DEF RegistryShrinks
<1>0. registry \in [Attempt -> RunRef]
  BY DEF IInv, TypeOK
<1>1. ASSUME NEW r \in Run, NEW s, NEW n, NEW e, OnDone(r, s, n, e)
      PROVE  RegistryShrinks
  BY <1>0, <1>1 DEF OnDone
<1>2. ASSUME NEW r \in Run, Engine(r)
      PROVE  RegistryShrinks
  <2>1. ASSUME UNCHANGED registry
        PROVE  RegistryShrinks
    BY <2>1
  <2> QED
    BY <1>1, <1>2, <2>1
    DEF Engine, EngineSpawns, EngineFails, EngineStdout, EngineStderr, EngineExits, EngineTimesOut,
        EngineLateOutput, EngineLateClose, OverlapExpires, OnEvent
<1>3. ASSUME NEW a \in Attempt, Inbound(a)
      PROVE  RegistryShrinks \/ \E l \in 1 .. MaxLease, r \in Run : AssignStarts(a, l, r)
  <2>1. ASSUME NEW l \in 1 .. MaxLease, HandleCancel(a, l)
        PROVE  RegistryShrinks
    <3>1. registry[a] \in Run
      BY <2>1, <1>0 DEF HandleCancel, Registered, RunRef
    <3> QED
      BY <2>1, <3>1, <1>1 DEF HandleCancel
  <2>2. ASSUME NEW l \in 1 .. MaxLease,
               \/ AssignDuplicate(a, l) \/ AssignRefused(a, l) \/ HandleResultAck(a, l)
               \/ \E n \in 1 .. MaxSeq : HandleStreamAck(a, l, n)
        PROVE  RegistryShrinks
    BY <2>2, <1>0 DEF AssignDuplicate, AssignRefused, HandleResultAck, HandleStreamAck, memory
  <2>3. ASSUME HandleLeaseGranted(a) \/ HandleRevoke(a)
        PROVE  RegistryShrinks
    BY <2>3, <1>0 DEF HandleLeaseGranted, HandleRevoke, memory
  <2> QED
    BY <1>3, <2>1, <2>2, <2>3 DEF Inbound
<1>4. ASSUME Session
      PROVE  RegistryShrinks
  <2>1. CASE HelloAccepted
    BY <2>1 DEF HelloAccepted
  <2>2. CASE Dial \/ HandshakeFails \/ LinkBreaks \/ Disconnect
             \/ \E a \in Attempt : RelayGivesUp(a) \/ ResultAckLost(a)
    BY <2>2 DEF Dial, HandshakeFails, LinkBreaks, Disconnect, RelayGivesUp, ResultAckLost, memory
  <2> QED
    BY <1>4, <2>1, <2>2 DEF Session
<1>5. ASSUME Crash \/ TornCrash \/ \E r \in Run : EventKeyThrows(r)
      PROVE  RegistryShrinks
  BY <1>5
  DEF Crash, TornCrash, EventKeyThrows, CrashInAssign, CrashInAppend, CrashInOnDone, CrashInResultAck,
      CrashInRevoke, CrashInResume, Dies
<1>6. ASSUME UNCHANGED vars
      PROVE  RegistryShrinks
  BY <1>6 DEF vars
<1> QED
  BY <1>2, <1>3, <1>4, <1>5, <1>6 DEF Next

\* atCapacity is asked before the slot is taken.
LEMMA SlotsStep ==
  ASSUME IInv, [Next]_vars, Cardinality(SlotsInUse) <= MaxConcurrent
  PROVE  Cardinality(SlotsInUse') <= MaxConcurrent
<1>0. /\ MaxConcurrent \in Nat /\ registry \in [Attempt -> RunRef]
      /\ IsFiniteSet(SlotsInUse) /\ Cardinality(SlotsInUse) \in Nat
      /\ IsFiniteSet(SlotsInUse') /\ Cardinality(SlotsInUse') \in Nat
  <2>1. SlotsInUse \in SUBSET Attempt /\ SlotsInUse' \in SUBSET Attempt
    BY DEF SlotsInUse
  <2> QED
    BY <2>1, SlotsFinite, CapAssumption DEF IInv, TypeOK
<1>1. CASE RegistryShrinks
  <2>1. SlotsInUse' \subseteq SlotsInUse
    BY <1>1 DEF RegistryShrinks, SlotsInUse, Registered
  <2>2. Cardinality(SlotsInUse') <= Cardinality(SlotsInUse)
    BY <2>1, <1>0, FS_Subset
  <2> QED
    BY <2>2, <1>0
<1>2. ASSUME NEW a \in Attempt, NEW l \in 1 .. MaxLease, NEW r \in Run, AssignStarts(a, l, r)
      PROVE  Cardinality(SlotsInUse') <= MaxConcurrent
  <2>1. SlotsInUse' = SlotsInUse \cup {a} /\ a \notin SlotsInUse
    BY <1>2, <1>0, RunAssumption DEF AssignStarts, Known, SlotsInUse, Registered
  <2>2. Cardinality(SlotsInUse) < MaxConcurrent
    BY <1>0, <1>2 DEF AssignStarts, AtCapacity, SlotsInUse
  <2>3. Cardinality(SlotsInUse') = Cardinality(SlotsInUse) + 1
    BY <2>1, <1>0, FS_AddElement
  <2> QED
    BY <2>2, <2>3, <1>0
<1> QED
  BY <1>1, <1>2, SlotTaken

-----------------------------------------------------------------------------
(* LinkInv is an invariant.                                                *)

LEMMA InitLink == Init => LinkInv
<1> SUFFICES ASSUME Init PROVE LinkInv
  OBVIOUS
<1>1. ASSUME NEW a \in Attempt
      PROVE  LinkAt(a)
  BY DEF Init, LinkAt, NoRow, NoResult, RelayIdle, Registered, HasRow
<1>2. SlotsInUse = {}
  BY DEF Init, SlotsInUse, Registered
<1>3. Cardinality(SlotsInUse) <= MaxConcurrent
  BY <1>2, FS_EmptySet, CapAssumption
<1> QED
  BY <1>1, <1>3, LinkSplit

LEMMA AttemptLink ==
  ASSUME IInv, IInv', [Next]_vars, \A a \in Attempt : LinkAt(a), NEW b \in Attempt
  PROVE  LinkAt(b)'
<1>1. ASSUME NEW a \in Attempt, Inbound(a)
      PROVE  LinkAt(b)'
  BY <1>1, AssignDuplicateLink, AssignRefusedLink, AssignStartsLink, HandleStreamAckLink,
     HandleResultAckLink, HandleCancelLink, HandleLeaseGrantedLink, HandleRevokeLink
  DEF Inbound
<1>2. ASSUME NEW r \in Run, Engine(r)
      PROVE  LinkAt(b)'
  <2>1. CASE EngineStdout(r) \/ EngineStderr(r) \/ EngineLateOutput(r)
    BY <2>1, OnEventLink DEF EngineStdout, EngineStderr, EngineLateOutput
  <2> QED
    BY <1>2, <2>1, QuietEngineLink, EngineEndsLink DEF Engine
<1>3. CASE Session
  BY <1>3, DialLink, ConnectionLostLink, HelloAcceptedLink, RelayAloneLink DEF Session
<1>4. CASE Crash \/ \E r \in Run : EventKeyThrows(r)
  BY <1>4, QuietDeathLink
<1>5. CASE TornCrash
  BY <1>5, QuietDeathLink, CrashInAssignLink, CrashInDropLink, CrashInResumeLink DEF TornCrash
<1>6. CASE UNCHANGED vars
  BY <1>6 DEF vars, LinkAt, Registered, CurrentJob, HasRow
<1> QED
  BY <1>1, <1>2, <1>3, <1>4, <1>5, <1>6 DEF Next

LEMMA NextLink == IInv /\ IInv' /\ LinkInv /\ [Next]_vars => LinkInv'
<1> SUFFICES ASSUME IInv, IInv', LinkInv, [Next]_vars PROVE LinkInv'
  OBVIOUS
<1>1. \A a \in Attempt : LinkAt(a)'
  BY LinkSplit, AttemptLink
<1>2. Cardinality(SlotsInUse') <= MaxConcurrent
  BY LinkSplit, SlotsStep
<1>3. SlotsHeld'
  BY <1>1, <1>2 DEF SlotsHeld, LinkAt, SlotsInUse
<1>4. LeasesKnown'
  BY <1>1 DEF LeasesKnown, LinkAt
<1>5. HelloCovers'
  BY <1>1 DEF HelloCovers, LinkAt
<1>6. ResultReachesRelayOutsideHandshake'
  BY <1>1 DEF ResultReachesRelayOutsideHandshake, LinkAt
<1> QED
  BY <1>3, <1>4, <1>5, <1>6 DEF LinkInv

\* handleAssign, handleLeaseGranted and applyResume keep the leases of memory, row
\* and relay in step, and a hello always reports what the next session must settle:
\* for every choice of faults, torn handlers included.
THEOREM LinkInvariance == Spec => []LinkInv
<1> QED
  BY InitIInv, NextIInv, InitLink, NextLink, PTL DEF Spec

\* registry.ts atCapacity: however runs end, are revoked, abandoned or replaced, the
\* unfenced runs alive never exceed the daemon's capacity.
THEOREM CapacityKept == Spec => []LiveRunsWithinCapacity
<1> DEFINE L == {r \in Run : Live(r) /\ ~job[r].fenced}
<1>1. IInv /\ LinkInv => LiveRunsWithinCapacity
  <2> SUFFICES ASSUME IInv, LinkInv PROVE LiveRunsWithinCapacity
    OBVIOUS
  <2> DEFINE f == [r \in L |-> job[r].attempt]
  <2>1. \A r \in L : job[r].attempt \in SlotsInUse /\ registry[job[r].attempt] = r
    BY RunAssumption DEF IInv, LiveRunIsRegistered, JobHasAttempt, Live, SlotsInUse, Registered
  <2> HIDE DEF L
  <2>2. f \in Injection(L, SlotsInUse)
    BY <2>1 DEF Injection, IsInjective
  <2>3. IsFiniteSet(SlotsInUse) /\ Cardinality(SlotsInUse) \in Nat
        /\ Cardinality(SlotsInUse) <= MaxConcurrent
    <3>1. SlotsInUse \in SUBSET Attempt
      BY DEF SlotsInUse
    <3> QED
      BY <3>1, SlotsFinite, LinkSplit
  <2> HIDE DEF f
  <2>4. IsFiniteSet(L) /\ Cardinality(L) <= Cardinality(SlotsInUse)
    BY <2>2, <2>3, FS_Injection
  <2>5. Cardinality(L) \in Nat
    BY <2>4, FS_CardinalityType
  <2>6. Cardinality(L) <= MaxConcurrent
    BY <2>3, <2>4, <2>5, CapAssumption
  <2> QED
    BY <2>6 DEF LiveRunsWithinCapacity, L
<1> QED
  BY <1>1, Invariance, LinkInvariance, PTL

\* applyResume and sendResult: on a working connection the relay has every pending
\* result of an attempt it has not given up, but for the one whose run ended between
\* the hello and its answer.
THEOREM ResultsReachTheRelay == Spec => []ResultReachesRelayOutsideHandshake
<1>1. LinkInv => ResultReachesRelayOutsideHandshake
  BY DEF LinkInv
<1> QED
  BY <1>1, LinkInvariance, PTL

-----------------------------------------------------------------------------
(* The stream.  From here on no output comes late and no handler is torn:  *)
(* each theorem names that assumption.                                     *)

\* The relay's prefix grows by what arrives without a gap, and by nothing else.
LEMMA ContiguousBounds ==
  ASSUME NEW n \in 0 .. MaxSeq, NEW S
  PROVE  /\ n <= Contiguous(n, S)
         /\ \A m \in 0 .. MaxSeq : (n + 1) .. m \subseteq S => m <= Contiguous(n, S)
         /\ \A m \in 0 .. MaxSeq : n <= m /\ (\A s \in S : s <= m) => Contiguous(n, S) <= m
<1> DEFINE K == {k \in (n + 1) .. MaxSeq : (n + 1) .. k \subseteq S}
<1>0. MaxSeq \in Nat /\ n \in Nat /\ n + 1 \in Int /\ MaxSeq \in Int
  BY BoundAssumption
<1>1. IsFiniteSet(K) /\ Cardinality(K) \in Nat
  <2>1. IsFiniteSet((n + 1) .. MaxSeq) /\ K \subseteq (n + 1) .. MaxSeq
    BY <1>0, FS_Interval
  <2>2. IsFiniteSet(K)
    BY <2>1, FS_Subset
  <2> QED
    BY <2>2, FS_CardinalityType
<1>2. ASSUME NEW m \in 0 .. MaxSeq, (n + 1) .. m \subseteq S
      PROVE  m <= n + Cardinality(K)
  <2>1. (n + 1) .. m \subseteq K
    <3> SUFFICES ASSUME NEW k \in (n + 1) .. m
                 PROVE  k \in (n + 1) .. MaxSeq /\ (n + 1) .. k \subseteq (n + 1) .. m
      BY <1>2
    <3> QED
      BY <1>0
  <2>2. Cardinality((n + 1) .. m) <= Cardinality(K)
    BY <1>1, <2>1, FS_Subset
  <2>3. Cardinality((n + 1) .. m) = IF n + 1 > m THEN 0 ELSE m - (n + 1) + 1
    BY <1>0, FS_Interval
  <2> QED
    BY <1>0, <1>1, <2>2, <2>3
<1>3. ASSUME NEW m \in 0 .. MaxSeq, n <= m, \A s \in S : s <= m
      PROVE  n + Cardinality(K) <= m
  <2>1. K \subseteq (n + 1) .. m
    <3> SUFFICES ASSUME NEW k \in (n + 1) .. MaxSeq, (n + 1) .. k \subseteq S
                 PROVE  k \in (n + 1) .. m
      OBVIOUS
    <3>1. k \in (n + 1) .. k
      BY <1>0
    <3>2. k <= m
      BY <3>1, <1>3
    <3> QED
      BY <3>2, <1>0
  <2>2. /\ IsFiniteSet((n + 1) .. m)
        /\ Cardinality((n + 1) .. m) = IF n + 1 > m THEN 0 ELSE m - (n + 1) + 1
    BY <1>0, FS_Interval
  <2>3. Cardinality(K) <= Cardinality((n + 1) .. m)
    BY <2>1, <2>2, FS_Subset
  <2> QED
    BY <1>0, <1>1, <1>3, <2>2, <2>3
<1> HIDE DEF K
<1>4. n <= n + Cardinality(K)
  BY <1>0, <1>1
<1> QED
  BY <1>2, <1>3, <1>4 DEF Contiguous, K

\* StreamInv, attempt by attempt.
StreamAt(a) ==
  /\ \A e \in events[a] : /\ HasRow(attempts, a) /\ e.run = attempts[a].run
                          /\ Registered(a) => e.seq <= CurrentJob(a).seq
  /\ InForce(a) => \A s \in 1 .. MaxSeq : Emitted(a, s) /\ s > relay[a].got =>
       [seq |-> s, run |-> attempts[a].run] \in events[a]
  /\ Registered(a) => relay[a].got <= CurrentJob(a).seq
  /\ conn = "up" /\ Registered(a) /\ relay[a].run = registry[a] => relay[a].got = CurrentJob(a).seq
  /\ ~relay[a].gap

NoLate == \A r \in Run : job[r].engine # "late"

LEMMA StreamSplit ==
  StreamInv <=> NoLate /\ \A a \in Attempt : StreamAt(a)
<1>1. ASSUME StreamInv
      PROVE  NoLate /\ \A a \in Attempt : StreamAt(a)
  BY <1>1 DEF StreamInv, EventsOfRow, StreamWhole, NoGap, StreamAt, NoLate
<1>2. ASSUME NoLate, \A a \in Attempt : StreamAt(a)
      PROVE  StreamInv
  <2>1. EventsOfRow
    BY <1>2 DEF EventsOfRow, StreamAt, NoLate
  <2>2. StreamWhole
    BY <1>2 DEF StreamWhole, StreamAt
  <2>3. NoGap
    BY <1>2 DEF NoGap, StreamAt
  <2> QED
    BY <2>1, <2>2, <2>3 DEF StreamInv
<1> QED
  BY <1>1, <1>2

\* The numbers StreamAt compares.
LEMMA StreamTypes ==
  ASSUME TypeOK, NEW a \in Attempt
  PROVE  /\ relay[a].got \in 0 .. MaxSeq /\ relay[a].got \in Nat
         /\ events[a] \subseteq EventRow
         /\ \A e \in EventRow : e.seq \in 1 .. MaxSeq /\ e.seq \in Nat
         /\ \A r \in Run : job[r].seq \in 0 .. MaxSeq /\ job[r].seq \in Nat
         /\ results[a].seq \in 0 .. MaxSeq /\ results[a].seq \in Nat
         /\ \A n \in 0 .. MaxSeq : n \in Nat
         /\ \A n \in 1 .. MaxSeq : n \in Nat /\ n \in 0 .. MaxSeq
<1>1. relay[a] \in RelayState /\ results[a] \in ResultRow /\ events[a] \subseteq EventRow
      /\ \A r \in Run : job[r] \in JobState
  BY DEF TypeOK
<1> QED
  BY <1>1, BoundAssumption DEF RelayState, ResultRow, EventRow, JobState

\* What a step leaves of an attempt's stream that it does not write to.
StreamStays(b) ==
  /\ attempts'[b].run = attempts[b].run /\ (HasRow(attempts', b) <=> HasRow(attempts, b))
  /\ events'[b] \subseteq events[b] /\ \A e \in events[b] : e.seq > relay[b].got => e \in events'[b]
  /\ registry'[b] # NoRun => registry'[b] = registry[b] /\ job'[registry[b]].seq = job[registry[b]].seq
  /\ HasRow(results', b) => \/ HasRow(results, b) /\ results'[b].seq = results[b].seq
                            \/ Registered(b) /\ results'[b].seq = CurrentJob(b).seq
  /\ InForce(b)' => InForce(b) /\ relay'[b].got = relay[b].got
  /\ registry'[b] # NoRun => relay'[b].got <= relay[b].got
  /\ conn' = "up" /\ registry'[b] # NoRun /\ relay'[b].run = registry'[b] =>
       conn = "up" /\ relay[b].run = registry[b] /\ relay'[b].got = relay[b].got
  /\ relay'[b].gap => relay[b].gap

\* ... and of one that it drops.
StreamEnds(b) ==
  ~HasRow(attempts', b) /\ registry'[b] = NoRun /\ events'[b] = {} /\ (relay'[b].gap => relay[b].gap)

LEMMA StreamKept ==
  ASSUME IInv, IInv', NEW b \in Attempt, StreamAt(b), StreamStays(b) \/ StreamEnds(b)
  PROVE  StreamAt(b)'
<1>1. CASE StreamEnds(b)
  BY <1>1 DEF StreamEnds, StreamAt, InForce, Registered, HasRow
<1>2. CASE StreamStays(b)
  <2>0. /\ relay[b].got \in Nat /\ relay'[b].got \in Nat
        /\ \A r \in Run : job[r].seq \in Nat
        /\ registry'[b] # NoRun => registry[b] \in Run
    <3>1. relay'[b] \in RelayState /\ registry'[b] \in RunRef
      BY DEF IInv, TypeOK
    <3>2. relay'[b].got \in Nat
      BY <3>1, BoundAssumption DEF RelayState
    <3> QED
      BY <3>1, <3>2, <1>2, StreamTypes DEF IInv, StreamStays, RunRef
  <2>1. \A s \in 1 .. MaxSeq : Emitted(b, s)' => Emitted(b, s)
    BY <1>2 DEF Emitted, StreamStays, Registered, CurrentJob, HasRow
  <2>2. \A e \in events'[b] : /\ HasRow(attempts, b)' /\ e.run = attempts'[b].run
                              /\ registry'[b] # NoRun => e.seq <= job'[registry'[b]].seq
    BY <1>2 DEF StreamAt, StreamStays, Registered, CurrentJob, HasRow
  <2>3. InForce(b)' => \A s \in 1 .. MaxSeq : Emitted(b, s)' /\ s > relay'[b].got =>
          [seq |-> s, run |-> attempts'[b].run] \in events'[b]
    BY <1>2, <2>1 DEF StreamAt, StreamStays
  <2>4. registry'[b] # NoRun => relay'[b].got <= job'[registry'[b]].seq
    <3>1. registry'[b] # NoRun => relay[b].got <= job[registry[b]].seq /\ relay'[b].got <= relay[b].got
      BY <1>2 DEF StreamAt, StreamStays, Registered, CurrentJob
    <3> QED
      BY <3>1, <2>0, <1>2 DEF StreamStays
  <2>5. conn' = "up" /\ registry'[b] # NoRun /\ relay'[b].run = registry'[b] =>
          relay'[b].got = job'[registry'[b]].seq
    BY <1>2 DEF StreamAt, StreamStays, Registered, CurrentJob
  <2>6. ~relay'[b].gap
    BY <1>2 DEF StreamAt, StreamStays
  <2> QED
    BY <2>2, <2>3, <2>4, <2>5, <2>6 DEF StreamAt, Registered, CurrentJob, HasRow
<1> QED
  BY <1>1, <1>2

\* A step that moves no lease of the attempt and brings the relay nothing new.
QuietRows(b) ==
  /\ attempts'[b].run = attempts[b].run /\ attempts'[b].lease = attempts[b].lease
  /\ HasRow(attempts', b) <=> HasRow(attempts, b)
  /\ events'[b] \subseteq events[b] /\ \A e \in events[b] : e.seq > relay[b].got => e \in events'[b]
  /\ registry'[b] # NoRun => registry'[b] = registry[b] /\ job'[registry[b]].seq = job[registry[b]].seq
  /\ HasRow(results', b) => \/ HasRow(results, b) /\ results'[b].seq = results[b].seq
                            \/ Registered(b) /\ results'[b].seq = CurrentJob(b).seq
  /\ conn' = "up" => conn = "up"

SameView(b) ==
  /\ relay'[b].got = relay[b].got /\ relay'[b].gap = relay[b].gap
  /\ relay'[b].open = relay[b].open /\ relay'[b].base = relay[b].base /\ relay'[b].run = relay[b].run

LostView(b) == ~relay'[b].open /\ relay'[b].run = NoRun /\ relay'[b].got = 0 /\ ~relay'[b].gap

LEMMA QuietStream ==
  ASSUME IInv, IInv', NEW b \in Attempt, StreamAt(b), QuietRows(b), SameView(b) \/ LostView(b)
  PROVE  StreamAt(b)'
<1>1. relay[b].got \in Nat
  BY StreamTypes DEF IInv
<1>2. InForce(b)' => InForce(b) /\ relay'[b].got = relay[b].got
  BY DEF InForce, QuietRows, SameView, LostView, HasRow
<1>3. relay'[b].got <= relay[b].got /\ (relay'[b].gap => relay[b].gap)
  BY <1>1 DEF SameView, LostView
<1>4. StreamStays(b)
  BY <1>2, <1>3 DEF StreamStays, QuietRows, SameView, LostView
<1> QED
  BY <1>4, StreamKept

\* The tables, and the rows' type of every run, as a step finds them.
LEMMA Shapes ==
  ASSUME IInv
  PROVE  /\ TypeOK /\ attempts \in [Attempt -> AttemptRow] /\ events \in [Attempt -> SUBSET EventRow]
         /\ results \in [Attempt -> ResultRow] /\ registry \in [Attempt -> RunRef]
         /\ job \in [Run -> JobState] /\ relay \in [Attempt -> RelayState]
         /\ \A b \in Attempt : Registered(b) => registry[b] \in Run
BY DEF IInv, TypeOK, Registered, RunRef

\* Giving up leaves the stream nothing to resume.
LEMMA LostFacts ==
  ASSUME NEW rl \in RelayState
  PROVE  /\ ~RelayForgets(rl).open /\ RelayForgets(rl).run = NoRun
         /\ RelayForgets(rl).got = 0 /\ ~RelayForgets(rl).gap
BY DEF RelayForgets, RelayIdle

LEMMA QuietEngineStream ==
  ASSUME IInv, IInv', NEW r \in Run, OverlapExpires(r) \/ EngineSpawns(r) \/ EngineLateClose(r),
         NEW b \in Attempt, StreamAt(b)
  PROVE  StreamAt(b)'
<1>1. /\ UNCHANGED <<attempts, events, results, registry, conn, hello, relay>>
      /\ \A x \in Run : Live(x) => job'[x].seq = job[x].seq
  BY Shapes DEF OverlapExpires, EngineSpawns, EngineLateClose, store, Live, JobState
<1>2. Registered(b) => registry[b] \in Run /\ Live(registry[b])
  BY Shapes DEF IInv, RegistryBacked
<1>3. QuietRows(b) /\ SameView(b)
  BY <1>1, <1>2 DEF QuietRows, SameView, Registered, HasRow
<1> QED
  BY <1>3, QuietStream

LEMMA HandleStreamAckStream ==
  ASSUME IInv, IInv', NEW a \in Attempt, NEW l, NEW n \in 1 .. MaxSeq, HandleStreamAck(a, l, n),
         NEW b \in Attempt, StreamAt(b)
  PROVE  StreamAt(b)'
<1>1. /\ UNCHANGED <<attempts, results, registry, conn, hello, relay>>
      /\ \A x \in Run : job'[x].seq = job[x].seq
      /\ n <= relay[a].got /\ n \in Nat /\ relay[a].got \in Nat
      /\ \A e \in events[a] : e.seq \in Nat
  BY Shapes, StreamTypes DEF HandleStreamAck, JobState
<1>2. events' = [events EXCEPT ![a] = {e \in @ : e.seq > n}]
  BY DEF HandleStreamAck, AckEvents
<1>3. events'[b] \subseteq events[b] /\ \A e \in events[b] : e.seq > relay[b].got => e \in events'[b]
  BY <1>1, <1>2, Shapes
<1>4. QuietRows(b) /\ SameView(b)
  BY <1>1, <1>3, Shapes DEF QuietRows, SameView, Registered, HasRow
<1> QED
  BY <1>4, QuietStream

LEMMA HandleResultAckStream ==
  ASSUME IInv, IInv', NEW a \in Attempt, NEW l, HandleResultAck(a, l), NEW b \in Attempt, StreamAt(b)
  PROVE  StreamAt(b)'
<1>1. UNCHANGED <<job, conn, hello>> /\ relay' = [relay EXCEPT ![a].closed = TRUE]
  BY DEF HandleResultAck
<1>2. SameView(b)
  BY <1>1, Shapes DEF SameView, RelayState
<1>3. CASE UNCHANGED <<store, registry>> \/ b # a
  <2>1. UNCHANGED <<attempts[b], events[b], results[b], registry[b]>>
    BY <1>3, Shapes DEF HandleResultAck, store, DeleteResult, DeleteAttemptRow, DeleteEvents
  <2>2. QuietRows(b)
    BY <2>1, <1>1 DEF QuietRows, HasRow
  <2> QED
    BY <2>2, <1>2, QuietStream
<1>4. CASE ~UNCHANGED <<store, registry>> /\ b = a
  <2>1. attempts'[b] = NoRow /\ events'[b] = {} /\ registry'[b] = NoRun
    BY <1>4, Shapes DEF HandleResultAck, DeleteAttemptRow, DeleteEvents
  <2>2. StreamEnds(b)
    BY <2>1, <1>2 DEF StreamEnds, SameView, HasRow, NoRow
  <2> QED
    BY <2>2, StreamKept
<1> QED
  BY <1>3, <1>4

LEMMA HandleRevokeStream ==
  ASSUME IInv, IInv', NEW a \in Attempt, HandleRevoke(a), NEW b \in Attempt, StreamAt(b)
  PROVE  StreamAt(b)'
<1>1. UNCHANGED <<results, conn, hello>> /\ relay' = [relay EXCEPT ![a] = RelayForgets(@)]
  BY DEF HandleRevoke
<1>2. SameView(b) \/ LostView(b)
  BY <1>1, Shapes, LostFacts DEF SameView, LostView
<1>3. CASE UNCHANGED <<memory, attempts, events>>
  <2>1. QuietRows(b)
    BY <1>1, <1>3 DEF QuietRows, HasRow, memory
  <2> QED
    BY <2>1, <1>2, QuietStream
<1>4. CASE /\ Registered(a)
           /\ job' = [job EXCEPT ![registry[a]] = Fence(@)]
           /\ registry' = [registry EXCEPT ![a] = NoRun]
           /\ attempts' = DeleteAttemptRow(attempts, a)
           /\ events' = DeleteEvents(events, a)
  <2>1. CASE b = a
    <3>1. StreamEnds(b)
      BY <1>1, <1>4, <2>1, Shapes, LostFacts DEF StreamEnds, DeleteAttemptRow, DeleteEvents, HasRow, NoRow
    <3> QED
      BY <3>1, StreamKept
  <2>2. CASE b # a
    <3>1. registry[a] \in Run /\ registry[b] # registry[a]
      BY <1>4, <2>2, Shapes, OwnAttempt
    <3>2. Registered(b) => job'[registry[b]] = job[registry[b]]
      BY <1>4, <3>1, Shapes
    <3>3. UNCHANGED <<attempts[b], events[b], registry[b]>>
      BY <1>4, <2>2, Shapes DEF DeleteAttemptRow, DeleteEvents
    <3>4. QuietRows(b)
      BY <3>2, <3>3, <1>1 DEF QuietRows, Registered, HasRow
    <3> QED
      BY <3>4, <1>2, QuietStream
  <2> QED
    BY <2>1, <2>2
<1> QED
  BY <1>3, <1>4 DEF HandleRevoke

LEMMA ConnectionStream ==
  ASSUME IInv, IInv', NEW b \in Attempt, StreamAt(b),
         \/ Dial \/ HandshakeFails \/ LinkBreaks \/ Disconnect
         \/ \E a \in Attempt : RelayGivesUp(a) \/ ResultAckLost(a)
  PROVE  StreamAt(b)'
<1>1. /\ UNCHANGED <<attempts, events, results, registry, job>>
      /\ conn' = "up" => conn = "up"
      /\ \/ relay' = relay
         \/ \E a \in Attempt : \/ relay' = [relay EXCEPT ![a] = RelayForgets(@)]
                               \/ relay' = [relay EXCEPT ![a].closed = TRUE]
  BY DEF Dial, HandshakeFails, LinkBreaks, Disconnect, RelayGivesUp, ResultAckLost, store, memory
<1>2. QuietRows(b)
  BY <1>1 DEF QuietRows, HasRow
<1>3. SameView(b) \/ LostView(b)
  <2>1. CASE relay' = relay
    BY <2>1 DEF SameView
  <2>2. ASSUME NEW a \in Attempt, relay' = [relay EXCEPT ![a] = RelayForgets(@)]
        PROVE  SameView(b) \/ LostView(b)
    BY <2>2, Shapes, LostFacts DEF SameView, LostView
  <2>3. ASSUME NEW a \in Attempt, relay' = [relay EXCEPT ![a].closed = TRUE]
        PROVE  SameView(b)
    BY <2>3, Shapes DEF SameView, RelayState
  <2> QED
    BY <1>1, <2>1, <2>2, <2>3
<1> QED
  BY <1>2, <1>3, QuietStream

\* After a crash between handlers, and a duplicate key, only the memory is gone.
LEMMA CrashStream ==
  ASSUME IInv, IInv', Crash \/ \E r \in Run : EventKeyThrows(r), NEW b \in Attempt, StreamAt(b)
  PROVE  StreamAt(b)'
<1>1. /\ UNCHANGED <<attempts, events, results, relay>> /\ registry'[b] = NoRun /\ conn' = "down"
  BY DEF Crash, EventKeyThrows, Dies, store
<1>2. QuietRows(b) /\ SameView(b)
  BY <1>1 DEF QuietRows, SameView, HasRow
<1> QED
  BY <1>2, QuietStream

\* A prefix that receives nothing, and one that receives the next event.
LEMMA StoresNothing ==
  ASSUME NEW rl \in RelayState, NEW r
  PROVE  RelayStores(rl, r, {}) = rl
<1>1. rl.got \in 0 .. MaxSeq /\ rl.got <= rl.got
  BY BoundAssumption DEF RelayState
<1>2. Contiguous(rl.got, {}) \in 0 .. MaxSeq /\ rl.got \in Nat
  BY <1>1, ContiguousType, BoundAssumption
<1>3. Contiguous(rl.got, {}) = rl.got
  BY <1>1, <1>2, ContiguousBounds, BoundAssumption
<1> QED
  BY <1>3 DEF RelayStores, RelayState

LEMMA StoresNext ==
  ASSUME NEW rl \in RelayState, NEW r, rl.got < MaxSeq, rl.run = r, rl.result.status = "absent"
  PROVE  /\ RelayStores(rl, r, {rl.got + 1}).got = rl.got + 1
         /\ RelayStores(rl, r, {rl.got + 1}).gap = rl.gap
<1> DEFINE S == {rl.got + 1}
           k == Contiguous(rl.got, S)
<1>1. rl.got \in 0 .. MaxSeq /\ rl.got \in Nat /\ rl.got + 1 \in 0 .. MaxSeq /\ MaxSeq \in Nat
  BY BoundAssumption DEF RelayState
<1>2. (rl.got + 1) .. (rl.got + 1) \subseteq S
  BY <1>1
<1>3. rl.got <= rl.got + 1 /\ \A s \in S : s <= rl.got + 1
  BY <1>1
<1>4. k \in 0 .. MaxSeq
  BY <1>1, ContiguousType
<1> HIDE DEF S
<1>5. rl.got + 1 <= k /\ k <= rl.got + 1
  BY <1>1, <1>2, <1>3, ContiguousBounds
<1>6. k = rl.got + 1
  BY <1>1, <1>4, <1>5
<1>7. RelayStores(rl, r, S) = [rl EXCEPT !.got = k, !.gap = @ \/ \E s \in S : s > k]
  BY DEF RelayStores
<1> HIDE DEF k
<1>8. ~\E s \in S : s > k
  BY <1>1, <1>6 DEF S
<1> QED
  BY <1>6, <1>7, <1>8 DEF RelayState, S

\* A result after the last event ends the stream where it stands.
LEMMA OnDoneStream ==
  ASSUME IInv, IInv', NEW r \in Run, Live(r), NEW s \in FinalStatus, OnDone(r, s, job[r].seq, "gone"),
         RowsKept(r), UNCHANGED <<events, conn, hello>>, NEW b \in Attempt, StreamAt(b)
  PROVE  StreamAt(b)'
<1> DEFINE a == job[r].attempt
           row == ResultOf(r, s, job[r].seq)
<1>0. a \in Attempt /\ \A x \in Run \ {r} : job'[x] = job[x]
  BY Shapes DEF IInv, JobHasAttempt, Live, OnDone
<1>1. ASSUME registry[b] # r, registry'[b] = registry[b], results'[b] = results[b], relay'[b] = relay[b]
      PROVE  StreamAt(b)'
  <2>1. QuietRows(b) /\ SameView(b)
    BY <1>0, <1>1, Shapes DEF QuietRows, SameView, RowsKept, Registered, HasRow
  <2> QED
    BY <2>1, QuietStream
<1>2. CASE job[r].fenced
  <2>1. registry[a] # r /\ registry[b] # r
    BY <1>0, <1>2, RunAssumption DEF IInv, RegistryBacked, Registered, CurrentJob
  <2>2. registry' = registry /\ results' = results /\ relay' = relay
    BY <1>2, <2>1 DEF OnDone
  <2> QED
    BY <2>1, <2>2, <1>1
<1>3. CASE ~job[r].fenced
  <2>1. registry[a] = r /\ Registered(a)
    BY <1>0, <1>3, RunAssumption DEF IInv, LiveRunIsRegistered, Registered
  <2>2. {k \in {job[r].seq} : k > job[r].seq} = {}
    <3>1. job[r].seq \in Nat
      BY StreamTypes DEF IInv
    <3> QED
      BY <3>1
  <2>3. /\ results' = [results EXCEPT ![a] = row]
        /\ registry' = [registry EXCEPT ![a] = NoRun]
        /\ Delivered(a, RelayResult(RelayStores(relay[a], r, {}), row))
    BY <1>3, <2>1, <2>2 DEF OnDone, SaveResult
  <2>4. relay' = IF conn = "up" THEN [relay EXCEPT ![a] = RelayResult(relay[a], row)] ELSE relay
    BY <2>3, <1>0, Shapes, StoresNothing DEF Delivered
  <2>5. row.seq = job[r].seq
    BY DEF ResultOf
  <2> HIDE DEF row
  <2>6. CASE b # a
    <3>1. registry[b] # r
      BY <1>0, <2>6, OwnAttempt
    <3> QED
      BY <3>1, <2>3, <2>4, <2>6, <1>0, <1>1, Shapes
  <2>7. CASE b = a
    <3>1. SameView(b)
      BY <2>4, <2>7, <1>0, Shapes, StoresKeepLeases DEF SameView
    <3>2. registry'[b] = NoRun /\ results'[b] = row /\ CurrentJob(b) = job[r]
      BY <2>1, <2>3, <2>7, <1>0, Shapes DEF CurrentJob
    <3>3. QuietRows(b)
      BY <3>2, <2>1, <2>5, <2>7, Shapes DEF QuietRows, RowsKept
    <3> QED
      BY <3>1, <3>3, QuietStream
  <2> QED
    BY <2>6, <2>7
<1> QED
  BY <1>2, <1>3

LEMMA EngineExitsStream ==
  ASSUME IInv, IInv', NEW r \in Run, NEW s \in FinalStatus, EngineExits(r, s),
         NEW b \in Attempt, StreamAt(b)
  PROVE  StreamAt(b)'
BY DoneRows, OnDoneStream DEF EngineExits, Live

LEMMA HandleCancelStream ==
  ASSUME IInv, IInv', NEW a \in Attempt, NEW l, HandleCancel(a, l), NEW b \in Attempt, StreamAt(b),
         "late" \notin Faults
  PROVE  StreamAt(b)'
<1> DEFINE r == registry[a]
<1>0. /\ r \in Run /\ Live(r) /\ UNCHANGED <<events, conn, hello>>
  BY Shapes DEF HandleCancel, IInv, RegistryBacked
<1>1. CASE job[r].engine = "starting"
  <2>1. OnDone(r, "cancelled", job[r].seq, "gone") /\ "cancelled" \in FinalStatus
    BY <1>1 DEF HandleCancel, FinalStatus
  <2>2. RowsKept(r)
    BY <1>0, <1>1, <2>1, DoneRows DEF HandleCancel
  <2> QED
    BY <1>0, <2>1, <2>2, OnDoneStream
<1>2. CASE job[r].engine # "starting"
  <2>1. /\ job' = [job EXCEPT ![r].status = "cancelling"]
        /\ attempts' = SetAttemptStatus(attempts, a, "cancelling")
        /\ UNCHANGED <<results, registry, relay>>
    BY <1>2 DEF HandleCancel
  <2>2. \A x \in Run : job'[x].seq = job[x].seq
    BY <1>0, <2>1, Shapes DEF JobState
  <2>3. /\ attempts'[b].lease = attempts[b].lease /\ attempts'[b].run = attempts[b].run
        /\ HasRow(attempts', b) <=> HasRow(attempts, b)
    BY <2>1, Shapes, UpdatesKeepLeases
  <2>4. QuietRows(b) /\ SameView(b)
    BY <2>1, <2>2, <2>3, <1>0, Shapes DEF QuietRows, SameView, Registered, HasRow
  <2> QED
    BY <2>4, QuietStream
<1> QED
  BY <1>1, <1>2

\* The relay after the next event of a registered run: it takes it if it heard of the run.
EventAtRelay(a, r) ==
  IF conn = "up" THEN RelayStores(relay[a], r, {job[r].seq + 1}) ELSE relay[a]

LEMMA EventStored ==
  ASSUME IInv, NEW a \in Attempt, LinkAt(a), StreamAt(a), NEW r \in Run, registry[a] = r, EventFits(r)
  PROVE  LET rl == EventAtRelay(a, r)
         IN /\ rl \in RelayState /\ rl.got \in Nat /\ relay[a].got <= rl.got /\ rl.got <= job[r].seq + 1
            /\ rl.open = relay[a].open /\ rl.base = relay[a].base /\ rl.run = relay[a].run /\ ~rl.gap
            /\ conn = "up" /\ rl.run = r => rl.got = job[r].seq + 1
<1>1. /\ relay[a] \in RelayState /\ relay[a].got \in Nat /\ job[r].seq \in Nat
      /\ Registered(a) /\ CurrentJob(a) = job[r]
      /\ relay[a].got <= job[r].seq /\ ~relay[a].gap /\ job[r].seq < MaxSeq
      /\ relay[a].result.status = "absent"
  BY Shapes, StreamTypes, RunAssumption
  DEF Registered, CurrentJob, StreamAt, LinkAt, EventFits
<1>2. CASE conn = "up" /\ relay[a].run = r
  <2> DEFINE S == {job[r].seq + 1}
             st == RelayStores(relay[a], r, S)
  <2>1. relay[a].got = job[r].seq
    BY <1>1, <1>2 DEF StreamAt
  <2>2. st.got = job[r].seq + 1 /\ st.gap = relay[a].gap
    BY <1>1, <1>2, <2>1, StoresNext
  <2>3. EventAtRelay(a, r) = st
    BY <1>2 DEF EventAtRelay
  <2> HIDE DEF S
  <2>4. st \in RelayState
    BY <1>1, RelayStoresFacts
  <2>5. st.open = relay[a].open /\ st.base = relay[a].base /\ st.run = relay[a].run
    BY <1>1, <2>4, StoresKeepLeases
  <2> HIDE DEF st
  <2> QED
    BY <1>1, <2>1, <2>2, <2>3, <2>4, <2>5
<1>3. CASE ~(conn = "up" /\ relay[a].run = r)
  <2>1. EventAtRelay(a, r) = relay[a]
    BY <1>3 DEF EventAtRelay, RelayStores
  <2> QED
    BY <1>1, <1>3, <2>1
<1> QED
  BY <1>2, <1>3

\* Writing the next event keeps the stream whole, if nothing beyond it counts as emitted.
LEMMA EventWritten ==
  ASSUME IInv, NEW a \in Attempt, LinkAt(a), StreamAt(a), NEW r \in Run, registry[a] = r, EventFits(r),
         events' = InsertEvent(events, a, job[r].seq + 1, r),
         attempts'[a].lease = attempts[a].lease, attempts'[a].run = attempts[a].run,
         HasRow(attempts', a) <=> HasRow(attempts, a),
         relay'[a].got = EventAtRelay(a, r).got, relay'[a].gap = EventAtRelay(a, r).gap,
         relay'[a].open = EventAtRelay(a, r).open, relay'[a].base = EventAtRelay(a, r).base,
         \A t \in 1 .. MaxSeq : Emitted(a, t)' => t <= job[r].seq + 1
  PROVE  /\ \A e \in events'[a] : HasRow(attempts', a) /\ e.run = attempts'[a].run /\ e.seq <= job[r].seq + 1
         /\ InForce(a)' => \A t \in 1 .. MaxSeq : Emitted(a, t)' /\ t > relay'[a].got =>
              [seq |-> t, run |-> attempts'[a].run] \in events'[a]
         /\ ~relay'[a].gap
<1> DEFINE s == job[r].seq + 1
<1>1. /\ Registered(a) /\ CurrentJob(a) = job[r] /\ HasRow(attempts, a) /\ attempts[a].run = r
      /\ job[r].seq \in Nat /\ relay[a].got \in Nat
      /\ \A e \in events[a] : e.seq \in Nat
      /\ \A t \in 1 .. MaxSeq : t \in Nat
  BY StreamTypes, RunAssumption DEF IInv, RegistryBacked, Registered, CurrentJob
<1>2. events'[a] = events[a] \cup {[seq |-> s, run |-> r]}
  BY Shapes DEF InsertEvent
<1>3. /\ relay'[a].got \in Nat /\ relay[a].got <= relay'[a].got /\ ~relay'[a].gap
      /\ relay'[a].open = relay[a].open /\ relay'[a].base = relay[a].base
  BY EventStored
<1>4. \A e \in events'[a] : HasRow(attempts', a) /\ e.run = attempts'[a].run /\ e.seq <= s
  BY <1>1, <1>2 DEF StreamAt
<1>5. ASSUME InForce(a)', NEW t \in 1 .. MaxSeq, Emitted(a, t)', t > relay'[a].got
      PROVE  [seq |-> t, run |-> attempts'[a].run] \in events'[a]
  <2>1. InForce(a)
    BY <1>3, <1>5 DEF InForce, HasRow
  <2>2. CASE t = s
    BY <1>1, <1>2, <2>2
  <2>3. CASE t # s
    <3>1. t <= job[r].seq /\ t > relay[a].got
      BY <1>1, <1>3, <1>5, <2>3
    <3>2. Emitted(a, t)
      BY <1>1, <3>1 DEF Emitted
    <3> QED
      BY <1>2, <2>1, <3>1, <3>2 DEF StreamAt
  <2> QED
    BY <2>2, <2>3
<1> QED
  BY <1>3, <1>4, <1>5

\* ... which is so whether the run goes on or ends with that event.
LEMMA NextEventStream ==
  ASSUME IInv, NEW a \in Attempt, LinkAt(a), StreamAt(a), NEW r \in Run, registry[a] = r, EventFits(r),
         events' = InsertEvent(events, a, job[r].seq + 1, r),
         attempts'[a].lease = attempts[a].lease, attempts'[a].run = attempts[a].run,
         HasRow(attempts', a) <=> HasRow(attempts, a),
         relay'[a].got = EventAtRelay(a, r).got, relay'[a].gap = EventAtRelay(a, r).gap,
         relay'[a].open = EventAtRelay(a, r).open, relay'[a].base = EventAtRelay(a, r).base,
         relay'[a].run = EventAtRelay(a, r).run, conn' = conn,
         \/ registry'[a] = r /\ job'[r].seq = job[r].seq + 1 /\ results'[a] = results[a]
         \/ registry'[a] = NoRun /\ results'[a].seq = job[r].seq + 1
  PROVE  StreamAt(a)'
<1>1. /\ Registered(a) /\ ~HasRow(results, a) /\ job[r].seq \in Nat /\ CurrentJob(a) = job[r]
      /\ \A t \in 1 .. MaxSeq : t \in Nat
  BY StreamTypes, RunAssumption DEF IInv, RegistryBacked, Registered, CurrentJob
<1>2. \A e \in events'[a] : e.seq \in Nat /\ e.seq <= job[r].seq + 1
  <2>1. events'[a] = events[a] \cup {[seq |-> job[r].seq + 1, run |-> r]}
    BY Shapes DEF InsertEvent
  <2>2. \A e \in events[a] : e.seq \in Nat /\ e.seq <= job[r].seq
    BY <1>1, StreamTypes DEF IInv, StreamAt
  <2> QED
    BY <1>1, <2>1, <2>2
<1>3. \A t \in 1 .. MaxSeq : Emitted(a, t)' => t <= job[r].seq + 1
  BY <1>1, <1>2, RunAssumption DEF Emitted, CurrentJob, Registered, HasRow
<1>4. /\ \A e \in events'[a] : HasRow(attempts', a) /\ e.run = attempts'[a].run /\ e.seq <= job[r].seq + 1
      /\ InForce(a)' => \A t \in 1 .. MaxSeq : Emitted(a, t)' /\ t > relay'[a].got =>
           [seq |-> t, run |-> attempts'[a].run] \in events'[a]
      /\ ~relay'[a].gap
  BY <1>3, EventWritten
<1>5. relay'[a].got <= job[r].seq + 1 /\ (conn = "up" /\ relay'[a].run = r => relay'[a].got = job[r].seq + 1)
  BY EventStored
<1>6. registry'[a] # NoRun => registry'[a] = r /\ job'[r].seq = job[r].seq + 1
  OBVIOUS
<1> QED
  BY <1>4, <1>5, <1>6 DEF StreamAt, Registered, CurrentJob, HasRow

LEMMA OnEventStream ==
  ASSUME IInv, IInv', NEW r \in Run, job[r].engine = "spawned", OnEvent(r),
         NEW b \in Attempt, LinkAt(b), StreamAt(b)
  PROVE  StreamAt(b)'
<1> DEFINE a == job[r].attempt
           s == job[r].seq + 1
<1>1. /\ a \in Attempt /\ registry[a] = r /\ EventFits(r) /\ Registered(a) /\ ~HasRow(results, a)
  BY RunAssumption
  DEF IInv, JobHasAttempt, LiveRunIsRegistered, RegistryBacked, Live, Registered, OnEvent, EventFits
<1>2. /\ events' = InsertEvent(events, a, s, r)
      /\ attempts' = RaiseLastSeq(attempts, a, s)
      /\ UNCHANGED <<results, registry, conn, hello>>
      /\ job'[r].seq = s /\ \A x \in Run \ {r} : job'[x] = job[x]
      /\ relay' = IF conn = "up" THEN [relay EXCEPT ![a] = EventAtRelay(a, r)] ELSE relay
  BY Shapes DEF OnEvent, JobState, Delivered, EventAtRelay
<1>3. /\ attempts'[b].lease = attempts[b].lease /\ attempts'[b].run = attempts[b].run
      /\ HasRow(attempts', b) <=> HasRow(attempts, b)
  BY <1>1, <1>2, Shapes, UpdatesKeepLeases DEF HasRow
<1>4. CASE b # a
  <2>1. registry[b] # r
    BY <1>1, <1>4, OwnAttempt
  <2>2. events'[b] = events[b] /\ relay'[b] = relay[b]
    BY <1>1, <1>2, <1>4, Shapes DEF InsertEvent
  <2>3. Registered(b) => job'[registry[b]] = job[registry[b]]
    BY <1>2, <2>1, Shapes
  <2>4. QuietRows(b) /\ SameView(b)
    BY <1>2, <1>3, <2>2, <2>3 DEF QuietRows, SameView, Registered, HasRow
  <2> QED
    BY <2>4, QuietStream
<1>5. CASE b = a
  <2>1. registry[b] = r /\ events' = InsertEvent(events, b, s, r)
    BY <1>1, <1>2, <1>5
  <2>2. relay'[b] = EventAtRelay(b, r)
    BY <1>2, <1>5, Shapes DEF EventAtRelay
  <2> HIDE DEF a
  <2> QED
    BY <1>1, <1>2, <1>3, <2>1, <2>2, NextEventStream
<1> QED
  BY <1>4, <1>5

\* A failure is an event and then a result that names it.
LEMMA EngineFailsStream ==
  ASSUME IInv, IInv', NEW r \in Run, EngineFails(r), NEW b \in Attempt, LinkAt(b), StreamAt(b)
  PROVE  StreamAt(b)'
<1> DEFINE a == job[r].attempt
           s == job[r].seq + 1
           row == ResultOf(r, "failed", s)
           S == {k \in {s} : k > job[r].seq}
           st == RelayStores(relay[a], r, S)
<1>1. a \in Attempt /\ registry[a] = r /\ EventFits(r) /\ RowsKept(r)
  BY FailRows DEF IInv, JobHasAttempt, LiveRunIsRegistered, Live, EngineFails, EventFits
<1>2. /\ events' = InsertEvent(events, a, s, r)
      /\ results' = [results EXCEPT ![a] = row]
      /\ registry' = [registry EXCEPT ![a] = NoRun]
      /\ Delivered(a, RelayResult(st, row))
      /\ UNCHANGED <<conn, hello>>
      /\ \A x \in Run \ {r} : job'[x] = job[x]
  BY <1>1, Shapes DEF EngineFails, EventFits, OnDone, SaveResult
<1>3. row.seq = s
  BY DEF ResultOf
<1>4. S = {s}
  <2>1. job[r].seq \in Nat
    BY StreamTypes DEF IInv
  <2> QED
    BY <2>1
<1>5. relay[a] \in RelayState
  BY <1>1, Shapes
<1> HIDE DEF S, row
<1>6. st \in RelayState
  BY <1>5, RelayStoresFacts
<1> HIDE DEF st
<1>7. /\ RelayResult(st, row).got = st.got /\ RelayResult(st, row).gap = st.gap
      /\ RelayResult(st, row).open = st.open /\ RelayResult(st, row).base = st.base
      /\ RelayResult(st, row).run = st.run
  BY <1>6, StoresKeepLeases
<1>8. CASE b # a
  <2>1. registry[b] # r
    BY <1>1, <1>8, OwnAttempt
  <2>2. /\ events'[b] = events[b] /\ relay'[b] = relay[b] /\ results'[b] = results[b]
        /\ registry'[b] = registry[b]
    BY <1>1, <1>2, <1>8, Shapes DEF InsertEvent, Delivered
  <2>3. Registered(b) => job'[registry[b]] = job[registry[b]]
    BY <1>2, <2>1, Shapes
  <2>4. QuietRows(b) /\ SameView(b)
    BY <1>1, <1>2, <2>2, <2>3 DEF QuietRows, SameView, Registered, RowsKept, HasRow
  <2> QED
    BY <2>4, QuietStream
<1>9. CASE b = a
  <2>1. /\ registry[b] = r /\ events' = InsertEvent(events, b, s, r)
        /\ registry'[b] = NoRun /\ results'[b].seq = s
    BY <1>1, <1>2, <1>3, <1>9, Shapes
  <2>2. relay' = IF conn = "up" THEN [relay EXCEPT ![b] = RelayResult(st, row)] ELSE relay
    BY <1>2, <1>9 DEF Delivered
  <2>3. EventAtRelay(b, r) = IF conn = "up" THEN st ELSE relay[b]
    BY <1>4, <1>9 DEF EventAtRelay, st
  <2>4. /\ relay'[b].got = EventAtRelay(b, r).got /\ relay'[b].gap = EventAtRelay(b, r).gap
        /\ relay'[b].open = EventAtRelay(b, r).open /\ relay'[b].base = EventAtRelay(b, r).base
        /\ relay'[b].run = EventAtRelay(b, r).run
    BY <1>7, <2>2, <2>3, Shapes
  <2>5. /\ attempts'[b].lease = attempts[b].lease /\ attempts'[b].run = attempts[b].run
        /\ HasRow(attempts', b) <=> HasRow(attempts, b)
    BY <1>1 DEF RowsKept
  <2> HIDE DEF a
  <2> QED
    BY <1>1, <1>2, <2>1, <2>4, <2>5, NextEventStream
<1> QED
  BY <1>8, <1>9

-----------------------------------------------------------------------------
(* The stream: assignments and leases.                                     *)

LEMMA AssignDuplicateStream ==
  ASSUME IInv, IInv', NEW a \in Attempt, NEW l \in 1 .. MaxLease, AssignDuplicate(a, l),
         LinkAt(a), NEW b \in Attempt, StreamAt(b)
  PROVE  StreamAt(b)'
<1> DEFINE i == Issued(a, l)
           acc == RelayAccepts(i, attempts[a].run)
           fgt == RelayForgets(i)
<1>0. UNCHANGED <<attempts, events, results, registry, job, conn, hello>>
  BY DEF AssignDuplicate, store, memory
<1>1. /\ Existing(a).run = attempts[a].run /\ Existing(a).lease = attempts[a].lease
      /\ HasRow(attempts, a) /\ attempts[a].run # NoRun
      /\ Registered(a) => registry[a] = attempts[a].run
      /\ relay[a].run # NoRun => attempts[a].run = relay[a].run
  BY DEF AssignDuplicate, Known, Existing, IInv, RegistryBacked, RelayRunKnown, Registered, LinkAt
<1>2. /\ i \in RelayState /\ i.open /\ i.run = relay[a].run /\ i.got = relay[a].got
      /\ relay[a].open => i.base = relay[a].base
      /\ l = attempts[a].lease => relay[a].open
  BY AssignFacts DEF AssignDuplicate
<1>3. i.gap = relay[a].gap /\ (~relay[a].open => i.base = l /\ l = relay[a].lease + 1)
  BY Shapes DEF Issued, RelayState, AssignDuplicate, AssignedLease
<1>4. relay' = [relay EXCEPT ![a] = IF conn # "up" THEN i ELSE IF attempts[a].lease = l THEN acc ELSE fgt]
  BY <1>1 DEF AssignDuplicate, AssignReplied
<1>5. QuietRows(b)
  BY <1>0 DEF QuietRows, HasRow
<1> HIDE DEF i
<1>6. CASE b # a
  <2>1. SameView(b)
    BY <1>4, <1>6, Shapes DEF SameView
  <2> QED
    BY <2>1, <1>5, QuietStream
<1>7. CASE b = a /\ conn # "up" /\ relay[a].open
  <2>1. SameView(b)
    BY <1>2, <1>3, <1>4, <1>7, Shapes DEF SameView
  <2> QED
    BY <2>1, <1>5, QuietStream
<1>8. CASE b = a /\ conn # "up" /\ ~relay[a].open
  <2>1. relay'[b] = i
    BY <1>4, <1>8, Shapes
  <2>2. ~InForce(b)'
    <3>1. attempts[a].lease \in Nat /\ relay[a].lease \in Nat /\ attempts[a].lease <= relay[a].lease
      BY AttemptTypes DEF IInv, LinkAt
    <3>2. relay'[b].base = relay[a].lease + 1 /\ attempts'[b].lease = attempts[a].lease
      BY <1>0, <1>3, <1>8, <2>1
    <3> QED
      BY <3>1, <3>2 DEF InForce
  <2>3. relay'[b].got = relay[b].got /\ relay'[b].gap = relay[b].gap /\ conn' # "up"
    BY <1>0, <1>2, <1>3, <1>8, <2>1
  <2>4. relay[b].got \in Nat
    BY StreamTypes DEF IInv
  <2>5. StreamStays(b)
    BY <1>5, <2>2, <2>3, <2>4 DEF StreamStays, QuietRows
  <2> QED
    BY <2>5, StreamKept
<1>9. CASE b = a /\ conn = "up" /\ attempts[a].lease # l
  <2>1. LostView(b)
    BY <1>2, <1>4, <1>9, Shapes, LostFacts DEF LostView
  <2> QED
    BY <2>1, <1>5, QuietStream
<1>10. CASE b = a /\ conn = "up" /\ attempts[a].lease = l
  <2>1. relay'[b] = acc /\ relay[b].open
    BY <1>2, <1>4, <1>10, Shapes
  <2>2. CASE relay[a].run = attempts[a].run
    <3>1. acc = i
      BY <1>2, <2>2 DEF RelayAccepts
    <3>2. SameView(b)
      BY <1>2, <1>3, <1>10, <2>1, <3>1 DEF SameView
    <3> QED
      BY <3>2, <1>5, QuietStream
  <2>3. CASE relay[a].run # attempts[a].run
    <3>1. relay[b].run = NoRun /\ relay[b].got = 0 /\ ~Registered(b)
      BY <1>1, <1>10, <2>1, <2>3 DEF LinkAt
    <3>2. acc.got = 0 /\ acc.gap = FALSE /\ acc.open /\ acc.base = relay[a].base
      BY <1>2, <1>10, <2>1, <2>3 DEF RelayAccepts, RelayState
    <3> HIDE DEF acc
    <3>3. InForce(b)' => InForce(b) /\ relay'[b].got = relay[b].got
      BY <1>0, <1>10, <2>1, <3>1, <3>2 DEF InForce, HasRow
    <3>4. StreamStays(b)
      BY <1>0, <1>5, <2>1, <3>1, <3>2, <3>3 DEF StreamStays, QuietRows, Registered
    <3> QED
      BY <3>4, StreamKept
  <2> QED
    BY <2>2, <2>3
<1> QED
  BY <1>6, <1>7, <1>8, <1>9, <1>10

LEMMA AssignRefusedStream ==
  ASSUME IInv, IInv', NEW a \in Attempt, NEW l \in 1 .. MaxLease, AssignRefused(a, l),
         NEW b \in Attempt, StreamAt(b)
  PROVE  StreamAt(b)'
<1>0. UNCHANGED <<attempts, events, results, registry, job, conn, hello>>
  BY DEF AssignRefused, store, memory
<1>1. relay' = [relay EXCEPT ![a] = IF conn # "up" THEN Issued(a, l) ELSE RelayForgets(Issued(a, l))]
  BY DEF AssignRefused, AssignReplied
<1>2. CASE b # a
  <2>1. QuietRows(b) /\ SameView(b)
    BY <1>0, <1>1, <1>2, Shapes DEF QuietRows, SameView, HasRow
  <2> QED
    BY <2>1, QuietStream
<1>3. CASE b = a
  <2>1. ~HasRow(attempts, b) /\ ~Registered(b) /\ events[b] = {}
    BY <1>3 DEF AssignRefused, Known, StreamAt
  <2>2. Issued(a, l).gap = relay[a].gap /\ ~RelayForgets(Issued(a, l)).gap
    BY Shapes DEF Issued, RelayState, RelayForgets, RelayIdle
  <2>3. StreamEnds(b)
    BY <1>0, <1>1, <1>3, <2>1, <2>2, Shapes DEF StreamEnds, HasRow, Registered
  <2> QED
    BY <2>3, StreamKept
<1> QED
  BY <1>2, <1>3

LEMMA AssignStartsStream ==
  ASSUME IInv, IInv', NEW a \in Attempt, NEW l \in 1 .. MaxLease, NEW r \in Run,
         AssignStarts(a, l, r), LinkAt(a), NEW b \in Attempt, StreamAt(b)
  PROVE  StreamAt(b)'
<1>0. /\ UNCHANGED <<events, results, conn, hello>>
      /\ registry' = [registry EXCEPT ![a] = r] /\ job'[r].seq = 0
      /\ \A x \in Run \ {r} : job'[x] = job[x]
      /\ relay' = [relay EXCEPT ![a] = IF conn # "up" THEN Issued(a, l) ELSE RelayAccepts(Issued(a, l), r)]
  BY Shapes DEF AssignStarts, AssignReplied, NoJob
<1>1. ~HasRow(attempts, a) /\ ~HasRow(results, a) /\ ~Registered(a)
  BY DEF AssignStarts, Known, IInv, ResultBacked
<1>2. CASE b # a
  <2>1. registry[b] # r
    BY <1>2, OwnAttempt DEF AssignStarts
  <2>2. attempts'[b] = attempts[b]
    <3>1. CreateAttempt(attempts, a, l, r)[b] = attempts[b]
      BY <1>2, Shapes DEF CreateAttempt
    <3>2. attempts'[b] = CreateAttempt(attempts, a, l, r)[b]
      BY <1>2 DEF AssignStarts, SetAttemptStatus
    <3> QED
      BY <3>1, <3>2
  <2>3. QuietRows(b) /\ SameView(b)
    BY <1>0, <1>2, <2>1, <2>2, Shapes DEF QuietRows, SameView, Registered, HasRow
  <2> QED
    BY <2>3, QuietStream
<1>3. CASE b = a
  <2>1. events'[b] = {} /\ ~HasRow(results', b)
    BY <1>0, <1>1, <1>3 DEF StreamAt, HasRow
  <2>2. relay[a].run = NoRun /\ relay[a].got = 0
    BY <1>1 DEF AssignStarts, AssignedLease, IInv, RelayRunKnown, LinkAt
  <2>3. relay'[b].got = 0 /\ ~relay'[b].gap
    <3>0. Issued(a, l) \in RelayState /\ relay[a] \in RelayState
      BY Shapes, AssignFacts DEF AssignStarts
    <3>1. Issued(a, l).got = 0 /\ ~Issued(a, l).gap /\ Issued(a, l) \in RelayState
      BY <1>3, <2>2, <3>0 DEF Issued, RelayState, StreamAt
    <3>2. RelayAccepts(Issued(a, l), r).got = 0 /\ ~RelayAccepts(Issued(a, l), r).gap
      BY <3>1 DEF RelayAccepts, RelayState
    <3> QED
      BY <1>0, <1>3, <3>1, <3>2, Shapes
  <2>4. registry'[b] = r /\ job'[r].seq = 0
    BY <1>0, <1>3, Shapes
  <2>5. \A s \in 1 .. MaxSeq : ~Emitted(b, s)'
    BY <2>1, <2>4 DEF Emitted, Registered, CurrentJob
  <2> QED
    BY <2>1, <2>3, <2>4, <2>5 DEF StreamAt, Registered, CurrentJob
<1> QED
  BY <1>2, <1>3

LEMMA HandleLeaseGrantedStream ==
  ASSUME IInv, IInv', NEW a \in Attempt, HandleLeaseGranted(a), LinkAt(a),
         NEW b \in Attempt, StreamAt(b)
  PROVE  StreamAt(b)'
<1> DEFINE l == relay[a].lease + 1
<1>0. /\ UNCHANGED <<events, results, registry, conn, hello>>
      /\ relay' = [relay EXCEPT ![a].lease = l] /\ relay[a].run # NoRun
      /\ \A x \in Run : job'[x].seq = job[x].seq
      /\ attempts' = attempts \/ attempts' = SetAttemptLease(attempts, a, l)
  BY Shapes DEF HandleLeaseGranted, JobState
<1> HIDE DEF l
<1>1. SameView(b)
  BY <1>0, Shapes DEF SameView, RelayState
<1>2. /\ attempts'[b].run = attempts[b].run /\ (HasRow(attempts', b) <=> HasRow(attempts, b))
      /\ b # a => attempts'[b].lease = attempts[b].lease
  BY <1>0, Shapes DEF SetAttemptLease, HasRow, AttemptRow
<1>3. b = a /\ HasRow(attempts, b) => InForce(b)
  BY <1>0 DEF LinkAt, InForce
<1>4. InForce(b)' => InForce(b)
  BY <1>1, <1>2, <1>3 DEF InForce, SameView, HasRow
<1>5. relay[b].got \in Nat /\ (Registered(b) => registry[b] \in Run)
  BY Shapes, StreamTypes DEF IInv
<1>6. StreamStays(b)
  BY <1>0, <1>1, <1>2, <1>4, <1>5 DEF StreamStays, SameView, Registered, HasRow
<1> QED
  BY <1>6, StreamKept

-----------------------------------------------------------------------------
(* The stream: the resume handshake.                                       *)

\* The rows resent after the relay's prefix have no hole, and reach the run's last event.
LEMMA ResentIsWhole ==
  ASSUME IInv, NEW b \in Attempt, LinkAt(b), StreamAt(b), InForce(b),
         NEW g, g = relay[b].got, NEW S, S = {e.seq : e \in EventsAfter(events, b, g)}
  PROVE  /\ Contiguous(g, S) \in Nat /\ g <= Contiguous(g, S) /\ \A s \in S : s <= Contiguous(g, S)
         /\ Registered(b) => Contiguous(g, S) = CurrentJob(b).seq
<1>1. /\ g \in Nat /\ g \in 0 .. MaxSeq /\ MaxSeq \in Nat
      /\ S = {e.seq : e \in {x \in events[b] : x.seq > g}}
      /\ \A s \in S : s \in 1 .. MaxSeq /\ s \in Nat
  BY StreamTypes, BoundAssumption DEF IInv, EventsAfter
<1>2. ASSUME NEW t \in 1 .. MaxSeq, Emitted(b, t), t > g
      PROVE  t \in S
  <2>1. [seq |-> t, run |-> attempts[b].run] \in events[b]
    BY <1>1, <1>2 DEF StreamAt
  <2> QED
    BY <1>1, <1>2, <2>1
<1>3. ASSUME NEW m \in 0 .. MaxSeq, \A t \in 1 .. MaxSeq : t <= m => Emitted(b, t)
      PROVE  (g + 1) .. m \subseteq S
  <2> SUFFICES ASSUME NEW t \in (g + 1) .. m
               PROVE  t \in S
    OBVIOUS
  <2>1. t \in 1 .. MaxSeq /\ t <= m /\ t > g
    BY <1>1, BoundAssumption
  <2> QED
    BY <1>2, <1>3, <2>1
<1>4. Contiguous(g, S) \in Nat
  BY <1>1, ContiguousType, BoundAssumption
<1>5. ASSUME NEW m \in 0 .. MaxSeq, g <= m, \A t \in 1 .. MaxSeq : t <= m => Emitted(b, t)
      PROVE  m <= Contiguous(g, S)
  BY <1>1, <1>3, <1>5, ContiguousBounds
<1>6. g <= Contiguous(g, S)
  <2>1. (g + 1) .. g \subseteq S
    BY <1>1
  <2> QED
    BY <1>1, <2>1, ContiguousBounds
<1>7. ASSUME NEW s \in S
      PROVE  s <= Contiguous(g, S)
  <2>1. PICK e \in events[b] : e.seq = s /\ s > g
    BY <1>1
  <2>2. \A t \in 1 .. MaxSeq : t <= s => Emitted(b, t)
    BY <2>1 DEF Emitted
  <2>3. s \in 0 .. MaxSeq /\ g <= s
    BY <1>1, <2>1
  <2> QED
    BY <1>5, <2>2, <2>3
<1>8. ASSUME Registered(b)
      PROVE  Contiguous(g, S) = CurrentJob(b).seq
  <2> DEFINE q == CurrentJob(b).seq
  <2>1. q \in 0 .. MaxSeq /\ q \in Nat
    BY <1>8, Shapes, StreamTypes DEF IInv, CurrentJob
  <2>2. g <= q
    BY <1>8 DEF StreamAt
  <2>3. \A t \in 1 .. MaxSeq : t <= q => Emitted(b, t)
    BY <1>8 DEF Emitted
  <2>4. \A s \in S : s <= q
    BY <1>1, <1>8 DEF StreamAt
  <2> HIDE DEF q
  <2>5. q <= Contiguous(g, S)
    BY <1>5, <2>1, <2>2, <2>3
  <2>6. Contiguous(g, S) <= q
    BY <1>1, <2>1, <2>2, <2>4, ContiguousBounds
  <2> QED
    BY <1>4, <2>1, <2>5, <2>6 DEF q
<1> QED
  BY <1>4, <1>6, <1>7, <1>8

LEMMA ResumeStream ==
  ASSUME IInv, conn = "hello", NEW b \in Attempt, LinkAt(b), StreamAt(b),
         NEW d \in Directive, DirectiveFor(b, d), d.act \in Resumes \cup Resends
  PROVE  LET rl == ResumedRelay(b, d)
         IN /\ InForce(b) /\ rl.got \in Nat /\ relay[b].got <= rl.got /\ ~rl.gap
            /\ Registered(b) => rl.got = CurrentJob(b).seq
<1> DEFINE known == RelayAccepts(relay[b], attempts[b].run)
           leased == IF d.lease # 0 THEN [known EXCEPT !.lease = d.lease] ELSE known
           S == {e.seq : e \in EventsAfter(events, b, leased.got)}
           streamed == IF d.act \in Resumes THEN RelayStores(leased, leased.run, S) ELSE leased
<1>0. /\ relay[b] \in RelayState /\ relay[b].got \in Nat /\ d.lease \in LeaseId /\ d.act \notin Drops
      /\ attempts[b].run \in RunRef
  <2>1. relay[b] \in RelayState /\ d.lease \in LeaseId /\ d.act \notin Drops /\ attempts[b] \in AttemptRow
    BY DEF IInv, TypeOK, Directive, Resumes, Resends, Drops
  <2> QED
    BY <2>1, StreamTypes DEF IInv, AttemptRow
<1>1. /\ relay[b].open /\ relay[b].base <= attempts[b].lease
      /\ b \in hello.active \cup hello.pending /\ (d.act \in Resends <=> b \in hello.pending)
  <2>1. ~(attempts[b].lease < relay[b].base)
    BY <1>0 DEF DirectiveFor, Resumes, Resends, Drops
  <2> QED
    BY <1>0, <2>1, AttemptTypes DEF DirectiveFor, Resumes, Resends, Drops, IInv
<1>2. InForce(b)
  BY <1>1 DEF InForce, IInv, HelloBacked, ResultBacked
<1>3. known \in RelayState /\ known.got = relay[b].got /\ ~known.gap
      /\ (relay[b].result.status = "absent" => known.result.status = "absent")
  <2>1. relay[b].run # NoRun => relay[b].run = attempts[b].run
    BY <1>2 DEF IInv, RelayRunKnown, InForce
  <2>2. relay[b].run = NoRun => relay[b].got = 0
    BY DEF LinkAt
  <2>3. known \in RelayState
    BY <1>0, RelayAcceptsFacts
  <2> QED
    BY <1>0, <2>1, <2>2, <2>3 DEF RelayAccepts, RelayState, StreamAt, NoResult
<1> HIDE DEF known
<1>4. leased \in RelayState /\ leased.got = relay[b].got /\ ~leased.gap
      /\ (relay[b].result.status = "absent" => leased.result.status = "absent")
  BY <1>0, <1>3 DEF RelayState
<1> HIDE DEF leased
<1>5. S = {e.seq : e \in EventsAfter(events, b, relay[b].got)}
  BY <1>4
<1> HIDE DEF S
<1>6. /\ Contiguous(relay[b].got, S) \in Nat /\ relay[b].got <= Contiguous(relay[b].got, S)
      /\ \A s \in S : s <= Contiguous(relay[b].got, S)
      /\ Registered(b) => Contiguous(relay[b].got, S) = CurrentJob(b).seq
  BY <1>2, <1>5, ResentIsWhole
<1>7. RelayStores(leased, leased.run, S) \in RelayState
  BY <1>4, RelayStoresFacts
<1>8. /\ RelayStores(leased, leased.run, S).got \in Nat
      /\ relay[b].got <= RelayStores(leased, leased.run, S).got
      /\ ~RelayStores(leased, leased.run, S).gap
      /\ Registered(b) => RelayStores(leased, leased.run, S).got = CurrentJob(b).seq
  <2>1. CASE leased.result.status # "absent"
    <3>1. RelayStores(leased, leased.run, S) = leased
      BY <2>1 DEF RelayStores
    <3>2. ~Registered(b)
      BY <1>4, <2>1 DEF LinkAt
    <3> QED
      BY <1>0, <1>4, <3>1, <3>2
  <2>2. CASE leased.result.status = "absent"
    <3> DEFINE k == Contiguous(relay[b].got, S)
    <3>1. RelayStores(leased, leased.run, S) = [leased EXCEPT !.got = k, !.gap = @ \/ \E s \in S : s > k]
      BY <1>4, <2>2 DEF RelayStores
    <3>2. ~\E s \in S : s > k
      <4>1. \A s \in S : s \in Nat
        BY <1>5, StreamTypes DEF IInv, EventsAfter
      <4> QED
        BY <4>1, <1>6
    <3> HIDE DEF k
    <3>3. RelayStores(leased, leased.run, S).got = k /\ ~RelayStores(leased, leased.run, S).gap
      BY <1>4, <3>1, <3>2 DEF RelayState
    <3> QED
      BY <3>3, <1>6 DEF k
  <2> QED
    BY <2>1, <2>2
<1>9. Registered(b) => d.act \in Resumes
  BY <1>1 DEF IInv, RegistryBacked, HelloBacked
<1>10. /\ streamed \in RelayState /\ streamed.got \in Nat /\ relay[b].got <= streamed.got /\ ~streamed.gap
       /\ Registered(b) => streamed.got = CurrentJob(b).seq
  BY <1>0, <1>4, <1>7, <1>8, <1>9
<1>11. ResumedRelay(b, d) = IF d.act \in Resends /\ HasRow(results, b)
                            THEN RelayResult(streamed, ResumedResult(b, d)) ELSE streamed
  BY DEF ResumedRelay, Resumes, Resends, known, leased, S
<1> HIDE DEF streamed
<1>12. ResumedRelay(b, d).got = streamed.got /\ ResumedRelay(b, d).gap = streamed.gap
  BY <1>10, <1>11, StoresKeepLeases
<1> QED
  BY <1>2, <1>10, <1>12

LEMMA HelloAcceptedStream ==
  ASSUME IInv, IInv', HelloAccepted, NEW b \in Attempt, LinkAt(b), StreamAt(b)
  PROVE  StreamAt(b)'
<1>1. PICK dir \in [Attempt -> Directive] :
        /\ \A a \in Attempt : DirectiveFor(a, dir[a])
        /\ attempts' = [a \in Attempt |-> ResumedRow(a, dir[a])]
        /\ events' = [a \in Attempt |-> ResumedEvents(a, dir[a])]
        /\ results' = [a \in Attempt |-> ResumedResult(a, dir[a])]
        /\ registry' = [a \in Attempt |-> IF dir[a].act \in Drops THEN NoRun ELSE registry[a]]
        /\ job' = [r \in Run |-> IF job[r].attempt \in Attempt /\ registry[job[r].attempt] = r
                                 THEN ResumedJob(r, dir[job[r].attempt]) ELSE job[r]]
        /\ relay' = [a \in Attempt |-> ResumedRelay(a, dir[a])]
  BY DEF HelloAccepted
<1> DEFINE d == dir[b]
<1>2. /\ d \in Directive /\ DirectiveFor(b, d) /\ attempts'[b] = ResumedRow(b, d)
      /\ events'[b] = ResumedEvents(b, d)
      /\ results'[b] = ResumedResult(b, d) /\ relay'[b] = ResumedRelay(b, d)
      /\ registry'[b] = IF d.act \in Drops THEN NoRun ELSE registry[b]
      /\ conn = "hello" /\ conn' = "up"
  BY <1>1 DEF HelloAccepted
<1>3. Registered(b) => registry[b] \in Run /\ job'[registry[b]] = ResumedJob(registry[b], d)
  <2>1. Registered(b) => registry[b] \in Run /\ job[registry[b]].attempt = b
    BY Shapes DEF IInv, RegistryBacked, CurrentJob
  <2>2. registry[b] \in Run /\ job[registry[b]].attempt = b =>
          job'[registry[b]] = ResumedJob(registry[b], d)
    BY <1>1
  <2> QED
    BY <2>1, <2>2
<1> HIDE DEF d
<1>4. CASE d.act \in Resumes \cup Resends
  <2>0. d.act \notin Drops
    BY <1>4 DEF Resumes, Resends, Drops
  <2>1. /\ InForce(b) /\ relay'[b].got \in Nat /\ relay[b].got <= relay'[b].got /\ ~relay'[b].gap
        /\ Registered(b) => relay'[b].got = CurrentJob(b).seq
    BY <1>2, <1>4, ResumeStream
  <2>2. /\ events'[b] = events[b] /\ registry'[b] = registry[b]
        /\ attempts'[b].run = attempts[b].run /\ (HasRow(attempts', b) <=> HasRow(attempts, b))
    BY <1>2, <2>0, Shapes, ResumedRowFacts DEF ResumedEvents, HasRow
  <2>3. HasRow(results', b) => HasRow(results, b) /\ results'[b].seq = results[b].seq
    <3>1. results[b] \in ResultRow
      BY Shapes
    <3>2. ResumedResult(b, d).status = results[b].status
      BY <1>2, <2>0, Shapes, ResumedResultFacts
    <3>3. UpdateResult(results, b, d.lease)[b].seq = results[b].seq
      BY <3>1, Shapes DEF UpdateResult, ResultRow
    <3>4. ResumedResult(b, d).seq = results[b].seq
      BY <3>3, <2>0 DEF ResumedResult
    <3> QED
      BY <1>2, <3>2, <3>4 DEF HasRow
  <2>4. Registered(b) => job'[registry[b]].seq = job[registry[b]].seq
    BY <1>3, <1>4, Shapes DEF ResumedJob, JobState, Resumes, Resends
  <2>5. \A t \in 1 .. MaxSeq : Emitted(b, t)' => Emitted(b, t)
    BY <2>2, <2>3, <2>4 DEF Emitted, Registered, CurrentJob, HasRow
  <2>6. ASSUME NEW t \in 1 .. MaxSeq, Emitted(b, t)', t > relay'[b].got
        PROVE  [seq |-> t, run |-> attempts'[b].run] \in events'[b]
    <3>1. t > relay[b].got
      BY <2>1, <2>6, StreamTypes DEF IInv
    <3> QED
      BY <3>1, <2>1, <2>2, <2>5, <2>6 DEF StreamAt
  <2>7. \A e \in events'[b] : /\ HasRow(attempts', b) /\ e.run = attempts'[b].run
                              /\ Registered(b)' => e.seq <= CurrentJob(b)'.seq
    BY <2>2, <2>4 DEF StreamAt, Registered, CurrentJob, HasRow
  <2>8. Registered(b)' => relay'[b].got = CurrentJob(b)'.seq
    BY <2>1, <2>2, <2>4 DEF Registered, CurrentJob
  <2>9. Registered(b)' => relay'[b].got <= CurrentJob(b)'.seq
    BY <2>1, <2>8
  <2> QED
    BY <2>1, <2>6, <2>7, <2>8, <2>9 DEF StreamAt, HasRow
<1>5. CASE d.act \in Drops
  <2>1. attempts'[b] = NoRow /\ events'[b] = {} /\ registry'[b] = NoRun
    BY <1>2, <1>5 DEF ResumedRow, ResumedEvents
  <2>2. relay'[b] = RelayForgets(relay[b]) \/ relay'[b] = [relay[b] EXCEPT !.closed = TRUE]
    BY <1>2, <1>5 DEF ResumedRelay, Drops, Resumes, Resends
  <2>3. relay'[b].gap => relay[b].gap
    BY <2>2, Shapes, LostFacts DEF RelayState
  <2>4. StreamEnds(b)
    BY <2>1, <2>3 DEF StreamEnds, HasRow, NoRow
  <2> QED
    BY <2>4, StreamKept
<1>6. CASE d.act = "none"
  <2>1. b \notin hello.active \cup hello.pending
    BY <1>2, <1>6 DEF DirectiveFor, Resumes, Resends, Drops
  <2>2. ~Registered(b)
    BY <2>1, <1>2 DEF LinkAt
  <2>3. /\ relay'[b] = relay[b] /\ registry'[b] = registry[b] /\ events'[b] = events[b]
        /\ attempts'[b] = attempts[b] /\ results'[b] = results[b]
    BY <1>2, <1>6
    DEF ResumedRelay, ResumedRow, ResumedEvents, ResumedResult, Adopts, Resumes, Resends, Drops
  <2>4. StreamStays(b)
    BY <2>2, <2>3 DEF StreamStays, Registered, HasRow, InForce
  <2> QED
    BY <2>4, StreamKept
<1> QED
  BY <1>2, <1>4, <1>5, <1>6 DEF Directive

-----------------------------------------------------------------------------
(* The stream: all steps together.                                         *)

\* Without the fault "late" no run that is done calls back.
LEMMA NoLateStep ==
  ASSUME TypeOK, NoLate, [Next]_vars, Faults \subseteq {"crash"}
  PROVE  NoLate'
<1>0. job \in [Run -> JobState] /\ "late" \notin Faults /\ "torn" \notin Faults
      /\ \A a \in Attempt : Registered(a) => registry[a] \in Run
  BY DEF TypeOK, Registered, RunRef
<1>1. NoJob.engine # "late" /\ SpentJob.engine # "late"
  BY DEF NoJob, SpentJob
<1>2. ASSUME NEW r \in Run, NEW s, NEW n, OnDone(r, s, n, "gone")
      PROVE  NoLate'
  BY <1>0, <1>1, <1>2 DEF OnDone, NoLate
<1>3. ASSUME NEW r \in Run, OnEvent(r)
      PROVE  NoLate'
  BY <1>0, <1>3 DEF OnEvent, NoLate, JobState
<1>4. ASSUME NEW a \in Attempt, Inbound(a)
      PROVE  NoLate'
  <2>1. ASSUME NEW l \in 1 .. MaxLease, AssignDuplicate(a, l) \/ AssignRefused(a, l) \/ HandleResultAck(a, l)
        PROVE  NoLate'
    BY <2>1 DEF AssignDuplicate, AssignRefused, HandleResultAck, memory, NoLate
  <2>2. ASSUME NEW l \in 1 .. MaxLease, NEW r \in Run, AssignStarts(a, l, r)
        PROVE  NoLate'
    BY <2>2, <1>0 DEF AssignStarts, NoJob, NoLate
  <2>3. ASSUME NEW l \in 1 .. MaxLease, NEW n \in 1 .. MaxSeq, HandleStreamAck(a, l, n)
        PROVE  NoLate'
    BY <2>3, <1>0 DEF HandleStreamAck, NoLate, JobState
  <2>4. ASSUME NEW l \in 1 .. MaxLease, HandleCancel(a, l)
        PROVE  NoLate'
    <3>1. registry[a] \in Run
      BY <2>4, <1>0 DEF HandleCancel
    <3> QED
      BY <2>4, <3>1, <1>0, <1>2 DEF HandleCancel, NoLate, JobState
  <2>5. CASE HandleLeaseGranted(a)
    BY <2>5, <1>0 DEF HandleLeaseGranted, NoLate, JobState
  <2>6. CASE HandleRevoke(a)
    BY <2>6, <1>0, <1>1 DEF HandleRevoke, Fence, memory, NoLate, JobState
  <2> QED
    BY <1>4, <2>1, <2>2, <2>3, <2>4, <2>5, <2>6 DEF Inbound
<1>5. ASSUME NEW r \in Run, Engine(r)
      PROVE  NoLate'
  <2>1. CASE OverlapExpires(r) \/ EngineSpawns(r) \/ EngineLateClose(r)
    BY <2>1, <1>0, <1>1 DEF OverlapExpires, EngineSpawns, EngineLateClose, NoLate, JobState
  <2>2. CASE EngineFails(r) \/ \E s \in FinalStatus : EngineExits(r, s)
    BY <2>2, <1>2 DEF EngineFails, EngineExits
  <2>3. CASE EngineStdout(r) \/ EngineStderr(r) \/ EngineLateOutput(r)
    BY <2>3, <1>3 DEF EngineStdout, EngineStderr, EngineLateOutput
  <2> QED
    BY <1>0, <1>5, <2>1, <2>2, <2>3 DEF Engine, EngineTimesOut
<1>6. CASE HelloAccepted
  <2>1. ASSUME NEW r \in Run, NEW d
        PROVE  ResumedJob(r, d).engine # "late"
    BY <1>0, <1>1 DEF ResumedJob, Fence, NoLate, JobState
  <2> QED
    BY <1>6, <2>1 DEF HelloAccepted, NoLate
<1>7. CASE Session /\ ~HelloAccepted
  BY <1>7 DEF Session, Dial, HandshakeFails, LinkBreaks, Disconnect, RelayGivesUp, ResultAckLost,
     memory, NoLate
<1>8. CASE Crash \/ \E r \in Run : EventKeyThrows(r)
  BY <1>8, <1>1 DEF Crash, EventKeyThrows, Dies, NoLate
<1>9. CASE UNCHANGED vars
  BY <1>9 DEF vars, NoLate
<1> QED
  BY <1>0, <1>4, <1>5, <1>6, <1>7, <1>8, <1>9 DEF Next

LEMMA AttemptStream ==
  ASSUME IInv, IInv', LinkInv, NoLate, [Next]_vars, Faults \subseteq {"crash"},
         \A a \in Attempt : StreamAt(a), NEW b \in Attempt
  PROVE  StreamAt(b)'
<1>0. (\A a \in Attempt : LinkAt(a)) /\ "late" \notin Faults
  BY LinkSplit
<1>1. ASSUME NEW a \in Attempt, Inbound(a)
      PROVE  StreamAt(b)'
  BY <1>0, <1>1, AssignDuplicateStream, AssignRefusedStream, AssignStartsStream, HandleStreamAckStream,
     HandleResultAckStream, HandleCancelStream, HandleLeaseGrantedStream, HandleRevokeStream
  DEF Inbound
<1>2. ASSUME NEW r \in Run, Engine(r)
      PROVE  StreamAt(b)'
  <2>1. CASE EngineStdout(r) \/ EngineStderr(r)
    BY <1>0, <2>1, OnEventStream DEF EngineStdout, EngineStderr
  <2>2. ~EngineLateOutput(r) /\ ~EngineTimesOut(r)
    BY DEF NoLate, EngineLateOutput, EngineTimesOut
  <2> QED
    BY <1>0, <1>2, <2>1, <2>2, QuietEngineStream, EngineFailsStream, EngineExitsStream DEF Engine
<1>3. CASE Session
  BY <1>0, <1>3, HelloAcceptedStream, ConnectionStream DEF Session
<1>4. CASE Crash \/ \E r \in Run : EventKeyThrows(r)
  BY <1>4, CrashStream
<1>5. CASE UNCHANGED vars
  BY <1>5 DEF vars, StreamAt, InForce, Emitted, Registered, CurrentJob, HasRow
<1> QED
  BY <1>1, <1>2, <1>3, <1>4, <1>5 DEF Next

LEMMA InitStream == Init => StreamInv
<1> SUFFICES ASSUME Init PROVE StreamInv
  OBVIOUS
<1>1. ASSUME NEW a \in Attempt
      PROVE  StreamAt(a)
  BY DEF Init, StreamAt, InForce, NoRow, RelayIdle, Registered, HasRow
<1>2. NoLate
  BY DEF Init, NoLate, NoJob
<1> QED
  BY <1>1, <1>2, StreamSplit

LEMMA NextStream ==
  ASSUME Faults \subseteq {"crash"}
  PROVE  IInv /\ IInv' /\ LinkInv /\ StreamInv /\ [Next]_vars => StreamInv'
<1> SUFFICES ASSUME IInv, IInv', LinkInv, StreamInv, [Next]_vars PROVE StreamInv'
  OBVIOUS
<1>1. \A a \in Attempt : StreamAt(a)'
  BY StreamSplit, AttemptStream
<1>2. NoLate'
  BY StreamSplit, NoLateStep DEF IInv
<1>3. EventsOfRow'
  BY <1>1, <1>2 DEF EventsOfRow, StreamAt, NoLate
<1>4. StreamWhole'
  BY <1>1 DEF StreamWhole, StreamAt
<1>5. NoGap'
  BY <1>1 DEF NoGap, StreamAt
<1> QED
  BY <1>3, <1>4, <1>5 DEF StreamInv

\* Persist-before-send, cumulative acks, resend on resume: with crashes between
\* handlers, whatever is emitted beyond what the relay stored is in the events table.
THEOREM StreamInvariance ==
  ASSUME Faults \subseteq {"crash"}
  PROVE  Spec => []StreamInv
<1>1. IInv /\ IInv' /\ LinkInv /\ StreamInv /\ [Next]_vars => StreamInv'
  BY NextStream
<1> QED
  BY <1>1, Invariance, LinkInvariance, InitStream, PTL DEF Spec

\* onEvent writes the row before it sends, ackEvents deletes no more than the relay
\* has: an event the relay has not stored is never lost, whenever the daemon dies or
\* the link drops between handlers.
THEOREM EventsAreKept ==
  ASSUME Faults \subseteq {"crash"}
  PROVE  Spec => []NoEventLost
<1>1. IInv /\ LinkInv /\ StreamInv => NoEventLost
  <2> SUFFICES ASSUME IInv, LinkInv, StreamInv, NEW a \in Attempt, NEW s \in 1 .. MaxSeq,
                      \/ registry[a] = attempts[a].run /\ attempts[a].run # NoRun
                           /\ s <= job[attempts[a].run].seq
                      \/ HasRow(results, a) /\ s <= results[a].seq,
                      relay[a].run = attempts[a].run, s > relay[a].got
               PROVE  [seq |-> s, run |-> attempts[a].run] \in events[a]
    BY DEF NoEventLost
  <2>1. LinkAt(a) /\ StreamAt(a)
    BY LinkSplit, StreamSplit
  <2>2. Emitted(a, s)
    BY DEF Emitted, Registered, CurrentJob
  <2>3. HasRow(attempts, a) /\ attempts[a].run # NoRun
    BY <2>1 DEF IInv, RegistryBacked, ResultBacked, Registered, LinkAt
  <2>4. InForce(a)
    BY <2>1, <2>3 DEF LinkAt, InForce
  <2> QED
    BY <2>1, <2>2, <2>4 DEF StreamAt
<1> QED
  BY <1>1, Invariance, LinkInvariance, StreamInvariance, PTL

\* applyResume resends from the relay's prefix before the drain starts, and a live
\* frame follows the last one sent: the relay never sees a seq skipped.
THEOREM StreamHasNoGap ==
  ASSUME Faults \subseteq {"crash"}
  PROVE  Spec => []NoGap
<1>1. StreamInv => NoGap
  BY DEF StreamInv
<1> QED
  BY <1>1, StreamInvariance, PTL
=============================================================================
