------------------------------ MODULE EventLog ------------------------------
(***************************************************************************)
(* The daemon's durable store (src/store/eventlog.ts): three SQLite tables *)
(* keyed by attempt_id.  A table is a function on Attempt, a missing row   *)
(* is a null record, and each operator below is ONE prepared statement:    *)
(* it maps the table's value before the statement to its value after it.   *)
(* better-sqlite3 runs statements synchronously and each commits on its    *)
(* own (no transaction spans two of them), so the store survives a crash   *)
(* BETWEEN any two statements of a handler.                                *)
(*                                                                         *)
(* Payloads are abstracted to what the daemon and the relay can tell       *)
(* apart.  An event row keeps its seq and, as history, the run that wrote  *)
(* it; every event counts as one unit of bytes.  A result row keeps the    *)
(* run, the lease it is stamped with, its final status and its last seq.   *)
(***************************************************************************)
EXTENDS Integers, FiniteSets

CONSTANTS
  Attempt,    \* attempt_ids the relay hands out
  Run,        \* agent_run_ids: the identity of one JobState / EngineRun
  NoRun,      \* null
  MaxLease,   \* bound: leases per attempt are numbered 1..MaxLease, 0 is null
  MaxSeq      \* bound: events one run may emit

ASSUME RunAssumption == NoRun \notin Run
ASSUME BoundAssumption == MaxLease \in Nat /\ MaxSeq \in Nat

LeaseId == 0 .. MaxLease
RunRef == Run \cup {NoRun}
ActiveStatus == {"accepted", "running", "cancelling"}
FinalStatus == {"completed", "failed", "cancelled"}

-----------------------------------------------------------------------------
(* Rows.  The status "absent" marks a missing row.                         *)

AttemptRow == [lease : LeaseId, run : RunRef, lastSeq : 0 .. MaxSeq,
               status : ActiveStatus \cup FinalStatus \cup {"absent"}]
EventRow == [seq : 1 .. MaxSeq, run : Run]
ResultRow == [lease : LeaseId, run : RunRef, seq : 0 .. MaxSeq,
              status : FinalStatus \cup {"absent"}]

NoRow == [lease |-> 0, run |-> NoRun, lastSeq |-> 0, status |-> "absent"]
NoResult == [lease |-> 0, run |-> NoRun, seq |-> 0, status |-> "absent"]

HasRow(tbl, a) == tbl[a].status # "absent"

(* resultDigest: canonical JSON without id/ts; the lease is part of it.    *)
Digest(row) == [lease |-> row.lease, status |-> row.status, seq |-> row.seq]

-----------------------------------------------------------------------------
(* attempts                                                                *)

\* INSERT OR IGNORE: an existing row is left alone.
CreateAttempt(tbl, a, l, r) ==
  IF HasRow(tbl, a) THEN tbl
  ELSE [tbl EXCEPT ![a] = [lease |-> l, run |-> r, lastSeq |-> 0, status |-> "accepted"]]

\* UPDATEs touch nothing when the row is missing.
SetAttemptStatus(tbl, a, s) ==
  IF HasRow(tbl, a) THEN [tbl EXCEPT ![a].status = s] ELSE tbl

SetAttemptLease(tbl, a, l) ==
  IF HasRow(tbl, a) THEN [tbl EXCEPT ![a].lease = l] ELSE tbl

\* deleteAttempt's first statement; DeleteEvents is its second one.
DeleteAttemptRow(tbl, a) == [tbl EXCEPT ![a] = NoRow]

ActiveJobsForResume(tbl) == {a \in Attempt : tbl[a].status \in ActiveStatus}

-----------------------------------------------------------------------------
(* events                                                                  *)

\* PRIMARY KEY (attempt_id, seq): a second INSERT of the same key throws.
EventKeyTaken(tbl, a, s) == \E e \in tbl[a] : e.seq = s

\* appendEvent's first statement; RaiseLastSeq is its second one.
InsertEvent(tbl, a, s, r) == [tbl EXCEPT ![a] = @ \cup {[seq |-> s, run |-> r]}]

RaiseLastSeq(tbl, a, s) ==
  IF HasRow(tbl, a) /\ tbl[a].lastSeq < s THEN [tbl EXCEPT ![a].lastSeq = s] ELSE tbl

\* Mutant: the event right after the relay's prefix is not resent.
MutantEventsAfter(tbl, a, n) == {e \in tbl[a] : e.seq > n + 1}

EventsAfter(tbl, a, n) == {e \in tbl[a] : e.seq > n}

\* Mutant: a cumulative ack that also drops the first event it does not cover.
MutantAckEvents(tbl, a, n) == [tbl EXCEPT ![a] = {e \in @ : e.seq > n + 1}]

AckEvents(tbl, a, n) == [tbl EXCEPT ![a] = {e \in @ : e.seq > n}]

DeleteEvents(tbl, a) == [tbl EXCEPT ![a] = {}]

UnackedEvents(tbl, a) == Cardinality(tbl[a])

ConnUnacked(tbl) == Cardinality(UNION {{<<a, e>> : e \in tbl[a]} : a \in Attempt})

-----------------------------------------------------------------------------
(* results                                                                 *)

\* INSERT OR REPLACE: an earlier result of the attempt is overwritten.
SaveResult(tbl, a, row) == [tbl EXCEPT ![a] = row]

\* Lease, digest and payload move together.
UpdateResult(tbl, a, l) == IF HasRow(tbl, a) THEN [tbl EXCEPT ![a].lease = l] ELSE tbl

AckMatches(tbl, a, digest) == HasRow(tbl, a) /\ Digest(tbl[a]) = digest

DeleteResult(tbl, a) == [tbl EXCEPT ![a] = NoResult]

\* Mutant: a hello that never reports pending results.
MutantPendingResults(tbl) == {}

PendingResults(tbl) == {a \in Attempt : HasRow(tbl, a)}
=============================================================================
